-------------------------------- MODULE Lanes --------------------------------
(***************************************************************************)
(* The AVX-512 vocabulary the utilities are written in.                    *)
(*                                                                         *)
(* A vector of w lanes is a function on 0 .. w-1 (lane 0 is the lowest     *)
(* lane); a __mmask is the set of the lanes whose bit is one.  Each        *)
(* operator is one instruction (or the wrapper the library puts around     *)
(* it) seen as a function of whole vectors.                                *)
(***************************************************************************)
EXTENDS Integers, FiniteSets

\* All the lanes of a vector of w lanes; also the mask (1U << w) - 1.
LaneIds(w) == 0 .. w - 1

\* IDX_VEC: every lane holds its own number.
IdxVec(w) == [l \in LaneIds(w) |-> l]

\* VEC_TO_MASK: the lanes of v whose most significant bit is one, in elements
\* of which msb is that bit.
VecToMask(msb, v) == {l \in DOMAIN v : v[l] >= msb}

\* MASK_TO_VEC: all bits of a lane are set, -1, or clear as in mask m.
MaskToVec(lanes, m) == [l \in lanes |-> IF l \in m THEN -1 ELSE 0]

\* MUX_ON_MASK: the lanes of m from t, the others from f.
Mux(m, t, f) == [l \in DOMAIN t |-> IF l \in m THEN t[l] ELSE f[l]]

(* ---- Counting lanes of a mask ---------------------------------------- *)

\* popcount of a mask.
PopCount(m) == Cardinality(m)

\* How many lanes of mask m lie below lane l: the place lane l takes when
\* the lanes of m are packed to the low end.
Rank(m, l) == Cardinality({k \in m : k < l})

\* The lane of m that is packed to place j.
Nth(m, j) == CHOOSE k \in m : Rank(m, k) = j

(* ---- Memory and vectors ---------------------------------------------- *)

\* vmovdqu32 zmm{m}{z}: the lanes of m from mem[base ..], zero elsewhere.
MaskzLoad(w, m, mem, base) ==
  [l \in LaneIds(w) |-> IF l \in m THEN mem[base + l] ELSE 0]

\* vmovdqu32 mem{m}: the lanes of m of v to mem[base ..], the rest of the
\* memory untouched.
MaskStore(mem, base, m, v) ==
  [a \in DOMAIN mem |-> IF a - base \in m THEN v[a - base] ELSE mem[a]]

(* ---- Conflict detection ---------------------------------------------- *)

\* Mutants of the next definition.
Conflict_WithLater(m, v) ==
  [l \in DOMAIN v |-> IF l \in m THEN {k \in m : k > l /\ v[k] = v[l]} ELSE {}]
Conflict_Adjacent(m, v) ==
  [l \in DOMAIN v |-> IF l \in m THEN {k \in m : k = l - 1 /\ v[k] = v[l]} ELSE {}]

\* vpconflictd{m}{z}: for each lane of m the set of the EARLIER lanes that
\* hold an equal element, the empty set (zero) in the other lanes.
Conflict(m, v) ==
  [l \in DOMAIN v |-> IF l \in m THEN {k \in DOMAIN v : k < l /\ v[k] = v[l]}
                                 ELSE {}]

(* ---- Moving lanes ---------------------------------------------------- *)

\* vpcompressd{m}{z}: the lanes of m packed to the low end, then zeroes.
Compress(m, v) ==
  [l \in DOMAIN v |-> IF l < PopCount(m) THEN v[Nth(m, l)] ELSE 0]

\* vpexpandd{m}: consecutive low lanes of v spread over the lanes of m, the
\* other lanes taken from src.
Expand(src, m, v) ==
  [l \in DOMAIN v |-> IF l \in m THEN v[Rank(m, l)] ELSE src[l]]

\* vpermd: lane l of the result is lane sw[l] of v.
Permute(sw, v) == [l \in DOMAIN sw |-> v[sw[l]]]

\* vpermt2d: the same over two vectors of w lanes, lo and hi, one after the
\* other; the bits of sw above the lane number are ignored.
Permute2(w, lo, sw, hi) ==
  [l \in DOMAIN sw |-> LET s == sw[l] % (2 * w) IN IF s < w THEN lo[s] ELSE hi[s - w]]
==============================================================================
