------------------------------- MODULE Lookups -------------------------------
(***************************************************************************)
(* The table lookups: single bits out of a table held in registers or in   *)
(* memory (lookup_*() of include/mask_util.h), whole words out of memory   *)
(* (gather_*_from_lookup_table_*() of include/sg_util.h), and bytes out of *)
(* four registers (translate_bytes_x64()); and the transposition of        *)
(* include/transpose_util.h (module Transpose), at its own width.          *)
(*                                                                         *)
(* A behaviour is one call: Init chooses its arguments and a step is a     *)
(* whole function.  The widths are scaled down together: a vector has N    *)
(* lanes, a word W bits, an index lane IdxBits bits; a byte has as many    *)
(* values as four vectors have lanes.  A table is a function on the word   *)
(* numbers 0 .. len-1; a register table is one of N or 2 * N words.        *)
(***************************************************************************)
EXTENDS Transpose

CONSTANTS N,        \* lanes of a vector
          W,        \* bits of a word
          IdxBits,  \* bits of an index lane
          Tables,   \* the tables considered
          Indices   \* the index vectors considered

\* 1 << k, written so that it can be reasoned about.
Pow2[k \in Nat] == IF k = 0 THEN 1 ELSE 2 * Pow2[k - 1]

PowersOfTwo == {Pow2[k] : k \in 0 .. 8}

ASSUME WidthAssumption ==
  N \in PowersOfTwo /\ W \in PowersOfTwo \ {1} /\ IdxBits \in Nat \ {0}
ASSUME InputAssumption ==
  /\ \A t \in Tables : /\ IsFiniteSet(DOMAIN t)
                      /\ t \in [0 .. Cardinality(DOMAIN t) - 1 -> 0 .. Pow2[W] - 1]
  /\ Indices \subseteq [LaneIds(N) -> 0 .. Pow2[IdxBits] - 1]

VARIABLES table,   \* the table
          idx,     \* one index per lane
          call,    \* the function that has returned, or "none"
          out,     \* what it returned, a mask or a vector
          reads    \* the words of the table in memory it has read

vars == <<table, idx, call, out, reads>>

\* The number of words of the table, the functions' tsize.
Size == Cardinality(DOMAIN table)

Msb(bits) == Pow2[bits - 1]

Init == /\ table \in Tables
        /\ idx \in Indices
        /\ call = "none"
        /\ out = {}
        /\ reads = {}

Returns(fn, result, mem) ==
  /\ call = "none"
  /\ call' = fn
  /\ out' = result
  /\ reads' = mem
  /\ UNCHANGED <<table, idx>>

(* ---- Single bits ----------------------------------------------------- *)

\* Mutants of the next definition.
BitShift_Straight(i) == i % W

\* The distance that brings bit i of a word to the sign bit.
BitShift(i) == (W - 1) - (i % W)

\* The vector of words moved left by BitShift(i), in W bits, as a mask.
SelectBits(words, i) ==
  VecToMask(Msb(W), [l \in DOMAIN words |-> (words[l] * Pow2[BitShift(i[l])]) % Pow2[W]])

WordOf(i) == [l \in DOMAIN i |-> i[l] \div W]

\* lookup_256_bit_x8(), lookup_512_bit_x16(): the table is one vector.
LookupRegister ==
  LET i == [l \in LaneIds(N) |-> idx[l] % (N * W)]
  IN  /\ Size = N
      /\ Returns("register", SelectBits(Permute(WordOf(i), table), i), {})

\* lookup_1024_bit_x16(): the table is two vectors.
LookupPair ==
  LET i  == [l \in LaneIds(N) |-> idx[l] % (2 * N * W)]
      lo == [l \in LaneIds(N) |-> table[l]]
      hi == [l \in LaneIds(N) |-> table[N + l]]
  IN  /\ Size = 2 * N
      /\ Returns("pair", SelectBits(Permute2(N, lo, WordOf(i), hi), i), {})

(* ---- Gathers --------------------------------------------------------- *)

\* vpgatherd takes the index lanes as signed.
Signed(i) == IF i < Msb(IdxBits) THEN i ELSE i - Pow2[IdxBits]

\* The words of memory the lanes m read.
Touched(m, i) == {Signed(i[l]) : l \in m}

\* vpgatherd{m} into zero.
GatherMem(m, i) ==
  [l \in DOMAIN i |-> IF l \in m /\ Signed(i[l]) \in DOMAIN table
                      THEN table[Signed(i[l])] ELSE 0]

\* lookup_P2_bit_x8(), lookup_P2_bit_x16(); tblbits / BIT_SIZE(*table) is Size.
LookupMemory ==
  LET tidx == WordOf(idx)
      gm   == {l \in LaneIds(N) : tidx[l] < Size}
  IN  Returns("memory", SelectBits(GatherMem(gm, tidx), idx), Touched(gm, tidx))

\* Mutants of the next definition.
MinMax_Tsize == Size

\* (tsize < MSB32) ? tsize : MSB32
MinMax == IF Size < Msb(IdxBits) THEN Size ELSE Msb(IdxBits)

\* gather_u32_from_lookup_table_x8/_x16(), gather_u64_from_lookup_table_x8().
GatherWords ==
  LET lanes == {l \in LaneIds(N) : idx[l] < MinMax}
  IN  Returns("gather", GatherMem(lanes, idx), Touched(lanes, idx))

(* ---- Bytes ----------------------------------------------------------- *)

\* Mutants of the next definition.
Reg_Interleaved(r) == [l \in LaneIds(N) |-> table[4 * l + r]]

\* table->reg[r] of the union with table->u8.
Reg(r) == [l \in LaneIds(N) |-> table[r * N + l]]

\* The lanes of m of v, zero in the others.
MaskZero(m, v) == [l \in DOMAIN v |-> IF l \in m THEN v[l] ELSE 0]

\* t0 | t1 of vectors of which one is zero in every lane.
Either(t0, t1) == [l \in DOMAIN t0 |-> t0[l] + t1[l]]

TranslateBytes ==
  LET b7 == VecToMask(2 * N, idx)
      t0 == MaskZero(LaneIds(N) \ b7, Permute2(N, Reg(0), idx, Reg(1)))
      t1 == MaskZero(b7, Permute2(N, Reg(2), idx, Reg(3)))
  IN  /\ Size = 4 * N
      /\ \A l \in LaneIds(N) : idx[l] < 4 * N
      /\ Returns("bytes", Either(t0, t1), {})

(* ---- Transposition --------------------------------------------------- *)

\* The table as transpose_func() takes it, and memory laid out by its result.
Block      == [z \in 0 .. 7 |-> [l \in LaneIds(16) |-> table[16 * z + l]]]
Flat(rows) == [a \in 0 .. 127 |-> rows[a \div 16][a % 16]]

TransposeBlock ==
  /\ Size = 128
  /\ Returns("transpose", Flat(TransposeFunc(Block)), {})

\* The 64-bit fields of a struct have their words brought together again
\* (test_mixed_transpose()).
TransposeFields ==
  /\ Size = 128
  /\ LET out_z == TransposeFunc(Block)
     IN  Returns("fields", Flat([z \in 0 .. 7 |-> Deinterleave(out_z[z])]), {})

Stopped == call # "none" /\ UNCHANGED vars

Next == \/ LookupRegister \/ LookupPair \/ LookupMemory \/ GatherWords
        \/ TranslateBytes \/ TransposeBlock \/ TransposeFields \/ Stopped

Spec == Init /\ [][Next]_vars

------------------------------------------------------------------------------
(* Properties                                                               *)

\* Bit i of the table, its words one after the other from bit 0 up.
TableBit(i) == (table[i \div W] \div Pow2[i % W]) % 2

\* The lanes whose bit of the table is one.
Ones(i, in) == {l \in LaneIds(N) : in[l] /\ TableBit(i[l]) = 1}

\* Every bit lookup returns exactly the bits the scalar loop
\* (table[idx / W] >> (idx % W)) & 1 finds: the register forms after the index
\* is cut to the size of the table, the memory form with zero past its end.
BitLookupsExact ==
  LET Modulo(k) == [l \in LaneIds(N) |-> idx[l] % k]
      All == [l \in LaneIds(N) |-> TRUE]
  IN  /\ call = "register" => out = Ones(Modulo(N * W), All)
      /\ call = "pair" => out = Ones(Modulo(2 * N * W), All)
      /\ call = "memory" => out = Ones(idx, [l \in LaneIds(N) |-> idx[l] < Size * W])

\* No gather reads outside its table, whatever the indices: those past the end
\* are masked and those the instruction would take as negative do not pass
\* the bound.
GathersInBounds == reads \subseteq DOMAIN table

\* A lookup of whole elements gives each lane the element its index names: a
\* gather the word below the size of the table and zero from there on, a byte
\* translation that of each value of a byte.  Left out are the indices below
\* the size but beyond the signed range: the comments (sg_util.h:183, 197, 211)
\* promise the word, and the code, which cannot gather it, gives zero.
ElementsExact ==
  /\ call = "gather" =>
       \A l \in LaneIds(N) : idx[l] < Msb(IdxBits) \/ idx[l] >= Size =>
         out[l] = IF idx[l] < Size THEN table[idx[l]] ELSE 0
  /\ call = "bytes" => out = [l \in LaneIds(N) |-> table[idx[l]]]

\* The shuffles put word r of struct s at place s of array r, and after the
\* second step the words 2r and 2r + 1 of struct s side by side at place s of
\* array r of 64-bit lanes.
Transposed ==
  /\ call = "transpose" => \A r \in 0 .. 15, s \in 0 .. 7 : out[8 * r + s] = table[16 * s + r]
  /\ call = "fields" =>
       \A r, s \in 0 .. 7 : \A h \in {0, 1} :
         out[16 * r + 2 * s + h] = table[16 * s + 2 * r + h]
==============================================================================
