------------------------------ MODULE Transpose ------------------------------
(***************************************************************************)
(* include/transpose_util.h: eight structs of sixteen words, one per       *)
(* vector, are turned into sixteen arrays of eight words by three rounds   *)
(* of two-vector permutes.  A block is a function from the numbers 0 .. 7  *)
(* of its vectors to vectors of 16 lanes.                                  *)
(***************************************************************************)
EXTENDS Lanes

\* 0x00, 0x10, 0x01, 0x11, ...: the low halves of two vectors, alternating.
Idx0a == [l \in LaneIds(16) |-> (l \div 2) + 16 * (l % 2)]

\* Mutants of the next definition.
Idx1a_AsIdx0a == Idx0a

\* 0x00 .. 0x03, 0x10 .. 0x13, 0x04, ...: the same by groups of four.
Idx1a == [l \in LaneIds(16) |-> 4 * (l \div 8) + (l % 4) + 16 * ((l \div 4) % 2)]

Idx0b == [l \in LaneIds(16) |-> Idx0a[l] + 8]
Idx1b == [l \in LaneIds(16) |-> Idx1a[l] + 8]

\* t0 .. t3 of the vectors r .. r + 3, or t4 .. t7.
Quarter(in, r) ==
  LET a02 == Permute2(16, in[r], Idx0a, in[r + 2])
      b02 == Permute2(16, in[r], Idx0b, in[r + 2])
      a13 == Permute2(16, in[r + 1], Idx0a, in[r + 3])
      b13 == Permute2(16, in[r + 1], Idx0b, in[r + 3])
  IN  <<Permute2(16, a02, Idx0a, a13), Permute2(16, a02, Idx0b, a13),
        Permute2(16, b02, Idx0a, b13), Permute2(16, b02, Idx0b, b13)>>

TransposeFunc(in) ==
  LET lo == Quarter(in, 0)
      hi == Quarter(in, 4)
  IN  [z \in 0 .. 7 |-> LET t == z \div 2 + 1
                        IN  Permute2(16, lo[t], IF z % 2 = 0 THEN Idx1a ELSE Idx1b, hi[t])]

\* deinterleave_u32_16(): the words 0 and 8, 1 and 9, ... become neighbours,
\* the halves of 64-bit lanes.
Deinterleave(in) == Permute([l \in LaneIds(16) |-> (l \div 2) + 8 * (l % 2)], in)
==============================================================================
