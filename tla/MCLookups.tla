------------------------------ MODULE MCLookups ------------------------------
(***************************************************************************)
(* An instance of Lookups for TLC: two lanes, words of four bits.          *)
(***************************************************************************)
EXTENDS Lookups

\* Every table of up to four words in which each bit position is zero and one
\* somewhere; one of eight, of which every value is a different one; one that
\* has more words than the indices have non-negative values; and two of 128
\* words that together tell each word from each other one.
MCTables ==
  UNION {[0 .. n - 1 -> {1, 6, 13}] : n \in 0 .. 4}
  \cup {[a \in 0 .. 7 |-> (5 * a + 3) % 8], [a \in 0 .. 17 |-> (a + 3) % 16],
        [a \in 0 .. 127 |-> a % 16], [a \in 0 .. 127 |-> a \div 16]}

\* Every pair of indices.
MCIndices == [0 .. 1 -> 0 .. 31]
==============================================================================
