--------------------------- MODULE MCAccountsWide ----------------------------
(***************************************************************************)
(* AccountsTable at the code's register width for TLC.                     *)
(***************************************************************************)
EXTENDS AccountsTable

\* Strides over the table: the accounts of the transfers meet again after
\* different distances, on either side, and there are self transfers; some
\* deltas are above the scale.
Strided ==
  {[k \in Xfers |-> [from |-> p * k + 7, to |-> q * k * k + s, delta |-> 37 * k]] :
      p \in {1, 3}, q \in {0, 1, 5}, s \in {0, 8, 11}}

\* Pairs of neighbouring accounts, all different but that every c-th transfer
\* goes to the account the one before it went to: batches of every length up
\* to c, and for c above VL full vectors without a conflict.
Runs ==
  {[k \in Xfers |->
      [from |-> 2 * k + r, to |-> IF k % c = 0 THEN 2 * k + r + 31 ELSE 2 * k + r + 1,
       delta |-> 37 * k]] :
      c \in 1 .. VL + 1, r \in {0, 7}}

MCRawXfers == Strided \cup Runs
==============================================================================
