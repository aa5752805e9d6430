--------------------------- MODULE MCAccountsSmall ---------------------------
(***************************************************************************)
(* A small instance of AccountsTable for TLC: every array of four          *)
(* transfers drawn from a set of eleven.                                   *)
(***************************************************************************)
EXTENDS AccountsTable

\* Transfers to account 0 (which the lanes past the end read), to the next
\* account (the last of them out of the table before it is masked) and to the
\* account itself; different transfers move different amounts.  There are
\* enough accounts for a full vector without a conflict.
MCRawXfers ==
  [Xfers -> UNION {{[from |-> f, to |-> t, delta |-> 3 * f + t + 1] :
                       t \in {0, f, f + 1}} : f \in {0, 2, 5, 7}}]
==============================================================================
