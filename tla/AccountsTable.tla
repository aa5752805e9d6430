---------------------------- MODULE AccountsTable ----------------------------
(***************************************************************************)
(* perf_test_accounts_table() of perf_jig/sched_ops.c, from the point      *)
(* where its three segments are mapped: transfers between accounts applied *)
(* eight at a time, with a conflict detection that keeps transfers which   *)
(* touch a common account out of one batch, and a scalar reference run on  *)
(* a second table that validates the result.                               *)
(*                                                                         *)
(* VL is the number of transfers a batch loads (8 in the code); the two    *)
(* accounts of each transfer make 2 * VL conflict lanes (16).              *)
(***************************************************************************)
EXTENDS MaskedPtrs

CONSTANTS AccountN,   \* accounts in the table, a power of two
          XferN,      \* transfers
          VL,         \* transfers loaded per batch
          BalMod,     \* balances are integers modulo BalMod (2^32)
          DeltaScale, \* deltas above it are divided by it (0x10000)
          RawXfers    \* contents of the random transfer array considered

ASSUME AccountsAssumption == AccountN \in Nat /\ AccountN > 1 /\ AccountN % 2 = 0
ASSUME WidthAssumption    == XferN \in Nat /\ VL \in Nat \ {0}
ASSUME NumbersAssumption  == BalMod \in Nat \ {0} /\ DeltaScale \in Nat \ {0}

Accounts == 0 .. AccountN - 1
Xfers    == 0 .. XferN - 1

ASSUME RawAssumption ==
  RawXfers \subseteq [Xfers -> [from : Nat, to : Nat, delta : Nat]]

VARIABLES phase,    \* "normalise", "scalar", "batch", "validate" or "done"
          xfer,     \* the transfer array
          account,  \* the table the batches work on
          alt,      \* the table of the scalar reference
          i,        \* the loop counter of the current phase
          verdict,  \* "none", "OK" or "failed": the outcome of the memcmp
          trace     \* history: trace[k] is alt after k transfers

vars == <<phase, xfer, account, alt, i, verdict, trace>>

\* The mapped segments, zeroed; the fields of account_t are kept apart.
ZeroTable == [balance |-> [a \in Accounts |-> 0],
              last_id |-> [a \in Accounts |-> 0]]

Init == /\ phase = "normalise"
        /\ xfer \in RawXfers
        /\ account = ZeroTable
        /\ alt = ZeroTable
        /\ i = 0
        /\ verdict = "none"
        /\ trace = [k \in {0} |-> ZeroTable]

(* ---- Preparing the transfers ----------------------------------------- *)

FlipLowBit(n) == IF n % 2 = 0 THEN n + 1 ELSE n - 1

\* Mutants of the next definition.
Cleaned_ToUnmasked(id, x) ==
  [id |-> id, from |-> x.from % AccountN, to |-> x.to, delta |-> x.delta]
Cleaned_SelfTransfer(id, x) ==
  [id |-> id, from |-> x.from % AccountN, to |-> x.to % AccountN, delta |-> x.delta]

\* One iteration of the loop at sched_ops.c:133-140.
Cleaned(id, x) ==
  LET from == x.from % AccountN
      to   == x.to % AccountN
  IN  [id    |-> id,
       from  |-> from,
       to    |-> IF from = to THEN FlipLowBit(to) ELSE to,
       delta |-> IF x.delta > DeltaScale THEN x.delta \div DeltaScale ELSE x.delta]

Normalise ==
  /\ phase = "normalise"
  /\ xfer' = [k \in Xfers |-> Cleaned(k, xfer[k])]
  /\ phase' = "scalar"
  /\ UNCHANGED <<account, alt, i, verdict, trace>>

(* ---- The scalar reference -------------------------------------------- *)

Minus(b, d) == (b - d) % BalMod
Plus(b, d)  == (b + d) % BalMod

\* One transfer, statement by statement.
Applied(t, x) ==
  LET debit  == [t.balance EXCEPT ![x.from] = Minus(@, x.delta)]
      credit == [debit EXCEPT ![x.to] = Plus(@, x.delta)]
  IN  [balance |-> credit,
       last_id |-> [t.last_id EXCEPT ![x.from] = x.id, ![x.to] = x.id]]

ScalarStep ==
  /\ phase = "scalar"
  /\ i < XferN
  /\ alt' = Applied(alt, xfer[i])
  /\ trace' = [k \in 0 .. i + 1 |-> IF k = i + 1 THEN alt' ELSE trace[k]]
  /\ i' = i + 1
  /\ UNCHANGED <<phase, xfer, account, verdict>>

ScalarEnd ==
  /\ phase = "scalar"
  /\ i >= XferN
  /\ phase' = "batch"
  /\ i' = 0
  /\ UNCHANGED <<xfer, account, alt, verdict, trace>>

(* ---- The batches ----------------------------------------------------- *)

\* The address of the first element of every array: any positive number.
Base == 1

Field(arr, name) == [k \in DOMAIN arr |-> arr[k][name]]

\* IDX_VEC(i64_8) + i
Idx == [l \in LaneIds(VL) |-> IdxVec(VL)[l] + i]

\* valid: the lanes with idx < xfer_n.
Loaded == {l \in LaneIds(VL) : Idx[l] < XferN}

XBatch == Invalidate([l \in LaneIds(VL) |-> Base + Idx[l]], LaneIds(VL) \ Loaded)

XField(name) == Gather(Field(xfer, name), Base, XBatch)

\* Mutants of the next definition.
Interleave_Unshuffled(f, t) ==
  [p \in LaneIds(2 * VL) |-> IF p < VL THEN f[p] ELSE t[p - VL]]

\* from0, to0, from1, to1, ... : the shuffle of sched_ops.c:177-179.
Interleave(f, t) ==
  [p \in LaneIds(2 * VL) |-> IF p % 2 = 0 THEN f[p \div 2] ELSE t[p \div 2]]

\* conf: the lanes whose account an earlier lane names too.
ConflictLanes(f, t) ==
  LET t2 == Conflict(LaneIds(2 * VL), Interleave(f, t))
  IN  {p \in LaneIds(2 * VL) : t2[p] # {}}

Lowest(S) == CHOOSE p \in S : \A q \in S : p <= q

\* Mutants of the next definition.
BatchCount_OneBelow(f, t) ==
  LET conf == ConflictLanes(f, t)
      n_ok == (Lowest(conf) - 1) \div 2
  IN  IF conf # {} /\ n_ok < PopCount(Loaded) THEN n_ok ELSE PopCount(Loaded)
BatchCount_Unchecked(f, t) == PopCount(Loaded)

\* How many transfers the batch makes: its lanes are that many low lanes.
BatchCount(f, t) ==
  LET conf == ConflictLanes(f, t)
      n_ok == Lowest(conf) \div 2
  IN  IF conf # {} /\ n_ok < PopCount(Loaded) THEN n_ok ELSE PopCount(Loaded)

\* The pointers to the accounts in column col, invalid outside the batch.
AccountPtrs(col, valid) ==
  Invalidate([l \in LaneIds(VL) |-> Base + col[l]], LaneIds(VL) \ valid)

BatchStep ==
  /\ phase = "batch"
  /\ i < XferN
  /\ i' = i + BatchCount(XField("from"), XField("to"))
  /\ LET valid   == LaneIds(i' - i)
         xid     == XField("id")
         delta   == XField("delta")
         from_b  == AccountPtrs(XField("from"), valid)
         to_b    == AccountPtrs(XField("to"), valid)
         oldFrom == Gather(account.balance, Base, from_b)
         oldTo   == Gather(account.balance, Base, to_b)
         newFrom == [l \in LaneIds(VL) |-> Minus(oldFrom[l], delta[l])]
         newTo   == [l \in LaneIds(VL) |-> Plus(oldTo[l], delta[l])]
         bal     == Scatter(account.balance, Base, from_b, newFrom)
         ids     == Scatter(account.last_id, Base, from_b, xid)
     IN  account' = [balance |-> Scatter(bal, Base, to_b, newTo),
                     last_id |-> Scatter(ids, Base, to_b, xid)]
  /\ UNCHANGED <<phase, xfer, alt, verdict, trace>>

BatchEnd ==
  /\ phase = "batch"
  /\ i >= XferN
  /\ phase' = "validate"
  /\ UNCHANGED <<xfer, account, alt, i, verdict, trace>>

Validate ==
  /\ phase = "validate"
  /\ verdict' = IF account = alt THEN "OK" ELSE "failed"
  /\ phase' = "done"
  /\ UNCHANGED <<xfer, account, alt, i, trace>>

Returned == phase = "done" /\ UNCHANGED vars

Next == Normalise \/ ScalarStep \/ ScalarEnd
        \/ BatchStep \/ BatchEnd \/ Validate \/ Returned

Spec == Init /\ [][Next]_vars

\* One thread runs the function from top to bottom and never waits.
FairSpec == Spec /\ WF_vars(Next)

------------------------------------------------------------------------------
(* Safety                                                                   *)

Tables == [balance : [Accounts -> 0 .. BalMod - 1], last_id : [Accounts -> Nat]]

TypeOK ==
  /\ phase \in {"normalise", "scalar", "batch", "validate", "done"}
  /\ phase = "normalise" => xfer \in RawXfers
  /\ phase # "normalise" =>
       xfer \in [Xfers -> [id : Xfers, from : Accounts, to : Accounts, delta : Nat]]
  /\ account \in Tables
  /\ alt \in Tables
  /\ i \in 0 .. XferN
  /\ verdict \in {"none", "OK", "failed"}
  /\ DOMAIN trace = (IF phase \in {"normalise", "scalar"} THEN 0 .. i ELSE Xfers \cup {XferN})
  /\ \A k \in DOMAIN trace : trace[k] \in Tables

\* Prefix equivalence: at every batch boundary the table holds exactly what
\* the scalar loop left after the same number of transfers: no update of a
\* batch is lost to another lane's, none is applied twice or out of order
\* ("prevent data races", sched_ops.c:230).
SerialEquivalence ==
  phase = "batch" => account = trace[i]

SumOf(f) ==
  LET sum[k \in 0 .. AccountN] == IF k = 0 THEN 0 ELSE sum[k - 1] + f[k - 1]
  IN  sum[AccountN]

\* Money is neither created nor destroyed by either loop, at any boundary.
Conservation == /\ SumOf(account.balance) % BalMod = 0
                /\ SumOf(alt.balance) % BalMod = 0

------------------------------------------------------------------------------
(* Action properties                                                        *)

Ends(k) == {xfer[k].from, xfer[k].to}

Independent(first, last) ==
  \A j, k \in first .. last : j # k => Ends(j) \cap Ends(k) = {}

\* A batch takes the longest run of independent transfers that fits the
\* vector, and never an empty one: the lanes past the last transfer, which
\* all read account 0, do not shorten it.
LongestRun ==
  LET full == i' = i + VL \/ i' = XferN
  IN  /\ i' > i
      /\ i' <= i + VL
      /\ Independent(i, i' - 1)
      /\ full \/ ~Independent(i, i')
BatchesAreMaximal == [][phase = "batch" /\ i < XferN => LongestRun]_vars

\* The function returns (a batch of zero transfers would loop for ever).
Returns == <>(verdict = "OK")
==============================================================================
