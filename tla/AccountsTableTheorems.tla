------------------------ MODULE AccountsTableTheorems -------------------------
(***************************************************************************)
(* Proofs about AccountsTable, for every number of accounts, transfers and *)
(* lanes, every modulus of the balances and all transfers: the batches     *)
(* leave the table as the scalar loop does, step by step.                  *)
(***************************************************************************)
EXTENDS AccountsTable, LanesTheorems

USE AccountsAssumption, WidthAssumption, NumbersAssumption

------------------------------------------------------------------------------
(* Masked pointers to array elements                                        *)

Lns == LaneIds(VL)

(***************************************************************************)
(* What a gather through the pointers of the lanes of valid loads.         *)
(***************************************************************************)
LEMMA GatherLanes ==
  ASSUME NEW col, \A l \in Lns : col[l] \in Nat, NEW valid \in SUBSET Lns,
         NEW mem, NEW l \in Lns
  PROVE  Gather(mem, Base, AccountPtrs(col, valid))[l] = IF l \in valid THEN mem[col[l]] ELSE 0
<1> DEFINE p == AccountPtrs(col, valid)
<1>1. p = [m \in Lns |-> IF m \in valid THEN 1 + col[m] ELSE -1]
  <2>1. \A m \in Lns : m \in valid <=> m \notin Lns \ valid
    OBVIOUS
  <2>2. QED
    BY <2>1 DEF AccountPtrs, Invalidate, MaskToVec, Base, Lns
<1> HIDE DEF p
<1>2. CASE l \in valid
  <2>1. p[l] = 1 + col[l] /\ col[l] \in Nat
    BY <1>1, <1>2
  <2>2. ValidPtr(p[l]) /\ p[l] - Base = col[l]
    BY <2>1 DEF ValidPtr, Base
  <2>3. Gather(mem, Base, p)[l] = mem[col[l]]
    BY <1>1, <2>2 DEF Gather
  <2>4. QED
    BY <1>2, <2>3 DEF p
<1>3. CASE l \notin valid
  <2>1. ~ ValidPtr(p[l])
    BY <1>1, <1>3 DEF ValidPtr
  <2>2. Gather(mem, Base, p)[l] = 0
    BY <1>1, <2>1 DEF Gather
  <2>3. QED
    BY <1>3, <2>2 DEF p
<1>4. QED
  BY <1>2, <1>3

(***************************************************************************)
(* A scatter through the pointers of the lanes of valid stores the element *)
(* of the only lane that names a place, and nothing where none does.       *)
(***************************************************************************)
LEMMA ScatterLanes ==
  ASSUME NEW col, \A l \in Lns : col[l] \in Nat, NEW valid \in SUBSET Lns,
         NEW mem, NEW v, NEW a \in DOMAIN mem, a \in Nat
  PROVE  LET new == Scatter(mem, Base, AccountPtrs(col, valid), v)
         IN  /\ (\A l \in valid : col[l] # a) => new[a] = mem[a]
             /\ \A l \in valid :
                  (\A m \in valid : col[m] = a <=> m = l) => new[a] = v[l]
<1> DEFINE p == AccountPtrs(col, valid)
           new == Scatter(mem, Base, p, v)
           writers == {l \in DOMAIN p : ValidPtr(p[l]) /\ p[l] = Base + a}
<1>1. p = [m \in Lns |-> IF m \in valid THEN 1 + col[m] ELSE -1]
  <2>1. \A m \in Lns : m \in valid <=> m \notin Lns \ valid
    OBVIOUS
  <2>2. QED
    BY <2>1 DEF AccountPtrs, Invalidate, MaskToVec, Base, Lns
<1> HIDE DEF p
<1>2. writers = {l \in valid : col[l] = a}
  <2>1. \A m \in Lns : (ValidPtr(p[m]) /\ p[m] = Base + a) <=> (m \in valid /\ col[m] = a)
    BY <1>1 DEF ValidPtr, Base
  <2>2. QED
    BY <1>1, <2>1
<1>3. new[a] = IF writers = {} THEN mem[a] ELSE v[CHOOSE l \in writers : \A x \in writers : x <= l]
  BY DEF Scatter
<1> HIDE DEF new, writers
<1>4. (\A l \in valid : col[l] # a) => new[a] = mem[a]
  BY <1>2, <1>3
<1>5. ASSUME NEW l \in valid, \A m \in valid : col[m] = a <=> m = l
      PROVE  new[a] = v[l]
  <2>1. l \in writers /\ \A m \in writers : m = l
    BY <1>2, <1>5
  <2>2. \A x \in writers : x <= l
    <3>1. l \in Nat
      BY DEF Lns, LaneIds
    <3>2. QED
      BY <2>1, <3>1
  <2>3. (CHOOSE m \in writers : \A x \in writers : x <= m) = l
    BY <2>1, <2>2
  <2>4. QED
    BY <1>3, <2>1, <2>3
<1>6. QED
  BY <1>4, <1>5 DEF new, p

------------------------------------------------------------------------------
(* One transfer                                                             *)

\* A transfer as the loops see it.
Transfers == [id : Xfers, from : Accounts, to : Accounts, delta : Nat]

(***************************************************************************)
(* A normalised transfer is between two different accounts.                *)
(***************************************************************************)
LEMMA CleanedTransfer ==
  ASSUME NEW id \in Xfers, NEW x \in [from : Nat, to : Nat, delta : Nat]
  PROVE  /\ Cleaned(id, x) \in Transfers
         /\ Cleaned(id, x).id = id /\ Cleaned(id, x).from # Cleaned(id, x).to
<1>1. PICK f \in Nat, t \in Nat, d \in Nat : f = x.from /\ t = x.to /\ d = x.delta
  OBVIOUS
<1>2. f % AccountN \in Accounts /\ t % AccountN \in Accounts
  BY DEF Accounts
<1>3. ASSUME NEW a \in Accounts PROVE FlipLowBit(a) \in Accounts /\ FlipLowBit(a) # a
  <2>1. PICK n \in Nat : n = AccountN /\ n % 2 = 0 /\ n > 1
    OBVIOUS
  <2>2. a \in Nat /\ a < n
    BY <2>1 DEF Accounts
  <2>3. CASE a % 2 = 0
    <3>1. a + 1 < n
      BY <2>1, <2>2, <2>3
    <3>2. QED
      BY <2>1, <2>2, <2>3, <3>1 DEF Accounts, FlipLowBit
  <2>4. CASE a % 2 # 0
    <3>1. a > 0
      BY <2>2, <2>4
    <3>2. QED
      BY <2>1, <2>2, <2>4, <3>1 DEF Accounts, FlipLowBit
  <2>5. QED
    BY <2>3, <2>4
<1>4. (IF d > DeltaScale THEN d \div DeltaScale ELSE d) \in Nat
  OBVIOUS
<1>5. QED
  BY <1>1, <1>2, <1>3, <1>4 DEF Cleaned, Transfers

(***************************************************************************)
(* Balances stay in their range.                                           *)
(***************************************************************************)
LEMMA BalanceRange ==
  ASSUME NEW b \in 0 .. BalMod - 1, NEW d \in Nat
  PROVE  Minus(b, d) \in 0 .. BalMod - 1 /\ Plus(b, d) \in 0 .. BalMod - 1
<1>1. b - d \in Int /\ b + d \in Int
  OBVIOUS
<1>2. QED
  BY <1>1 DEF Minus, Plus

(***************************************************************************)
(* What one transfer between two accounts does to each account.            *)
(***************************************************************************)
LEMMA AppliedAt ==
  ASSUME NEW t \in Tables, NEW x \in Transfers, x.from # x.to
  PROVE  /\ Applied(t, x) \in Tables
         /\ Applied(t, x).balance[x.from] = Minus(t.balance[x.from], x.delta)
         /\ Applied(t, x).balance[x.to] = Plus(t.balance[x.to], x.delta)
         /\ Applied(t, x).last_id[x.from] = x.id
         /\ Applied(t, x).last_id[x.to] = x.id
         /\ \A a \in Accounts \ {x.from, x.to} :
              /\ Applied(t, x).balance[a] = t.balance[a]
              /\ Applied(t, x).last_id[a] = t.last_id[a]
<1>1. /\ t.balance \in [Accounts -> 0 .. BalMod - 1] /\ t.last_id \in [Accounts -> Nat]
      /\ x.from \in Accounts /\ x.to \in Accounts /\ x.delta \in Nat /\ x.id \in Nat
  BY DEF Tables, Transfers, Xfers
<1>2. PICK f \in Accounts, g \in Accounts, d \in Nat, n \in Nat :
        f = x.from /\ g = x.to /\ d = x.delta /\ n = x.id
  BY <1>1
<1>3. \A a \in Accounts : /\ Minus(t.balance[a], d) \in 0 .. BalMod - 1
                          /\ Plus(t.balance[a], d) \in 0 .. BalMod - 1
  BY <1>1, BalanceRange
<1>4. PICK u : u = Applied(t, x)
  OBVIOUS
<1>5. /\ u = [balance |-> u.balance, last_id |-> u.last_id]
      /\ u.balance = [[t.balance EXCEPT ![f] = Minus(@, d)] EXCEPT ![g] = Plus(@, d)]
      /\ u.last_id = [t.last_id EXCEPT ![f] = n, ![g] = n]
  BY <1>2, <1>4 DEF Applied
<1>6. u.balance \in [Accounts -> 0 .. BalMod - 1] /\ u.last_id \in [Accounts -> Nat]
  BY <1>1, <1>2, <1>3, <1>5
<1>7. u \in Tables
  BY <1>5, <1>6 DEF Tables
<1>8. /\ u.balance[f] = Minus(t.balance[f], d) /\ u.balance[g] = Plus(t.balance[g], d)
      /\ u.last_id[f] = n /\ u.last_id[g] = n
      /\ \A a \in Accounts \ {f, g} : u.balance[a] = t.balance[a] /\ u.last_id[a] = t.last_id[a]
  BY <1>1, <1>2, <1>5
<1>9. QED
  BY <1>2, <1>4, <1>7, <1>8

------------------------------------------------------------------------------
(* What a batch is made of                                                  *)

\* The transfers after they were prepared.
Prepared ==
  /\ xfer \in [Xfers -> Transfers]
  /\ \A k \in Xfers : xfer[k].id = k /\ xfer[k].from # xfer[k].to

\* The loop of the batches is about to make one.
AtBatch == Prepared /\ i \in Nat /\ i < XferN

From  == XField("from")
To    == XField("to")
Count == BatchCount(From, To)

\* How many transfers are loaded.
LoadedN == IF XferN - i < VL THEN XferN - i ELSE VL

(***************************************************************************)
(* The lanes that are loaded are the low ones.                             *)
(***************************************************************************)
LEMMA LoadedLanes ==
  ASSUME AtBatch
  PROVE  /\ Loaded = {l \in Lns : i + l < XferN} /\ Loaded = LaneIds(LoadedN)
         /\ LoadedN \in 1 .. VL /\ i + LoadedN <= XferN
         /\ PopCount(Loaded) = LoadedN
<1>1. i \in Nat /\ XferN \in Nat /\ i < XferN /\ VL \in Nat /\ VL > 0
  BY DEF AtBatch
<1>2. LoadedN \in 1 .. VL /\ i + LoadedN <= XferN
  BY <1>1 DEF LoadedN
<1>3. Loaded = {l \in Lns : i + l < XferN}
  <2>1. \A l \in Lns : Idx[l] = i + l
    BY <1>1 DEF Idx, IdxVec, Lns, LaneIds
  <2>2. QED
    BY <2>1 DEF Loaded, Lns
<1>4. Loaded = LaneIds(LoadedN)
  <2>1. \A l \in Nat : (l < VL /\ i + l < XferN) <=> l < LoadedN
    BY <1>1 DEF LoadedN
  <2>2. \A l : l \in Loaded <=> l \in Nat /\ l < VL /\ i + l < XferN
    BY <1>1, <1>3 DEF Lns, LaneIds
  <2>3. \A l : l \in LaneIds(LoadedN) <=> l \in Nat /\ l < LoadedN
    BY <1>2 DEF LaneIds
  <2>4. QED
    BY <2>1, <2>2, <2>3
<1>5. PopCount(Loaded) = LoadedN
  BY <1>2, <1>4, PopCountLaneIds
<1>6. QED
  BY <1>2, <1>3, <1>4, <1>5

(***************************************************************************)
(* What the columns of the transfers hold.                                 *)
(***************************************************************************)
LEMMA Columns ==
  ASSUME AtBatch, NEW l \in Lns
  PROVE  /\ l \in LaneIds(LoadedN) =>
              /\ i + l \in Xfers
              /\ From[l] = xfer[i + l].from /\ To[l] = xfer[i + l].to
              /\ XField("id")[l] = i + l /\ XField("delta")[l] = xfer[i + l].delta
         /\ From[l] \in Accounts /\ To[l] \in Accounts
<1>1. \A m \in Lns : Idx[m] \in Nat /\ Idx[m] = i + m
  BY DEF AtBatch, Idx, IdxVec, Lns, LaneIds
<1>2. Loaded \in SUBSET Lns /\ Loaded = LaneIds(LoadedN)
      /\ Loaded = {m \in Lns : i + m < XferN}
  BY LoadedLanes
<1>3. XBatch = AccountPtrs(Idx, Loaded)
  BY DEF XBatch, AccountPtrs
<1>4. \A name : XField(name)[l] = IF l \in Loaded THEN Field(xfer, name)[i + l] ELSE 0
  BY <1>1, <1>2, <1>3, GatherLanes DEF XField
<1>5. 0 \in Accounts
  BY DEF Accounts
<1>6. CASE l \in Loaded
  <2>1. i + l \in Xfers
    BY <1>2, <1>6 DEF AtBatch, Lns, LaneIds, Xfers
  <2>2. xfer[i + l] \in Transfers /\ xfer[i + l].id = i + l /\ DOMAIN xfer = Xfers
    BY <2>1 DEF AtBatch, Prepared
  <2>3. \A name : Field(xfer, name)[i + l] = xfer[i + l][name]
    BY <2>1, <2>2 DEF Field
  <2>4. \A name : XField(name)[l] = xfer[i + l][name]
    BY <1>4, <1>6, <2>3
  <2>5. /\ From[l] = xfer[i + l].from /\ To[l] = xfer[i + l].to
        /\ XField("id")[l] = xfer[i + l].id /\ XField("delta")[l] = xfer[i + l].delta
    BY <2>4 DEF From, To
  <2>6. xfer[i + l].from \in Accounts /\ xfer[i + l].to \in Accounts
    BY <2>2 DEF Transfers
  <2>7. QED
    BY <1>2, <2>1, <2>2, <2>5, <2>6
<1>7. CASE l \notin Loaded
  <2>1. From[l] = 0 /\ To[l] = 0
    BY <1>4, <1>7 DEF From, To
  <2>2. QED
    BY <1>2, <1>5, <1>7, <2>1
<1>8. QED
  BY <1>6, <1>7

\* The interleaved columns the conflict detection looks at.
Pairs == Interleave(From, To)
Confs == ConflictLanes(From, To)

(***************************************************************************)
(* Transfer l of the batch has the lanes 2l and 2l + 1 of the conflict     *)
(* detection.                                                              *)
(***************************************************************************)
LEMMA PairLanes ==
  ASSUME AtBatch, NEW l \in LaneIds(LoadedN)
  PROVE  /\ l \in Lns /\ i + l \in Xfers /\ l \in Nat /\ l < LoadedN
         /\ 2 * l \in LaneIds(2 * VL) /\ 2 * l + 1 \in LaneIds(2 * VL)
         /\ Pairs[2 * l] = xfer[i + l].from /\ Pairs[2 * l + 1] = xfer[i + l].to
<1>1. LoadedN \in 1 .. VL
  BY LoadedLanes
<1>2. l \in Lns /\ l \in Nat /\ l < LoadedN
  BY <1>1 DEF Lns, LaneIds
<1>3. /\ i + l \in Xfers /\ From[l] = xfer[i + l].from /\ To[l] = xfer[i + l].to
  BY <1>2, Columns
<1>4. 2 * l \in LaneIds(2 * VL) /\ 2 * l + 1 \in LaneIds(2 * VL)
  BY <1>1, <1>2 DEF LaneIds
<1>5. /\ (2 * l) % 2 = 0 /\ (2 * l) \div 2 = l
      /\ (2 * l + 1) % 2 = 1 /\ (2 * l + 1) \div 2 = l
  BY <1>2
<1>6. Pairs[2 * l] = From[l] /\ Pairs[2 * l + 1] = To[l]
  BY <1>4, <1>5 DEF Pairs, Interleave
<1>7. QED
  BY <1>2, <1>3, <1>4, <1>6

(***************************************************************************)
(* A conflict is with a lower lane that names the same account.            *)
(***************************************************************************)
LEMMA Conflicts ==
  Confs = {p \in LaneIds(2 * VL) : \E k \in LaneIds(2 * VL) : k < p /\ Pairs[k] = Pairs[p]}
<1>1. DOMAIN Pairs = LaneIds(2 * VL)
  BY DEF Pairs, Interleave
<1>2. QED
  BY <1>1 DEF Confs, Pairs, ConflictLanes, Conflict

(***************************************************************************)
(* The size of a batch: not zero, not more than is loaded, no conflict in  *)
(* it, and one right behind it unless everything loaded is in it.          *)
(***************************************************************************)
LEMMA BatchSize ==
  ASSUME AtBatch
  PROVE  /\ Count \in 1 .. LoadedN
         /\ \A p \in 0 .. 2 * Count - 1 : p \notin Confs
         /\ Count = LoadedN \/ 2 * Count \in Confs \/ 2 * Count + 1 \in Confs
<1>1. LoadedN \in 1 .. VL /\ PopCount(Loaded) = LoadedN
  BY LoadedLanes
<1>2. Confs \in SUBSET Nat
  BY <1>1, Conflicts DEF LaneIds
<1>3. ASSUME NEW p \in Confs
      PROVE  p >= 2 /\ p \in Nat
  <2>1. PICK k \in LaneIds(2 * VL) : k < p /\ Pairs[k] = Pairs[p] /\ p \in LaneIds(2 * VL)
    BY <1>3, Conflicts
  <2>2. k \in Nat /\ p \in Nat
    BY <1>2, <1>3, <2>1 DEF LaneIds
  <2>3. p # 1
    <3>1. SUFFICES ASSUME p = 1 PROVE FALSE
      OBVIOUS
    <3>2. k = 0
      BY <2>1, <2>2, <3>1
    <3>3. 0 \in LaneIds(LoadedN)
      BY <1>1 DEF LaneIds
    <3>4. 2 * 0 = 0 /\ 2 * 0 + 1 = 1
      OBVIOUS
    <3>5. Pairs[0] = xfer[i + 0].from /\ Pairs[1] = xfer[i + 0].to /\ i + 0 \in Xfers
      BY <3>3, <3>4, PairLanes
    <3>6. xfer[i + 0].from # xfer[i + 0].to
      BY <3>5 DEF AtBatch, Prepared
    <3>7. QED
      BY <2>1, <3>1, <3>2, <3>5, <3>6
  <2>4. QED
    BY <2>1, <2>2, <2>3
<1> DEFINE n_ok == Lowest(Confs) \div 2
<1>4. Count = IF Confs # {} /\ n_ok < LoadedN THEN n_ok ELSE LoadedN
  BY <1>1 DEF Count, BatchCount, Confs
<1>5. CASE Confs = {}
  BY <1>1, <1>4, <1>5
<1>6. CASE Confs # {}
  <2>1. PICK q \in Confs : q = Lowest(Confs) /\ \A p \in Confs : q <= p
    <3>1. \E q \in Confs : \A p \in Confs : q <= p
      BY <1>2, <1>6, LeastNatural
    <3>2. QED
      BY <3>1 DEF Lowest
  <2>2. q \in Nat /\ q >= 2
    BY <1>3
  <2>3. PICK n \in Nat : n = q \div 2 /\ n >= 1 /\ (q = 2 * n \/ q = 2 * n + 1)
    <3>1. q \div 2 \in Nat /\ q \div 2 >= 1 /\ (q = 2 * (q \div 2) \/ q = 2 * (q \div 2) + 1)
      BY <2>2
    <3>2. QED
      BY <3>1
  <2>4. Count = IF n < LoadedN THEN n ELSE LoadedN
    BY <1>4, <1>6, <2>1, <2>3
  <2>5. \A p \in 0 .. 2 * n - 1 : p \notin Confs
    BY <2>1, <2>2, <2>3
  <2>6. QED
    BY <1>1, <2>1, <2>3, <2>4, <2>5
<1>7. QED
  BY <1>5, <1>6

(***************************************************************************)
(* No two transfers of a batch have an account in common; the next one     *)
(* that is loaded shares an account with one of them.                      *)
(***************************************************************************)
LEMMA BatchContents ==
  ASSUME AtBatch
  PROVE  /\ Count \in 1 .. LoadedN
         /\ \A j, k \in LaneIds(Count) : j # k => Ends(i + j) \cap Ends(i + k) = {}
         /\ Count = LoadedN \/ \E j \in LaneIds(Count) : Ends(i + j) \cap Ends(i + Count) # {}
<1>1. /\ Count \in 1 .. LoadedN /\ LoadedN \in 1 .. VL
      /\ \A p \in 0 .. 2 * Count - 1 : p \notin Confs
      /\ Count = LoadedN \/ 2 * Count \in Confs \/ 2 * Count + 1 \in Confs
  BY BatchSize, LoadedLanes
<1>2. PICK c \in Nat : c = Count
  BY <1>1
<1>3. \A l \in LaneIds(c) : l \in LaneIds(LoadedN) /\ l \in Nat /\ l < c
  BY <1>1, <1>2 DEF LaneIds
<1>4. ASSUME NEW j \in LaneIds(LoadedN), NEW k \in LaneIds(LoadedN), j < k,
             NEW a \in Ends(i + j), a \in Ends(i + k)
      PROVE  2 * k \in Confs \/ 2 * k + 1 \in Confs
  <2>1. /\ 2 * j \in LaneIds(2 * VL) /\ 2 * j + 1 \in LaneIds(2 * VL)
        /\ Ends(i + j) = {Pairs[2 * j], Pairs[2 * j + 1]} /\ j \in Nat
    BY PairLanes DEF Ends
  <2>2. /\ 2 * k \in LaneIds(2 * VL) /\ 2 * k + 1 \in LaneIds(2 * VL)
        /\ Ends(i + k) = {Pairs[2 * k], Pairs[2 * k + 1]} /\ k \in Nat
    BY PairLanes DEF Ends
  <2>3. 2 * j < 2 * k /\ 2 * j + 1 < 2 * k /\ 2 * j < 2 * k + 1 /\ 2 * j + 1 < 2 * k + 1
    BY <1>4, <2>1, <2>2
  <2>4. PICK p \in {2 * j, 2 * j + 1} : Pairs[p] = a
    BY <1>4, <2>1
  <2>5. PICK q \in {2 * k, 2 * k + 1} : Pairs[q] = a
    BY <1>4, <2>2
  <2>6. p \in LaneIds(2 * VL) /\ q \in LaneIds(2 * VL) /\ p < q
    BY <2>1, <2>2, <2>3
  <2>7. q \in Confs
    BY <2>4, <2>5, <2>6, Conflicts
  <2>8. QED
    BY <2>7
<1>5. ASSUME NEW j \in LaneIds(c), NEW k \in LaneIds(c), j < k
      PROVE  Ends(i + j) \cap Ends(i + k) = {}
  <2>1. SUFFICES ASSUME NEW a \in Ends(i + j), a \in Ends(i + k) PROVE FALSE
    OBVIOUS
  <2>2. 2 * k \in Confs \/ 2 * k + 1 \in Confs
    BY <1>3, <1>4, <1>5, <2>1
  <2>3. k \in Nat /\ k < c
    BY <1>3
  <2>4. 2 * k \in 0 .. 2 * c - 1 /\ 2 * k + 1 \in 0 .. 2 * c - 1
    BY <2>3
  <2>5. QED
    BY <1>1, <1>2, <2>2, <2>4
<1>6. \A j, k \in LaneIds(c) : j # k => Ends(i + j) \cap Ends(i + k) = {}
  <2>1. \A j, k \in LaneIds(c) : j # k => j < k \/ k < j
    BY <1>3
  <2>2. QED
    BY <1>5, <2>1
<1>7. ASSUME c # LoadedN
      PROVE  \E j \in LaneIds(c) : Ends(i + j) \cap Ends(i + c) # {}
  <2>1. c \in LaneIds(LoadedN)
    BY <1>1, <1>2, <1>7 DEF LaneIds
  <2>2. PICK p \in {2 * c, 2 * c + 1} : p \in Confs
    BY <1>1, <1>2, <1>7
  <2>3. PICK k \in LaneIds(2 * VL) : k < p /\ Pairs[k] = Pairs[p]
    BY <2>2, Conflicts
  <2>4. k \in Nat /\ k <= 2 * c
    BY <2>2, <2>3 DEF LaneIds
  <2>5. /\ Pairs[2 * c] = xfer[i + c].from /\ Pairs[2 * c + 1] = xfer[i + c].to
        /\ i + c \in Xfers
    BY <2>1, PairLanes
  <2>6. Pairs[2 * c] # Pairs[2 * c + 1]
    BY <2>5 DEF AtBatch, Prepared
  <2>7. k # 2 * c
    <3>1. SUFFICES ASSUME k = 2 * c PROVE FALSE
      OBVIOUS
    <3>2. p = 2 * c + 1
      BY <2>2, <2>3, <3>1
    <3>3. QED
      BY <2>3, <2>6, <3>1, <3>2
  <2>8. PICK j \in Nat : j < c /\ (k = 2 * j \/ k = 2 * j + 1)
    <3>1. k \div 2 \in Nat /\ k \div 2 < c /\ (k = 2 * (k \div 2) \/ k = 2 * (k \div 2) + 1)
      BY <2>4, <2>7
    <3>2. QED
      BY <3>1
  <2>9. j \in LaneIds(c)
    BY <2>8 DEF LaneIds
  <2>10. Pairs[2 * j] = xfer[i + j].from /\ Pairs[2 * j + 1] = xfer[i + j].to
    BY <1>3, <2>9, PairLanes
  <2>11. Pairs[k] \in Ends(i + j) /\ Pairs[k] \in Ends(i + c)
    BY <2>2, <2>3, <2>5, <2>8, <2>10 DEF Ends
  <2>12. QED
    BY <2>9, <2>11
<1>8. QED
  BY <1>1, <1>2, <1>6, <1>7

------------------------------------------------------------------------------
(* A batch and the same transfers one by one                                *)

\* Table u is table t after the first j transfers of the batch: each account
\* at the end of one of them has its effect, the others are as they were.
After(t, u, j) ==
  \A a \in Accounts :
    /\ \A l \in LaneIds(j) : xfer[i + l].from = a =>
         u.balance[a] = Minus(t.balance[a], xfer[i + l].delta) /\ u.last_id[a] = i + l
    /\ \A l \in LaneIds(j) : xfer[i + l].to = a =>
         u.balance[a] = Plus(t.balance[a], xfer[i + l].delta) /\ u.last_id[a] = i + l
    /\ (\A l \in LaneIds(j) : a \notin Ends(i + l)) =>
         u.balance[a] = t.balance[a] /\ u.last_id[a] = t.last_id[a]

(***************************************************************************)
(* After says all there is to say of a table.                              *)
(***************************************************************************)
LEMMA AfterUnique ==
  ASSUME NEW t, NEW u \in Tables, NEW v \in Tables, NEW j, After(t, u, j), After(t, v, j)
  PROVE  u = v
<1>1. ASSUME NEW a \in Accounts
      PROVE  u.balance[a] = v.balance[a] /\ u.last_id[a] = v.last_id[a]
  <2>1. CASE \E l \in LaneIds(j) : xfer[i + l].from = a
    BY <2>1 DEF After
  <2>2. CASE \E l \in LaneIds(j) : xfer[i + l].to = a
    BY <2>2 DEF After
  <2>3. CASE \A l \in LaneIds(j) : xfer[i + l].from # a /\ xfer[i + l].to # a
    <3>1. \A l \in LaneIds(j) : a \notin Ends(i + l)
      BY <2>3 DEF Ends
    <3>2. QED
      BY <3>1 DEF After
  <2>4. QED
    BY <2>1, <2>2, <2>3
<1>2. /\ u.balance \in [Accounts -> 0 .. BalMod - 1] /\ v.balance \in [Accounts -> 0 .. BalMod - 1]
      /\ u.last_id \in [Accounts -> Nat] /\ v.last_id \in [Accounts -> Nat]
      /\ u = [balance |-> u.balance, last_id |-> u.last_id]
      /\ v = [balance |-> v.balance, last_id |-> v.last_id]
  BY DEF Tables
<1>3. u.balance = v.balance /\ u.last_id = v.last_id
  BY <1>1, <1>2
<1>4. QED
  BY <1>2, <1>3

\* The history of the scalar loop is complete up to transfer m.
Recorded(m) ==
  /\ \A k \in 0 .. m : trace[k] \in Tables
  /\ \A k \in 0 .. m - 1 : trace[k + 1] = Applied(trace[k], xfer[k])

(***************************************************************************)
(* The scalar loop on the transfers of a batch.                            *)
(***************************************************************************)
LEMMA SerialAfter ==
  ASSUME AtBatch, Recorded(XferN), NEW n \in 0 .. Count
  PROVE  After(trace[i], trace[i + n], n)
<1> DEFINE Wrong == {j \in 0 .. Count : ~ After(trace[i], trace[i + j], j)}
<1> SUFFICES ASSUME Wrong # {} PROVE FALSE
  OBVIOUS
<1>1. /\ Count \in 1 .. LoadedN /\ LoadedN \in 1 .. VL /\ i + LoadedN <= XferN /\ i \in Nat
      /\ \A j, k \in LaneIds(Count) : j # k => Ends(i + j) \cap Ends(i + k) = {}
  BY BatchContents, LoadedLanes DEF AtBatch
<1>2. PICK m \in Wrong : \A k \in Wrong : m <= k
  <2>1. Wrong \in SUBSET Nat
    BY <1>1
  <2>2. QED
    BY <2>1, LeastNatural
<1>3. m # 0
  <2>1. After(trace[i], trace[i], 0)
    BY DEF After, LaneIds
  <2>2. i + 0 = i
    BY <1>1
  <2>3. QED
    BY <1>2, <2>1, <2>2
<1>4. PICK j \in 0 .. Count : j + 1 = m /\ j < Count /\ j \notin Wrong
  <2>1. m - 1 \in 0 .. Count /\ (m - 1) + 1 = m /\ m - 1 < Count /\ ~(m <= m - 1)
    BY <1>1, <1>2, <1>3
  <2>2. QED
    BY <1>2, <2>1
<1>5. PICK t, u, w : t = trace[i] /\ u = trace[i + j] /\ w = trace[i + m]
  OBVIOUS
<1>6. /\ i + j \in Xfers /\ i + j \in 0 .. XferN - 1 /\ i + m = (i + j) + 1
      /\ i + j \in 0 .. XferN /\ j \in LaneIds(Count)
  BY <1>1, <1>4 DEF Xfers, LaneIds
<1>7. PICK x : x = xfer[i + j]
  OBVIOUS
<1>8. x \in Transfers /\ x.id = i + j /\ x.from # x.to /\ x.from \in Accounts /\ x.to \in Accounts
  BY <1>6, <1>7 DEF AtBatch, Prepared, Transfers
<1>9. u \in Tables /\ w = Applied(u, x)
  BY <1>5, <1>6, <1>7 DEF Recorded
<1>10. /\ w.balance[x.from] = Minus(u.balance[x.from], x.delta)
       /\ w.balance[x.to] = Plus(u.balance[x.to], x.delta)
       /\ w.last_id[x.from] = i + j /\ w.last_id[x.to] = i + j
       /\ \A a \in Accounts \ {x.from, x.to} :
            w.balance[a] = u.balance[a] /\ w.last_id[a] = u.last_id[a]
  BY <1>8, <1>9, AppliedAt
<1>11. After(t, u, j)
  BY <1>4, <1>5
<1>12. LaneIds(m) = LaneIds(j) \cup {j} /\ LaneIds(j) \subseteq LaneIds(Count) /\ j \notin LaneIds(j)
  BY <1>1, <1>4 DEF LaneIds
<1>13. \A l \in LaneIds(j) : x.from \notin Ends(i + l) /\ x.to \notin Ends(i + l)
  <2>1. x.from \in Ends(i + j) /\ x.to \in Ends(i + j)
    BY <1>7 DEF Ends
  <2>2. \A l \in LaneIds(j) : Ends(i + l) \cap Ends(i + j) = {}
    BY <1>1, <1>6, <1>12
  <2>3. QED
    BY <2>1, <2>2
<1>14. /\ u.balance[x.from] = t.balance[x.from] /\ u.balance[x.to] = t.balance[x.to]
  BY <1>8, <1>11, <1>13 DEF After
<1>15. ASSUME NEW a \in Accounts
       PROVE  /\ \A l \in LaneIds(m) : xfer[i + l].from = a =>
                   /\ w.balance[a] = Minus(t.balance[a], xfer[i + l].delta)
                   /\ w.last_id[a] = i + l
              /\ \A l \in LaneIds(m) : xfer[i + l].to = a =>
                   /\ w.balance[a] = Plus(t.balance[a], xfer[i + l].delta)
                   /\ w.last_id[a] = i + l
              /\ (\A l \in LaneIds(m) : a \notin Ends(i + l)) =>
                   w.balance[a] = t.balance[a] /\ w.last_id[a] = t.last_id[a]
  <2>1. CASE a \in {x.from, x.to}
    <3>1. \A l \in LaneIds(j) : xfer[i + l].from # a /\ xfer[i + l].to # a
      BY <1>13, <2>1 DEF Ends
    <3>2. xfer[i + j].from \in Ends(i + j) /\ xfer[i + j].to \in Ends(i + j)
      BY DEF Ends
    <3>3. QED
      BY <1>7, <1>8, <1>10, <1>12, <1>14, <2>1, <3>1, <3>2
  <2>2. CASE a \notin {x.from, x.to}
    <3>1. w.balance[a] = u.balance[a] /\ w.last_id[a] = u.last_id[a]
      BY <1>10, <2>2
    <3>2. xfer[i + j].from # a /\ xfer[i + j].to # a
      BY <1>7, <2>2
    <3>3. QED
      BY <1>11, <1>12, <3>1, <3>2 DEF After
  <2>3. QED
    BY <2>1, <2>2
<1>16. After(t, w, m)
  BY <1>15 DEF After
<1>17. QED
  BY <1>2, <1>5, <1>16

(***************************************************************************)
(* The two scatters of a batch, into one field of the accounts.            *)
(***************************************************************************)
LEMMA TwoScatters ==
  ASSUME AtBatch, NEW mem, DOMAIN mem = Accounts, NEW v, NEW w
  PROVE  LET once == Scatter(mem, Base, AccountPtrs(From, LaneIds(Count)), v)
             new  == Scatter(once, Base, AccountPtrs(To, LaneIds(Count)), w)
         IN  /\ DOMAIN new = Accounts /\ new = [a \in Accounts |-> new[a]]
             /\ \A l \in LaneIds(Count) : /\ new[xfer[i + l].from] = v[l]
                                          /\ new[xfer[i + l].to] = w[l]
             /\ \A a \in Accounts : (\A l \in LaneIds(Count) : a \notin Ends(i + l)) => new[a] = mem[a]
<1> DEFINE valid == LaneIds(Count)
           once == Scatter(mem, Base, AccountPtrs(From, valid), v)
           new  == Scatter(once, Base, AccountPtrs(To, valid), w)
<1>1. /\ Count \in 1 .. LoadedN /\ LoadedN \in 1 .. VL
      /\ \A j, k \in valid : j # k => Ends(i + j) \cap Ends(i + k) = {}
  BY BatchContents, LoadedLanes
<1>2. valid \in SUBSET Lns /\ valid \subseteq LaneIds(LoadedN)
  BY <1>1 DEF Lns, LaneIds
<1>3. \A l \in valid : /\ From[l] = xfer[i + l].from /\ To[l] = xfer[i + l].to
                       /\ i + l \in Xfers /\ From[l] # To[l]
                       /\ From[l] \in Accounts /\ To[l] \in Accounts
                       /\ Ends(i + l) = {From[l], To[l]}
  <2>1. \A l \in valid : /\ From[l] = xfer[i + l].from /\ To[l] = xfer[i + l].to
                         /\ i + l \in Xfers
                         /\ From[l] \in Accounts /\ To[l] \in Accounts
    BY <1>2, Columns
  <2>2. QED
    BY <2>1 DEF AtBatch, Prepared, Ends
<1>4. \A l \in Lns : From[l] \in Nat /\ To[l] \in Nat
  BY Columns DEF Accounts
<1>5. \A a \in Accounts : a \in Nat
  BY DEF Accounts
<1> HIDE DEF valid
<1>6. /\ DOMAIN once = Accounts
      /\ \A a \in Accounts : (\A l \in valid : From[l] # a) => once[a] = mem[a]
      /\ \A a \in Accounts : \A l \in valid :
           (\A m \in valid : From[m] = a <=> m = l) => once[a] = v[l]
  <2>1. \A a \in DOMAIN mem : a \in Nat
    BY <1>5
  <2>2. DOMAIN once = Accounts
    BY DEF Scatter
  <2>3. \A a \in Accounts : /\ (\A l \in valid : From[l] # a) => once[a] = mem[a]
                            /\ \A l \in valid :
                                 (\A m \in valid : From[m] = a <=> m = l) => once[a] = v[l]
    BY <1>2, <1>4, <2>1, ScatterLanes
  <2>4. QED
    BY <2>2, <2>3
<1> HIDE DEF once
<1>7. /\ DOMAIN new = Accounts /\ new = [a \in Accounts |-> new[a]]
      /\ \A a \in Accounts : (\A l \in valid : To[l] # a) => new[a] = once[a]
      /\ \A a \in Accounts : \A l \in valid :
           (\A m \in valid : To[m] = a <=> m = l) => new[a] = w[l]
  <2>1. \A a \in DOMAIN once : a \in Nat
    BY <1>5, <1>6
  <2>2. DOMAIN new = DOMAIN once /\ new = [k \in DOMAIN once |-> new[k]]
    BY DEF Scatter
  <2>3. \A a \in DOMAIN once :
          /\ (\A l \in valid : To[l] # a) => new[a] = once[a]
          /\ \A l \in valid : (\A m \in valid : To[m] = a <=> m = l) => new[a] = w[l]
    BY <1>2, <1>4, <2>1, ScatterLanes
  <2>4. QED
    BY <1>6, <2>2, <2>3
<1> HIDE DEF new
<1>8. ASSUME NEW l \in valid
      PROVE  new[From[l]] = v[l] /\ new[To[l]] = w[l]
  <2>1. \A m \in valid : m # l => {From[m], To[m]} \cap {From[l], To[l]} = {}
    BY <1>1, <1>3
  <2>2. /\ \A m \in valid : From[m] = From[l] <=> m = l
        /\ \A m \in valid : To[m] # From[l]
        /\ \A m \in valid : To[m] = To[l] <=> m = l
    BY <1>3, <2>1
  <2>3. once[From[l]] = v[l] /\ new[From[l]] = once[From[l]] /\ new[To[l]] = w[l]
    BY <1>3, <1>6, <1>7, <2>2
  <2>4. QED
    BY <2>3
<1>9. ASSUME NEW a \in Accounts, \A l \in valid : a \notin Ends(i + l)
      PROVE  new[a] = mem[a]
  <2>1. \A l \in valid : From[l] # a /\ To[l] # a
    BY <1>3, <1>9
  <2>2. QED
    BY <1>6, <1>7, <2>1
<1>10. QED
  BY <1>3, <1>7, <1>8, <1>9 DEF new, once, valid

(***************************************************************************)
(* A batch leaves the table its transfers leave one by one.                *)
(***************************************************************************)
LEMMA ParallelAfter ==
  ASSUME AtBatch, account \in Tables, BatchStep
  PROVE  i' = i + Count /\ account' \in Tables /\ After(account, account', Count)
<1> DEFINE valid   == LaneIds(i' - i)
           fromB   == AccountPtrs(From, valid)
           toB     == AccountPtrs(To, valid)
           oldFrom == Gather(account.balance, Base, fromB)
           oldTo   == Gather(account.balance, Base, toB)
           delta   == XField("delta")
           newFrom == [l \in LaneIds(VL) |-> Minus(oldFrom[l], delta[l])]
           newTo   == [l \in LaneIds(VL) |-> Plus(oldTo[l], delta[l])]
           bal     == Scatter(Scatter(account.balance, Base, fromB, newFrom), Base, toB, newTo)
           ids     == Scatter(Scatter(account.last_id, Base, fromB, XField("id")),
                              Base, toB, XField("id"))
<1>1. i' = i + Count
  BY DEF BatchStep, Count, From, To
<1>2. account' = [balance |-> bal, last_id |-> ids]
  BY DEF BatchStep, From, To
<1>3. /\ Count \in 1 .. LoadedN /\ LoadedN \in 1 .. VL /\ i \in Nat
      /\ \A j, k \in LaneIds(Count) : j # k => Ends(i + j) \cap Ends(i + k) = {}
  BY BatchContents, LoadedLanes DEF AtBatch
<1>4. valid = LaneIds(Count) /\ valid \in SUBSET Lns /\ valid \subseteq LaneIds(LoadedN)
  <2>1. i' - i = Count
    BY <1>1, <1>3
  <2>2. QED
    BY <1>3, <2>1 DEF LaneIds, Lns
<1>5. \A l \in valid : /\ i + l \in Xfers /\ l \in Lns
                       /\ From[l] = xfer[i + l].from /\ To[l] = xfer[i + l].to
                       /\ XField("id")[l] = i + l /\ delta[l] = xfer[i + l].delta
  BY <1>4, Columns
<1>6. \A l \in Lns : From[l] \in Nat /\ To[l] \in Nat
  BY Columns DEF Accounts
<1>7. \A l \in valid : xfer[i + l] \in Transfers
  BY <1>5 DEF AtBatch, Prepared
<1>8. account.balance \in [Accounts -> 0 .. BalMod - 1] /\ account.last_id \in [Accounts -> Nat]
  BY DEF Tables
<1> HIDE DEF valid
<1>9. ASSUME NEW l \in valid
      PROVE  /\ newFrom[l] = Minus(account.balance[xfer[i + l].from], xfer[i + l].delta)
             /\ newTo[l] = Plus(account.balance[xfer[i + l].to], xfer[i + l].delta)
             /\ newFrom[l] \in 0 .. BalMod - 1 /\ newTo[l] \in 0 .. BalMod - 1
  <2>1. /\ oldFrom[l] = account.balance[xfer[i + l].from]
        /\ oldTo[l] = account.balance[xfer[i + l].to]
    BY <1>4, <1>5, <1>6, GatherLanes
  <2>2. /\ xfer[i + l].from \in Accounts /\ xfer[i + l].to \in Accounts
        /\ xfer[i + l].delta \in Nat
    BY <1>7 DEF Transfers
  <2>3. /\ account.balance[xfer[i + l].from] \in 0 .. BalMod - 1
        /\ account.balance[xfer[i + l].to] \in 0 .. BalMod - 1
    BY <1>8, <2>2
  <2> HIDE DEF oldFrom, oldTo, delta
  <2>4. /\ newFrom[l] = Minus(account.balance[xfer[i + l].from], xfer[i + l].delta)
        /\ newTo[l] = Plus(account.balance[xfer[i + l].to], xfer[i + l].delta)
    BY <1>5, <2>1 DEF Lns
  <2>5. QED
    BY <2>2, <2>3, <2>4, BalanceRange
<1>10. /\ DOMAIN bal = Accounts /\ bal = [a \in Accounts |-> bal[a]]
       /\ \A l \in valid : bal[xfer[i + l].from] = newFrom[l] /\ bal[xfer[i + l].to] = newTo[l]
       /\ \A a \in Accounts :
            (\A l \in valid : a \notin Ends(i + l)) => bal[a] = account.balance[a]
  <2> HIDE DEF newFrom, newTo
  <2>1. DOMAIN account.balance = Accounts
    BY <1>8
  <2>2. QED
    BY <1>4, <2>1, TwoScatters
<1>11. /\ DOMAIN ids = Accounts /\ ids = [a \in Accounts |-> ids[a]]
       /\ \A l \in valid : /\ ids[xfer[i + l].from] = XField("id")[l]
                           /\ ids[xfer[i + l].to] = XField("id")[l]
       /\ \A a \in Accounts :
            (\A l \in valid : a \notin Ends(i + l)) => ids[a] = account.last_id[a]
  <2>1. DOMAIN account.last_id = Accounts
    BY <1>8
  <2>2. QED
    BY <1>4, <2>1, TwoScatters
<1>12. \A a \in Accounts : \/ \A l \in valid : a \notin Ends(i + l)
                           \/ \E l \in valid : xfer[i + l].from = a
                           \/ \E l \in valid : xfer[i + l].to = a
  BY DEF Ends
<1> HIDE DEF bal, ids, newFrom, newTo, delta
<1>13. \A a \in Accounts : bal[a] \in 0 .. BalMod - 1 /\ ids[a] \in Nat
  <2>1. \A a \in Accounts : account.balance[a] \in 0 .. BalMod - 1 /\ account.last_id[a] \in Nat
    BY <1>8
  <2>2. \A l \in valid : XField("id")[l] \in Nat
    BY <1>5 DEF Xfers
  <2>3. QED
    BY <1>9, <1>10, <1>11, <1>12, <2>1, <2>2
<1>14. account' \in Tables
  <2>1. bal \in [Accounts -> 0 .. BalMod - 1]
    BY <1>10, <1>13
  <2>2. ids \in [Accounts -> Nat]
    BY <1>11, <1>13
  <2>3. QED
    BY <1>2, <2>1, <2>2 DEF Tables
<1>15. After(account, account', Count)
  <2>1. account'.balance = bal /\ account'.last_id = ids
    BY <1>2
  <2>2. \A l \in valid : /\ bal[xfer[i + l].from] = newFrom[l] /\ bal[xfer[i + l].to] = newTo[l]
                         /\ ids[xfer[i + l].from] = i + l /\ ids[xfer[i + l].to] = i + l
    BY <1>5, <1>10, <1>11
  <2>3. \A a \in Accounts :
          (\A l \in valid : a \notin Ends(i + l)) =>
            bal[a] = account.balance[a] /\ ids[a] = account.last_id[a]
    BY <1>10, <1>11
  <2>4. QED
    BY <1>4, <1>9, <2>1, <2>2, <2>3 DEF After
<1>16. QED
  BY <1>1, <1>14, <1>15

------------------------------------------------------------------------------
(* The inductive invariant                                                  *)

\* How many transfers the scalar loop has made.
ScalarDone == IF phase \in {"normalise", "scalar"} THEN i ELSE XferN

History ==
  /\ trace[0] = ZeroTable
  /\ trace[ScalarDone] = alt
  /\ Recorded(ScalarDone)

Stages ==
  /\ phase = "normalise" => i = 0
  /\ phase # "normalise" => Prepared
  /\ phase \in {"normalise", "scalar"} => account = ZeroTable
  /\ SerialEquivalence
  /\ phase \in {"validate", "done"} => account = alt
  /\ verdict = IF phase = "done" THEN "OK" ELSE "none"

IInv == TypeOK /\ History /\ Stages

(***************************************************************************)
(* The tables a run starts with.                                           *)
(***************************************************************************)
LEMMA ZeroIsTable == ZeroTable \in Tables
<1>1. 0 \in 0 .. BalMod - 1
  OBVIOUS
<1>2. QED
  BY <1>1 DEF ZeroTable, Tables

(***************************************************************************)
(* IInv holds at the start.                                                *)
(***************************************************************************)
LEMMA InitIInv == Init => IInv
<1> SUFFICES ASSUME Init PROVE IInv
  OBVIOUS
<1>1. /\ phase = "normalise" /\ xfer \in RawXfers /\ account = ZeroTable /\ alt = ZeroTable
      /\ i = 0 /\ verdict = "none" /\ DOMAIN trace = {0} /\ trace[0] = ZeroTable
  BY DEF Init
<1>2. TypeOK
  BY <1>1, ZeroIsTable DEF TypeOK
<1>3. History
  BY <1>1, ZeroIsTable DEF History, ScalarDone, Recorded
<1>4. Stages
  BY <1>1 DEF Stages, SerialEquivalence
<1>5. QED
  BY <1>2, <1>3, <1>4 DEF IInv

(***************************************************************************)
(* The transfers are prepared.                                             *)
(***************************************************************************)
LEMMA NormaliseKept ==
  ASSUME IInv, Normalise
  PROVE  IInv'
<1>1. /\ TypeOK /\ History /\ Stages /\ phase = "normalise" /\ phase' = "scalar"
      /\ xfer' = [k \in Xfers |-> Cleaned(k, xfer[k])]
      /\ UNCHANGED <<account, alt, i, verdict, trace>>
  BY DEF IInv, Normalise
<1>2. \A k \in Xfers : xfer[k] \in [from : Nat, to : Nat, delta : Nat]
  BY <1>1, RawAssumption DEF TypeOK
<1>3. Prepared'
  BY <1>1, <1>2, CleanedTransfer DEF Prepared
<1>4. i = 0 /\ account = ZeroTable /\ verdict = "none"
  BY <1>1 DEF Stages
<1>5. TypeOK'
  BY <1>1, <1>3 DEF TypeOK, Prepared, Transfers
<1>6. History'
  BY <1>1, <1>4 DEF History, ScalarDone, Recorded
<1>7. Stages'
  BY <1>1, <1>3, <1>4 DEF Stages, SerialEquivalence
<1>8. QED
  BY <1>5, <1>6, <1>7 DEF IInv

(***************************************************************************)
(* The scalar loop makes a transfer.                                       *)
(***************************************************************************)
LEMMA ScalarStepKept ==
  ASSUME IInv, ScalarStep
  PROVE  IInv'
<1>1. /\ TypeOK /\ History /\ Stages /\ phase = "scalar" /\ i < XferN
      /\ alt' = Applied(alt, xfer[i]) /\ i' = i + 1
      /\ trace' = [k \in 0 .. i + 1 |-> IF k = i + 1 THEN alt' ELSE trace[k]]
      /\ UNCHANGED <<phase, xfer, account, verdict>>
  BY DEF IInv, ScalarStep
<1>2. i \in Nat /\ XferN \in Nat /\ i \in Xfers /\ i + 1 \in 0 .. XferN /\ i + 1 # 0 /\ alt \in Tables
  BY <1>1 DEF TypeOK, Xfers
<1>3. xfer[i] \in Transfers /\ xfer[i].from # xfer[i].to /\ Prepared /\ Prepared'
  BY <1>1, <1>2 DEF Stages, Prepared
<1>4. alt' \in Tables
  BY <1>1, <1>2, <1>3, AppliedAt
<1>5. /\ trace[0] = ZeroTable /\ trace[i] = alt
      /\ \A k \in 0 .. i : trace[k] \in Tables
      /\ \A k \in 0 .. i - 1 : trace[k + 1] = Applied(trace[k], xfer[k])
  BY <1>1 DEF History, ScalarDone, Recorded
<1>6. /\ \A k \in 0 .. i : trace'[k] = trace[k]
      /\ trace'[i + 1] = alt'
  BY <1>1, <1>2
<1>7. /\ \A k \in 0 .. i + 1 : k \in 0 .. i \/ k = i + 1
      /\ \A k \in 0 .. (i + 1) - 1 : k = i \/ (k \in 0 .. i - 1 /\ k \in 0 .. i /\ k + 1 \in 0 .. i)
      /\ i \in 0 .. i /\ 0 \in 0 .. i
  BY <1>2
<1>8. \A k \in 0 .. i + 1 : trace'[k] \in Tables
  BY <1>4, <1>5, <1>6, <1>7
<1>9. \A k \in 0 .. (i + 1) - 1 : trace'[k + 1] = Applied(trace'[k], xfer[k])
  BY <1>1, <1>5, <1>6, <1>7
<1>10. TypeOK'
  <2>1. DOMAIN trace' = 0 .. i'
    BY <1>1
  <2>2. QED
    BY <1>1, <1>2, <1>4, <1>8, <2>1 DEF TypeOK
<1>11. History'
  BY <1>1, <1>5, <1>6, <1>7, <1>8, <1>9 DEF History, ScalarDone, Recorded
<1>12. Stages'
  BY <1>1, <1>3 DEF Stages, SerialEquivalence
<1>13. QED
  BY <1>10, <1>11, <1>12 DEF IInv

(***************************************************************************)
(* The scalar loop ends.                                                   *)
(***************************************************************************)
LEMMA ScalarEndKept ==
  ASSUME IInv, ScalarEnd
  PROVE  IInv'
<1>1. /\ TypeOK /\ History /\ Stages /\ phase = "scalar" /\ i >= XferN
      /\ phase' = "batch" /\ i' = 0
      /\ UNCHANGED <<xfer, account, alt, verdict, trace>>
  BY DEF IInv, ScalarEnd
<1>2. i = XferN /\ XferN \in Nat
  BY <1>1 DEF TypeOK
<1>3. 0 .. XferN = Xfers \cup {XferN} /\ 0 \in 0 .. XferN
  BY <1>2 DEF Xfers
<1>4. TypeOK'
  BY <1>1, <1>2, <1>3 DEF TypeOK
<1>5. History'
  BY <1>1, <1>2 DEF History, ScalarDone, Recorded
<1>6. Stages'
  <2>1. account = ZeroTable /\ trace[0] = ZeroTable /\ Prepared /\ verdict = "none"
    BY <1>1 DEF Stages, History
  <2>2. QED
    BY <1>1, <2>1 DEF Stages, SerialEquivalence, Prepared
<1>7. QED
  BY <1>4, <1>5, <1>6 DEF IInv

(***************************************************************************)
(* A batch is made.                                                        *)
(***************************************************************************)
LEMMA BatchStepKept ==
  ASSUME IInv, BatchStep
  PROVE  IInv' /\ account' = trace[i']
<1>1. /\ TypeOK /\ History /\ Stages /\ phase = "batch" /\ i < XferN
      /\ UNCHANGED <<phase, xfer, alt, verdict, trace>>
  BY DEF IInv, BatchStep
<1>2. AtBatch /\ account \in Tables /\ account = trace[i] /\ Recorded(XferN)
  BY <1>1 DEF TypeOK, Stages, SerialEquivalence, History, ScalarDone, AtBatch
<1>3. i' = i + Count /\ account' \in Tables /\ After(account, account', Count)
  BY <1>2, ParallelAfter
<1>4. Count \in 1 .. LoadedN /\ LoadedN \in 1 .. VL /\ i + LoadedN <= XferN /\ i \in Nat
  BY <1>2, BatchContents, LoadedLanes DEF AtBatch
<1>5. i' \in 0 .. XferN /\ Count \in 0 .. Count
  BY <1>3, <1>4
<1>6. After(trace[i], trace[i + Count], Count)
  BY <1>2, <1>5, SerialAfter
<1>7. trace[i + Count] \in Tables
  BY <1>2, <1>3, <1>5 DEF Recorded
<1>8. account' = trace[i']
  BY <1>2, <1>3, <1>6, <1>7, AfterUnique
<1>9. TypeOK'
  BY <1>1, <1>3, <1>5 DEF TypeOK
<1>10. History'
  BY <1>1 DEF History, ScalarDone, Recorded
<1>11. Stages'
  BY <1>1, <1>8 DEF Stages, SerialEquivalence, Prepared
<1>12. QED
  BY <1>8, <1>9, <1>10, <1>11 DEF IInv

(***************************************************************************)
(* Every step keeps IInv.                                                  *)
(***************************************************************************)
LEMMA NextIInv == IInv /\ [Next]_vars => IInv'
<1> SUFFICES ASSUME IInv, [Next]_vars PROVE IInv'
  OBVIOUS
<1>1. TypeOK /\ History /\ Stages
  BY DEF IInv
<1>2. CASE Normalise
  BY <1>2, NormaliseKept
<1>3. CASE ScalarStep
  BY <1>3, ScalarStepKept
<1>4. CASE ScalarEnd
  BY <1>4, ScalarEndKept
<1>5. CASE BatchStep
  BY <1>5, BatchStepKept
<1>6. CASE BatchEnd
  <2>1. /\ phase = "batch" /\ phase' = "validate" /\ i >= XferN
        /\ UNCHANGED <<xfer, account, alt, i, verdict, trace>>
    BY <1>6 DEF BatchEnd
  <2>2. i = XferN
    BY <1>1, <2>1 DEF TypeOK
  <2>3. TypeOK' /\ History'
    BY <1>1, <2>1 DEF TypeOK, History, ScalarDone, Recorded
  <2>4. account = alt
    BY <1>1, <2>1, <2>2 DEF Stages, SerialEquivalence, History, ScalarDone
  <2>5. Stages'
    BY <1>1, <2>1, <2>4 DEF Stages, SerialEquivalence, Prepared
  <2>6. QED
    BY <2>3, <2>5 DEF IInv
<1>7. CASE Validate
  <2>1. /\ phase = "validate" /\ phase' = "done"
        /\ verdict' = IF account = alt THEN "OK" ELSE "failed"
        /\ UNCHANGED <<xfer, account, alt, i, trace>>
    BY <1>7 DEF Validate
  <2>2. account = alt
    BY <1>1, <2>1 DEF Stages
  <2>3. TypeOK' /\ History'
    BY <1>1, <2>1 DEF TypeOK, History, ScalarDone, Recorded
  <2>4. Stages'
    BY <1>1, <2>1, <2>2 DEF Stages, SerialEquivalence, Prepared
  <2>5. QED
    BY <2>3, <2>4 DEF IInv
<1>8. CASE UNCHANGED vars
  BY <1>1, <1>8 DEF vars, IInv, TypeOK, History, ScalarDone, Recorded, Stages,
                    SerialEquivalence, Prepared
<1>9. QED
  BY <1>2, <1>3, <1>4, <1>5, <1>6, <1>7, <1>8 DEF Next, Returned

------------------------------------------------------------------------------
(* Sums of balances                                                         *)

\* The balances of f are added up in s as far as account n: the recursion of
\* SumOf.
IsSum(s, f, n) == s = [k \in 0 .. n |-> IF k = 0 THEN 0 ELSE s[k - 1] + f[k - 1]]

(***************************************************************************)
(* What the recursion says of s, place by place.                           *)
(***************************************************************************)
LEMMA SumPlaces ==
  ASSUME NEW s, NEW f, NEW n \in Nat, IsSum(s, f, n)
  PROVE  s[0] = 0 /\ \A k \in 1 .. n : s[k] = s[k - 1] + f[k - 1]
<1>1. \A k \in 0 .. n : s[k] = IF k = 0 THEN 0 ELSE s[k - 1] + f[k - 1]
  BY DEF IsSum
<1>2. QED
  BY <1>1

(***************************************************************************)
(* There is such a sum for every n: a sum as far as n - 1 can be extended. *)
(***************************************************************************)
LEMMA SumExists ==
  ASSUME NEW f, NEW n \in Nat
  PROVE  \E s : IsSum(s, f, n)
<1> DEFINE Without == {m \in Nat : ~ \E s : IsSum(s, f, m)}
<1> SUFFICES ASSUME Without # {} PROVE FALSE
  OBVIOUS
<1>1. PICK m \in Without : \A k \in Without : m <= k
  BY LeastNatural
<1>2. m \in Nat /\ m # 0
  <2>1. IsSum([k \in 0 .. 0 |-> 0], f, 0)
    BY DEF IsSum
  <2>2. QED
    BY <2>1
<1>3. m - 1 \in Nat /\ m - 1 \notin Without
  BY <1>1, <1>2
<1>4. PICK s : IsSum(s, f, m - 1)
  BY <1>3
<1> DEFINE At(h, k) == IF k = 0 THEN 0 ELSE h[k - 1] + f[k - 1]
           g == [k \in 0 .. m |-> At(s, k)]
<1>5. \A k \in 0 .. m - 1 : s[k] = At(s, k)
  BY <1>3, <1>4, SumPlaces
<1>6. \A k \in 1 .. m : k - 1 \in 0 .. m - 1 /\ k - 1 \in 0 .. m
  BY <1>2
<1>7. \A k \in 0 .. m : k # 0 => g[k - 1] = s[k - 1]
  BY <1>2, <1>5, <1>6
<1>8. g = [k \in 0 .. m |-> At(g, k)]
  BY <1>7
<1>9. IsSum(g, f, m)
  BY <1>8 DEF IsSum
<1>10. QED
  BY <1>9

(***************************************************************************)
(* SumOf is the last place of such a sum.                                  *)
(***************************************************************************)
LEMMA SumOfIsSum ==
  ASSUME NEW f
  PROVE  \E s : IsSum(s, f, AccountN) /\ SumOf(f) = s[AccountN]
<1>1. SumOf(f) = (CHOOSE s : IsSum(s, f, AccountN))[AccountN]
  BY DEF SumOf, IsSum
<1>2. QED
  BY <1>1, SumExists

(***************************************************************************)
(* The sum of a table of zeroes.                                           *)
(***************************************************************************)
LEMMA SumOfZeroes == SumOf([a \in Accounts |-> 0]) = 0
<1> DEFINE f == [a \in Accounts |-> 0]
<1>1. PICK s : IsSum(s, f, AccountN) /\ SumOf(f) = s[AccountN]
  BY SumOfIsSum
<1> DEFINE Wrong == {k \in 0 .. AccountN : s[k] # 0}
<1>2. Wrong = {}
  <2>1. SUFFICES ASSUME Wrong # {} PROVE FALSE
    OBVIOUS
  <2>2. PICK k \in Wrong : \A j \in Wrong : k <= j
    <3>1. Wrong \in SUBSET Nat
      OBVIOUS
    <3>2. QED
      BY <2>1, <3>1, LeastNatural
  <2>3. s[0] = 0 /\ \A j \in 1 .. AccountN : s[j] = s[j - 1] + f[j - 1]
    BY <1>1, SumPlaces
  <2>4. k \in 1 .. AccountN /\ k - 1 \in 0 .. AccountN /\ k - 1 \notin Wrong /\ k - 1 \in Accounts
    BY <2>2, <2>3 DEF Accounts
  <2>5. QED
    BY <2>2, <2>3, <2>4
<1>3. QED
  BY <1>1, <1>2

(***************************************************************************)
(* A change of one balance changes the sum by as much.                     *)
(***************************************************************************)
LEMMA SumChanges ==
  ASSUME NEW f \in [Accounts -> Int], NEW g \in [Accounts -> Int], NEW x \in Accounts,
         \A a \in Accounts : a # x => g[a] = f[a]
  PROVE  SumOf(f) \in Int /\ SumOf(g) = SumOf(f) + (g[x] - f[x])
<1>1. PICK s : IsSum(s, f, AccountN) /\ SumOf(f) = s[AccountN]
  BY SumOfIsSum
<1>2. PICK t : IsSum(t, g, AccountN) /\ SumOf(g) = t[AccountN]
  BY SumOfIsSum
<1>3. /\ s[0] = 0 /\ \A j \in 1 .. AccountN : s[j] = s[j - 1] + f[j - 1]
      /\ t[0] = 0 /\ \A j \in 1 .. AccountN : t[j] = t[j - 1] + g[j - 1]
  BY <1>1, <1>2, SumPlaces
<1> DEFINE Right(k) == s[k] \in Int /\ t[k] = s[k] + (IF k > x THEN g[x] - f[x] ELSE 0)
           Wrong == {k \in 0 .. AccountN : ~ Right(k)}
<1>4. Wrong = {}
  <2>1. SUFFICES ASSUME Wrong # {} PROVE FALSE
    OBVIOUS
  <2>2. PICK k \in Wrong : \A j \in Wrong : k <= j
    <3>1. Wrong \in SUBSET Nat
      OBVIOUS
    <3>2. QED
      BY <2>1, <3>1, LeastNatural
  <2>3. x \in Nat /\ x < AccountN
    BY DEF Accounts
  <2>4. k # 0
    BY <1>3, <2>2, <2>3
  <2>5. PICK j \in Accounts : j = k - 1 /\ k = j + 1 /\ j \in Nat /\ j \notin Wrong
                              /\ j \in 0 .. AccountN /\ k \in 1 .. AccountN
    <3>1. k - 1 \in Accounts /\ k = (k - 1) + 1 /\ k - 1 \in Nat /\ k - 1 \notin Wrong
          /\ k - 1 \in 0 .. AccountN /\ k \in 1 .. AccountN
      BY <2>2, <2>4 DEF Accounts
    <3>2. QED
      BY <3>1
  <2>6. Right(j)
    BY <2>5
  <2>7. s[k] = s[j] + f[j] /\ t[k] = t[j] + g[j]
    BY <1>3, <2>5
  <2>8. f[j] \in Int /\ g[j] \in Int /\ f[x] \in Int /\ g[x] \in Int
    OBVIOUS
  <2>9. CASE j = x
    BY <2>2, <2>3, <2>5, <2>6, <2>7, <2>8, <2>9
  <2>10. CASE j # x
    <3>1. g[j] = f[j] /\ (k > x <=> j > x)
      BY <2>3, <2>5, <2>10
    <3>2. Right(k)
      BY <2>6, <2>7, <2>8, <3>1
    <3>3. QED
      BY <2>2, <3>2
  <2>11. QED
    BY <2>9, <2>10
<1>5. Right(AccountN) /\ AccountN > x
  BY <1>4 DEF Accounts
<1>6. QED
  BY <1>1, <1>2, <1>5

(***************************************************************************)
(* A transfer keeps the sum of the balances modulo BalMod.                 *)
(***************************************************************************)
LEMMA TransferConserves ==
  ASSUME NEW t \in Tables, NEW x \in Transfers, x.from # x.to,
         SumOf(t.balance) % BalMod = 0
  PROVE  SumOf(Applied(t, x).balance) % BalMod = 0
<1>1. PICK b \in [Accounts -> 0 .. BalMod - 1] : b = t.balance
  BY DEF Tables
<1>2. PICK f \in Accounts, g \in Accounts, d \in Nat : f = x.from /\ g = x.to /\ d = x.delta /\ f # g
  BY DEF Transfers
<1>3. PICK mid : mid = [b EXCEPT ![f] = Minus(b[f], d)]
  OBVIOUS
<1>4. PICK u : u = [mid EXCEPT ![g] = Plus(mid[g], d)]
  OBVIOUS
<1>5. Applied(t, x).balance = u
  BY <1>1, <1>2, <1>3, <1>4 DEF Applied
<1>6. mid[g] = b[g] /\ b[g] \in 0 .. BalMod - 1 /\ b[f] \in 0 .. BalMod - 1
  BY <1>1, <1>2, <1>3
<1>7. Minus(b[f], d) \in 0 .. BalMod - 1 /\ Plus(b[g], d) \in 0 .. BalMod - 1
  BY <1>6, BalanceRange
<1>8. b \in [Accounts -> Int] /\ mid \in [Accounts -> Int] /\ u \in [Accounts -> Int]
  <2>1. b \in [Accounts -> Int]
    BY <1>1
  <2>2. mid \in [Accounts -> Int]
    BY <1>3, <1>7, <2>1
  <2>3. QED
    BY <1>4, <1>6, <1>7, <2>1, <2>2
<1>9. SumOf(b) \in Int /\ SumOf(mid) = SumOf(b) + (Minus(b[f], d) - b[f])
  <2>1. \A a \in Accounts : a # f => mid[a] = b[a]
    BY <1>3, <1>8
  <2>2. mid[f] = Minus(b[f], d)
    BY <1>3, <1>8
  <2>3. SumOf(b) \in Int /\ SumOf(mid) = SumOf(b) + (mid[f] - b[f])
    BY <1>8, <2>1, SumChanges
  <2>4. QED
    BY <2>2, <2>3
<1>10. SumOf(u) = SumOf(mid) + (Plus(b[g], d) - b[g])
  <2>1. \A a \in Accounts : a # g => u[a] = mid[a]
    BY <1>4, <1>8
  <2>2. u[g] = Plus(b[g], d)
    BY <1>4, <1>6, <1>8
  <2>3. SumOf(u) = SumOf(mid) + (u[g] - mid[g])
    BY <1>8, <2>1, SumChanges
  <2>4. QED
    BY <1>6, <2>2, <2>3
<1>11. PICK m \in Nat \ {0} : m = BalMod
  OBVIOUS
<1>12. PICK p \in Int : Minus(b[f], d) = b[f] - d - p * m
  <2>1. PICK e \in Int : e = b[f] - d
    BY <1>6
  <2>2. PICK k \in Int : e % m = e - k * m
    <3>1. e % m = e - (e \div m) * m /\ e \div m \in Int
      OBVIOUS
    <3>2. QED
      BY <3>1
  <2>3. Minus(b[f], d) = e % m
    BY <1>11, <2>1 DEF Minus
  <2>4. QED
    BY <2>1, <2>2, <2>3
<1>13. PICK q \in Int : Plus(b[g], d) = (b[g] + d) - q * m
  <2>1. PICK e \in Int : e = b[g] + d
    BY <1>6
  <2>2. PICK k \in Int : e % m = e - k * m
    <3>1. e % m = e - (e \div m) * m /\ e \div m \in Int
      OBVIOUS
    <3>2. QED
      BY <3>1
  <2>3. Plus(b[g], d) = e % m
    BY <1>11, <2>1 DEF Plus
  <2>4. QED
    BY <2>1, <2>2, <2>3
<1>14. PICK z \in Int : z = SumOf(b)
  BY <1>9
<1>15. SumOf(u) = z - (p + q) * m
  <2>1. (p + q) * m = p * m + q * m /\ p * m \in Int /\ q * m \in Int
    OBVIOUS
  <2>2. b[f] \in Int /\ b[g] \in Int
    BY <1>6
  <2>3. QED
    BY <1>9, <1>10, <1>12, <1>13, <1>14, <2>1, <2>2
<1>16. z % m = 0
  BY <1>1, <1>11, <1>14
<1>17. (z - (p + q) * m) % m = 0
  <2>1. PICK r \in Int : z = r * m
    <3>1. z = (z \div m) * m + (z % m) /\ z \div m \in Int
      OBVIOUS
    <3>2. QED
      BY <1>16, <3>1
  <2>2. z - (p + q) * m = (r - (p + q)) * m
    BY <2>1
  <2>3. \A v \in Int : (v * m) % m = 0
    OBVIOUS
  <2>4. r - (p + q) \in Int
    OBVIOUS
  <2>5. QED
    BY <2>2, <2>3, <2>4
<1>18. QED
  BY <1>5, <1>11, <1>15, <1>17

(***************************************************************************)
(* No table of the history has created or lost money.                      *)
(***************************************************************************)
LEMMA HistoryConserves ==
  ASSUME IInv
  PROVE  \A k \in 0 .. ScalarDone : SumOf(trace[k].balance) % BalMod = 0
<1> DEFINE Wrong == {k \in 0 .. ScalarDone : SumOf(trace[k].balance) % BalMod # 0}
<1> SUFFICES ASSUME Wrong # {} PROVE FALSE
  OBVIOUS
<1>1. /\ ScalarDone \in 0 .. XferN /\ trace[0] = ZeroTable /\ Recorded(ScalarDone)
      /\ ScalarDone # 0 /\ phase = "normalise" => FALSE
      /\ phase # "normalise" => Prepared
  BY DEF IInv, TypeOK, History, Stages, ScalarDone
<1>2. PICK k \in Wrong : \A j \in Wrong : k <= j
  <2>1. Wrong \in SUBSET Nat
    OBVIOUS
  <2>2. QED
    BY <2>1, LeastNatural
<1>3. k # 0
  <2>1. SumOf(ZeroTable.balance) = 0
    BY SumOfZeroes DEF ZeroTable
  <2>2. 0 % BalMod = 0
    OBVIOUS
  <2>3. QED
    BY <1>1, <1>2, <2>1, <2>2
<1>4. PICK j \in 0 .. ScalarDone - 1 : k = j + 1 /\ j \notin Wrong /\ j \in 0 .. ScalarDone /\ j \in Xfers
  <2>1. /\ k - 1 \in 0 .. ScalarDone - 1 /\ k = (k - 1) + 1 /\ k - 1 \notin Wrong
        /\ k - 1 \in 0 .. ScalarDone /\ k - 1 \in Xfers
    BY <1>1, <1>2, <1>3 DEF Xfers
  <2>2. QED
    BY <2>1
<1>5. Prepared
  BY <1>1, <1>4
<1>6. trace[j] \in Tables /\ trace[k] = Applied(trace[j], xfer[j])
  BY <1>1, <1>4 DEF Recorded
<1>7. xfer[j] \in Transfers /\ xfer[j].from # xfer[j].to
  BY <1>4, <1>5 DEF Prepared
<1>8. SumOf(trace[j].balance) % BalMod = 0
  BY <1>4
<1>9. SumOf(trace[k].balance) % BalMod = 0
  BY <1>6, <1>7, <1>8, TransferConserves
<1>10. QED
  BY <1>2, <1>9

------------------------------------------------------------------------------
(* Theorems                                                                 *)

(***************************************************************************)
(* Type correctness of the benchmark's state.                              *)
(***************************************************************************)
THEOREM TypeCorrect == Spec => []TypeOK
<1>1. IInv => TypeOK
  BY DEF IInv
<1>2. QED
  BY <1>1, InitIInv, NextIInv, PTL DEF Spec

(***************************************************************************)
(* At every batch boundary the table is what the scalar loop had after the *)
(* same transfers: the gathers and scatters of a batch lose no update,     *)
(* sched_ops.c:159-251.                                                    *)
(***************************************************************************)
THEOREM BatchesAreSerial == Spec => []SerialEquivalence
<1>1. IInv => SerialEquivalence
  BY DEF IInv, Stages
<1>2. QED
  BY <1>1, InitIInv, NextIInv, PTL DEF Spec

(***************************************************************************)
(* Neither loop creates or destroys money, whatever the balances wrap at:  *)
(* sched_ops.c:145-156 and 230-251.                                        *)
(***************************************************************************)
THEOREM MoneyConserved == Spec => []Conservation
<1>1. ASSUME IInv PROVE Conservation
  <2>1. /\ phase \in {"normalise", "scalar", "batch", "validate", "done"}
        /\ ScalarDone \in Nat /\ i \in 0 .. XferN
        /\ phase = "batch" => ScalarDone = XferN
        /\ trace[0] = ZeroTable /\ trace[ScalarDone] = alt
    BY <1>1 DEF IInv, TypeOK, History, ScalarDone
  <2>2. \E k \in 0 .. ScalarDone : account = trace[k]
    BY <1>1, <2>1 DEF IInv, Stages, SerialEquivalence
  <2>3. SumOf(account.balance) % BalMod = 0 /\ SumOf(alt.balance) % BalMod = 0
    BY <1>1, <2>1, <2>2, HistoryConserves
  <2>4. QED
    BY <2>3 DEF Conservation
<1>2. QED
  BY <1>1, InitIInv, NextIInv, PTL DEF Spec

(***************************************************************************)
(* The comparison of the two tables at the end never fails.                *)
(***************************************************************************)
THEOREM NeverFails == Spec => [](verdict # "failed")
<1>1. IInv => verdict # "failed"
  BY DEF IInv, Stages
<1>2. QED
  BY <1>1, InitIInv, NextIInv, PTL DEF Spec

(***************************************************************************)
(* A batch is never empty, holds no two transfers with an account in       *)
(* common, and ends only at such a transfer, at the last one or at the     *)
(* width of the vector: sched_ops.c:181-196.                               *)
(***************************************************************************)
THEOREM LongestBatches == Spec => BatchesAreMaximal
<1>1. ASSUME IInv, [Next]_vars
      PROVE  [phase = "batch" /\ i < XferN => LongestRun]_vars
  <2>1. SUFFICES ASSUME ~ UNCHANGED vars, phase = "batch", i < XferN PROVE LongestRun
    OBVIOUS
  <2>2. BatchStep
    BY <1>1, <2>1 DEF Next, Normalise, ScalarStep, ScalarEnd, BatchEnd, Validate, Returned,
                      IInv, TypeOK
  <2>3. AtBatch /\ account \in Tables
    BY <1>1, <2>1 DEF IInv, TypeOK, Stages, AtBatch
  <2>4. i' = i + Count /\ i \in Nat
    BY <2>2, <2>3, ParallelAfter DEF AtBatch
  <2>5. /\ Count \in 1 .. LoadedN /\ LoadedN \in 1 .. VL /\ i + LoadedN <= XferN
        /\ \A j, k \in LaneIds(Count) : j # k => Ends(i + j) \cap Ends(i + k) = {}
        /\ Count = LoadedN \/ \E j \in LaneIds(Count) : Ends(i + j) \cap Ends(i + Count) # {}
    BY <2>3, BatchContents, LoadedLanes
  <2>6. \A k \in i .. i' - 1 : k - i \in LaneIds(Count) /\ k = i + (k - i)
    BY <2>4, <2>5 DEF LaneIds
  <2>7. Independent(i, i' - 1)
    <3>1. SUFFICES ASSUME NEW j \in i .. i' - 1, NEW k \in i .. i' - 1, j # k
                   PROVE  Ends(j) \cap Ends(k) = {}
      BY DEF Independent
    <3>2. PICK a \in LaneIds(Count), b \in LaneIds(Count) : j = i + a /\ k = i + b
      BY <2>6
    <3>3. a # b
      BY <3>1, <3>2
    <3>4. QED
      BY <2>5, <3>2, <3>3
  <2>8. CASE Count = LoadedN
    <3>1. i' = i + VL \/ i' = XferN
      BY <2>4, <2>5, <2>8 DEF LoadedN
    <3>2. QED
      BY <2>4, <2>5, <2>7, <3>1 DEF LongestRun
  <2>9. CASE \E j \in LaneIds(Count) : Ends(i + j) \cap Ends(i + Count) # {}
    <3>1. PICK j \in LaneIds(Count) : Ends(i + j) \cap Ends(i + Count) # {}
      BY <2>9
    <3>2. i + j \in i .. i' /\ i' \in i .. i' /\ i + j # i'
      BY <2>4, <2>5 DEF LaneIds
    <3>3. ~ Independent(i, i')
      BY <2>4, <3>1, <3>2 DEF Independent
    <3>4. QED
      BY <2>4, <2>5, <2>7, <3>3 DEF LongestRun
  <2>10. QED
    BY <2>5, <2>8, <2>9
<1>2. QED
  BY <1>1, InitIInv, NextIInv, PTL DEF Spec, BatchesAreMaximal
==============================================================================
