-------------------------- MODULE FileFillTheorems ---------------------------
(***************************************************************************)
(* Proofs about FileFill, for every length of the buffer, every chunk and  *)
(* every file, and whatever the answers of the kernel are.                 *)
(***************************************************************************)
EXTENDS FileFill, FiniteSetTheorems, TLAPS

USE LenAssumption, ChunkAssumption, FilesAssumption

\* The bytes below trav that a read has filled.
FilledBytes == (0 .. trav - 1) \ skipped

\* What the loop has done by now, at whatever place of the buffer: this is what
\* SuccessIsExact says once trav has reached the end.
Progress ==
  /\ skipped \subseteq 0 .. trav - 1
  /\ \A b \in Bytes : data[b] = Unset <=> b \notin FilledBytes
  /\ \A b \in FilledBytes : data[b] \in 0 .. fpos - 1
  /\ \A a, b \in FilledBytes : a < b => data[a] < data[b]
  /\ Cardinality(FilledBytes) = fpos

\* The descriptor is open in the loop and only there, and there is a result
\* only behind it.
Control ==
  /\ fds = IF pc = "loop" THEN 1 ELSE 0
  /\ ret = "ok" => left = 0
  /\ pc = "done" <=> ret # "none"

IInv == TypeOK /\ Progress /\ Control

------------------------------------------------------------------------------
(* One read.                                                                *)

(***************************************************************************)
(* A chunk is not empty while something is left, and never longer than     *)
(* what is.                                                                *)
(***************************************************************************)
LEMMA ChunkBounds ==
  ASSUME TypeOK, left > 0
  PROVE  Chunk \in 1 .. left /\ Chunk <= MaxChunk
BY DEF TypeOK, Chunk

(***************************************************************************)
(* After a read of n bytes the filled bytes are those before it and the n  *)
(* new ones, which are not among them.                                     *)
(***************************************************************************)
LEMMA ReadFills ==
  ASSUME IInv, NEW n \in 1 .. MaxChunk, ReadSome(n)
  PROVE  /\ n \in Nat /\ n >= 1 /\ n <= Chunk
         /\ trav + Chunk \in 0 .. Len /\ trav + n - 1 \in Bytes
         /\ FilledBytes' = FilledBytes \cup (trav .. trav + n - 1)
         /\ FilledBytes \cap (trav .. trav + n - 1) = {}
<1> USE DEF IInv, TypeOK, Progress, ReadSome, FilledBytes
<1>1. Chunk \in Nat /\ Chunk <= left /\ trav \in Nat /\ left \in Nat /\ n \in Nat /\ n <= Chunk
  BY ChunkBounds
<1>2. trav + Chunk \in 0 .. Len /\ trav + n - 1 \in Bytes
  BY <1>1 DEF Bytes
<1>3. /\ trav' = trav + Chunk
      /\ skipped' = skipped \cup (trav + n .. trav + Chunk - 1)
      /\ \A b \in skipped : b \in Nat /\ b < trav
  BY <1>1
<1>4. \A b : b \in FilledBytes' <=> b \in FilledBytes \/ b \in trav .. trav + n - 1
  BY <1>1, <1>3
<1>5. QED
  BY <1>1, <1>2, <1>4

(***************************************************************************)
(* A read, of whatever length, keeps the inductive invariant.              *)
(***************************************************************************)
LEMMA ReadInvariant ==
  ASSUME IInv, NEW n \in 1 .. MaxChunk, ReadSome(n)
  PROVE  IInv'
<1> DEFINE new == trav .. trav + n - 1
<1>1. /\ n \in Nat /\ n >= 1 /\ n <= Chunk
      /\ trav + Chunk \in 0 .. Len /\ trav + n - 1 \in Bytes
      /\ FilledBytes' = FilledBytes \cup new
      /\ FilledBytes \cap new = {}
  BY ReadFills
<1>2. /\ trav \in Nat /\ left \in Nat /\ fpos \in Nat /\ flen \in Nat /\ trav + left = Len
      /\ Chunk \in Nat /\ Chunk <= left
      /\ pc' = pc /\ fds' = fds /\ ret' = ret /\ errno' = errno /\ flen' = flen
      /\ data' = Deposit(n) /\ fpos' = fpos + n /\ n <= flen - fpos
      /\ trav' = trav + Chunk /\ left' = left - Chunk
      /\ skipped' = skipped \cup (trav + n .. trav + Chunk - 1)
  BY ChunkBounds DEF IInv, TypeOK, ReadSome
<1>3. \A b \in Bytes : data'[b] = IF b \in new THEN fpos + b - trav ELSE data[b]
  BY <1>2 DEF Deposit
<1>4. new \subseteq Bytes /\ FilledBytes \subseteq Bytes
  BY <1>1, <1>2 DEF Bytes, FilledBytes
<1>5. TypeOK'
  <2>1. data' \in [Bytes -> Nat \cup {Unset}]
    <3>1. \A b \in new : fpos + b - trav \in Nat
      BY <1>2
    <3>2. QED
      BY <1>2, <1>3, <3>1 DEF IInv, TypeOK, Deposit
  <2>2. skipped' \subseteq Bytes
    BY <1>1, <1>2 DEF IInv, TypeOK, Bytes
  <2>3. fpos' \in 0 .. flen' /\ trav' \in 0 .. Len /\ left' \in 0 .. Len /\ trav' + left' = Len
    BY <1>1, <1>2
  <2>4. QED
    BY <1>2, <2>1, <2>2, <2>3 DEF IInv, TypeOK
<1>6. Progress'
  <2>1. skipped' \subseteq 0 .. trav' - 1
    BY <1>1, <1>2 DEF IInv, Progress
  <2>2. \A b \in FilledBytes : data'[b] = data[b] /\ data[b] \in 0 .. fpos - 1
    BY <1>1, <1>3, <1>4 DEF IInv, Progress
  <2>3. \A b \in new : data'[b] = fpos + b - trav /\ data'[b] \in fpos .. fpos + n - 1
    BY <1>2, <1>1, <1>3, <1>4
  <2>4. \A b \in Bytes : data'[b] = Unset <=> b \notin FilledBytes'
    <3>1. \A b \in Bytes : data[b] = Unset <=> b \notin FilledBytes
      BY DEF IInv, Progress
    <3>2. \A b \in new : data'[b] # Unset
      BY <1>2, <2>3 DEF Unset
    <3>3. QED
      BY <1>1, <1>3, <3>1, <3>2
  <2>5. \A b \in FilledBytes' : data'[b] \in 0 .. fpos' - 1
    BY <1>1, <1>2, <2>2, <2>3
  <2>6. \A a, b \in FilledBytes' : a < b => data'[a] < data'[b]
    <3> SUFFICES ASSUME NEW a \in FilledBytes', NEW b \in FilledBytes', a < b
                 PROVE  data'[a] < data'[b]
      OBVIOUS
    <3>1. CASE a \in FilledBytes /\ b \in FilledBytes
      BY <2>2, <3>1 DEF IInv, Progress
    <3>2. CASE a \in FilledBytes /\ b \in new
      BY <1>2, <2>2, <2>3, <3>2
    <3>3. CASE a \in new /\ b \in new
      BY <1>2, <2>3, <3>3
    <3>4. ~(a \in new /\ b \in FilledBytes)
      BY <1>2 DEF FilledBytes
    <3>5. QED
      BY <1>1, <3>1, <3>2, <3>3, <3>4
  <2>7. Cardinality(FilledBytes') = fpos'
    <3>1. IsFiniteSet(new) /\ Cardinality(new) = n
      <4>1. trav \in Int /\ trav + n - 1 \in Int
        BY <1>1, <1>2
      <4>2. /\ IsFiniteSet(new)
            /\ Cardinality(new) = IF trav > trav + n - 1 THEN 0 ELSE trav + n - 1 - trav + 1
        BY <4>1, FS_Interval
      <4>3. QED
        BY <1>1, <1>2, <4>2
    <3>2. IsFiniteSet(FilledBytes)
      <4>1. IsFiniteSet(0 .. trav - 1)
        BY <1>2, FS_Interval
      <4>2. QED
        BY <4>1, FS_Subset DEF FilledBytes
    <3>3. Cardinality(FilledBytes \cup new)
            = Cardinality(FilledBytes) + Cardinality(new) - Cardinality(FilledBytes \cap new)
      BY <3>1, <3>2, FS_Union
    <3>4. Cardinality(FilledBytes \cap new) = 0
      BY <1>1, FS_EmptySet
    <3>5. Cardinality(FilledBytes) = fpos
      BY DEF IInv, Progress
    <3>6. QED
      BY <1>1, <1>2, <3>1, <3>3, <3>4, <3>5
  <2>8. QED
    BY <2>1, <2>4, <2>5, <2>6, <2>7 DEF Progress
<1>7. Control'
  <2>1. pc = "loop"
    BY DEF ReadSome
  <2>2. QED
    BY <1>2, <2>1 DEF IInv, Control
<1>8. QED
  BY <1>5, <1>6, <1>7 DEF IInv

------------------------------------------------------------------------------
(* The inductive invariant.                                                 *)

(***************************************************************************)
(* The invariant holds before open() is called.                            *)
(***************************************************************************)
LEMMA InitInvariant == Init => IInv
<1> SUFFICES ASSUME Init PROVE IInv
  OBVIOUS
<1>1. FilledBytes = {}
  BY DEF Init, FilledBytes
<1>2. Progress
  BY <1>1, FS_EmptySet DEF Init, Progress
<1>3. TypeOK /\ Control
  BY DEF Init, TypeOK, Control
<1>4. QED
  BY <1>2, <1>3 DEF IInv

(***************************************************************************)
(* The steps other than a read leave the buffer alone.                     *)
(***************************************************************************)
LEMMA ProgressKept ==
  ASSUME Progress, UNCHANGED <<data, trav, fpos, skipped>>
  PROVE  Progress'
BY DEF Progress, FilledBytes

(***************************************************************************)
(* Every step keeps the invariant: one case per action.                    *)
(***************************************************************************)
LEMMA StepInvariant == IInv /\ [Next]_vars => IInv'
<1> SUFFICES ASSUME IInv, [Next]_vars PROVE IInv'
  OBVIOUS
<1>1. CASE Open
  <2>1. TypeOK' /\ Control'
    BY <1>1 DEF IInv, TypeOK, Control, Open
  <2>2. QED
    BY <1>1, <2>1, ProgressKept DEF IInv, Open
<1>2. CASE OpenFails
  <2>1. TypeOK' /\ Control'
    BY <1>2 DEF IInv, TypeOK, Control, OpenFails
  <2>2. QED
    BY <1>2, <2>1, ProgressKept DEF IInv, OpenFails
<1>3. CASE Read
  BY <1>3, ReadInvariant DEF Read
<1>4. ASSUME NEW r \in {0, -1}, NEW e \in {"none", "EINTR", "EIO", "ENOENT"}, ReadStops(r, e)
      PROVE  IInv'
  <2>1. TypeOK' /\ Control'
    BY <1>4 DEF IInv, TypeOK, Control, ReadStops, Leave
  <2>2. QED
    BY <1>4, <2>1, ProgressKept DEF IInv, ReadStops
<1>5. CASE AtEof
  BY <1>4, <1>5 DEF AtEof, IInv, TypeOK
<1>6. CASE ReadError
  BY <1>4, <1>6 DEF ReadError
<1>7. CASE Filled
  <2>1. TypeOK' /\ Control'
    BY <1>7 DEF IInv, TypeOK, Control, Filled, Leave
  <2>2. QED
    BY <1>7, <2>1, ProgressKept DEF IInv, Filled
<1>8. CASE UNCHANGED vars
  BY <1>8 DEF vars, IInv, TypeOK, Progress, FilledBytes, Control
<1>9. QED
  BY <1>1, <1>2, <1>3, <1>5, <1>6, <1>7, <1>8 DEF Next, Returned

(***************************************************************************)
(* The invariant holds in every state of every run.                        *)
(***************************************************************************)
LEMMA FillInvariant == FairSpec => []IInv
BY InitInvariant, StepInvariant, PTL DEF FairSpec

------------------------------------------------------------------------------
(* What the runs check.                                                     *)

(***************************************************************************)
(* The cursor and the rest stay one whole and the offsets stay in their    *)
(* ranges, for every length, chunk and file.                               *)
(***************************************************************************)
THEOREM TypeCorrect == FairSpec => []TypeOK
BY FillInvariant, PTL DEF IInv

(***************************************************************************)
(* On every path out, after any number of interrupted reads, the           *)
(* descriptor has been closed exactly once.                                *)
(***************************************************************************)
THEOREM DescriptorClosed == FairSpec => []NoDescriptorLeak
<1>1. IInv => NoDescriptorLeak
  BY DEF IInv, Control, NoDescriptorLeak
<1>2. QED
  BY <1>1, FillInvariant, PTL

(***************************************************************************)
(* When the call reports success the buffer holds the first bytes of the   *)
(* file in order, in all places but those short reads have left behind.    *)
(***************************************************************************)
THEOREM SuccessExact == FairSpec => []SuccessIsExact
<1>1. IInv => SuccessIsExact
  <2> SUFFICES ASSUME IInv, ret = "ok" PROVE SuccessIsExact
    BY DEF SuccessIsExact
  <2>1. trav = Len
    BY DEF IInv, TypeOK, Control
  <2>2. FilledBytes = Bytes \ skipped
    BY <2>1 DEF FilledBytes, Bytes
  <2>3. QED
    BY <2>2 DEF IInv, Progress, SuccessIsExact
<1>2. QED
  BY <1>1, FillInvariant, PTL
==============================================================================
