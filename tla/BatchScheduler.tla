--------------------------- MODULE BatchScheduler ----------------------------
(***************************************************************************)
(* schedule_batch() of include/mask_util.h and the loop every caller wraps *)
(* around it (the doc example at mask_util.h:460-469, the driver in        *)
(* perf_jig/sched_ops.c and the test in test/test_mask_util.c).            *)
(*                                                                         *)
(* hash and posn are two parallel arrays.  A call at index i rearranges    *)
(* their entries i .. i+Lookahead-1 so that a prefix free of hash          *)
(* collisions comes first, and returns the length of the prefix (at most   *)
(* BatchMax), by which the caller advances i.  Lookahead is the 16 lanes   *)
(* of a zmm register and BatchMax the 8 lanes of the processing function   *)
(* in the code; nothing in the algorithm depends on the two numbers.       *)
(***************************************************************************)
EXTENDS Lanes

CONSTANTS QLen,       \* number of queued events
          Lookahead,  \* lanes of the window (16 in the code)
          BatchMax,   \* most events in a batch (8 in the code)
          Queues      \* the initial contents of hash[] that are considered

ASSUME QLenAssumption      == QLen \in Nat
ASSUME LookaheadAssumption == Lookahead \in Nat \ {0}
ASSUME BatchMaxAssumption  == BatchMax \in Nat \ {0}
ASSUME QueuesAssumption    == Queues \subseteq [0 .. QLen - 1 -> Nat]

VARIABLES hash,       \* the hash array, rearranged by the calls
          posn,       \* the FIFO place of the event in each entry
          i,          \* the driver's index: entries below it are dispatched
          key         \* history: the hash each event arrived with

vars == <<hash, posn, i, key>>

Slots == 0 .. QLen - 1

Init == /\ key \in Queues
        /\ hash = key
        /\ posn = [k \in Slots |-> k]
        /\ i = 0

(* ---- One call of schedule_batch(hash + i, posn + i, QLen - i) -------- *)

\* The lanes loaded: etmp = min(extent, 16).
Extent(base) == IF QLen - base < Lookahead THEN QLen - base ELSE Lookahead

\* m0: loaded lanes that no earlier lane collides with.
Winners(em, h0) == LET t0 == Conflict(em, h0) IN {l \in em : t0[l] = {}}

\* Mutants of the next definition.
Swizzle_TailFirst(m0) ==
  LET idxvec == IdxVec(Lookahead)
      xm     == LaneIds(Lookahead) \ LaneIds(Lookahead - PopCount(m0))
  IN  Expand(Compress(LaneIds(Lookahead) \ m0, idxvec), xm, Compress(m0, idxvec))
Swizzle_Overlap(m0) ==
  LET idxvec == IdxVec(Lookahead)
      xm     == LaneIds(Lookahead) \ LaneIds(PopCount(m0) - 1)
  IN  Expand(Compress(m0, idxvec), xm, Compress(LaneIds(Lookahead) \ m0, idxvec))

\* sw: the winners' lane numbers, then all the other lane numbers.
Swizzle(m0) ==
  LET idxvec == IdxVec(Lookahead)
      head   == Compress(m0, idxvec)
      tail   == Compress(LaneIds(Lookahead) \ m0, idxvec)
      xm     == LaneIds(Lookahead) \ LaneIds(PopCount(m0))
  IN  Expand(head, xm, tail)

\* Mutants of the next definition.
BatchSize_Unclamped(m0) == IF PopCount(m0) < BatchMax THEN BatchMax ELSE PopCount(m0)
BatchSize_OneMore(m0)   == PopCount(m0) + 1
BatchSize_OneLess(m0)   == PopCount(m0) - 1
BatchSize_Masked(m0)    == PopCount(m0) % BatchMax
BatchSize_Timid(m0)     == IF PopCount(m0) < BatchMax THEN PopCount(m0) ELSE BatchMax - 1

\* The return value: min(n_ok, 8).
BatchSize(m0) == IF PopCount(m0) < BatchMax THEN PopCount(m0) ELSE BatchMax

Window(mem, base) ==
  MaskzLoad(Lookahead, LaneIds(Extent(base)), mem, base)

ScheduleBatch ==
  /\ i < QLen
  /\ LET em == LaneIds(Extent(i))
         m0 == Winners(em, Window(hash, i))
         sw == Swizzle(m0)
     IN  /\ hash' = MaskStore(hash, i, em, Permute(sw, Window(hash, i)))
         /\ posn' = MaskStore(posn, i, em, Permute(sw, Window(posn, i)))
         /\ i' = i + BatchSize(m0)
  /\ key' = key

\* The driver loop has ended.
Finished == i >= QLen /\ UNCHANGED vars

Next == ScheduleBatch \/ Finished

Spec == Init /\ [][Next]_vars

\* The driver is a sequential loop that never blocks: it keeps calling.
FairSpec == Spec /\ WF_vars(ScheduleBatch)

------------------------------------------------------------------------------
(* Safety                                                                   *)

TypeOK == /\ key \in [Slots -> Nat]
          /\ hash \in [Slots -> Nat]
          /\ posn \in [Slots -> Slots]
          /\ i \in 0 .. QLen

\* Every event is in the queue exactly once, and the two arrays stay
\* parallel: the entry that holds an event's place also holds its hash
\* (test_mask_util.c:154-162, "every item ... must finally appear").
Accounted == /\ \A a, b \in Slots : posn[a] = posn[b] => a = b
             /\ \A a \in Slots : hash[a] = key[posn[a]]

\* Events with the same hash never overtake one another, whatever sequence
\* of calls swizzled them (mask_util.h:455-458).
HashOrder == \A a, b \in Slots :
               a < b /\ hash[a] = hash[b] => posn[a] < posn[b]

\* No event runs more than Lookahead - 1 places ahead of its FIFO place, and
\* entries no window has reached yet are where they were loaded: the
\* "limited look-ahead" of mask_util.h:439-440.
LookaheadBound == \A a \in Slots : /\ posn[a] < a + Lookahead
                                   /\ a >= i + Lookahead - 1 => posn[a] = a

------------------------------------------------------------------------------
(* Action properties                                                        *)

Distinct(h, S) == {h[a] : a \in S}

\* The window of the call that starts at index i.
WindowSlots == i .. i + Extent(i) - 1

\* Greed: a call returns as many events as the window has different hashes,
\* up to the batch width; it never settles for a smaller batch
\* (mask_util.h:448-453).
GreedyStep ==
  LET d == Cardinality(Distinct(hash, WindowSlots))
  IN  i' - i = (IF d < BatchMax THEN d ELSE BatchMax)
Greedy == [][i < QLen => GreedyStep]_vars

\* No earlier entry of the window holds the same hash.
FirstOfHash(a) == \A b \in WindowSlots : b < a => hash[b] # hash[a]

\* The entry the call moves the event of entry a to.
MovedTo(a) == CHOOSE b \in Slots : posn'[b] = posn[a]

\* Packing: a call is a stable partition of the window, the first event of
\* each hash before the others and arrival order within both groups, and
\* leaves the rest of the queue alone (mask_util.h:448-453).
PackingStep ==
  /\ \A a, b \in WindowSlots :
       MovedTo(a) < MovedTo(b) <=>
         \/ FirstOfHash(a) /\ ~FirstOfHash(b)
         \/ (FirstOfHash(a) <=> FirstOfHash(b)) /\ a < b
  /\ \A a \in Slots \ WindowSlots : posn'[a] = posn[a]
Packing == [][i < QLen => PackingStep]_vars

\* The entry that holds the oldest event not yet dispatched.
OldestSlot == CHOOSE a \in i .. QLen - 1 :
                \A b \in i .. QLen - 1 : posn[a] <= posn[b]

\* No starvation: the oldest pending event is always inside the window; if it
\* is among the first BatchMax entries the call dispatches it, and otherwise
\* the call dispatches it or moves it there for the next call.  This is what
\* a window of twice the batch width buys (mask_util.h:480, "2x the 8-lane
\* target"): deferred work is picked up at the latest one batch late.
OldestStep ==
  LET o == posn[OldestSlot]
      dispatched == \E a \in Slots : a < i' /\ posn'[a] = o
      near == \E a \in Slots : a < i' + BatchMax /\ posn'[a] = o
  IN  /\ OldestSlot \in WindowSlots
      /\ OldestSlot < i + BatchMax => dispatched
      /\ Lookahead <= 2 * BatchMax => near
OldestPromptly == [][i < QLen => OldestStep]_vars

------------------------------------------------------------------------------
(* Refinement                                                               *)

\* The events in the entries below the driver's index have been dispatched.
Dispatched == {posn[a] : a \in 0 .. i - 1}

K == INSTANCE KeyedDispatch WITH Events <- Slots, done <- Dispatched

\* Every call is one legal batch of the abstract dispatcher: not empty, free
\* of collisions, the oldest pending event of each hash it touches, and no
\* call disturbs what was dispatched before.
ImplementsKeyedDispatch == K!KSpec

\* The loop ends with every event dispatched (each call makes progress).
EveryEventDispatched == K!AllDispatched
==============================================================================
