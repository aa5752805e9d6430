---------------------------- MODULE KeyedDispatch ----------------------------
(***************************************************************************)
(* What a batch scheduler promises the state machines behind it, without   *)
(* saying how batches are formed.                                          *)
(*                                                                         *)
(* A queue of events, identified by their place in the input FIFO, each    *)
(* with the hash of the state machine instance it is for, is dispatched in *)
(* batches.  The events of one batch are processed in parallel by a        *)
(* read-modify-write of their instances, so a batch                        *)
(*   - is never empty and never larger than the processing width,          *)
(*   - holds at most one event per hash,                                   *)
(*   - holds, for each hash in it, the OLDEST event not yet dispatched.    *)
(* The instances then go through exactly the sequence of events they would *)
(* see if the FIFO were processed one event at a time.                     *)
(***************************************************************************)
EXTENDS Integers, FiniteSets

CONSTANTS Events,     \* the FIFO places 0 .. n-1 of the events
          BatchMax    \* the most events one batch may hold

VARIABLES key,        \* the hash of each event (never changes)
          done        \* the events dispatched so far

kdVars == <<key, done>>

KInit == key \in [Events -> Nat] /\ done = {}

Pending == Events \ done

\* Event e may be dispatched next for its hash.
Oldest(e) == \A f \in Pending : key[f] = key[e] => e <= f

DispatchBatch(batch) ==
  /\ batch # {}
  /\ Cardinality(batch) <= BatchMax
  /\ \A e, f \in batch : key[e] = key[f] => e = f
  /\ \A e \in batch : Oldest(e)
  /\ done' = done \cup batch
  /\ key' = key

KNext == \E batch \in SUBSET Pending : DispatchBatch(batch)

KSpec == KInit /\ [][KNext]_kdVars

\* Every event is dispatched.
AllDispatched == <>(done = Events)
==============================================================================
