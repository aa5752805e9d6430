-------------------------- MODULE MCBatchScheduler ---------------------------
(***************************************************************************)
(* Instances of BatchScheduler for TLC.                                    *)
(***************************************************************************)
EXTENDS BatchScheduler

CONSTANT NHash     \* hashes are 0 .. NHash-1 (the driver's "modulo")

\* Every queue of QLen events over NHash hashes: what randomize_data() and
\* "hash[i] %= modulo" can leave in the array (sched_ops.c:36-43).
MCAllQueues == [Slots -> 0 .. NHash - 1]
==============================================================================
