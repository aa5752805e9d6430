------------------------------- MODULE PerfJig -------------------------------
(***************************************************************************)
(* main() of perf_jig/perf_jig_main.c: every argument of the program is    *)
(* split at its colons and the benchmark its first part names is run.      *)
(* A benchmark is seen as a user of memory: it may refuse its parameters,  *)
(* maps its segments one after the other, works, gives back what it gives  *)
(* back, and returns.  The malloc() of schedule_batch counts as a segment. *)
(***************************************************************************)
EXTENDS Integers, Sequences, FiniteSets

CONSTANTS NArgs,      \* entries of tav, MAX_PERF_FUNC_ARGS
          CmdLines    \* the command lines: sequences of arguments, an argument
                      \* being the sequence of its parts

Benchmarks == {"clmul", "schedule_batch", "accounts_table", "pcap_load",
               "translate_bytes", "murmur3_notail"}

\* No part there; a part that is a number a benchmark refuses, such as zero.
Null == "NULL"
Bad  == "bad"

ASSUME ArgsAssumption == NArgs \in 4 .. 18
ASSUME CmdAssumption  ==
  \A c \in CmdLines :
    /\ c \in Seq(Seq(STRING))
    /\ \A k \in 1 .. Len(c) : Len(c[k]) > 0 /\ \A t \in 1 .. Len(c[k]) : c[k][t] # Null

VARIABLES argv,    \* the arguments of the program
          i,       \* the number of the current one
          tav,     \* its parts, the arguments of the benchmark
          bench,   \* the benchmark that runs
          stage,   \* "main", "bench", or "exit"
          segs,    \* how many segments the benchmark has mapped
          live,    \* the segments mapped: <<number of the argument, k>>
          status,  \* the exit status
          ran      \* history: the arguments of the benchmarks called

driver == <<argv, i, tav, bench, stage, segs, live, status, ran>>

Blank == [k \in 0 .. NArgs - 1 |-> Null]

DriverInit ==
  /\ argv \in CmdLines
  /\ i = 1
  /\ tav = Blank
  /\ bench = Null
  /\ stage = "main"
  /\ segs = 0
  /\ live = {}
  /\ status = 0
  /\ ran = <<>>

Exit(s) == stage' = "exit" /\ status' = s

(* ---- The loop over the arguments ------------------------------------- *)

\* argc < 2
Usage ==
  /\ stage = "main" /\ argv = <<>>
  /\ Exit(1)
  /\ UNCHANGED <<argv, i, tav, bench, segs, live, ran>>

\* Mutants of the next definition.
Chopped_NotCleared(parts) ==
  [k \in 0 .. NArgs - 1 |-> IF k < Len(parts) THEN parts[k + 1] ELSE tav[k]]

\* tav after memset() and chop_test_args(): the parts past its end are dropped.
Chopped(parts) ==
  [k \in 0 .. NArgs - 1 |-> IF k < Len(parts) THEN parts[k + 1] ELSE Blank[k]]

\* The entry of that name is found and its function is called.
Dispatch ==
  /\ stage = "main" /\ i <= Len(argv)
  /\ argv[i][1] \in Benchmarks
  /\ tav' = Chopped(argv[i])
  /\ bench' = argv[i][1]
  /\ stage' = "bench"
  /\ ran' = Append(ran, tav')
  /\ UNCHANGED <<argv, i, segs, live, status>>

\* There is none.  The func read then is the one behind the last entry: the
\* usage message when it happens to be NULL, on to the next argument else.
Unknown ==
  /\ stage = "main" /\ i <= Len(argv)
  /\ argv[i][1] \notin Benchmarks
  /\ tav' = Chopped(argv[i])
  /\ \/ Exit(1) /\ i' = i
     \/ i' = i + 1 /\ UNCHANGED <<stage, status>>
  /\ UNCHANGED <<argv, bench, segs, live, ran>>

Done ==
  /\ stage = "main" /\ i = Len(argv) + 1 /\ argv # <<>>
  /\ Exit(0)
  /\ UNCHANGED <<argv, i, tav, bench, segs, live, ran>>

(* ---- The benchmarks -------------------------------------------------- *)

Segments(b) == CASE b = "accounts_table" -> 3
                 [] b \in {"pcap_load", "translate_bytes", "murmur3_notail"} -> 2
                 [] b = "schedule_batch" -> 1
                 [] OTHER -> 0

\* The parameters the benchmark looks at before it maps anything.
Refuses(b) ==
  \/ b = "pcap_load" /\ tav[1] = Null
  \/ b \in {"translate_bytes", "murmur3_notail"} /\ Bad \in {tav[k] : k \in 1 .. 3}
  \/ b = "schedule_batch" /\ Bad \in {tav[k] : k \in 1 .. 2}

\* The benchmark returns; the program ends on a negative number.
Return(rc) ==
  /\ bench' = Null
  /\ segs' = 0
  /\ IF rc < 0 THEN Exit(1) /\ i' = i
               ELSE stage' = "main" /\ i' = i + 1 /\ status' = status
  /\ UNCHANGED <<argv, tav, ran>>

Refuse ==
  /\ stage = "bench" /\ segs = 0 /\ Refuses(bench)
  /\ Return(-1)
  /\ live' = live

Map ==
  /\ stage = "bench" /\ ~Refuses(bench)
  /\ segs < Segments(bench)
  /\ segs' = segs + 1
  /\ live' = live \cup {<<i, segs'>>}
  /\ UNCHANGED <<argv, i, tav, bench, stage, status, ran>>

\* Mutants of the next definition.
Undone_LastOnly(k) == {k - 1}

\* The segments that the error path of mapping number k gives back.
Undone(k) == 1 .. k - 1

MapFails ==
  /\ stage = "bench" /\ ~Refuses(bench)
  /\ segs < Segments(bench)
  /\ live' = live \ {<<i, k>> : k \in Undone(segs + 1)}
  /\ Return(-1)

\* The segments that a benchmark gives back at its end: the accounts table and
\* the queue of the batch scheduler are kept until the program exits.
GivenBack(b) == IF b \in {"accounts_table", "schedule_batch"} THEN {} ELSE 1 .. Segments(b)

\* The work is done; only the accounts table can find it wrong.
Finish ==
  /\ stage = "bench" /\ ~Refuses(bench)
  /\ segs = Segments(bench)
  /\ live' = live \ {<<i, k>> : k \in GivenBack(bench)}
  /\ \/ Return(0)
     \/ bench = "accounts_table" /\ Return(-1)

\* The steps of main(), and of a benchmark.
Main  == Usage \/ Dispatch \/ Unknown \/ Done
Bench == Refuse \/ Map \/ MapFails \/ Finish

Exited == stage = "exit" /\ UNCHANGED driver

------------------------------------------------------------------------------
(* Properties                                                               *)

DriverTypeOK ==
  /\ argv \in CmdLines
  /\ i \in 1 .. Len(argv) + 1
  /\ DOMAIN tav = 0 .. NArgs - 1
  /\ bench \in Benchmarks \cup {Null}
  /\ stage \in {"main", "bench", "exit"}
  /\ segs \in 0 .. 3
  /\ live \subseteq (1 .. Len(argv)) \X (1 .. 3)
  /\ status \in {0, 1}
  /\ Len(ran) <= i

\* Between two benchmarks and at the end nothing is left of a benchmark that
\* failed to get all its memory, whichever mapping failed, and of the others
\* only the accounts tables and the schedulers' queues, which nothing frees.
SegmentsReleased ==
  stage # "bench" =>
    \A s \in live : /\ argv[s[1]][1] \in {"accounts_table", "schedule_batch"}
                    /\ \A k \in 1 .. Segments(argv[s[1]][1]) : <<s[1], k>> \in live

\* The arguments of the program that name a benchmark, and the place of one among
\* them.
Known   == {k \in 1 .. Len(argv) : argv[k][1] \in Benchmarks}
Rank(k) == Cardinality({j \in Known : j <= k})

\* The benchmarks are called in the order of the arguments, each with its own
\* parameters and none of an earlier one, all of them when the program
\* reports success.
CommandsInOrder ==
  /\ Len(ran) <= Cardinality(Known)
  /\ \A a \in Known : Rank(a) <= Len(ran) =>
       \A k \in 0 .. NArgs - 1 :
         ran[Rank(a)][k] = IF k < Len(argv[a]) THEN argv[a][k + 1] ELSE Null
  /\ stage = "exit" /\ status = 0 => Len(ran) = Cardinality(Known)
==============================================================================
