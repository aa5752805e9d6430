-------------------------- MODULE PcapLoadTheorems ---------------------------
(***************************************************************************)
(* Proofs about PcapLoad: for all command lines, for every set of packets  *)
(* and of files made of them, and for every size of the array of headers.  *)
(*                                                                         *)
(* The driver has an inductive invariant of its own, DriverInv.  The scan  *)
(* of the file, the parser, and the loop that feeds one to the other have  *)
(* LoadInv, whose parts IndexInv and ParserInv speak of one of them each.  *)
(***************************************************************************)
EXTENDS PcapLoad, FiniteSetTheorems, SequenceTheorems, WellFoundedInduction, TLAPS

------------------------------------------------------------------------------
(* Where records start                                                      *)

(***************************************************************************)
(* A nonempty set of natural numbers has a least element.                  *)
(***************************************************************************)
LEMMA LeastNatural ==
  ASSUME NEW T \in SUBSET Nat, T # {}
  PROVE  \E m \in T : \A k \in T : m <= k
<1> DEFINE Less == OpToRel(<, Nat)
<1>1. IsWellFoundedOn(Less, Nat)
  BY NatLessThanWellFounded
<1>2. \A k, m \in Nat : k < m => <<k, m>> \in Less
  BY DEF OpToRel
<1> HIDE DEF Less
<1>3. PICK m \in T : \A k \in T : ~(<<k, m>> \in Less)
  BY <1>1, WFMin
<1>4. \A k \in T : k \in Nat /\ m \in Nat /\ ~(k < m)
  BY <1>2, <1>3
<1>5. QED
  BY <1>4

\* f says where the first n records of recs start: the recursion of Offset.
IsOffset(f, recs, n) ==
  f = [k \in 0 .. n |-> IF k = 0 THEN FileHdr ELSE f[k - 1] + PktHdr + recs[k].incl]

(***************************************************************************)
(* What the recursion says of f, place by place.                           *)
(***************************************************************************)
LEMMA OffsetPlaces ==
  ASSUME NEW f, NEW recs, NEW n \in Nat, IsOffset(f, recs, n)
  PROVE  /\ f[0] = FileHdr
         /\ \A k \in 1 .. n : f[k] = f[k - 1] + PktHdr + recs[k].incl
<1>1. \A k \in 0 .. n : f[k] = IF k = 0 THEN FileHdr ELSE f[k - 1] + PktHdr + recs[k].incl
  BY DEF IsOffset
<1>2. QED
  BY <1>1

(***************************************************************************)
(* There is such a function for every n: the least n without one cannot be *)
(* 0, and otherwise the function for n - 1 can be extended.                *)
(***************************************************************************)
LEMMA OffsetExists ==
  ASSUME NEW recs, NEW n \in Nat
  PROVE  \E f : IsOffset(f, recs, n)
<1> DEFINE Without == {m \in Nat : ~ \E f : IsOffset(f, recs, m)}
<1> SUFFICES ASSUME Without # {} PROVE FALSE
  OBVIOUS
<1>1. PICK m \in Without : \A k \in Without : m <= k
  BY LeastNatural
<1>2. m \in Nat /\ m # 0
  <2>1. IsOffset([k \in 0 .. 0 |-> FileHdr], recs, 0)
    BY DEF IsOffset
  <2>2. QED
    BY <2>1
<1>3. m - 1 \in Nat /\ m - 1 \notin Without
  BY <1>1, <1>2
<1>4. PICK f : IsOffset(f, recs, m - 1)
  BY <1>3
<1> DEFINE At(h, k) == IF k = 0 THEN FileHdr ELSE h[k - 1] + PktHdr + recs[k].incl
           g == [k \in 0 .. m |-> At(f, k)]
<1>5. \A k \in 0 .. m - 1 : f[k] = At(f, k)
  BY <1>3, <1>4, OffsetPlaces
<1>6. \A k \in 1 .. m : k - 1 \in 0 .. m - 1 /\ k - 1 \in 0 .. m
  BY <1>2
<1>7. \A k \in 0 .. m : k # 0 => g[k - 1] = f[k - 1]
  BY <1>2, <1>5, <1>6
<1>8. g = [k \in 0 .. m |-> At(g, k)]
  BY <1>7
<1>9. IsOffset(g, recs, m)
  BY <1>8 DEF IsOffset
<1>10. QED
  BY <1>9

(***************************************************************************)
(* The functions for two numbers of records agree where both are defined.  *)
(***************************************************************************)
LEMMA OffsetsAgree ==
  ASSUME NEW recs, NEW m \in Nat, NEW n \in Nat, m <= n,
         NEW f, IsOffset(f, recs, m), NEW g, IsOffset(g, recs, n)
  PROVE  f[m] = g[m]
<1> DEFINE Differ == {k \in 0 .. m : f[k] # g[k]}
<1> SUFFICES ASSUME Differ # {} PROVE FALSE
  OBVIOUS
<1>1. PICK k \in Differ : \A j \in Differ : k <= j
  <2>1. Differ \in SUBSET Nat
    OBVIOUS
  <2>2. QED
    BY <2>1, LeastNatural
<1>2. k # 0
  BY OffsetPlaces
<1>3. k - 1 \in 0 .. m /\ k - 1 \notin Differ /\ k \in 1 .. m /\ k \in 1 .. n
  BY <1>1, <1>2
<1>4. f[k] = f[k - 1] + PktHdr + recs[k].incl /\ g[k] = g[k - 1] + PktHdr + recs[k].incl
  BY <1>3, OffsetPlaces
<1>5. QED
  BY <1>3, <1>4

(***************************************************************************)
(* The recursion equations of Offset.                                      *)
(***************************************************************************)
LEMMA OffsetEquations ==
  ASSUME NEW recs, NEW n \in Nat
  PROVE  /\ Idx!Offset(recs, 0) = FileHdr
         /\ Idx!Offset(recs, n + 1) = Idx!Offset(recs, n) + PktHdr + recs[n + 1].incl
<1>1. \A m \in Nat : \E f : IsOffset(f, recs, m) /\ Idx!Offset(recs, m) = f[m]
  <2> SUFFICES ASSUME NEW m \in Nat PROVE \E f : IsOffset(f, recs, m) /\ Idx!Offset(recs, m) = f[m]
    OBVIOUS
  <2>1. Idx!Offset(recs, m) = (CHOOSE f : IsOffset(f, recs, m))[m]
    BY DEF Idx!Offset, IsOffset
  <2>2. QED
    BY <2>1, OffsetExists
<1>2. PICK z : IsOffset(z, recs, 0) /\ Idx!Offset(recs, 0) = z[0]
  BY <1>1
<1>3. PICK f : IsOffset(f, recs, n) /\ Idx!Offset(recs, n) = f[n]
  BY <1>1
<1>4. PICK g : IsOffset(g, recs, n + 1) /\ Idx!Offset(recs, n + 1) = g[n + 1]
  BY <1>1
<1>5. f[n] = g[n]
  BY <1>3, <1>4, OffsetsAgree
<1>6. g[n + 1] = g[n] + PktHdr + recs[n + 1].incl
  BY <1>4, OffsetPlaces
<1>7. QED
  BY <1>2, <1>3, <1>4, <1>5, <1>6, OffsetPlaces

(***************************************************************************)
(* What PcapIndex assumes of the constants.                                *)
(***************************************************************************)
LEMMA IndexConstants ==
  /\ FileHdr \in Nat \ {0} /\ PktHdr \in Nat \ {0} /\ NHdrs \in Nat /\ MaxRecs \in Nat
  /\ MaxCut \in Nat /\ Snaps \subseteq Nat
  /\ Packets \subseteq [incl : Nat, orig : Nat, frac : Nat]
  /\ \A p \in Packets : p.incl \in Nat /\ p.orig \in Nat /\ p.frac \in Nat
BY ParametersAssumption DEF Idx!ParametersOK

(***************************************************************************)
(* Records start at natural numbers, one behind the end of the other.      *)
(***************************************************************************)
LEMMA OffsetsGrow ==
  ASSUME NEW recs \in Seq(Packets)
  PROVE  /\ \A n \in 0 .. Len(recs) : Idx!Offset(recs, n) \in Nat
         /\ \A m, n \in 0 .. Len(recs) :
              m < n => Idx!Offset(recs, m) + PktHdr + recs[m + 1].incl <= Idx!Offset(recs, n)
<1> DEFINE Off(n) == Idx!Offset(recs, n)
<1>1. /\ Off(0) = FileHdr
      /\ \A n \in 0 .. Len(recs) - 1 : Off(n + 1) = Off(n) + PktHdr + recs[n + 1].incl
      /\ \A n \in 1 .. Len(recs) : Off(n) = Off(n - 1) + PktHdr + recs[n].incl
  <2>1. \A n \in 1 .. Len(recs) : n - 1 \in Nat /\ (n - 1) + 1 = n
    OBVIOUS
  <2>2. QED
    BY <2>1, OffsetEquations
<1> HIDE DEF Off
<1>2. /\ Len(recs) \in Nat
      /\ \A n \in 1 .. Len(recs) : recs[n].incl \in Nat
      /\ FileHdr \in Nat /\ PktHdr \in Nat
  <2>1. \A n \in 1 .. Len(recs) : recs[n] \in Packets
    BY ElementOfSeq
  <2>2. QED
    BY <2>1, IndexConstants
<1>3. ASSUME NEW n \in 0 .. Len(recs) PROVE Off(n) \in Nat
  <2> DEFINE Odd == {k \in 0 .. Len(recs) : Off(k) \notin Nat}
  <2> SUFFICES ASSUME Odd # {} PROVE FALSE
    OBVIOUS
  <2>1. Odd \in SUBSET Nat
    BY <1>2
  <2>2. PICK k \in Odd : \A j \in Odd : k <= j
    BY <2>1, LeastNatural
  <2>3. k # 0
    BY <1>1, <1>2
  <2>4. k - 1 \in 0 .. Len(recs) /\ k - 1 \notin Odd /\ k \in 1 .. Len(recs)
    BY <1>2, <2>2, <2>3
  <2>5. Off(k) = Off(k - 1) + PktHdr + recs[k].incl /\ recs[k].incl \in Nat
    BY <1>1, <1>2, <2>4
  <2>6. QED
    BY <1>2, <2>4, <2>5
<1>4. ASSUME NEW m \in 0 .. Len(recs), NEW n \in 0 .. Len(recs), m < n
      PROVE  Off(m) + PktHdr + recs[m + 1].incl <= Off(n)
  <2> DEFINE Short == {k \in m + 1 .. Len(recs) : Off(m + 1) > Off(k)}
  <2>1. Short = {}
    <3> SUFFICES ASSUME Short # {} PROVE FALSE
      OBVIOUS
    <3>1. Short \in SUBSET Nat
      BY <1>2
    <3>2. PICK k \in Short : \A j \in Short : k <= j
      BY <3>1, LeastNatural
    <3>3. k # m + 1
      BY <1>2, <1>3
    <3>4. k - 1 \in m + 1 .. Len(recs) - 1 /\ k - 1 \notin Short /\ k \in 1 .. Len(recs)
      BY <1>2, <3>2, <3>3
    <3>5. Off(k) = Off(k - 1) + PktHdr + recs[k].incl /\ recs[k].incl \in Nat
      BY <1>1, <1>2, <3>4
    <3>6. Off(k) \in Nat /\ Off(k - 1) \in Nat /\ Off(m + 1) \in Nat
      BY <1>2, <1>3, <3>4
    <3>7. QED
      BY <1>2, <3>4, <3>5, <3>6
  <2>2. m \in 0 .. Len(recs) - 1 /\ n \in m + 1 .. Len(recs) /\ m + 1 \in 0 .. Len(recs)
    BY <1>2, <1>4
  <2>4. Off(m + 1) <= Off(n)
    BY <1>3, <2>1, <2>2
  <2>3. QED
    BY <1>1, <2>2, <2>4
<1>5. QED
  BY <1>3, <1>4 DEF Off

------------------------------------------------------------------------------
(* The driver                                                               *)

\* The parameters of one call.
Row == [0 .. NArgs - 1 -> STRING \cup {Null}]

\* The types of the driver, and where it is: in a benchmark the current argument
\* names, which has mapped no more than its segments.
Driven ==
  /\ DriverTypeOK
  /\ tav \in Row /\ ran \in Seq(Row)
  /\ stage = "main" => Len(ran) < i
  /\ stage = "bench" => i <= Len(argv) /\ bench = argv[i][1] /\ bench \in Benchmarks
                        /\ segs <= Segments(bench)
  /\ stage # "bench" => segs = 0
  /\ stage = "exit" /\ status = 0 => i = Len(argv) + 1

\* Argument a has left behind all it keeps.
KeptWhole(a) == /\ argv[a][1] \in {"accounts_table", "schedule_batch"}
                /\ \A k \in 1 .. Segments(argv[a][1]) : <<a, k>> \in live

\* The benchmark that runs has the segments it has mapped by now, and the
\* arguments before it what they keep.
Held ==
  /\ \A s \in live : s[1] < i \/ (s[1] = i /\ stage # "main")
  /\ stage = "bench" => \A k \in 1 .. 3 : <<i, k>> \in live <=> k <= segs
  /\ \A s \in live : s[1] < i \/ stage = "exit" => KeptWhole(s[1])

\* The arguments that name a benchmark and have been called.
Past == {a \in Known : a < i \/ (a = i /\ stage # "main")}

\* What the call of argument a passes.
Parameters(a) == [k \in 0 .. NArgs - 1 |-> IF k < Len(argv[a]) THEN argv[a][k + 1] ELSE Null]

\* Those and no others have been called, each with its parameters.
Called ==
  /\ Len(ran) = Cardinality(Past)
  /\ \A a \in Past : ran[Rank(a)] = Parameters(a)

\* The inductive invariant of the driver.
DriverInv == Driven /\ Held /\ Called

\* What a step of the program does to the driver.
DriverStep == Main \/ Bench \/ UNCHANGED driver

(***************************************************************************)
(* How many segments a benchmark maps.                                     *)
(***************************************************************************)
LEMMA SegmentsBounds ==
  ASSUME NEW b \in Benchmarks
  PROVE  Segments(b) \in 0 .. 3
BY DEF Segments, Benchmarks

(***************************************************************************)
(* The arguments of the program, and their parts.                          *)
(***************************************************************************)
LEMMA Arguments ==
  ASSUME argv \in CmdLines
  PROVE  /\ argv \in Seq(Seq(STRING)) /\ Len(argv) \in Nat
         /\ \A a \in 1 .. Len(argv) :
              /\ argv[a] \in Seq(STRING) /\ Len(argv[a]) \in Nat \ {0}
              /\ \A t \in 1 .. Len(argv[a]) : argv[a][t] \in STRING
              /\ Parameters(a) \in Row
<1>1. argv \in Seq(Seq(STRING)) /\ Len(argv) \in Nat
  BY CmdAssumption
<1>2. ASSUME NEW a \in 1 .. Len(argv)
      PROVE  /\ argv[a] \in Seq(STRING) /\ Len(argv[a]) \in Nat \ {0}
             /\ \A t \in 1 .. Len(argv[a]) : argv[a][t] \in STRING
             /\ Parameters(a) \in Row
  <2>1. argv[a] \in Seq(STRING)
    BY <1>1, ElementOfSeq
  <2>2. Len(argv[a]) \in Nat \ {0}
    <3>1. Len(argv[a]) > 0
      BY CmdAssumption
    <3>2. Len(argv[a]) \in Nat
      BY <2>1, LenProperties
    <3>3. QED
      BY <3>1, <3>2
  <2>3. \A t \in 1 .. Len(argv[a]) : argv[a][t] \in STRING
    BY <2>1, ElementOfSeq
  <2>4. \A k \in 0 .. NArgs - 1 : k < Len(argv[a]) => k + 1 \in 1 .. Len(argv[a])
    BY <2>2, ArgsAssumption
  <2>5. Parameters(a) \in Row
    <3>1. \A k \in 0 .. NArgs - 1 :
            (IF k < Len(argv[a]) THEN argv[a][k + 1] ELSE Null) \in STRING \cup {Null}
      BY <2>3, <2>4
    <3>2. QED
      BY <3>1 DEF Parameters, Row
  <2>6. QED
    BY <2>1, <2>2, <2>3, <2>5
<1>3. QED
  BY <1>1, <1>2

(***************************************************************************)
(* A step of the driver keeps its types and its place.                     *)
(***************************************************************************)
LEMMA DrivenStep ==
  ASSUME DriverInv, DriverStep
  PROVE  Driven'
<1> USE DEF DriverInv, Driven, DriverTypeOK, Exit, Return
<1>0. /\ argv \in Seq(Seq(STRING)) /\ Len(argv) \in Nat
      /\ \A a \in 1 .. Len(argv) : argv[a] \in Seq(STRING) /\ Parameters(a) \in Row
      /\ i \in Nat /\ segs \in Nat /\ Null \notin Benchmarks
      /\ \A b \in Benchmarks : Segments(b) \in 0 .. 3
  BY Arguments, SegmentsBounds DEF Null, Benchmarks
<1>1. CASE Usage
  BY <1>0, <1>1 DEF Usage
<1>2. ASSUME stage = "main", i <= Len(argv), tav' = Chopped(argv[i])
      PROVE  tav' \in Row /\ tav' = Parameters(i)
  <2>1. Chopped(argv[i]) = Parameters(i)
    BY DEF Chopped, Blank, Parameters
  <2>2. i \in 1 .. Len(argv)
    BY <1>2
  <2>3. QED
    BY <1>0, <1>2, <2>1, <2>2
<1>3. CASE Dispatch
  <2>1. tav' \in Row
    BY <1>2, <1>3 DEF Dispatch
  <2>2. ran' \in Seq(Row) /\ Len(ran') = Len(ran) + 1
    BY <1>3, <2>1 DEF Dispatch
  <2>3. Len(ran') <= i
    BY <1>3, <2>2 DEF Dispatch
  <2>4. QED
    <3>1. DOMAIN tav' = 0 .. NArgs - 1
      BY <2>1 DEF Row
    <3>2. bench' \in Benchmarks /\ bench' = argv'[i'][1] /\ i' <= Len(argv')
      BY <1>3 DEF Dispatch
    <3>6. 0 <= Segments(bench')
      BY <3>2, SegmentsBounds
    <3>3. /\ argv' = argv /\ i' = i /\ stage' = "bench" /\ segs' = segs /\ live' = live
          /\ status' = status
      BY <1>3 DEF Dispatch
    <3>4. segs' = 0
      BY <1>3 DEF Dispatch
    <3>5. QED
      BY <1>0, <2>1, <2>2, <2>3, <3>1, <3>2, <3>3, <3>4, <3>6
<1>4. CASE Unknown
  BY <1>0, <1>2, <1>4 DEF Unknown, Row
<1>5. CASE Done
  BY <1>0, <1>5 DEF Done
<1>6. CASE Refuse
  BY <1>0, <1>6 DEF Refuse
<1>7. CASE Map
  <2>1. segs' \in 1 .. 3 /\ segs' <= Segments(bench)
    <3>1. bench \in Benchmarks
      BY <1>7 DEF Map
    <3>2. Segments(bench) \in 0 .. 3
      BY <3>1, SegmentsBounds
    <3>3. QED
      BY <1>0, <1>7, <3>2 DEF Map
  <2>2. i \in 1 .. Len(argv) /\ live' = live \cup {<<i, segs'>>}
    BY <1>7 DEF Map
  <2>3. QED
    BY <1>7, <2>1, <2>2 DEF Map
<1>8. CASE MapFails
  BY <1>0, <1>8 DEF MapFails
<1>9. CASE Finish
  BY <1>0, <1>9 DEF Finish
<1>10. CASE UNCHANGED driver
  BY <1>10 DEF driver
<1>11. QED
  BY <1>1, <1>3, <1>4, <1>5, <1>6, <1>7, <1>8, <1>9, <1>10 DEF DriverStep, Main, Bench

(***************************************************************************)
(* A step of the driver keeps what is mapped in order.  A benchmark leaves  *)
(* either everything it maps or, as the error paths do, nothing.           *)
(***************************************************************************)
LEMMA HeldStep ==
  ASSUME DriverInv, DriverStep
  PROVE  Held'
<1>1. /\ i \in Nat /\ segs \in Nat /\ Len(argv) \in Nat /\ stage \in {"main", "bench", "exit"}
      /\ \A s \in live : s = <<s[1], s[2]>> /\ s[1] \in Nat /\ s[2] \in 1 .. 3
      /\ \A s \in live : s[1] < i \/ (s[1] = i /\ stage # "main")
      /\ stage = "bench" => \A k \in 1 .. 3 : <<i, k>> \in live <=> k <= segs
      /\ \A s \in live : s[1] < i \/ stage = "exit" => KeptWhole(s[1])
  <2>1. /\ i \in Nat /\ segs \in Nat /\ Len(argv) \in Nat /\ stage \in {"main", "bench", "exit"}
        /\ live \subseteq (1 .. Len(argv)) \X (1 .. 3)
    BY Arguments DEF DriverInv, Driven, DriverTypeOK
  <2>2. QED
    BY <2>1 DEF DriverInv, Held
<1>2. stage = "bench" => bench = argv[i][1] /\ Segments(bench) \in 0 .. 3 /\ segs <= Segments(bench)
  BY SegmentsBounds DEF DriverInv, Driven
\* Nothing is mapped or given back.
<1>3. ASSUME argv' = argv, live' = live, i' \in {i, i + 1}, stage' # "bench" \/ i' = i,
             stage = "main" \/ stage' = stage \/ (segs = 0 /\ stage = "bench" /\ stage' = "exit"),
             stage' = "bench" => \A k \in 1 .. 3 : <<i, k>> \in live <=> k <= segs',
             stage = "exit" => i' = i /\ stage' = stage
      PROVE  Held'
  <2>1. ASSUME NEW s \in live PROVE s[1] < i' \/ (s[1] = i' /\ stage' # "main")
    BY <1>1, <1>3
  <2>2. ASSUME NEW s \in live, s[1] < i' \/ stage' = "exit" PROVE KeptWhole(s[1])'
    <3>1. s[1] < i \/ stage = "exit"
      <4>1. CASE stage = "bench" /\ stage' = "exit" /\ segs = 0
        BY <1>1, <4>1
      <4>2. QED
        BY <1>1, <1>3, <2>2, <4>1
    <3>2. KeptWhole(s[1])
      BY <1>1, <3>1
    <3>3. QED
      BY <1>3, <3>2 DEF KeptWhole
  <2>3. stage' = "bench" => \A k \in 1 .. 3 : <<i', k>> \in live' <=> k <= segs'
    BY <1>3
  <2>4. QED
    BY <1>3, <2>1, <2>2, <2>3 DEF Held
\* What the benchmark has mapped is given back, and it returns.
<1>4. ASSUME stage = "bench", argv' = argv, live' = live \ {<<i, k>> : k \in 1 .. segs},
             (stage' = "exit" /\ i' = i) \/ (stage' = "main" /\ i' = i + 1)
      PROVE  Held'
  <2>1. ASSUME NEW s \in live' PROVE s \in live /\ s[1] < i
    BY <1>1, <1>4
  <2>2. ASSUME NEW s \in live' PROVE KeptWhole(s[1])'
    BY <1>1, <1>4, <2>1 DEF KeptWhole
  <2>3. QED
    BY <1>1, <1>4, <2>1, <2>2 DEF Held
\* The benchmark keeps all it maps.
<1>5. ASSUME stage = "bench", argv' = argv, live' = live, segs = Segments(bench),
             bench \in {"accounts_table", "schedule_batch"},
             (stage' = "exit" /\ i' = i) \/ (stage' = "main" /\ i' = i + 1)
      PROVE  Held'
  <2>1. ASSUME NEW s \in live PROVE KeptWhole(s[1])'
    <3>1. CASE s[1] < i
      BY <1>1, <1>5, <3>1 DEF KeptWhole
    <3>2. CASE s[1] = i
      BY <1>1, <1>2, <1>5, <3>2 DEF KeptWhole
    <3>3. QED
      BY <1>1, <3>1, <3>2
  <2>2. QED
    BY <1>1, <1>5, <2>1 DEF Held
<1>6. CASE Usage
  BY <1>1, <1>3, <1>6 DEF Usage, Exit
<1>7. CASE Dispatch
  <2>1. segs' = 0 /\ \A k \in 1 .. 3 : <<i, k>> \notin live
    BY <1>1, <1>7 DEF Dispatch, DriverInv, Driven
  <2>2. QED
    BY <1>1, <1>3, <1>7, <2>1 DEF Dispatch
<1>8. CASE Unknown
  BY <1>1, <1>3, <1>8 DEF Unknown, Exit
<1>9. CASE Done
  BY <1>1, <1>3, <1>9 DEF Done, Exit
<1>10. CASE Refuse
  BY <1>1, <1>3, <1>10 DEF Refuse, Return, Exit
<1>11. CASE Map
  <2>1. /\ argv' = argv /\ i' = i /\ stage' = stage /\ stage = "bench" /\ segs' = segs + 1
        /\ live' = live \cup {<<i, segs + 1>>}
    BY <1>11 DEF Map
  <2>2. \A k \in 1 .. 3 : <<i, k>> \in live' <=> k <= segs'
    BY <1>1, <2>1
  <2>3. ASSUME NEW s \in live' PROVE s[1] < i => KeptWhole(s[1])'
    BY <1>1, <2>1 DEF KeptWhole
  <2>4. QED
    BY <1>1, <2>1, <2>2, <2>3 DEF Held
<1>12. CASE MapFails
  BY <1>1, <1>4, <1>12 DEF MapFails, Undone, Return, Exit
<1>13. CASE Finish
  <2>1. /\ stage = "bench" /\ argv' = argv /\ segs = Segments(bench)
        /\ (stage' = "exit" /\ i' = i) \/ (stage' = "main" /\ i' = i + 1)
        /\ live' = live \ {<<i, k>> : k \in GivenBack(bench)}
    BY <1>13 DEF Finish, Return, Exit
  <2>2. CASE bench \in {"accounts_table", "schedule_batch"}
    BY <1>5, <2>1, <2>2 DEF GivenBack
  <2>3. CASE bench \notin {"accounts_table", "schedule_batch"}
    BY <1>4, <2>1, <2>3 DEF GivenBack
  <2>4. QED
    BY <2>2, <2>3
<1>14. CASE UNCHANGED driver
  BY <1>14 DEF driver, DriverInv, Held, KeptWhole
<1>15. QED
  BY <1>6, <1>7, <1>8, <1>9, <1>10, <1>11, <1>12, <1>13, <1>14 DEF DriverStep, Main, Bench

(***************************************************************************)
(* The ranks of the arguments called are those up to how many there are,   *)
(* and the others come later.                                              *)
(***************************************************************************)
LEMMA Ranks ==
  ASSUME argv \in CmdLines, i \in Nat
  PROVE  /\ IsFiniteSet(Known) /\ IsFiniteSet(Past) /\ Past \subseteq Known
         /\ Cardinality(Past) \in Nat
         /\ Cardinality(Past) <= Cardinality(Known)
         /\ \A a \in Past : Rank(a) <= Cardinality(Past)
         /\ \A a \in Known \ Past : Rank(a) > Cardinality(Past)
<1>1. Len(argv) \in Nat
  BY Arguments
<1>2. IsFiniteSet(Known)
  <2>1. IsFiniteSet(1 .. Len(argv))
    BY <1>1, FS_Interval
  <2>2. QED
    BY <2>1, FS_Subset DEF Known
<1>3. Past \subseteq Known /\ \A a \in Known : a \in Nat
  BY <1>1 DEF Past, Known
<1>4. \A S \in SUBSET Known : IsFiniteSet(S) /\ Cardinality(S) \in Nat
  BY <1>2, FS_Subset, FS_CardinalityType
<1>5. \A S, T \in SUBSET Known : S \subseteq T => Cardinality(S) <= Cardinality(T)
  BY <1>4, FS_Subset
<1>6. ASSUME NEW a \in Past PROVE Rank(a) <= Cardinality(Past)
  <2>1. {j \in Known : j <= a} \subseteq Past
    BY <1>3 DEF Past
  <2>2. QED
    BY <1>3, <1>5, <2>1 DEF Rank
<1>7. ASSUME NEW a \in Known \ Past PROVE Rank(a) > Cardinality(Past)
  <2>1. Past \cup {a} \subseteq {j \in Known : j <= a}
    BY <1>3 DEF Past
  <2>2. Cardinality(Past \cup {a}) = Cardinality(Past) + 1
    BY <1>3, <1>4, FS_AddElement
  <2>3. Cardinality(Past \cup {a}) <= Rank(a)
    BY <1>5, <2>1 DEF Rank
  <2>4. Rank(a) \in Nat /\ Cardinality(Past) \in Nat
    BY <1>3, <1>4 DEF Rank
  <2>5. QED
    BY <2>2, <2>3, <2>4
<1>8. QED
  BY <1>2, <1>3, <1>4, <1>5, <1>6, <1>7

(***************************************************************************)
(* A step of the driver calls the benchmark of the current argument, or    *)
(* none.                                                                   *)
(***************************************************************************)
LEMMA CalledStep ==
  ASSUME DriverInv, DriverStep
  PROVE  Called'
<1>1. /\ argv \in CmdLines /\ i \in Nat /\ Len(ran) = Cardinality(Past) /\ ran \in Seq(Row)
      /\ \A a \in Past : ran[Rank(a)] = Parameters(a)
      /\ \A a \in Known : a \in Nat /\ a <= Len(argv)
      /\ Len(argv) \in Nat /\ stage \in {"main", "bench", "exit"}
  BY Arguments DEF DriverInv, Driven, DriverTypeOK, Called, Known
<1>2. ASSUME argv' = argv, ran' = ran, Past' = Past
      PROVE  Called'
  <2>1. \A a : Parameters(a)' = Parameters(a) /\ Rank(a)' = Rank(a)
    BY <1>2 DEF Parameters, Rank, Known
  <2>2. QED
    BY <1>1, <1>2, <2>1 DEF Called
<1>3. argv' = argv => Known' = Known
  BY DEF Known
<1>4. CASE Usage
  <2>1. Past' = Past
    BY <1>1, <1>3, <1>4 DEF Past, Usage, Known
  <2>2. QED
    BY <1>2, <1>4, <2>1 DEF Usage
<1>5. CASE Unknown
  <2>1. i \notin Known
    BY <1>5 DEF Unknown, Known
  <2>2. Past' = Past
    BY <1>1, <1>3, <1>5, <2>1 DEF Past, Unknown, Exit
  <2>3. QED
    BY <1>2, <1>5, <2>2 DEF Unknown
<1>6. CASE Done
  <2>1. Past' = Past
    BY <1>1, <1>3, <1>6 DEF Past, Done, Exit
  <2>2. QED
    BY <1>2, <1>6, <2>1 DEF Done
<1>7. ASSUME stage = "bench", argv' = argv, ran' = ran,
             (stage' \in {"bench", "exit"} /\ i' = i) \/ (stage' = "main" /\ i' = i + 1)
      PROVE  Called'
  <2>1. Past' = Past
    BY <1>1, <1>3, <1>7 DEF Past
  <2>2. QED
    BY <1>2, <1>7, <2>1
<1>8. CASE Refuse
  BY <1>7, <1>8 DEF Refuse, Return, Exit
<1>9. CASE Map
  BY <1>7, <1>9 DEF Map
<1>10. CASE MapFails
  BY <1>7, <1>10 DEF MapFails, Return, Exit
<1>11. CASE Finish
  BY <1>7, <1>11 DEF Finish, Return, Exit
<1>12. CASE UNCHANGED driver
  <2>1. argv' = argv /\ ran' = ran /\ i' = i /\ stage' = stage
    BY <1>12 DEF driver
  <2>2. Past' = Past
    BY <1>3, <2>1 DEF Past
  <2>3. QED
    BY <1>2, <2>1, <2>2
<1>13. CASE Dispatch
  <2>1. /\ argv' = argv /\ i' = i /\ stage = "main" /\ stage' = "bench"
        /\ ran' = Append(ran, tav') /\ tav' = Parameters(i) /\ i \in Known
    BY <1>1, <1>13 DEF Dispatch, Chopped, Blank, Parameters, Known, DriverInv, Driven, DriverTypeOK
  <2>2. Past' = Past \cup {i} /\ i \notin Past
    BY <1>1, <1>3, <2>1 DEF Past
  <2>3. \A a : Parameters(a)' = Parameters(a) /\ Rank(a)' = Rank(a)
    BY <1>3, <2>1 DEF Parameters, Rank
  <2>4. /\ Cardinality(Past') = Cardinality(Past) + 1 /\ Cardinality(Past) \in Nat
        /\ \A a \in Past : Rank(a) <= Cardinality(Past)
    BY <1>1, <2>2, Ranks, FS_AddElement
  <2>5. Rank(i) = Cardinality(Past) + 1
    <3>1. \A j : j \in Past <=> j \in Known /\ j < i
      BY <1>1, <2>1 DEF Past
    <3>2. \A j \in Known : j <= i <=> (j < i \/ j = i)
      BY <1>1
    <3>3. {j \in Known : j <= i} = Past \cup {i}
      BY <2>1, <3>1, <3>2
    <3>4. QED
      BY <2>2, <2>4, <3>3 DEF Rank
  <2>6. \A a \in Past : Rank(a) \in 1 .. Len(ran)
    <3>1. ASSUME NEW a \in Past PROVE Rank(a) >= 1 /\ Rank(a) \in Nat
      <4>1. a \in {j \in Known : j <= a} /\ {j \in Known : j <= a} \subseteq Known
        BY <1>1 DEF Past
      <4>2. IsFiniteSet({j \in Known : j <= a})
        BY <1>1, <4>1, Ranks, FS_Subset
      <4>3. Cardinality({j \in Known : j <= a}) # 0
        BY <4>1, <4>2, FS_EmptySet
      <4>4. QED
        BY <4>2, <4>3, FS_CardinalityType DEF Rank
    <3>2. QED
      BY <1>1, <2>4, <3>1
  <2>7. tav' \in Row
    BY DrivenStep DEF Driven
  <2>8. /\ Len(ran') = Len(ran) + 1 /\ ran'[Len(ran) + 1] = tav'
        /\ \A k \in 1 .. Len(ran) : ran'[k] = ran[k]
    BY <1>1, <2>1, <2>7, AppendProperties
  <2>9. \A a \in Past' : ran'[Rank(a)] = Parameters(a)
    BY <1>1, <2>1, <2>2, <2>5, <2>6, <2>8
  <2>10. QED
    BY <1>1, <2>3, <2>4, <2>8, <2>9 DEF Called
<1>14. QED
  BY <1>4, <1>5, <1>6, <1>8, <1>9, <1>10, <1>11, <1>12, <1>13 DEF DriverStep, Main, Bench

(***************************************************************************)
(* The invariant of the driver holds when the program starts.              *)
(***************************************************************************)
LEMMA DriverStart ==
  ASSUME DriverInit
  PROVE  DriverInv
<1>1. /\ argv \in CmdLines /\ Len(argv) \in Nat
      /\ \A a \in Known : a \in Nat /\ a >= 1
  BY Arguments DEF DriverInit, Known
<1>2. Driven
  <2>1. tav \in Row /\ DOMAIN tav = 0 .. NArgs - 1
    BY DEF DriverInit, Blank, Row
  <2>2. ran \in Seq(Row) /\ Len(ran) = 0
    BY DEF DriverInit
  <2>3. QED
    BY <1>1, <2>1, <2>2 DEF DriverInit, Driven, DriverTypeOK
<1>3. Held
  BY DEF DriverInit, Held
<1>4. Called
  <2>1. Past = {}
    BY <1>1 DEF DriverInit, Past
  <2>2. QED
    BY <2>1, FS_EmptySet DEF DriverInit, Called
<1>5. QED
  BY <1>2, <1>3, <1>4 DEF DriverInv

(***************************************************************************)
(* Every step of the program is one of the driver's.                       *)
(***************************************************************************)
LEMMA DriverInvariant ==
  Spec => []DriverInv
<1>1. Init => DriverInv
  BY DriverStart DEF Init
<1>2. ASSUME DriverInv, [Next]_vars PROVE DriverInv'
  <2>1. DriverStep
    BY <1>2 DEF DriverStep, Next, Load, Work, Others, Stopped, Exited, Bench, vars
  <2>2. QED
    BY <1>2, <2>1, DrivenStep, HeldStep, CalledStep DEF DriverInv
<1>3. QED
  BY <1>1, <1>2, PTL DEF Spec

(***************************************************************************)
(* SegmentsReleased: a benchmark that cannot map all of its segments gives *)
(* back those it has, and between benchmarks only the accounts tables and  *)
(* the queues that nothing frees are there, whole.                         *)
(***************************************************************************)
THEOREM NothingHeld ==
  Spec => []SegmentsReleased
<1>1. ASSUME DriverInv PROVE SegmentsReleased
  <2>1. stage \in {"main", "bench", "exit"}
    BY <1>1 DEF DriverInv, Driven, DriverTypeOK
  <2>2. QED
    BY <1>1, <2>1 DEF DriverInv, Held, KeptWhole, SegmentsReleased
<1>2. QED
  BY <1>1, DriverInvariant, PTL

(***************************************************************************)
(* CommandsInOrder: the benchmarks run in the order of the command line,   *)
(* each with its own parameters, and a successful exit means that all did. *)
(***************************************************************************)
THEOREM CommandLine ==
  Spec => []CommandsInOrder
<1>1. ASSUME DriverInv PROVE CommandsInOrder
  <2>1. /\ argv \in CmdLines /\ i \in Nat /\ Len(ran) = Cardinality(Past)
        /\ \A a \in Past : ran[Rank(a)] = Parameters(a)
        /\ Len(argv) \in Nat
    BY <1>1, Arguments DEF DriverInv, Driven, DriverTypeOK, Called
  <2>2. ASSUME NEW a \in Known, Rank(a) <= Len(ran) PROVE a \in Past
    <3>1. a \notin Past => Rank(a) > Cardinality(Past)
      BY <2>1, Ranks
    <3>2. Rank(a) \in Nat /\ Cardinality(Past) \in Nat
      <4>1. IsFiniteSet({j \in Known : j <= a})
        BY <2>1, Ranks, FS_Subset
      <4>2. QED
        BY <2>1, <4>1, Ranks, FS_CardinalityType DEF Rank
    <3>3. QED
      BY <2>1, <2>2, <3>1, <3>2
  <2>3. stage = "exit" /\ status = 0 => Past = Known
    BY <1>1, <2>1 DEF DriverInv, Driven, Past, Known
  <2>4. QED
    BY <2>1, <2>2, <2>3, Ranks DEF CommandsInOrder, Parameters
<1>2. QED
  BY <1>1, DriverInvariant, PTL

------------------------------------------------------------------------------
(* The scan of the file                                                     *)

\* The file ends where its last record does or before that.
FileOK ==
  /\ file.recs \in Seq(Packets)
  /\ file.len \in Nat /\ file.snap \in Nat
  /\ file.len <= Idx!Offset(file.recs, Len(file.recs))

\* The cursor is at the record after those counted, which are all sound and
\* noted in hdrs[] as far as there is room.
Cursor ==
  /\ count = rec
  /\ scan \in {"idle", "check"} => trav = 0 /\ count = 0
  /\ scan = "scan" => trav = Idx!Offset(file.recs, rec)
  /\ \A n \in 0 .. rec - 1 : Idx!Sound(n)
  /\ \A k \in 0 .. NHdrs - 1 : k < count => hdrs[k] = Idx!Offset(file.recs, k)
  /\ scan = "done" /\ ret # -1 => ret = count /\ (rec < Len(file.recs) => ~Idx!Sound(rec))

\* The inductive invariant of the scan, and what a step of the program does to it.
IndexInv == FileOK /\ Idx!TypeOK /\ Cursor

IndexStep == Idx!Scan \/ MapFile \/ Idx!Leave \/ UNCHANGED index

(***************************************************************************)
(* Each of the files considered ends with its last record or before.       *)
(***************************************************************************)
LEMMA FilesOK ==
  ASSUME NEW f \in Idx!Files
  PROVE  /\ f.recs \in Seq(Packets) /\ f.len \in Nat /\ f.snap \in Nat
         /\ f.len <= Idx!Offset(f.recs, Len(f.recs))
<1>1. PICK rs \in UNION {[1 .. n -> Packets] : n \in 0 .. MaxRecs} :
        f \in [magic : Idx!Magics, fmtOk : BOOLEAN, snap : Snaps, recs : {rs},
               len : {Idx!Offset(rs, Len(rs)) - c : c \in 0 .. MaxCut} \cap Nat]
  BY DEF Idx!Files
<1>2. rs \in Seq(Packets)
  BY IndexConstants
<1>3. PICK c \in 0 .. MaxCut : f.len = Idx!Offset(rs, Len(rs)) - c
  BY <1>1
<1>4. f.recs = rs /\ f.len \in Nat /\ f.snap \in Nat
  BY <1>1, IndexConstants
<1>5. Len(rs) \in 0 .. Len(rs)
  BY <1>2, LenProperties
<1>6. Idx!Offset(rs, Len(rs)) \in Nat
  BY <1>2, <1>5, OffsetsGrow
<1>7. QED
  BY <1>2, <1>3, <1>4, <1>6, IndexConstants

(***************************************************************************)
(* While there is room for a header there is one: the bytes left are those *)
(* of records.  The checks of the loop are those of a sound record.        *)
(***************************************************************************)
LEMMA HeaderThere ==
  ASSUME IndexInv, scan = "scan", left >= PktHdr
  PROVE  /\ rec \in 0 .. Len(file.recs) - 1
         /\ Idx!Hdr \in Packets /\ Idx!Hdr = file.recs[rec + 1]
         /\ Idx!Offset(file.recs, rec + 1) = trav + PktHdr + Idx!Hdr.incl
         /\ Idx!Sound(rec) <=> ~Idx!AllZero /\ ~Idx!Refused
<1>1. /\ rec \in 0 .. Len(file.recs) /\ trav \in Nat /\ left \in Nat /\ trav + left = file.len
      /\ trav = Idx!Offset(file.recs, rec) /\ file.snap \in Nat
      /\ file.recs \in Seq(Packets) /\ Len(file.recs) \in Nat /\ file.len \in Nat
      /\ file.len <= Idx!Offset(file.recs, Len(file.recs))
  BY LenProperties DEF IndexInv, FileOK, Idx!TypeOK, Cursor
<1>2. rec # Len(file.recs)
  BY <1>1, IndexConstants
<1>3. rec \in 0 .. Len(file.recs) - 1
  BY <1>1, <1>2
<1>4. Idx!Hdr \in Packets /\ Idx!Hdr = file.recs[rec + 1]
  <2>1. rec + 1 \in 1 .. Len(file.recs)
    BY <1>1, <1>3
  <2>2. QED
    BY <1>1, <2>1, ElementOfSeq DEF Idx!Hdr
<1>5. Idx!Offset(file.recs, rec + 1) = trav + PktHdr + Idx!Hdr.incl
  <2>1. Idx!Offset(file.recs, rec + 1)
          = Idx!Offset(file.recs, rec) + PktHdr + file.recs[rec + 1].incl
    BY <1>3, OffsetEquations
  <2>2. QED
    BY <1>1, <1>4, <2>1
<1>6. Idx!Hdr.incl \in Nat /\ Idx!Hdr.orig \in Nat /\ Idx!Hdr.frac \in Nat /\ Idx!MaxFrac \in Nat
  BY <1>4, IndexConstants DEF Idx!MaxFrac
<1>7. Idx!Sound(rec) <=> ~Idx!AllZero /\ ~Idx!Refused
  <2>1. Idx!Sound(rec) <=> /\ trav + PktHdr + Idx!Hdr.incl <= file.len
                           /\ Idx!Hdr.incl > 0 \/ Idx!Hdr.orig > 0
                           /\ file.snap = 0 \/ Idx!Hdr.incl <= file.snap
                           /\ Idx!Hdr.frac <= Idx!MaxFrac
    BY <1>1, <1>4 DEF Idx!Sound
  <2>2. Idx!Hdr.incl > left - PktHdr <=> ~(trav + PktHdr + Idx!Hdr.incl <= file.len)
    BY <1>1, <1>6, IndexConstants
  <2>3. ~Idx!AllZero <=> Idx!Hdr.incl > 0 \/ Idx!Hdr.orig > 0
    BY <1>6 DEF Idx!AllZero
  <2>4. file.snap # 0 /\ Idx!Hdr.incl > file.snap <=> ~(file.snap = 0 \/ Idx!Hdr.incl <= file.snap)
    BY <1>1, <1>6
  <2>5. Idx!Hdr.frac > Idx!MaxFrac <=> ~(Idx!Hdr.frac <= Idx!MaxFrac)
    BY <1>6
  <2>6. QED
    BY <2>1, <2>2, <2>3, <2>4, <2>5 DEF Idx!Refused
<1>8. QED
  BY <1>3, <1>4, <1>5, <1>7

(***************************************************************************)
(* A note in hdrs[] stays inside the array and keeps the earlier ones.     *)
(***************************************************************************)
LEMMA NotedEntries ==
  ASSUME IndexInv
  PROVE  /\ Idx!Noted \in [0 .. NHdrs - 1 -> 0 .. file.len \cup {Idx!Unset}]
         /\ \A k \in 0 .. NHdrs - 1 : Idx!Noted[k] = IF k = count THEN trav ELSE hdrs[k]
BY IndexConstants DEF IndexInv, Idx!TypeOK, Cursor, Idx!Noted

(***************************************************************************)
(* A call of get_pcap_pkt_hdrs() starts, or its result is dropped.         *)
(***************************************************************************)
LEMMA EnterKept ==
  ASSUME NEW f, NEW p \in {"idle", "check"}, Idx!Enter(f, p),
         f.recs \in Seq(Packets), f.len \in Nat, f.snap \in Nat,
         f.len <= Idx!Offset(f.recs, Len(f.recs))
  PROVE  IndexInv'
<1>1. FileOK'
  BY DEF FileOK, Idx!Enter
<1>2. hdrs' \in [0 .. NHdrs - 1 -> 0 .. file'.len \cup {Idx!Unset}]
  BY DEF Idx!Enter
<1>3. Len(f.recs) \in Nat
  BY LenProperties
<1>4. Idx!TypeOK'
  BY <1>2, <1>3 DEF Idx!TypeOK, Idx!Enter, Idx!Unset
<1>5. Cursor'
  BY IndexConstants DEF Cursor, Idx!Enter
<1>6. QED
  BY <1>1, <1>4, <1>5 DEF IndexInv

(***************************************************************************)
(* An iteration of the scan, or its end, keeps the cursor on the records.  *)
(***************************************************************************)
LEMMA ScanKept ==
  ASSUME IndexInv, Idx!Scan
  PROVE  IndexInv'
<1>1. /\ file.recs \in Seq(Packets) /\ file.len \in Nat /\ Len(file.recs) \in Nat
      /\ trav \in Nat /\ left \in Nat /\ trav + left = file.len /\ count = rec
      /\ rec \in 0 .. Len(file.recs) /\ FileHdr \in Nat /\ PktHdr \in Nat /\ PktHdr > 0
  BY LenProperties, IndexConstants DEF IndexInv, FileOK, Idx!TypeOK, Cursor
<1>2. file' = file
  BY DEF Idx!Scan, Idx!Reject, Idx!Accept, Idx!TakePacket, Idx!StopAtZero, Idx!StopAtBad,
         Idx!EndOfFile
<1>3. FileOK'
  BY <1>2 DEF IndexInv, FileOK
<1>4. \A n : Idx!Sound(n)' = Idx!Sound(n)
  BY <1>2 DEF Idx!Sound, Idx!MaxFrac
<1>5. CASE Idx!Reject
  BY <1>1, <1>2, <1>3, <1>4, <1>5 DEF IndexInv, Idx!TypeOK, Cursor, Idx!Reject
<1>6. CASE Idx!Accept
  <2>1. rec = 0 /\ trav = 0 /\ trav' = FileHdr /\ FileHdr <= file.len
    BY <1>1, <1>6 DEF IndexInv, Cursor, Idx!Accept
  <2>2. trav' = Idx!Offset(file.recs, 0)
    BY <2>1, OffsetEquations
  <2>3. QED
    BY <1>1, <1>2, <1>3, <1>4, <1>6, <2>1, <2>2 DEF IndexInv, Idx!TypeOK, Cursor, Idx!Accept
<1>7. CASE Idx!TakePacket
  <2>1. /\ rec + 1 \in 0 .. Len(file.recs) /\ Idx!Sound(rec) /\ Idx!Hdr \in Packets
        /\ Idx!Offset(file.recs, rec + 1) = trav + PktHdr + Idx!Hdr.incl
    BY <1>1, <1>7, HeaderThere DEF Idx!TakePacket
  <2>2. Idx!Hdr.incl \in Nat /\ Idx!Hdr.incl <= left - PktHdr
    BY <2>1, <1>7, <1>1, IndexConstants DEF Idx!TakePacket, Idx!Refused
  <2>3. Idx!TypeOK'
    <3>1. /\ trav' \in 0 .. file.len /\ left' \in 0 .. file.len /\ trav' + left' = file.len
          /\ scan' = scan /\ ret' = ret /\ scan = "scan" /\ hdrs' = Idx!Noted
          /\ count' \in Nat /\ rec' \in 0 .. Len(file.recs)
      BY <1>1, <1>7, <2>1, <2>2 DEF Idx!TakePacket
    <3>2. QED
      BY <1>2, <3>1, NotedEntries DEF IndexInv, Idx!TypeOK
  <2>4. \A k \in 0 .. NHdrs - 1 : k < count' => hdrs'[k] = Idx!Offset(file.recs, k)
    BY <1>1, <1>7, NotedEntries DEF IndexInv, Cursor, Idx!TakePacket
  <2>5. \A n \in 0 .. rec' - 1 : Idx!Sound(n)
    BY <1>1, <1>7, <2>1 DEF IndexInv, Cursor, Idx!TakePacket
  <2>6. QED
    BY <1>1, <1>2, <1>3, <1>4, <1>7, <2>1, <2>3, <2>4, <2>5 DEF IndexInv, Cursor, Idx!TakePacket
<1>8. ASSUME scan = "scan", scan' = "done", left >= PktHdr, hdrs' = Idx!Noted,
             count' = count, ret' = count, rec' = rec,
             (trav' = trav /\ left' = left) \/ (trav' = trav + PktHdr /\ left' = left - PktHdr),
             Idx!AllZero \/ Idx!Refused
      PROVE  IndexInv'
  <2>1. ~Idx!Sound(rec)
    BY <1>8, HeaderThere
  <2>2. Idx!TypeOK'
    BY <1>1, <1>2, <1>8, NotedEntries DEF IndexInv, Idx!TypeOK
  <2>3. \A k \in 0 .. NHdrs - 1 : k < count => hdrs'[k] = Idx!Offset(file.recs, k)
    BY <1>1, <1>8, NotedEntries DEF IndexInv, Cursor
  <2>4. QED
    BY <1>1, <1>2, <1>3, <1>4, <1>8, <2>1, <2>2, <2>3 DEF IndexInv, Cursor
<1>9. CASE Idx!StopAtZero
  BY <1>8, <1>9 DEF Idx!StopAtZero
<1>10. CASE Idx!StopAtBad
  BY <1>8, <1>10 DEF Idx!StopAtBad
<1>11. CASE Idx!EndOfFile
  <2>1. rec < Len(file.recs) => ~Idx!Sound(rec)
    <3>1. rec < Len(file.recs) => file.recs[rec + 1] \in Packets
      BY <1>1, ElementOfSeq
    <3>2. trav = Idx!Offset(file.recs, rec) /\ left < PktHdr
      BY <1>11 DEF IndexInv, Cursor, Idx!EndOfFile
    <3>3. Idx!Sound(rec) =>
            Idx!Offset(file.recs, rec) + PktHdr + file.recs[rec + 1].incl <= file.len
      BY DEF Idx!Sound
    <3>4. rec < Len(file.recs) => file.recs[rec + 1].incl \in Nat
      BY <3>1, IndexConstants
    <3>5. QED
      BY <1>1, <3>2, <3>3, <3>4
  <2>2. QED
    BY <1>1, <1>2, <1>3, <1>4, <1>11, <2>1 DEF IndexInv, Idx!TypeOK, Cursor, Idx!EndOfFile
<1>12. QED
  BY <1>5, <1>6, <1>7, <1>9, <1>10, <1>11 DEF Idx!Scan

(***************************************************************************)
(* The invariant of the scan holds when the program starts.                *)
(***************************************************************************)
LEMMA IndexStart ==
  ASSUME Idx!Init
  PROVE  IndexInv
<1>1. NHdrs \in Nat /\ FileHdr \in Nat /\ Idx!Offset(<<>>, 0) = FileHdr
  BY IndexConstants, OffsetEquations
<1>2. file.recs = <<>> /\ file.len = 0 /\ file.snap = 0 /\ Len(file.recs) = 0
  BY DEF Idx!Init, Idx!NoFile
<1>3. FileOK
  BY <1>1, <1>2 DEF FileOK
<1>4. Idx!TypeOK
  BY <1>2 DEF Idx!Init, Idx!TypeOK, Idx!Unset
<1>5. Cursor
  BY DEF Idx!Init, Cursor
<1>6. QED
  BY <1>3, <1>4, <1>5 DEF IndexInv

(***************************************************************************)
(* A new file, a step of the scan, or its end.                             *)
(***************************************************************************)
LEMMA IndexKept ==
  ASSUME IndexInv, IndexStep
  PROVE  IndexInv'
<1>1. CASE Idx!Scan
  BY <1>1, ScanKept
<1>2. CASE MapFile
  <2>1. file' \in Idx!Files /\ Idx!Enter(file', "check")
    BY <1>2 DEF MapFile, Idx!Call
  <2>2. QED
    BY <2>1, FilesOK, EnterKept
<1>3. CASE Idx!Leave
  <2>1. FileHdr \in Nat /\ Idx!Offset(<<>>, 0) = FileHdr
    BY IndexConstants, OffsetEquations
  <2>2. /\ Idx!NoFile.recs = <<>> /\ Idx!NoFile.len = 0 /\ Idx!NoFile.snap = 0
        /\ Len(Idx!NoFile.recs) = 0
    BY DEF Idx!NoFile
  <2>3. Idx!Enter(Idx!NoFile, "idle")
    BY <1>3 DEF Idx!Leave
  <2>4. QED
    <3>1. /\ Idx!NoFile.recs \in Seq(Packets) /\ Idx!NoFile.len \in Nat /\ Idx!NoFile.snap \in Nat
          /\ Idx!NoFile.len <= Idx!Offset(Idx!NoFile.recs, Len(Idx!NoFile.recs))
      BY <2>1, <2>2
    <3>2. QED
      BY <2>3, <3>1, EnterKept
<1>4. CASE UNCHANGED index
  BY <1>4 DEF index, IndexInv, FileOK, Idx!TypeOK, Cursor, Idx!Sound, Idx!MaxFrac
<1>5. QED
  BY <1>1, <1>2, <1>3, <1>4 DEF IndexStep

(***************************************************************************)
(* No step of the program touches the index in another way.                *)
(***************************************************************************)
LEMMA IndexInvariant ==
  Spec => []IndexInv
<1>1. Init => IndexInv
  BY IndexStart DEF Init
<1>2. ASSUME IndexInv, [Next]_vars PROVE IndexInv'
  <2>1. IndexStep
    BY <1>2 DEF IndexStep, Next, Load, Work, Others, Stopped, Leave, Visit, vars
  <2>2. QED
    BY <1>2, <2>1, IndexKept
<1>3. QED
  BY <1>1, <1>2, PTL DEF Spec

(***************************************************************************)
(* CountsSoundPrefix: for every file, however it is cut off, and however   *)
(* many records it has, the answer is the length of its sound prefix.      *)
(***************************************************************************)
THEOREM SoundPrefix ==
  Spec => []CountsSoundPrefix
<1>1. ASSUME IndexInv PROVE CountsSoundPrefix
  BY <1>1 DEF IndexInv, Cursor, Idx!TypeOK, CountsSoundPrefix, Idx!CountsSoundPrefix
<1>2. QED
  BY <1>1, IndexInvariant, PTL

(***************************************************************************)
(* CallerSeesSoundPackets: hdrs[] holds the counted packets in file order, *)
(* and the entry that a refused record leaves in it is not visited.        *)
(***************************************************************************)
THEOREM PacketsSeen ==
  Spec => []CallerSeesSoundPackets
<1>1. ASSUME IndexInv PROVE CallerSeesSoundPackets
  <2>1. ASSUME scan = "done", NEW k \in Idx!Visited
        PROVE  hdrs[k] = Idx!Offset(file.recs, k) /\ Idx!Sound(k)
    <3>1. ret # -1 /\ ret = count /\ ret = rec /\ ret \in Nat
      <4>1. ret \in Nat \cup {-1}
        BY <1>1 DEF IndexInv, Idx!TypeOK
      <4>2. ret # -1
        BY <4>1, IndexConstants DEF Idx!Visited
      <4>3. QED
        BY <1>1, <2>1, <4>1, <4>2 DEF IndexInv, Cursor
    <3>2. k \in 0 .. NHdrs - 1 /\ k \in 0 .. rec - 1
      BY <3>1, IndexConstants DEF Idx!Visited
    <3>3. QED
      BY <1>1, <3>1, <3>2 DEF IndexInv, Cursor
  <2>2. QED
    BY <2>1 DEF CallerSeesSoundPackets, Idx!CallerSeesSoundPackets
<1>2. QED
  BY <1>1, IndexInvariant, PTL

------------------------------------------------------------------------------
(* The parser                                                               *)

(***************************************************************************)
(* What PacketParse assumes of the constants, and the lengths of the       *)
(* headers.                                                                *)
(***************************************************************************)
LEMMA ParserConstants ==
  /\ OffMod \in Nat \ {0} /\ IntMod \in Nat /\ IntMod >= OffMod
  /\ \E k \in Nat : IntMod = k * OffMod
  /\ MaxTags \in Nat \ {0}
  /\ Ihls \subseteq 0 .. 15 /\ Doffs \subseteq 0 .. 15 /\ OptLens \subseteq 0 .. 255
  /\ \A p \in Packets : UpperBound(p) \in 0 .. IntMod - 1
  /\ Prs!Word \in 1 .. 4 /\ Prs!MaxHdr = 15 * Prs!Word /\ Prs!MaxHdr \in Nat
  /\ {Prs!EthLen, Prs!TagLen, Prs!Ip4Len, Prs!Ip6Len, Prs!ArpLen, Prs!OptLen, Prs!TcpLen,
      Prs!UdpLen} \subseteq 1 .. Prs!MaxHdr
  /\ \A o \in OptLens \cup {0} : Prs!Skip(o) \in Nat /\ Prs!Skip(o) >= Prs!OptLen
<1>1. /\ Unit \in {1, 2} /\ OffMod \in Nat \ {0} /\ IntMod \in Nat /\ MaxTags \in Nat \ {0}
      /\ \E k \in 1 .. IntMod : IntMod = k * OffMod
      /\ Ihls \subseteq 0 .. 15 /\ Doffs \subseteq 0 .. 15 /\ OptLens \subseteq 0 .. 255
      /\ \A p \in Packets : UpperBound(p) \in 0 .. IntMod - 1
  BY ParametersAssumption DEF Prs!ParametersOK
<1>2. IntMod >= OffMod
  <2>1. PICK k \in 1 .. IntMod : IntMod = k * OffMod
    BY <1>1
  <2>2. k * OffMod >= 1 * OffMod
    BY <1>1
  <2>3. QED
    BY <1>1, <2>1, <2>2
<1>3. /\ Prs!Word \in 1 .. 4 /\ Prs!MaxHdr = 15 * Prs!Word /\ Prs!MaxHdr \in Nat
      /\ {Prs!EthLen, Prs!TagLen, Prs!Ip4Len, Prs!Ip6Len, Prs!ArpLen, Prs!OptLen, Prs!TcpLen,
          Prs!UdpLen} \subseteq 1 .. Prs!MaxHdr
  <2> USE DEF Prs!EthLen, Prs!TagLen, Prs!Ip4Len, Prs!Ip6Len, Prs!ArpLen, Prs!OptLen,
              Prs!TcpLen, Prs!UdpLen, Prs!Word, Prs!MaxHdr
  <2>1. CASE Unit = 1
    BY <2>1
  <2>2. CASE Unit = 2
    BY <2>2
  <2>3. QED
    BY <1>1, <2>1, <2>2
<1>4. ASSUME NEW o \in OptLens \cup {0}
      PROVE  Prs!Skip(o) \in Nat /\ Prs!Skip(o) >= Prs!OptLen
  <2>1. o \in Nat /\ Prs!OptLen \in Nat
    BY <1>1, <1>3
  <2>2. CASE Unit = 1
    BY <2>1, <2>2 DEF Prs!Skip
  <2>3. CASE Unit = 2
    BY <2>1, <2>3 DEF Prs!Skip
  <2>4. QED
    BY <1>1, <2>2, <2>3
<1>5. QED
  BY <1>1, <1>2, <1>3, <1>4

(***************************************************************************)
(* What is below a modulus is its own remainder, also with a multiple of   *)
(* the modulus added.                                                      *)
(***************************************************************************)
LEMMA Remainder ==
  ASSUME NEW m \in Nat \ {0}, NEW x \in 0 .. m - 1, NEW k \in Nat
  PROVE  x % m = x /\ (x + k * m) % m = x
OBVIOUS

(***************************************************************************)
(* ihl and doff count words, and no header is longer than 15 of them.      *)
(***************************************************************************)
LEMMA HeaderWords ==
  ASSUME NEW n \in Ihls \cup Doffs
  PROVE  n * Prs!Word \in 0 .. Prs!MaxHdr
<1>1. n \in 0 .. 15 /\ Prs!Word \in {1, 2, 3, 4} /\ Prs!MaxHdr = 15 * Prs!Word
  BY ParserConstants
<1>2. QED
  BY <1>1

(***************************************************************************)
(* The check of an extent that does not wrap around.                       *)
(***************************************************************************)
LEMMA BoundsCheck ==
  ASSUME next \in Nat, NEW e \in Nat, next + e < IntMod
  PROVE  Prs!OutOfBounds(e) <=> next + e > upper
<1>1. next \in 0 .. IntMod - 1 /\ next + e \in 0 .. IntMod - 1 /\ IntMod \in Nat \ {0}
  BY ParserConstants
<1>2. QED
  BY <1>1, Remainder DEF Prs!OutOfBounds

\* The protocols the metadata knows.
Flags == {"cvlan", "svlan", "l3_ip4", "l3_arp", "l4_tcp", "l4_udp"}

Metadata == [proto : SUBSET Flags, vlan : 0 .. OffMod - 1, l3 : 0 .. OffMod - 1,
             l4 : 0 .. OffMod - 1, payload : 0 .. OffMod - 1]

\* What holds of the packets of every length.
ParserTypes ==
  /\ Prs!TypeOK
  /\ md \in Metadata
  /\ at = "eth" => next = 0 /\ tags = 0
  /\ at = "l2" /\ et \in {"cvlan", "svlan"} => tags < MaxTags

\* What holds where the bounds check does not wrap around.  The walk is inside
\* the packet until the loop over the options, one of which may jump out of it.
ParserReads ==
  /\ read <= upper
  /\ at = "l2" => next <= upper
  /\ at \in {"options", "l4"} => next + Prs!MaxHdr < IntMod

\* No header of layer 4 has been looked at.
NoL4 == ~Prs!Set(md.l4) /\ ~Prs!Set(md.payload) /\ {"l4_tcp", "l4_udp"} \cap md.proto = {}

\* What each place of the walk knows of the metadata, where the offsets do not
\* wrap around.  An option that jumps out of the packet comes no further than
\* an offset can tell.
Walk ==
  /\ at = "eth" => md = Prs!Blank /\ l4 = "other"
  /\ at = "l2" => /\ l4 = "other" /\ NoL4 /\ ~Prs!Set(md.l3)
                  /\ Prs!Set(md.vlan) => md.vlan + Prs!TagLen <= next
  /\ at \in {"options", "l4"} =>
       /\ next + Prs!MaxHdr < OffMod /\ NoL4
       /\ Prs!Set(md.l3) => md.l3 <= next
       /\ Prs!Set(md.l3) \/ (at = "l4" /\ l4 = "other")

\* The metadata of a packet within the reach of the offsets.
ParserOrder == Walk /\ Prs!InOrder

\* The inductive invariant of the parser.
ParserInv ==
  /\ ParserTypes
  /\ Prs!InReach(IntMod) => ParserReads
  /\ Prs!InReach(OffMod) => ParserOrder

(***************************************************************************)
(* A walk that stays below m: where it is inside the packet, so is a       *)
(* header behind it, and behind an option.                                 *)
(***************************************************************************)
LEMMA Reach ==
  ASSUME NEW m \in Nat, upper \in Nat, Prs!InReach(m)
  PROVE  /\ upper + Prs!MaxHdr < m
         /\ \A o \in OptLens : upper + Prs!Skip(o) + Prs!MaxHdr < m
<1>1. \A o \in OptLens \cup {0} : upper + Prs!Skip(o) + Prs!MaxHdr < m /\ Prs!Skip(o) \in Nat
  BY ParserConstants DEF Prs!InReach
<1>2. Prs!MaxHdr \in Nat
  BY ParserConstants
<1>3. QED
  BY <1>1, <1>2

(***************************************************************************)
(* What a u16 holds of a pointer.                                          *)
(***************************************************************************)
LEMMA OffsIsU16 ==
  ASSUME NEW p \in Nat
  PROVE  Prs!Offs(p) \in 0 .. OffMod - 1
BY ParserConstants DEF Prs!Offs

(***************************************************************************)
(* The variables of the parser, one by one.                                *)
(***************************************************************************)
LEMMA ParserState ==
  ASSUME ParserTypes
  PROVE  /\ at \in {"idle", "eth", "l2", "options", "l4", "done"}
         /\ upper \in Nat /\ next \in Nat /\ read \in Nat /\ tags \in 0 .. MaxTags
         /\ et \in Prs!EtherTypes /\ l4 \in Prs!Protos /\ result \in {0, -1} /\ turn \in {0, 1}
         /\ Prs!Unset = OffMod - 1
         /\ md \in Metadata
         /\ md.vlan \in 0 .. OffMod - 1 /\ md.l3 \in 0 .. OffMod - 1
         /\ md.l4 \in 0 .. OffMod - 1 /\ md.payload \in 0 .. OffMod - 1
         /\ md.proto \subseteq Flags
BY ParserConstants DEF ParserTypes, Prs!TypeOK, Metadata, Prs!Unset

(***************************************************************************)
(* A call starts, or its result is dropped.                                *)
(***************************************************************************)
LEMMA ParserEntered ==
  ASSUME NEW b \in Nat, NEW p \in {"idle", "eth"}, Prs!Enter(b, p)
  PROVE  ParserInv'
<1>1. /\ md' = Prs!Blank /\ Prs!Blank \in Metadata /\ Prs!Blank.proto = {}
      /\ Prs!Blank.vlan = OffMod - 1 /\ Prs!Blank.l3 = OffMod - 1
      /\ Prs!Blank.l4 = OffMod - 1 /\ Prs!Blank.payload = OffMod - 1
  BY ParserConstants DEF Prs!Enter, Prs!Blank, Prs!Unset, Metadata
<1>2. ParserTypes'
  BY <1>1, ParserConstants
  DEF Prs!Enter, ParserTypes, Prs!TypeOK, Prs!EtherTypes, Prs!Protos
<1>3. ParserReads'
  BY DEF Prs!Enter, ParserReads
<1>4. Walk'
  BY <1>1 DEF Prs!Enter, Walk
<1>5. Prs!InOrder'
  BY <1>1 DEF Prs!InOrder, Prs!Set, Prs!Unset
<1>6. QED
  BY <1>2, <1>3, <1>4, <1>5 DEF ParserInv, ParserOrder

(***************************************************************************)
(* Headers are read whatever they hold, so every step keeps the types.     *)
(***************************************************************************)
LEMMA ParserTyped ==
  ASSUME ParserTypes, Prs!Step
  PROVE  ParserTypes'
<1> USE DEF ParserTypes, Prs!TypeOK
<1>0. /\ upper \in Nat /\ next \in Nat /\ read \in Nat /\ tags \in Nat /\ MaxTags \in Nat
      /\ md \in Metadata /\ result \in {0, -1} /\ upper' = upper
      /\ {Prs!EthLen, Prs!TagLen, Prs!Ip4Len, Prs!Ip6Len, Prs!ArpLen, Prs!OptLen, Prs!TcpLen,
          Prs!UdpLen} \subseteq Nat
      /\ \A ihl \in Ihls : ihl * Prs!Word \in Nat
  <2>1. Prs!Word \in {1, 2, 3, 4} /\ Prs!MaxHdr \in Nat
        /\ \A ihl \in Ihls : ihl \in Nat
    BY ParserConstants
  <2>2. \A ihl \in Ihls : ihl * Prs!Word \in Nat
    BY <2>1
  <2>3. QED
    BY <2>1, <2>2, ParserConstants DEF Prs!Step
<1>1. \A len \in Nat : Prs!Reads(len) => read' \in Nat
  BY <1>0 DEF Prs!Reads
<1>2. /\ \A f \in SUBSET Flags, p \in Nat :
           [md EXCEPT !.l3 = Prs!Offs(p), !.proto = @ \cup f] \in Metadata
      /\ \A f \in SUBSET Flags, p \in Nat :
           [md EXCEPT !.proto = @ \cup f, !.l3 = Prs!Offs(p)] \in Metadata
      /\ \A f \in SUBSET Flags, p \in Nat :
           [md EXCEPT !.proto = @ \cup f, !.vlan = Prs!Offs(p)] \in Metadata
      /\ \A f \in SUBSET Flags, p \in Nat :
           [md EXCEPT !.l4 = Prs!Offs(p), !.proto = @ \cup f] \in Metadata
      /\ \A f \in SUBSET Flags, p \in Nat, q \in Nat :
           [md EXCEPT !.l4 = Prs!Offs(p), !.payload = Prs!Offs(q), !.proto = @ \cup f] \in Metadata
      /\ \A p \in Nat : [md EXCEPT !.l3 = Prs!Offs(p)] \in Metadata
      /\ \A p \in Nat : [md EXCEPT !.l4 = Prs!Offs(p)] \in Metadata
  BY <1>0, OffsIsU16 DEF Metadata
<1>3. {"l4_tcp"} \in SUBSET Flags /\ {"l4_udp"} \in SUBSET Flags /\ {"l3_ip4"} \in SUBSET Flags
      /\ {"l3_arp"} \in SUBSET Flags /\ {"cvlan"} \in SUBSET Flags /\ {"svlan"} \in SUBSET Flags
  BY DEF Flags
<1>4. md' \in Metadata => {md'.vlan, md'.l3, md'.l4, md'.payload} \subseteq 0 .. OffMod - 1
  BY DEF Metadata
<1>5. ASSUME Prs!Fail, read' \in Nat, turn' = turn
      PROVE  ParserTypes'
  BY <1>0, <1>5 DEF Prs!Fail, Prs!Return
<1>6. CASE Prs!Option
  <2>1. \A o \in OptLens : next + Prs!Skip(o) \in Nat
    BY <1>0, ParserConstants
  <2>2. read' \in Nat /\ next' \in Nat /\ l4' \in Prs!Protos /\ at' \in {"options", "l4"}
        /\ turn' \in {0, 1}
    BY <1>0, <1>1, <1>6, <2>1 DEF Prs!Option
  <2>3. UNCHANGED <<et, md, result, tags>>
    BY <1>6 DEF Prs!Option
  <2>4. QED
    BY <1>0, <2>2, <2>3
<1>7. CASE Prs!Eth /\ turn' = turn
  <2>1. CASE Prs!Fail /\ UNCHANGED read
    BY <1>0, <1>5, <1>7, <2>1
  <2>2. CASE Prs!Reads(Prs!EthLen) /\ next' = Prs!EthLen /\ et' \in Prs!EtherTypes /\ at' = "l2"
             /\ UNCHANGED <<l4, md, result, tags>>
    <3>1. tags < MaxTags
      BY <1>7, ParserConstants DEF Prs!Eth
    <3>2. QED
      BY <1>0, <1>1, <1>7, <2>2, <3>1
  <2>3. QED
    BY <1>7, <2>1, <2>2 DEF Prs!Eth
<1>8. CASE Prs!Tag /\ turn' = turn
  <2>1. CASE Prs!Fail /\ UNCHANGED read
    BY <1>0, <1>5, <1>8, <2>1
  <2>2. CASE ~(Prs!Fail /\ UNCHANGED read)
    <3>1. /\ Prs!Reads(Prs!TagLen)
          /\ md' = [md EXCEPT !.proto = @ \cup {et}, !.vlan = Prs!Offs(next)]
          /\ tags' = tags + 1 /\ next' = next + Prs!TagLen
          /\ et' \in IF tags' < MaxTags THEN Prs!EtherTypes ELSE Prs!EtherTypes \ {"cvlan", "svlan"}
          /\ UNCHANGED <<at, l4, result>>
          /\ at = "l2" /\ et \in {"cvlan", "svlan"}
      BY <1>8, <2>2 DEF Prs!Tag
    <3>2. md' \in Metadata
      BY <1>0, <1>2, <1>3, <3>1
    <3>3. tags' \in 0 .. MaxTags /\ et' \in Prs!EtherTypes /\ next' \in Nat /\ read' \in Nat
          /\ (et' \in {"cvlan", "svlan"} => tags' < MaxTags)
      BY <1>0, <1>1, <3>1
    <3>4. QED
      BY <1>0, <1>4, <1>8, <3>1, <3>2, <3>3
  <2>3. QED
    BY <2>1, <2>2
<1>9. CASE Prs!Ip4 /\ turn' = turn
  <2>1. CASE Prs!Fail /\ UNCHANGED read
    BY <1>0, <1>5, <1>9, <2>1
  <2>2. CASE ~(Prs!Fail /\ UNCHANGED read)
    <3>1. Prs!Reads(Prs!Ip4Len) /\ read' \in Nat
      BY <1>0, <1>1, <1>9, <2>2 DEF Prs!Ip4
    <3>2. CASE Prs!Fail
      BY <1>5, <1>9, <3>1, <3>2
    <3>3. CASE ~Prs!Fail
      <4>1. PICK ihl \in Ihls :
              /\ md' = [md EXCEPT !.proto = @ \cup {"l3_ip4"}, !.l3 = Prs!Offs(next)]
              /\ IF Prs!OutOfBounds(ihl * Prs!Word)
                 THEN Prs!Return(-1) /\ UNCHANGED <<next, l4>>
                 ELSE /\ next' = next + ihl * Prs!Word
                      /\ l4' \in Prs!Protos
                      /\ at' = "l4"
                      /\ result' = result
              /\ UNCHANGED <<et, tags>>
        BY <1>9, <2>2, <3>3 DEF Prs!Ip4
      <4>2. md' \in Metadata
        BY <1>0, <1>2, <1>3, <4>1
      <4>3. next' \in Nat /\ l4' \in Prs!Protos /\ at' \in {"l4", "done"} /\ result' \in {0, -1}
        BY <1>0, <4>1 DEF Prs!Return
      <4>4. QED
        BY <1>0, <1>4, <1>9, <3>1, <4>1, <4>2, <4>3
    <3>4. QED
      BY <3>2, <3>3
  <2>3. QED
    BY <2>1, <2>2
<1>10. CASE Prs!Ip6 /\ turn' = turn
  <2>1. CASE Prs!Fail /\ UNCHANGED read
    BY <1>0, <1>5, <1>10, <2>1
  <2>2. CASE ~(Prs!Fail /\ UNCHANGED read)
    <3>1. Prs!Reads(Prs!Ip6Len) /\ read' \in Nat
      BY <1>0, <1>1, <1>10, <2>2 DEF Prs!Ip6
    <3>2. CASE Prs!Fail
      BY <1>5, <1>10, <3>1, <3>2
    <3>3. CASE ~Prs!Fail
      <4>1. /\ md' = [md EXCEPT !.proto = @ \cup {"l3_ip4"}, !.l3 = Prs!Offs(next)]
            /\ next' = next + Prs!Ip6Len /\ l4' \in Prs!Protos /\ at' = "options"
            /\ UNCHANGED <<et, result, tags>>
        BY <1>10, <2>2, <3>3 DEF Prs!Ip6, Prs!Ip6Flag
      <4>2. md' \in Metadata
        BY <1>0, <1>2, <1>3, <4>1
      <4>3. QED
        BY <1>0, <1>4, <1>10, <3>1, <4>1, <4>2
    <3>4. QED
      BY <3>2, <3>3
  <2>3. QED
    BY <2>1, <2>2
<1>11. CASE Prs!Arp /\ turn' = turn
  <2>1. CASE Prs!Fail /\ UNCHANGED read
    BY <1>0, <1>5, <1>11, <2>1
  <2>2. CASE ~(Prs!Fail /\ UNCHANGED read)
    <3>1. /\ Prs!Reads(Prs!ArpLen) /\ read' \in Nat
          /\ md' \in {[md EXCEPT !.l3 = Prs!Offs(next)],
                      [md EXCEPT !.l3 = Prs!Offs(next), !.proto = @ \cup {"l3_arp"}]}
          /\ next' \in {next, next + Prs!ArpLen} /\ at' \in {"l4", "done"} /\ result' \in {0, -1}
          /\ UNCHANGED <<et, l4, tags>>
      BY <1>0, <1>1, <1>11, <2>2 DEF Prs!Arp, Prs!Return
    <3>2. md' \in Metadata
      <4>1. CASE md' = [md EXCEPT !.l3 = Prs!Offs(next)]
        BY <1>0, <1>2, <4>1
      <4>2. CASE md' = [md EXCEPT !.l3 = Prs!Offs(next), !.proto = @ \cup {"l3_arp"}]
        BY <1>0, <1>2, <1>3, <4>2
      <4>3. QED
        BY <3>1, <4>1, <4>2
    <3>3. QED
      BY <1>0, <1>4, <1>11, <3>1, <3>2
  <2>3. QED
    BY <2>1, <2>2
<1>12. CASE Prs!OtherL3 /\ turn' = turn
  BY <1>0, <1>12 DEF Prs!OtherL3
<1>13. CASE Prs!Tcp /\ turn' = turn
  <2>1. CASE Prs!Fail /\ UNCHANGED read
    BY <1>0, <1>5, <1>13, <2>1
  <2>2. CASE ~(Prs!Fail /\ UNCHANGED read)
    <3>1. Prs!Reads(Prs!TcpLen) /\ read' \in Nat /\ UNCHANGED <<et, l4, tags>>
      BY <1>0, <1>1, <1>13, <2>2 DEF Prs!Tcp
    <3> DEFINE seen == [md EXCEPT !.l4 = Prs!Offs(next), !.proto = @ \cup {"l4_tcp"}]
    <3>2. PICK doff \in Doffs :
            IF Prs!OutOfBounds(Prs!TcpOptLen(doff))
            THEN Prs!Return(-1) /\ md' = seen /\ next' = next
            ELSE /\ Prs!Return(0)
                 /\ next' = Prs!TcpPayload(Prs!TcpOptLen(doff))
                 /\ md' = [seen EXCEPT !.payload = Prs!Offs(next')]
      BY <1>13, <2>2 DEF Prs!Tcp
    <3>3. Prs!TcpPayload(Prs!TcpOptLen(doff)) \in Nat
      <4>1. doff * Prs!Word \in Int
        <5>1. doff \in Int /\ Prs!Word \in Int
          BY ParserConstants
        <5>2. QED
          BY <5>1
      <4>2. Prs!TcpOptLen(doff) \in Nat
        <5> DEFINE d == doff * Prs!Word
        <5>1. d \in Int /\ Prs!TcpLen \in Int /\ IntMod \in Nat \ {0}
          BY <1>0, <4>1, ParserConstants
        <5> HIDE DEF d
        <5>2. (d - Prs!TcpLen) % IntMod \in Nat
          BY <5>1
        <5>3. QED
          BY <5>2 DEF Prs!TcpOptLen, d
      <4>3. QED
        BY <1>0, <4>2 DEF Prs!TcpPayload
    <3>4. seen \in Metadata /\ next' \in Nat
      BY <1>0, <1>2, <1>3, <3>2, <3>3
    <3>5. md' \in Metadata
      <4>1. Prs!Offs(next') \in 0 .. OffMod - 1
        BY <3>4, OffsIsU16
      <4> HIDE DEF seen
      <4>2. QED
        BY <3>2, <3>4, <4>1 DEF Metadata
    <3>6. at' = "done" /\ result' \in {0, -1}
      BY <3>2 DEF Prs!Return
    <3>7. QED
      BY <1>0, <1>4, <1>13, <3>1, <3>4, <3>5, <3>6
  <2>3. QED
    BY <2>1, <2>2
<1>14. CASE Prs!Udp /\ turn' = turn
  <2>1. CASE Prs!Fail /\ UNCHANGED read
    BY <1>0, <1>5, <1>14, <2>1
  <2>2. CASE ~(Prs!Fail /\ UNCHANGED read)
    <3>1. /\ Prs!Reads(Prs!UdpLen) /\ read' \in Nat /\ UNCHANGED <<et, l4, tags>>
          /\ next' = next + Prs!UdpLen /\ at' = "done" /\ result' = 0
          /\ md' = [md EXCEPT !.l4 = Prs!Offs(next), !.payload = Prs!Offs(next'),
                              !.proto = @ \cup {"l4_udp"}]
      BY <1>0, <1>1, <1>14, <2>2 DEF Prs!Udp, Prs!Return
    <3>2. md' \in Metadata
      <4>1. next' \in Nat
        BY <1>0, <3>1
      <4>2. QED
        BY <1>0, <1>2, <1>3, <3>1, <4>1
    <3>3. QED
      BY <1>0, <1>4, <1>14, <3>1, <3>2
  <2>3. QED
    BY <2>1, <2>2
<1>15. CASE Prs!OtherL4 /\ turn' = turn
  <2>1. md' \in Metadata
    BY <1>0, <1>2, <1>15 DEF Prs!OtherL4
  <2>2. QED
    BY <1>0, <1>4, <1>15, <2>1 DEF Prs!OtherL4, Prs!Return
<1>16. QED
  BY <1>6, <1>7, <1>8, <1>9, <1>10, <1>11, <1>12, <1>13, <1>14, <1>15 DEF Prs!Step

(***************************************************************************)
(* A header that fits is read inside the packet.                           *)
(***************************************************************************)
LEMMA HeaderRead ==
  ASSUME upper \in Nat, next \in Nat, read \in Nat, read <= upper,
         NEW e \in Nat, next + e <= upper, Prs!Reads(e)
  PROVE  read' <= upper
BY DEF Prs!Reads

(***************************************************************************)
(* A step of the parser reads inside the packet, and moves on inside it or *)
(* over an option.                                                         *)
(***************************************************************************)
LEMMA ParserReadsKept ==
  ASSUME ParserTypes, ParserReads, Prs!InReach(IntMod), Prs!Step
  PROVE  ParserReads'
<1>0. /\ upper \in Nat /\ next \in Nat /\ read \in Nat /\ read <= upper /\ upper' = upper
      /\ IntMod \in Nat /\ Prs!MaxHdr \in Nat
      /\ upper + Prs!MaxHdr < IntMod
      /\ {Prs!EthLen, Prs!TagLen, Prs!Ip4Len, Prs!Ip6Len, Prs!ArpLen, Prs!OptLen, Prs!TcpLen,
          Prs!UdpLen} \subseteq 1 .. Prs!MaxHdr
      /\ at = "eth" => next = 0
      /\ at \in {"eth", "l2"} => next <= upper
  BY ParserState, ParserConstants, Reach DEF ParserTypes, ParserReads, Prs!Step
<1>1. ASSUME at \in {"eth", "l2", "options", "l4"}
      PROVE  \A e \in 0 .. Prs!MaxHdr : Prs!OutOfBounds(e) <=> next + e > upper
  <2>1. next + Prs!MaxHdr < IntMod
    BY <1>0, <1>1 DEF ParserReads
  <2>2. QED
    BY <1>0, <2>1, BoundsCheck
<1>2. ASSUME NEW e \in 0 .. Prs!MaxHdr, at \in {"eth", "l2", "options", "l4"},
             ~Prs!OutOfBounds(e), Prs!Reads(e)
      PROVE  next + e <= upper /\ read' <= upper
  BY <1>0, <1>1, <1>2, HeaderRead
<1>3. ASSUME at' = "done", read' <= upper PROVE ParserReads'
  BY <1>0, <1>3 DEF ParserReads
<1>4. Prs!Fail => at' = "done"
  BY DEF Prs!Fail, Prs!Return
<1>5. CASE Prs!Option
  <2>1. CASE ~Prs!OutOfBounds(Prs!OptLen) /\ l4 = "option"
    <3>1. PICK o \in OptLens : next' = next + Prs!Skip(o)
      BY <1>5, <2>1 DEF Prs!Option
    <3>2. next + Prs!OptLen <= upper /\ read' <= upper /\ at' = "options"
      BY <1>0, <1>2, <1>5, <2>1 DEF Prs!Option
    <3>3. Prs!Skip(o) \in Nat /\ upper + Prs!Skip(o) + Prs!MaxHdr < IntMod
      BY <1>0, <3>1, ParserConstants, Reach
    <3>4. next' + Prs!MaxHdr < IntMod
      BY <1>0, <3>1, <3>2, <3>3
    <3>5. QED
      BY <1>0, <3>2, <3>4 DEF ParserReads
  <2>2. CASE ~(~Prs!OutOfBounds(Prs!OptLen) /\ l4 = "option")
    BY <1>0, <1>5, <2>2 DEF Prs!Option, ParserReads
  <2>3. QED
    BY <2>1, <2>2
<1>6. CASE Prs!Eth
  BY <1>0, <1>2, <1>3, <1>4, <1>6 DEF Prs!Eth, ParserReads
<1>7. CASE Prs!Tag
  BY <1>0, <1>2, <1>3, <1>4, <1>7 DEF Prs!Tag, ParserReads
<1>8. CASE Prs!Ip4
  <2>1. CASE Prs!Fail /\ UNCHANGED read
    BY <1>0, <1>3, <1>4, <2>1
  <2>2. CASE ~(Prs!Fail /\ UNCHANGED read)
    <3>1. read' <= upper /\ next <= upper
      BY <1>0, <1>2, <1>8, <2>2 DEF Prs!Ip4
    <3>2. CASE Prs!Fail
      BY <1>3, <1>4, <3>1, <3>2
    <3>3. CASE ~Prs!Fail
      <4>1. PICK ihl \in Ihls :
              IF Prs!OutOfBounds(ihl * Prs!Word)
              THEN Prs!Return(-1) /\ UNCHANGED <<next, l4>>
              ELSE /\ next' = next + ihl * Prs!Word
                   /\ l4' \in Prs!Protos
                   /\ at' = "l4"
                   /\ result' = result
        BY <1>8, <2>2, <3>3 DEF Prs!Ip4
      <4>2. ihl * Prs!Word \in 0 .. Prs!MaxHdr
        BY HeaderWords
      <4>3. CASE Prs!OutOfBounds(ihl * Prs!Word)
        BY <1>3, <3>1, <4>1, <4>3 DEF Prs!Return
      <4>4. CASE ~Prs!OutOfBounds(ihl * Prs!Word)
        <5>1. next' <= upper /\ at' = "l4"
          BY <1>0, <1>1, <1>8, <4>1, <4>2, <4>4 DEF Prs!Ip4
        <5>2. next' \in Nat
          BY <1>0, <4>1, <4>2, <4>4
        <5>3. QED
          BY <1>0, <3>1, <5>1, <5>2 DEF ParserReads
      <4>5. QED
        BY <4>3, <4>4
    <3>4. QED
      BY <3>2, <3>3
  <2>3. QED
    BY <2>1, <2>2
<1>9. CASE Prs!Ip6
  BY <1>0, <1>2, <1>3, <1>4, <1>9 DEF Prs!Ip6, ParserReads
<1>10. CASE Prs!Arp
  BY <1>0, <1>2, <1>3, <1>4, <1>10 DEF Prs!Arp, Prs!Return, ParserReads
<1>11. CASE Prs!OtherL3
  BY <1>0, <1>11 DEF Prs!OtherL3, ParserReads
<1>12. CASE Prs!Tcp
  BY <1>0, <1>2, <1>3, <1>4, <1>12 DEF Prs!Tcp, Prs!Return
<1>13. CASE Prs!Udp
  BY <1>0, <1>2, <1>3, <1>4, <1>13 DEF Prs!Udp, Prs!Return
<1>14. CASE Prs!OtherL4
  BY <1>0, <1>3, <1>14 DEF Prs!OtherL4, Prs!Return
<1>15. QED
  BY <1>5, <1>6, <1>7, <1>8, <1>9, <1>10, <1>11, <1>12, <1>13, <1>14 DEF Prs!Step

(***************************************************************************)
(* Everything an action needs to know where the offsets do not wrap.       *)
(***************************************************************************)
LEMMA Reachable ==
  ASSUME ParserTypes, ParserReads, ParserOrder, Prs!InReach(OffMod)
  PROVE  /\ OffMod \in Nat \ {0} /\ IntMod \in Nat /\ IntMod >= OffMod
         /\ Prs!MaxHdr \in Nat /\ upper + Prs!MaxHdr < OffMod
         /\ \A o \in OptLens : upper + Prs!Skip(o) + Prs!MaxHdr < OffMod
         /\ at \in {"eth", "l2", "options", "l4"} =>
              /\ next + Prs!MaxHdr < OffMod
              /\ \A e \in 0 .. Prs!MaxHdr : Prs!OutOfBounds(e) <=> next + e > upper
              /\ Prs!Offs(next) = next
<1>1. /\ OffMod \in Nat \ {0} /\ IntMod \in Nat /\ IntMod >= OffMod /\ Prs!MaxHdr \in Nat
      /\ upper \in Nat /\ next \in Nat
  BY ParserConstants, ParserState
<1>2. /\ upper + Prs!MaxHdr < OffMod
      /\ \A o \in OptLens : upper + Prs!Skip(o) + Prs!MaxHdr < OffMod
  BY <1>1, Reach
<1>3. ASSUME at \in {"eth", "l2", "options", "l4"}
      PROVE  next + Prs!MaxHdr < OffMod
  BY <1>1, <1>2, <1>3 DEF ParserTypes, ParserReads, ParserOrder, Walk
<1>4. ASSUME at \in {"eth", "l2", "options", "l4"}, NEW e \in 0 .. Prs!MaxHdr
      PROVE  Prs!OutOfBounds(e) <=> next + e > upper
  BY <1>1, <1>3, <1>4, BoundsCheck
<1>5. ASSUME at \in {"eth", "l2", "options", "l4"}
      PROVE  Prs!Offs(next) = next
  <2>1. next \in 0 .. OffMod - 1
    BY <1>1, <1>3, <1>5
  <2>2. QED
    BY <1>1, <2>1, Remainder DEF Prs!Offs
<1>6. QED
  BY <1>1, <1>2, <1>3, <1>4, <1>5

(***************************************************************************)
(* A failed check leaves the metadata there is.                            *)
(***************************************************************************)
LEMMA FailedInOrder ==
  ASSUME ParserOrder, Prs!Fail, upper' = upper
  PROVE  ParserOrder'
BY DEF ParserOrder, Walk, Prs!InOrder, Prs!Set, Prs!Fail, Prs!Return

(***************************************************************************)
(* The Ethernet header and the VLAN tags.                                  *)
(***************************************************************************)
LEMMA Layer2InOrder ==
  ASSUME ParserTypes, ParserReads, ParserOrder, Prs!InReach(OffMod), upper' = upper,
         Prs!Eth \/ Prs!Tag
  PROVE  ParserOrder'
<1>0. /\ upper \in Nat /\ next \in Nat /\ md \in Metadata /\ OffMod \in Nat \ {0}
      /\ Prs!TagLen \in Nat /\ Prs!TagLen \in 0 .. Prs!MaxHdr
  BY ParserState, ParserConstants
<1>1. CASE Prs!Eth
  <2>1. CASE Prs!Fail
    BY <2>1, FailedInOrder
  <2>2. CASE ~Prs!Fail
    <3>1. at' = "l2" /\ l4' = l4 /\ md' = md
      BY <1>1, <2>2 DEF Prs!Eth
    <3>2. md = Prs!Blank /\ l4 = "other"
      BY <1>1 DEF Prs!Eth, ParserOrder, Walk
    <3>3. ~Prs!Set(md.vlan) /\ ~Prs!Set(md.l3) /\ NoL4
      BY <3>2 DEF Prs!Blank, Prs!Set, NoL4
    <3>4. Walk'
      BY <3>1, <3>2, <3>3 DEF Walk, NoL4, Prs!Set
    <3>5. Prs!InOrder'
      BY <3>1 DEF ParserOrder, Prs!InOrder, Prs!Set
    <3>6. QED
      BY <3>4, <3>5 DEF ParserOrder
  <2>3. QED
    BY <2>1, <2>2
<1>2. CASE Prs!Tag
  <2>1. CASE Prs!Fail
    BY <2>1, FailedInOrder
  <2>2. CASE ~Prs!Fail
    <3>1. /\ at = "l2" /\ at' = at /\ l4' = l4 /\ next' = next + Prs!TagLen
          /\ et \in {"cvlan", "svlan"} /\ ~Prs!OutOfBounds(Prs!TagLen)
          /\ md' = [md EXCEPT !.proto = @ \cup {et}, !.vlan = Prs!Offs(next)]
      BY <1>2, <2>2 DEF Prs!Tag
    <3>2. l4 = "other" /\ NoL4 /\ ~Prs!Set(md.l3)
      BY <3>1 DEF ParserOrder, Walk
    <3>3. next + Prs!TagLen <= upper /\ Prs!Offs(next) = next
      BY <1>0, <3>1, Reachable
    <3>4. /\ md'.proto = md.proto \cup {et} /\ md'.vlan = next
          /\ md'.l3 = md.l3 /\ md'.l4 = md.l4 /\ md'.payload = md.payload
      BY <1>0, <3>1, <3>3 DEF Metadata
    <3>5. NoL4' /\ ~Prs!Set(md'.l3)
      BY <3>1, <3>2, <3>4 DEF NoL4, Prs!Set
    <3>6. Walk'
      BY <1>0, <3>1, <3>2, <3>4, <3>5 DEF Walk
    <3>7. Prs!InOrder'
      BY <1>0, <3>3, <3>4, <3>5 DEF Prs!InOrder, NoL4
    <3>8. QED
      BY <3>6, <3>7 DEF ParserOrder
  <2>3. QED
    BY <2>1, <2>2
<1>3. QED
  BY <1>1, <1>2

(***************************************************************************)
(* An option header, with a jump behind it, or the end of the options.     *)
(***************************************************************************)
LEMMA OptionInOrder ==
  ASSUME ParserTypes, ParserReads, ParserOrder, Prs!InReach(OffMod), upper' = upper, Prs!Option
  PROVE  ParserOrder'
<1>1. /\ upper \in Nat /\ next \in Nat /\ OffMod \in Nat /\ Prs!MaxHdr \in Nat
      /\ at = "options" /\ NoL4 /\ next + Prs!MaxHdr < OffMod
      /\ Prs!Set(md.l3) /\ md.l3 <= next /\ md.l3 \in Nat
      /\ Prs!OptLen \in 0 .. Prs!MaxHdr
  BY ParserState, ParserConstants DEF Prs!Option, ParserOrder, Walk
<1>2. md' = md /\ at' \in {"options", "l4"}
  BY <1>1 DEF Prs!Option
<1>3. next' \in Nat /\ next <= next' /\ next' + Prs!MaxHdr < OffMod
  <2>1. CASE ~Prs!OutOfBounds(Prs!OptLen) /\ l4 = "option"
    <3>1. PICK o \in OptLens : next' = next + Prs!Skip(o)
      BY <2>1 DEF Prs!Option
    <3>2. Prs!Skip(o) \in Nat /\ upper + Prs!Skip(o) + Prs!MaxHdr < OffMod
      BY <3>1, ParserConstants, Reachable
    <3>3. next + Prs!OptLen <= upper
      BY <1>1, <2>1, Reachable
    <3>4. QED
      BY <1>1, <3>1, <3>2, <3>3
  <2>2. CASE ~(~Prs!OutOfBounds(Prs!OptLen) /\ l4 = "option")
    BY <1>1, <2>2 DEF Prs!Option
  <2>3. QED
    BY <2>1, <2>2
<1>4. Walk'
  BY <1>1, <1>2, <1>3 DEF Walk, NoL4, Prs!Set
<1>5. Prs!InOrder'
  BY <1>2 DEF ParserOrder, Prs!InOrder, Prs!Set
<1>6. QED
  BY <1>4, <1>5 DEF ParserOrder

(***************************************************************************)
(* What a header of layer 3 leaves: the metadata notes where it is, behind *)
(* the VLAN tags, and the walk goes on inside the packet or ends.          *)
(***************************************************************************)
LEMMA Layer3Noted ==
  ASSUME ParserTypes, ParserReads, ParserOrder, Prs!InReach(OffMod), upper' = upper,
         at = "l2", NEW f \in SUBSET {"l3_ip4", "l3_arp"},
         md' = [md EXCEPT !.l3 = Prs!Offs(next), !.proto = @ \cup f],
         next' \in Nat, next <= next', next' <= upper, at' \in {"options", "l4", "done"}
  PROVE  ParserOrder'
<1>1. /\ upper \in Nat /\ next \in Nat /\ OffMod \in Nat /\ md \in Metadata
      /\ Prs!MaxHdr \in Nat /\ upper + Prs!MaxHdr < OffMod
      /\ NoL4 /\ ~Prs!Set(md.l3) /\ Prs!TagLen \in Nat
      /\ Prs!Set(md.vlan) => md.vlan + Prs!TagLen <= next
      /\ md.vlan \in Nat /\ Prs!Unset = OffMod - 1 /\ Prs!Offs(next) = next
      /\ 0 < Prs!MaxHdr
  BY ParserState, ParserConstants, Reachable DEF ParserOrder, Walk
<1>2. /\ md'.proto = md.proto \cup f /\ md'.l3 = next
      /\ md'.vlan = md.vlan /\ md'.l4 = md.l4 /\ md'.payload = md.payload
  BY <1>1 DEF Metadata
<1>3. NoL4'
  BY <1>1, <1>2 DEF NoL4, Prs!Set
<1>4. next <= upper /\ Prs!Set(md'.l3)
  BY <1>1, <1>2 DEF Prs!Set
<1>5. Walk'
  BY <1>1, <1>2, <1>3, <1>4 DEF Walk, Prs!Set
<1>6. Prs!InOrder'
  BY <1>1, <1>2, <1>3, <1>4 DEF Prs!InOrder, NoL4, Prs!Set
<1>7. QED
  BY <1>5, <1>6 DEF ParserOrder

(***************************************************************************)
(* IPv4, IPv6, ARP, and what is none of them.                              *)
(***************************************************************************)
LEMMA Layer3InOrder ==
  ASSUME ParserTypes, ParserReads, ParserOrder, Prs!InReach(OffMod), upper' = upper,
         Prs!Ip4 \/ Prs!Ip6 \/ Prs!Arp \/ Prs!OtherL3
  PROVE  ParserOrder'
<1>0. /\ upper \in Nat /\ next \in Nat /\ md \in Metadata /\ OffMod \in Nat
      /\ at = "l2" /\ next <= upper /\ l4 = "other" /\ NoL4 /\ ~Prs!Set(md.l3)
      /\ {Prs!Ip4Len, Prs!Ip6Len, Prs!ArpLen} \subseteq 1 .. Prs!MaxHdr
      /\ next + Prs!MaxHdr < OffMod
  BY ParserState, ParserConstants, Reachable
  DEF Prs!Ip4, Prs!Ip6, Prs!Arp, Prs!OtherL3, ParserReads, ParserOrder, Walk
<1>1. \A e \in 0 .. Prs!MaxHdr : Prs!OutOfBounds(e) <=> next + e > upper
  BY <1>0, Reachable
<1>2. \A f \in SUBSET {"l3_ip4", "l3_arp"} :
        [md EXCEPT !.proto = @ \cup f, !.l3 = Prs!Offs(next)]
          = [md EXCEPT !.l3 = Prs!Offs(next), !.proto = @ \cup f]
  BY <1>0 DEF Metadata
<1>3. CASE Prs!Fail
  BY <1>3, FailedInOrder
<1>4. CASE Prs!Ip4 /\ ~Prs!Fail
  <2>1. PICK ihl \in Ihls :
          /\ md' = [md EXCEPT !.proto = @ \cup {"l3_ip4"}, !.l3 = Prs!Offs(next)]
          /\ IF Prs!OutOfBounds(ihl * Prs!Word)
             THEN Prs!Return(-1) /\ UNCHANGED <<next, l4>>
             ELSE /\ next' = next + ihl * Prs!Word
                  /\ l4' \in Prs!Protos
                  /\ at' = "l4"
                  /\ result' = result
    BY <1>4 DEF Prs!Ip4
  <2>2. ihl * Prs!Word \in 0 .. Prs!MaxHdr
    BY HeaderWords
  <2>3. md' = [md EXCEPT !.l3 = Prs!Offs(next), !.proto = @ \cup {"l3_ip4"}]
    BY <1>2, <2>1
  <2>4. next' \in Nat /\ next <= next' /\ next' <= upper /\ at' \in {"options", "l4", "done"}
    BY <1>0, <1>1, <2>1, <2>2 DEF Prs!Return
  <2>5. QED
    BY <1>0, <2>3, <2>4, Layer3Noted
<1>5. CASE Prs!Ip6 /\ ~Prs!Fail
  <2>1. /\ md' = [md EXCEPT !.proto = @ \cup {"l3_ip4"}, !.l3 = Prs!Offs(next)]
        /\ next' = next + Prs!Ip6Len /\ at' = "options" /\ ~Prs!OutOfBounds(Prs!Ip6Len)
    BY <1>5 DEF Prs!Ip6, Prs!Ip6Flag
  <2>2. md' = [md EXCEPT !.l3 = Prs!Offs(next), !.proto = @ \cup {"l3_ip4"}]
    BY <1>2, <2>1
  <2>3. next' \in Nat /\ next <= next' /\ next' <= upper
    BY <1>0, <1>1, <2>1
  <2>4. {"l3_ip4"} \in SUBSET {"l3_ip4", "l3_arp"}
    OBVIOUS
  <2>5. QED
    BY <1>0, <2>1, <2>2, <2>3, <2>4, Layer3Noted
<1>6. CASE Prs!Arp /\ ~Prs!Fail
  <2>1. /\ md' \in {[md EXCEPT !.l3 = Prs!Offs(next)],
                    [md EXCEPT !.l3 = Prs!Offs(next), !.proto = @ \cup {"l3_arp"}]}
        /\ IF "l3_arp" \in md'.proto
           THEN at' = "l4" /\ next' = next + Prs!ArpLen /\ result' = result
           ELSE Prs!Return(-1) /\ next' = next
        /\ ~Prs!OutOfBounds(Prs!ArpLen)
    BY <1>6 DEF Prs!Arp
  <2>2. PICK f \in {{}, {"l3_arp"}} : md' = [md EXCEPT !.l3 = Prs!Offs(next), !.proto = @ \cup f]
    <3>1. [md EXCEPT !.l3 = Prs!Offs(next)]
            = [md EXCEPT !.l3 = Prs!Offs(next), !.proto = @ \cup {}]
      BY <1>0 DEF Metadata
    <3>2. QED
      BY <2>1, <3>1
  <2>3. f \in SUBSET {"l3_ip4", "l3_arp"}
    OBVIOUS
  <2>4. next' \in Nat /\ next <= next' /\ next' <= upper /\ at' \in {"options", "l4", "done"}
    BY <1>0, <1>1, <2>1 DEF Prs!Return
  <2>5. QED
    BY <1>0, <2>2, <2>3, <2>4, Layer3Noted
<1>7. CASE Prs!OtherL3
  <2>1. at' = "l4" /\ next' = next /\ l4' = l4 /\ md' = md
    BY <1>7 DEF Prs!OtherL3
  <2>2. Walk'
    BY <1>0, <2>1 DEF Walk, NoL4, Prs!Set
  <2>3. Prs!InOrder'
    BY <2>1 DEF ParserOrder, Prs!InOrder, Prs!Set
  <2>4. QED
    BY <2>2, <2>3 DEF ParserOrder
<1>8. QED
  BY <1>3, <1>4, <1>5, <1>6, <1>7

(***************************************************************************)
(* What a header of layer 4 leaves: the metadata notes where it is, and    *)
(* perhaps where the payload is.                                           *)
(***************************************************************************)
LEMMA Layer4Noted ==
  ASSUME ParserTypes, ParserOrder, upper' = upper, at = "l4", l4 # "other", at' = "done",
         md'.vlan = md.vlan, md'.l3 = md.l3, md'.l4 = next,
         "l4_tcp" \in md'.proto => next + Prs!TcpLen <= upper,
         "l4_udp" \in md'.proto => next + Prs!UdpLen <= upper,
         Prs!Set(md'.payload) =>
           /\ next <= md'.payload
           /\ md'.payload <= upper + (IF "l4_tcp" \in md'.proto THEN Prs!TcpLen ELSE 0)
  PROVE  ParserOrder'
<1>1. /\ upper \in Nat /\ next \in Nat /\ next + Prs!MaxHdr < OffMod /\ OffMod \in Nat
      /\ Prs!Set(md.l3) /\ md.l3 <= next /\ Prs!Unset = OffMod - 1
      /\ Prs!MaxHdr \in Nat /\ 0 < Prs!MaxHdr
  BY ParserState, ParserConstants DEF ParserOrder, Walk
<1>2. Prs!InOrder'
  BY <1>1 DEF ParserOrder, Prs!InOrder, Prs!Set
<1>3. QED
  BY <1>2 DEF ParserOrder, Walk

(***************************************************************************)
(* The length of the TCP options, which is unsigned: a doff below 5 makes  *)
(* it huge.  Where that passes the check the payload starts inside the     *)
(* header, modulo 2^32.                                                    *)
(***************************************************************************)
LEMMA TcpOptions ==
  ASSUME ParserTypes, ParserReads, ParserOrder, Prs!InReach(OffMod), at = "l4",
         next + Prs!TcpLen <= upper, NEW doff \in Doffs, ~Prs!OutOfBounds(Prs!TcpOptLen(doff))
  PROVE  /\ Prs!TcpPayload(Prs!TcpOptLen(doff)) \in Nat
         /\ Prs!Offs(Prs!TcpPayload(Prs!TcpOptLen(doff))) \in next .. upper + Prs!TcpLen
<1> DEFINE d == doff * Prs!Word
<1>1. /\ d \in 0 .. Prs!MaxHdr /\ Prs!MaxHdr \in Nat /\ Prs!TcpLen \in 1 .. Prs!MaxHdr
      /\ OffMod \in Nat \ {0} /\ IntMod \in Nat \ {0} /\ IntMod >= OffMod
      /\ next \in Nat /\ upper \in Nat
  BY HeaderWords, ParserConstants, ParserState
<1>2. PICK k \in Nat : IntMod = k * OffMod
  BY ParserConstants
<1>3. Prs!TcpOptLen(doff) = (d - Prs!TcpLen) % IntMod
  BY DEF Prs!TcpOptLen
<1>4. /\ next + Prs!MaxHdr < OffMod
      /\ \A e \in 0 .. Prs!MaxHdr : Prs!OutOfBounds(e) <=> next + e > upper
  BY Reachable
<1> HIDE DEF d
<1>5. CASE d >= Prs!TcpLen
  <2>1. d - Prs!TcpLen \in 0 .. IntMod - 1 /\ d - Prs!TcpLen \in 0 .. Prs!MaxHdr
    BY <1>1, <1>4, <1>5
  <2>2. Prs!TcpOptLen(doff) = d - Prs!TcpLen
    BY <1>1, <1>3, <2>1, Remainder
  <2>3. next + (d - Prs!TcpLen) <= upper
    BY <1>1, <1>4, <2>1, <2>2
  <2>4. Prs!TcpPayload(Prs!TcpOptLen(doff)) = next + d /\ next + d \in 0 .. OffMod - 1
    BY <1>1, <1>4, <2>2 DEF Prs!TcpPayload
  <2>5. Prs!Offs(next + d) = next + d
    BY <1>1, <2>4, Remainder DEF Prs!Offs
  <2>6. QED
    BY <1>1, <2>3, <2>4, <2>5
<1>6. CASE d < Prs!TcpLen
  <2>1. Prs!TcpOptLen(doff) = IntMod + d - Prs!TcpLen
    <3>1. IntMod + d - Prs!TcpLen \in 0 .. IntMod - 1
      BY <1>1, <1>4, <1>6
    <3>2. (d - Prs!TcpLen) % IntMod = IntMod + d - Prs!TcpLen
      BY <1>1, <3>1
    <3>3. QED
      BY <1>3, <3>2
  <2>2. Prs!TcpPayload(Prs!TcpOptLen(doff)) = next + d + IntMod
    BY <1>1, <2>1 DEF Prs!TcpPayload
  <2>3. next + d \in 0 .. OffMod - 1
    BY <1>1, <1>4, <1>6
  <2>4. Prs!Offs(next + d + IntMod) = next + d
    BY <1>1, <1>2, <2>3, Remainder DEF Prs!Offs
  <2>5. QED
    BY <1>1, <1>6, <2>2, <2>4
<1>7. QED
  BY <1>1, <1>5, <1>6

(***************************************************************************)
(* TCP, UDP, and the rest.                                                 *)
(***************************************************************************)
LEMMA Layer4InOrder ==
  ASSUME ParserTypes, ParserReads, ParserOrder, Prs!InReach(OffMod), upper' = upper,
         Prs!Tcp \/ Prs!Udp \/ Prs!OtherL4
  PROVE  ParserOrder'
<1>0. /\ upper \in Nat /\ next \in Nat /\ at = "l4" /\ OffMod \in Nat \ {0} /\ NoL4
      /\ md \in Metadata /\ {Prs!TcpLen, Prs!UdpLen} \subseteq 0 .. Prs!MaxHdr
      /\ Prs!MaxHdr \in Nat /\ next + Prs!MaxHdr < OffMod
  BY ParserState, ParserConstants
  DEF Prs!Tcp, Prs!Udp, Prs!OtherL4, ParserOrder, Walk
<1>1. /\ \A e \in 0 .. Prs!MaxHdr : Prs!OutOfBounds(e) <=> next + e > upper
      /\ Prs!Offs(next) = next
  BY <1>0, Reachable
<1>2. CASE Prs!Fail
  BY <1>2, FailedInOrder
<1>3. CASE Prs!Tcp /\ ~Prs!Fail
  <2> DEFINE seen == [md EXCEPT !.l4 = Prs!Offs(next), !.proto = @ \cup {"l4_tcp"}]
  <2>1. PICK doff \in Doffs :
          IF Prs!OutOfBounds(Prs!TcpOptLen(doff))
          THEN Prs!Return(-1) /\ md' = seen /\ next' = next
          ELSE /\ Prs!Return(0)
               /\ next' = Prs!TcpPayload(Prs!TcpOptLen(doff))
               /\ md' = [seen EXCEPT !.payload = Prs!Offs(next')]
    BY <1>3 DEF Prs!Tcp
  <2>2. l4 = "tcp" /\ next + Prs!TcpLen <= upper
    BY <1>0, <1>1, <1>3 DEF Prs!Tcp
  <2>3. /\ seen.vlan = md.vlan /\ seen.l3 = md.l3 /\ seen.l4 = next
        /\ seen.proto = md.proto \cup {"l4_tcp"} /\ seen.payload = md.payload
        /\ DOMAIN seen = {"proto", "vlan", "l3", "l4", "payload"}
    BY <1>0, <1>1 DEF Metadata
  <2>4. CASE Prs!OutOfBounds(Prs!TcpOptLen(doff))
    <3>1. at' = "done" /\ md' = seen
      BY <2>1, <2>4 DEF Prs!Return
    <3>2. ~Prs!Set(md'.payload) /\ "l4_udp" \notin md'.proto
      BY <1>0, <2>3, <3>1 DEF NoL4, Prs!Set
    <3>3. md'.vlan = md.vlan /\ md'.l3 = md.l3 /\ md'.l4 = next
      BY <2>3, <3>1
    <3>4. QED
      BY <1>0, <2>2, <3>1, <3>2, <3>3, Layer4Noted
  <2>5. CASE ~Prs!OutOfBounds(Prs!TcpOptLen(doff))
    <3>1. /\ at' = "done" /\ md' = [seen EXCEPT !.payload = Prs!Offs(next')]
          /\ next' = Prs!TcpPayload(Prs!TcpOptLen(doff))
      BY <2>1, <2>5 DEF Prs!Return
    <3>2. Prs!Offs(next') \in next .. upper + Prs!TcpLen
      BY <1>0, <2>2, <2>5, <3>1, TcpOptions
    <3>3. /\ md'.vlan = md.vlan /\ md'.l3 = md.l3 /\ md'.l4 = next
          /\ md'.proto = md.proto \cup {"l4_tcp"} /\ md'.payload = Prs!Offs(next')
      <4> HIDE DEF seen
      <4>1. QED
        BY <2>3, <3>1
    <3>4. "l4_udp" \notin md'.proto /\ "l4_tcp" \in md'.proto
      BY <1>0, <3>3 DEF NoL4
    <3>5. next <= md'.payload /\ md'.payload <= upper + Prs!TcpLen
      BY <1>0, <3>2, <3>3
    <3>6. QED
      BY <1>0, <2>2, <3>1, <3>3, <3>4, <3>5, Layer4Noted
  <2>6. QED
    BY <2>4, <2>5
<1>4. CASE Prs!Udp /\ ~Prs!Fail
  <2>1. /\ next' = next + Prs!UdpLen /\ at' = "done" /\ l4 = "udp"
        /\ md' = [md EXCEPT !.l4 = Prs!Offs(next), !.payload = Prs!Offs(next'),
                            !.proto = @ \cup {"l4_udp"}]
        /\ ~Prs!OutOfBounds(Prs!UdpLen)
    BY <1>4 DEF Prs!Udp, Prs!Return
  <2>2. next + Prs!UdpLen <= upper
    BY <1>0, <1>1, <2>1
  <2>3. Prs!Offs(next') = next'
    <3>1. next' \in 0 .. OffMod - 1
      BY <1>0, <2>1
    <3>2. QED
      BY <1>0, <3>1, Remainder DEF Prs!Offs
  <2>4. /\ md'.vlan = md.vlan /\ md'.l3 = md.l3 /\ md'.l4 = next
        /\ md'.proto = md.proto \cup {"l4_udp"} /\ md'.payload = next'
    BY <1>0, <1>1, <2>1, <2>3 DEF Metadata
  <2>5. "l4_tcp" \notin md'.proto
    BY <1>0, <2>4 DEF NoL4
  <2>6. next <= md'.payload /\ md'.payload <= upper
    BY <1>0, <2>1, <2>2, <2>4
  <2>7. QED
    BY <1>0, <2>1, <2>2, <2>4, <2>5, <2>6, Layer4Noted
<1>5. CASE Prs!OtherL4
  <2>1. /\ at' = "done" /\ l4 \notin {"tcp", "udp"}
        /\ md' = IF l4 = "icmp" THEN [md EXCEPT !.l4 = Prs!Offs(next)] ELSE md
    BY <1>5 DEF Prs!OtherL4, Prs!Return
  <2>2. CASE l4 = "icmp"
    <3>1. /\ md'.vlan = md.vlan /\ md'.l3 = md.l3 /\ md'.l4 = next
          /\ md'.proto = md.proto /\ md'.payload = md.payload
      BY <1>0, <1>1, <2>1, <2>2 DEF Metadata
    <3>2. ~Prs!Set(md'.payload) /\ "l4_udp" \notin md'.proto /\ "l4_tcp" \notin md'.proto
      BY <1>0, <3>1 DEF NoL4, Prs!Set
    <3>3. QED
      BY <1>0, <2>1, <2>2, <3>1, <3>2, Layer4Noted
  <2>3. CASE l4 # "icmp"
    BY <2>1, <2>3 DEF ParserOrder, Walk, Prs!InOrder, Prs!Set
  <2>4. QED
    BY <2>2, <2>3
<1>6. QED
  BY <1>2, <1>3, <1>4, <1>5

(***************************************************************************)
(* A step of the parser.                                                   *)
(***************************************************************************)
LEMMA ParserStepKept ==
  ASSUME ParserInv, Prs!Step
  PROVE  ParserInv'
<1>1. ParserTypes'
  BY ParserTyped DEF ParserInv
<1>2. upper' = upper /\ upper \in Nat
  BY ParserState DEF ParserInv, Prs!Step
<1>3. ASSUME Prs!InReach(IntMod)' PROVE ParserReads'
  <2>1. Prs!InReach(IntMod)
    BY <1>2, <1>3 DEF Prs!InReach
  <2>2. QED
    BY <2>1, ParserReadsKept DEF ParserInv
<1>4. ASSUME Prs!InReach(OffMod)' PROVE ParserOrder'
  <2>1. Prs!InReach(OffMod)
    BY <1>2, <1>4 DEF Prs!InReach
  <2>2. Prs!InReach(IntMod)
    <3>1. \A o \in OptLens \cup {0} : Prs!Skip(o) \in Nat
      BY ParserConstants
    <3>2. Prs!MaxHdr \in Nat /\ OffMod \in Nat /\ IntMod \in Nat /\ IntMod >= OffMod
      BY ParserConstants
    <3>3. QED
      BY <1>2, <2>1, <3>1, <3>2 DEF Prs!InReach
  <2>3. ParserTypes /\ ParserReads /\ ParserOrder
    BY <2>1, <2>2 DEF ParserInv
  <2>4. QED
    BY <1>2, <2>1, <2>3, OptionInOrder, Layer2InOrder, Layer3InOrder, Layer4InOrder
    DEF Prs!Step
<1>5. QED
  BY <1>1, <1>3, <1>4 DEF ParserInv

(***************************************************************************)
(* The rest of the program leaves the parser alone.                        *)
(***************************************************************************)
LEMMA ParserStutters ==
  ASSUME ParserInv, UNCHANGED parser
  PROVE  ParserInv'
BY DEF parser, ParserInv, ParserTypes, ParserReads, ParserOrder, Prs!InReach, Prs!TypeOK, Walk,
       NoL4, Prs!Set, Prs!InOrder

(***************************************************************************)
(* No step finds the parser both at work and idle.                         *)
(***************************************************************************)
LEMMA ParserBusy ==
  ASSUME Prs!Step
  PROVE  at # "idle" /\ at' # "idle" /\ upper' = upper
BY DEF Prs!Step, Prs!Option, Prs!Eth, Prs!Tag, Prs!Ip4, Prs!Ip6, Prs!Arp, Prs!OtherL3,
       Prs!Tcp, Prs!Udp, Prs!OtherL4, Prs!Fail, Prs!Return

------------------------------------------------------------------------------
(* The loop over the packets                                                *)

\* The parser works on the packet visited last, one of those counted.
Link ==
  /\ visit \in 0 .. NHdrs
  /\ at # "idle" => /\ scan = "done" /\ visit \in 1 .. NHdrs /\ visit <= rec
                    /\ upper = UpperBound(file.recs[visit])

\* The inductive invariant of the function and its caller.
LoadInv == IndexInv /\ ParserInv /\ Link

(***************************************************************************)
(* The caller finds the header of packet visit where hdrs[] says it is: no *)
(* two records start at the same place.                                    *)
(***************************************************************************)
LEMMA HeaderFound ==
  ASSUME IndexInv, scan = "done", visit \in Nat, visit < NumEnt
  PROVE  /\ visit < NHdrs /\ visit < rec
         /\ file.recs[visit + 1] \in Packets
         /\ HdrAt(hdrs[visit]) = file.recs[visit + 1]
<1>1. /\ visit < NHdrs /\ visit < rec /\ rec \in 0 .. Len(file.recs) /\ Len(file.recs) \in Nat
      /\ file.recs \in Seq(Packets)
  <2>1. ret \in Nat \cup {-1} /\ NHdrs \in Nat
    BY IndexConstants DEF IndexInv, Idx!TypeOK
  <2>2. visit < ret /\ visit < NHdrs /\ ret # -1
    BY <2>1 DEF NumEnt
  <2>3. ret = rec
    BY <2>2 DEF IndexInv, Cursor
  <2>4. QED
    BY <2>2, <2>3, LenProperties DEF IndexInv, FileOK, Idx!TypeOK
<1>2. visit + 1 \in 1 .. Len(file.recs) /\ visit \in 0 .. Len(file.recs) - 1
  BY <1>1
<1>3. file.recs[visit + 1] \in Packets
  BY <1>1, <1>2, ElementOfSeq
<1>4. hdrs[visit] = Idx!Offset(file.recs, visit)
  BY <1>1, IndexConstants DEF IndexInv, Cursor
<1>5. ASSUME NEW n \in 0 .. Len(file.recs) - 1, Idx!Offset(file.recs, n) = hdrs[visit]
      PROVE  n = visit
  <2>1. \A m, l \in 0 .. Len(file.recs) : m < l /\ m < Len(file.recs) =>
          Idx!Offset(file.recs, m) < Idx!Offset(file.recs, l)
    <3> SUFFICES ASSUME NEW m \in 0 .. Len(file.recs), NEW l \in 0 .. Len(file.recs),
                        m < l, m < Len(file.recs)
                 PROVE  Idx!Offset(file.recs, m) < Idx!Offset(file.recs, l)
      OBVIOUS
    <3>1. file.recs[m + 1] \in Packets
      <4>1. m + 1 \in 1 .. Len(file.recs)
        BY <1>1
      <4>2. QED
        BY <1>1, <4>1, ElementOfSeq
    <3>2. /\ Idx!Offset(file.recs, m) + PktHdr + file.recs[m + 1].incl
               <= Idx!Offset(file.recs, l)
          /\ Idx!Offset(file.recs, m) \in Nat /\ Idx!Offset(file.recs, l) \in Nat
      BY <1>1, OffsetsGrow
    <3>3. PktHdr \in Nat /\ PktHdr > 0 /\ file.recs[m + 1].incl \in Nat
      BY <3>1, IndexConstants
    <3>4. QED
      BY <3>2, <3>3
  <2>2. n \in 0 .. Len(file.recs) /\ n < Len(file.recs) /\ visit \in 0 .. Len(file.recs)
        /\ visit < Len(file.recs)
    BY <1>1, <1>2
  <2>3. Idx!Offset(file.recs, n) \in Nat /\ Idx!Offset(file.recs, visit) \in Nat
    BY <1>1, <2>2, OffsetsGrow
  <2>4. ~(n < visit) /\ ~(visit < n)
    BY <1>4, <1>5, <2>1, <2>2, <2>3
  <2>5. QED
    BY <2>2, <2>4
<1>6. (CHOOSE n \in 0 .. Len(file.recs) - 1 : Idx!Offset(file.recs, n) = hdrs[visit]) = visit
  BY <1>2, <1>4, <1>5
<1>7. HdrAt(hdrs[visit]) = file.recs[1 + visit]
  BY <1>6 DEF HdrAt
<1>8. 1 + visit = visit + 1
  OBVIOUS
<1>9. QED
  BY <1>1, <1>3, <1>7, <1>8

(***************************************************************************)
(* The invariant of the function and its caller.                           *)
(***************************************************************************)
LEMMA LoadInvariant ==
  Spec => []LoadInv
<1>1. ASSUME Init PROVE LoadInv
  <2>1. IndexInv
    BY <1>1, IndexStart DEF Init
  <2>2. ParserInv
    <3>1. /\ Prs!Blank \in Metadata /\ Prs!Blank.proto = {}
          /\ Prs!Blank.vlan = OffMod - 1 /\ Prs!Blank.l3 = OffMod - 1
          /\ Prs!Blank.l4 = OffMod - 1 /\ Prs!Blank.payload = OffMod - 1
      BY ParserConstants DEF Prs!Blank, Prs!Unset, Metadata
    <3>2. ParserTypes
      BY <1>1, <3>1, ParserConstants
      DEF Init, Prs!Init, ParserTypes, Prs!TypeOK, Prs!EtherTypes, Prs!Protos
    <3>3. Prs!InOrder
      BY <1>1, <3>1 DEF Init, Prs!Init, Prs!InOrder, Prs!Set, Prs!Unset
    <3>4. QED
      BY <1>1, <3>2, <3>3 DEF Init, Prs!Init, ParserInv, ParserReads, ParserOrder, Walk
  <2>3. Link
    BY <1>1, IndexConstants DEF Init, Prs!Init, Link
  <2>4. QED
    BY <2>1, <2>2, <2>3 DEF LoadInv
<1>2. ASSUME LoadInv, [Next]_vars PROVE LoadInv'
  <2>1. IndexInv'
    <3>1. IndexStep
      BY <1>2 DEF IndexStep, Next, Load, Work, Others, Stopped, Leave, Visit, vars
    <3>2. QED
      BY <1>2, <3>1, IndexKept DEF LoadInv
  <2>2. NHdrs \in Nat /\ visit \in Nat /\ rec \in Nat
    BY <1>2, IndexConstants DEF LoadInv, Link, IndexInv, Idx!TypeOK
  <2>3. CASE Leave
    <3>1. Prs!Enter(0, "idle") /\ visit' = 0 /\ at' = "idle"
      BY <2>3 DEF Leave, Prs!Leave, Prs!Enter
    <3>2. ParserInv'
      BY <3>1, ParserEntered
    <3>3. QED
      BY <2>1, <2>2, <3>1, <3>2 DEF LoadInv, Link
  <2>4. CASE Idx!Scan /\ UNCHANGED <<parser, visit>>
    <3>1. at = "idle" /\ at' = "idle" /\ visit' = visit
      BY <1>2, <2>4 DEF LoadInv, Link, parser, Idx!Scan, Idx!Reject, Idx!Accept, Idx!TakePacket,
                        Idx!StopAtZero, Idx!StopAtBad, Idx!EndOfFile
    <3>2. ParserInv'
      BY <1>2, <2>4, ParserStutters DEF LoadInv
    <3>3. QED
      BY <1>2, <2>1, <3>1, <3>2 DEF LoadInv, Link
  <2>5. CASE MapFile /\ UNCHANGED <<parser, visit>>
    <3>1. at = "idle" /\ at' = "idle" /\ visit' = visit
      BY <1>2, <2>5 DEF LoadInv, Link, parser, MapFile, Idx!Call
    <3>2. ParserInv'
      BY <1>2, <2>5, ParserStutters DEF LoadInv
    <3>3. QED
      BY <1>2, <2>1, <3>1, <3>2 DEF LoadInv, Link
  <2>6. CASE Visit /\ UNCHANGED index
    <3> DEFINE p == file.recs[visit + 1]
    <3>1. /\ scan = "done" /\ visit < NumEnt /\ visit' = visit + 1
          /\ Prs!Enter(UpperBound(HdrAt(hdrs[visit])), "eth")
          /\ file' = file /\ scan' = scan /\ rec' = rec
      BY <2>6 DEF Visit, Prs!Call, index
    <3>2. p \in Packets /\ HdrAt(hdrs[visit]) = p /\ visit < NHdrs /\ visit < rec
      BY <1>2, <2>2, <3>1, HeaderFound DEF LoadInv
    <3>3. UpperBound(p) \in Nat
      BY <3>2, ParserConstants
    <3>4. ParserInv'
      BY <3>1, <3>2, <3>3, ParserEntered
    <3>5. Link'
      BY <2>2, <3>1, <3>2 DEF Link, Prs!Enter, UpperBound
    <3>6. QED
      BY <2>1, <3>4, <3>5 DEF LoadInv
  <2>7. CASE Prs!Step /\ UNCHANGED <<index, visit>>
    <3>1. ParserInv'
      BY <1>2, <2>7, ParserStepKept DEF LoadInv
    <3>2. Link'
      BY <1>2, <2>7, ParserBusy DEF LoadInv, Link, index, UpperBound
    <3>3. QED
      BY <2>1, <3>1, <3>2 DEF LoadInv
  <2>8. CASE UNCHANGED <<index, parser, visit>>
    <3>1. ParserInv'
      BY <1>2, <2>8, ParserStutters DEF LoadInv
    <3>2. Link'
      BY <1>2, <2>8 DEF LoadInv, Link, parser, index, UpperBound
    <3>3. QED
      BY <2>1, <3>1, <3>2 DEF LoadInv
  <2>9. QED
    BY <1>2, <2>3, <2>4, <2>5, <2>6, <2>7, <2>8
    DEF Next, Load, Work, Others, Stopped, vars
<1>3. QED
  BY <1>1, <1>2, PTL DEF Spec

(***************************************************************************)
(* TypeOK, of the driver, the scan and the parser.                         *)
(***************************************************************************)
THEOREM TypeCorrect ==
  Spec => []TypeOK
<1>1. DriverInv /\ LoadInv => TypeOK
  BY DEF DriverInv, Driven, LoadInv, IndexInv, ParserInv, ParserTypes, Link, TypeOK
<1>2. QED
  BY <1>1, DriverInvariant, LoadInvariant, PTL

(***************************************************************************)
(* ReadsInside: whatever the file holds and wherever it is cut off, the    *)
(* parser stays inside the packet, of a length up to where unsigned sums   *)
(* wrap around, and the packet inside the file.                            *)
(***************************************************************************)
THEOREM ParserReadsInside ==
  Spec => []ReadsInside
<1>1. ASSUME LoadInv, at # "idle", Prs!InReach(IntMod)
      PROVE  hdrs[visit - 1] + PktHdr + read <= file.len
  <2>1. /\ visit \in 1 .. NHdrs /\ visit <= rec /\ upper = UpperBound(file.recs[visit])
        /\ read \in Nat /\ read <= upper /\ count = rec /\ rec \in 0 .. Len(file.recs)
        /\ file.recs \in Seq(Packets) /\ Len(file.recs) \in Nat /\ file.len \in Nat
    BY <1>1, LenProperties
    DEF LoadInv, IndexInv, FileOK, Cursor, Link, Idx!TypeOK, ParserInv, ParserTypes, ParserReads,
        Prs!TypeOK
  <2>2. visit - 1 \in 0 .. NHdrs - 1 /\ visit - 1 \in 0 .. rec - 1 /\ visit \in 1 .. Len(file.recs)
        /\ visit - 1 < count
    BY <2>1, IndexConstants
  <2>3. hdrs[visit - 1] = Idx!Offset(file.recs, visit - 1) /\ Idx!Sound(visit - 1)
    BY <1>1, <2>2 DEF LoadInv, IndexInv, Cursor
  <2>4. /\ file.recs[visit] \in Packets
        /\ Idx!Offset(file.recs, visit - 1) + PktHdr + file.recs[visit].incl <= file.len
    <3>1. (visit - 1) + 1 = visit
      BY <2>2
    <3>2. QED
      BY <2>1, <2>2, <2>3, <3>1, ElementOfSeq DEF Idx!Sound
  <2>5. upper <= file.recs[visit].incl /\ file.recs[visit].incl \in Nat
    <3>1. file.recs[visit].incl \in Nat /\ file.recs[visit].orig \in Nat
      BY <2>4, IndexConstants
    <3>2. upper = IF file.recs[visit].incl < file.recs[visit].orig
                  THEN file.recs[visit].incl ELSE file.recs[visit].orig
      BY <2>1 DEF UpperBound
    <3>3. QED
      BY <3>1, <3>2
  <2>6. Idx!Offset(file.recs, visit - 1) \in Nat
    BY <2>1, <2>2, OffsetsGrow
  <2>7. upper \in Nat
    BY <1>1, ParserState DEF LoadInv, ParserInv
  <2>8. hdrs[visit - 1] + PktHdr + file.recs[visit].incl <= file.len /\ hdrs[visit - 1] \in Nat
    BY <2>3, <2>4, <2>6
  <2>9. read <= file.recs[visit].incl /\ read \in Nat /\ PktHdr \in Nat /\ file.len \in Nat
    <3>1. read \in Nat /\ read <= upper /\ file.len \in Nat
      BY <2>1
    <3>2. PktHdr \in Nat
      BY IndexConstants
    <3>3. read <= file.recs[visit].incl
      BY <2>5, <2>7, <3>1
    <3>4. QED
      BY <3>1, <3>2, <3>3
  <2>10. QED
    <3> DEFINE h == hdrs[visit - 1]
               c == file.recs[visit].incl
    <3>1. h \in Nat /\ c \in Nat /\ h + PktHdr + c <= file.len /\ read <= c
      BY <2>5, <2>8, <2>9
    <3> HIDE DEF h, c
    <3>2. h + PktHdr + read <= file.len
      BY <2>9, <3>1
    <3>3. QED
      BY <3>2 DEF h
<1>2. LoadInv => ReadsInside
  BY <1>1 DEF LoadInv, ParserInv, ParserReads, ReadsInside, Prs!ReadsInside
<1>3. QED
  BY <1>2, LoadInvariant, PTL

(***************************************************************************)
(* OffsetsSound: of a packet that u16 offsets reach to its end, the layers *)
(* in the metadata are in order, and a TCP or UDP header lies inside.      *)
(***************************************************************************)
THEOREM LayersInOrder ==
  Spec => []OffsetsSound
<1>1. LoadInv => OffsetsSound
  BY DEF LoadInv, ParserInv, ParserOrder, OffsetsSound, Prs!OffsetsSound
<1>2. QED
  BY <1>1, LoadInvariant, PTL
==============================================================================
