------------------------------ MODULE PcapLoad ------------------------------
(***************************************************************************)
(* perf_jig as a whole: main() and its benchmarks (module PerfJig), of     *)
(* which perf_test_pcap_load() of perf_jig/packet_ops.c is here in full.   *)
(* It maps a file, has it indexed (module PcapIndex), and hands the        *)
(* packets of the index one by one to the parser (module PacketParse).     *)
(***************************************************************************)
EXTENDS PerfJig

CONSTANTS FileHdr, PktHdr, NHdrs, MaxRecs, MaxCut, Packets, Snaps,  \* see PcapIndex
          Unit, IntMod, OffMod, MaxTags, Ihls, Doffs, OptLens       \* see PacketParse

VARIABLES file, scan, trav, left, count, hdrs, ret, rec,
          at, upper, next, et, l4, md, result, tags, read, turn,
          visit      \* i of the loop over the packets

index  == <<file, scan, trav, left, count, hdrs, ret, rec>>
parser == <<at, upper, next, et, l4, md, result, tags, read, turn>>
vars   == <<driver, index, parser, visit>>

\* incl_len or orig_len, whichever is less.
UpperBound(p) == IF p.incl < p.orig THEN p.incl ELSE p.orig

Idx == INSTANCE PcapIndex WITH pc <- scan
Prs == INSTANCE PacketParse WITH Bounds <- {UpperBound(p) : p \in Packets}

ASSUME ParametersAssumption == Idx!ParametersOK /\ Prs!ParametersOK

Init == DriverInit /\ Idx!Init /\ Prs!Init /\ visit = 0

\* Whole pages of the file are mapped, so that a packet can be cut off
\* anywhere, and nothing of a file shorter than a page.
MapFile == file' \in Idx!Files /\ file'.len > 0 /\ Idx!Call(file')

\* The number of packets there are pointers to.
NumEnt == IF ret < NHdrs THEN ret ELSE NHdrs

\* The packet header that starts at p.
HdrAt(p) == file.recs[1 + CHOOSE n \in 0 .. Len(file.recs) - 1 : Idx!Offset(file.recs, n) = p]

\* One iteration of the loop calls the parser.
Visit ==
  /\ scan = "done" /\ visit < NumEnt
  /\ visit' = visit + 1
  /\ Prs!Call(UpperBound(HdrAt(hdrs[visit])))

Loaded == scan = "done" /\ at \in {"idle", "done"} /\ visit >= NumEnt

\* The benchmark has both segments and works.
Work ==
  /\ bench = "pcap_load" /\ segs = 2
  /\ \/ Idx!Scan /\ UNCHANGED <<parser, visit>>
     \/ Visit /\ UNCHANGED index
     \/ Prs!Step /\ UNCHANGED <<index, visit>>
  /\ UNCHANGED driver

\* perf_test_pcap_load() returns.
Leave == Idx!Leave /\ Prs!Leave /\ visit' = 0

\* The calls of perf_test_pcap_load() that map and unmap.
Load ==
  /\ bench = "pcap_load"
  /\ \/ Refuse /\ UNCHANGED <<index, parser, visit>>
     \/ Map /\ (IF segs = 0 THEN MapFile ELSE UNCHANGED index) /\ UNCHANGED <<parser, visit>>
     \/ MapFails /\ Leave
     \/ Finish /\ Loaded /\ Leave

Others == bench # "pcap_load" /\ Bench /\ UNCHANGED <<index, parser, visit>>

Stopped == Exited /\ UNCHANGED <<index, parser, visit>>

Next == (Main /\ UNCHANGED <<index, parser, visit>>) \/ Load \/ Work \/ Others \/ Stopped

\* One thread, which runs until it exits.
Spec == Init /\ [][Next]_vars /\ WF_vars(Next)

------------------------------------------------------------------------------
(* Properties                                                               *)

\* Every variable of the program and of the two functions keeps its type, and
\* the cursor of the scan and the rest of the file stay one whole.
TypeOK == /\ DriverTypeOK
          /\ Idx!TypeOK
          /\ Prs!TypeOK
          /\ visit \in 0 .. NHdrs

\* PcapIndex: the scan counts the longest run of sound records.
CountsSoundPrefix == Idx!CountsSoundPrefix

\* PcapIndex: the packets between the scan and the parser are the counted ones,
\* in file order.
CallerSeesSoundPackets == Idx!CallerSeesSoundPackets

\* However the file is cut off and whatever its headers claim, the parser reads
\* inside the packet it was given, and so inside the mapped file: the scan
\* lets no packet through that the file does not hold.  Packets near 4 GiB are
\* left out (PacketParse).
ReadsInside ==
  /\ Prs!ReadsInside
  /\ at # "idle" /\ Prs!InReach(IntMod) => hdrs[visit - 1] + PktHdr + read <= file.len

\* PacketParse: in a packet that u16 offsets reach to its end, the layers in
\* the metadata are in order and inside the packet.
OffsetsSound == Prs!OffsetsSound

\* The program ends, whatever the files and packets hold: each iteration of the
\* scan, of the loop over VLAN tags and of the one over IPv6 options, of
\* length zero too, moves on, and each command line is left in the end.
Returns == <>(stage = "exit")
==============================================================================
