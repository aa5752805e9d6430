------------------------------ MODULE PcapIndex ------------------------------
(***************************************************************************)
(* get_pcap_pkt_hdrs() of perf_jig/packet_ops.c: one pass over a pcap file *)
(* in memory that counts its packets and fills hdrs[] with pointers to     *)
(* their headers.  Module PcapLoad has its caller.                         *)
(*                                                                         *)
(* A file is its header fields, the sequence of its packet records and its *)
(* length in bytes, which may cut the last records short.  A pointer is an *)
(* offset into the file.                                                   *)
(***************************************************************************)
EXTENDS Integers, Sequences

CONSTANTS FileHdr,    \* sizeof(pcap_file_hdr_t), 24 in the code
          PktHdr,     \* sizeof(pcap_pkt_hdr_t), 16 in the code
          NHdrs,      \* entries of hdrs[]; 0 stands for hdrs == NULL too
          MaxRecs,    \* most packet records in a file (bounds the model)
          MaxCut,     \* most bytes missing at the end of one (bounds the model)
          Packets,    \* the packet headers considered
          Snaps       \* the values of snaplen considered

\* What a module that uses this one assumes of the constants.
ParametersOK == /\ FileHdr \in Nat \ {0} /\ PktHdr \in Nat \ {0}
                /\ NHdrs \in Nat /\ MaxRecs \in Nat /\ MaxCut \in Nat
                /\ Packets \subseteq [incl : Nat, orig : Nat, frac : Nat]
                /\ Snaps \subseteq Nat

Magics == {"usec", "nsec", "other"}

VARIABLES file,   \* the file: magic, fmtOk, snap, recs, len
          pc,     \* "idle", "check", "scan", "done"
          trav,   \* offset of the next packet header
          left,   \* bytes from trav to the end of the file
          count,  \* packets accepted so far
          hdrs,   \* hdrs[k]: offset of a packet header, or Unset
          ret,    \* the return value once done
          rec     \* history: how many records trav has moved past

vars == <<file, pc, trav, left, count, hdrs, ret, rec>>

Unset == -1

\* Where record n (from 0) starts, by the lengths of those before it.
Offset(recs, n) ==
  LET off[k \in 0 .. n] == IF k = 0 THEN FileHdr
                           ELSE off[k - 1] + PktHdr + recs[k].incl
  IN  off[n]

NoFile == [magic |-> "other", fmtOk |-> FALSE, snap |-> 0, recs |-> <<>>, len |-> 0]

\* Any header in front of any records, cut short.
Files == UNION {[magic : Magics, fmtOk : BOOLEAN, snap : Snaps, recs : {rs},
                 len : {Offset(rs, Len(rs)) - c : c \in 0 .. MaxCut} \cap Nat] :
                   rs \in UNION {[1 .. n -> Packets] : n \in 0 .. MaxRecs}}

Init == /\ file = NoFile
        /\ pc = "idle"
        /\ trav = 0
        /\ left = 0
        /\ count = 0
        /\ hdrs = [k \in 0 .. NHdrs - 1 |-> Unset]
        /\ ret = Unset
        /\ rec = 0

\* The locals of a call with file f.
Enter(f, stage) ==
  /\ file' = f
  /\ pc' = stage
  /\ trav' = 0
  /\ left' = f.len
  /\ count' = 0
  /\ hdrs' = [k \in 0 .. NHdrs - 1 |-> Unset]
  /\ ret' = Unset
  /\ rec' = 0

Call(f) == pc = "idle" /\ Enter(f, "check")

\* The caller is done with the result.
Leave == Enter(NoFile, "idle")

\* The early returns: too short, unknown magic, wrong version or network.
Reject ==
  /\ pc = "check"
  /\ \/ file.len < FileHdr + PktHdr
     \/ file.magic = "other"
     \/ ~file.fmtOk
  /\ pc' = "done"
  /\ ret' = -1
  /\ UNCHANGED <<file, trav, left, count, hdrs, rec>>

Accept ==
  /\ pc = "check"
  /\ file.len >= FileHdr + PktHdr
  /\ file.magic # "other"
  /\ file.fmtOk
  /\ pc' = "scan"
  /\ trav' = trav + FileHdr
  /\ left' = left - FileHdr
  /\ UNCHANGED <<file, count, hdrs, ret, rec>>

\* packet_ops.c:433
MaxFrac == IF file.magic # "nsec" THEN 999999999 ELSE 999999

Hdr == file.recs[rec + 1]

\* Mutants of the next definition.
Noted_Payload == IF count < NHdrs THEN [hdrs EXCEPT ![count] = trav + PktHdr] ELSE hdrs

\* hdrs[] after the header at trav has been noted, if there is room.
Noted == IF count < NHdrs THEN [hdrs EXCEPT ![count] = trav] ELSE hdrs

AllZero == Hdr.incl = 0 /\ Hdr.orig = 0

\* Mutants of the next definition.
Refused_HeaderNotCounted == \/ file.snap # 0 /\ Hdr.incl > file.snap
                            \/ Hdr.incl > left
                            \/ Hdr.frac > MaxFrac
Refused_NoSnap == Hdr.incl > left - PktHdr \/ Hdr.frac > MaxFrac

\* The header makes no sense; its own bytes are not part of what is left.
Refused == \/ file.snap # 0 /\ Hdr.incl > file.snap
           \/ Hdr.incl > left - PktHdr
           \/ Hdr.frac > MaxFrac

\* One iteration that counts the packet.
TakePacket ==
  /\ pc = "scan"
  /\ left >= PktHdr
  /\ hdrs' = Noted
  /\ ~AllZero /\ ~Refused
  /\ count' = count + 1
  /\ trav' = trav + PktHdr + Hdr.incl
  /\ left' = left - PktHdr - Hdr.incl
  /\ rec' = rec + 1
  /\ UNCHANGED <<file, pc, ret>>

\* The break on an all-zero header, before trav has moved.
StopAtZero ==
  /\ pc = "scan"
  /\ left >= PktHdr
  /\ hdrs' = Noted
  /\ AllZero
  /\ pc' = "done"
  /\ ret' = count
  /\ UNCHANGED <<file, trav, left, count, rec>>

\* The break on a header that makes no sense, after trav has moved.
StopAtBad ==
  /\ pc = "scan"
  /\ left >= PktHdr
  /\ hdrs' = Noted
  /\ ~AllZero /\ Refused
  /\ trav' = trav + PktHdr
  /\ left' = left - PktHdr
  /\ pc' = "done"
  /\ ret' = count
  /\ UNCHANGED <<file, count, rec>>

EndOfFile ==
  /\ pc = "scan"
  /\ left < PktHdr
  /\ pc' = "done"
  /\ ret' = count
  /\ UNCHANGED <<file, trav, left, count, hdrs, rec>>

Returned == pc = "done" /\ UNCHANGED vars

\* One step of a call.
Scan == Reject \/ Accept \/ TakePacket \/ StopAtZero \/ StopAtBad \/ EndOfFile

Next == Scan \/ (\E f \in Files : Call(f)) \/ Returned

Spec == Init /\ [][Next]_vars

------------------------------------------------------------------------------
(* A file read without a cursor                                             *)

\* Record n is whole, inside the file and not refused by its fields.
Sound(n) ==
  LET r == file.recs[n + 1]
  IN  /\ Offset(file.recs, n) + PktHdr + r.incl <= file.len
      /\ r.incl > 0 \/ r.orig > 0
      /\ file.snap = 0 \/ r.incl <= file.snap
      /\ r.frac <= MaxFrac

\* The entries of hdrs[] the caller visits (packet_ops.c:501-507).
Visited == 0 .. (IF ret < NHdrs THEN ret ELSE NHdrs) - 1

------------------------------------------------------------------------------
(* Properties                                                               *)

TypeOK == /\ pc \in {"idle", "check", "scan", "done"}
          /\ trav \in 0 .. file.len
          /\ left \in 0 .. file.len
          /\ trav + left = file.len
          /\ count \in Nat
          /\ hdrs \in [0 .. NHdrs - 1 -> 0 .. file.len \cup {Unset}]
          /\ ret \in Nat \cup {-1}
          /\ rec \in 0 .. Len(file.recs)

\* The answer is the length of the longest run of sound records from the
\* start: no packet is skipped, counted twice or taken from rubbish, whatever
\* record the file is cut at.
CountsSoundPrefix ==
  pc = "done" /\ ret # -1 =>
    /\ \A n \in 0 .. ret - 1 : Sound(n)
    /\ ret < Len(file.recs) => ~Sound(ret)

\* Every packet the caller visits is one of those counted, in file order,
\* though a refused record leaves its pointer in the array as well.
CallerSeesSoundPackets ==
  pc = "done" => \A k \in Visited : hdrs[k] = Offset(file.recs, k) /\ Sound(k)

\* "the function returns the number of packets in the pcap file"
\* (packet_ops.c:414-415) for a well-formed file: a known magic, records all
\* there, captured no longer than snaplen, fractions in the unit the magic
\* announces ("0xa1b2c3d4 for usec res., 0xa1b23c4d for nsec res",
\* packet_ops.c:18).
UnitMax == IF file.magic = "usec" THEN 999999 ELSE 999999999
WellFormed ==
  /\ file.magic # "other" /\ file.fmtOk /\ file.len >= FileHdr + PktHdr
  /\ file.len = Offset(file.recs, Len(file.recs))
  /\ \A n \in 1 .. Len(file.recs) :
       LET r == file.recs[n]
       IN  /\ r.orig > 0
           /\ file.snap = 0 \/ r.incl <= file.snap
           /\ r.frac <= UnitMax
ReturnsNumberOfPackets ==
  pc = "done" /\ WellFormed => ret = Len(file.recs)
==============================================================================
