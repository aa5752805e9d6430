----------------------------- MODULE PacketParse -----------------------------
(***************************************************************************)
(* gen_pkt_metadata() of perf_jig/packet_ops.c: the headers of one packet  *)
(* are walked from the Ethernet header up, and the metadata says where     *)
(* each layer starts and which protocols there are.                        *)
(*                                                                         *)
(* A pointer into the packet is its distance from pkt, in units of Unit    *)
(* bytes.  What a header holds is anything: each field the walk depends on *)
(* is chosen when its header is read.  A step is one header.               *)
(***************************************************************************)
EXTENDS Integers

CONSTANTS Unit,      \* bytes per unit of length, 1 or 2
          IntMod,    \* values of an unsigned, 2^32 in the code
          OffMod,    \* values of a u16 offset, 2^16 in the code
          Bounds,    \* the upper bounds considered
          MaxTags,   \* most VLAN tags a packet has (bounds the model)
          Ihls,      \* the values of the ihl field considered, of 0 .. 15
          Doffs,     \* the values of the doff field considered, of 0 .. 15
          OptLens    \* the values of an option's length, of 0 .. 255

\* What a module that uses this one assumes of the constants.  The lengths in
\* a packet header are unsigned; nothing makes them fit a u16.
ParametersOK ==
  /\ Unit \in {1, 2}
  /\ OffMod \in Nat \ {0} /\ IntMod \in Nat /\ \E k \in 1 .. IntMod : IntMod = k * OffMod
  /\ Ihls \subseteq 0 .. 15 /\ Doffs \subseteq 0 .. 15
  /\ OptLens \subseteq 0 .. 255 /\ MaxTags \in Nat \ {0}
  /\ Bounds \subseteq 0 .. IntMod - 1

EtherTypes == {"cvlan", "svlan", "ip4", "ip6", "arp", "other"}
Protos     == {"tcp", "udp", "icmp", "option", "other"}

\* sizeof of the headers; one 32-bit word.
EthLen == 14 \div Unit
TagLen == 4 \div Unit
Ip4Len == 20 \div Unit
Ip6Len == 40 \div Unit
ArpLen == 28 \div Unit
OptLen == 8 \div Unit
TcpLen == 20 \div Unit
UdpLen == 8 \div Unit
Word   == 4 \div Unit

VARIABLES at,      \* "idle", the layer to look at next, or "done"
          upper,   \* upper_bound: the shorter of incl_len and orig_len
          next,    \* the next header
          et,      \* *et, the type of what follows
          l4,      \* l4_type
          md,      \* proto_flags and the four offsets
          result,  \* the return value once done
          tags,    \* how many VLAN tags there have been
          read,    \* history: the end of the bytes read so far
          turn     \* history: flips with every iteration of the option loop

vars == <<at, upper, next, et, l4, md, result, tags, read, turn>>

Unset == OffMod - 1
Blank == [proto |-> {}, vlan |-> Unset, l3 |-> Unset, l4 |-> Unset, payload |-> Unset]

Init == /\ at = "idle"
        /\ upper = 0
        /\ next = 0
        /\ et = "other"
        /\ l4 = "other"
        /\ md = Blank
        /\ result = 0
        /\ tags = 0
        /\ read = 0
        /\ turn = 0

(* ---- Helpers --------------------------------------------------------- *)

\* Mutants of the next definition.
OutOfBounds_Start(extent) == next % IntMod > upper

\* Unsigned arithmetic: a huge extent wraps around.
OutOfBounds(extent) == ((next % IntMod) + extent) % IntMod > upper

\* The distance of pointer p from pkt as a u16.
Offs(p) == p % OffMod

Return(r) == at' = "done" /\ result' = r

\* return -1 with whatever the metadata holds by now.
Fail == Return(-1) /\ UNCHANGED <<next, et, l4, md, tags>>

Reads(len) == read' = IF next + len > read THEN next + len ELSE read

(* ---- Layer 2 --------------------------------------------------------- *)

\* The locals of a call for a packet of that length.
Enter(bound, layer) ==
  /\ at' = layer
  /\ upper' = bound
  /\ next' = 0
  /\ et' = "other" /\ l4' = "other"
  /\ md' = Blank
  /\ result' = 0
  /\ tags' = 0
  /\ read' = 0
  /\ turn' = 0

Call(bound) == at \in {"idle", "done"} /\ Enter(bound, "eth")

\* The caller is done with the result.
Leave == Enter(0, "idle")

Eth ==
  /\ at = "eth"
  /\ IF OutOfBounds(EthLen) THEN Fail /\ UNCHANGED read
     ELSE /\ Reads(EthLen)
          /\ next' = EthLen
          /\ et' \in EtherTypes
          /\ at' = "l2"
          /\ UNCHANGED <<l4, md, result, tags>>

\* One iteration of the VLAN loop; q->tag is not looked at.
Tag ==
  /\ at = "l2" /\ et \in {"cvlan", "svlan"}
  /\ IF OutOfBounds(TagLen) THEN Fail /\ UNCHANGED read
     ELSE /\ Reads(TagLen)
          /\ md' = [md EXCEPT !.proto = @ \cup {et}, !.vlan = Offs(next)]
          /\ tags' = tags + 1
          /\ et' \in IF tags' < MaxTags THEN EtherTypes ELSE EtherTypes \ {"cvlan", "svlan"}
          /\ next' = next + TagLen
          /\ UNCHANGED <<at, l4, result>>

(* ---- Layer 3 --------------------------------------------------------- *)

\* The three ways out: too short, another version, options too long.
Ip4 ==
  /\ at = "l2" /\ et = "ip4"
  /\ IF OutOfBounds(Ip4Len) THEN Fail /\ UNCHANGED read
     ELSE /\ Reads(Ip4Len)
          /\ \/ Fail
             \/ \E ihl \in Ihls :
                  /\ md' = [md EXCEPT !.proto = @ \cup {"l3_ip4"}, !.l3 = Offs(next)]
                  /\ IF OutOfBounds(ihl * Word)
                     THEN Return(-1) /\ UNCHANGED <<next, l4>>
                     ELSE /\ next' = next + ihl * Word
                          /\ l4' \in Protos
                          /\ at' = "l4"
                          /\ result' = result
                  /\ UNCHANGED <<et, tags>>

\* The flag of an IPv6 packet is the one of version 4.
Ip6Flag == "l3_ip4"

Ip6 ==
  /\ at = "l2" /\ et = "ip6"
  /\ IF OutOfBounds(Ip6Len) THEN Fail /\ UNCHANGED read
     ELSE /\ Reads(Ip6Len)
          /\ \/ Fail
             \/ /\ md' = [md EXCEPT !.proto = @ \cup {Ip6Flag}, !.l3 = Offs(next)]
                /\ next' = next + Ip6Len
                /\ l4' \in Protos
                /\ at' = "options"
                /\ UNCHANGED <<et, result, tags>>

\* Mutants of the next definition.
Skip_DataOnly(optlen) == (8 * optlen) \div Unit

\* From one option to the next: its header and eight bytes per optlen.
Skip(optlen) == OptLen + ((8 * optlen) \div Unit)

\* One iteration of the option loop, which may jump past the end, or its end.
Option ==
  /\ at = "options"
  /\ IF ~OutOfBounds(OptLen) /\ l4 = "option"
     THEN /\ Reads(OptLen)
          /\ l4' \in Protos
          /\ \E optlen \in OptLens : next' = next + Skip(optlen)
          /\ at' = at
          /\ turn' = 1 - turn
     ELSE /\ at' = "l4"
          /\ turn' = 0 /\ UNCHANGED <<next, l4, read>>
  /\ UNCHANGED <<et, md, result, tags>>

Arp ==
  /\ at = "l2" /\ et = "arp"
  /\ IF OutOfBounds(ArpLen) THEN Fail /\ UNCHANGED read
     ELSE /\ Reads(ArpLen)
          /\ md' \in {[md EXCEPT !.l3 = Offs(next)],
                      [md EXCEPT !.l3 = Offs(next), !.proto = @ \cup {"l3_arp"}]}
          /\ IF "l3_arp" \in md'.proto
             THEN at' = "l4" /\ next' = next + ArpLen /\ result' = result
             ELSE Return(-1) /\ next' = next
          /\ UNCHANGED <<et, l4, tags>>

OtherL3 ==
  /\ at = "l2" /\ et = "other"
  /\ at' = "l4"
  /\ UNCHANGED <<next, et, l4, md, result, tags, read>>

(* ---- Layer 4 --------------------------------------------------------- *)

\* (doff * 4) - sizeof(tcp_hdr_t), unsigned.
TcpOptLen(doff) == (doff * Word - TcpLen) % IntMod

\* Mutants of the next definition.
TcpPayload_FromHeader(optlen) == next + optlen

\* tcp->next + opt_len
TcpPayload(optlen) == next + TcpLen + optlen

\* The options are checked as if they began where the header does.
Tcp ==
  /\ at = "l4" /\ l4 = "tcp"
  /\ IF OutOfBounds(TcpLen) THEN Fail /\ UNCHANGED read
     ELSE /\ Reads(TcpLen)
          /\ \E doff \in Doffs :
               LET opt_len == TcpOptLen(doff)
                   seen == [md EXCEPT !.l4 = Offs(next), !.proto = @ \cup {"l4_tcp"}]
               IN  IF OutOfBounds(opt_len)
                   THEN Return(-1) /\ md' = seen /\ next' = next
                   ELSE /\ Return(0)
                        /\ next' = TcpPayload(opt_len)
                        /\ md' = [seen EXCEPT !.payload = Offs(next')]
          /\ UNCHANGED <<et, l4, tags>>

Udp ==
  /\ at = "l4" /\ l4 = "udp"
  /\ IF OutOfBounds(UdpLen) THEN Fail /\ UNCHANGED read
     ELSE /\ Reads(UdpLen)
          /\ next' = next + UdpLen
          /\ md' = [md EXCEPT !.l4 = Offs(next), !.payload = Offs(next'),
                              !.proto = @ \cup {"l4_udp"}]
          /\ Return(0)
          /\ UNCHANGED <<et, l4, tags>>

\* ICMP is noted without a look at the bound or a flag, the rest not at all.
OtherL4 ==
  /\ at = "l4" /\ l4 \notin {"tcp", "udp"}
  /\ md' = IF l4 = "icmp" THEN [md EXCEPT !.l4 = Offs(next)] ELSE md
  /\ Return(0)
  /\ UNCHANGED <<next, et, l4, tags, read>>

\* One step of a call.
Step == /\ \/ Option
           \/ (Eth \/ Tag \/ Ip4 \/ Ip6 \/ Arp \/ OtherL3 \/ Tcp \/ Udp \/ OtherL4) /\ turn' = turn
        /\ upper' = upper

Next == Step \/ \E b \in Bounds : Call(b)

Spec == Init /\ [][Next]_vars

------------------------------------------------------------------------------
(* Properties                                                               *)

TypeOK ==
  /\ at \in {"idle", "eth", "l2", "options", "l4", "done"}
  /\ upper \in Nat /\ next \in Nat /\ read \in Nat /\ tags \in 0 .. MaxTags
  /\ et \in EtherTypes /\ l4 \in Protos
  /\ {md.vlan, md.l3, md.l4, md.payload} \subseteq 0 .. OffMod - 1
  /\ result \in {0, -1} /\ turn \in {0, 1}

\* The longest header, an IPv4 or TCP header with all its options.
MaxHdr == 15 * Word

\* The packet is so short that no pointer of the walk comes to m: not after
\* a jump of the longest option and with a header behind it.
InReach(m) == \A o \in OptLens \cup {0} : upper + Skip(o) + MaxHdr < m

\* Whatever the headers claim, no byte past the end of the packet is read: also
\* after an option that jumps past it, and after header lengths that are too
\* short or wrap around.  Of packets near 4 GiB, where the sum in
\* out_of_bounds() (packet_ops.c:222) wraps, nothing is said.
ReadsInside == InReach(IntMod) => read <= upper

Set(o) == o # Unset

\* The layers follow each other, and where one is noted there is something: a
\* TCP or UDP header lies inside the packet, and so does the payload, but that
\* the check of the TCP options (packet_ops.c:365) forgets the header in front
\* of them.
InOrder ==
  /\ Set(md.vlan) => md.vlan + TagLen <= upper
  /\ Set(md.vlan) /\ Set(md.l3) => md.vlan + TagLen <= md.l3
  /\ Set(md.l4) => Set(md.l3) /\ md.l3 <= md.l4
  /\ Set(md.payload) => Set(md.l4) /\ md.l4 <= md.payload
  /\ "l4_tcp" \in md.proto => md.l4 + TcpLen <= upper
  /\ "l4_udp" \in md.proto => md.l4 + UdpLen <= upper
  /\ Set(md.payload) => md.payload <= upper + (IF "l4_tcp" \in md.proto THEN TcpLen ELSE 0)

\* In a packet that the u16 offsets (packet_ops.c:151-154) can address to its
\* end the metadata, also what a failed call leaves, has the layers in order
\* and inside the packet.  Packets may be longer (packet_ops.c:459-460 asks for
\* the snapshot length and the file only): there the offsets wrap around, as
\* Offs does, and this says nothing of them.
OffsetsSound == InReach(OffMod) => InOrder

\* "#define MD_PROTO_L3_IP6 (2 << 8)" (packet_ops.c:132): the metadata of an IPv6
\* packet, which is part of the flow key, says so.
L3FlagTellsProtocol ==
  at = "done" /\ result = 0 /\ et = "ip6" => "l3_ip6" \in md.proto
==============================================================================
