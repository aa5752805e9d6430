------------------------------ MODULE MCPcapLoad ------------------------------
(***************************************************************************)
(* An instance of PcapLoad for TLC, in units of two bytes, with packet     *)
(* headers of half their length, so that there are fewer places to cut one.*)
(***************************************************************************)
EXTENDS PcapLoad

\* A packet with room for a tag, options and a payload; one longer than it says
\* it is, and so long that the offsets, below OffMod = 76, do not reach the
\* place an option takes the walk to; one shorter than an Ethernet header; the
\* all-zero one.  Timestamps with a fraction on either side of both limits.
MCPackets ==
  {[incl |-> 33,  orig |-> 60,  frac |-> 999999],
   [incl |-> 71,  orig |-> 69,  frac |-> 1000000],
   [incl |-> 3,   orig |-> 7,   frac |-> 1000000000],
   [incl |-> 0,   orig |-> 0,   frac |-> 0]}

\* A file loaded after a run of the accounts table and before a load that names
\* no file; a benchmark with more parameters than there is room for; one
\* that does not exist; a parameter that is refused; no argument at all.
MCCmdLines ==
  {<<<<"accounts_table">>, <<"pcap_load", "file">>, <<"pcap_load">>>>,
   <<<<"clmul", "1", "2", "3", "4", "5">>, <<"nonesuch", "8", "8">>, <<"translate_bytes", "8">>,
     <<"schedule_batch">>, <<"accounts_table">>>>,
   <<<<"schedule_batch", "8", "2">>, <<"murmur3_notail">>, <<"translate_bytes", "1", Bad>>, <<"clmul">>>>,
   <<>>}
==============================================================================
