----------------------------- MODULE MCPcapIndex -----------------------------
(***************************************************************************)
(* Instances of PcapIndex for TLC: header sizes in units of eight bytes.   *)
(***************************************************************************)
EXTENDS PcapIndex

CONSTANT Fracs        \* the values of ts_frac considered

\* Packets with and without payload, longer than the snap length of 2, all
\* zero, and with a fraction on either side of both limits.
MCPackets ==
  {[incl |-> n, orig |-> o, frac |-> f] :
      n \in {0, 1, 3}, o \in {0, 3}, f \in Fracs}
==============================================================================
