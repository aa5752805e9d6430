---------------------------- MODULE MCPacketParse ----------------------------
(***************************************************************************)
(* An instance of PacketParse for TLC, in bytes.                           *)
(***************************************************************************)
EXTENDS PacketParse

\* Around the ends of the headers of the shortest packets, and a long one.
MCBounds == {0, 13, 14, 18, 34, 54, 62, 90}
==============================================================================
