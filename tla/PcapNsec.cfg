SPECIFICATION Spec
CONSTANTS
  FileHdr = 3
  PktHdr = 2
  NHdrs = 1
  MaxRecs = 1
  MaxCut = 3
  Fracs = {999999, 1000000}
  Snaps = {0, 2}
  Packets <- MCPackets
INVARIANTS
  ReturnsNumberOfPackets
