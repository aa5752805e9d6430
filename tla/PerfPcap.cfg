SPECIFICATION Spec
CONSTANTS
  NArgs = 4
  CmdLines <- MCCmdLines
  FileHdr = 12
  PktHdr = 4
  NHdrs = 2
  MaxRecs = 3
  MaxCut = 5
  Packets <- MCPackets
  Snaps = {0, 30}
  Unit = 2
  IntMod = 7600
  OffMod = 76
  MaxTags = 2
  Ihls = {0, 6}
  Doffs = {0, 6}
  OptLens = {0, 2}
INVARIANTS
  TypeOK
  CountsSoundPrefix
  CallerSeesSoundPackets
  ReadsInside
  OffsetsSound
  SegmentsReleased
  CommandsInOrder
PROPERTIES
  Returns
