SPECIFICATION FairSpec
CONSTANTS
  FlashSectors = 4
  SectorPages = 2
  Base = 1
  Geometries <- MCGeometries
  Tails = {FALSE}
  RxCap = 2
  SeqMax = 5
  MaxLoss = 2
  MaxReplyLoss = 1
  MaxFaults = 1
  MaxStalls = 1
  MaxReady = 1
INVARIANTS
  FlashedImage
  UntouchedUntilReceived
  SoftRxNeverOverflows
  CleanLinkSucceeds
  PendingHoldsItsSector
PROPERTY StreamReturns
