\* NAND: a sector is larger than soft_rx, and one image longer than what a
\* 16-bit sequence number can count.
SPECIFICATION FairSpec
CONSTANTS
  FlashSectors = 4
  SectorPages = 3
  Base = 1
  Geometries <- MCTwoSectors
  Tails = {FALSE}
  RxCap = 1
  SeqMax = 4
  MaxLoss = 1
  MaxReplyLoss = 1
  MaxFaults = 1
  MaxStalls = 1
  MaxReady = 1
INVARIANTS
  FlashedImage
