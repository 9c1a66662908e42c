\* An image whose length is not a multiple of four, and whose last page is 0xFF
\* but for the bytes behind its last whole word.
SPECIFICATION Spec
CONSTANTS
  FlashSectors = 4
  SectorPages = 2
  Base = 1
  Geometries <- MCOneSector
  Tails = {TRUE}
  RxCap = 2
  SeqMax = 5
  MaxLoss = 0
  MaxReplyLoss = 0
  MaxFaults = 0
  MaxStalls = 0
  MaxReady = 1
INVARIANT FlashedImage
