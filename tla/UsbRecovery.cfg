SPECIFICATION Spec
CONSTANTS
  Boards = {a, b}
  NoBoard = NoBoard
  Sectors = 3
  MaxSectors = 2
  Extents <- MCExtents
  ChunkSize = 4
  BlobSizes = {6, 7}
  DrainReads = 1
  Leftovers = {2}
  MaxSessions = 2
  MaxFaults = 1
INVARIANTS
  SameBoard
  DumpIsRight
  CleanedUp
  CleanSucceeds
PROPERTIES
  FreshLoader
  BackupFileSpec
