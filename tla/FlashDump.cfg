SPECIFICATION Spec
CONSTANTS
  Uis = {"cli", "tui"}
  Size = 5
  Block = 3
  MaxRetries = 2
  MaxRuns = 2
  MaxKeys = 1
  MaxFaults = 2
INVARIANTS
  TypeOK
  FileIsFlash
PROPERTY DumpEnds
