SPECIFICATION Spec
CONSTANTS
  Sectors = 2
  InitialFlashes <- MCFlashes
  Blocks = 3
  Chunks = 2
  Window = 2
  Transports = {"port", "rack", "tcp"}
  MaxSessions = 2
  MaxFaults = 1
  MaxLate = 1
INVARIANTS
  TypeOK
  ReadyMeansIdle
  SuccessIsTrue
  ScanIsRight
PROPERTIES
  RebootsIntoImage
  FoundAgain
  CommandsEnd
