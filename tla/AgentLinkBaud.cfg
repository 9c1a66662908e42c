SPECIFICATION Spec
CONSTANTS
  Sectors = 2
  InitialFlashes <- MCFlashes
  Blocks = 2
  Chunks = 2
  Window = 2
  Transports = {"port", "rack", "tcp"}
  MaxSessions = 1
  MaxFaults = 0
  MaxLate = 0
PROPERTY
  AbortsCleanly
