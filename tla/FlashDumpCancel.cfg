SPECIFICATION Spec
CONSTANTS
  Uis = {"tui"}
  Size = 5
  Block = 3
  MaxRetries = 2
  MaxRuns = 2
  MaxKeys = 2
  MaxFaults = 0
PROPERTY CancelStops
