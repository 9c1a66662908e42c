SPECIFICATION FairSpec
CONSTANTS
  Protocols = {"blast", "std", "v500", "cv6xx"}
  Controllers = {"none", "sync", "async"}
  MaxAttempts = 3
  MaxUserCycles = 2
INVARIANTS
  HeardAfterReset
  SuccessIsOneBoot
  NoOrphanHandshake
PROPERTY RunReturns
