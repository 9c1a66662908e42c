SPECIFICATION FairSpec
CONSTANTS
  Styles = {"blast", "plain", "strict", "nak"}
  Lengths = {1, 5}
  SeqMod = 4
  ShortTries = 2
  DataTries = 3
  MaxNak = 2
  MaxBlasts = 3
  MaxLost = 2
  MaxBad = 2
  MaxLate = 2
INVARIANTS
  Delivered
  StoredInOrder
  RetriesSuffice
PROPERTY UploadEnds
