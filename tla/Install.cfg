SPECIFICATION Spec
CONSTANTS
  Parts = {"boot", "kernel", "rootfs"}
  MaxLate = 1
  MaxFaults = 2
  MaxNoCrc = 1
  Powers = {"none", "rack"}
INVARIANTS
  InstalledMeansFlashed
  MacIsItsOwn
  HostLeftAsFound
PROPERTIES
  StopsAtFirstFailure
  InstallEnds
