SPECIFICATION Spec
CONSTANTS
  Parts = {"boot", "kernel", "rootfs"}
  MaxLate = 1
  MaxFaults = 1
  MaxNoCrc = 1
  Powers = {"none", "poe", "rack"}
INVARIANTS
  CleanRestore
  LeftInOrder
PROPERTIES
  BootIsLast
  RestoreEnds
