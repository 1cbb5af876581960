\* Two servers and a CLI share a directory and a name: three calls, two faults.
SPECIFICATION Spec
CHECK_DEADLOCK FALSE
SYMMETRY Symmetry
CONSTANTS
  Servers = {x1, x2}
  Names = {"n"}
  None = None
  MaxCalls = 3
  MaxFaults = 2
INVARIANTS
  FilesSound
  SerialTold
  SavesFree
