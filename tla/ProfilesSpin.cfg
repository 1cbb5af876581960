\* One reload at a time, no faults.
SPECIFICATION Spec
CONSTANTS
  Workers = {"w1"}
  Replicas = {"r1"}
  Home <- OneHome
  Names = {"p"}
  Contents = {"c1", "c2"}
  None = None
  MaxEdits = 1
  MaxVersion = 4
  MaxFaults = 0
INVARIANTS
  NoVersionSpin
