\* Two replicas reload two profiles, a store call fails.
SPECIFICATION Spec
\* The versions are bounded.
CHECK_DEADLOCK FALSE
SYMMETRY Symmetry
CONSTANTS
  Workers = {"w1", "w2"}
  Replicas = {"r1", "r2"}
  Home <- TwoHomes
  Names = {p, q}
  Contents = {c1, c2}
  None = None
  MaxEdits = 1
  MaxVersion = 3
  MaxFaults = 1
INVARIANTS
  OneSnapshot
  VersionsStored
  MemoryExact
  IssuedTraceable
