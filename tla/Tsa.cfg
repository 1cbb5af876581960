\* Two rotations and two time-stamp requests at a time, a client that asks
\* for a certificate under profile tsa, a failed call, a restart and a clock
\* set back (any two of these four).
SPECIFICATION Spec
\* A process that cannot load its identity stays down.
CHECK_DEADLOCK FALSE
SYMMETRY Symmetry
CONSTANTS
  Workers = {w1, w2}
  Stampers = {s1, s2}
  Clients = {c1}
  Identities = {i0, i1, i2}
  First = i0
  Refs = {k1, k2}
  FirstRef = tsa
  None = None
  FaultPoints <- AnyCall
  MaxFaults = 1
  MaxTime = 2
  MaxBack = 1
  MaxTokens = 2
  MaxBoots = 1
  MaxEvents = 2
INVARIANTS
  GenTimesIncrease
  DriftBounded
  SignerStored
  RestartSafe
