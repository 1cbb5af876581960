\* Two requests at a time over two orders, a role assignment
\* may fail; a clock, fair scheduling.
SPECIFICATION FairSpec
CONSTANTS
  Workers = {w1, w2}
  Accounts = {"alice"}
  RoleOf <- MCSoleRole
  Orders = {o1, o2}
  Serials = {s1, s2}
  Names = {"n1"}
  None = None
  FaultPoints = {"assign"}
  MaxFaults = 1
  MaxNonces = 4
  NonceTTL = 1
  MaxTime = 1
INVARIANTS
  NoIdleCert
  NonceSingleUse
PROPERTIES
  ClaimsComplete
