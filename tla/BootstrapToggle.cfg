\* One replica, nothing fails, the TSA is switched between starts.
SPECIFICATION Spec
\* Processes end, and are started again only as often as the bound allows.
CHECK_DEADLOCK FALSE
CONSTANTS
  Replicas = {"x1"}
  Keystores = {"d1"}
  Keystore <- Single
  Replaces = TRUE
  TSAFlags <- Toggled
  Issuable = {}
  None = None
  MaxStarts = 2
  MaxExits = 0
  MaxLost = 0
INVARIANTS
  TSABootstrapped
