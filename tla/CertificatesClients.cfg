\* Clients are onboarded, certificates issued and revoked; anything may fail.
SPECIFICATION Spec
SYMMETRY Symmetry
CONSTANTS
  Workers = {w1, w2}
  Replicas = {r1}
  Serials = {"admin", "manager", "new"}
  Admin = "admin"
  Manager = "manager"
  Clients = {"admin", "manager", "new"}
  Anchor = "intermediate"
  Routes = {"revoke", "client", "leaf"}
  Reasons = {"keyCompromise"}
  CRLValidity = 1
  None = None
  FaultPoints <- AnyFault
  MaxFaults = 1
  MaxTime = 0
INVARIANTS
  NoEscalation
  NoLateAuthorization
  RevokeDecidedOnce
