\* Revocations and CRL fetches on two replicas with a clock; an audit
\* entry, a CRL's query or its signature fails, or a replica dies.
SPECIFICATION Spec
SYMMETRY Symmetry
CONSTANTS
  Workers = {w1, w2}
  Replicas = {r1, r2}
  Serials = {"admin", "manager"}
  Admin = "admin"
  Manager = "manager"
  Clients = {"admin"}
  Anchor = "intermediate"
  Routes = {"revoke", "crl"}
  Reasons = {"keyCompromise"}
  CRLValidity = 1
  None = None
  FaultPoints = {"auditRevoke", "find", "sign", "crash"}
  MaxFaults = 1
  MaxTime = 1
INVARIANTS
  AckedListed
  LockAccounted
  StalenessBounded
  CRLSound
