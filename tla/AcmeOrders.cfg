\* Two requests at a time over one order, with up to two faults anywhere.
SPECIFICATION Spec
SYMMETRY Symmetry
CONSTANTS
  Workers = {w1, w2}
  Accounts <- MCAccounts
  RoleOf <- MCRoleOf
  Orders = {o1}
  Serials = {s1, s2}
  Names = {"n1", "n2"}
  None = None
  FaultPoints <- AnyFault
  MaxFaults = 2
  MaxNonces = 4
  NonceTTL = 1
  MaxTime = 0
INVARIANTS
  SingleIssuance
  ValidOrderBacked
  CertFromOrder
  ReplyTruthful
PROPERTIES
  OrderForward
  ImplementsClaimOnce
