---------------------------- MODULE MCAcmeOrders ----------------------------
(***************************************************************************)
(* Instances of AcmeOrders: two accounts with different roles.             *)
(***************************************************************************)
EXTENDS AcmeOrders, TLC

MCAccounts == {"alice", "bob"}

MCRoleOf == [a \in MCAccounts |-> IF a = "alice" THEN "admin" ELSE "manager"]

MCSoleRole == [a \in {"alice"} |-> "manager"]

AnyFault == Points \cup {"crash"}

Symmetry ==
  Permutations(Workers) \cup Permutations(Orders) \cup Permutations(Serials)
=============================================================================
