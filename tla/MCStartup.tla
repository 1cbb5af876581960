----------------------------- MODULE MCStartup ------------------------------
(***************************************************************************)
(* An instance of Startup: a rolling upgrade of two replicas that share a  *)
(* keystore.                                                               *)
(***************************************************************************)
EXTENDS Startup

Upgrade == [x \in Replicas |-> IF x = "x1" THEN 1 ELSE 2]

OneWithTSA == [x \in Replicas |-> {x = "x1"}]

Shared == [x \in Replicas |-> "d1"]
=============================================================================
