---------------------------- MODULE MCBootstrap -----------------------------
(***************************************************************************)
(* An instance of Bootstrap: the keystore of the only replica, and a TSA   *)
(* that is switched on and off.                                            *)
(***************************************************************************)
EXTENDS Bootstrap

Single == [x \in Replicas |-> "d1"]

Toggled == [x \in Replicas |-> BOOLEAN]
=============================================================================
