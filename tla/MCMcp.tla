------------------------------- MODULE MCMcp --------------------------------
(***************************************************************************)
(* An instance of Mcp: the servers are alike.                              *)
(***************************************************************************)
EXTENDS Mcp, TLC

Symmetry == Permutations(Servers)
=============================================================================
