------------------------------- MODULE MCTsa --------------------------------
(***************************************************************************)
(* Instances of Tsa.  Requests, the references FreshRef draws and the      *)
(* identities not minted yet are alike.                                    *)
(***************************************************************************)
EXTENDS Tsa, TLC

AnyCall == {"generate", "create", "audit"}

Symmetry ==
  Permutations(Workers) \cup Permutations(Stampers) \cup Permutations(Refs)
    \cup Permutations(Identities \ {First})
=============================================================================
