----------------------------- MODULE MCProfiles -----------------------------
(***************************************************************************)
(* Instances of Profiles: requests on one or on two replicas.  Names are   *)
(* alike, and so are contents.                                             *)
(***************************************************************************)
EXTENDS Profiles, TLC

TwoHomes == [w \in {"w1", "w2"} |-> IF w = "w1" THEN "r1" ELSE "r2"]

OneHome == [w \in {"w1"} |-> "r1"]

Symmetry == Permutations(Names) \cup Permutations(Contents)
=============================================================================
