--------------------------- MODULE MCCertificates ---------------------------
(***************************************************************************)
(* Instances of Certificates.  Request slots are alike, and so are the     *)
(* replicas.                                                               *)
(***************************************************************************)
EXTENDS Certificates, TLC

AnyFault == Points \cup {"crash"}

Symmetry == Permutations(Workers) \cup Permutations(Replicas)
=============================================================================
