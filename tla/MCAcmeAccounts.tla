--------------------------- MODULE MCAcmeAccounts ---------------------------
(***************************************************************************)
(* An instance of AcmeAccounts: its sets are of things that are alike, but *)
(* for the keys, one of which is on P-256 and one RSA.                     *)
(***************************************************************************)
EXTENDS AcmeAccounts, TLC

Symmetry ==
  Permutations(Workers) \cup Permutations(Tokens) \cup Permutations(Ids)
=============================================================================
