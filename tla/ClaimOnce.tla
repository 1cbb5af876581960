----------------------------- MODULE ClaimOnce ------------------------------
(***************************************************************************)
(* What TrustMate promises about one-shot tickets.  A ticket (an ACME      *)
(* order, an EAB token) is claimed at most once and for good, and a        *)
(* claimed ticket is made into at most one product (a certificate, an      *)
(* account).  A claim may stay without a product for ever: the code        *)
(* prefers a stuck ticket to a second product.                             *)
(***************************************************************************)
CONSTANTS Tickets, Products

VARIABLES
  claimed,  \* the tickets that were claimed
  made      \* the products made from each ticket

Init ==
  /\ claimed = {}
  /\ made = [t \in Tickets |-> {}]

Claim(t) ==
  /\ t \notin claimed
  /\ claimed' = claimed \cup {t}
  /\ UNCHANGED made

Make(t, p) ==
  /\ t \in claimed
  /\ made[t] = {}
  /\ \A u \in Tickets : p \notin made[u]
  /\ made' = [made EXCEPT ![t] = {p}]
  /\ UNCHANGED claimed

Next == \E t \in Tickets : Claim(t) \/ \E p \in Products : Make(t, p)

Spec == Init /\ [][Next]_<<claimed, made>>
=============================================================================
