----------------------------- MODULE AcmeNonces -----------------------------
(***************************************************************************)
(* The replay-nonce table of the ACME endpoints and the wall clock it is   *)
(* read against (internal/store/sqlite/acme.go, internal/api/acme.go).     *)
(* Nonces are 24 random bytes, so they never repeat: the n-th nonce ever   *)
(* issued is the number n.  The table holds the rows that no request has   *)
(* consumed yet, expired rows included (the code never purges them).       *)
(***************************************************************************)
EXTENDS Naturals

CONSTANTS
  MaxNonces,  \* bound: how many nonces a behaviour issues
  NonceTTL,   \* acmeNonceTTL, in clock ticks
  MaxTime     \* bound: the last tick of the clock

ASSUME NonceAssumption ==
  /\ MaxNonces \in Nat
  /\ NonceTTL \in Nat
  /\ MaxTime \in Nat

VARIABLES
  now,        \* the wall clock
  issued,     \* how many nonces were issued so far
  live,       \* the rows of acme_nonces
  expiresAt,  \* the expires_at column of every nonce ever issued
  uses,       \* history: how many requests each nonce let through
  usedAt      \* history: when it last did

nonceVars == <<issued, live, expiresAt, uses, usedAt>>

Nonce == 1..MaxNonces

NonceTypeOK ==
  /\ now \in 0..MaxTime
  /\ issued \in 0..MaxNonces
  /\ live \in SUBSET Nonce
  /\ expiresAt \in [Nonce -> Nat]
  /\ uses \in [Nonce -> Nat]
  /\ usedAt \in [Nonce -> Nat]

NonceInit ==
  /\ now = 0
  /\ issued = 0
  /\ live = {}
  /\ expiresAt = [n \in Nonce |-> 0]
  /\ uses = [n \in Nonce |-> 0]
  /\ usedAt = [n \in Nonce |-> 0]

(* Time passes. *)
Tick ==
  /\ now < MaxTime
  /\ now' = now + 1
  /\ UNCHANGED nonceVars

-----------------------------------------------------------------------------
(* INSERT INTO acme_nonces.  Issuing is best effort on every response: a   *)
(* nonce whose insert failed is one that no request ever presents, so the  *)
(* failure needs no branch.  At the bound nothing more is issued.          *)
IssueNonce ==
  IF issued < MaxNonces
  THEN /\ issued' = issued + 1
       /\ live' = live \cup {issued + 1}
       /\ expiresAt' = [expiresAt EXCEPT ![issued + 1] = now + NonceTTL]
       /\ UNCHANGED <<uses, usedAt>>
  ELSE UNCHANGED nonceVars

(* GET and HEAD /v1/acme/new-nonce. *)
NewNonce ==
  /\ issued < MaxNonces
  /\ IssueNonce
  /\ UNCHANGED now

(* The rows that DELETE ... WHERE nonce = ? AND expires_at > ? can hit. *)
Valid(n) == n \in live /\ expiresAt[n] > now

(* ConsumeIfValid when it answers true: the row is gone in the same        *)
(* statement that finds it, and the request goes on.                       *)
ConsumeKeepingRow(n) ==
  /\ Valid(n)
  /\ uses' = [uses EXCEPT ![n] = @ + 1]
  /\ usedAt' = [usedAt EXCEPT ![n] = now]
  /\ UNCHANGED <<issued, live, expiresAt>>

Consume(n) ==
  /\ Valid(n)
  /\ live' = live \ {n}
  /\ uses' = [uses EXCEPT ![n] = @ + 1]
  /\ usedAt' = [usedAt EXCEPT ![n] = now]
  /\ UNCHANGED <<issued, expiresAt>>

-----------------------------------------------------------------------------
(* A nonce lets at most one request through verifiedJWS, however many      *)
(* requests present it and on whichever replica they land, and none once   *)
(* its five minutes are over: ConsumeIfValid finds and deletes the row in  *)
(* one statement.                                                          *)
NonceSingleUse ==
  \A n \in Nonce :
    /\ uses[n] <= 1
    /\ uses[n] > 0 => usedAt[n] < expiresAt[n] /\ n \notin live
=============================================================================
