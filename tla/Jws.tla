-------------------------------- MODULE Jws --------------------------------
(***************************************************************************)
(* The request signatures of ACME clients and the keys they name           *)
(* (internal/acme/jws.go).  Cryptography is ideal: a signature is known by *)
(* whose key made it over this very content, a hash by what was hashed.    *)
(***************************************************************************)
CONSTANTS
  Keys,    \* account key pairs
  ECKeys,  \* the ones on P-256; the others are RSA
  None     \* no value

Algs == {"ES256", "RS256", "HS256"}

(* A jwk as a client writes it.  key is what its members decode to, None   *)
(* when they make no P-256 or RSA key; it may have the required members    *)
(* alone, in order and padded, or be written in another way.               *)
JWK == [key: Keys \cup {None}, form: {"canonical", "other"}]

ASSUME JwsAssumption == ECKeys \subseteq Keys /\ None \notin Keys \cup JWK

JWKPublicKey(j) == j.key

(* The required members, in order, coordinates padded to 32 bytes. *)
PublicKeyToJWK(k) == [key |-> k, form |-> "canonical"]

Thumbprint(k) == PublicKeyToJWK(k)

(* JWS.Verify: the algorithm has to fit the key. *)
Verify(j, k) ==
  /\ j.alg = IF k \in ECKeys THEN "ES256" ELSE "RS256"
  /\ j.by = k

(* JWS.VerifyHMAC, under the key of EAB token t. *)
VerifyHMAC(j, t) == j.alg = "HS256" /\ j.by = t
=============================================================================
