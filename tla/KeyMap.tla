------------------------------- MODULE KeyMap -------------------------------
(***************************************************************************)
(* What the interface KeyStore promises, whichever backend is behind it    *)
(* (internal/keystore/keystore.go): a map from references to keys in which *)
(* a key, once there, stays as it is; a signer that a caller gets signs    *)
(* with the key in the map; and of the Generate calls that one process     *)
(* makes for a reference, one at most is told that it made the key.        *)
(***************************************************************************)
EXTENDS Naturals

CONSTANTS
  Processes,  \* trustmated processes
  Refs,       \* key references
  Keys,       \* key pairs
  None        \* no value

VARIABLES
  map,     \* the key under each reference
  handed,  \* the signers callers got, as pairs of a reference and a key
  made     \* per process and reference: Generate calls that succeeded

vars == <<map, handed, made>>

Init ==
  /\ map = [f \in Refs |-> None]
  /\ handed = {}
  /\ made = [x \in Processes |-> [f \in Refs |-> 0]]

(* A key that nobody has comes under a reference that has none, at some    *)
(* moment of a Generate, which may yet fail.                               *)
Put(f, k) ==
  /\ map[f] = None
  /\ \A g \in Refs : map[g] # k /\ <<g, k>> \notin handed
  /\ map' = [map EXCEPT ![f] = k]
  /\ UNCHANGED <<handed, made>>

(* A caller in process x gets a signer, from Get ... *)
Hand(f) ==
  /\ map[f] # None
  /\ handed' = handed \cup {<<f, map[f]>>}
  /\ UNCHANGED <<map, made>>

(* ... or from the one Generate that succeeds there. *)
Make(x, f) ==
  /\ map[f] # None
  /\ made[x][f] = 0
  /\ handed' = handed \cup {<<f, map[f]>>}
  /\ made' = [made EXCEPT ![x][f] = 1]
  /\ UNCHANGED map

Next ==
  \E f \in Refs :
    \/ \E k \in Keys : Put(f, k)
    \/ Hand(f)
    \/ \E x \in Processes : Make(x, f)

Spec == Init /\ [][Next]_vars
=============================================================================
