------------------------------ MODULE KeyStore ------------------------------
(***************************************************************************)
(* The private-key stores: Generate, Get and FreshRef over a directory of  *)
(* files of one process, or over a Vault server or a PKCS#11 token that    *)
(* replicas share (internal/keystore: keystore.go, filekeystore.go,        *)
(* vaultkeystore.go, pkcs11keystore.go, ref.go).  Encryption is left out:  *)
(* a file holds a key, or part of one.                                     *)
(***************************************************************************)
EXTENDS Naturals, FiniteSets

CONSTANTS
  Workers,        \* goroutines that call the keystore
  Processes,      \* trustmated processes
  Refs,           \* key references
  Keys,           \* key pairs that may be generated
  None,           \* no value
  Torn,           \* a file that is not (yet) a whole key
  FreshAttempts,  \* freshRefAttempts
  MaxFaults       \* bound: failed calls and crashes per behaviour

ASSUME KeyStoreAssumption ==
  /\ None \notin Keys \cup Refs \cup Workers
  /\ Torn \notin Keys \cup {None}
  /\ FreshAttempts \in Nat
  /\ MaxFaults \in Nat

VARIABLES
  backend, \* keystore.driver: "file", "vault" or "pkcs11"
  home,    \* the process of each goroutine
  stored,  \* the key a look-up of each reference finds: the file path(ref),
           \* Vault's key or the token's pair
  tmp,     \* the file path(ref) + ".tmp"
  cached,  \* per process: FileKeyStore.cached
  holder,  \* per process: who holds refLocker's lock of each reference
  pc,      \* where each goroutine stands
  call,    \* its arguments and local variables
  made,    \* history, per process: Generate calls that succeeded
  handed,  \* history: the signers callers got
  faults   \* how many faults happened

deployment == <<backend, home>>

history == <<made, handed>>

vars == <<deployment, stored, tmp, cached, holder, pc, call, history, faults>>

Content == Keys \cup {None, Torn}

Call == [op: {"none", "generate", "get"}, ref: Refs \cup {None},
         key: Keys \cup {None}, tries: 0..FreshAttempts]

NewCall(op, f) == [op |-> op, ref |-> f, key |-> None, tries |-> 0]

NoCall == NewCall("none", None)

Points == {"idle", "fresh", "lock", "exists", "create", "write", "rename",
           "post", "token", "cache", "read", "remember"}

Backends == {"file", "vault", "pkcs11"}

(* docs/design.md: a directory belongs to one process, replicas share      *)
(* Vault or a token.                                                       *)
Init ==
  /\ backend \in Backends
  /\ home \in [Workers -> Processes]
  /\ backend = "file" => \A v, w \in Workers : home[v] = home[w]
  /\ stored = [f \in Refs |-> None]
  /\ tmp = [f \in Refs |-> None]
  /\ cached = [x \in Processes |-> [f \in Refs |-> None]]
  /\ holder = [x \in Processes |-> [f \in Refs |-> None]]
  /\ pc = [w \in Workers |-> "idle"]
  /\ call = [w \in Workers |-> NoCall]
  /\ made = [x \in Processes |-> [f \in Refs |-> 0]]
  /\ handed = {}
  /\ faults = 0

-----------------------------------------------------------------------------
Goto(w, p) == pc' = [pc EXCEPT ![w] = p]

(* "lost": the call fails; "ghost": it reports an error and took effect. *)
Outcome == {"ok", "lost", "ghost"}

Attempt(r) ==
  /\ r # "ok" => faults < MaxFaults
  /\ faults' = IF r = "ok" THEN faults ELSE faults + 1

(* The deferred unlock, a no-op for a call that holds no lock. *)
Unlock(w) ==
  holder' = [holder EXCEPT ![home[w]] =
    [f \in Refs |-> IF @[f] = w THEN None ELSE @[f]]]

(* A call returns an error ... *)
Fail(w) ==
  /\ Unlock(w)
  /\ Goto(w, "idle")
  /\ call' = [call EXCEPT ![w] = NoCall]
  /\ UNCHANGED history

(* ... or a signer for key k. *)
Return(w, k) ==
  /\ Unlock(w)
  /\ Goto(w, "idle")
  /\ call' = [call EXCEPT ![w] = NoCall]
  /\ handed' = handed \cup {<<call[w].ref, k>>}
  /\ made' = IF call[w].op = "generate"
             THEN [made EXCEPT ![home[w]][call[w].ref] = @ + 1]
             ELSE made

(* A key pair nobody has seen. *)
Fresh(k) ==
  /\ \A f \in Refs : k \notin {stored[f], tmp[f]} /\ <<f, k>> \notin handed
  /\ \A w \in Workers : call[w].key # k

(* Bound: a fresh key is left for every call in flight. *)
KeyRoom ==
  Cardinality({w \in Workers : call[w].op = "generate" /\ call[w].key = None})
    < Cardinality({k \in Keys : Fresh(k)})

-----------------------------------------------------------------------------
(* A token takes any number of pairs for a reference.  Replicas on one     *)
(* never generate under the same reference together: the fixed ones are    *)
(* generated under the bootstrap lock, the fresh ones are random.          *)
Apart(w) ==
  backend = "pkcs11" =>
    \A v \in Workers : home[v] # home[w] => call[v].op # "generate"

(* Bootstrap generates under a fixed reference, rotation under a fresh     *)
(* one, and everybody reads; only the file keystore looks in a cache.      *)
ReceiveGenerate(w, f) ==
  /\ pc[w] = "idle"
  /\ KeyRoom
  /\ Apart(w)
  /\ Goto(w, "lock")
  /\ call' = [call EXCEPT ![w] = NewCall("generate", f)]
  /\ UNCHANGED <<stored, tmp, cached, holder, history, faults>>

ReceiveFresh(w) ==
  /\ pc[w] = "idle"
  /\ KeyRoom
  /\ Apart(w)
  /\ Goto(w, "fresh")
  /\ call' = [call EXCEPT ![w] = NewCall("generate", None)]
  /\ UNCHANGED <<stored, tmp, cached, holder, history, faults>>

ReceiveGet(w, f) ==
  /\ pc[w] = "idle"
  /\ Goto(w, IF backend = "file" THEN "cache" ELSE "read")
  /\ call' = [call EXCEPT ![w] = NewCall("get", f)]
  /\ UNCHANGED <<stored, tmp, cached, holder, history, faults>>

(* One round of FreshRef: a random reference f that is taken costs an attempt. *)
FreshRefForever(w, f, r) ==
  /\ pc[w] = "fresh"
  /\ r # "ghost"
  /\ Attempt(r)
  /\ IF r = "lost" THEN Fail(w)
     ELSE /\ IF stored[f] = None
             THEN Goto(w, "lock") /\ call' = [call EXCEPT ![w].ref = f]
             ELSE UNCHANGED <<pc, call>>
          /\ UNCHANGED <<holder, history>>
  /\ UNCHANGED <<stored, tmp, cached>>

FreshRef(w, f, r) ==
  /\ pc[w] = "fresh"
  /\ r # "ghost"
  /\ Attempt(r)
  /\ IF r = "lost" \/ call[w].tries = FreshAttempts THEN Fail(w)
     ELSE /\ IF stored[f] = None
             THEN Goto(w, "lock") /\ call' = [call EXCEPT ![w].ref = f]
             ELSE UNCHANGED pc /\ call' = [call EXCEPT ![w].tries = @ + 1]
          /\ UNCHANGED <<holder, history>>
  /\ UNCHANGED <<stored, tmp, cached>>

(* refLocker.lock: one Generate per reference and process. *)
Lock(w) ==
  /\ pc[w] = "lock"
  /\ holder[home[w]][call[w].ref] = None
  /\ holder' = [holder EXCEPT ![home[w]][call[w].ref] = w]
  /\ Goto(w, "exists")
  /\ UNCHANGED <<stored, tmp, cached, call, history, faults>>

(* Generate's own check: a reference that has a key is an error. *)
Creates ==
  CASE backend = "file" -> "create"
    [] backend = "vault" -> "post"
    [] backend = "pkcs11" -> "token"

Exists(w, r) ==
  /\ pc[w] = "exists"
  /\ r # "ghost"
  /\ Attempt(r)
  /\ IF r = "lost" \/ stored[call[w].ref] # None THEN Fail(w)
     ELSE /\ Goto(w, Creates)
          /\ UNCHANGED <<holder, call, history>>
  /\ UNCHANGED <<stored, tmp, cached>>

-----------------------------------------------------------------------------
(* writeKeyFileAtomic.  os.WriteFile truncates or creates the temporary    *)
(* file, whatever an earlier attempt left in it, ...                       *)
CreateInPlace(w, r) ==
  /\ pc[w] = "create"
  /\ r # "ghost"
  /\ Attempt(r)
  /\ \E k \in Keys :
       /\ Fresh(k)
       /\ IF r = "lost" THEN Fail(w)
          ELSE /\ call' = [call EXCEPT ![w].key = k]
               /\ Goto(w, "write")
               /\ UNCHANGED <<holder, history>>
  /\ stored' = IF r = "lost" THEN stored ELSE [stored EXCEPT ![call[w].ref] = Torn]
  /\ UNCHANGED <<tmp, cached>>

CreateTmp(w, r) ==
  /\ pc[w] = "create"
  /\ r # "ghost"
  /\ Attempt(r)
  /\ \E k \in Keys :
       /\ Fresh(k)
       /\ IF r = "lost" THEN Fail(w)
          ELSE /\ call' = [call EXCEPT ![w].key = k]
               /\ Goto(w, "write")
               /\ UNCHANGED <<holder, history>>
  /\ tmp' = IF r = "lost" THEN tmp ELSE [tmp EXCEPT ![call[w].ref] = Torn]
  /\ UNCHANGED <<stored, cached>>

(* ... and writes it; a write that fails leaves it torn or, when only the  *)
(* close failed, whole.                                                    *)
WriteTmp(w, r) ==
  /\ pc[w] = "write"
  /\ Attempt(r)
  /\ tmp' = IF r = "lost" THEN tmp ELSE [tmp EXCEPT ![call[w].ref] = call[w].key]
  /\ IF r = "ok" THEN Goto(w, "rename") /\ UNCHANGED <<holder, call, history>>
     ELSE Fail(w)
  /\ UNCHANGED <<stored, cached>>

(* The rename puts the whole file in place. *)
Rename(w, r) ==
  /\ pc[w] = "rename"
  /\ r # "ghost"
  /\ Attempt(r)
  /\ IF r = "ok"
     THEN /\ stored' = [stored EXCEPT ![call[w].ref] = tmp[call[w].ref]]
          /\ tmp' = [tmp EXCEPT ![call[w].ref] = None]
          /\ Goto(w, "remember")
          /\ UNCHANGED <<holder, call, history>>
     ELSE Fail(w) /\ UNCHANGED <<stored, tmp>>
  /\ UNCHANGED cached

(* Vault's POST keys/<ref>: it makes the key, and leaves one that is there *)
(* already as it is.                                                       *)
Post(w, r) ==
  /\ pc[w] = "post"
  /\ Attempt(r)
  /\ \E k \in Keys :
       /\ Fresh(k)
       /\ stored' = IF r = "lost" \/ stored[call[w].ref] # None THEN stored
                    ELSE [stored EXCEPT ![call[w].ref] = k]
  /\ IF r = "ok" THEN Goto(w, "read") /\ UNCHANGED <<holder, call, history>>
     ELSE Fail(w)
  /\ UNCHANGED <<tmp, cached>>

(* The token generates a pair labelled with the reference, and the call    *)
(* returns it.  Of several such pairs a look-up finds any.                 *)
GenerateOnToken(w, r) ==
  /\ pc[w] = "token"
  /\ Attempt(r)
  /\ \E k \in Keys :
       /\ Fresh(k)
       /\ \E found \in {k, stored[call[w].ref]} \ {None} :
            stored' = IF r = "lost" THEN stored ELSE [stored EXCEPT ![call[w].ref] = found]
       /\ IF r = "ok" THEN /\ call' = [call EXCEPT ![w].key = k]
                           /\ Goto(w, "remember")
                           /\ UNCHANGED <<holder, history>>
          ELSE Fail(w)
  /\ UNCHANGED <<tmp, cached>>

-----------------------------------------------------------------------------
(* FileKeyStore.Get answers from the cache when it can. *)
CheckCache(w) ==
  /\ pc[w] = "cache"
  /\ LET k == cached[home[w]][call[w].ref]
     IN IF k # None THEN Return(w, k)
        ELSE Goto(w, "read") /\ UNCHANGED <<holder, call, history>>
  /\ UNCHANGED <<stored, tmp, cached, faults>>

(* The file, Vault's answer or the token's pair is read and decoded; what  *)
(* is not a whole key is an error.                                         *)
ReadKey(w, r) ==
  /\ pc[w] = "read"
  /\ r # "ghost"
  /\ Attempt(r)
  /\ IF r = "lost" \/ stored[call[w].ref] \in {None, Torn} THEN Fail(w)
     ELSE /\ call' = [call EXCEPT ![w].key = stored[call[w].ref]]
          /\ Goto(w, "remember")
          /\ UNCHANGED <<holder, history>>
  /\ UNCHANGED <<stored, tmp, cached>>

(* The file keystore caches the signer; the call returns it. *)
Remember(w) ==
  /\ pc[w] = "remember"
  /\ cached' = IF backend = "file"
               THEN [cached EXCEPT ![home[w]][call[w].ref] = call[w].key]
               ELSE cached
  /\ Return(w, call[w].key)
  /\ UNCHANGED <<stored, tmp, faults>>

(* A process dies: its memory is gone, the files stay. *)
Crash(x) ==
  /\ faults < MaxFaults
  /\ faults' = faults + 1
  /\ cached' = [cached EXCEPT ![x] = [f \in Refs |-> None]]
  /\ holder' = [holder EXCEPT ![x] = [f \in Refs |-> None]]
  /\ pc' = [w \in Workers |-> IF home[w] = x THEN "idle" ELSE pc[w]]
  /\ call' = [w \in Workers |-> IF home[w] = x THEN NoCall ELSE call[w]]
  /\ UNCHANGED <<stored, tmp, history>>

Receive(w) ==
  \/ \E f \in Refs : ReceiveGenerate(w, f) \/ ReceiveGet(w, f)
  \/ ReceiveFresh(w)

IOStep(w, r) ==
  \/ \E f \in Refs : FreshRef(w, f, r)
  \/ Exists(w, r)
  \/ CreateTmp(w, r)
  \/ WriteTmp(w, r)
  \/ Rename(w, r)
  \/ Post(w, r)
  \/ GenerateOnToken(w, r)
  \/ ReadKey(w, r)

Step(w) ==
  \/ Lock(w)
  \/ CheckCache(w)
  \/ Remember(w)
  \/ \E r \in Outcome : IOStep(w, r)

Next ==
  /\ \/ \E w \in Workers : Receive(w) \/ Step(w)
     \/ \E x \in Processes : Crash(x)
  /\ UNCHANGED deployment

Spec == Init /\ [][Next]_vars

(* A goroutine that can run does, I/O is answered (Vault's client has a    *)
(* timeout), and sync.Mutex starves no waiter.                             *)
FairSpec == Spec /\ \A w \in Workers : WF_vars(Step(w) /\ UNCHANGED deployment)
                                          /\ SF_vars(Lock(w) /\ UNCHANGED deployment)

-----------------------------------------------------------------------------
TypeOK ==
  /\ backend \in Backends
  /\ home \in [Workers -> Processes]
  /\ stored \in [Refs -> Content]
  /\ tmp \in [Refs -> Content]
  /\ cached \in [Processes -> [Refs -> Keys \cup {None}]]
  /\ holder \in [Processes -> [Refs -> Workers \cup {None}]]
  /\ pc \in [Workers -> Points]
  /\ call \in [Workers -> Call]
  /\ made \in [Processes -> [Refs -> Nat]]
  /\ handed \subseteq Refs \X Keys
  /\ faults \in 0..MaxFaults

Map == INSTANCE KeyMap WITH map <- stored

(* Each backend keeps the promise of the interface, with any calls in      *)
(* flight, after failed writes and after crashes.  "Generate never         *)
(* silently overwrites key material": the key under a reference never      *)
(* changes once it is there, and it is a whole key.  Every signer a caller *)
(* ever gets is the key that is stored, so that what is signed with it can *)
(* be signed with after a restart.  And of the Generate calls of a process *)
(* for a reference one succeeds at most.                                   *)
ImplementsKeyMap == Map!Spec

(* Every call returns: Generate's lock is released on every path, so a     *)
(* failure of one call never blocks the next ones, and FreshRef gives up   *)
(* on references that are all taken.                                       *)
CallsEnd == \A w \in Workers : pc[w] # "idle" ~> pc[w] = "idle"
=============================================================================
