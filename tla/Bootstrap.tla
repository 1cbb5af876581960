----------------------------- MODULE Bootstrap ------------------------------
(***************************************************************************)
(* Startup of trustmated: replicas over one database run bootstrap.Run     *)
(* under an exclusive lock, then load the material they serve with         *)
(* (internal/bootstrap, cmd/trustmated/main.go, the advisory lock of the   *)
(* Postgres store and the keystores' Generate and Get).  A key pair is a   *)
(* number; a certificate names the key it certifies and the key that       *)
(* signed it.                                                              *)
(***************************************************************************)
EXTENDS Naturals, Sequences, FiniteSets

CONSTANTS
  Replicas,   \* the processes
  Keystores,  \* keystores: one that all share, or some that do not
  Keystore,   \* the keystore of each replica
  Replaces,   \* creating a key over an existing one replaces it (file) or
              \* keeps it (vault)
  TSAFlags,   \* the values of modules.tsa the starts of each replica may have
  Issuable,   \* built-in profiles clients ask POST /v1/certificates for
  None,       \* no value
  MaxStarts,  \* bound: process starts
  MaxExits,   \* bound: exits at a failed call, a timeout or a crash, and
              \* unlocks that fail
  MaxLost     \* bound: sessions lost while they hold the lock

Held == {"root", "intermediate", "server-tls", "tsa"}  \* keys the keystore holds

(* What the constants must be; module Startup assumes it. *)
ConstantsOK ==
  /\ Keystore \in [Replicas -> Keystores]
  /\ Replaces \in BOOLEAN
  /\ TSAFlags \in [Replicas -> SUBSET BOOLEAN]
  /\ Issuable \subseteq {"server-tls", "tsa"}
  /\ IsFiniteSet(Replicas) /\ Replicas # {}
  /\ None \notin Replicas \cup Held
  /\ MaxStarts \in Nat /\ MaxExits \in Nat /\ MaxLost \in Nat

VARIABLES
  lock,      \* the advisory lock's holder
  profiles,  \* table profiles holds the built-in profiles
  rows,      \* table certificates, in insertion order
  admin,     \* table client_roles: the key certified by the admin's row
  output,    \* the bootstrap output directory: the admin key exported
  logged,    \* the bootstrap entries are in table audit_log
  keys,      \* per keystore and reference: the key, 0 for none
  cache,     \* per replica and reference: the key its keystore cached
  pc,        \* where each replica stands
  local,     \* per replica: the local variables of Run
  loaded,    \* per replica: the certificate and the key it serves with
  fresh,     \* the number the next key pair gets
  starts, exits,
  lost       \* how many sessions were lost

store == <<profiles, rows, admin, output, logged>>
counters == <<starts, exits, lost>>
vars == <<lock, store, keys, cache, pc, local, loaded, fresh, counters>>

(* ref is the reference of the certificate's key, None if the keystore has *)
(* no such key.  Key 0 stands for a key of a client's own.                 *)
Row(kind, key, signer, ref) ==
  [kind |-> kind, key |-> key, signer |-> signer, ref |-> ref]

NoRow == Row("none", 0, 0, None)

NoLocal == [tsa |-> FALSE, key |-> [c \in Held |-> 0], adminKey |-> 0]

NotLoaded == [c \in Held |-> [cert |-> NoRow, key |-> 0]]

Down == <<"down", None>>

Init ==
  /\ lock = None
  /\ profiles = FALSE /\ rows = <<>> /\ admin = 0 /\ output = 0 /\ logged = FALSE
  /\ keys = [d \in Keystores |-> [c \in Held |-> 0]]
  /\ cache = [x \in Replicas |-> [c \in Held |-> 0]]
  /\ pc = [x \in Replicas |-> Down]
  /\ local = [x \in Replicas |-> NoLocal]
  /\ loaded = [x \in Replicas |-> NotLoaded]
  /\ fresh = 1
  /\ starts = 0 /\ exits = 0 /\ lost = 0

-----------------------------------------------------------------------------
Goto(x, step, c) == pc' = [pc EXCEPT ![x] = <<step, c>>]

(* A process that ends: its connection's lock and its memory are gone. *)
Gone(x, p) ==
  /\ pc' = [pc EXCEPT ![x] = p]
  /\ lock' = IF lock = x THEN None ELSE lock
  /\ cache' = [cache EXCEPT ![x] = [c \in Held |-> 0]]
  /\ local' = [local EXCEPT ![x] = NoLocal]
  /\ loaded' = [loaded EXCEPT ![x] = NotLoaded]

Kind(c) == {i \in DOMAIN rows : rows[i].kind = c}

(* FindByKind's last row, GetLatestByProfile's first. *)
Latest(c) == rows[CHOOSE i \in Kind(c) : \A j \in Kind(c) : j <= i]

-----------------------------------------------------------------------------
Start(x, tsa) ==
  /\ pc[x][1] \in {"down", "failed"}
  /\ starts < MaxStarts
  /\ starts' = starts + 1
  /\ local' = [local EXCEPT ![x].tsa = tsa]
  /\ Goto(x, "lock", None)
  /\ UNCHANGED <<lock, store, keys, cache, loaded, fresh, exits, lost>>

(* WithAdvisoryLock waits for the lock ... *)
LockWithoutWaiting(x) ==
  /\ pc[x] = <<"lock", None>>
  /\ lock' = x
  /\ Goto(x, "check", None)
  /\ UNCHANGED <<store, keys, cache, local, loaded, fresh, counters>>

Lock(x) ==
  /\ pc[x] = <<"lock", None>>
  /\ lock = None
  /\ lock' = x
  /\ Goto(x, "check", None)
  /\ UNCHANGED <<store, keys, cache, local, loaded, fresh, counters>>

(* Run skips everything when there is a root certificate. *)
Check(x) ==
  /\ pc[x] = <<"check", None>>
  /\ IF Kind("root") # {} THEN Goto(x, "unlock", None) ELSE Goto(x, "profiles", None)
  /\ UNCHANGED <<lock, store, keys, cache, local, loaded, fresh, counters>>

PersistDefaultProfiles(x) ==
  /\ pc[x] = <<"profiles", None>>
  /\ profiles' = TRUE
  /\ Goto(x, "exists", "root")
  /\ UNCHANGED <<lock, rows, admin, output, logged, keys, cache, local, loaded, fresh,
                 counters>>

(* Generate refuses a reference that has a key; Run then fails. *)
Exists(x, c) ==
  /\ pc[x] = <<"exists", c>>
  /\ IF keys[Keystore[x]][c] # 0
     THEN /\ Gone(x, <<"failed", c>>)
          /\ UNCHANGED <<store, keys, fresh, counters>>
     ELSE /\ Goto(x, "create", c)
          /\ UNCHANGED <<lock, store, keys, cache, local, loaded, fresh, counters>>

(* Generate creates the key.  The check before it is not atomic with it    *)
(* across processes.                                                       *)
Generate(x, c) ==
  LET d == Keystore[x]
      k == IF Replaces \/ keys[d][c] = 0 THEN fresh ELSE keys[d][c]
  IN /\ pc[x] = <<"create", c>>
     /\ keys' = [keys EXCEPT ![d][c] = k]
     /\ cache' = [cache EXCEPT ![x][c] = IF Replaces THEN k ELSE 0]
     /\ local' = [local EXCEPT ![x].key[c] = k]
     /\ fresh' = fresh + 1
     /\ Goto(x, "persist", c)
     /\ UNCHANGED <<lock, store, loaded, counters>>

(* Which certificate's key signs certificate c. *)
Signer(c) == IF c \in {"root", "intermediate"} THEN "root" ELSE "intermediate"

(* What Run does after certificate c. *)
After(x, c) ==
  CASE c = "root" -> <<"exists", "intermediate">>
    [] c = "intermediate" -> <<"admin", None>>
    [] c = "server-tls" /\ local[x].tsa -> <<"exists", "tsa">>
    [] OTHER -> <<"output", None>>

(* createCertRecord, for a certificate whose key the keystore holds. *)
PersistSelfSigned(x, c) ==
  /\ pc[x] = <<"persist", c>>
  /\ rows' = Append(rows, Row(c, local[x].key[c], local[x].key[c], c))
  /\ pc' = [pc EXCEPT ![x] = After(x, c)]
  /\ UNCHANGED <<lock, profiles, admin, output, logged, keys, cache, local, loaded, fresh,
                 counters>>

Persist(x, c) ==
  /\ pc[x] = <<"persist", c>>
  /\ rows' = Append(rows, Row(c, local[x].key[c], local[x].key[Signer(c)], c))
  /\ pc' = [pc EXCEPT ![x] = After(x, c)]
  /\ UNCHANGED <<lock, profiles, admin, output, logged, keys, cache, local, loaded, fresh,
                 counters>>

(* generateAdminLeaf keeps the admin's key in memory only. *)
PersistAdmin(x) ==
  /\ pc[x] = <<"admin", None>>
  /\ rows' = Append(rows, Row("default", fresh, local[x].key["intermediate"], None))
  /\ local' = [local EXCEPT ![x].adminKey = fresh]
  /\ fresh' = fresh + 1
  /\ Goto(x, "role", None)
  /\ UNCHANGED <<lock, profiles, admin, output, logged, keys, cache, loaded, counters>>

AssignAdmin(x) ==
  /\ pc[x] = <<"role", None>>
  /\ admin' = local[x].adminKey
  /\ Goto(x, "exists", "server-tls")
  /\ UNCHANGED <<lock, profiles, rows, output, logged, keys, cache, local, loaded, fresh,
                 counters>>

WriteBootstrapOutput(x) ==
  /\ pc[x] = <<"output", None>>
  /\ output' = local[x].adminKey
  /\ Goto(x, "audit", None)
  /\ UNCHANGED <<lock, profiles, rows, admin, logged, keys, cache, local, loaded, fresh,
                 counters>>

AppendAudit(x) ==
  /\ pc[x] = <<"audit", None>>
  /\ logged' = TRUE
  /\ Goto(x, "unlock", None)
  /\ UNCHANGED <<lock, profiles, rows, admin, output, keys, cache, local, loaded, fresh,
                 counters>>

UnlockForgotten(x) ==
  /\ pc[x] = <<"unlock", None>>
  /\ Goto(x, "load", "server-tls")
  /\ UNCHANGED <<lock, store, keys, cache, local, loaded, fresh, counters>>

(* Best-effort: the session may be lost already ... *)
Unlock(x) ==
  /\ pc[x] = <<"unlock", None>>
  /\ lock' = IF lock = x THEN None ELSE lock
  /\ Goto(x, "load", "server-tls")
  /\ UNCHANGED <<store, keys, cache, local, loaded, fresh, counters>>

(* ... or the statement fails, which is not reported: Close returns the    *)
(* connection to the pool and the session keeps the lock.                  *)
UnlockFailed(x) ==
  /\ pc[x] = <<"unlock", None>>
  /\ lock = x
  /\ exits < MaxExits
  /\ exits' = exits + 1
  /\ Goto(x, "load", "server-tls")
  /\ UNCHANGED <<lock, store, keys, cache, local, loaded, fresh, starts, lost>>

-----------------------------------------------------------------------------
(* The keystore's Get: the file keystore prefers what it cached. *)
Get(x, ref) ==
  IF ref \notin Held THEN 0
  ELSE IF cache[x][ref] # 0 THEN cache[x][ref]
  ELSE keys[Keystore[x]][ref]

(* The rows a load asks for besides its own. *)
Needs(c) == IF c = "server-tls" THEN {"server-tls", "intermediate", "root"} ELSE {c}

(* The reference a load gets the key of: the row's for the TSA, a fixed    *)
(* one for the others.                                                     *)
KeyRef(c) == IF c = "tsa" THEN Latest(c).ref ELSE c

AfterLoad(x, c) ==
  CASE c = "server-tls" -> <<"load", "intermediate">>
    [] c = "intermediate" -> <<"load", "root">>
    [] c = "root" /\ local[x].tsa -> <<"load", "tsa">>
    [] OTHER -> <<"up", None>>

(* LoadServerTLSConfig, LoadIntermediateIssuer, LoadRootIssuer and, with   *)
(* the TSA on, LoadTSAIssuer; the process exits when one fails.            *)
Load(x, c) ==
  /\ pc[x] = <<"load", c>>
  /\ IF \/ \E k \in Needs(c) : Kind(k) = {}
        \/ Get(x, KeyRef(c)) = 0
     THEN /\ Gone(x, <<"failed", c>>)
          /\ UNCHANGED <<store, keys, fresh, counters>>
     ELSE LET k == Get(x, KeyRef(c))
          IN /\ loaded' = [loaded EXCEPT ![x][c] = [cert |-> Latest(c), key |-> k]]
             /\ cache' = [cache EXCEPT ![x][KeyRef(c)] = IF Replaces THEN k ELSE 0]
             /\ pc' = [pc EXCEPT ![x] = AfterLoad(x, c)]
             /\ UNCHANGED <<lock, store, keys, local, fresh, counters>>

-----------------------------------------------------------------------------
(* A client has a certificate issued under a built-in profile. *)
IssueCertificate(x, c) ==
  /\ pc[x] = <<"up", None>>
  /\ \A i \in Kind(c) : rows[i].key # 0  \* bound: one such certificate
  /\ rows' = Append(rows, Row(c, 0, loaded[x]["intermediate"].key, None))
  /\ UNCHANGED <<lock, profiles, admin, output, logged, keys, cache, pc, local, loaded, fresh, counters>>

(* A clean shutdown. *)
Shutdown(x) ==
  /\ pc[x] = <<"up", None>>
  /\ Gone(x, Down)
  /\ UNCHANGED <<store, keys, fresh, counters>>

(* The session that holds the lock ends (the server, the network or, after *)
(* a failed unlock, the pool drops the connection): Postgres frees the     *)
(* lock, and Run, which uses other connections of the pool, goes on        *)
(* without it.                                                             *)
SessionLost(x) ==
  /\ lock = x
  /\ lost < MaxLost
  /\ lost' = lost + 1
  /\ lock' = None
  /\ UNCHANGED <<store, keys, cache, pc, local, loaded, fresh, starts, exits>>

(* A failed call, the 30 s the lock and Run get together, or a crash. *)
Exit(x) ==
  /\ pc[x][1] \notin {"down", "failed", "up"}
  /\ exits < MaxExits
  /\ exits' = exits + 1
  /\ Gone(x, Down)
  /\ UNCHANGED <<store, keys, fresh, starts, lost>>

Run(x) ==
  \/ Check(x)
  \/ PersistDefaultProfiles(x)
  \/ \E c \in Held : Exists(x, c) \/ Generate(x, c) \/ Persist(x, c)
  \/ PersistAdmin(x)
  \/ AssignAdmin(x)
  \/ WriteBootstrapOutput(x)
  \/ AppendAudit(x)

Main(x) ==
  \/ Lock(x)
  \/ Run(x)
  \/ Unlock(x)
  \/ \E c \in Held : Load(x, c)

Next ==
  \E x \in Replicas :
    \/ \E tsa \in TSAFlags[x] : Start(x, tsa)
    \/ Main(x)
    \/ UnlockFailed(x)
    \/ \E c \in Issuable : IssueCertificate(x, c)
    \/ Shutdown(x)
    \/ Exit(x)
    \/ SessionLost(x)

Spec == Init /\ [][Next]_vars

-----------------------------------------------------------------------------
Steps == {"down", "failed", "lock", "check", "profiles", "exists", "create", "persist",
          "admin", "role", "output", "audit", "unlock", "load", "up"}

Key == 0..(MaxStarts * 5)

Cert == [kind: Held \cup {"default", "none"}, key: Key, signer: Key,
         ref: Held \cup {None}]

TypeOK ==
  /\ lock \in Replicas \cup {None}
  /\ profiles \in BOOLEAN /\ logged \in BOOLEAN
  /\ admin \in Key /\ output \in Key
  /\ \A i \in DOMAIN rows : rows[i] \in Cert
  /\ keys \in [Keystores -> [Held -> Key]]
  /\ cache \in [Replicas -> [Held -> Key]]
  /\ pc \in [Replicas -> Steps \X (Held \cup {None})]
  /\ local \in [Replicas -> [tsa: BOOLEAN, key: [Held -> Key], adminKey: Key]]
  /\ loaded \in [Replicas -> [Held -> [cert: Cert, key: Key]]]
  /\ fresh \in 1..(MaxStarts * 5 + 1)
  /\ starts \in 0..MaxStarts /\ exits \in 0..MaxExits /\ lost \in 0..MaxLost

(* However the starts of the replicas interleave and wherever one of them  *)
(* ends, first-run generation happens once: there is at most one root, one *)
(* intermediate, one server and one TSA certificate with a key of ours.    *)
(* Only a session lost in the middle of Run can add a second generation,   *)
(* and on a shared keystore it certifies the same keys again.              *)
OneOfEach ==
  \A c \in Held :
    LET ours == {i \in Kind(c) : rows[i].ref = c}
    IN /\ Cardinality(ours) <= 1 + lost
       /\ \A i, j \in ours : rows[i].key = rows[j].key

(* The certificates a process loaded and the flag it started with. *)
Served(x) == IF local[x].tsa THEN Held ELSE Held \ {"tsa"}

(* A process that serves does so with matching material: every certificate *)
(* it loaded certifies the key it loaded for it, and they form one chain,  *)
(* also when an earlier start ended half way.  Except for a certificate    *)
(* that a client got under the same profile: the newest row of a profile   *)
(* is loaded whoever has its key.                                          *)
UpConsistent ==
  \A x \in Replicas : pc[x] = <<"up", None>> =>
    \A c \in Served(x) :
      /\ loaded[x][c].cert.ref = c => loaded[x][c].key = loaded[x][c].cert.key
      /\ loaded[x][c].cert.signer = loaded[x][Signer(c)].key

-----------------------------------------------------------------------------
(* What docs/environment.md says of turning the TSA on again: a start with *)
(* the TSA on bootstraps its identity if there is none; so no process ends *)
(* because that identity is missing.                                       *)
TSABootstrapped ==
  \A x \in Replicas : pc[x] # <<"failed", "tsa">>
=============================================================================
