--------------------------- MODULE StartupProofs ----------------------------
(***************************************************************************)
(* Proofs about Startup and the two modules it composes, for any number of *)
(* replicas, any binaries, keystores, faults and lost sessions.            *)
(*                                                                         *)
(* Migrations: the replicas' progress is the inductive part; InOrder and   *)
(* UpMigrated follow from what lies behind each replica's `at`.            *)
(*                                                                         *)
(* Bootstrap: a replica's step has one of six shapes.  BootInv counts who  *)
(* may still come to store a certificate of each kind, and says where the  *)
(* keys that Run, the keystore's cache and the loads hold come from.       *)
(***************************************************************************)
EXTENDS Startup, TLAPS

(* What a statement of replica x does to the variables the proofs follow. *)
LEMMA StepShape ==
  ASSUME Store!TypeOK, [Store!Next]_(Store!vars)
  PROVE  /\ \/ UNCHANGED <<schema, ledger>>
            \/ \E x \in Replicas : /\ phase[x] = "commit"
                                   /\ schema' = schema \cup {at[x]}
                                   /\ ledger' = ledger \cup {at[x]}
         /\ \/ UNCHANGED at
            \/ \E x \in Replicas : at' = [at EXCEPT ![x] = 1]
            \/ \E x \in Replicas : /\ at' = [at EXCEPT ![x] = @ + 1]
                                   /\ phase[x] \in {"check", "commit"}
                                   /\ phase'[x] = "check"
                                   /\ at[x] \in ledger'
<1>1. CASE UNCHANGED Store!vars
  BY <1>1, Zenon DEF Store!vars
<1>2. ASSUME NEW x \in Replicas, Store!Open(x) \/ Store!Stop(x) \/ Store!Crash(x) \/ Store!Opened(x)
      PROVE  UNCHANGED <<schema, ledger>>
             /\ (UNCHANGED at \/ at' = [at EXCEPT ![x] = 1])
  BY <1>2, Zenon DEF Store!Open, Store!Stop, Store!Crash, Store!Opened, Store!Fail
<1>3. ASSUME NEW x \in Replicas, NEW r \in Store!Outcome,
             Store!CreateSchemaTable(x, r) \/ Store!Script(x, r) \/ Store!Insert(x, r)
      PROVE  UNCHANGED <<schema, ledger>>
             /\ (UNCHANGED at \/ at' = [at EXCEPT ![x] = 1])
  BY <1>3, Zenon DEF Store!CreateSchemaTable, Store!Script, Store!Insert, Store!Fail
<1>4. ASSUME NEW x \in Replicas, NEW r \in Store!Outcome, Store!Check(x, r)
      PROVE  /\ UNCHANGED <<schema, ledger>>
             /\ \/ UNCHANGED at
                \/ at' = [at EXCEPT ![x] = 1]
                \/ /\ at' = [at EXCEPT ![x] = @ + 1]
                   /\ phase[x] = "check" /\ phase'[x] = "check"
                   /\ at[x] \in ledger'
  BY <1>4, Zenon DEF Store!Check, Store!Fail
<1>5. ASSUME NEW x \in Replicas, NEW r \in Store!Outcome, Store!Commit(x, r)
      PROVE  /\ \/ UNCHANGED <<schema, ledger>>
                \/ /\ phase[x] = "commit"
                   /\ schema' = schema \cup {at[x]}
                   /\ ledger' = ledger \cup {at[x]}
             /\ \/ at' = [at EXCEPT ![x] = 1]
                \/ /\ at' = [at EXCEPT ![x] = @ + 1]
                   /\ phase[x] = "commit" /\ phase'[x] = "check"
                   /\ at[x] \in ledger'
  BY <1>5, Zenon DEF Store!Commit, Store!Fail, Store!Goto, Store!TypeOK
<1>6. QED
  BY <1>1, <1>2, <1>3, <1>4, <1>5, Zenon DEF Store!Next, Store!Run, Store!Statement

-----------------------------------------------------------------------------
(* The bound on faults, and the way back to "down". *)
LEMMA CallTyped ==
  ASSUME Store!TypeOK, NEW r \in Store!Outcome, Store!Call(r)
  PROVE  faults' \in 0..MaxFaults
BY StartupAssumption DEF Store!ConstantsOK, Store!TypeOK, Store!Call

LEMMA FailTyped ==
  ASSUME Store!TypeOK, NEW x \in Replicas, Store!Fail(x)
  PROVE  /\ phase' \in [Replicas -> Store!Points]
         /\ at' \in [Replicas -> Nat \ {0}]
         /\ tx' \in [Replicas -> Nat]
BY DEF Store!TypeOK, Store!Fail, Store!Goto, Store!Points

(* Run and apply keep every variable in its type. *)
THEOREM TypeCorrect == Store!Spec => []Store!TypeOK
<1>1. Store!Init => Store!TypeOK
  BY StartupAssumption DEF Store!ConstantsOK, Store!Init, Store!TypeOK, Store!Points
<1>2. Store!TypeOK /\ [Store!Next]_(Store!vars) => Store!TypeOK'
  <2> SUFFICES ASSUME Store!TypeOK, [Store!Next]_(Store!vars) PROVE Store!TypeOK'
    BY Zenon
  <2>1. CASE UNCHANGED Store!vars
    BY <2>1, Zenon DEF Store!vars, Store!TypeOK
  <2>2. ASSUME NEW x \in Replicas, Store!Open(x) \/ Store!Opened(x)
        PROVE  Store!TypeOK'
    BY <2>2, Zenon DEF Store!Open, Store!Opened, Store!Goto, Store!TypeOK, Store!Points
  <2>3. ASSUME NEW x \in Replicas, Store!Stop(x) \/ Store!Crash(x)
        PROVE  Store!TypeOK'
    <3>1. faults' \in 0..MaxFaults
      BY <2>3, StartupAssumption DEF Store!ConstantsOK, Store!Stop, Store!Crash, Store!TypeOK
    <3>2. QED
      BY <2>3, <3>1, FailTyped, Zenon DEF Store!Stop, Store!Crash, Store!TypeOK
  <2>4. ASSUME NEW x \in Replicas, NEW r \in Store!Outcome,
               Store!CreateSchemaTable(x, r) \/ Store!Insert(x, r) \/ Store!Check(x, r)
        PROVE  Store!TypeOK'
    <3>1. Store!Call(r) /\ UNCHANGED <<schema, ledger>>
      BY <2>4, Zenon DEF Store!CreateSchemaTable, Store!Insert, Store!Check
    <3>2. CASE Store!Fail(x)
      BY <3>1, <3>2, FailTyped, CallTyped, Zenon DEF Store!TypeOK
    <3>3. CASE ~Store!Fail(x)
      <4>1. phase' \in [Replicas -> Store!Points] /\ at' \in [Replicas -> Nat \ {0}] /\ tx' = tx
        BY <2>4, <3>3 DEF Store!CreateSchemaTable, Store!Insert, Store!Check, Store!Goto, Store!TypeOK, Store!Points
      <4>2. QED
        BY <3>1, <4>1, CallTyped, Zenon DEF Store!TypeOK
    <3>4. QED
      BY <3>2, <3>3, Zenon
  <2>5. ASSUME NEW x \in Replicas, NEW r \in Store!Outcome, Store!Script(x, r)
        PROVE  Store!TypeOK'
    <3>1. Store!Call(r) /\ UNCHANGED <<schema, ledger>>
      BY <2>5, Zenon DEF Store!Script, Store!TypeOK
    <3>2. CASE Store!Fail(x)
      BY <3>1, <3>2, FailTyped, CallTyped, Zenon DEF Store!TypeOK
    <3>3. CASE ~Store!Fail(x)
      <4>1. phase' \in [Replicas -> Store!Points] /\ tx' \in [Replicas -> Nat] /\ at' = at
        BY <2>5, <3>3, Zenon DEF Store!Script, Store!Goto, Store!TypeOK, Store!Points
      <4>2. QED
        BY <3>1, <4>1, CallTyped, Zenon DEF Store!TypeOK
    <3>4. QED
      BY <3>2, <3>3, Zenon
  <2>6. ASSUME NEW x \in Replicas, NEW r \in Store!Outcome, Store!Commit(x, r)
        PROVE  Store!TypeOK'
    <3>1. /\ Store!Call(r)
          /\ schema' \subseteq Nat /\ ledger' \subseteq Nat
      BY <2>6, Zenon DEF Store!Commit, Store!TypeOK
    <3>2. CASE Store!Fail(x)
      BY <3>1, <3>2, FailTyped, CallTyped, Zenon DEF Store!TypeOK
    <3>3. CASE ~Store!Fail(x)
      <4>1. /\ phase' \in [Replicas -> Store!Points] /\ tx' \in [Replicas -> Nat]
            /\ at' \in [Replicas -> Nat \ {0}]
        BY <2>6, <3>3 DEF Store!Commit, Store!Goto, Store!TypeOK, Store!Points
      <4>2. QED
        BY <3>1, <4>1, CallTyped, Zenon DEF Store!TypeOK
    <3>4. QED
      BY <3>2, <3>3, Zenon
  <2>7. QED
    BY <2>1, <2>2, <2>3, <2>4, <2>5, <2>6, Zenon DEF Store!Next, Store!Run, Store!Statement
<1>3. QED
  BY <1>1, <1>2, PTL DEF Store!Spec

(* The ledger and the tables agree after every step of apply, failures and *)
(* crashes included.                                                       *)
THEOREM RecordedTogether == Store!Spec => []SchemaRecorded
<1>1. Store!Init => SchemaRecorded
  BY Zenon DEF Store!Init, SchemaRecorded, Store!SchemaRecorded
<1>2. Store!TypeOK /\ SchemaRecorded /\ [Store!Next]_(Store!vars) => SchemaRecorded'
  BY StepShape DEF SchemaRecorded, Store!SchemaRecorded
<1>3. QED
  BY <1>1, <1>2, TypeCorrect, PTL DEF Store!Spec

-----------------------------------------------------------------------------
(* Everything behind a replica's position is recorded. *)
Behind == \A x \in Replicas : \A u \in Nat : 0 < u /\ u < at[x] => u \in ledger

(* A replica is up once it is past its last migration. *)
Past == \A x \in Replicas : phase[x] = "up" => at[x] > Ships[x]

LEMMA BehindStep ==
  ASSUME Store!TypeOK, Behind, [Store!Next]_(Store!vars)
  PROVE  Behind'
<1> SUFFICES ASSUME NEW y \in Replicas, NEW u \in Nat, 0 < u, u < at'[y]
             PROVE  u \in ledger'
  BY Zenon DEF Behind
<1>1. ledger \subseteq ledger'
  BY StepShape, Zenon
<1>2. at[y] \in Nat
  BY Zenon DEF Store!TypeOK
<1>3. \/ at'[y] = at[y]
      \/ at'[y] = 1
      \/ at'[y] = at[y] + 1 /\ at[y] \in ledger'
  BY StepShape, Zenon DEF Store!TypeOK
<1>4. CASE u < at[y]
  BY <1>1, <1>4, Zenon DEF Behind
<1>5. CASE ~(u < at[y])
  <2>1. at'[y] = at[y] + 1 /\ at[y] \in ledger'
    BY <1>2, <1>3, <1>5
  <2>2. u = at[y]
    BY <1>2, <1>5, <2>1
  <2>3. QED
    BY <2>1, <2>2, Zenon
<1>6. QED
  BY <1>4, <1>5, Zenon

LEMMA PastStep ==
  ASSUME Store!TypeOK, Past, [Store!Next]_(Store!vars)
  PROVE  Past'
<1> USE DEF Past, Store!TypeOK, Store!Points
<1>1. CASE UNCHANGED Store!vars
  BY <1>1, Zenon DEF Store!vars
<1>2. ASSUME NEW x \in Replicas, Store!Open(x) \/ Store!Stop(x) \/ Store!Crash(x) \/ Store!Opened(x)
      PROVE  Past'
  BY <1>2, Zenon DEF Store!Open, Store!Stop, Store!Crash, Store!Opened, Store!Fail, Store!Goto
<1>3. ASSUME NEW x \in Replicas, NEW r \in Store!Outcome,
             Store!CreateSchemaTable(x, r) \/ Store!Insert(x, r)
      PROVE  Past'
  BY <1>3, Zenon DEF Store!CreateSchemaTable, Store!Insert, Store!Fail, Store!Goto
<1>4. ASSUME NEW x \in Replicas, NEW r \in Store!Outcome, Store!Check(x, r) \/ Store!Commit(x, r)
      PROVE  Past'
  BY <1>4 DEF Store!Check, Store!Commit, Store!Fail, Store!Goto
<1>5. ASSUME NEW x \in Replicas, NEW r \in Store!Outcome, Store!Script(x, r)
      PROVE  Past'
  BY <1>5, Zenon DEF Store!Script, Store!Fail, Store!Goto
<1>6. QED
  BY <1>1, <1>2, <1>3, <1>4, <1>5, Zenon DEF Store!Next, Store!Run, Store!Statement

LEMMA InOrderStep ==
  ASSUME Store!TypeOK, Behind, InOrder, [Store!Next]_(Store!vars)
  PROVE  InOrder'
<1> SUFFICES ASSUME NEW v \in ledger', NEW u \in 1..v
             PROVE  u \in ledger'
  BY Zenon DEF InOrder, Store!InOrder
<1>1. ledger \subseteq ledger'
  BY StepShape, Zenon
<1>2. CASE v \in ledger
  BY <1>1, <1>2, Zenon DEF InOrder, Store!InOrder
<1>3. CASE v \notin ledger
  <2>1. PICK x \in Replicas : v = at[x]
    BY <1>3, StepShape, Zenon
  <2>2. v \in Nat
    BY <2>1, Zenon DEF Store!TypeOK
  <2>3. CASE u = v
    BY <2>3, Zenon
  <2>4. CASE u # v
    BY <1>1, <2>1, <2>2, <2>4 DEF Behind
  <2>5. QED
    BY <2>3, <2>4, Zenon
<1>4. QED
  BY <1>2, <1>3, Zenon

(* Run's order: no migration is recorded before the ones it builds on. *)
THEOREM AppliedInOrder == Store!Spec => []InOrder
<1>1. Store!Init => Behind /\ InOrder
  BY DEF Store!Init, Behind, InOrder, Store!InOrder
<1>2. Store!TypeOK /\ (Behind /\ InOrder) /\ [Store!Next]_(Store!vars) => (Behind /\ InOrder)'
  BY BehindStep, InOrderStep, Zenon
<1>3. QED
  BY <1>1, <1>2, TypeCorrect, PTL DEF Store!Spec

(* Open returns only when every embedded migration is recorded. *)
THEOREM UpIsMigrated == Store!Spec => []UpMigrated
<1>1. Store!Init => Behind /\ Past
  BY DEF Store!Init, Behind, Past
<1>2. Store!TypeOK /\ (Behind /\ Past) /\ [Store!Next]_(Store!vars) => (Behind /\ Past)'
  BY BehindStep, PastStep, Zenon
<1>3. Store!TypeOK /\ Behind /\ Past => UpMigrated
  BY StartupAssumption DEF Store!ConstantsOK, Behind, Past, UpMigrated, Store!UpMigrated, Store!TypeOK
<1>4. QED
  BY <1>1, <1>2, <1>3, TypeCorrect, PTL DEF Store!Spec

-----------------------------------------------------------------------------
(* A step of a process is a step of the part it stands in, and the other   *)
(* part stays as it is or, when the process ends, closes the store.        *)
LEMMA StartupStep ==
  ASSUME [StartupNext]_allVars
  PROVE  [Store!Next]_(Store!vars) /\ [Next]_vars
<1>1. UNCHANGED storeVars => UNCHANGED Store!vars
  BY Zenon DEF storeVars, Store!vars
<1>2. CASE UNCHANGED allVars
  BY <1>1, <1>2, Zenon DEF allVars
<1>3. ASSUME NEW x \in Replicas, OpenStore(x) \/ DieOpening(x)
      PROVE  Store!Next /\ UNCHANGED vars
  BY Zenon, <1>3 DEF OpenStore, DieOpening, Store!Next
<1>4. ASSUME NEW x \in Replicas, Begin(x) \/ Proceed(x) \/ Serve(x)
      PROVE  [Store!Next]_(Store!vars) /\ Next
  <2>1. [Store!Next]_(Store!vars)
    BY Zenon, <1>1, <1>4 DEF Begin, Proceed, Serve, WithStore, Store!Next
  <2>2. Next
    BY Zenon, <1>4 DEF Begin, Proceed, Serve, Next
  <2>3. QED
    BY <2>1, <2>2, Zenon
<1>5. QED
  BY Zenon, <1>2, <1>3, <1>4 DEF StartupNext

(* The composition refines both parts: whatever Migrations and Bootstrap   *)
(* promise of main's two halves alone, the process that runs one after the *)
(* other keeps.                                                            *)
THEOREM StartupRefines == StartupSpec => Store!Spec /\ Spec
<1>1. StartupInit => Store!Init /\ Init
  BY Zenon DEF StartupInit
<1>2. [StartupNext]_allVars => [Store!Next]_(Store!vars) /\ [Next]_vars
  BY StartupStep, Zenon
<1>3. QED
  BY <1>1, <1>2, PTL DEF StartupSpec, Store!Spec, Spec

(* The store of a starting process: recorded as migrated, in order, and    *)
(* completely before it is used, whatever the bootstrap does meanwhile.    *)
THEOREM StartupMigrates == StartupSpec => [](SchemaRecorded /\ InOrder /\ UpMigrated)
BY StartupRefines, RecordedTogether, AppliedInOrder, UpIsMigrated, PTL

-----------------------------------------------------------------------------
(* The points of Run while it makes certificate c ... *)
Making(c) == {<<"exists", c>>, <<"create", c>>, <<"persist", c>>}

(* ... and those from which it still comes to store it. *)
ToRoot == {<<"profiles", None>>} \cup Making("root")

ToIntermediate == ToRoot \cup Making("intermediate")

ToServer == ToIntermediate \cup {<<"admin", None>>, <<"role", None>>} \cup Making("server-tls")

ToTSA == ToServer \cup Making("tsa")

Ahead(c) ==
  CASE c = "root" -> ToRoot
    [] c = "intermediate" -> ToIntermediate
    [] c = "server-tls" -> ToServer
    [] c = "tsa" -> ToTSA

Generating == ToTSA \cup {<<"output", None>>, <<"audit", None>>}

(* The points under the advisory lock. *)
Inside == Generating \cup {<<"check", None>>, <<"unlock", None>>}

Through == {<<"unlock", None>>, <<"up", None>>} \cup {<<"load", c>> : c \in Held}

AllPoints == Inside \cup Through \cup {Down, <<"lock", None>>} \cup {<<"failed", c>> : c \in Held}

RowSet == [kind: Held \cup {"default"}, key: Nat, signer: Nat, ref: Held \cup {None}]

Locals == [tsa: BOOLEAN, key: [Held -> Nat], adminKey: Nat]

Material == [cert: RowSet \cup {NoRow}, key: Nat]

Typed ==
  /\ lock \in Replicas \cup {None}
  /\ rows \in Seq(RowSet)
  /\ keys \in [Keystores -> [Held -> Nat]]
  /\ cache \in [Replicas -> [Held -> Nat]]
  /\ pc \in [Replicas -> AllPoints]
  /\ local \in [Replicas -> Locals]
  /\ loaded \in [Replicas -> [Held -> Material]]
  /\ fresh \in Nat \ {0}
  /\ lost \in Nat

(* A row's key is that of its kind or a client's own, and of the rows of a *)
(* kind one is the newest.                                                 *)
Rowed ==
  /\ \A i \in DOMAIN rows : rows[i].ref \in {rows[i].kind, None}
  /\ \A c \in Held : Kind(c) # {} => \E i \in Kind(c) : \A j \in Kind(c) : j <= i

-----------------------------------------------------------------------------
(* Run knows the keys it made ... *)
Knows(x) ==
  /\ pc[x] \in Generating /\ pc[x] \notin ToRoot \ {<<"persist", "root">>}
       => local[x].key["root"] # 0
  /\ pc[x] \in Generating /\ pc[x] \notin ToIntermediate \ {<<"persist", "intermediate">>}
       => local[x].key["intermediate"] # 0
  /\ \A c \in Held : pc[x] = <<"persist", c>> => local[x].key[c] # 0

(* ... and the root comes first. *)
HasRoot(x) == pc[x] \in Through \cup (Generating \ ToRoot) => Kind("root") # {}

Made ==
  /\ \A x \in Replicas : Knows(x) /\ HasRoot(x)
  /\ Kind("root") = {} => rows = <<>>
  /\ \A d \in Keystores : keys[d]["intermediate"] # 0 => Kind("root") # {}

(* Those that may come to generate although they do not hold the lock. *)
Unguarded == {x \in Replicas : x # lock /\ pc[x] \in ToRoot \cup {<<"check", None>>}}

Ours(c) == {i \in Kind(c) : rows[i].ref = c}

StillTo(c) == {x \in Replicas : pc[x] \in Ahead(c)}

Counted ==
  /\ Kind("root") = {} => Cardinality(Unguarded) <= lost
  /\ Kind("root") # {} => \A c \in Held : Cardinality(Ours(c)) + Cardinality(StillTo(c)) <= 1 + lost

(* A row of ours is signed, by a key there is. *)
Signed ==
  \A c \in Held : \A i \in Kind(c) : /\ rows[i].signer # 0
                                     /\ rows[i].ref = c => rows[i].key # 0

-----------------------------------------------------------------------------
(* The replicas share a keystore in which creating a key keeps one that is *)
(* there, as Vault does.                                                   *)
SharedVault == ~Replaces /\ \A x, y \in Replicas : Keystore[x] = Keystore[y]

Calm == SharedVault \/ lost = 0

Faithful ==
  \A x \in Replicas, c \in Held :
    /\ local[x].key[c] \in {0, keys[Keystore[x]][c]}
    /\ cache[x][c] \in {0, keys[Keystore[x]][c]}
    /\ loaded[x][c].key \in {0, keys[Keystore[x]][c]}

(* While no session was lost, Run is alone. *)
Sole(x) ==
  /\ pc[x] \in Inside => lock = x
  /\ \A c \in Held : pc[x] = <<"create", c>> => keys[Keystore[x]][c] = 0
  /\ pc[x] \in ToRoot => Kind("root") = {}
  /\ pc[x] \in ToIntermediate \ {<<"persist", "intermediate">>}
       => \A d \in Keystores : keys[d]["intermediate"] = 0
  /\ pc[x] \in Generating \ ToRoot
       => \A i \in Kind("root") : /\ rows[i].key = local[x].key["root"]
                                  /\ rows[i].signer = local[x].key["root"]

Alone == \A x \in Replicas : Sole(x)

(* In a shared keystore all certify the same keys. *)
Same ==
  /\ \A d \in Keystores, c \in Held : keys[d][c] # 0 => \A x \in Replicas : d = Keystore[x]
  /\ \A x \in Replicas, c \in Held : \A i \in Ours(c) : rows[i].key = keys[Keystore[x]][c]
  /\ \A x \in Replicas : \A i \in Kind("root") : rows[i].signer = keys[Keystore[x]]["root"]

(* The keystore that has the intermediate's key has the CA. *)
OneCA ==
  /\ \A d, e \in Keystores :
       keys[d]["intermediate"] # 0 /\ keys[e]["intermediate"] # 0 => d = e
  /\ \A i \in DOMAIN rows : rows[i].kind \in Held \ {"root"}
       => \E d \in Keystores : keys[d]["intermediate"] # 0
  /\ \A i \in Kind("root") : rows[i].ref = "root"
  /\ \A d \in Keystores : keys[d]["intermediate"] # 0 =>
       \A c \in Held : \A i \in Kind(c) :
         /\ rows[i].ref = c => rows[i].key = keys[d][c]
         /\ rows[i].signer = keys[d][Signer(c)]

Matching ==
  Calm => /\ Faithful
          /\ lost = 0 => Alone
          /\ SharedVault => Same
          /\ OneCA

-----------------------------------------------------------------------------
(* What is loaded is a row ... *)
HoldsRows(x) ==
  \A c \in Held : loaded[x][c].key # 0 => \E i \in Kind(c) : rows[i] = loaded[x][c].cert

(* ... and it is loaded in the order of main. *)
Loading == {<<"load", "intermediate">>, <<"load", "root">>, <<"load", "tsa">>, <<"up", None>>}

LoadsInOrder(x) ==
  /\ pc[x] \in Loading => loaded[x]["server-tls"].key # 0
  /\ pc[x] \in Loading \ {<<"load", "intermediate">>} => loaded[x]["intermediate"].key # 0
  /\ pc[x] \in {<<"load", "tsa">>, <<"up", None>>} => loaded[x]["root"].key # 0
  /\ pc[x] = <<"up", None>> /\ local[x].tsa => loaded[x]["tsa"].key # 0

LoadedInv == \A x \in Replicas : HoldsRows(x) /\ LoadsInOrder(x)

-----------------------------------------------------------------------------
(* The steps of a replica by what they may change.  One that only moves: *)
Moves(x) ==
  /\ \/ /\ pc[x] \in {Down} \cup {<<"failed", c>> : c \in Held}
        /\ pc' = [pc EXCEPT ![x] = <<"lock", None>>]
        /\ lock' = lock
     \/ /\ pc[x] = <<"lock", None>> /\ pc' = [pc EXCEPT ![x] = <<"check", None>>]
        /\ lock = None /\ lock' = x
     \/ /\ pc[x] = <<"check", None>> /\ pc' = [pc EXCEPT ![x] = <<"unlock", None>>]
        /\ Kind("root") # {} /\ lock' = lock
     \/ /\ pc[x] = <<"check", None>> /\ pc' = [pc EXCEPT ![x] = <<"profiles", None>>]
        /\ Kind("root") = {} /\ lock' = lock
     \/ /\ pc[x] = <<"profiles", None>> /\ pc' = [pc EXCEPT ![x] = <<"exists", "root">>]
        /\ lock' = lock
     \/ /\ \E c \in Held : /\ pc[x] = <<"exists", c>>
                           /\ pc' = [pc EXCEPT ![x] = <<"create", c>>]
                           /\ keys[Keystore[x]][c] = 0
        /\ lock' = lock
     \/ /\ pc[x] = <<"role", None>> /\ pc' = [pc EXCEPT ![x] = <<"exists", "server-tls">>]
        /\ lock' = lock
     \/ /\ pc[x] = <<"output", None>> /\ pc' = [pc EXCEPT ![x] = <<"audit", None>>]
        /\ lock' = lock
     \/ /\ pc[x] = <<"audit", None>> /\ pc' = [pc EXCEPT ![x] = <<"unlock", None>>]
        /\ lock' = lock
     \/ /\ pc[x] = <<"unlock", None>>
        /\ pc' = [pc EXCEPT ![x] = <<"load", "server-tls">>]
        /\ lock' = lock \/ lock' = IF lock = x THEN None ELSE lock
  /\ local' \in [Replicas -> Locals]
  /\ local'[x].key = local[x].key
  /\ \A y \in Replicas : y # x \/ pc[y] \in Through => local'[y] = local[y]
  /\ UNCHANGED <<rows, keys, cache, loaded, fresh, lost>>

(* One that ends: *)
Ends(x) ==
  /\ \E p \in {Down} \cup {<<"failed", c>> : c \in Held} : Gone(x, p)
  /\ UNCHANGED <<rows, keys, fresh, lost>>

(* One that stores a row: *)
Stores(x, r) ==
  /\ rows' = Append(rows, r)
  /\ local' \in [Replicas -> Locals]
  /\ local'[x].key = local[x].key /\ local'[x].tsa = local[x].tsa
  /\ \A y \in Replicas : y # x => local'[y] = local[y]
  /\ fresh' \in Nat \ {0}
  /\ UNCHANGED <<lock, keys, cache, loaded, lost>>

Enrols(x) ==
  \/ \E c \in Held : /\ pc[x] = <<"persist", c>> /\ pc' = [pc EXCEPT ![x] = After(x, c)]
                     /\ Stores(x, Row(c, local[x].key[c], local[x].key[Signer(c)], c))
  \/ /\ pc[x] = <<"admin", None>> /\ pc' = [pc EXCEPT ![x] = <<"role", None>>]
     /\ Stores(x, Row("default", fresh, local[x].key["intermediate"], None))
  \/ \E c \in {"server-tls", "tsa"} :
       /\ pc[x] = <<"up", None>> /\ pc' = pc
       /\ Stores(x, Row(c, 0, loaded[x]["intermediate"].key, None))

EnrolsRow(x, r) ==
  /\ Stores(x, r)
  /\ r.ref \in {r.kind, None}
  /\ \/ \E c \in Held : /\ pc[x] = <<"persist", c>> /\ pc' = [pc EXCEPT ![x] = After(x, c)]
                        /\ r.kind = c /\ r.ref = c /\ r.key = local[x].key[c]
                        /\ r.signer = local[x].key[Signer(c)]
     \/ /\ pc[x] = <<"admin", None>> /\ pc' = [pc EXCEPT ![x] = <<"role", None>>]
        /\ r.kind = "default" /\ r.ref = None
     \/ /\ pc[x] = <<"up", None>> /\ pc' = pc
        /\ r.kind \in {"server-tls", "tsa"} /\ r.ref = None
        /\ r.signer = loaded[x]["intermediate"].key

(* One that loads: *)
Loads(x, c) ==
  /\ pc[x] = <<"load", c>> /\ pc' = [pc EXCEPT ![x] = AfterLoad(x, c)]
  /\ Kind(c) # {} /\ KeyRef(c) = c /\ Get(x, c) # 0
  /\ loaded' = [loaded EXCEPT ![x][c] = [cert |-> Latest(c), key |-> Get(x, c)]]
  /\ cache' = [cache EXCEPT ![x][c] = IF Replaces THEN Get(x, c) ELSE 0]
  /\ UNCHANGED <<lock, rows, keys, local, fresh, lost>>

ReplicaStep(x) ==
  \/ Moves(x)
  \/ Ends(x)
  \/ Enrols(x)
  \/ \E c \in Held : Generate(x, c) \/ Loads(x, c)
  \/ SessionLost(x)

LEMMA StartMoves ==
  ASSUME Typed, NEW x \in Replicas, NEW tsa \in TSAFlags[x], Start(x, tsa)
  PROVE  Moves(x)
<1>1. tsa \in BOOLEAN
  BY StartupAssumption, Zenon DEF ConstantsOK
<1>2. pc[x] \in {Down} \cup {<<"failed", c>> : c \in Held}
  BY DEF Start, Typed, AllPoints, Inside, Through, Generating, ToTSA, ToServer, ToIntermediate,
         ToRoot, Making, Down
<1>3. local' \in [Replicas -> Locals]
  <2>1. local[x] \in Locals
    BY Zenon DEF Typed
  <2>2. [local[x] EXCEPT !.tsa = tsa] \in Locals
    BY Zenon, <1>1, <2>1 DEF Locals
  <2>3. QED
    BY Zenon, <2>2 DEF Start, Typed
<1>4. local'[x].key = local[x].key
  BY Zenon DEF Start, Typed, Locals
<1>5. \A y \in Replicas : y # x \/ pc[y] \in Through => local'[y] = local[y]
  BY SMTT(20) DEF Start, Typed, Through
<1>6. QED
  BY <1>2, <1>3, <1>4, <1>5, Zenon DEF Start, Moves, Goto, store

LEMMA RunMoves ==
  ASSUME Typed, NEW x \in Replicas,
         \/ Lock(x) \/ Check(x) \/ PersistDefaultProfiles(x) \/ AssignAdmin(x)
         \/ WriteBootstrapOutput(x) \/ AppendAudit(x) \/ Unlock(x) \/ UnlockFailed(x)
  PROVE  Moves(x)
BY Zenon DEF Typed, Moves, Goto, store, Lock, Check, PersistDefaultProfiles, AssignAdmin,
       WriteBootstrapOutput, AppendAudit, Unlock, UnlockFailed, counters

LEMMA ExistsMoves ==
  ASSUME Typed, NEW x \in Replicas, NEW c \in Held, Exists(x, c)
  PROVE  Moves(x) \/ Ends(x)
<1>1. CASE keys[Keystore[x]][c] # 0
  BY <1>1, Zenon DEF Exists, Ends, store, counters
<1>2. CASE keys[Keystore[x]][c] = 0
  BY <1>2, Zenon DEF Exists, Typed, Moves, Goto, store, counters
<1>3. QED
  BY <1>1, <1>2, Zenon

LEMMA StopEnds ==
  ASSUME NEW x \in Replicas, Shutdown(x) \/ Exit(x)
  PROVE  Ends(x)
BY Zenon DEF Shutdown, Exit, Ends, store, counters

LEMMA PersistEnrols ==
  ASSUME Typed, NEW x \in Replicas,
         \/ \E c \in Held : Persist(x, c)
         \/ PersistAdmin(x)
         \/ \E c \in Issuable : IssueCertificate(x, c)
  PROVE  Enrols(x)
<1>1. CASE \E c \in Held : Persist(x, c)
  BY Zenon, <1>1 DEF Persist, Enrols, Stores, Typed, counters
<1>2. CASE PersistAdmin(x)
  <2>1. local' \in [Replicas -> Locals]
    BY Zenon, <1>2 DEF PersistAdmin, Typed, Locals
  <2>2. /\ local'[x].key = local[x].key /\ local'[x].tsa = local[x].tsa
        /\ \A y \in Replicas : y # x => local'[y] = local[y]
    <3>1. local \in [Replicas -> Locals] /\ local' = [local EXCEPT ![x].adminKey = fresh]
      BY <1>2, Zenon DEF PersistAdmin, Typed
    <3>2. QED
      BY <3>1, Zenon DEF Locals
  <2>3. QED
    <3>1. fresh' \in Nat \ {0}
      BY <1>2, SMTT(20) DEF PersistAdmin, Typed
    <3>2. QED
      BY Zenon, <1>2, <2>1, <2>2, <3>1 DEF PersistAdmin, Enrols, Stores, Goto, counters
<1>3. CASE \E c \in Issuable : IssueCertificate(x, c)
  BY Zenon, <1>3, StartupAssumption DEF ConstantsOK, IssueCertificate, Enrols, Stores, Typed, counters
<1>4. QED
  BY <1>1, <1>2, <1>3, Zenon

LEMMA LatestIsRow ==
  ASSUME Rowed, NEW c \in Held, Kind(c) # {}
  PROVE  \E i \in Kind(c) : Latest(c) = rows[i]
BY Zenon DEF Latest, Rowed

LEMMA LoadLoads ==
  ASSUME Typed, Rowed, NEW x \in Replicas, NEW c \in Held, Load(x, c)
  PROVE  Loads(x, c) \/ Ends(x)
<1>1. CASE (\E k \in Needs(c) : Kind(k) = {}) \/ Get(x, KeyRef(c)) = 0
  BY <1>1, Zenon DEF Load, Ends, store, counters
<1>2. CASE ~((\E k \in Needs(c) : Kind(k) = {}) \/ Get(x, KeyRef(c)) = 0)
  <2>1. Kind(c) # {}
    BY Zenon, <1>2 DEF Needs
  <2>2. KeyRef(c) \in Held
    BY <1>2, Zenon DEF Get
  <2>3. KeyRef(c) = c
    <3>1. CASE c # "tsa"
      BY <3>1, Zenon DEF KeyRef
    <3>2. CASE c = "tsa"
      <4>1. Latest(c).ref \in {c, None}
        BY <2>1, LatestIsRow, Zenon DEF Rowed, Kind
      <4>2. QED
        BY <2>2, <3>2, <4>1, StartupAssumption, Zenon DEF KeyRef, ConstantsOK
    <3>3. QED
      BY <3>1, <3>2, Zenon
  <2>4. QED
    BY <1>2, <2>1, <2>3, Zenon DEF Load, Loads, store, counters
<1>3. QED
  BY <1>1, <1>2, Zenon

LEMMA StepOf ==
  ASSUME Typed, Rowed, NEW x \in Replicas,
         \/ \E tsa \in TSAFlags[x] : Start(x, tsa)
         \/ Main(x)
         \/ UnlockFailed(x)
         \/ \E c \in Issuable : IssueCertificate(x, c)
         \/ Shutdown(x)
         \/ Exit(x)
         \/ SessionLost(x)
  PROVE  ReplicaStep(x)
<1>1. CASE \E tsa \in TSAFlags[x] : Start(x, tsa)
  BY Zenon, <1>1, StartMoves DEF ReplicaStep
<1>2. CASE Lock(x) \/ Unlock(x) \/ UnlockFailed(x)
  BY Zenon, <1>2, RunMoves DEF ReplicaStep
<1>3. CASE \E c \in Held : Load(x, c)
  BY Zenon, <1>3, LoadLoads DEF ReplicaStep
<1>4. CASE Run(x)
  <2>1. CASE \E c \in Held : Exists(x, c)
    BY Zenon, <2>1, ExistsMoves DEF ReplicaStep
  <2>2. CASE \E c \in Held : Generate(x, c)
    BY Zenon, <2>2 DEF ReplicaStep
  <2>3. CASE (\E c \in Held : Persist(x, c)) \/ PersistAdmin(x)
    BY Zenon, <2>3, PersistEnrols DEF ReplicaStep
  <2>4. CASE \/ Check(x) \/ PersistDefaultProfiles(x) \/ AssignAdmin(x)
             \/ WriteBootstrapOutput(x) \/ AppendAudit(x)
    BY Zenon, <2>4, RunMoves DEF ReplicaStep
  <2>5. QED
    BY Zenon, <1>4, <2>1, <2>2, <2>3, <2>4 DEF Run
<1>5. CASE \E c \in Issuable : IssueCertificate(x, c)
  BY Zenon, <1>5, PersistEnrols DEF ReplicaStep
<1>6. CASE Shutdown(x) \/ Exit(x)
  BY Zenon, <1>6, StopEnds DEF ReplicaStep
<1>7. CASE SessionLost(x)
  BY Zenon, <1>7 DEF ReplicaStep
<1>8. QED
  BY Zenon, <1>1, <1>2, <1>3, <1>4, <1>5, <1>6, <1>7 DEF Main

LEMMA ReplicaSteps ==
  ASSUME Typed, Rowed, Next
  PROVE  \E x \in Replicas : ReplicaStep(x)
BY Zenon, StepOf DEF Next

-----------------------------------------------------------------------------
LEMMA MovesTyped ==
  ASSUME Typed, NEW x \in Replicas, Moves(x)
  PROVE  Typed'
<1>1. pc' \in [Replicas -> AllPoints]
  <2>1. PICK p : /\ pc' = [pc EXCEPT ![x] = p]
                 /\ \/ p \in {<<"lock", None>>, <<"check", None>>, <<"unlock", None>>,
                             <<"profiles", None>>, <<"audit", None>>, <<"load", "server-tls">>,
                             <<"exists", "root">>, <<"exists", "server-tls">>}
                    \/ \E c \in Held : p = <<"create", c>>
    BY Zenon DEF Moves
  <2>2. p \in AllPoints
    BY <2>1, Zenon DEF AllPoints, Inside, Through, Generating, ToTSA, ToServer, ToIntermediate, ToRoot,
                Making, Held
  <2>3. QED
    BY Zenon, <2>1, <2>2 DEF Typed
<1>2. lock' \in Replicas \cup {None}
  BY Zenon DEF Typed, Moves
<1>3. QED
  BY Zenon, <1>1, <1>2 DEF Typed, Moves

LEMMA EndsTyped ==
  ASSUME Typed, NEW x \in Replicas, Ends(x)
  PROVE  Typed'
<1>1. pc' \in [Replicas -> AllPoints]
  BY Zenon DEF Typed, Ends, Gone, AllPoints
<1>2. cache' \in [Replicas -> [Held -> Nat]]
  BY SMTT(20) DEF Typed, Ends, Gone
<1>3. NoLocal \in Locals
  BY Zenon DEF NoLocal, Locals
<1>4. NotLoaded \in [Held -> Material]
  BY Zenon DEF NotLoaded, Material
<1>5. lock' \in Replicas \cup {None}
  BY Zenon DEF Typed, Ends, Gone
<1>6. local' \in [Replicas -> Locals]
  BY Zenon, <1>3 DEF Typed, Ends, Gone
<1>7. loaded' \in [Replicas -> [Held -> Material]]
  BY Zenon, <1>4 DEF Typed, Ends, Gone
<1>8. QED
  BY Zenon, <1>1, <1>2, <1>5, <1>6, <1>7 DEF Typed, Ends

LEMMA EnrolsARow ==
  ASSUME Typed, NEW x \in Replicas, Enrols(x)
  PROVE  \E r \in RowSet : EnrolsRow(x, r)
<1>1. \A c \in Held : local[x].key[c] \in Nat /\ loaded[x][c].key \in Nat
  BY Zenon DEF Typed, Locals, Material
<1>2. fresh \in Nat /\ "intermediate" \in Held
  BY Zenon DEF Typed, Held
<1>3. \A c \in Held \cup {"default"}, k \in Nat, s \in Nat, ref \in Held \cup {None} :
        Row(c, k, s, ref) \in RowSet
  BY Zenon DEF Row, RowSet
<1>4. \A c \in Held : Signer(c) \in Held
  BY Zenon DEF Signer, Held
<1>5. ASSUME NEW c \in Held, pc[x] = <<"persist", c>>, pc' = [pc EXCEPT ![x] = After(x, c)],
             Stores(x, Row(c, local[x].key[c], local[x].key[Signer(c)], c))
      PROVE  \E r \in RowSet : EnrolsRow(x, r)
  <2>1. PICK r \in RowSet : r = Row(c, local[x].key[c], local[x].key[Signer(c)], c)
    BY Zenon, <1>1, <1>3, <1>4
  <2>2. /\ r.kind = c /\ r.ref = c /\ r.key = local[x].key[c]
        /\ r.signer = local[x].key[Signer(c)] /\ Stores(x, r)
    <3>1. Stores(x, r)
      BY Zenon, <1>5, <2>1
    <3>2. QED
      BY <2>1, <3>1, Zenon DEF Row
  <2>3. EnrolsRow(x, r)
    BY Zenon, <1>5, <2>2 DEF EnrolsRow
  <2>4. QED
    BY Zenon, <2>3
<1>6. ASSUME pc[x] = <<"admin", None>>, pc' = [pc EXCEPT ![x] = <<"role", None>>],
             Stores(x, Row("default", fresh, local[x].key["intermediate"], None))
      PROVE  \E r \in RowSet : EnrolsRow(x, r)
  <2>1. PICK r \in RowSet : r = Row("default", fresh, local[x].key["intermediate"], None)
    BY Zenon, <1>1, <1>2, <1>3
  <2>2. r.kind = "default" /\ r.ref = None /\ Stores(x, r)
    <3>1. Stores(x, r)
      BY Zenon, <1>6, <2>1
    <3>2. QED
      BY <2>1, <3>1, Zenon DEF Row
  <2>3. EnrolsRow(x, r)
    BY Zenon, <1>6, <2>2 DEF EnrolsRow
  <2>4. QED
    BY Zenon, <2>3
<1>7. ASSUME NEW c \in {"server-tls", "tsa"}, pc[x] = <<"up", None>>, pc' = pc,
             Stores(x, Row(c, 0, loaded[x]["intermediate"].key, None))
      PROVE  \E r \in RowSet : EnrolsRow(x, r)
  <2>1. c \in Held /\ 0 \in Nat
    BY Zenon DEF Held
  <2>2. PICK r \in RowSet : r = Row(c, 0, loaded[x]["intermediate"].key, None)
    BY Zenon, <1>1, <1>2, <1>3, <2>1
  <2>3. /\ r.kind = c /\ r.ref = None /\ r.signer = loaded[x]["intermediate"].key
        /\ Stores(x, r)
    <3>1. Stores(x, r)
      BY Zenon, <1>7, <2>2
    <3>2. QED
      BY <2>2, <3>1, Zenon DEF Row
  <2>4. r.kind \in {"server-tls", "tsa"}
    BY Zenon, <2>3
  <2>5. EnrolsRow(x, r)
    BY Zenon, <1>7, <2>3, <2>4 DEF EnrolsRow
  <2>6. QED
    BY Zenon, <2>5
<1>8. QED
  BY Zenon, <1>5, <1>6, <1>7 DEF Enrols

LEMMA EnrolsTyped ==
  ASSUME Typed, NEW x \in Replicas, Enrols(x)
  PROVE  Typed'
<1>1. \A c \in Held : After(x, c) \in AllPoints
  BY Zenon DEF After, AllPoints, Inside, Generating, ToTSA, ToServer, ToIntermediate, ToRoot, Making,
         Held
<1>2. <<"role", None>> \in AllPoints
  BY Zenon DEF AllPoints, Inside, Generating, ToTSA, ToServer
<1>3. PICK r \in RowSet : Stores(x, r)
  BY Zenon, EnrolsARow DEF EnrolsRow
<1>4. rows' \in Seq(RowSet)
  BY <1>3 DEF Stores, Typed
<1>5. pc' \in [Replicas -> AllPoints]
  BY Zenon, <1>1, <1>2 DEF Typed, Enrols
<1>6. QED
  BY Zenon, <1>3, <1>4, <1>5 DEF Typed, Stores

LEMMA GenerateTyped ==
  ASSUME Typed, NEW x \in Replicas, NEW c \in Held, Generate(x, c)
  PROVE  Typed'
<1>1. PICK k \in Nat : /\ keys' = [keys EXCEPT ![Keystore[x]][c] = k]
                       /\ cache' = [cache EXCEPT ![x][c] = IF Replaces THEN k ELSE 0]
                       /\ local' = [local EXCEPT ![x].key[c] = k]
  <2>1. keys[Keystore[x]][c] \in Nat /\ fresh \in Nat
    BY StartupAssumption DEF ConstantsOK, Typed
  <2>2. QED
    BY Zenon, <2>1 DEF Generate
<1>2. keys' \in [Keystores -> [Held -> Nat]]
  BY Zenon, <1>1, StartupAssumption DEF ConstantsOK, Typed
<1>3. cache' \in [Replicas -> [Held -> Nat]]
  BY <1>1, Zenon DEF Typed
<1>4. [local[x].key EXCEPT ![c] = k] \in [Held -> Nat]
  BY <1>1, Zenon DEF Typed, Locals
<1>5. local' \in [Replicas -> Locals]
  <2>1. [local[x] EXCEPT !.key[c] = k] \in Locals
    <3>1. local[x] \in Locals
      BY Zenon DEF Typed
    <3>2. QED
      BY Zenon, <1>4, <3>1 DEF Locals
  <2>2. QED
    BY Zenon, <1>1, <2>1 DEF Typed
<1>6. fresh' \in Nat \ {0}
  BY DEF Generate, Typed
<1>7. pc' \in [Replicas -> AllPoints]
  <2>1. <<"persist", c>> \in AllPoints
    BY Zenon DEF AllPoints, Inside, Generating, ToTSA, ToServer, ToIntermediate, ToRoot, Making, Held
  <2>2. QED
    BY Zenon, <2>1 DEF Typed, Generate, Goto
<1>8. QED
  BY Zenon, <1>2, <1>3, <1>5, <1>6, <1>7 DEF Typed, Generate, store, counters

LEMMA LoadsTyped ==
  ASSUME Typed, Rowed, NEW x \in Replicas, NEW c \in Held, Loads(x, c)
  PROVE  Typed'
<1>1. Get(x, c) \in Nat
  BY StartupAssumption DEF ConstantsOK, Get, Typed
<1>2. Latest(c) \in RowSet
  <2>1. PICK i \in Kind(c) : Latest(c) = rows[i]
    BY Zenon, LatestIsRow DEF Loads
  <2>2. i \in DOMAIN rows /\ rows \in Seq(RowSet)
    BY Zenon DEF Kind, Typed
  <2>3. QED
    BY <2>1, <2>2
<1>3. cache' \in [Replicas -> [Held -> Nat]]
  BY <1>1, Zenon DEF Typed, Loads
<1>4. [cert |-> Latest(c), key |-> Get(x, c)] \in Material
  BY <1>1, <1>2, Zenon DEF Material
<1>5. loaded' \in [Replicas -> [Held -> Material]]
  BY Zenon, <1>4 DEF Typed, Loads
<1>6. AfterLoad(x, c) \in AllPoints
  BY Zenon DEF AfterLoad, AllPoints, Through, Held
<1>7. QED
  BY Zenon, <1>3, <1>5, <1>6 DEF Typed, Loads

LEMMA StepTyped ==
  ASSUME Typed, Rowed, NEW x \in Replicas, ReplicaStep(x)
  PROVE  Typed'
<1>1. CASE SessionLost(x)
  BY <1>1 DEF SessionLost, Typed, store
<1>2. QED
  BY Zenon, <1>1, MovesTyped, EndsTyped, EnrolsTyped, GenerateTyped, LoadsTyped DEF ReplicaStep

-----------------------------------------------------------------------------
(* What appending row r does to the rows of each kind. *)
LEMMA Appended ==
  ASSUME Typed, NEW r \in RowSet, rows' = Append(rows, r)
  PROVE  /\ Len(rows) \in Nat /\ Len(rows) + 1 \notin DOMAIN rows
         /\ DOMAIN rows' = DOMAIN rows \cup {Len(rows) + 1}
         /\ \A i \in DOMAIN rows : rows'[i] = rows[i] /\ i \in Nat /\ i <= Len(rows)
         /\ rows'[Len(rows) + 1] = r
         /\ \A c : Kind(c)' = IF r.kind = c THEN Kind(c) \cup {Len(rows) + 1} ELSE Kind(c)
<1>1. rows \in Seq(RowSet) /\ Len(rows) \in Nat /\ DOMAIN rows = 1..Len(rows)
  BY DEF Typed
<1>2. /\ DOMAIN rows' = 1..(Len(rows) + 1)
      /\ rows'[Len(rows) + 1] = r
      /\ \A i \in 1..Len(rows) : rows'[i] = rows[i]
  BY <1>1
<1>3. /\ Len(rows) + 1 \notin DOMAIN rows
      /\ DOMAIN rows' = DOMAIN rows \cup {Len(rows) + 1}
      /\ \A i \in DOMAIN rows : i \in Nat /\ i <= Len(rows)
  BY <1>1, <1>2
<1>4. \A c : Kind(c)' = IF r.kind = c THEN Kind(c) \cup {Len(rows) + 1} ELSE Kind(c)
  BY <1>1, <1>2, <1>3, Zenon DEF Kind
<1>5. QED
  BY <1>1, <1>2, <1>3, <1>4, Zenon

LEMMA StepRowed ==
  ASSUME Typed, Rowed, NEW x \in Replicas, ReplicaStep(x)
  PROVE  Rowed'
<1>1. CASE rows' = rows
  BY <1>1 DEF Rowed, Kind
<1>2. CASE Enrols(x)
  <2>1. PICK r \in RowSet : rows' = Append(rows, r) /\ r.ref \in {r.kind, None}
    BY Zenon, <1>2, EnrolsARow DEF EnrolsRow, Stores
  <2>2. \A i \in DOMAIN rows' : rows'[i].ref \in {rows'[i].kind, None}
    BY <2>1, Appended DEF Rowed
  <2>3. ASSUME NEW c \in Held, Kind(c)' # {}
        PROVE  \E i \in Kind(c)' : \A j \in Kind(c)' : j <= i
    <3>1. CASE r.kind = c
      <4>1. \A j \in Kind(c) : j \in Nat /\ j <= Len(rows)
        BY <2>1, Appended, Zenon DEF Kind
      <4>2. Len(rows) + 1 \in Kind(c)' /\ \A j \in Kind(c)' : j <= Len(rows) + 1
        BY <2>1, <3>1, <4>1, Appended, SMTT(20)
      <4>3. QED
        BY <4>2, Zenon
    <3>2. CASE r.kind # c
      <4>1. Kind(c)' = Kind(c)
        BY <2>1, <3>2, Appended, Zenon
      <4>2. QED
        BY <2>3, <4>1, Zenon DEF Rowed
    <3>3. QED
      BY <3>1, <3>2, Zenon
  <2>4. QED
    BY <2>2, <2>3, Zenon DEF Rowed
<1>3. QED
  BY Zenon, <1>1, <1>2 DEF ReplicaStep, Moves, Ends, Generate, Loads, SessionLost, store

(* What a step of x leaves alone: the other replicas, and the rows. *)
LEMMA Frame ==
  ASSUME Typed, NEW x \in Replicas, ReplicaStep(x)
  PROVE  /\ \A y \in Replicas : y # x =>
              /\ pc'[y] = pc[y] /\ local'[y] = local[y] /\ loaded'[y] = loaded[y]
              /\ cache'[y] = cache[y]
         /\ \A i \in DOMAIN rows : i \in DOMAIN rows' /\ rows'[i] = rows[i]
         /\ \A c : Kind(c) \subseteq Kind(c)'
<1>1. ASSUME NEW y \in Replicas, y # x
      PROVE  /\ pc'[y] = pc[y] /\ local'[y] = local[y] /\ loaded'[y] = loaded[y]
             /\ cache'[y] = cache[y]
  <2>1. pc'[y] = pc[y]
    BY Zenon, <1>1 DEF Typed, ReplicaStep, Moves, Ends, Gone, Enrols, Generate, Goto, Loads, SessionLost
  <2>2. local'[y] = local[y]
    BY Zenon, <1>1 DEF Typed, ReplicaStep, Moves, Ends, Gone, Enrols, Stores, Generate, Loads,
                       SessionLost
  <2>3. loaded'[y] = loaded[y]
    BY Zenon, <1>1 DEF Typed, ReplicaStep, Moves, Ends, Gone, Enrols, Stores, Generate, Loads,
                       SessionLost
  <2>4. cache'[y] = cache[y]
    BY Zenon, <1>1 DEF Typed, ReplicaStep, Moves, Ends, Gone, Enrols, Stores, Generate, Loads,
                       SessionLost
  <2>5. QED
    BY Zenon, <2>1, <2>2, <2>3, <2>4
<1>2. CASE rows' = rows
  BY Zenon, <1>1, <1>2 DEF Kind
<1>3. CASE Enrols(x)
  <2>1. PICK r \in RowSet : rows' = Append(rows, r)
    BY Zenon, <1>3, EnrolsARow DEF EnrolsRow, Stores
  <2>2. QED
    BY <1>1, <2>1, Appended, SMTT(20)
<1>4. QED
  BY Zenon, <1>2, <1>3 DEF ReplicaStep, Moves, Ends, Generate, Loads, SessionLost, store

LEMMA KeyMade ==
  ASSUME Typed, NEW x \in Replicas, NEW c \in Held, Generate(x, c)
  PROVE  /\ Keystore[x] \in Keystores
         /\ keys'[Keystore[x]][c] # 0 /\ local'[x].key[c] = keys'[Keystore[x]][c]
         /\ \A e \in Held : e # c => local'[x].key[e] = local[x].key[e]
         /\ \A d \in Keystores, e \in Held :
              d # Keystore[x] \/ e # c => keys'[d][e] = keys[d][e]
         /\ ~Replaces /\ keys[Keystore[x]][c] # 0 => keys' = keys
         /\ pc[x] = <<"create", c>> /\ pc'[x] = <<"persist", c>>
         /\ UNCHANGED <<lock, rows, loaded, lost>>
<1>1. PICK d \in Keystores : d = Keystore[x]
  BY StartupAssumption, Zenon DEF ConstantsOK
<1>2. PICK k \in Nat \ {0} : /\ k = IF Replaces \/ keys[d][c] = 0 THEN fresh ELSE keys[d][c]
                             /\ keys' = [keys EXCEPT ![d][c] = k]
                             /\ local' = [local EXCEPT ![x].key[c] = k]
  <2>1. keys[d][c] \in Nat /\ fresh \in Nat \ {0}
    BY Zenon DEF Typed
  <2>2. QED
    BY <1>1, <2>1, Zenon DEF Generate
<1>3. /\ keys'[d][c] = k
      /\ \A b \in Keystores, e \in Held : b # d \/ e # c => keys'[b][e] = keys[b][e]
  BY <1>2, Zenon DEF Typed
<1>4. local[x] \in Locals /\ local'[x] = [local[x] EXCEPT !.key[c] = k]
  BY <1>2, Zenon DEF Typed
<1>5. local'[x].key[c] = k /\ \A e \in Held : e # c => local'[x].key[e] = local[x].key[e]
  BY <1>4, Zenon DEF Locals
<1>6. ASSUME ~Replaces, keys[d][c] # 0
      PROVE  keys' = keys
  BY <1>2, <1>6, Zenon DEF Typed
<1>7. /\ pc[x] = <<"create", c>> /\ pc'[x] = <<"persist", c>>
      /\ UNCHANGED <<lock, rows, loaded, lost>>
  BY Zenon DEF Generate, Goto, Typed, store, counters
<1>8. QED
  BY <1>1, <1>2, <1>3, <1>5, <1>6, <1>7, Zenon

(* Where a move leads, by the sets of points. *)
Advance(x, p) ==
  /\ p \in Generating \ ToRoot => pc[x] \in Generating \ ToRoot
  /\ p \in Generating \ ToIntermediate => pc[x] \in Generating \ ToIntermediate
  /\ \A c \in Held : p # <<"persist", c>>
  /\ p \in Through => pc[x] \in Through \cup (Generating \ ToRoot) \/ Kind("root") # {}
  /\ p \in Through => p \in {<<"unlock", None>>, <<"load", "server-tls">>}
  /\ \A c \in Held : p \in Ahead(c) => \/ pc[x] \in Ahead(c)
                                       \/ (pc[x] = <<"check", None>> /\ Kind("root") = {})
  /\ p \in Inside => lock' = x \/ (pc[x] \in Inside /\ lock' = lock)
  /\ \A c \in Held : p = <<"create", c>> => keys[Keystore[x]][c] = 0
  /\ p = <<"check", None>> => lock' = x
  /\ lock' = lock \/ lock \in {None, x}

LEMMA MovesAdvance ==
  ASSUME Typed, NEW x \in Replicas, Moves(x), NEW p, p = pc'[x]
  PROVE  Advance(x, p)
<1> USE DEF Advance, Inside, Generating, Through, Ahead, ToTSA, ToServer, ToIntermediate, ToRoot, Making,
            Held, Down
<1>1. ASSUME pc[x] \in {Down} \cup {<<"failed", c>> : c \in Held},
             p = <<"lock", None>>, lock' = lock
      PROVE  Advance(x, p)
  BY <1>1
<1>2. ASSUME pc[x] = <<"lock", None>>,
             p = <<"check", None>>, lock' = x, lock = None
      PROVE  Advance(x, p)
  BY <1>2
<1>3. ASSUME pc[x] = <<"check", None>>,
             p = <<"unlock", None>>, Kind("root") # {}, lock' = lock
      PROVE  Advance(x, p)
  BY <1>3
<1>4. ASSUME pc[x] = <<"check", None>>,
             p = <<"profiles", None>>, Kind("root") = {}, lock' = lock
      PROVE  Advance(x, p)
  BY <1>4
<1>5. ASSUME pc[x] = <<"profiles", None>>,
             p = <<"exists", "root">>, lock' = lock
      PROVE  Advance(x, p)
  BY <1>5
<1>6. ASSUME NEW c \in Held, pc[x] = <<"exists", c>>, p = <<"create", c>>,
             keys[Keystore[x]][c] = 0, lock' = lock
      PROVE  Advance(x, p)
  BY <1>6
<1>7. ASSUME pc[x] = <<"role", None>>,
             p = <<"exists", "server-tls">>, lock' = lock
      PROVE  Advance(x, p)
  BY <1>7
<1>8. ASSUME pc[x] = <<"output", None>>,
             p = <<"audit", None>>, lock' = lock
      PROVE  Advance(x, p)
  BY <1>8
<1>9. ASSUME pc[x] = <<"audit", None>>,
             p = <<"unlock", None>>, lock' = lock
      PROVE  Advance(x, p)
  BY <1>9
<1>10. ASSUME pc[x] = <<"unlock", None>>,
             p = <<"load", "server-tls">>,
             lock' = lock \/ lock' = IF lock = x THEN None ELSE lock
      PROVE  Advance(x, p)
  BY <1>10, SMTT(20)
<1>11. QED
  <2>1. \A q : pc' = [pc EXCEPT ![x] = q] => p = q
    BY Zenon DEF Typed
  <2>2. QED
    BY Zenon, <1>1, <1>2, <1>3, <1>4, <1>5, <1>6, <1>7, <1>8, <1>9, <1>10, <2>1 DEF Moves

LEMMA MovesKnows ==
  ASSUME Typed, NEW x \in Replicas, Knows(x), HasRoot(x), Moves(x)
  PROVE  Knows(x)' /\ HasRoot(x)'
<1>1. local'[x].key = local[x].key /\ rows' = rows
  BY Zenon DEF Moves
<1>2. Kind("root")' = Kind("root")
  BY Zenon, <1>1 DEF Kind
<1>3. PICK p : p = pc'[x]
  BY Zenon
<1>4. Advance(x, p)
  BY Zenon, <1>3, MovesAdvance
<1>5. ToRoot \subseteq ToIntermediate
  BY Zenon DEF ToIntermediate
<1>6. Knows(x)'
  <2>1. "root" \in Held /\ "intermediate" \in Held
    BY Zenon DEF Held
  <2>2. p \in Generating /\ p \notin ToRoot \ {<<"persist", "root">>} => local[x].key["root"] # 0
    BY Zenon, <1>4, <2>1 DEF Knows, Advance
  <2>3. p \in Generating /\ p \notin ToIntermediate \ {<<"persist", "intermediate">>}
          => local[x].key["intermediate"] # 0
    BY Zenon, <1>4, <2>1 DEF Knows, Advance
  <2>4. QED
    BY Zenon, <1>1, <1>3, <1>4, <2>2, <2>3 DEF Knows, Advance
<1>7. HasRoot(x)'
  BY <1>2, <1>3, <1>4, Zenon DEF HasRoot, Advance
<1>8. QED
  BY <1>6, <1>7, Zenon

LEMMA EndsKnows ==
  ASSUME Typed, NEW x \in Replicas, Ends(x)
  PROVE  Knows(x)' /\ HasRoot(x)'
<1>1. pc'[x] \in {Down} \cup {<<"failed", c>> : c \in Held}
  BY Zenon DEF Ends, Gone, Typed
<1>2. PICK p : p = pc'[x]
  BY Zenon
<1>3. p \notin Generating /\ p \notin Through /\ \A c \in Held : p # <<"persist", c>>
  BY <1>1, <1>2, SMTT(20) DEF Generating, Through, ToTSA, ToServer, ToIntermediate, ToRoot, Making, Down
<1>4. QED
  BY Zenon, <1>2, <1>3 DEF Knows, HasRoot

(* The certificates come in the order of Run. *)
LEMMA AfterPoints ==
  ASSUME NEW x, NEW c \in Held
  PROVE  /\ \A e \in Held : After(x, c) # <<"persist", e>>
         /\ After(x, c) \notin Through /\ After(x, c) \in Generating
         /\ After(x, c) \notin ToRoot
         /\ c = "root" => After(x, c) \in ToIntermediate
         /\ \A e \in Held : After(x, c) \in Ahead(e) => <<"persist", c>> \in Ahead(e)
         /\ After(x, c) \notin Ahead(c)
         /\ \A e \in Held : After(x, c) # <<"create", e>>
BY Zenon DEF After, Generating, Through, Ahead, ToTSA, ToServer, ToIntermediate, ToRoot, Making, Held

LEMMA EnrolsKnows ==
  ASSUME Typed, Made, NEW x \in Replicas, NEW r \in RowSet, EnrolsRow(x, r)
  PROVE  Knows(x)' /\ HasRoot(x)' /\ Kind("root")' # {}
<1>1. /\ \A c : Kind(c)' = IF r.kind = c THEN Kind(c) \cup {Len(rows) + 1} ELSE Kind(c)
      /\ local'[x].key = local[x].key
  BY Appended, Zenon DEF EnrolsRow, Stores
<1>2. PICK p : p = pc'[x]
  BY Zenon
<1>3. CASE \E c \in Held : /\ pc[x] = <<"persist", c>> /\ pc' = [pc EXCEPT ![x] = After(x, c)]
                           /\ r.kind = c
  <2>1. PICK c \in Held : pc[x] = <<"persist", c>> /\ p = After(x, c) /\ r.kind = c
    BY Zenon, <1>2, <1>3 DEF Typed
  <2>2. <<"persist", c>> \in Generating /\ (c # "root" => <<"persist", c>> \notin ToRoot)
        /\ (c \notin {"root", "intermediate"} => <<"persist", c>> \notin ToIntermediate)
    BY Zenon DEF Generating, ToTSA, ToServer, ToIntermediate, ToRoot, Making, Held
  <2>3. local[x].key["root"] # 0
    BY <2>1, <2>2, Zenon DEF Made, Knows
  <2>4. c # "root" => local[x].key["intermediate"] # 0
    BY <2>1, <2>2, Zenon DEF Made, Knows
  <2>5. Knows(x)'
    <3>1. p \in ToIntermediate \ {<<"persist", "intermediate">>} \/ c # "root"
      BY <2>1, AfterPoints, Zenon DEF Held
    <3>2. \A e \in Held : p # <<"persist", e>>
      BY Zenon, <2>1, AfterPoints
    <3>3. QED
      BY Zenon, <1>1, <1>2, <2>3, <2>4, <3>1, <3>2 DEF Knows
  <2>6. Kind("root")' # {}
    <3>1. CASE c = "root"
      BY Zenon, <1>1, <2>1, <3>1
    <3>2. CASE c # "root"
      BY <1>1, <2>1, <2>2, <3>2, Zenon DEF Made, HasRoot
    <3>3. QED
      BY <3>1, <3>2, Zenon
  <2>7. QED
    BY Zenon, <2>5, <2>6 DEF HasRoot
<1>4. CASE pc[x] = <<"admin", None>> /\ pc' = [pc EXCEPT ![x] = <<"role", None>>]
  <2>1. p = <<"role", None>>
    BY Zenon, <1>2, <1>4 DEF Typed
  <2>2. pc[x] \in Generating /\ pc[x] \notin ToIntermediate /\ pc[x] \notin ToRoot
        /\ \A c \in Held : p # <<"persist", c>>
    BY <1>4, <2>1 DEF Generating, ToTSA, ToServer, ToIntermediate, ToRoot, Making, Held
  <2>3. local[x].key["root"] # 0 /\ local[x].key["intermediate"] # 0 /\ Kind("root") # {}
    BY <2>2, Zenon DEF Made, Knows, HasRoot
  <2>4. Kind("root")' # {}
    BY <1>1, <2>3, Zenon
  <2>5. QED
    BY Zenon, <1>1, <1>2, <2>2, <2>3, <2>4 DEF Knows, HasRoot
<1>5. CASE pc[x] = <<"up", None>> /\ pc' = pc
  <2>1. pc[x] \in Through /\ pc[x] \notin Generating /\ \A c \in Held : pc[x] # <<"persist", c>>
    BY <1>5, SMTT(20) DEF Through, Generating, ToTSA, ToServer, ToIntermediate, ToRoot, Making
  <2>2. Kind("root") # {}
    BY <2>1, Zenon DEF Made, HasRoot
  <2>3. Kind("root")' # {}
    BY <1>1, <2>2, Zenon
  <2>4. QED
    BY Zenon, <1>5, <2>1, <2>3 DEF Knows, HasRoot
<1>6. QED
  BY Zenon, <1>3, <1>4, <1>5 DEF EnrolsRow

LEMMA GenerateKnows ==
  ASSUME Typed, Made, NEW x \in Replicas, NEW c \in Held, Generate(x, c)
  PROVE  Knows(x)' /\ HasRoot(x)' /\ (c # "root" => Kind("root") # {})
<1>1. PICK p : p = pc'[x]
  BY Zenon
<1>2. pc[x] = <<"create", c>> /\ p = <<"persist", c>> /\ local'[x].key[c] # 0
      /\ (\A e \in Held : e # c => local'[x].key[e] = local[x].key[e]) /\ rows' = rows
  BY <1>1, KeyMade
<1>3. pc[x] \in Generating /\ p \in Generating /\ p \notin Through
      /\ (c = "root" => p \in ToRoot) /\ (c # "root" => pc[x] \notin ToRoot)
      /\ (c = "root" => p \in ToIntermediate)
      /\ (c = "intermediate" => p \in ToIntermediate)
      /\ (c \notin {"root", "intermediate"} => pc[x] \notin ToIntermediate)
      /\ \A e \in Held : p = <<"persist", e>> => e = c
  BY <1>2, SMTT(20) DEF Generating, Through, ToTSA, ToServer, ToIntermediate, ToRoot, Making, Held
<1>4. c # "root" => local[x].key["root"] # 0 /\ Kind("root") # {}
  BY <1>3, Zenon DEF Made, Knows, HasRoot
<1>5. c \notin {"root", "intermediate"} => local[x].key["intermediate"] # 0
  BY <1>3, Zenon DEF Made, Knows
<1>6. "root" \in Held /\ "intermediate" \in Held
  BY Zenon DEF Held
<1>7. Knows(x)'
  <2>1. local'[x].key["root"] # 0
    BY <1>2, <1>4, <1>6, Zenon
  <2>2. c # "root" => local'[x].key["intermediate"] # 0
    BY <1>2, <1>5, <1>6, Zenon
  <2>3. \A e \in Held : p = <<"persist", e>> => local'[x].key[e] # 0
    BY <1>2, <1>3, Zenon
  <2>4. c = "root" => p \in ToIntermediate \ {<<"persist", "intermediate">>}
    BY <1>3, <1>6, Zenon
  <2>5. QED
    BY Zenon, <1>1, <2>1, <2>2, <2>3, <2>4 DEF Knows
<1>8. Kind("root")' = Kind("root")
  BY Zenon, <1>2 DEF Kind
<1>9. QED
  BY Zenon, <1>1, <1>3, <1>4, <1>7, <1>8 DEF HasRoot

LEMMA LoadsKnows ==
  ASSUME Typed, Made, NEW x \in Replicas, NEW c \in Held, Loads(x, c)
  PROVE  Knows(x)' /\ HasRoot(x)'
<1>1. PICK p : p = pc'[x]
  BY Zenon
<1>2. p = AfterLoad(x, c) /\ pc[x] = <<"load", c>> /\ rows' = rows
  BY Zenon, <1>1 DEF Loads, Typed
<1>3. p \notin Generating /\ pc[x] \in Through /\ \A e \in Held : p # <<"persist", e>>
  BY <1>2, Zenon DEF AfterLoad, Generating, Through, ToTSA, ToServer, ToIntermediate, ToRoot, Making, Held
<1>4. Kind("root") # {} /\ Kind("root")' = Kind("root")
  BY Zenon, <1>2, <1>3 DEF Made, HasRoot, Kind
<1>5. QED
  BY Zenon, <1>1, <1>3, <1>4 DEF Knows, HasRoot

LEMMA StepMade ==
  ASSUME Typed, Made, NEW x \in Replicas, ReplicaStep(x)
  PROVE  Made'
<1>1. ASSUME NEW y \in Replicas, y # x
      PROVE  Knows(y)' /\ HasRoot(y)'
  <2>1. pc'[y] = pc[y] /\ local'[y] = local[y] /\ (Kind("root") # {} => Kind("root")' # {})
    BY Zenon, <1>1, Frame
  <2>2. Knows(y) /\ HasRoot(y)
    BY Zenon DEF Made
  <2>3. QED
    BY Zenon, <2>1, <2>2 DEF Knows, HasRoot
<1>2. Knows(x)' /\ HasRoot(x)'
  <2>1. CASE SessionLost(x)
    BY Zenon, <2>1 DEF SessionLost, store, Made, Knows, HasRoot, Kind
  <2>2. QED
    BY Zenon, <2>1, MovesKnows, EndsKnows, EnrolsARow, EnrolsKnows, GenerateKnows, LoadsKnows
       DEF ReplicaStep, Made
<1>3. Kind("root")' = {} => rows' = <<>>
  <2>1. CASE rows' = rows
    BY Zenon, <2>1 DEF Made, Kind
  <2>2. CASE Enrols(x)
    BY Zenon, <2>2, EnrolsARow, EnrolsKnows
  <2>3. QED
    BY Zenon, <2>1, <2>2 DEF ReplicaStep, Moves, Ends, Generate, Loads, SessionLost, store
<1>4. ASSUME NEW d \in Keystores, keys'[d]["intermediate"] # 0
      PROVE  Kind("root")' # {}
  <2>1. CASE keys' = keys
    BY Zenon, <1>4, <2>1, Frame DEF Made
  <2>2. ASSUME NEW c \in Held, Generate(x, c)
        PROVE  Kind("root")' # {}
    <3>1. CASE c = "root"
      <4>1. keys'[d]["intermediate"] = keys[d]["intermediate"]
        BY <2>2, <3>1, KeyMade, SMTT(20) DEF Held
      <4>2. QED
        BY Zenon, <1>4, <4>1, Frame DEF Made
    <3>2. CASE c # "root"
      BY Zenon, <2>2, <3>2, GenerateKnows, Frame
    <3>3. QED
      BY <3>1, <3>2, Zenon
  <2>3. QED
    BY Zenon, <2>1, <2>2 DEF ReplicaStep, Moves, Ends, Enrols, Stores, Loads, SessionLost
<1>5. QED
  BY Zenon, <1>1, <1>2, <1>3, <1>4 DEF Made

-----------------------------------------------------------------------------
(* What is loaded stays a row, and nothing but a load gets a replica further. *)
LEMMA LoadedKept ==
  ASSUME Typed, LoadedInv, NEW x \in Replicas, ReplicaStep(x), NEW y \in Replicas,
         NEW c \in Held, loaded'[y][c] = loaded[y][c], loaded'[y][c].key # 0
  PROVE  \E i \in Kind(c)' : rows'[i] = loaded'[y][c].cert
<1>1. PICK i \in Kind(c) : rows[i] = loaded[y][c].cert
  BY Zenon DEF LoadedInv, HoldsRows
<1>2. i \in Kind(c)' /\ rows'[i] = rows[i]
  BY Zenon, <1>1, Frame DEF Kind
<1>3. QED
  BY Zenon, <1>1, <1>2

LEMMA LoadedElse ==
  ASSUME Typed, LoadedInv, NEW x \in Replicas, ReplicaStep(x),
         \/ loaded'[x] = NotLoaded /\ pc'[x] \notin Loading
         \/ /\ loaded'[x] = loaded[x]
            /\ pc'[x] \notin Loading \/ (pc'[x] = pc[x] /\ local'[x].tsa = local[x].tsa)
  PROVE  LoadedInv'
<1>1. ASSUME NEW y \in Replicas, NEW c \in Held, loaded'[y][c].key # 0
      PROVE  \E i \in Kind(c)' : rows'[i] = loaded'[y][c].cert
  <2>1. loaded'[y][c] = loaded[y][c]
    <3>1. CASE y # x
      BY Zenon, <3>1, Frame
    <3>2. CASE y = x
      <4>1. NotLoaded[c].key = 0
        BY Zenon DEF NotLoaded
      <4>2. QED
        BY Zenon, <1>1, <3>2, <4>1
    <3>3. QED
      BY <3>1, <3>2, Zenon
  <2>2. QED
    BY Zenon, <1>1, <2>1, LoadedKept
<1>2. ASSUME NEW y \in Replicas, pc'[y] \in Loading
      PROVE  pc'[y] = pc[y] /\ loaded'[y] = loaded[y] /\ local'[y].tsa = local[y].tsa
  <2>1. CASE y # x
    BY Zenon, <2>1, Frame
  <2>2. CASE y = x
    BY Zenon, <1>2, <2>2
  <2>3. QED
    BY <2>1, <2>2, Zenon
<1>3. ASSUME NEW y \in Replicas PROVE LoadsInOrder(y)'
  <2>1. <<"load", "tsa">> \in Loading /\ <<"up", None>> \in Loading
    BY Zenon DEF Loading
  <2>2. LoadsInOrder(y)
    BY Zenon DEF LoadedInv
  <2>3. QED
    BY Zenon, <1>2, <2>1, <2>2 DEF LoadsInOrder
<1>4. QED
  BY Zenon, <1>1, <1>3 DEF LoadedInv, HoldsRows

LEMMA LoadsLoaded ==
  ASSUME Typed, Rowed, LoadedInv, NEW x \in Replicas, NEW c \in Held, Loads(x, c)
  PROVE  LoadedInv'
<1>1. ReplicaStep(x) /\ rows' = rows /\ local' = local /\ pc[x] = <<"load", c>>
  BY Zenon DEF ReplicaStep, Loads
<1>2. PICK m : m = [cert |-> Latest(c), key |-> Get(x, c)] /\ m.cert = Latest(c) /\ m.key # 0
  <2>1. PICK l : l = Latest(c)
    BY Zenon
  <2>2. PICK k : k = Get(x, c)
    BY Zenon
  <2>3. k # 0
    BY Zenon, <2>2 DEF Loads
  <2>4. [cert |-> l, key |-> k].cert = l /\ [cert |-> l, key |-> k].key # 0
    BY <2>3, Zenon
  <2>5. QED
    BY Zenon, <2>1, <2>2, <2>4
<1>3. /\ loaded'[x][c] = m
      /\ \A e \in Held : e # c => loaded'[x][e] = loaded[x][e]
  <2>1. loaded' = [loaded EXCEPT ![x][c] = m] /\ loaded[x] \in [Held -> Material]
    BY Zenon, <1>2 DEF Loads, Typed
  <2>2. loaded'[x] = [loaded[x] EXCEPT ![c] = m]
    BY Zenon, <2>1 DEF Typed
  <2>3. QED
    BY Zenon, <2>1, <2>2
<1>4. ASSUME NEW y \in Replicas, NEW e \in Held, loaded'[y][e].key # 0
      PROVE  \E i \in Kind(e)' : rows'[i] = loaded'[y][e].cert
  <2>1. CASE y = x /\ e = c
    <3>1. PICK i \in Kind(c) : Latest(c) = rows[i]
      BY Zenon, LatestIsRow DEF Loads
    <3>2. i \in Kind(e)' /\ rows'[i] = loaded'[y][e].cert
      BY Zenon, <1>1, <1>2, <1>3, <2>1, <3>1 DEF Kind
    <3>3. QED
      BY Zenon, <3>2
  <2>2. CASE ~(y = x /\ e = c)
    <3>1. loaded'[y][e] = loaded[y][e]
      BY Zenon, <1>1, <1>3, <2>2, Frame
    <3>2. QED
      BY Zenon, <1>1, <1>4, <3>1, LoadedKept
  <2>3. QED
    BY <2>1, <2>2, Zenon
<1>5. ASSUME NEW y \in Replicas, y # x
      PROVE  pc'[y] = pc[y] /\ loaded'[y] = loaded[y] /\ local'[y] = local[y]
  BY Zenon, <1>1, <1>5, Frame
<1>6. PICK p : p = pc'[x] /\ p = AfterLoad(x, c)
  BY Zenon DEF Loads, Typed
<1>7. loaded'[x][c].key # 0
  BY <1>2, <1>3, Zenon
<1>8. "server-tls" \in Held /\ "intermediate" \in Held /\ "root" \in Held /\ "tsa" \in Held
  BY Zenon DEF Held
<1>9. /\ p \in Loading => loaded'[x]["server-tls"].key # 0
      /\ p \in Loading \ {<<"load", "intermediate">>} => loaded'[x]["intermediate"].key # 0
      /\ p \in {<<"load", "tsa">>, <<"up", None>>} => loaded'[x]["root"].key # 0
      /\ p = <<"up", None>> /\ local[x].tsa => loaded'[x]["tsa"].key # 0
  <2>1. CASE c = "server-tls"
    <3>1. p = <<"load", "intermediate">>
      BY <1>6, <2>1, Zenon DEF AfterLoad
    <3>2. QED
      BY <1>7, <2>1, <3>1, Zenon
  <2>2. CASE c = "intermediate"
    <3>1. p = <<"load", "root">> /\ loaded[x]["server-tls"].key # 0
      BY <1>1, <1>6, <2>2, SMTT(20) DEF AfterLoad, LoadedInv, LoadsInOrder, Loading
    <3>2. QED
      BY <1>3, <1>7, <1>8, <2>2, <3>1, Zenon
  <2>3. CASE c = "root"
    <3>1. /\ p = IF local[x].tsa THEN <<"load", "tsa">> ELSE <<"up", None>>
          /\ loaded[x]["server-tls"].key # 0 /\ loaded[x]["intermediate"].key # 0
      BY <1>1, <1>6, <2>3, SMTT(20) DEF AfterLoad, LoadedInv, LoadsInOrder, Loading
    <3>2. QED
      BY <1>3, <1>7, <1>8, <2>3, <3>1, Zenon
  <2>4. CASE c = "tsa"
    <3>1. /\ loaded[x]["server-tls"].key # 0 /\ loaded[x]["intermediate"].key # 0
          /\ loaded[x]["root"].key # 0
      <4>1. pc[x] \in Loading /\ pc[x] # <<"load", "intermediate">> /\ pc[x] = <<"load", "tsa">>
        BY <1>1, <2>4, SMTT(20) DEF Loading
      <4>2. LoadsInOrder(x)
        BY Zenon DEF LoadedInv
      <4>3. QED
        BY Zenon, <4>1, <4>2 DEF LoadsInOrder
    <3>2. QED
      BY <1>3, <1>7, <1>8, <2>4, <3>1, Zenon
  <2>5. QED
    BY <2>1, <2>2, <2>3, <2>4, Zenon DEF Held
<1>10. ASSUME NEW y \in Replicas PROVE LoadsInOrder(y)'
  <2>1. CASE y = x
    BY Zenon, <1>1, <1>6, <1>9, <2>1 DEF LoadsInOrder
  <2>2. CASE y # x
    BY Zenon, <1>5, <2>2 DEF LoadedInv, LoadsInOrder
  <2>3. QED
    BY <2>1, <2>2, Zenon
<1>11. QED
  BY Zenon, <1>4, <1>10 DEF LoadedInv, HoldsRows

LEMMA StepLoaded ==
  ASSUME Typed, Rowed, LoadedInv, NEW x \in Replicas, ReplicaStep(x)
  PROVE  LoadedInv'
<1>1. CASE Moves(x)
  <2>1. PICK p : p = pc'[x]
    BY Zenon
  <2>2. \/ p \in {<<"lock", None>>, <<"check", None>>, <<"unlock", None>>,
                  <<"profiles", None>>, <<"audit", None>>, <<"load", "server-tls">>,
                  <<"exists", "root">>, <<"exists", "server-tls">>}
        \/ \E c \in Held : p = <<"create", c>>
    BY Zenon, <1>1, <2>1 DEF Moves, Typed
  <2>3. p \notin Loading
    BY <2>2 DEF Loading
  <2>4. loaded' = loaded
    BY <1>1, Zenon DEF Moves
  <2>5. QED
    BY Zenon, <2>1, <2>3, <2>4, LoadedElse
<1>2. CASE Ends(x)
  <2>1. PICK p \in {Down} \cup {<<"failed", c>> : c \in Held} : Gone(x, p)
    BY Zenon, <1>2 DEF Ends
  <2>2. p \notin Loading
    BY <2>1, SMTT(20) DEF Loading, Down
  <2>3. pc'[x] = p /\ loaded'[x] = NotLoaded
    BY Zenon, <2>1 DEF Gone, Typed
  <2>4. QED
    BY Zenon, <2>2, <2>3, LoadedElse
<1>3. CASE Enrols(x)
  <2>1. PICK r \in RowSet : EnrolsRow(x, r)
    BY Zenon, <1>3, EnrolsARow
  <2>2. loaded' = loaded /\ local'[x].tsa = local[x].tsa
    BY Zenon, <2>1 DEF EnrolsRow, Stores
  <2>3. PICK p : p = pc'[x]
    BY Zenon
  <2>4. (\E c \in Held : p = After(x, c)) \/ p = <<"role", None>> \/ p = pc[x]
    BY Zenon, <2>1, <2>3 DEF EnrolsRow, Typed
  <2>5. p \notin Loading \/ p = pc[x]
    BY <2>4, SMTT(20) DEF After, Loading
  <2>6. QED
    BY Zenon, <2>2, <2>3, <2>5, LoadedElse
<1>4. ASSUME NEW c \in Held, Generate(x, c)
      PROVE  LoadedInv'
  <2>1. loaded' = loaded /\ pc'[x] = <<"persist", c>>
    BY Zenon, <1>4, KeyMade
  <2>2. <<"persist", c>> \notin Loading
    BY Zenon DEF Loading
  <2>3. QED
    BY Zenon, <2>1, <2>2, LoadedElse
<1>5. CASE SessionLost(x)
  <2>1. loaded' = loaded /\ pc' = pc /\ local' = local
    BY <1>5, Zenon DEF SessionLost
  <2>2. QED
    BY Zenon, <2>1, LoadedElse
<1>6. QED
  BY Zenon, <1>1, <1>2, <1>3, <1>4, <1>5, LoadsLoaded DEF ReplicaStep

-----------------------------------------------------------------------------
(* What a row of a kind we hold keys for says of its keys. *)
LEMMA RowSigned ==
  ASSUME Typed, Made, LoadedInv, NEW x \in Replicas, NEW r \in RowSet, EnrolsRow(x, r),
         r.kind \in Held
  PROVE  \/ /\ pc[x] = <<"persist", r.kind>> /\ r.ref = r.kind
            /\ r.key = local[x].key[r.kind] /\ r.key # 0
            /\ r.signer = local[x].key[Signer(r.kind)] /\ r.signer # 0
            /\ r.kind # "root" => local[x].key["intermediate"] # 0
         \/ /\ pc[x] = <<"up", None>> /\ r.kind \in {"server-tls", "tsa"} /\ r.ref = None
            /\ r.signer = loaded[x]["intermediate"].key /\ r.signer # 0
<1>1. r.kind # "default"
  BY Zenon DEF Held
<1>2. CASE \E c \in Held : /\ pc[x] = <<"persist", c>> /\ r.kind = c /\ r.ref = c
                           /\ r.key = local[x].key[c] /\ r.signer = local[x].key[Signer(c)]
  <2>1. PICK c \in Held : /\ pc[x] = <<"persist", c>> /\ r.kind = c /\ r.ref = c
                          /\ r.key = local[x].key[c] /\ r.signer = local[x].key[Signer(c)]
    BY Zenon, <1>2
  <2>2. pc[x] \in Generating /\ (pc[x] \notin ToRoot \/ pc[x] = <<"persist", "root">>)
        /\ (c # "root" => pc[x] \notin ToIntermediate \ {<<"persist", "intermediate">>})
    BY <2>1, SMTT(20) DEF Generating, ToTSA, ToServer, ToIntermediate, ToRoot, Making, Held
  <2>3. local[x].key["root"] # 0 /\ local[x].key[c] # 0
        /\ (c # "root" => local[x].key["intermediate"] # 0)
    BY Zenon, <2>1, <2>2 DEF Made, Knows
  <2>4. c = "root" => Signer(c) = "root"
    BY Zenon DEF Signer
  <2>5. Signer(c) \in {"root", "intermediate"}
    BY Zenon DEF Signer
  <2>6. QED
    BY Zenon, <2>1, <2>3, <2>4, <2>5
<1>3. CASE /\ pc[x] = <<"up", None>> /\ r.kind \in {"server-tls", "tsa"} /\ r.ref = None
           /\ r.signer = loaded[x]["intermediate"].key
  <2>1. pc[x] \in Loading \ {<<"load", "intermediate">>}
    BY <1>3, SMTT(20) DEF Loading
  <2>2. loaded[x]["intermediate"].key # 0
    BY Zenon, <2>1 DEF LoadedInv, LoadsInOrder
  <2>3. QED
    BY Zenon, <1>3, <2>2
<1>4. QED
  BY Zenon, <1>1, <1>2, <1>3 DEF EnrolsRow

LEMMA StepSigned ==
  ASSUME Typed, Made, LoadedInv, Signed, NEW x \in Replicas, ReplicaStep(x)
  PROVE  Signed'
<1>1. CASE rows' = rows
  BY Zenon, <1>1 DEF Signed, Kind
<1>2. CASE Enrols(x)
  <2>1. PICK r \in RowSet : EnrolsRow(x, r)
    BY Zenon, <1>2, EnrolsARow
  <2>2. rows' = Append(rows, r)
    BY Zenon, <2>1 DEF EnrolsRow, Stores
  <2>3. SUFFICES ASSUME NEW c \in Held, NEW i \in Kind(c)'
                 PROVE  rows'[i].signer # 0 /\ (rows'[i].ref = c => rows'[i].key # 0)
    BY Zenon DEF Signed
  <2>4. CASE i \in Kind(c)
    <3>1. rows'[i] = rows[i]
      BY Zenon, <2>4, Frame DEF Kind
    <3>2. QED
      BY Zenon, <2>4, <3>1 DEF Signed
  <2>5. CASE i \notin Kind(c)
    <3>1. r.kind = c /\ rows'[i] = r
      BY Zenon, <2>2, <2>5, Appended
    <3>2. c # None
      BY StartupAssumption, Zenon DEF ConstantsOK
    <3>3. QED
      BY Zenon, <2>1, <3>1, <3>2, RowSigned
  <2>6. QED
    BY <2>4, <2>5, Zenon
<1>3. QED
  BY Zenon, <1>1, <1>2 DEF ReplicaStep, Moves, Ends, Generate, Loads, SessionLost, store

-----------------------------------------------------------------------------
(* Without a lost session, or on a shared Vault, no key is ever replaced. *)
LEMMA KeysKept ==
  ASSUME Typed, Matching, Calm, NEW x \in Replicas, ReplicaStep(x), NEW d \in Keystores,
         NEW c \in Held, keys[d][c] # 0
  PROVE  keys'[d][c] = keys[d][c]
<1>1. CASE keys' = keys
  BY <1>1, Zenon
<1>2. ASSUME NEW e \in Held, Generate(x, e)
      PROVE  keys'[d][c] = keys[d][c]
  <2>1. CASE d # Keystore[x] \/ c # e
    <3>1. \A b \in Keystores, f \in Held : b # Keystore[x] \/ f # e => keys'[b][f] = keys[b][f]
      BY Zenon, <1>2, KeyMade
    <3>2. QED
      BY Zenon, <2>1, <3>1
  <2>2. CASE d = Keystore[x] /\ c = e
    <3>1. CASE SharedVault
      BY Zenon, <1>2, <2>2, <3>1, KeyMade DEF SharedVault
    <3>2. CASE lost = 0
      BY Zenon, <1>2, <2>2, <3>2, KeyMade DEF Matching, Alone, Sole
    <3>3. QED
      BY Zenon, <3>1, <3>2 DEF Calm
  <2>3. QED
    BY Zenon, <2>1, <2>2
<1>3. QED
  BY Zenon, <1>1, <1>2 DEF ReplicaStep, Moves, Ends, Enrols, Stores, Loads, SessionLost

LEMMA StepFaithful ==
  ASSUME Typed, Matching, Calm, NEW x \in Replicas, ReplicaStep(x)
  PROVE  Faithful'
<1>1. \A y \in Replicas : Keystore[y] \in Keystores
  BY StartupAssumption, Zenon DEF ConstantsOK
<1>2. ASSUME NEW y \in Replicas, NEW c \in Held, NEW v, v \in {0, keys[Keystore[y]][c]}
      PROVE  v \in {0, keys'[Keystore[y]][c]}
  BY Zenon, <1>1, <1>2, KeysKept
<1>3. ASSUME NEW y \in Replicas, NEW c \in Held
      PROVE  /\ local[y].key[c] \in {0, keys'[Keystore[y]][c]}
             /\ cache[y][c] \in {0, keys'[Keystore[y]][c]}
             /\ loaded[y][c].key \in {0, keys'[Keystore[y]][c]}
  BY Zenon, <1>2 DEF Matching, Faithful
<1>4. ASSUME NEW c \in Held
      PROVE  /\ local'[x].key[c] \in {0, keys'[Keystore[x]][c]}
             /\ cache'[x][c] \in {0, keys'[Keystore[x]][c]}
             /\ loaded'[x][c].key \in {0, keys'[Keystore[x]][c]}
  <2>1. CASE Moves(x) \/ Enrols(x) \/ SessionLost(x)
    <3>1. local'[x].key = local[x].key /\ cache' = cache /\ loaded' = loaded
      BY Zenon, <2>1 DEF Moves, Enrols, Stores, SessionLost
    <3>2. QED
      BY Zenon, <1>3, <3>1
  <2>2. CASE Ends(x)
    <3>1. local'[x] = NoLocal /\ cache'[x] = [e \in Held |-> 0] /\ loaded'[x] = NotLoaded
      BY Zenon, <2>2 DEF Ends, Gone, Typed
    <3>2. QED
      BY <3>1, SMTT(20) DEF NoLocal, NotLoaded
  <2>3. ASSUME NEW e \in Held, Generate(x, e)
        PROVE  /\ local'[x].key[c] \in {0, keys'[Keystore[x]][c]}
               /\ cache'[x][c] \in {0, keys'[Keystore[x]][c]}
               /\ loaded'[x][c].key \in {0, keys'[Keystore[x]][c]}
    <3>1. loaded' = loaded /\ (c # e => local'[x].key[c] = local[x].key[c])
          /\ local'[x].key[e] = keys'[Keystore[x]][e]
      BY ZenonT(40), <2>3, KeyMade
    <3>2. c # e => cache'[x][c] = cache[x][c]
      BY <2>3, Zenon DEF Generate, Typed
    <3>3. cache'[x][e] \in {0, keys'[Keystore[x]][e]}
      BY <1>1, <2>3, Zenon DEF Generate, Typed
    <3>4. QED
      BY Zenon, <1>3, <3>1, <3>2, <3>3
  <2>4. ASSUME NEW e \in Held, Loads(x, e)
        PROVE  /\ local'[x].key[c] \in {0, keys'[Keystore[x]][c]}
               /\ cache'[x][c] \in {0, keys'[Keystore[x]][c]}
               /\ loaded'[x][c].key \in {0, keys'[Keystore[x]][c]}
    <3>1. local' = local /\ keys' = keys
      BY Zenon, <2>4 DEF Loads
    <3>2. Get(x, e) \in {0, keys[Keystore[x]][e]}
      BY Zenon DEF Get, Matching, Faithful
    <3>3. PICK k : k = Get(x, e)
      BY Zenon
    <3>4. PICK l : l = Latest(e)
      BY Zenon
    <3>5. /\ cache' = [cache EXCEPT ![x][e] = IF Replaces THEN k ELSE 0]
          /\ loaded' = [loaded EXCEPT ![x][e] = [cert |-> l, key |-> k]]
      BY Zenon, <2>4, <3>3, <3>4 DEF Loads
    <3>6. (c # e => cache'[x][c] = cache[x][c]) /\ cache'[x][e] \in {0, k}
      BY <3>5, Zenon DEF Typed
    <3>7. (c # e => loaded'[x][c] = loaded[x][c]) /\ loaded'[x][e].key = k
      BY <3>5, Zenon DEF Typed
    <3>8. QED
      BY Zenon, <1>3, <3>1, <3>2, <3>3, <3>6, <3>7
  <2>5. QED
    BY Zenon, <2>1, <2>2, <2>3, <2>4 DEF ReplicaStep
<1>5. ASSUME NEW y \in Replicas, NEW c \in Held
      PROVE  /\ local'[y].key[c] \in {0, keys'[Keystore[y]][c]}
             /\ cache'[y][c] \in {0, keys'[Keystore[y]][c]}
             /\ loaded'[y][c].key \in {0, keys'[Keystore[y]][c]}
  <2>1. CASE y = x
    BY Zenon, <1>4, <2>1
  <2>2. CASE y # x
    <3>1. local'[y] = local[y] /\ loaded'[y] = loaded[y] /\ cache'[y] = cache[y]
      BY Zenon, <2>2, Frame
    <3>2. QED
      BY Zenon, <1>3, <3>1
  <2>3. QED
    BY <2>1, <2>2, Zenon
<1>6. QED
  BY Zenon, <1>5 DEF Faithful

(* Another replica's step leaves the one inside as it is. *)
LEMMA SoleOther ==
  ASSUME Typed, Alone, lost' = 0, NEW x \in Replicas, ReplicaStep(x), NEW y \in Replicas, y # x
  PROVE  Sole(y)'
<1>1. pc'[y] = pc[y] /\ local'[y] = local[y]
  BY Zenon, Frame
<1>2. CASE pc[y] \notin Inside
  <2>1. /\ pc[y] \notin ToRoot /\ pc[y] \notin ToIntermediate /\ pc[y] \notin Generating
        /\ \A c \in Held : pc[y] # <<"create", c>>
    BY <1>2, Zenon DEF Inside, Generating, ToTSA, ToServer, ToIntermediate, Making, ToRoot, Held
  <2>2. QED
    BY Zenon, <1>1, <1>2, <2>1 DEF Sole
<1>3. CASE pc[y] \in Inside
  <2>1. lock = y /\ lock # x /\ lock # None /\ Sole(y)
    BY <1>3, StartupAssumption, SMTT(20) DEF Alone, Sole, ConstantsOK
  <2>2. pc[x] \notin Inside
    BY Zenon, <2>1 DEF Alone, Sole
  <2>3. /\ \A c \in Held : pc[x] # <<"create", c>> /\ pc[x] # <<"persist", c>>
        /\ pc[x] # <<"unlock", None>>
    BY <2>2, Zenon DEF Inside, Generating, ToTSA, ToServer, ToIntermediate, ToRoot, Making, Held
  <2>4. ~SessionLost(x) /\ \A c \in Held : ~Generate(x, c)
    BY Zenon, <2>1, <2>3 DEF SessionLost, Generate
  <2>5. lock' = lock /\ keys' = keys
    BY Zenon, <2>1, <2>3, <2>4 DEF ReplicaStep, Moves, Ends, Gone, Enrols, Stores, Loads
  <2>6. Kind("root")' = Kind("root")
    <3>1. CASE Enrols(x)
      <4>1. PICK r \in RowSet : EnrolsRow(x, r)
        BY Zenon, <3>1, EnrolsARow
      <4>2. r.kind \in {"default", "server-tls", "tsa"} /\ rows' = Append(rows, r)
        BY Zenon, <2>3, <4>1 DEF EnrolsRow, Stores
      <4>3. r.kind # "root"
        BY <4>2, Zenon
      <4>4. QED
        BY Zenon, <4>2, <4>3, Appended
    <3>2. CASE rows' = rows
      BY Zenon, <3>2 DEF Kind
    <3>3. QED
      BY Zenon, <2>4, <3>1, <3>2 DEF ReplicaStep, Moves, Ends, Loads
  <2>7. \A i \in Kind("root") : rows'[i] = rows[i]
    BY Zenon, Frame DEF Kind
  <2>8. QED
    BY Zenon, <1>1, <2>1, <2>5, <2>6, <2>7 DEF Sole
<1>4. QED
  BY <1>2, <1>3, Zenon

LEMMA SoleOut ==
  ASSUME NEW x \in Replicas, pc'[x] \notin Inside
  PROVE  Sole(x)'
<1>1. PICK p : p = pc'[x]
  BY Zenon
<1>2. /\ p \notin ToRoot /\ p \notin ToIntermediate /\ p \notin Generating
      /\ \A c \in Held : p # <<"create", c>>
  BY <1>1, Zenon DEF Inside, Generating, ToTSA, ToServer, ToIntermediate, Making, ToRoot, Held
<1>3. QED
  BY Zenon, <1>1, <1>2 DEF Sole

LEMMA SoleMoves ==
  ASSUME Typed, Made, Alone, NEW x \in Replicas, Moves(x)
  PROVE  Sole(x)'
<1>1. keys' = keys /\ rows' = rows /\ local'[x].key = local[x].key /\ Sole(x)
  BY Zenon DEF Moves, Alone
<1>2. Kind("root")' = Kind("root")
  BY Zenon, <1>1 DEF Kind
<1>3. PICK p : p = pc'[x]
  BY Zenon
<1>4. CASE pc[x] = <<"lock", None>>
  <2>1. p = <<"check", None>> /\ lock' = x
    BY <1>3, <1>4, SMTT(20) DEF Moves, Typed, Down
  <2>2. /\ p \notin ToRoot /\ p \notin ToIntermediate /\ p \notin Generating
        /\ \A c \in Held : p # <<"create", c>>
    BY <2>1, Zenon DEF Generating, ToTSA, ToServer, ToIntermediate, Making, ToRoot, Held
  <2>3. QED
    BY Zenon, <1>3, <2>1, <2>2 DEF Sole
<1>5. CASE pc[x] = <<"check", None>>
  <2>1. pc[x] \in Inside /\ lock' = lock
    BY <1>5, SMTT(20) DEF Inside, Moves, Down
  <2>2. p = <<"unlock", None>> \/ (p = <<"profiles", None>> /\ Kind("root") = {})
    BY <1>3, <1>5 DEF Moves, Typed, Down
  <2>3. \A c \in Held : p # <<"create", c>>
    BY <2>2
  <2>4. p = <<"unlock", None>> => p \notin ToRoot /\ p \notin ToIntermediate /\ p \notin Generating
    BY SMTT(20) DEF Generating, ToTSA, ToServer, ToIntermediate, Making, ToRoot, Held
  <2>5. p = <<"profiles", None>> => p \in ToRoot
    BY Zenon DEF ToRoot
  <2>6. QED
    BY Zenon, <1>1, <1>2, <1>3, <2>1, <2>2, <2>3, <2>4, <2>5 DEF Sole, Made
<1>6. CASE pc[x] \in Generating
  <2>1. lock = x /\ lock' = lock
    <3>1. pc[x] \in Inside /\ pc[x] # <<"lock", None>> /\ pc[x] # <<"unlock", None>>
      BY <1>6, SMTT(20) DEF Inside, Generating, ToTSA, ToServer, ToIntermediate, Making, ToRoot, Held
    <3>2. QED
      BY Zenon, <1>1, <3>1 DEF Sole, Moves
  <2>2. /\ \A c \in Held : p = <<"create", c>> => keys[Keystore[x]][c] = 0
        /\ p \in Generating \ ToRoot => pc[x] \in Generating \ ToRoot
        /\ \A c \in Held : p \in Ahead(c) => pc[x] \in Ahead(c) \cup {<<"check", None>>}
    BY Zenon, <1>3, MovesAdvance DEF Advance
  <2>3. p \in ToRoot => pc[x] \in ToRoot
    BY <1>6, <2>2, SMTT(20) DEF Ahead, Held, Generating, ToTSA, ToServer, ToIntermediate, Making, ToRoot
  <2>4. p \in ToIntermediate => pc[x] \in ToIntermediate \ {<<"persist", "intermediate">>}
    <3>1. pc[x] # <<"persist", "intermediate">>
      BY SMTT(20) DEF Moves, Down
    <3>2. QED
      BY <1>6, <2>2, <3>1, SMTT(20) DEF Ahead, Held, Generating, ToTSA, ToServer, ToIntermediate, Making, ToRoot
  <2>5. QED
    BY Zenon, <1>1, <1>2, <1>3, <2>1, <2>2, <2>3, <2>4 DEF Sole
<1>7. CASE pc[x] \notin Generating \cup {<<"lock", None>>, <<"check", None>>}
  <2>1. p \in {<<"lock", None>>, <<"load", "server-tls">>}
    <3>1. \A c \in Held : pc[x] # <<"exists", c>>
      BY <1>7, Zenon DEF Generating, ToTSA, ToServer, ToIntermediate, Making, ToRoot, Held
    <3>2. pc[x] \notin {<<"profiles", None>>, <<"role", None>>, <<"output", None>>,
                        <<"audit", None>>, <<"lock", None>>, <<"check", None>>}
      BY <1>7, Zenon DEF Generating, ToTSA, ToServer, ToIntermediate, Making, ToRoot, Held
    <3>3. QED
      BY Zenon, <1>3, <3>1, <3>2 DEF Moves, Typed
  <2>2. p \notin Inside
    BY <2>1, SMTT(20) DEF Inside, Generating, ToTSA, ToServer, ToIntermediate, Making, ToRoot, Held
  <2>3. QED
    BY Zenon, <1>3, <2>2, SoleOut
<1>8. QED
  BY Zenon, <1>4, <1>5, <1>6, <1>7

LEMMA SoleEnrols ==
  ASSUME Typed, Made, Alone, NEW x \in Replicas, NEW r \in RowSet, EnrolsRow(x, r)
  PROVE  Sole(x)'
<1>1. keys' = keys /\ lock' = lock /\ local'[x].key = local[x].key /\ rows' = Append(rows, r)
      /\ Sole(x)
  BY Zenon DEF EnrolsRow, Stores, Alone
<1>2. PICK p : p = pc'[x]
  BY Zenon
<1>3. CASE pc[x] = <<"persist", "root">> /\ p = After(x, "root") /\ r.kind = "root"
           /\ r.key = local[x].key["root"] /\ r.signer = local[x].key[Signer("root")]
  <2>1. /\ p \notin ToRoot /\ pc[x] \in ToRoot /\ pc[x] \in Inside
        /\ pc[x] \in ToIntermediate \ {<<"persist", "intermediate">>}
        /\ \A c \in Held : p # <<"create", c>>
    BY <1>3, SMTT(20) DEF After, Inside, Generating, ToTSA, ToServer, ToIntermediate, Making, ToRoot, Held
  <2>2. Kind("root") = {}
    BY Zenon, <1>1, <2>1 DEF Sole
  <2>3. \A i \in Kind("root")' : rows'[i] = r
    BY <1>1, <1>3, <2>2, Appended, Zenon
  <2>4. Signer("root") = "root"
    BY Zenon DEF Signer
  <2>5. QED
    BY Zenon, <1>1, <1>2, <1>3, <2>1, <2>3, <2>4 DEF Sole
<1>4. CASE /\ r.kind # "root" /\ pc[x] \in Generating \ ToRoot
           /\ p \notin ToIntermediate /\ \A c \in Held : p # <<"create", c>>
  <2>1. pc[x] \in Inside /\ p \notin ToRoot
    BY <1>4, Zenon DEF Inside, ToIntermediate
  <2>2. Kind("root")' = Kind("root") /\ \A i \in Kind("root") : rows'[i] = rows[i]
    BY <1>1, <1>4, Appended, SMTT(20) DEF Kind
  <2>3. QED
    BY ZenonT(40), <1>1, <1>2, <1>4, <2>1, <2>2 DEF Sole
<1>5. CASE \E c \in Held : /\ pc[x] = <<"persist", c>> /\ pc' = [pc EXCEPT ![x] = After(x, c)]
                           /\ r.kind = c /\ r.ref = c /\ r.key = local[x].key[c]
                           /\ r.signer = local[x].key[Signer(c)]
  <2>1. PICK c \in Held : /\ pc[x] = <<"persist", c>> /\ p = After(x, c)
                          /\ r.kind = c /\ r.key = local[x].key[c]
                          /\ r.signer = local[x].key[Signer(c)]
    BY Zenon, <1>2, <1>5 DEF Typed
  <2>2. CASE c = "root"
    BY Zenon, <1>3, <2>1, <2>2
  <2>3. CASE c # "root"
    <3>1. pc[x] \in Generating \ ToRoot /\ p \notin ToIntermediate
          /\ \A e \in Held : p # <<"create", e>>
      BY <2>1, <2>3, SMTT(20) DEF After, Generating, ToTSA, ToServer, ToIntermediate, Making, ToRoot, Held
    <3>2. QED
      BY Zenon, <1>4, <2>1, <2>3, <3>1
  <2>4. QED
    BY <2>2, <2>3, Zenon
<1>6. CASE /\ pc[x] = <<"admin", None>> /\ pc' = [pc EXCEPT ![x] = <<"role", None>>]
           /\ r.kind = "default"
  <2>1. p = <<"role", None>>
    BY Zenon, <1>2, <1>6 DEF Typed
  <2>2. /\ pc[x] \in Generating \ ToRoot /\ p \notin ToIntermediate
        /\ r.kind # "root" /\ \A e \in Held : p # <<"create", e>>
    BY <1>6, <2>1 DEF Generating, ToTSA, ToServer, ToIntermediate, Making, ToRoot, Held
  <2>3. QED
    BY Zenon, <1>4, <2>2
<1>7. CASE pc[x] = <<"up", None>> /\ pc' = pc
  <2>1. pc[x] \notin Inside
    BY <1>7, SMTT(20) DEF Inside, Generating, ToTSA, ToServer, ToIntermediate, Making, ToRoot, Held
  <2>2. QED
    BY Zenon, <1>7, <2>1, SoleOut
<1>8. QED
  BY Zenon, <1>5, <1>6, <1>7 DEF EnrolsRow

LEMMA SoleGenerate ==
  ASSUME Typed, Made, Alone, NEW x \in Replicas, NEW c \in Held, Generate(x, c)
  PROVE  Sole(x)'
<1>1. /\ pc[x] = <<"create", c>> /\ lock' = lock /\ rows' = rows /\ Sole(x)
      /\ \A e \in Held : e # c => local'[x].key[e] = local[x].key[e]
      /\ \A d \in Keystores, e \in Held :
           d # Keystore[x] \/ e # c => keys'[d][e] = keys[d][e]
  BY Zenon, KeyMade DEF Alone
<1>2. PICK p : p = pc'[x] /\ p = <<"persist", c>>
  BY Zenon, KeyMade
<1>3. Kind("root")' = Kind("root") /\ "root" \in Held /\ "intermediate" \in Held
  BY <1>1, Zenon DEF Kind, Held
<1>4. /\ pc[x] \in Inside /\ \A e \in Held : p # <<"create", e>>
      /\ p \in ToRoot <=> c = "root"
      /\ pc[x] \in ToRoot <=> c = "root"
      /\ p \in ToIntermediate \ {<<"persist", "intermediate">>} => c = "root"
      /\ c = "root" => pc[x] \in ToIntermediate \ {<<"persist", "intermediate">>}
      /\ pc[x] \in Generating
  BY <1>1, <1>2, SMTT(20) DEF Inside, Generating, ToTSA, ToServer, ToIntermediate, Making, ToRoot, Held
<1>5. c = "root" => \A d \in Keystores : keys'[d]["intermediate"] = 0
  <2>1. c = "root" => c # "intermediate"
    BY Zenon
  <2>2. QED
    BY Zenon, <1>1, <1>3, <1>4, <2>1 DEF Sole
<1>6. c # "root" => \A i \in Kind("root") : /\ rows[i].key = local'[x].key["root"]
                                            /\ rows[i].signer = local'[x].key["root"]
  BY Zenon, <1>1, <1>3, <1>4 DEF Sole
<1>7. lock = x /\ (c = "root" => Kind("root") = {})
  BY Zenon, <1>1, <1>4 DEF Sole
<1>8. QED
  BY Zenon, <1>1, <1>2, <1>3, <1>4, <1>5, <1>6, <1>7 DEF Sole

LEMMA StepAlone ==
  ASSUME Typed, Made, Alone, lost' = 0, NEW x \in Replicas, ReplicaStep(x)
  PROVE  Alone'
<1>1. CASE Ends(x)
  <2>1. PICK p \in {Down} \cup {<<"failed", c>> : c \in Held} : Gone(x, p)
    BY Zenon, <1>1 DEF Ends
  <2>2. p \notin Inside
    BY <2>1, SMTT(20) DEF Inside, Generating, ToTSA, ToServer, ToIntermediate, Making, ToRoot, Held, Down
  <2>3. pc'[x] = p
    BY Zenon, <2>1 DEF Gone, Typed
  <2>4. QED
    BY Zenon, <2>2, <2>3, SoleOut, SoleOther DEF Alone
<1>2. ASSUME NEW c \in Held, Loads(x, c)
      PROVE  Alone'
  <2>1. PICK p : p = pc'[x] /\ p = AfterLoad(x, c)
    BY Zenon, <1>2 DEF Loads, Typed
  <2>2. p \notin Inside
    BY <2>1 DEF AfterLoad, Inside, Generating, ToTSA, ToServer, ToIntermediate, Making, ToRoot, Held
  <2>3. QED
    BY Zenon, <2>1, <2>2, SoleOut, SoleOther DEF Alone
<1>3. ~SessionLost(x)
  BY SMTT(20) DEF SessionLost, Typed
<1>4. QED
  BY Zenon, <1>1, <1>2, <1>3, SoleMoves, EnrolsARow, SoleEnrols, SoleGenerate, SoleOther
     DEF ReplicaStep, Alone

-----------------------------------------------------------------------------

LEMMA StepSame ==
  ASSUME Typed, Made, LoadedInv, Signed, SharedVault, Matching, NEW x \in Replicas, ReplicaStep(x)
  PROVE  Same'
<1>1. Calm /\ Same /\ Faithful
  BY Zenon DEF Calm, Matching
<1>2. \A y \in Replicas : Keystore[y] \in Keystores /\ Keystore[y] = Keystore[x]
  BY StartupAssumption, Zenon DEF SharedVault, ConstantsOK
<1>3. ASSUME NEW d \in Keystores, NEW c \in Held, keys'[d][c] # 0, NEW y \in Replicas
      PROVE  d = Keystore[y]
  <2>1. CASE keys' = keys
    BY Zenon, <1>1, <1>3, <2>1 DEF Same
  <2>2. ASSUME NEW e \in Held, Generate(x, e) PROVE d = Keystore[y]
    <3>1. \A b \in Keystores, f \in Held : b # Keystore[x] \/ f # e => keys'[b][f] = keys[b][f]
      BY Zenon, <2>2, KeyMade
    <3>2. d # Keystore[x] => keys'[d][c] = keys[d][c]
      BY Zenon, <3>1
    <3>3. QED
      BY Zenon, <1>1, <1>2, <1>3, <3>2 DEF Same
  <2>3. QED
    BY Zenon, <2>1, <2>2 DEF ReplicaStep, Moves, Ends, Enrols, Stores, Loads, SessionLost
<1>4. ASSUME NEW y \in Replicas, NEW c \in Held, NEW i \in Kind(c)
      PROVE  /\ rows'[i].ref = c => rows'[i].key = keys'[Keystore[y]][c]
             /\ c = "root" => rows'[i].signer = keys'[Keystore[y]]["root"]
  <2>1. rows'[i] = rows[i]
    BY Zenon, Frame DEF Kind
  <2>2. rows[i].signer # 0 /\ (rows[i].ref = c => rows[i].key # 0)
    BY Zenon DEF Signed
  <2>3. /\ rows[i].ref = c => rows[i].key = keys[Keystore[y]][c]
        /\ c = "root" => rows[i].signer = keys[Keystore[y]]["root"]
    <3>1. rows[i].ref = c => i \in Ours(c)
      BY Zenon DEF Ours
    <3>2. c = "root" => i \in Kind("root")
      BY Zenon
    <3>3. QED
      BY ZenonT(40), <1>1, <3>1, <3>2 DEF Same
  <2>4. QED
    BY Zenon, <1>1, <1>2, <2>1, <2>2, <2>3, KeysKept
<1>5. ASSUME NEW y \in Replicas, NEW c \in Held, NEW i \in Kind(c)', i \notin Kind(c)
      PROVE  /\ rows'[i].ref = c => rows'[i].key = keys'[Keystore[y]][c]
             /\ c = "root" => rows'[i].signer = keys'[Keystore[y]]["root"]
  <2>1. CASE rows' = rows
    BY Zenon, <1>5, <2>1 DEF Kind
  <2>2. CASE Enrols(x)
    <3>1. PICK r \in RowSet : EnrolsRow(x, r)
      BY Zenon, <2>2, EnrolsARow
    <3>2. rows' = Append(rows, r) /\ keys' = keys
      BY Zenon, <3>1 DEF EnrolsRow, Stores
    <3>3. rows'[i] = r /\ r.kind = c
      BY Zenon, <1>5, <3>2, Appended
    <3>4. c # None
      BY StartupAssumption, Zenon DEF ConstantsOK
    <3>5. c = "root" => Signer(c) = "root" /\ c \notin {"server-tls", "tsa"}
      BY Zenon DEF Signer
    <3>6. r.ref = c => r.key = local[x].key[c] /\ r.key # 0
      BY Zenon, <3>1, <3>3, <3>4, RowSigned
    <3>7. c = "root" => r.signer = local[x].key["root"] /\ r.signer # 0
      BY Zenon, <3>1, <3>3, <3>5, RowSigned
    <3>8. \A e \in Held : local[x].key[e] # 0 => local[x].key[e] = keys[Keystore[x]][e]
      BY Zenon, <1>1 DEF Faithful
    <3>9. QED
      BY Zenon, <1>2, <3>2, <3>3, <3>6, <3>7, <3>8
  <2>3. QED
    BY Zenon, <2>1, <2>2 DEF ReplicaStep, Moves, Ends, Generate, Loads, SessionLost, store
<1>6. "root" \in Held
  BY SMTT(20) DEF Held
<1>7. \A y \in Replicas, c \in Held : \A i \in Ours(c)' : rows'[i].key = keys'[Keystore[y]][c]
  BY Zenon, <1>4, <1>5 DEF Ours
<1>8. \A y \in Replicas : \A i \in Kind("root")' : rows'[i].signer = keys'[Keystore[y]]["root"]
  BY ZenonT(40), <1>4, <1>5, <1>6
<1>9. QED
  BY Zenon, <1>3, <1>7, <1>8 DEF Same

LEMMA StepOneCA ==
  ASSUME Typed, Made, LoadedInv, Signed, Calm', lost' >= lost, Matching, NEW x \in Replicas,
         ReplicaStep(x)
  PROVE  OneCA'
<1>1. Calm /\ OneCA /\ Faithful /\ (lost = 0 => Alone) /\ (SharedVault => Same)
  <2>1. Calm
    BY SMTT(20) DEF Calm, SharedVault, Typed
  <2>2. QED
    BY Zenon, <2>1 DEF Matching
<1>2. Keystore[x] \in Keystores /\ "root" \in Held /\ "intermediate" \in Held
  BY StartupAssumption, Zenon DEF ConstantsOK, Held
<1>3. \A d \in Keystores, c \in Held : keys[d][c] # 0 => keys'[d][c] = keys[d][c]
  BY Zenon, <1>1, KeysKept
<1>4. /\ \A c \in Held : local[x].key[c] # 0 => keys[Keystore[x]][c] = local[x].key[c]
      /\ \A c \in Held : loaded[x][c].key # 0 => keys[Keystore[x]][c] = loaded[x][c].key
  BY Zenon, <1>1 DEF Faithful
(* A step that makes no row: at most the intermediate's key is new. *)
<1>5. ASSUME NEW e \in Held, Generate(x, e)
      PROVE  OneCA'
  <2>1. /\ rows' = rows /\ pc[x] = <<"create", e>>
        /\ \A d \in Keystores, c \in Held : d # Keystore[x] \/ c # e => keys'[d][c] = keys[d][c]
    BY Zenon, <1>5, KeyMade
  <2>2. \A c : Kind(c)' = Kind(c)
    BY Zenon, <2>1 DEF Kind
  <2>3. ASSUME NEW d \in Keystores, keys'[d]["intermediate"] # 0, keys[d]["intermediate"] = 0
        PROVE  /\ d = Keystore[x] /\ e = "intermediate"
               /\ \A b \in Keystores : keys[b]["intermediate"] = 0
               /\ \A i \in Kind("root") : /\ rows[i].key = keys[d]["root"]
                                          /\ rows[i].signer = keys[d]["root"]
    <3>1. d = Keystore[x] /\ e = "intermediate"
      BY Zenon, <1>2, <2>1, <2>3
    <3>2. /\ pc[x] \in ToIntermediate \ {<<"persist", "intermediate">>}
          /\ pc[x] \in Generating \ ToRoot
      BY <2>1, <3>1, SMTT(20) DEF Generating, ToTSA, ToServer, ToIntermediate, Making, ToRoot
    <3>3. CASE lost = 0
      <4>1. Sole(x) /\ Knows(x)
        BY Zenon, <1>1, <3>3 DEF Alone, Made
      <4>2. local[x].key["root"] # 0
        BY Zenon, <3>2, <4>1 DEF Knows
      <4>3. QED
        BY Zenon, <1>2, <1>4, <3>1, <3>2, <4>1, <4>2 DEF Sole
    <3>4. CASE SharedVault
      <4>1. Same
        BY <1>1, <3>4, Zenon
      <4>2. \A b \in Keystores : keys[b]["intermediate"] = 0
        BY Zenon, <1>2, <2>3, <3>1, <4>1 DEF Same
      <4>3. \A i \in Kind("root") : i \in Ours("root")
        BY Zenon, <1>1 DEF OneCA, Ours
      <4>4. /\ \A i \in Ours("root") : rows[i].key = keys[Keystore[x]]["root"]
            /\ \A i \in Kind("root") : rows[i].signer = keys[Keystore[x]]["root"]
        BY Zenon, <1>2, <4>1 DEF Same
      <4>5. QED
        BY Zenon, <3>1, <4>2, <4>3, <4>4
    <3>5. QED
      BY Zenon, <1>1, <3>3, <3>4 DEF Calm
  <2>4. \A d, b \in Keystores :
          keys'[d]["intermediate"] # 0 /\ keys'[b]["intermediate"] # 0 => d = b
    BY Zenon, <1>1, <2>3 DEF OneCA
  <2>5. \A i \in DOMAIN rows' : rows'[i].kind \in Held \ {"root"}
          => \E d \in Keystores : keys'[d]["intermediate"] # 0
    BY ZenonT(40), <1>1, <1>2, <1>3, <2>1 DEF OneCA
  <2>6. \A i \in Kind("root")' : rows'[i].ref = "root"
    BY Zenon, <1>1, <2>1, <2>2 DEF OneCA
  <2>7. ASSUME NEW d \in Keystores, keys'[d]["intermediate"] # 0, NEW c \in Held, NEW i \in Kind(c)
        PROVE  /\ rows[i].ref = c => rows[i].key = keys'[d][c]
               /\ rows[i].signer = keys'[d][Signer(c)]
    <3>1. Signer(c) \in Held /\ (c = "root" => Signer(c) = "root")
      BY Zenon DEF Signer, Held
    <3>2. rows[i].signer # 0 /\ (rows[i].ref = c => rows[i].key # 0)
      BY Zenon DEF Signed
    <3>3. CASE keys[d]["intermediate"] # 0
      <4>1. /\ rows[i].ref = c => rows[i].key = keys[d][c]
            /\ rows[i].signer = keys[d][Signer(c)]
        BY Zenon, <1>1, <3>3 DEF OneCA
      <4>2. QED
        BY Zenon, <1>3, <3>1, <3>2, <4>1
    <3>4. CASE keys[d]["intermediate"] = 0
      <4>1. /\ \A b \in Keystores : keys[b]["intermediate"] = 0
            /\ \A j \in Kind("root") : /\ rows[j].key = keys[d]["root"]
                                       /\ rows[j].signer = keys[d]["root"]
        BY Zenon, <2>3, <2>7, <3>4
      <4>2. c = "root"
        <5>1. i \in DOMAIN rows /\ rows[i].kind = c
          BY Zenon DEF Kind
        <5>2. QED
          BY Zenon, <1>1, <4>1, <5>1 DEF OneCA
      <4>3. rows[i].key = keys[d]["root"] /\ rows[i].signer = keys[d]["root"]
        BY Zenon, <4>1, <4>2
      <4>4. QED
        BY Zenon, <1>2, <1>3, <3>1, <3>2, <4>2, <4>3
    <3>5. QED
      BY <3>3, <3>4, Zenon
  <2>8. \A d \in Keystores : keys'[d]["intermediate"] # 0 =>
          \A c \in Held : \A i \in Kind(c)' :
            /\ rows'[i].ref = c => rows'[i].key = keys'[d][c]
            /\ rows'[i].signer = keys'[d][Signer(c)]
    BY Zenon, <2>1, <2>2, <2>7
  <2>9. QED
    BY Zenon, <2>4, <2>5, <2>6, <2>8 DEF OneCA
<1>6. CASE Enrols(x)
  <2>1. PICK r \in RowSet : EnrolsRow(x, r)
    BY Zenon, <1>6, EnrolsARow
  <2>2. rows' = Append(rows, r) /\ keys' = keys
    BY Zenon, <2>1 DEF EnrolsRow, Stores
  <2>3. /\ \A i \in DOMAIN rows : rows'[i] = rows[i]
        /\ \A i \in DOMAIN rows' : i \in DOMAIN rows \/ rows'[i] = r
        /\ \A c : \A i \in Kind(c)' : i \in Kind(c) \/ (rows'[i] = r /\ r.kind = c)
    <3>1. \A i \in DOMAIN rows : rows'[i] = rows[i]
      BY Zenon, Frame
    <3>2. \A i \in DOMAIN rows' : i \in DOMAIN rows \/ rows'[i] = r
      BY Zenon, <2>2, Appended
    <3>3. \A c : \A i \in Kind(c)' : i \in Kind(c) \/ (rows'[i] = r /\ r.kind = c)
      BY Zenon, <3>1, <3>2 DEF Kind
    <3>4. QED
      BY Zenon, <3>1, <3>2, <3>3
  <2>4. ASSUME NEW c \in Held, r.kind = c
        PROVE  /\ c # "root" => keys[Keystore[x]]["intermediate"] # 0
               /\ c = "root" => r.ref = "root"
               /\ r.ref = c => r.key = keys[Keystore[x]][c]
               /\ r.signer = keys[Keystore[x]][Signer(c)]
               /\ c = "root" => pc[x] = <<"persist", "root">>
    <3>1. c # None /\ Signer(c) \in Held
          /\ (c \in {"server-tls", "tsa"} => c # "root" /\ Signer(c) = "intermediate")
      BY StartupAssumption, Zenon DEF ConstantsOK, Signer, Held
    <3>2. CASE /\ pc[x] = <<"persist", c>> /\ r.ref = c
               /\ r.key = local[x].key[c] /\ r.key # 0
               /\ r.signer = local[x].key[Signer(c)] /\ r.signer # 0
               /\ c # "root" => local[x].key["intermediate"] # 0
      BY Zenon, <1>2, <1>4, <3>1, <3>2
    <3>3. CASE /\ c \in {"server-tls", "tsa"} /\ r.ref = None
               /\ r.signer = loaded[x]["intermediate"].key /\ r.signer # 0
      BY Zenon, <1>2, <1>4, <3>1, <3>3
    <3>4. QED
      BY Zenon, <2>1, <2>4, <3>2, <3>3, RowSigned
  <2>5. ASSUME NEW c \in Held, r.kind = c, NEW d \in Keystores, keys[d]["intermediate"] # 0
        PROVE  d = Keystore[x]
    <3>1. CASE c # "root"
      BY Zenon, <1>1, <1>2, <2>4, <2>5, <3>1 DEF OneCA
    <3>2. CASE c = "root"
      <4>1. pc[x] \in ToIntermediate \ {<<"persist", "intermediate">>}
        BY <2>4, <2>5, <3>2, SMTT(20) DEF ToIntermediate, Making, ToRoot
      <4>2. lost # 0
        BY Zenon, <1>1, <2>5, <4>1 DEF Alone, Sole
      <4>3. QED
        BY Zenon, <1>1, <1>2, <2>5, <4>2 DEF Calm, Same
    <3>3. QED
      BY <3>1, <3>2, Zenon
  <2>6. \A i \in DOMAIN rows' : rows'[i].kind \in Held \ {"root"}
          => \E d \in Keystores : keys'[d]["intermediate"] # 0
    BY ZenonT(40), <1>1, <1>2, <2>2, <2>3, <2>4 DEF OneCA
  <2>7. \A i \in Kind("root")' : rows'[i].ref = "root"
    BY ZenonT(40), <1>1, <1>2, <2>3, <2>4 DEF OneCA, Kind
  <2>8. ASSUME NEW d \in Keystores, keys[d]["intermediate"] # 0, NEW c \in Held, NEW i \in Kind(c)'
        PROVE  /\ rows'[i].ref = c => rows'[i].key = keys[d][c]
               /\ rows'[i].signer = keys[d][Signer(c)]
    <3>1. CASE i \in Kind(c)
      <4>1. rows'[i] = rows[i]
        BY Zenon, <2>3, <3>1 DEF Kind
      <4>2. /\ rows[i].ref = c => rows[i].key = keys[d][c]
            /\ rows[i].signer = keys[d][Signer(c)]
        BY Zenon, <1>1, <2>8, <3>1 DEF OneCA
      <4>3. QED
        BY Zenon, <4>1, <4>2
    <3>2. CASE rows'[i] = r /\ r.kind = c
      <4>1. d = Keystore[x]
        BY Zenon, <2>5, <2>8, <3>2
      <4>2. QED
        BY Zenon, <2>4, <3>2, <4>1
    <3>3. QED
      BY Zenon, <2>3, <3>1, <3>2
  <2>9. QED
    BY Zenon, <1>1, <2>2, <2>6, <2>7, <2>8 DEF OneCA
<1>7. CASE rows' = rows /\ keys' = keys
  <2>1. \A c : Kind(c)' = Kind(c)
    BY Zenon, <1>7 DEF Kind
  <2>2. QED
    BY <1>1, <1>7, <2>1, Zenon DEF OneCA
<1>8. QED
  BY Zenon, <1>5, <1>6, <1>7 DEF ReplicaStep, Moves, Ends, Loads, SessionLost, store

LEMMA LostGrows ==
  ASSUME Typed, NEW x \in Replicas, ReplicaStep(x)
  PROVE  lost' \in Nat /\ lost' >= lost
<1>1. CASE lost' = lost
  BY <1>1 DEF Typed
<1>2. CASE SessionLost(x)
  BY <1>2, SMTT(20) DEF SessionLost, Typed
<1>3. QED
  BY Zenon, <1>1, <1>2 DEF ReplicaStep, Moves, Ends, Enrols, Stores, Generate, Loads, counters

LEMMA StepMatching ==
  ASSUME Typed, Made, LoadedInv, Signed, Matching, NEW x \in Replicas, ReplicaStep(x)
  PROVE  Matching'
<1>1. SUFFICES ASSUME Calm'
               PROVE  Faithful' /\ (lost' = 0 => Alone') /\ (SharedVault => Same') /\ OneCA'
  BY Zenon DEF Matching, SharedVault
<1>2. Calm /\ (lost' = 0 => lost = 0)
  <2>1. lost' = 0 => lost = 0
    BY LostGrows, SMTT(20) DEF Typed
  <2>2. QED
    BY Zenon, <1>1, <2>1 DEF Calm, SharedVault
<1>3. QED
  BY Zenon, <1>1, <1>2, LostGrows, StepFaithful, StepAlone, StepSame, StepOneCA DEF Matching

-----------------------------------------------------------------------------
(* The inductive invariant. *)
BootInv == Typed /\ Rowed /\ Made /\ Counted /\ Signed /\ LoadedInv /\ Matching

(* What it says of who serves. *)
LEMMA BootServes ==
  ASSUME BootInv, Calm
  PROVE  UpConsistent
<1>1. Typed /\ LoadedInv /\ Matching /\ Faithful /\ OneCA
  BY Zenon DEF BootInv, Matching
<1>2. SUFFICES ASSUME NEW x \in Replicas, pc[x] = <<"up", None>>, NEW c \in Served(x)
               PROVE  /\ loaded[x][c].cert.ref = c => loaded[x][c].key = loaded[x][c].cert.key
                      /\ loaded[x][c].cert.signer = loaded[x][Signer(c)].key
  BY Zenon DEF UpConsistent
<1>3. PICK d \in Keystores : d = Keystore[x]
  BY StartupAssumption, Zenon DEF ConstantsOK
<1>4. \A e \in Served(x) : e \in Held /\ loaded[x][e].key # 0 /\ loaded[x][e].key = keys[d][e]
  <2>1. pc[x] \in Loading /\ pc[x] # <<"load", "intermediate">>
    BY <1>2, SMTT(20) DEF Loading
  <2>2. /\ loaded[x]["server-tls"].key # 0 /\ loaded[x]["intermediate"].key # 0
        /\ loaded[x]["root"].key # 0 /\ (local[x].tsa => loaded[x]["tsa"].key # 0)
    BY Zenon, <1>1, <1>2, <2>1 DEF LoadedInv, LoadsInOrder
  <2>3. \A e \in Served(x) : e \in Held /\ loaded[x][e].key # 0
    BY <2>2, Zenon DEF Served, Held
  <2>4. QED
    BY Zenon, <1>1, <1>3, <2>3 DEF Faithful
<1>5. Signer(c) \in Served(x) /\ "intermediate" \in Served(x)
  BY Zenon DEF Signer, Served, Held
<1>6. PICK i \in Kind(c) : rows[i] = loaded[x][c].cert
  BY Zenon, <1>1, <1>4 DEF LoadedInv, HoldsRows
<1>7. keys[d]["intermediate"] # 0
  BY <1>4, <1>5, Zenon
<1>8. /\ rows[i].ref = c => rows[i].key = keys[d][c]
      /\ rows[i].signer = keys[d][Signer(c)]
  BY Zenon, <1>1, <1>4, <1>6, <1>7 DEF OneCA
<1>9. QED
  BY Zenon, <1>4, <1>5, <1>6, <1>8

-----------------------------------------------------------------------------
(* Counting the rows and the replicas that are to store one. *)
INSTANCE FiniteSetTheorems

LEMMA RowsFinite ==
  ASSUME Typed, NEW c
  PROVE  IsFiniteSet(Kind(c)) /\ IsFiniteSet(Ours(c))
<1>1. Kind(c) \subseteq 1..Len(rows) /\ Ours(c) \subseteq 1..Len(rows) /\ Len(rows) \in Nat
  BY DEF Kind, Ours, Typed
<1>2. IsFiniteSet(1..Len(rows))
  BY <1>1, FS_Interval, SMTT(20)
<1>3. QED
  BY <1>1, <1>2, FS_Subset, Zenon

LEMMA ReplicasFinite ==
  ASSUME NEW S, S \subseteq Replicas
  PROVE  IsFiniteSet(S) /\ Cardinality(S) \in Nat
BY StartupAssumption, FS_Subset, FS_CardinalityType, Zenon DEF ConstantsOK

(* Nothing is counted twice while no row is stored and nobody passes the check. *)
LEMMA CountKept ==
  ASSUME Typed, Counted, rows' = rows, lost' = lost, NEW x \in Replicas,
         \A y \in Replicas : y # x => pc'[y] = pc[y],
         Kind("root") = {} => Unguarded' \subseteq Unguarded,
         Kind("root") # {} => \A c \in Held : StillTo(c)' \subseteq StillTo(c)
  PROVE  Counted'
<1>1. \A c : Kind(c)' = Kind(c) /\ Ours(c)' = Ours(c)
  BY Zenon DEF Kind, Ours
<1>2. CASE Kind("root") = {}
  <2>1. Unguarded \subseteq Replicas
    BY Zenon DEF Unguarded
  <2>2. Cardinality(Unguarded') <= Cardinality(Unguarded) /\ Cardinality(Unguarded) \in Nat
        /\ Cardinality(Unguarded') \in Nat
    BY <1>2, <2>1, ReplicasFinite, FS_Subset, FS_CardinalityType, SMTT(20)
  <2>3. Cardinality(Unguarded') <= lost
    BY <1>2, <2>2, SMTT(20) DEF Counted, Typed
  <2>4. QED
    BY <1>1, <1>2, <2>3, Zenon DEF Counted
<1>3. CASE Kind("root") # {}
  <2>1. ASSUME NEW c \in Held
        PROVE  Cardinality(Ours(c)) + Cardinality(StillTo(c)') <= 1 + lost
    <3>1. StillTo(c) \subseteq Replicas
      BY Zenon DEF StillTo
    <3>2. Cardinality(StillTo(c)') <= Cardinality(StillTo(c)) /\ Cardinality(StillTo(c)) \in Nat
          /\ Cardinality(StillTo(c)') \in Nat
      BY <1>3, <3>1, ReplicasFinite, FS_Subset, FS_CardinalityType, Zenon
    <3>3. Cardinality(Ours(c)) \in Nat
      BY RowsFinite, FS_CardinalityType, Zenon
    <3>4. Cardinality(Ours(c)) + Cardinality(StillTo(c)) <= 1 + lost
      BY <1>3, Zenon DEF Counted
    <3>5. QED
      BY <3>2, <3>3, <3>4, SMTT(20) DEF Typed
  <2>2. QED
    BY Zenon, <1>1, <1>3, <2>1 DEF Counted
<1>4. QED
  BY <1>2, <1>3, Zenon

LEMMA MovesCounted ==
  ASSUME Typed, Counted, NEW x \in Replicas, Moves(x)
  PROVE  Counted'
<1>1. rows' = rows /\ lost' = lost /\ \A y \in Replicas : y # x => pc'[y] = pc[y]
  BY Zenon, Frame DEF Moves, ReplicaStep
<1>2. PICK p : p = pc'[x]
  BY Zenon
<1>3. Advance(x, p)
  BY Zenon, <1>2, MovesAdvance
<1>4. ASSUME NEW y \in Unguarded'
      PROVE  y \in Unguarded
  <2>1. y \in Replicas /\ y # lock' /\ pc'[y] \in ToRoot \cup {<<"check", None>>}
    BY Zenon, <1>4 DEF Unguarded
  <2>2. CASE y # x
    <3>1. y # lock
      BY <1>3, <2>1, <2>2, StartupAssumption, Zenon DEF Advance, ConstantsOK
    <3>2. QED
      BY Zenon, <1>1, <2>1, <2>2, <3>1 DEF Unguarded
  <2>3. CASE y = x
    <3>1. p \in ToRoot /\ p \in Inside /\ "root" \in Held /\ Ahead("root") = ToRoot
      BY <1>2, <1>3, <2>1, <2>3, Zenon
         DEF Advance, Inside, Generating, ToTSA, ToServer, ToIntermediate, Held, Ahead
    <3>2. pc[x] \in ToRoot \cup {<<"check", None>>} /\ lock' = lock
      BY <1>3, <2>1, <2>3, <3>1, Zenon DEF Advance
    <3>3. QED
      BY Zenon, <2>1, <2>3, <3>2 DEF Unguarded
  <2>4. QED
    BY <2>2, <2>3, Zenon
<1>5. ASSUME Kind("root") # {}, NEW c \in Held, NEW y \in StillTo(c)'
      PROVE  y \in StillTo(c)
  BY Zenon, <1>1, <1>2, <1>3, <1>5 DEF StillTo, Advance
<1>6. QED
  BY Zenon, <1>1, <1>4, <1>5, CountKept

LEMMA EndsCounted ==
  ASSUME Typed, Counted, NEW x \in Replicas, Ends(x)
  PROVE  Counted'
<1>1. rows' = rows /\ lost' = lost /\ \A y \in Replicas : y # x => pc'[y] = pc[y]
  BY Zenon, Frame DEF Ends, ReplicaStep
<1>2. pc'[x] \in {Down} \cup {<<"failed", c>> : c \in Held}
  BY Zenon DEF Ends, Gone, Typed
<1>3. pc'[x] \notin ToTSA \cup {<<"check", None>>}
  BY <1>2, SMTT(20) DEF ToTSA, ToServer, ToIntermediate, ToRoot, Making, Down
<1>4. ToRoot \subseteq ToTSA /\ \A c \in Held : Ahead(c) \subseteq ToTSA
  BY Zenon DEF Ahead, ToTSA, ToServer, ToIntermediate, Held
<1>5. lock' = lock \/ lock = x
  BY Zenon DEF Ends, Gone
<1>6. ASSUME NEW y \in Unguarded'
      PROVE  y \in Unguarded
  <2>1. y \in Replicas /\ y # lock' /\ pc'[y] \in ToRoot \cup {<<"check", None>>}
    BY Zenon, <1>6 DEF Unguarded
  <2>2. y # x
    BY Zenon, <1>3, <1>4, <2>1
  <2>3. QED
    BY Zenon, <1>1, <1>5, <2>1, <2>2 DEF Unguarded
<1>7. ASSUME NEW c \in Held, NEW y \in StillTo(c)'
      PROVE  y \in StillTo(c)
  BY Zenon, <1>1, <1>3, <1>4, <1>7 DEF StillTo
<1>8. QED
  BY Zenon, <1>1, <1>6, <1>7, CountKept

LEMMA GenerateCounted ==
  ASSUME Typed, Counted, NEW x \in Replicas, NEW c \in Held, Generate(x, c)
  PROVE  Counted'
<1>1. rows' = rows /\ lost' = lost /\ lock' = lock /\ \A y \in Replicas : y # x => pc'[y] = pc[y]
  BY Zenon, Frame, KeyMade DEF ReplicaStep
<1>2. PICK p : p = pc'[x]
  BY Zenon
<1>3. pc[x] = <<"create", c>> /\ p = <<"persist", c>>
  BY Zenon, <1>2, KeyMade
<1>4. /\ p \in ToRoot \cup {<<"check", None>>} => pc[x] \in ToRoot
      /\ \A e \in Held : p \in Ahead(e) => pc[x] \in Ahead(e)
  BY <1>3, SMTT(20) DEF Ahead, ToTSA, ToServer, ToIntermediate, ToRoot, Making, Held
<1>5. Unguarded' \subseteq Unguarded
  BY Zenon, <1>1, <1>2, <1>4 DEF Unguarded
<1>6. \A e \in Held : StillTo(e)' \subseteq StillTo(e)
  BY Zenon, <1>1, <1>2, <1>4 DEF StillTo
<1>7. QED
  BY Zenon, <1>1, <1>5, <1>6, CountKept

LEMMA LoadsCounted ==
  ASSUME Typed, Counted, NEW x \in Replicas, NEW c \in Held, Loads(x, c)
  PROVE  Counted'
<1>1. rows' = rows /\ lost' = lost /\ lock' = lock /\ \A y \in Replicas : y # x => pc'[y] = pc[y]
  BY Zenon, Frame DEF ReplicaStep, Loads
<1>2. pc'[x] = AfterLoad(x, c)
  BY Zenon DEF Loads, Typed
<1>3. pc'[x] \notin ToTSA \cup {<<"check", None>>}
  BY <1>2, SMTT(20) DEF AfterLoad, ToTSA, ToServer, ToIntermediate, ToRoot, Making, Held
<1>4. ToRoot \subseteq ToTSA /\ \A e \in Held : Ahead(e) \subseteq ToTSA
  BY Zenon DEF Ahead, ToTSA, ToServer, ToIntermediate, Held
<1>5. Unguarded' \subseteq Unguarded
  BY Zenon, <1>1, <1>3, <1>4 DEF Unguarded
<1>6. \A e \in Held : StillTo(e)' \subseteq StillTo(e)
  BY Zenon, <1>1, <1>3, <1>4 DEF StillTo
<1>7. QED
  BY Zenon, <1>1, <1>5, <1>6, CountKept

(* A lost session adds one replica at most that may generate unguarded. *)
LEMMA LostCounted ==
  ASSUME Typed, Counted, NEW x \in Replicas, SessionLost(x)
  PROVE  Counted'
<1>1. UNCHANGED <<rows, pc>> /\ lost' = lost + 1 /\ lock = x /\ lost \in Nat
  BY Zenon DEF SessionLost, store, Typed
<1>2. \A c : Kind(c)' = Kind(c) /\ Ours(c)' = Ours(c) /\ StillTo(c)' = StillTo(c)
  BY Zenon, <1>1 DEF Kind, Ours, StillTo
<1>3. Unguarded' \subseteq Unguarded \cup {x} /\ Unguarded \subseteq Replicas
  BY Zenon, <1>1 DEF Unguarded
<1>4. Cardinality(Unguarded') <= Cardinality(Unguarded) + 1
  <2>1. IsFiniteSet(Unguarded) /\ Cardinality(Unguarded) \in Nat
    BY <1>3, ReplicasFinite, Zenon
  <2>2. /\ IsFiniteSet(Unguarded \cup {x})
        /\ Cardinality(Unguarded \cup {x}) <= Cardinality(Unguarded) + 1
    BY <2>1, FS_AddElement, SMTT(20)
  <2>3. QED
    BY <1>3, <2>1, <2>2, FS_Subset, FS_CardinalityType, SMTT(20)
<1>5. CASE Kind("root") = {}
  <2>1. Cardinality(Unguarded) <= lost /\ Cardinality(Unguarded) \in Nat
        /\ Cardinality(Unguarded') \in Nat
    <3>1. Unguarded \subseteq Replicas /\ Unguarded' \subseteq Replicas
      BY <1>3, Zenon
    <3>2. QED
      BY <1>5, <3>1, ReplicasFinite, Zenon DEF Counted
  <2>2. Cardinality(Unguarded') <= lost'
    BY <1>1, <1>4, <2>1, SMTT(20)
  <2>3. QED
    BY Zenon, <1>2, <1>5, <2>2 DEF Counted
<1>6. CASE Kind("root") # {}
  <2>1. ASSUME NEW c \in Held
        PROVE  Cardinality(Ours(c)) + Cardinality(StillTo(c)) <= 1 + lost'
    <3>1. Cardinality(Ours(c)) \in Nat /\ Cardinality(StillTo(c)) \in Nat
      BY RowsFinite, ReplicasFinite, FS_CardinalityType, Zenon DEF StillTo
    <3>2. Cardinality(Ours(c)) + Cardinality(StillTo(c)) <= 1 + lost
      BY <1>6, SMTT(20) DEF Counted
    <3>3. QED
      BY <1>1, <3>1, <3>2, SMTT(20)
  <2>2. QED
    BY Zenon, <1>2, <1>6, <2>1 DEF Counted
<1>7. QED
  BY <1>5, <1>6, Zenon

LEMMA OursAppended ==
  ASSUME Typed, NEW r \in RowSet, rows' = Append(rows, r), NEW c
  PROVE  /\ r.kind = c /\ r.ref = c => Ours(c)' = Ours(c) \cup {Len(rows) + 1}
         /\ ~(r.kind = c /\ r.ref = c) => Ours(c)' = Ours(c)
         /\ Len(rows) + 1 \notin Ours(c)
<1>1. \A i \in Kind(c) : i \in DOMAIN rows
  BY Zenon DEF Kind
<1>2. QED
  BY <1>1, Appended, SMTT(20) DEF Ours

(* The first root: whoever is generating passed the check before it. *)
LEMMA FirstCounted ==
  ASSUME Typed, Made, Counted, NEW x \in Replicas, NEW r \in RowSet, EnrolsRow(x, r),
         Kind("root") = {}
  PROVE  Counted'
<1>1. pc[x] \in ToRoot /\ pc[x] = <<"persist", "root">> /\ r.kind = "root" /\ r.ref = "root"
      /\ pc' = [pc EXCEPT ![x] = After(x, "root")] /\ rows' = Append(rows, r)
      /\ lock' = lock /\ lost' = lost
  <2>1. pc[x] \notin Through \cup (Generating \ ToRoot)
    BY Zenon DEF Made, HasRoot
  <2>2. pc[x] \notin {<<"up", None>>, <<"admin", None>>}
    BY <2>1, SMTT(20) DEF Through, Generating, ToTSA, ToServer, ToIntermediate, ToRoot, Making
  <2>3. PICK c \in Held : /\ pc[x] = <<"persist", c>> /\ r.kind = c /\ r.ref = c
                          /\ pc' = [pc EXCEPT ![x] = After(x, c)]
    BY Zenon, <2>2 DEF EnrolsRow
  <2>4. c = "root" /\ pc[x] \in ToRoot
    BY <2>1, <2>3, SMTT(20) DEF Generating, ToTSA, ToServer, ToIntermediate, ToRoot, Making, Held
  <2>5. QED
    BY Zenon, <2>3, <2>4 DEF EnrolsRow, Stores
<1>2. /\ Kind("root")' # {}
      /\ Ours("root")' = {Len(rows) + 1}
      /\ \A c \in Held : c # "root" => Ours(c)' = {}
  <2>1. rows = <<>>
    BY Zenon DEF Made
  <2>2. \A c : Ours(c) = {}
    BY <2>1, SMTT(20) DEF Ours, Kind
  <2>3. Ours("root")' = {Len(rows) + 1}
    <3>1. Ours("root")' = Ours("root") \cup {Len(rows) + 1}
      BY Zenon, <1>1, OursAppended
    <3>2. QED
      BY <2>2, <3>1, Zenon
  <2>4. ASSUME NEW c \in Held, c # "root" PROVE Ours(c)' = {}
    <3>1. Ours(c)' = Ours(c)
      <4>1. ~(r.kind = c /\ r.ref = c)
        BY Zenon, <1>1, <2>4
      <4>2. QED
        BY Zenon, <1>1, <4>1, OursAppended
    <3>2. QED
      BY <2>2, <3>1, Zenon
  <2>5. Kind("root")' # {}
    BY <2>3, Zenon DEF Ours
  <2>6. QED
    BY Zenon, <2>3, <2>4, <2>5
<1>3. /\ "root" \in Held /\ Ahead("root") = ToRoot
      /\ \A c \in Held : Ahead(c) \subseteq Generating
  BY Zenon DEF Held, Ahead, Generating, ToTSA, ToServer, ToIntermediate
<1>4. \A c \in Held : StillTo(c) \subseteq Unguarded \cup {lock}
  BY Zenon, <1>3 DEF StillTo, Unguarded, Made, HasRoot
<1>5. /\ IsFiniteSet(Unguarded \cup {lock}) /\ Cardinality(Unguarded \cup {lock}) \in Nat
      /\ Cardinality(Unguarded \cup {lock}) <= 1 + lost
  <2>1. IsFiniteSet(Unguarded) /\ Cardinality(Unguarded) \in Nat
    BY ReplicasFinite, Zenon DEF Unguarded
  <2>2. /\ IsFiniteSet(Unguarded \cup {lock})
        /\ Cardinality(Unguarded \cup {lock}) <= Cardinality(Unguarded) + 1
    BY <2>1, FS_AddElement, SMTT(20)
  <2>3. Cardinality(Unguarded) <= lost /\ lost \in Nat
    BY Zenon DEF Counted, Typed
  <2>4. Cardinality(Unguarded \cup {lock}) \in Nat
    BY <2>2, FS_CardinalityType, Zenon
  <2>5. QED
    BY <2>1, <2>2, <2>3, <2>4, SMTT(20)
<1>6. \A c \in Held : /\ IsFiniteSet(StillTo(c)) /\ Cardinality(StillTo(c)) \in Nat
                      /\ Cardinality(StillTo(c)) <= 1 + lost
  <2>1. ASSUME NEW c \in Held
        PROVE  /\ IsFiniteSet(StillTo(c)) /\ Cardinality(StillTo(c)) \in Nat
               /\ Cardinality(StillTo(c)) <= 1 + lost
    <3>1. IsFiniteSet(StillTo(c)) /\ Cardinality(StillTo(c)) \in Nat
          /\ Cardinality(StillTo(c)) <= Cardinality(Unguarded \cup {lock})
      BY <1>4, <1>5, FS_Subset, FS_CardinalityType, Zenon
    <3>2. QED
      BY <1>5, <3>1, SMTT(20) DEF Typed
  <2>2. QED
    BY Zenon, <2>1
<1>7. \A c \in Held : StillTo(c)' \subseteq StillTo(c)
  <2>1. pc'[x] = After(x, "root") /\ \A y \in Replicas : y # x => pc'[y] = pc[y]
    BY Zenon, <1>1 DEF Typed
  <2>2. \A c \in Held : After(x, "root") \in Ahead(c) => pc[x] \in Ahead(c)
    BY Zenon, <1>1, <1>3, AfterPoints
  <2>3. QED
    BY Zenon, <2>1, <2>2 DEF StillTo
<1>8. ASSUME NEW c \in Held, c # "root"
      PROVE  Cardinality(Ours(c)') + Cardinality(StillTo(c)') <= 1 + lost
  <2>1. Cardinality(Ours(c)') = 0
    BY Zenon, <1>2, <1>8, FS_EmptySet
  <2>2. Cardinality(StillTo(c)') <= Cardinality(StillTo(c)) /\ Cardinality(StillTo(c)') \in Nat
    BY <1>6, <1>7, FS_Subset, FS_CardinalityType, Zenon
  <2>3. QED
    BY <1>6, <2>1, <2>2, SMTT(20) DEF Typed
<1>9. Cardinality(Ours("root")') + Cardinality(StillTo("root")') <= 1 + lost
  <2>1. Cardinality(Ours("root")') = 1
    BY Zenon, <1>2, FS_Singleton
  <2>2. x \in StillTo("root") /\ StillTo("root")' \subseteq StillTo("root") \ {x}
    <3>1. x \in StillTo("root")
      BY Zenon, <1>1, <1>3 DEF StillTo
    <3>2. pc'[x] \notin ToRoot
      BY Zenon, <1>1, <1>3, AfterPoints DEF Typed
    <3>3. x \notin StillTo("root")'
      BY Zenon, <1>3, <3>2 DEF StillTo
    <3>4. QED
      BY Zenon, <1>3, <1>7, <3>1, <3>3
  <2>3. /\ IsFiniteSet(StillTo("root") \ {x})
        /\ Cardinality(StillTo("root") \ {x}) = Cardinality(StillTo("root")) - 1
    BY <1>3, <1>6, <2>2, FS_RemoveElement, ZenonT(40)
  <2>4. Cardinality(StillTo("root")') <= Cardinality(StillTo("root") \ {x})
        /\ Cardinality(StillTo("root")') \in Nat
    BY <2>2, <2>3, FS_Subset, FS_CardinalityType, SMTT(20)
  <2>5. Cardinality(StillTo("root")) \in Nat /\ Cardinality(StillTo("root")) <= 1 + lost /\ lost \in Nat
    BY <1>3, <1>6, Zenon DEF Typed
  <2>6. QED
    BY <2>1, <2>3, <2>4, <2>5, SMTT(20)
<1>10. QED
  BY Zenon, <1>1, <1>2, <1>8, <1>9 DEF Counted

(* A later row: one more certificate, one replica fewer that is to store it. *)
LEMMA LaterCounted ==
  ASSUME Typed, Made, Counted, NEW x \in Replicas, NEW r \in RowSet, EnrolsRow(x, r),
         Kind("root") # {}
  PROVE  Counted'
<1>1. rows' = Append(rows, r) /\ lost' = lost /\ lost \in Nat
  BY Zenon DEF EnrolsRow, Stores, Typed
<1>2. Kind("root")' # {}
  BY Zenon, <1>1, Appended
<1>3. \A y \in Replicas : y # x => pc'[y] = pc[y]
  BY Zenon DEF EnrolsRow, Typed
<1>4. SUFFICES ASSUME NEW c \in Held
               PROVE  Cardinality(Ours(c)') + Cardinality(StillTo(c)') <= 1 + lost
  BY Zenon, <1>1, <1>2 DEF Counted
<1>5. /\ IsFiniteSet(Ours(c)) /\ Cardinality(Ours(c)) \in Nat
      /\ IsFiniteSet(StillTo(c)) /\ Cardinality(StillTo(c)) \in Nat
      /\ Cardinality(Ours(c)) + Cardinality(StillTo(c)) <= 1 + lost
  <2>1. StillTo(c) \subseteq Replicas
    BY Zenon DEF StillTo
  <2>2. Cardinality(Ours(c)) + Cardinality(StillTo(c)) <= 1 + lost
    BY Zenon DEF Counted
  <2>3. QED
    BY <2>1, <2>2, RowsFinite, ReplicasFinite, FS_CardinalityType, Zenon
<1>6. StillTo(c)' \subseteq StillTo(c)
  <2>1. pc'[x] \in Ahead(c) => pc[x] \in Ahead(c)
    <3>1. CASE \E e \in Held : pc[x] = <<"persist", e>> /\ pc' = [pc EXCEPT ![x] = After(x, e)]
      <4>1. PICK e \in Held : pc[x] = <<"persist", e>> /\ pc' = [pc EXCEPT ![x] = After(x, e)]
        BY Zenon, <3>1
      <4>2. pc'[x] = After(x, e)
        BY Zenon, <4>1 DEF Typed
      <4>3. After(x, e) \in Ahead(c) => <<"persist", e>> \in Ahead(c)
        BY Zenon, AfterPoints
      <4>4. QED
        BY Zenon, <4>1, <4>2, <4>3
    <3>2. CASE pc[x] = <<"admin", None>> /\ pc' = [pc EXCEPT ![x] = <<"role", None>>]
      <4>1. pc'[x] = <<"role", None>>
        BY Zenon, <3>2 DEF Typed
      <4>2. QED
        BY <3>2, <4>1, SMTT(20) DEF Ahead, ToTSA, ToServer, ToIntermediate, ToRoot, Making, Held
    <3>3. CASE pc' = pc
      BY <3>3, Zenon
    <3>4. QED
      BY Zenon, <3>1, <3>2, <3>3 DEF EnrolsRow
  <2>2. QED
    BY Zenon, <1>3, <2>1 DEF StillTo
<1>7. CASE ~(r.kind = c /\ r.ref = c)
  <2>1. Ours(c)' = Ours(c)
    BY Zenon, <1>1, <1>7, OursAppended
  <2>2. Cardinality(StillTo(c)') <= Cardinality(StillTo(c)) /\ Cardinality(StillTo(c)') \in Nat
    BY <1>5, <1>6, FS_Subset, FS_CardinalityType, Zenon
  <2>3. QED
    BY <1>1, <1>5, <2>1, <2>2, SMTT(20)
<1>8. CASE r.kind = c /\ r.ref = c
  <2>1. pc[x] = <<"persist", c>> /\ pc'[x] = After(x, c)
    <3>1. c # None
      BY StartupAssumption, Zenon DEF ConstantsOK
    <3>2. QED
      BY Zenon, <1>8, <3>1 DEF EnrolsRow, Typed
  <2>2. <<"persist", c>> \in Ahead(c)
    BY Zenon DEF Ahead, ToTSA, ToServer, ToIntermediate, ToRoot, Making, Held
  <2>3. x \in StillTo(c) /\ StillTo(c)' \subseteq StillTo(c) \ {x}
    BY Zenon, <1>6, <2>1, <2>2, AfterPoints DEF StillTo
  <2>4. /\ IsFiniteSet(StillTo(c) \ {x})
        /\ Cardinality(StillTo(c) \ {x}) = Cardinality(StillTo(c)) - 1
    BY <1>5, <2>3, FS_RemoveElement, Zenon
  <2>5. Cardinality(StillTo(c)') <= Cardinality(StillTo(c) \ {x}) /\ Cardinality(StillTo(c)') \in Nat
    BY <2>3, <2>4, FS_Subset, FS_CardinalityType, SMTT(20)
  <2>6. Ours(c)' = Ours(c) \cup {Len(rows) + 1} /\ Len(rows) + 1 \notin Ours(c)
    BY Zenon, <1>1, <1>8, OursAppended
  <2>7. Cardinality(Ours(c)') = Cardinality(Ours(c)) + 1
    BY Zenon, <1>5, <2>6, FS_AddElement
  <2>8. QED
    BY <1>1, <1>5, <2>4, <2>5, <2>7, SMTT(20)
<1>9. QED
  BY <1>7, <1>8, Zenon

LEMMA StepCounted ==
  ASSUME Typed, Made, Counted, NEW x \in Replicas, ReplicaStep(x)
  PROVE  Counted'
BY Zenon, MovesCounted, EndsCounted, GenerateCounted, LoadsCounted, LostCounted, EnrolsARow,
   FirstCounted, LaterCounted DEF ReplicaStep

-----------------------------------------------------------------------------
LEMMA InitBoot ==
  ASSUME Init
  PROVE  BootInv
<1>1. /\ \A x \in Replicas : pc[x] = Down /\ local[x] = NoLocal /\ loaded[x] = NotLoaded
      /\ \A x \in Replicas, c \in Held : cache[x][c] = 0
      /\ \A d \in Keystores, c \in Held : keys[d][c] = 0
      /\ rows = <<>> /\ lost = 0 /\ lock = None
  BY Zenon DEF Init
<1>2. \A c : Kind(c) = {} /\ Ours(c) = {}
  BY <1>1 DEF Kind, Ours
<1>3. /\ Down \notin Generating /\ Down \notin Through /\ Down \notin Inside /\ Down \notin ToRoot
      /\ Down \notin ToIntermediate /\ Down \notin Loading /\ Down # <<"check", None>>
      /\ \A c \in Held : Down # <<"persist", c>> /\ Down # <<"create", c>>
      /\ Down \in AllPoints
  BY Zenon DEF Down, AllPoints, Loading, Inside, Through, Generating, ToTSA, ToServer, ToIntermediate,
         Making, ToRoot, Held
<1>4. Typed
  <2>1. NoRow \in RowSet \cup {NoRow} /\ NoLocal \in Locals
    BY Zenon DEF NoLocal, Locals
  <2>2. NotLoaded \in [Held -> Material]
    BY Zenon, <2>1 DEF NotLoaded, Material
  <2>3. rows \in Seq(RowSet)
    BY <1>1, SMTT(20)
  <2>4. pc \in [Replicas -> AllPoints] /\ local \in [Replicas -> Locals]
        /\ loaded \in [Replicas -> [Held -> Material]]
    BY Zenon, <1>3, <2>1, <2>2 DEF Init
  <2>5. QED
    BY <2>3, <2>4, SMTT(20) DEF Init, Typed
<1>5. Rowed /\ Signed
  BY <1>1, <1>2, SMTT(20) DEF Rowed, Signed
<1>6. Made
  BY Zenon, <1>1, <1>2, <1>3 DEF Made, Knows, HasRoot, Held
<1>7. Counted
  <2>1. Unguarded = {}
    BY Zenon, <1>1, <1>3 DEF Unguarded
  <2>2. QED
    BY <1>1, <1>2, <2>1, FS_EmptySet, SMTT(20) DEF Counted
<1>8. \A c \in Held : NoLocal.key[c] = 0 /\ NotLoaded[c].key = 0
  BY Zenon DEF NoLocal, NotLoaded
<1>9. LoadedInv
  BY Zenon, <1>1, <1>3, <1>8 DEF LoadedInv, HoldsRows, LoadsInOrder, Loading
<1>10. Faithful
  BY Zenon, <1>1, <1>8 DEF Faithful
<1>11. Alone
  BY Zenon, <1>1, <1>3 DEF Alone, Sole
<1>12. "root" \in Held /\ "intermediate" \in Held
  BY SMTT(20) DEF Held
<1>13. Same /\ OneCA
  <2>1. DOMAIN rows = {}
    BY <1>1, SMTT(20)
  <2>2. QED
    BY Zenon, <1>1, <1>2, <1>12, <2>1 DEF Same, OneCA
<1>14. QED
  BY Zenon, <1>4, <1>5, <1>6, <1>7, <1>9, <1>10, <1>11, <1>13 DEF BootInv, Matching

LEMMA NextBoot ==
  ASSUME BootInv, [Next]_vars
  PROVE  BootInv'
<1>1. CASE Next
  <2>1. PICK x \in Replicas : ReplicaStep(x)
    BY Zenon, <1>1, ReplicaSteps DEF BootInv
  <2>2. QED
    BY Zenon, <2>1, StepTyped, StepRowed, StepMade, StepCounted, StepSigned, StepLoaded,
       StepMatching DEF BootInv
<1>2. CASE UNCHANGED vars
  <2>1. /\ lock' = lock /\ rows' = rows /\ keys' = keys /\ cache' = cache /\ pc' = pc
        /\ local' = local /\ loaded' = loaded /\ fresh' = fresh /\ lost' = lost
    BY <1>2, SMTT(20) DEF vars, store, counters
  <2>2. \A c : Kind(c)' = Kind(c) /\ Ours(c)' = Ours(c) /\ StillTo(c)' = StillTo(c)
    BY Zenon, <2>1 DEF Kind, Ours, StillTo
  <2>3. Typed' /\ Unguarded' = Unguarded
    BY Zenon, <2>1 DEF BootInv, Typed, Unguarded
  <2>4. Rowed' /\ Signed'
    BY Zenon, <2>1, <2>2 DEF BootInv, Rowed, Signed
  <2>5. Made'
    BY Zenon, <2>1, <2>2 DEF BootInv, Made, Knows, HasRoot
  <2>6. Counted'
    BY Zenon, <2>1, <2>2, <2>3 DEF BootInv, Counted
  <2>7. LoadedInv'
    BY ZenonT(40), <2>1, <2>2 DEF BootInv, LoadedInv, HoldsRows, LoadsInOrder
  <2>8. Faithful' = Faithful /\ Same' = Same /\ Alone' = Alone /\ OneCA' = OneCA
    BY <2>1, <2>2, SMTT(20) DEF Faithful, Same, Alone, Sole, OneCA
  <2>9. Matching'
    BY Zenon, <2>1, <2>8 DEF BootInv, Matching, Calm, SharedVault
  <2>10. QED
    BY Zenon, <2>3, <2>4, <2>5, <2>6, <2>7, <2>9 DEF BootInv
<1>3. QED
  BY <1>1, <1>2, Zenon

(* A generation more per session lost, at the most. *)
LEMMA BootCounted ==
  ASSUME BootInv, NEW c \in Held
  PROVE  /\ IsFiniteSet(Ours(c)) /\ Cardinality(Ours(c)) \in Nat /\ lost \in Nat
         /\ Cardinality(Ours(c)) <= 1 + lost
<1>1. Typed /\ Made /\ Counted
  BY Zenon DEF BootInv
<1>2. IsFiniteSet(Ours(c)) /\ Cardinality(Ours(c)) \in Nat /\ lost \in Nat
  BY <1>1, RowsFinite, FS_CardinalityType, Zenon DEF Typed
<1>3. CASE Kind("root") = {}
  <2>1. rows = <<>>
    BY Zenon, <1>1, <1>3 DEF Made
  <2>2. Ours(c) = {}
    BY <2>1, SMTT(20) DEF Ours, Kind
  <2>3. Cardinality(Ours(c)) = 0
    BY Zenon, <2>2, FS_EmptySet
  <2>4. QED
    BY <1>2, <2>3, SMTT(20)
<1>4. CASE Kind("root") # {}
  <2>1. Cardinality(Ours(c)) + Cardinality(StillTo(c)) <= 1 + lost
    BY Zenon, <1>1, <1>4 DEF Counted
  <2>2. StillTo(c) \subseteq Replicas
    BY Zenon DEF StillTo
  <2>3. Cardinality(StillTo(c)) \in Nat
    BY <2>2, ReplicasFinite, Zenon
  <2>4. QED
    BY <1>2, <2>1, <2>3, SMTT(20)
<1>5. QED
  BY <1>3, <1>4, Zenon

(* What the invariant says of first-run generation. *)
LEMMA BootOnce ==
  ASSUME BootInv, Calm
  PROVE  OneOfEach
<1>1. Matching
  BY Zenon DEF BootInv
<1>2. SUFFICES ASSUME NEW c \in Held
               PROVE  /\ Cardinality(Ours(c)) <= 1 + lost
                      /\ \A i, j \in Ours(c) : rows[i].key = rows[j].key
  BY Zenon DEF OneOfEach, Ours
<1>3. IsFiniteSet(Ours(c)) /\ Cardinality(Ours(c)) \in Nat /\ lost \in Nat
  BY Zenon, BootCounted
<1>4. Cardinality(Ours(c)) <= 1 + lost
  BY Zenon, BootCounted
<1>5. ASSUME NEW i \in Ours(c), NEW j \in Ours(c)
      PROVE  rows[i].key = rows[j].key
  <2>1. CASE SharedVault
    <3>1. PICK x \in Replicas : TRUE
      BY StartupAssumption, SMTT(20) DEF ConstantsOK
    <3>2. \A k \in Ours(c) : rows[k].key = keys[Keystore[x]][c]
      BY Zenon, <1>1, <2>1 DEF Matching, Calm, Same
    <3>3. QED
      BY Zenon, <3>2
  <2>2. CASE lost = 0
    <3>1. Cardinality(Ours(c)) <= 1
      BY <1>3, <1>4, <2>2, SMTT(20)
    <3>2. i = j
      <4>1. SUFFICES ASSUME i # j PROVE FALSE
        BY Zenon
      <4>2. {i, j} \subseteq Ours(c)
        BY Zenon
      <4>3. Cardinality({i, j}) = 2
        <5>1. Cardinality({i}) = 1 /\ IsFiniteSet({i})
          BY Zenon, FS_Singleton
        <5>2. j \notin {i} /\ {i} \cup {j} = {i, j}
          BY <4>1, Zenon
        <5>3. Cardinality({i} \cup {j}) = Cardinality({i}) + 1
          BY Zenon, <5>1, <5>2, FS_AddElement
        <5>4. QED
          BY <5>1, <5>2, <5>3, SMTT(20)
      <4>4. QED
        BY <1>3, <3>1, <4>2, <4>3, FS_Subset, SMTT(20)
    <3>3. QED
      BY <3>2, Zenon
  <2>3. QED
    BY Zenon, <2>1, <2>2 DEF Calm
<1>6. QED
  BY <1>4, <1>5, Zenon

-----------------------------------------------------------------------------
LEMMA BootAlways == StartupSpec => []BootInv
<1>1. Init => BootInv
  BY InitBoot, SMTT(20)
<1>2. BootInv /\ [Next]_vars => BootInv'
  BY NextBoot, Zenon
<1>3. Spec => []BootInv
  BY <1>1, <1>2, PTL DEF Spec
<1>4. QED
  BY <1>3, StartupRefines, PTL

(* On any keystores, Run generates once, and at the most once more for     *)
(* every session that is lost under the advisory lock.                     *)
THEOREM GenerationsCounted ==
  StartupSpec => [](\A c \in Held : Cardinality(Ours(c)) <= 1 + lost)
<1>1. BootInv => \A c \in Held : Cardinality(Ours(c)) <= 1 + lost
  BY Zenon, BootCounted
<1>2. QED
  BY <1>1, BootAlways, PTL

(* First-run generation happens once: on a shared keystore that keeps the  *)
(* key it has, whatever is lost ...                                        *)
THEOREM OnceOnSharedVault == SharedVault => (StartupSpec => []OneOfEach)
<1>. SUFFICES ASSUME SharedVault PROVE StartupSpec => []OneOfEach
  BY SMTT(20)
<1>1. BootInv => OneOfEach
  BY Zenon, BootOnce DEF Calm
<1>2. QED
  BY <1>1, BootAlways, PTL

(* ... and on any keystores until the lock's session is lost. *)
THEOREM OnceWhileLocked == StartupSpec => [](lost = 0 => OneOfEach)
<1>1. BootInv => (lost = 0 => OneOfEach)
  BY Zenon, BootOnce DEF Calm
<1>2. QED
  BY <1>1, BootAlways, PTL

(* Who serves does so with certificates of the keys it loaded, in one      *)
(* chain, wherever earlier starts ended: on a shared keystore that keeps   *)
(* the key it has ...                                                      *)
THEOREM ServesMatchingOnVault == SharedVault => (StartupSpec => []UpConsistent)
<1>. SUFFICES ASSUME SharedVault PROVE StartupSpec => []UpConsistent
  BY Zenon
<1>1. BootInv => UpConsistent
  BY Zenon, BootServes DEF Calm
<1>2. QED
  BY <1>1, BootAlways, PTL

(* ... and on any keystores until the lock's session is lost. *)
THEOREM ServesMatching == StartupSpec => [](lost = 0 => UpConsistent)
<1>1. BootInv => (lost = 0 => UpConsistent)
  BY Zenon, BootServes DEF Calm
<1>2. QED
  BY <1>1, BootAlways, PTL
=============================================================================
