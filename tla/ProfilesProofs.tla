--------------------------- MODULE ProfilesProofs ---------------------------
(***************************************************************************)
(* Proofs about Profiles, for any number of requests, replicas, profiles,  *)
(* contents, edits, versions and faults.                                   *)
(***************************************************************************)
EXTENDS Profiles, TLAPS

Loading == {"next", "upsert"}

Load == [snap: Directory, todo: SUBSET Names, at: Names \cup {None},
         version: 0..MaxVersion, out: [Names -> Loaded]]

NoneLoaded == [n \in Names |-> Absent]

(* The types the proofs need. *)
Typed ==
  /\ dir \in Directory
  /\ rows \in [Names -> [Version -> Contents \cup {None}]]
  /\ mem \in [Replicas -> [Names -> Loaded]]
  /\ read \in [Replicas -> Directory]
  /\ pc \in [Workers -> {"idle", "read", "next", "upsert", "audit", "create"}]
  /\ load \in [Workers -> Load]

(* What a request knows: a load has built the part of its map that is not  *)
(* left to do, out of the directory it read, and takes every profile that  *)
(* it found there; an issuance holds a profile that was there.             *)
Built(q) ==
  \A n \in Names : IF n \in q.todo THEN q.snap[n] # None
                   ELSE q.out[n].content = q.snap[n]

Knows(w) ==
  /\ pc[w] = "idle" => load[w] = NoLoad
  /\ pc[w] = "read" => load[w].out = NoneLoaded
  /\ pc[w] \in Loading => Built(load[w])
  /\ pc[w] = "upsert" => load[w].at \in load[w].todo
  /\ pc[w] = "create" => load[w].at \in Names /\ load[w].out[load[w].at] # Absent

SnapInv == OneSnapshot /\ \A w \in Workers : Knows(w)

-----------------------------------------------------------------------------
(* The stored versions of a profile are 1 to some number, ... *)
UpTo(n, k) == \A v \in Version : rows[n][v] # None <=> v <= k

(* ... the bound has room for every load that has yet to store it, ... *)
Pending(n) ==
  {w \in Workers : pc[w] = "read" \/ (pc[w] \in Loading /\ n \in load[w].todo)}

InSequence(n) ==
  /\ Latest(n) \in 0..MaxVersion
  /\ UpTo(n, Latest(n))
  /\ Latest(n) + Cardinality(Pending(n)) <= MaxVersion

Room ==
  \A w \in Workers, n \in Names :
    pc[w] \in Loading /\ n \in load[w].todo => Latest(n) + 1 <= MaxVersion

(* ... and a profile in memory has one of them. *)
HasVersion(p, n) == p = Absent \/ p.version \in 1..Latest(n)

VersionInv ==
  /\ \A n \in Names : InSequence(n)
  /\ Room
  /\ \A w \in Workers : pc[w] = "upsert" => load[w].version \in 1..(Latest(load[w].at) + 1)
  /\ \A x \in Replicas, n \in Names : HasVersion(mem[x][n], n)
  /\ \A w \in Workers, n \in Names : HasVersion(load[w].out[n], n)

-----------------------------------------------------------------------------
(* While loads do not overlap: a load stores a version that is new, or     *)
(* holds the same content already, so what is stored stays.                *)
IsStored(p, n) == p = Absent \/ rows[n][p.version] = p.content

Apart ==
  /\ \A v, w \in Workers : pc[v] \in Loading /\ pc[w] \in Loading => v = w
  /\ \A w \in Workers : pc[w] = "upsert" =>
       load[w].version = NextVersion(load[w].at, load[w].snap[load[w].at])

CanTrace(c) ==
  c[1] \in Names /\ \E v \in Version : rows[c[1]][v] = c[2] /\ c[2] # None

Exact ==
  /\ \A x \in Replicas, n \in Names : IsStored(mem[x][n], n)
  /\ \A w \in Workers, n \in Names : IsStored(load[w].out[n], n)
  /\ \A c \in issued : CanTrace(c)

ExactInv == ~overlap => Apart /\ Exact

ProfilesInv == Typed /\ SnapInv /\ VersionInv /\ ExactInv

-----------------------------------------------------------------------------
(* What the steps of a request do to its local variables. *)
Others(w) ==
  /\ pc' = [pc EXCEPT ![w] = pc'[w]]
  /\ load' = [load EXCEPT ![w] = load'[w]]

LEMMA OthersSame ==
  ASSUME Typed, NEW w \in Workers, Others(w)
  PROVE  \A v \in Workers \ {w} : pc'[v] = pc[v] /\ load'[v] = load[v]
BY Zenon DEF Typed, Others

LEMMA NoLoadFields ==
  /\ NoLoad \in Load /\ Absent \in Loaded /\ EmptyDirectory \in Directory
  /\ NoLoad.out = NoneLoaded /\ NoneLoaded \in [Names -> Loaded]
  /\ Absent.content = None
BY ProfilesAssumption DEF NoLoad, Load, Absent, Loaded, EmptyDirectory, Directory, NoneLoaded

LEMMA EndFields ==
  ASSUME Typed, NEW w \in Workers, End(w)
  PROVE  Others(w) /\ pc'[w] = "idle" /\ load'[w] = NoLoad
BY Zenon DEF End, Goto, Typed, Others

LEMMA GlobFields ==
  ASSUME Typed, NEW w \in Workers, Glob(w)
  PROVE  /\ Others(w) /\ pc[w] = "idle" /\ pc'[w] = "read"
         /\ load'[w] \in Load /\ load'[w].out = NoneLoaded
<1>1. [NoLoad EXCEPT !.todo = {n \in Names : dir[n] # None}] \in Load
      /\ [NoLoad EXCEPT !.todo = {n \in Names : dir[n] # None}].out = NoLoad.out
  BY NoLoadFields, Zenon DEF Load
<1>2. load'[w] = [NoLoad EXCEPT !.todo = {n \in Names : dir[n] # None}]
  BY Zenon DEF Glob, Typed
<1>3. Others(w) /\ pc[w] = "idle" /\ pc'[w] = "read"
  BY Zenon DEF Glob, Goto, Typed, Others
<1>4. QED
  BY <1>1, <1>2, <1>3, NoLoadFields, Zenon

LEMMA ReadFields ==
  ASSUME Typed, NEW w \in Workers, ReadFile(w)
  PROVE  /\ Others(w) /\ pc[w] = "read"
         /\ \/ pc'[w] = "idle" /\ load'[w] = NoLoad
            \/ pc'[w] = "read" /\ load'[w] \in Load /\ load'[w].out = load[w].out
<1>1. PICK n \in load[w].todo :
         IF dir[n] = None THEN End(w)
         ELSE /\ load' = [load EXCEPT ![w].todo = @ \ {n}, ![w].snap[n] = dir[n]]
              /\ UNCHANGED pc
  BY Zenon DEF ReadFile
<1>2. CASE dir[n] = None
  BY <1>1, <1>2, EndFields, Zenon DEF ReadFile
<1>3. CASE dir[n] # None
  <2>1. load[w] \in Load /\ n \in Names /\ dir[n] \in Contents \cup {None}
    BY Zenon DEF Typed, Load, Directory
  <2>2. [load[w] EXCEPT !.todo = @ \ {n}, !.snap[n] = dir[n]] \in Load
    BY <2>1, Zenon DEF Load, Directory
  <2>3. [load[w] EXCEPT !.todo = @ \ {n}, !.snap[n] = dir[n]].out = load[w].out
    BY <2>1, Zenon DEF Load
  <2>4. load'[w] = [load[w] EXCEPT !.todo = @ \ {n}, !.snap[n] = dir[n]]
    BY <1>1, <1>3, Zenon DEF Typed
  <2>5. Others(w) /\ pc[w] = "read" /\ pc'[w] = "read"
    BY <1>1, <1>3, Zenon DEF ReadFile, Typed, Others
  <2>6. QED
    BY <2>2, <2>3, <2>4, <2>5, Zenon
<1>4. QED
  BY <1>2, <1>3, Zenon

LEMMA ValidatedFields ==
  ASSUME Typed, NEW w \in Workers, Validated(w)
  PROVE  /\ Others(w) /\ pc[w] = "read"
         /\ \/ pc'[w] = "idle" /\ load'[w] = NoLoad
            \/ /\ pc'[w] = "next" /\ load'[w] \in Load
               /\ load'[w].out = load[w].out /\ load'[w].snap = load[w].snap
               /\ load'[w].todo = {n \in Names : load[w].snap[n] # None}
<1>1. CASE refused
  BY <1>1, EndFields, Zenon DEF Validated
<1>2. CASE ~refused
  <2>. DEFINE T == {n \in Names : load[w].snap[n] # None}
  <2>1. load[w] \in Load /\ T \in SUBSET Names
    BY Zenon DEF Typed
  <2>2. load'[w] = [load[w] EXCEPT !.todo = T] /\ pc[w] = "read" /\ pc'[w] = "next"
    BY <1>2, Zenon DEF Validated, Goto, Typed
  <2>3. Others(w)
    BY <1>2, Zenon DEF Validated, Goto, Typed, Others
  <2>. HIDE DEF T
  <2>4. load'[w] \in Load /\ load'[w].out = load[w].out /\ load'[w].snap = load[w].snap
        /\ load'[w].todo = T
    BY <2>1, <2>2, Zenon DEF Load
  <2>5. QED
    BY <2>2, <2>3, <2>4, Zenon DEF T
<1>3. QED
  BY <1>1, <1>2, Zenon

(* A load that has yet to store a profile has room for its version. *)
LEMMA RoomLeft ==
  ASSUME Typed, VersionInv, NEW w \in Workers, pc[w] \in Loading, NEW n \in load[w].todo
  PROVE  n \in Names /\ Latest(n) \in Nat /\ Latest(n) + 1 <= MaxVersion
<1>1. n \in Names
  BY Zenon DEF Typed, Load
<1>2. QED
  BY <1>1, ProfilesAssumption DEF VersionInv, InSequence, Room

LEMMA NextVersionRange ==
  ASSUME NEW n \in Names, NEW c, Latest(n) \in Nat
  PROVE  NextVersion(n, c) \in 1..(Latest(n) + 1)
BY DEF NextVersion

LEMMA PreviousFields ==
  ASSUME Typed, VersionInv, NEW w \in Workers, GetPrevious(w)
  PROVE  /\ Others(w) /\ pc[w] = "next" /\ pc'[w] = "upsert"
         /\ load'[w] \in Load
         /\ load'[w].out = load[w].out /\ load'[w].snap = load[w].snap
         /\ load'[w].todo = load[w].todo /\ load'[w].at \in load[w].todo
         /\ load'[w].version = NextVersion(load'[w].at, load[w].snap[load'[w].at])
<1>1. PICK n \in load[w].todo :
        load' = [load EXCEPT ![w].at = n, ![w].version = NextVersion(n, load[w].snap[n])]
  BY Zenon DEF GetPrevious
<1>2. Others(w) /\ pc[w] = "next" /\ pc'[w] = "upsert"
  BY <1>1, Zenon DEF GetPrevious, Goto, Typed, Others
<1>3. PICK k : k = NextVersion(n, load[w].snap[n])
  BY Zenon
<1>4. k \in 0..MaxVersion /\ n \in Names
  BY <1>2, <1>3, RoomLeft, NextVersionRange, ProfilesAssumption DEF Loading
<1>5. load'[w] = [load[w] EXCEPT !.at = n, !.version = k]
  BY <1>1, <1>3, Zenon DEF Typed
<1>6. load[w] \in Load
  BY Zenon DEF Typed
<1>7. [load[w] EXCEPT !.at = n, !.version = k] \in Load
  BY <1>4, <1>6, Zenon DEF Load
<1>8. /\ load'[w].out = load[w].out /\ load'[w].snap = load[w].snap
      /\ load'[w].todo = load[w].todo /\ load'[w].at = n /\ load'[w].version = k
  BY <1>5, <1>6, Zenon DEF Load
<1>9. QED
  BY <1>2, <1>3, <1>5, <1>7, <1>8, Zenon

LEMMA UpsertFields ==
  ASSUME Typed, NEW w \in Workers, Knows(w), Upsert(w)
  PROVE  /\ Others(w) /\ pc[w] = "upsert" /\ pc'[w] = "next" /\ load'[w] \in Load
         /\ load'[w].snap = load[w].snap /\ load'[w].todo = load[w].todo \ {load[w].at}
         /\ load'[w].out = [load[w].out EXCEPT ![load[w].at] =
              [version |-> load[w].version, content |-> load[w].snap[load[w].at]]]
<1>. DEFINE n == load[w].at
            p == [version |-> load[w].version, content |-> load[w].snap[n]]
<1>1. pc[w] = "upsert" /\ pc'[w] = "next" /\ Others(w)
  <2>1. pc[w] = "upsert" /\ pc' = [pc EXCEPT ![w] = "next"]
    BY Zenon DEF Upsert, Goto
  <2>2. load' = [load EXCEPT ![w].todo = @ \ {n}, ![w].out[n] = p,
                             ![w].at = None, ![w].version = 0]
    BY Zenon DEF Upsert
  <2>. HIDE DEF n, p
  <2>3. load' = [load EXCEPT ![w] = load'[w]]
    BY <2>2, ZenonT(30) DEF Typed
  <2>4. pc' = [pc EXCEPT ![w] = pc'[w]] /\ pc'[w] = "next"
    BY <2>1, Zenon DEF Typed
  <2>5. QED
    BY <2>1, <2>3, <2>4, Zenon DEF Others
<1>2. load[w] \in Load /\ n \in Names
  BY <1>1, Zenon DEF Typed, Load, Knows
<1>3. p \in Loaded
  BY <1>2, Zenon DEF Load, Loaded, Directory
<1>4. load'[w] = [load[w] EXCEPT !.todo = @ \ {n}, !.out[n] = p, !.at = None, !.version = 0]
  BY Zenon DEF Upsert, Typed
<1>. HIDE DEF n, p
<1>5. /\ load'[w].snap = load[w].snap /\ load'[w].todo = load[w].todo \ {n}
      /\ load'[w].out = [load[w].out EXCEPT ![n] = p]
      /\ load'[w].at = None /\ load'[w].version = 0
  BY <1>2, <1>4, Zenon DEF Load
<1>6. load'[w] \in Load
  <2>1. 0 \in 0..MaxVersion
    BY ProfilesAssumption
  <2>2. PICK l : l = [load[w] EXCEPT !.todo = @ \ {n}, !.out[n] = p]
    BY Zenon
  <2>3. l \in Load
    BY <1>2, <1>3, <2>2, Zenon DEF Load
  <2>4. load'[w] = [l EXCEPT !.at = None, !.version = 0]
    BY <1>4, <2>2, Zenon
  <2>5. QED
    BY <2>1, <2>3, <2>4, Zenon DEF Load
<1>7. QED
  BY <1>1, <1>5, <1>6, Zenon DEF n, p

LEMMA UpsertOut ==
  ASSUME Typed, NEW w \in Workers, Knows(w), Upsert(w), NEW m \in Names
  PROVE  /\ m # load[w].at => load'[w].out[m] = load[w].out[m]
         /\ m = load[w].at => load'[w].out[m].version = load[w].version
                             /\ load'[w].out[m].content = load[w].snap[m]
<1>1. PICK p : /\ p = [version |-> load[w].version, content |-> load[w].snap[load[w].at]]
               /\ load'[w].out = [load[w].out EXCEPT ![load[w].at] = p]
  BY UpsertFields, Zenon
<1>. DEFINE o == load[w].out
<1>2. o \in [Names -> Loaded]
  BY Zenon DEF Typed, Load
<1>. HIDE DEF o
<1>3. load'[w].out[m] = IF m = load[w].at THEN p ELSE o[m]
  BY <1>1, <1>2, Zenon DEF o
<1>4. p.version = load[w].version /\ p.content = load[w].snap[load[w].at]
  BY <1>1, Zenon
<1>5. QED
  BY <1>3, <1>4, Zenon DEF o

LEMMA LookupFields ==
  ASSUME Typed, NEW w \in Workers, NEW n \in Names, Lookup(w, n), load[w] = NoLoad
  PROVE  /\ Others(w) /\ pc[w] = "idle" /\ pc'[w] = "create" /\ load'[w] \in Load
         /\ load'[w].at = n /\ load'[w].out = [NoneLoaded EXCEPT ![n] = mem[Home[w]][n]]
         /\ mem[Home[w]][n] # Absent
<1>1. Others(w) /\ pc[w] = "idle" /\ pc'[w] = "create" /\ mem[Home[w]][n] # Absent
  BY ZenonT(40) DEF Lookup, Goto, Typed, Others
<1>2. PICK p \in Loaded : p = mem[Home[w]][n]
  BY ProfilesAssumption DEF Typed
<1>3. load'[w] = [NoLoad EXCEPT !.at = n, !.out[n] = p]
  BY <1>2, Zenon DEF Lookup, Typed
<1>4. NoLoad \in Load /\ NoLoad.out = NoneLoaded
  BY NoLoadFields, Zenon
<1>5. [NoLoad EXCEPT !.at = n, !.out[n] = p] \in Load
  BY <1>2, <1>4, Zenon DEF Load
<1>6. load'[w].at = n /\ load'[w].out = [NoLoad.out EXCEPT ![n] = p]
  BY <1>3, <1>4, Zenon DEF Load
<1>7. QED
  BY <1>1, <1>2, <1>3, <1>4, <1>5, <1>6, Zenon

-----------------------------------------------------------------------------
(* Types, what requests know, and one snapshot per registry. *)
Base == Typed /\ SnapInv

LEMMA InitBase == Init => Base
<1>. SUFFICES ASSUME Init
              PROVE  Base
  BY Zenon
<1>1. Typed
  BY NoLoadFields, Zenon DEF Init, Typed, NoneLoaded
<1>2. \A w \in Workers : Knows(w)
  BY Zenon DEF Init, Knows, Loading
<1>3. OneSnapshot
  BY NoLoadFields, Zenon DEF Init, OneSnapshot, EmptyDirectory
<1>4. QED
  BY <1>1, <1>2, <1>3, Zenon DEF Base, SnapInv

(* A step of request w that leaves the registries alone. *)
LEMMA BaseStep ==
  ASSUME Base, NEW w \in Workers, Others(w), UNCHANGED <<mem, read>>,
         dir' \in Directory, rows' \in [Names -> [Version -> Contents \cup {None}]],
         pc'[w] \in {"idle", "read", "next", "upsert", "audit", "create"}, load'[w] \in Load,
         Knows(w)'
  PROVE  Base'
<1>. USE DEF Base
<1>1. pc' \in [Workers -> {"idle", "read", "next", "upsert", "audit", "create"}]
  BY Zenon DEF Others, Typed
<1>2. load' \in [Workers -> Load]
  BY Zenon DEF Others, Typed
<1>3. \A v \in Workers \ {w} : Knows(v)'
  BY OthersSame DEF SnapInv, Knows
<1>4. QED
  BY <1>1, <1>2, <1>3, Zenon DEF Typed, SnapInv, OneSnapshot

LEMMA StoreTyped ==
  ASSUME Base, NEW w \in Workers, pc[w] = "upsert", rows' = Store(w)
  PROVE  rows' \in [Names -> [Version -> Contents \cup {None}]]
<1>0. PICK a \in Names, c \in Contents \cup {None} : a = load[w].at /\ c = load[w].snap[a]
  BY SMTT(20) DEF Base, Typed, SnapInv, Knows, Load, Directory
<1>1. PICK k : a = load[w].at /\ c = load[w].snap[a] /\ k = load[w].version
  BY <1>0, Zenon
<1>2. rows' = [rows EXCEPT ![a][k] = c]
  BY <1>1, Zenon DEF Store
<1>3. rows \in [Names -> [Version -> Contents \cup {None}]]
  BY Zenon DEF Base, Typed
<1>4. [rows[a] EXCEPT ![k] = c] \in [Version -> Contents \cup {None}]
  BY <1>1, <1>3, Zenon
<1>5. QED
  BY <1>2, <1>3, <1>4, Zenon

Points == {"idle", "read", "next", "upsert", "audit", "create"}

LEMMA IdleKnows ==
  ASSUME NEW w \in Workers, pc'[w] = "idle", load'[w] = NoLoad
  PROVE  Knows(w)' /\ load'[w] \in Load
BY NoLoadFields, Zenon DEF Knows, Loading

(* Load up to the swap. *)
LEMMA LoadBase ==
  ASSUME Base, VersionInv, NEW w \in Workers,
         Glob(w) \/ ReadFile(w) \/ Validated(w) \/ GetPrevious(w) \/ Upsert(w)
  PROVE  Base'
<1>. USE DEF Base
<1>1. Knows(w) /\ dir \in Directory /\ rows \in [Names -> [Version -> Contents \cup {None}]]
  BY Zenon DEF SnapInv, Typed
<1>2. CASE Glob(w)
  <2>1. Knows(w)'
    BY <1>2, GlobFields, Zenon DEF Knows, Loading
  <2>2. QED
    BY <1>1, <1>2, <2>1, GlobFields, BaseStep, Zenon DEF Glob, files, memory
<1>3. CASE ReadFile(w)
  <2>1. Knows(w)' /\ load'[w] \in Load /\ pc'[w] \in Points
    BY <1>1, <1>3, ReadFields, IdleKnows, Zenon DEF Knows, Loading, Points
  <2>2. QED
    BY <1>1, <1>3, <2>1, ReadFields, BaseStep, Zenon DEF ReadFile, files, memory, Points
<1>4. CASE Validated(w)
  <2>1. CASE pc'[w] = "idle" /\ load'[w] = NoLoad
    BY <1>1, <1>4, <2>1, IdleKnows, ValidatedFields, BaseStep, Zenon DEF Validated, files, memory
  <2>2. CASE pc'[w] = "next"
    <3>1. load'[w] \in Load /\ load'[w].out = NoneLoaded
          /\ load'[w].todo = {n \in Names : load'[w].snap[n] # None}
      BY <1>1, <1>4, <2>2, ValidatedFields, Zenon DEF Knows
    <3>2. Built(load'[w])
      BY <3>1, NoLoadFields, Zenon DEF Built, NoneLoaded
    <3>3. Knows(w)'
      BY <2>2, <3>2, Zenon DEF Knows, Loading
    <3>4. QED
      BY <1>1, <1>4, <2>2, <3>1, <3>3, ValidatedFields, BaseStep, Zenon DEF Validated, files, memory
  <2>3. QED
    BY <1>4, <2>1, <2>2, ValidatedFields, Zenon
<1>5. CASE GetPrevious(w)
  <2>1. Built(load'[w])
    BY <1>1, <1>5, PreviousFields, SMTT(20) DEF Knows, Built, Loading
  <2>2. Knows(w)'
    BY <1>5, <2>1, PreviousFields, Zenon DEF Knows, Loading
  <2>3. QED
    BY <1>1, <1>5, <2>2, PreviousFields, BaseStep, Zenon DEF GetPrevious, files, memory
<1>6. CASE Upsert(w)
  <2>1. Built(load'[w])
    <3>1. Built(load[w]) /\ load[w] \in Load /\ load[w].at \in Names
      BY <1>1, <1>6, Zenon DEF Knows, Typed, Upsert, Loading, Load
    <3>2. \A m \in Names :
            /\ m # load[w].at => load'[w].out[m] = load[w].out[m]
            /\ m = load[w].at => load'[w].out[m].content = load[w].snap[m]
      BY <1>1, <1>6, UpsertOut, Zenon
    <3>3. load'[w].snap = load[w].snap /\ load'[w].todo = load[w].todo \ {load[w].at}
      BY <1>1, <1>6, UpsertFields, Zenon
    <3>4. QED
      BY <3>1, <3>2, <3>3, Zenon DEF Built
  <2>2. Knows(w)'
    BY <1>1, <1>6, <2>1, UpsertFields, Zenon DEF Knows, Loading
  <2>3. rows' \in [Names -> [Version -> Contents \cup {None}]]
    BY <1>6, StoreTyped, Zenon DEF Upsert
  <2>4. QED
    BY <1>1, <1>6, <2>2, <2>3, UpsertFields, BaseStep, Zenon DEF Upsert, files, memory
<1>7. QED
  BY <1>2, <1>3, <1>4, <1>5, <1>6, Zenon

(* The calls that end a request without a swap, and the look-up. *)
LEMMA RequestBase ==
  ASSUME Base, NEW w \in Workers,
         \/ \E ghost \in BOOLEAN : Fail(w, ghost)
         \/ Audit(w) \/ CreateCertificate(w)
         \/ \E n \in Names : Lookup(w, n)
  PROVE  Base'
<1>. USE DEF Base
<1>1. Knows(w) /\ dir \in Directory /\ rows \in [Names -> [Version -> Contents \cup {None}]]
  BY Zenon DEF SnapInv, Typed
<1>2. ASSUME NEW ghost \in BOOLEAN, Fail(w, ghost)
      PROVE  Base'
  <2>1. rows' \in [Names -> [Version -> Contents \cup {None}]]
    BY <1>1, <1>2, StoreTyped, Zenon DEF Fail
  <2>2. QED
    BY <1>1, <1>2, <2>1, EndFields, IdleKnows, BaseStep, Zenon DEF Fail, files, memory
<1>3. CASE Audit(w) \/ CreateCertificate(w)
  BY <1>1, <1>3, EndFields, IdleKnows, BaseStep, Zenon DEF Audit, CreateCertificate, files, memory
<1>4. ASSUME NEW n \in Names, Lookup(w, n)
      PROVE  Base'
  <2>1. load[w] = NoLoad
    BY <1>1, <1>4, Zenon DEF Lookup, Knows
  <2>2. load'[w].out[n] # Absent /\ load'[w].at = n
    BY <1>4, <2>1, LookupFields, ZenonT(40) DEF NoneLoaded
  <2>3. Knows(w)'
    BY <1>4, <2>1, <2>2, LookupFields, Zenon DEF Knows, Loading
  <2>4. QED
    BY <1>1, <1>4, <2>1, <2>3, LookupFields, BaseStep, Zenon DEF Lookup, files, memory
<1>5. QED
  BY <1>2, <1>3, <1>4, Zenon

(* The swap takes a map that is whole. *)
LEMMA SwapFields ==
  ASSUME Typed, NEW w \in Workers, Swap(w)
  PROVE  /\ Others(w) /\ pc[w] = "next" /\ load[w].todo = {}
         /\ \/ pc'[w] = "audit" /\ load'[w] = load[w]
            \/ pc'[w] = "idle" /\ load'[w] = NoLoad
<1>1. CASE Home[w] \in up
  BY <1>1, Zenon DEF Swap, Goto, Typed, Others
<1>2. CASE Home[w] \notin up
  BY <1>2, EndFields, Zenon DEF Swap
<1>3. QED
  BY <1>1, <1>2, Zenon

LEMMA SwapBase ==
  ASSUME Base, NEW w \in Workers, Swap(w)
  PROVE  Base'
<1>. USE DEF Base
<1>1. Home[w] \in Replicas /\ load[w] \in Load /\ Built(load[w])
  BY ProfilesAssumption, SwapFields, Zenon DEF Typed, SnapInv, Knows, Loading
<1>2. mem' = [mem EXCEPT ![Home[w]] = load[w].out] /\ read' = [read EXCEPT ![Home[w]] = load[w].snap]
      /\ UNCHANGED <<dir, rows>>
  BY Zenon DEF Swap, files
<1>3. mem' \in [Replicas -> [Names -> Loaded]] /\ read' \in [Replicas -> Directory]
  BY <1>1, <1>2, Zenon DEF Typed, Load
<1>4. load'[w] \in Load /\ pc'[w] \in Points /\ Knows(w)'
  BY <1>1, SwapFields, NoLoadFields, Zenon DEF Points, Knows, Loading
<1>5. Typed'
  <2>1. pc' \in [Workers -> Points] /\ load' \in [Workers -> Load]
    BY <1>4, SwapFields, ZenonT(40) DEF Typed, Others, Points
  <2>2. QED
    BY <1>2, <1>3, <2>1, Zenon DEF Typed, Points
<1>6. \A n \in Names : load[w].out[n].content = load[w].snap[n]
  BY <1>1, SwapFields, Zenon DEF Built
<1>7. OneSnapshot'
  BY <1>1, <1>2, <1>6, Zenon DEF OneSnapshot, SnapInv, Typed
<1>8. \A v \in Workers \ {w} : Knows(v)'
  BY SwapFields, OthersSame DEF SnapInv, Knows
<1>9. QED
  BY <1>4, <1>5, <1>7, <1>8, Zenon DEF SnapInv

LEMMA CrashBase ==
  ASSUME Base, NEW x \in Replicas, Crash(x)
  PROVE  Base'
<1>. USE DEF Base
<1>1. \A w \in Workers : \/ pc'[w] = "idle" /\ load'[w] = NoLoad
                         \/ pc'[w] = pc[w] /\ load'[w] = load[w]
  BY Zenon DEF Crash
<1>2. mem' \in [Replicas -> [Names -> Loaded]] /\ read' \in [Replicas -> Directory]
  BY NoLoadFields, Zenon DEF Crash, Typed, NoneLoaded
<1>3. Typed'
  <2>1. pc' \in [Workers -> {"idle", "read", "next", "upsert", "audit", "create"}]
    BY Zenon DEF Crash, Typed
  <2>2. load' \in [Workers -> Load]
    BY NoLoadFields, Zenon DEF Crash, Typed
  <2>3. QED
    BY <1>2, <2>1, <2>2, Zenon DEF Typed, Crash, files
<1>4. OneSnapshot'
  BY NoLoadFields, Zenon DEF Crash, OneSnapshot, SnapInv, Typed, EmptyDirectory
<1>5. ASSUME NEW w \in Workers
      PROVE  Knows(w)'
  BY <1>1, IdleKnows, Zenon DEF SnapInv, Knows
<1>6. QED
  BY <1>3, <1>4, <1>5, Zenon DEF SnapInv

LEMMA NextBase ==
  ASSUME Base, VersionInv, [Next]_vars
  PROVE  Base'
<1>1. CASE UNCHANGED vars
  BY <1>1, Zenon DEF vars, files, memory, Base, Typed, SnapInv, OneSnapshot, Knows
<1>2. ASSUME NEW n \in Names, NEW c \in Contents \cup {None}, Edit(n, c)
      PROVE  Base'
  BY <1>2, Zenon DEF Edit, memory, Base, Typed, SnapInv, OneSnapshot, Knows, Directory
<1>3. CASE EditRefused
  BY <1>3, Zenon DEF EditRefused, memory, Base, Typed, SnapInv, OneSnapshot, Knows
<1>4. QED
  BY <1>1, <1>2, <1>3, LoadBase, RequestBase, SwapBase, CrashBase, Zenon DEF Next

-----------------------------------------------------------------------------
(* Versions.  What CHOOSE picks in Latest, when the versions have no gap. *)
LEMMA TopVersion ==
  ASSUME NEW r, NEW k \in 0..MaxVersion, \A v \in Version : r[v] # None <=> v <= k
  PROVE  (IF \A v \in Version : r[v] = None THEN 0
          ELSE CHOOSE v \in Version : /\ r[v] # None
                                      /\ \A u \in Version : r[u] # None => u <= v) = k
<1>. USE ProfilesAssumption
<1>1. CASE k = 0
  BY <1>1 DEF Version
<1>2. CASE k # 0
  <2>1. k \in Version /\ r[k] # None /\ \A u \in Version : r[u] # None => u <= k
    BY <1>2 DEF Version
  <2>2. ASSUME NEW v \in Version, r[v] # None, \A u \in Version : r[u] # None => u <= v
        PROVE  v = k
    BY <2>1, <2>2 DEF Version
  <2>3. k = CHOOSE v \in Version : r[v] # None /\ \A u \in Version : r[u] # None => u <= v
    BY <2>1, <2>2, Zenon
  <2>4. QED
    BY <2>1, <2>3, Zenon
<1>3. QED
  BY <1>1, <1>2, Zenon

(* Storing a version keeps them without a gap, and no stored one is lost. *)
LEMMA StoreGrows ==
  ASSUME Base, VersionInv, NEW w \in Workers, pc[w] = "upsert", rows' = Store(w)
  PROVE  /\ load[w].at \in Names /\ load[w].version \in Version
         /\ \A n \in Names :
              /\ UpTo(n, Latest(n))' /\ Latest(n)' \in 0..MaxVersion
              /\ Latest(n) <= Latest(n)'
              /\ n # load[w].at => Latest(n)' = Latest(n)
              /\ n = load[w].at => Latest(n)' <= Latest(n) + 1 /\ load[w].version <= Latest(n)'
<1>. USE ProfilesAssumption
<1>1. PICK a, k, c : a = load[w].at /\ k = load[w].version /\ c = load[w].snap[a]
  BY Zenon
<1>2. a \in load[w].todo /\ a \in Names
  BY <1>1, Zenon DEF Base, Typed, Load, SnapInv, Knows
<1>3. c # None
  BY <1>1, <1>2, Zenon DEF Base, SnapInv, Knows, Built, Loading
<1>4. Latest(a) \in Nat /\ Latest(a) + 1 <= MaxVersion /\ k \in 1..(Latest(a) + 1)
  BY <1>1, <1>2, RoomLeft, Zenon DEF Base, VersionInv, Loading
<1>5. k \in Version
  BY <1>4 DEF Version
<1>6. rows' = [rows EXCEPT ![a][k] = c]
  BY <1>1, Zenon DEF Store
<1>7. rows \in [Names -> [Version -> Contents \cup {None}]]
  BY Zenon DEF Base, Typed
<1>8. /\ \A n \in Names : n # a => rows'[n] = rows[n]
      /\ \A v \in Version : rows'[a][v] = IF v = k THEN c ELSE rows[a][v]
  BY <1>2, <1>5, <1>6, <1>7, Zenon
<1>9. ASSUME NEW n \in Names, n # a
      PROVE  Latest(n)' = Latest(n) /\ UpTo(n, Latest(n))' /\ Latest(n) \in 0..MaxVersion
  <2>1. rows'[n] = rows[n]
    BY <1>8, <1>9, Zenon
  <2>2. PICK j : j = Latest(n)
    BY Zenon
  <2>3. j \in 0..MaxVersion /\ \A v \in Version : rows[n][v] # None <=> v <= j
    BY <2>2, Zenon DEF VersionInv, InSequence, UpTo
  <2>4. \A v \in Version : rows'[n][v] # None <=> v <= j
    BY <2>1, <2>3, Zenon
  <2>5. Latest(n)' = j
    BY <2>3, <2>4, TopVersion, Zenon DEF Latest
  <2>6. QED
    BY <2>2, <2>3, <2>4, <2>5, Zenon DEF UpTo
<1>10. PICK m : m = IF k <= Latest(a) THEN Latest(a) ELSE k
  BY Zenon
<1>11. m \in 0..MaxVersion /\ Latest(a) <= m /\ m <= Latest(a) + 1 /\ k <= m
  BY <1>4, <1>10
<1>12. \A v \in Version : rows'[a][v] # None <=> v <= m
  <2>1. \A v \in Version : rows[a][v] # None <=> v <= Latest(a)
    BY <1>2, Zenon DEF VersionInv, InSequence, UpTo
  <2>2. \A v \in Version : v <= m <=> (v <= Latest(a) \/ v = k)
    BY <1>4, <1>10 DEF Version
  <2>3. QED
    BY <1>3, <1>8, <2>1, <2>2, Zenon
<1>13. Latest(a)' = m
  BY <1>11, <1>12, TopVersion, Zenon DEF Latest
<1>14. UpTo(a, Latest(a))'
  BY <1>12, <1>13, Zenon DEF UpTo
<1>15. QED
  BY <1>1, <1>2, <1>5, <1>9, <1>11, <1>13, <1>14

LEMMA NoneHasVersion ==
  ASSUME NEW n \in Names
  PROVE  HasVersion(NoLoad.out[n], n) /\ HasVersion(NoneLoaded[n], n) /\ HasVersion(Absent, n)
BY NoLoadFields, Zenon DEF NoneLoaded, HasVersion

-----------------------------------------------------------------------------
(* Loads that do not overlap. *)
RowsStay == \A n \in Names, v \in Version : rows[n][v] # None => rows'[n][v] = rows[n][v]

LEMMA NothingOverwritten ==
  ASSUME Base, VersionInv, Apart, NEW w \in Workers, pc[w] = "upsert", rows' = Store(w)
  PROVE  /\ RowsStay
         /\ load[w].at \in Names /\ load[w].version \in Version
         /\ rows'[load[w].at][load[w].version] = load[w].snap[load[w].at]
<1>. USE ProfilesAssumption
<1>0. PICK a \in Names, k \in Version : a = load[w].at /\ k = load[w].version
  BY StoreGrows, Zenon
<1>1. PICK c : a = load[w].at /\ k = load[w].version /\ c = load[w].snap[a]
  BY <1>0, Zenon
<1>2. rows' = [rows EXCEPT ![a][k] = c]
  BY <1>1, Zenon DEF Store
<1>3. rows \in [Names -> [Version -> Contents \cup {None}]]
  BY Zenon DEF Base, Typed
<1>4. /\ \A n \in Names : n # a => rows'[n] = rows[n]
      /\ \A v \in Version : rows'[a][v] = IF v = k THEN c ELSE rows[a][v]
  BY <1>2, <1>3, Zenon
<1>5. Latest(a) \in 0..MaxVersion /\ \A v \in Version : rows[a][v] # None <=> v <= Latest(a)
  BY Zenon DEF VersionInv, InSequence, UpTo
<1>6. k = NextVersion(a, c)
  BY <1>1, Zenon DEF Apart
<1>7. rows[a][k] = None \/ rows[a][k] = c
  <2>1. CASE k = Latest(a) + 1
    BY <1>5, <2>1
  <2>2. CASE Latest(a) = 0
    BY <1>5, <1>6, <2>2 DEF NextVersion
  <2>3. CASE Encode(Latest(a), rows[a][Latest(a)]) = Encode(1, c) /\ Latest(a) # 0
    <3>1. k = Latest(a)
      BY <1>6, <2>3, Zenon DEF NextVersion
    <3>2. rows[a][Latest(a)] = c
      BY <2>3, Zenon DEF Encode
    <3>3. QED
      BY <3>1, <3>2, Zenon
  <2>4. QED
    BY <1>6, <2>1, <2>2, <2>3, Zenon DEF NextVersion
<1>8. RowsStay
  BY <1>4, <1>7, Zenon DEF RowsStay
<1>9. QED
  BY <1>1, <1>4, <1>8, Zenon

(* What is stored and stays is still stored. *)
LEMMA StillStored ==
  ASSUME VersionInv, RowsStay, NEW n \in Names, NEW p, HasVersion(p, n), IsStored(p, n)
  PROVE  IsStored(p, n)'
<1>1. CASE p = Absent
  BY <1>1, Zenon DEF IsStored
<1>2. CASE p # Absent
  <2>1. p.version \in Version /\ rows[n][p.version] # None /\ rows[n][p.version] = p.content
    BY <1>2, ProfilesAssumption DEF HasVersion, IsStored, VersionInv, InSequence, UpTo, Version
  <2>2. QED
    BY <2>1, Zenon DEF RowsStay, IsStored
<1>3. QED
  BY <1>1, <1>2, Zenon

LEMMA StillTraced ==
  ASSUME RowsStay, NEW c, CanTrace(c)
  PROVE  CanTrace(c)'
BY Zenon DEF RowsStay, CanTrace

LEMMA ExactKept ==
  ASSUME Base, VersionInv, Exact, RowsStay,
         \A x \in Replicas, n \in Names :
           HasVersion(mem'[x][n], n) /\ IsStored(mem'[x][n], n),
         \A w \in Workers, n \in Names :
           \/ HasVersion(load'[w].out[n], n) /\ IsStored(load'[w].out[n], n)
           \/ IsStored(load[w].out[n], n)',
         \A c \in issued' : CanTrace(c)
  PROVE  Exact'
<1>1. ASSUME NEW x \in Replicas, NEW n \in Names
      PROVE  IsStored(mem[x][n], n)'
  <2>1. PICK p : p = mem'[x][n]
    BY Zenon
  <2>2. IsStored(p, n)'
    BY <2>1, StillStored, Zenon
  <2>3. QED
    BY <2>1, <2>2, Zenon
<1>2. ASSUME NEW w \in Workers, NEW n \in Names
      PROVE  IsStored(load[w].out[n], n)'
  <2>1. PICK p : p = load'[w].out[n]
    BY Zenon
  <2>2. CASE HasVersion(p, n) /\ IsStored(p, n)
    <3>1. IsStored(p, n)'
      BY <2>2, StillStored, Zenon
    <3>2. QED
      BY <2>1, <3>1, Zenon
  <2>3. QED
    BY <2>1, <2>2, Zenon
<1>3. \A c \in issued' : CanTrace(c)'
  BY StillTraced, Zenon
<1>4. QED
  BY <1>1, <1>2, <1>3, Zenon DEF Exact

LEMMA ApartKept ==
  ASSUME Apart, UNCHANGED rows,
         \A v \in Workers : pc'[v] \in Loading => pc[v] \in Loading,
         \A v \in Workers : pc'[v] = "upsert" =>
           load'[v].version = NextVersion(load'[v].at, load'[v].snap[load'[v].at])
  PROVE  Apart'
<1>1. \A n, c : NextVersion(n, c)' = NextVersion(n, c)
  <2>1. \A n : Latest(n)' = Latest(n)
    BY SMTT(20) DEF Latest
  <2>2. QED
    BY <2>1, Zenon DEF NextVersion
<1>2. ASSUME NEW v \in Workers, pc'[v] = "upsert"
      PROVE  load'[v].version = NextVersion(load[v].at, load[v].snap[load[v].at])'
  BY <1>1, <1>2, Zenon
<1>3. \A u, v \in Workers : pc'[u] \in Loading /\ pc'[v] \in Loading => u = v
  BY Zenon DEF Apart
<1>4. QED
  BY <1>2, <1>3, Zenon DEF Apart

(* A step of request w that stores no version. *)
LEMMA ExactQuiet ==
  ASSUME Base, VersionInv, Apart, Exact, NEW w \in Workers, Others(w), UNCHANGED rows,
         \A x \in Replicas, n \in Names :
           HasVersion(mem'[x][n], n) /\ IsStored(mem'[x][n], n),
         \A n \in Names : HasVersion(load'[w].out[n], n) /\ IsStored(load'[w].out[n], n),
         \A c \in issued' : CanTrace(c),
         pc'[w] \in Loading => pc[w] \in Loading,
         pc'[w] = "upsert" =>
           load'[w].version = NextVersion(load'[w].at, load'[w].snap[load'[w].at])
  PROVE  Apart' /\ Exact'
<1>. USE DEF Base
<1>1. RowsStay
  BY Zenon DEF RowsStay
<1>2. \A v \in Workers, n \in Names :
        HasVersion(load'[v].out[n], n) /\ IsStored(load'[v].out[n], n)
  BY OthersSame, Zenon DEF VersionInv, Exact
<1>3. \A v \in Workers : pc'[v] \in Loading => pc[v] \in Loading
  BY OthersSame, Zenon
<1>4. \A v \in Workers : pc'[v] = "upsert" =>
        load'[v].version = NextVersion(load'[v].at, load'[v].snap[load'[v].at])
  <2>1. ASSUME NEW v \in Workers \ {w}
        PROVE  pc'[v] = pc[v] /\ load'[v] = load[v]
    BY OthersSame, Zenon
  <2>2. QED
    BY <2>1, Zenon DEF Apart
<1>5. QED
  BY <1>1, <1>2, <1>3, <1>4, ApartKept, ExactKept, Zenon

LEMMA NoneIsStored ==
  ASSUME NEW n \in Names
  PROVE  IsStored(NoLoad.out[n], n) /\ IsStored(NoneLoaded[n], n) /\ IsStored(Absent, n)
BY NoLoadFields, Zenon DEF NoneLoaded, IsStored

(* The step that stores a version. *)
LEMMA ExactGrow ==
  ASSUME Base, VersionInv, Apart, Exact, NEW w \in Workers, Others(w), UNCHANGED <<mem, issued>>,
         pc[w] = "upsert", rows' = Store(w), pc'[w] \in {"idle", "next"},
         \A n \in Names : \/ load'[w].out[n] = Absent
                          \/ load'[w].out[n] = load[w].out[n]
                          \/ /\ n = load[w].at
                             /\ load'[w].out[n].version = load[w].version
                             /\ load'[w].out[n].content = load[w].snap[n]
  PROVE  Apart' /\ Exact'
<1>. USE DEF Base
<1>1. RowsStay /\ rows'[load[w].at][load[w].version] = load[w].snap[load[w].at]
  BY NothingOverwritten, Zenon
<1>2. ASSUME NEW v \in Workers, NEW n \in Names
      PROVE  \/ HasVersion(load'[v].out[n], n) /\ IsStored(load'[v].out[n], n)
             \/ IsStored(load[v].out[n], n)'
  <2>1. HasVersion(load[v].out[n], n) /\ IsStored(load[v].out[n], n)
    BY Zenon DEF VersionInv, Exact
  <2>2. CASE load'[v].out[n] = load[v].out[n]
    BY <2>1, <2>2, Zenon
  <2>3. CASE v = w /\ load'[w].out[n] = Absent
    BY <2>3, NoneHasVersion, NoneIsStored, Zenon
  <2>4. CASE /\ v = w /\ n = load[w].at /\ load'[w].out[n].version = load[w].version
             /\ load'[w].out[n].content = load[w].snap[n]
    BY <1>1, <2>4, Zenon DEF IsStored
  <2>5. QED
    BY <2>2, <2>3, <2>4, OthersSame, Zenon
<1>3. \A x \in Replicas, n \in Names : HasVersion(mem'[x][n], n) /\ IsStored(mem'[x][n], n)
  BY Zenon DEF VersionInv, Exact
<1>4. Exact'
  BY <1>1, <1>2, <1>3, ExactKept, Zenon DEF Exact
<1>5. \A v \in Workers \ {w} : pc[v] \notin Loading
  BY Zenon DEF Apart, Loading
<1>6. \A v \in Workers : pc'[v] # "upsert" /\ (pc'[v] \in Loading => v = w)
  BY <1>5, OthersSame, Zenon DEF Loading
<1>7. Apart'
  BY <1>6, Zenon DEF Apart
<1>8. QED
  BY <1>4, <1>7, Zenon

LEMMA LoadExact ==
  ASSUME Base, VersionInv, ExactInv, NEW w \in Workers,
         Glob(w) \/ ReadFile(w) \/ Validated(w) \/ GetPrevious(w) \/ Upsert(w)
  PROVE  ExactInv'
<1>. USE DEF Base
<1>. SUFFICES ASSUME ~overlap'
              PROVE  Apart' /\ Exact'
  BY Zenon DEF ExactInv
<1>1. Apart /\ Exact
  <2>1. Validated(w) => (overlap => overlap')
    BY Zenon DEF Validated
  <2>2. ~Validated(w) => overlap' = overlap
    BY Zenon DEF Glob, ReadFile, GetPrevious, Upsert
  <2>3. QED
    BY <2>1, <2>2, Zenon DEF ExactInv
<1>2. /\ Knows(w)
      /\ \A x \in Replicas, n \in Names : HasVersion(mem[x][n], n) /\ IsStored(mem[x][n], n)
      /\ \A n \in Names : HasVersion(load[w].out[n], n) /\ IsStored(load[w].out[n], n)
      /\ \A c \in issued : CanTrace(c)
  BY <1>1, Zenon DEF SnapInv, VersionInv, Exact
<1>3. CASE Glob(w)
  <2>1. UNCHANGED <<rows, mem, issued>> /\ Others(w) /\ pc'[w] = "read"
        /\ load'[w].out = NoneLoaded
    BY <1>3, GlobFields, Zenon DEF Glob, memory
  <2>2. \A n \in Names : HasVersion(load'[w].out[n], n) /\ IsStored(load'[w].out[n], n)
    BY <2>1, NoneHasVersion, NoneIsStored, Zenon
  <2>3. QED
    BY <1>1, <1>2, <2>1, <2>2, ExactQuiet, Zenon DEF Loading
<1>4. CASE ReadFile(w)
  <2>1. UNCHANGED <<rows, mem, issued>> /\ Others(w) /\ pc'[w] \in {"idle", "read"}
        /\ load'[w].out \in {NoLoad.out, load[w].out}
    BY <1>4, ReadFields, Zenon DEF ReadFile, memory
  <2>2. \A n \in Names : HasVersion(load'[w].out[n], n) /\ IsStored(load'[w].out[n], n)
    BY <1>2, <2>1, NoneHasVersion, NoneIsStored, Zenon
  <2>3. QED
    BY <1>1, <1>2, <2>1, <2>2, ExactQuiet, Zenon DEF Loading
<1>5. CASE Validated(w)
  <2>1. UNCHANGED <<rows, mem, issued>> /\ Others(w)
        /\ load'[w].out \in {NoLoad.out, load[w].out} /\ pc'[w] \in {"idle", "next"}
    BY <1>5, ValidatedFields, Zenon DEF Validated, memory
  <2>2. \A n \in Names : HasVersion(load'[w].out[n], n) /\ IsStored(load'[w].out[n], n)
    BY <1>2, <2>1, NoneHasVersion, NoneIsStored, Zenon
  <2>3. CASE pc'[w] = "idle"
    BY <1>1, <1>2, <2>1, <2>2, <2>3, ExactQuiet, Zenon DEF Loading
  <2>4. CASE pc'[w] = "next"
    <3>1. \A v \in Workers : pc[v] \notin Loading
      <4>1. CASE refused
        BY <1>5, <2>4, <4>1, EndFields, Zenon DEF Validated
      <4>2. CASE ~refused
        BY <1>5, <4>2, Zenon DEF Validated, Loading
      <4>3. QED
        BY <4>1, <4>2, Zenon
    <3>2. \A v \in Workers : pc'[v] # "upsert" /\ (pc'[v] \in Loading => v = w)
      BY <2>1, <2>4, <3>1, OthersSame, Zenon DEF Loading
    <3>3. Apart'
      BY <3>2, Zenon DEF Apart
    <3>4. \A v \in Workers, n \in Names :
            HasVersion(load'[v].out[n], n) /\ IsStored(load'[v].out[n], n)
      BY <1>1, <2>1, <2>2, OthersSame, Zenon DEF VersionInv, Exact
    <3>5. RowsStay
      BY <2>1, Zenon DEF RowsStay
    <3>6. Exact'
      BY <1>1, <1>2, <2>1, <3>4, <3>5, ExactKept, Zenon
    <3>7. QED
      BY <3>3, <3>6, Zenon
  <2>5. QED
    BY <2>1, <2>3, <2>4, Zenon
<1>6. CASE GetPrevious(w)
  <2>1. UNCHANGED <<rows, mem, issued>> /\ Others(w) /\ pc[w] = "next" /\ pc'[w] = "upsert"
        /\ load'[w].out = load[w].out /\ load'[w].snap = load[w].snap
        /\ load'[w].version = NextVersion(load'[w].at, load[w].snap[load'[w].at])
    BY <1>6, PreviousFields, Zenon DEF GetPrevious, memory
  <2>2. QED
    BY <1>1, <1>2, <2>1, ExactQuiet, Zenon DEF Loading
<1>7. CASE Upsert(w)
  <2>1. Others(w) /\ pc[w] = "upsert" /\ pc'[w] = "next"
    BY <1>2, <1>7, UpsertFields, Zenon
  <2>2. rows' = Store(w) /\ UNCHANGED <<mem, issued>>
    BY <1>7, Zenon DEF Upsert, memory
  <2>3. \A n \in Names : \/ load'[w].out[n] = load[w].out[n]
                         \/ /\ n = load[w].at
                            /\ load'[w].out[n].version = load[w].version
                            /\ load'[w].out[n].content = load[w].snap[n]
    BY <1>2, <1>7, UpsertOut, Zenon
  <2>4. QED
    BY <1>1, <2>1, <2>2, <2>3, ExactGrow, Zenon
<1>8. QED
  BY <1>3, <1>4, <1>5, <1>6, <1>7, Zenon

(* A certificate names a profile that is stored. *)
LEMMA RowTraced ==
  ASSUME Base, VersionInv, Exact, NEW w \in Workers, pc[w] = "create"
  PROVE  CanTrace(Row(w))
<1>0. PICK a \in Names : a = load[w].at /\ load[w].out[a] # Absent
  BY Zenon DEF Base, SnapInv, Knows
<1>1. PICK p : a = load[w].at /\ p = load[w].out[a] /\ p # Absent
  BY <1>0, Zenon
<1>2. HasVersion(p, a) /\ IsStored(p, a)
  BY <1>1, Zenon DEF VersionInv, Exact
<1>3. p.version \in Version /\ rows[a][p.version] # None /\ rows[a][p.version] = p.content
  <2>1. Latest(a) \in 0..MaxVersion /\ UpTo(a, Latest(a))
    BY Zenon DEF VersionInv, InSequence
  <2>2. p.version \in 1..Latest(a) /\ rows[a][p.version] = p.content
    BY <1>1, <1>2, Zenon DEF HasVersion, IsStored
  <2>3. p.version \in Version /\ p.version <= Latest(a)
    BY <2>1, <2>2, ProfilesAssumption DEF Version
  <2>4. QED
    BY <2>1, <2>2, <2>3, Zenon DEF UpTo
<1>4. Row(w) = <<a, p.content>>
  BY <1>1, Zenon DEF Row
<1>5. QED
  BY <1>3, <1>4 DEF CanTrace

LEMMA RequestExact ==
  ASSUME Base, VersionInv, ExactInv, NEW w \in Workers,
         \/ \E ghost \in BOOLEAN : Fail(w, ghost)
         \/ Audit(w) \/ CreateCertificate(w) \/ Swap(w)
         \/ \E n \in Names : Lookup(w, n)
  PROVE  ExactInv'
<1>. USE DEF Base
<1>. SUFFICES ASSUME ~overlap'
              PROVE  Apart' /\ Exact'
  BY Zenon DEF ExactInv
<1>1. Apart /\ Exact
  BY Zenon DEF Fail, Audit, CreateCertificate, Swap, Lookup, ExactInv
<1>2. /\ Knows(w)
      /\ \A x \in Replicas, n \in Names : HasVersion(mem[x][n], n) /\ IsStored(mem[x][n], n)
      /\ \A n \in Names : HasVersion(load[w].out[n], n) /\ IsStored(load[w].out[n], n)
      /\ \A c \in issued : CanTrace(c)
  BY <1>1, Zenon DEF SnapInv, VersionInv, Exact
<1>3. ASSUME End(w), UNCHANGED <<rows, mem>>, \A c \in issued' : CanTrace(c)
      PROVE  Apart' /\ Exact'
  <2>1. \A n \in Names : HasVersion(load'[w].out[n], n) /\ IsStored(load'[w].out[n], n)
    BY <1>3, EndFields, NoneHasVersion, NoneIsStored, Zenon
  <2>2. QED
    BY <1>1, <1>2, <1>3, <2>1, EndFields, ExactQuiet, Zenon DEF Loading
<1>4. ASSUME pc[w] = "create", issued' \in {issued, issued \cup {Row(w)}}
      PROVE  \A c \in issued' : CanTrace(c)
  BY <1>1, <1>2, <1>4, RowTraced, SMTT(20)
<1>5. ASSUME NEW ghost \in BOOLEAN, Fail(w, ghost)
      PROVE  Apart' /\ Exact'
  <2>1. CASE rows' = rows
    <3>1. \A c \in issued' : CanTrace(c)
      BY <1>2, <1>4, <1>5, Zenon DEF Fail
    <3>2. QED
      BY <1>3, <1>5, <2>1, <3>1, Zenon DEF Fail, memory
  <2>2. CASE pc[w] = "upsert" /\ rows' = Store(w)
    <3>1. \A n \in Names : load'[w].out[n] = Absent
      BY <1>5, EndFields, NoLoadFields, Zenon DEF Fail, NoneLoaded
    <3>2. UNCHANGED <<mem, issued>>
      BY <1>5, <2>2, Zenon DEF Fail, memory
    <3>3. QED
      BY <1>1, <1>5, <2>2, <3>1, <3>2, EndFields, ExactGrow, Zenon DEF Fail
  <2>3. QED
    BY <1>5, <2>1, <2>2, Zenon DEF Fail
<1>6. CASE Audit(w)
  BY <1>2, <1>3, <1>6, Zenon DEF Audit, memory
<1>7. CASE CreateCertificate(w)
  BY <1>3, <1>4, <1>7, Zenon DEF CreateCertificate, memory
<1>8. CASE Swap(w)
  <2>1. UNCHANGED <<rows, issued>> /\ mem' = [mem EXCEPT ![Home[w]] = load[w].out]
    BY <1>8, Zenon DEF Swap
  <2>2. \A x \in Replicas, n \in Names : HasVersion(mem'[x][n], n) /\ IsStored(mem'[x][n], n)
    BY <1>2, <2>1, Zenon DEF Typed
  <2>3. \A n \in Names : HasVersion(load'[w].out[n], n) /\ IsStored(load'[w].out[n], n)
    BY <1>2, <1>8, SwapFields, NoneHasVersion, NoneIsStored, Zenon
  <2>4. QED
    BY <1>1, <1>2, <1>8, <2>1, <2>2, <2>3, SwapFields, ExactQuiet, Zenon DEF Loading
<1>9. ASSUME NEW n \in Names, Lookup(w, n)
      PROVE  Apart' /\ Exact'
  <2>1. load[w] = NoLoad /\ UNCHANGED <<rows, mem, issued>>
    BY <1>2, <1>9, Zenon DEF Lookup, Knows, memory
  <2>2. Home[w] \in Replicas
    BY ProfilesAssumption, Zenon
  <2>3. load'[w].out = [NoneLoaded EXCEPT ![n] = mem[Home[w]][n]]
        /\ Others(w) /\ pc'[w] = "create"
    BY <1>9, <2>1, LookupFields, Zenon
  <2>4. NoneLoaded \in [Names -> Loaded]
    BY NoLoadFields, Zenon
  <2>5. \A m \in Names : load'[w].out[m] = IF m = n THEN mem[Home[w]][n] ELSE NoneLoaded[m]
    BY <2>3, <2>4, Zenon
  <2>6. \A m \in Names : HasVersion(load'[w].out[m], m) /\ IsStored(load'[w].out[m], m)
    BY <1>2, <2>2, <2>5, NoneHasVersion, NoneIsStored, Zenon
  <2>7. QED
    BY <1>1, <1>2, <2>1, <2>3, <2>6, ExactQuiet, Zenon DEF Loading
<1>10. QED
  BY <1>5, <1>6, <1>7, <1>8, <1>9, Zenon

LEMMA CrashExact ==
  ASSUME Base, VersionInv, ExactInv, NEW x \in Replicas, Crash(x)
  PROVE  ExactInv'
<1>. USE DEF Base
<1>. SUFFICES ASSUME ~overlap'
              PROVE  Apart' /\ Exact'
  BY Zenon DEF ExactInv
<1>1. Apart /\ Exact /\ UNCHANGED <<rows, issued>>
  BY Zenon DEF Crash, ExactInv
<1>2. \A w \in Workers : \/ pc'[w] = "idle" /\ load'[w] = NoLoad
                         \/ pc'[w] = pc[w] /\ load'[w] = load[w]
  BY Zenon DEF Crash
<1>3. \A y \in Replicas, n \in Names : HasVersion(mem'[y][n], n) /\ IsStored(mem'[y][n], n)
  <2>1. \A y \in Replicas, n \in Names : mem'[y][n] = mem[y][n] \/ mem'[y][n] = Absent
    BY Zenon DEF Crash, Typed
  <2>2. QED
    BY <1>1, <2>1, NoneHasVersion, NoneIsStored, Zenon DEF VersionInv, Exact
<1>4. \A w \in Workers, n \in Names :
        HasVersion(load'[w].out[n], n) /\ IsStored(load'[w].out[n], n)
  BY <1>1, <1>2, NoneHasVersion, NoneIsStored, Zenon DEF VersionInv, Exact
<1>5. RowsStay
  BY <1>1, Zenon DEF RowsStay
<1>6. Exact'
  BY <1>1, <1>3, <1>4, <1>5, ExactKept, Zenon DEF Exact
<1>7. ASSUME NEW v \in Workers, pc'[v] \in Loading
      PROVE  pc'[v] = pc[v] /\ load'[v] = load[v]
  BY <1>2, <1>7, Zenon DEF Loading
<1>8. \A v \in Workers : pc'[v] = "upsert" =>
        load'[v].version = NextVersion(load'[v].at, load'[v].snap[load'[v].at])
  BY <1>1, <1>7, Zenon DEF Apart, Loading
<1>9. Apart'
  BY <1>1, <1>7, <1>8, ApartKept, Zenon
<1>10. QED
  BY <1>6, <1>9, Zenon

LEMMA NextExact ==
  ASSUME Base, VersionInv, ExactInv, [Next]_vars
  PROVE  ExactInv'
<1>1. ASSUME UNCHANGED <<rows, memory, pc, load, issued, overlap>>
      PROVE  ExactInv'
  <2>1. Exact => Exact'
    BY <1>1, Zenon DEF Exact, IsStored, CanTrace, memory
  <2>2. Apart => Apart'
    BY <1>1, ApartKept, Zenon DEF Apart
  <2>3. QED
    BY <1>1, <2>1, <2>2, Zenon DEF ExactInv
<1>2. CASE UNCHANGED vars
  BY <1>1, <1>2, Zenon DEF vars
<1>3. ASSUME NEW n \in Names, NEW c \in Contents \cup {None}, Edit(n, c)
      PROVE  ExactInv'
  BY <1>1, <1>3, Zenon DEF Edit
<1>4. CASE EditRefused
  BY <1>1, <1>4, Zenon DEF EditRefused
<1>5. QED
  BY <1>2, <1>3, <1>4, LoadExact, RequestExact, CrashExact, Zenon DEF Next

LEMMA InitExact == Init => ExactInv
<1>. SUFFICES ASSUME Init
              PROVE  ExactInv
  BY Zenon
<1>1. Apart
  BY Zenon DEF Init, Apart, Loading
<1>2. Exact
  BY NoneIsStored, Zenon DEF Init, Exact, NoneLoaded
<1>3. QED
  BY <1>1, <1>2, Zenon DEF ExactInv

-----------------------------------------------------------------------------
(* Counting the loads that are to store a profile. *)
INSTANCE FiniteSetTheorems

LEMMA Fewer ==
  ASSUME NEW P \in SUBSET Workers, NEW Q \in SUBSET P
  PROVE  /\ Cardinality(P) \in Nat /\ Cardinality(Q) \in Nat
         /\ Cardinality(Q) <= Cardinality(P)
         /\ \A w \in P \ Q : Cardinality(Q) <= Cardinality(P) - 1
         /\ \A w \in P : 1 <= Cardinality(P)
<1>1. IsFiniteSet(P) /\ IsFiniteSet(Q)
  BY FS_Subset, ProfilesAssumption, Zenon
<1>2. Cardinality(P) \in Nat /\ Cardinality(Q) \in Nat /\ Cardinality(Q) <= Cardinality(P)
  BY <1>1, FS_Subset, FS_CardinalityType, Zenon
<1>3. ASSUME NEW w \in P \ Q
      PROVE  Cardinality(Q) <= Cardinality(P) - 1
  <2>1. Q \in SUBSET (P \ {w})
    BY Zenon
  <2>2. IsFiniteSet(P \ {w}) /\ Cardinality(P \ {w}) = Cardinality(P) - 1
    BY <1>1, FS_RemoveElement, Zenon
  <2>3. QED
    BY <2>1, <2>2, FS_Subset
<1>4. ASSUME NEW w \in P
      PROVE  1 <= Cardinality(P)
  <2>1. Cardinality(P) # 0
    BY <1>1, FS_EmptySet, Zenon
  <2>2. QED
    BY <1>2, <2>1
<1>5. QED
  BY <1>2, <1>3, <1>4, Zenon

LEMMA InitVersions == Init => VersionInv
<1>. SUFFICES ASSUME Init
              PROVE  VersionInv
  BY Zenon
<1>. USE ProfilesAssumption
<1>1. \A n \in Names : Latest(n) = 0 /\ UpTo(n, 0)
  BY DEF Init, Latest, UpTo, Version
<1>2. \A n \in Names : Pending(n) = {}
  BY Zenon DEF Init, Pending, Loading
<1>3. \A n \in Names : InSequence(n)
  BY <1>1, <1>2, FS_EmptySet, SMTT(20) DEF InSequence
<1>4. \A w \in Workers, n \in Names : load[w].out[n] = Absent
  BY NoLoadFields, Zenon DEF Init, NoneLoaded
<1>5. QED
  BY <1>3, <1>4, Zenon DEF Init, VersionInv, HasVersion, Room, Loading

(* Who a step may add to the loads under way: nobody, or the one that      *)
(* begins, for which there is room.                                        *)
LEMMA PendingStep ==
  ASSUME Typed, NEW w \in Workers, Others(w), NEW n \in Names, w \in Pending(n)' => w \in Pending(n)
  PROVE  Pending(n)' \subseteq Pending(n)
BY OthersSame, Zenon DEF Pending

(* A step that stores no version. *)
LEMMA VersionsKept ==
  ASSUME Base, VersionInv, UNCHANGED rows,
         \A n \in Names : Pending(n)' \subseteq Pending(n) \/ VersionRoom,
         \A w \in Workers : pc'[w] = "upsert" =>
           load'[w].at \in Names /\ load'[w].version \in 1..(Latest(load'[w].at) + 1),
         \A x \in Replicas, n \in Names : HasVersion(mem'[x][n], n),
         \A w \in Workers, n \in Names : HasVersion(load'[w].out[n], n)
  PROVE  VersionInv'
<1>1. \A n \in Names : Latest(n)' = Latest(n)
  BY SMTT(20) DEF Latest
<1>2. ASSUME NEW n \in Names
      PROVE  InSequence(n)'
  <2>1. Latest(n) \in 0..MaxVersion /\ UpTo(n, Latest(n))
        /\ Latest(n) + Cardinality(Pending(n)) <= MaxVersion
    BY Zenon DEF VersionInv, InSequence
  <2>2. UpTo(n, Latest(n))'
    BY <1>1, <2>1, Zenon DEF UpTo
  <2>3. Pending(n) \in SUBSET Workers /\ Pending(n)' \in SUBSET Workers
    BY Zenon DEF Pending
  <2>4. CASE Pending(n)' \subseteq Pending(n)
    <3>1. /\ Cardinality(Pending(n)) \in Nat /\ Cardinality(Pending(n)') \in Nat
          /\ Cardinality(Pending(n)') <= Cardinality(Pending(n))
      BY <2>3, <2>4, Fewer, Zenon
    <3>2. Latest(n) + Cardinality(Pending(n)') <= MaxVersion
      BY <2>1, <3>1, ProfilesAssumption, SMTT(20)
    <3>3. QED
      BY <1>1, <2>1, <2>2, <3>2, Zenon DEF InSequence
  <2>5. CASE VersionRoom
    <3>1. /\ Cardinality(Workers) \in Nat /\ Cardinality(Pending(n)') \in Nat
          /\ Cardinality(Pending(n)') <= Cardinality(Workers)
      BY <2>3, Fewer, Zenon
    <3>2. Latest(n) + Cardinality(Workers) <= MaxVersion
      BY <2>5, Zenon DEF VersionRoom
    <3>3. Latest(n) + Cardinality(Pending(n)') <= MaxVersion
      BY <2>1, <3>1, <3>2, ProfilesAssumption, SMTT(20)
    <3>4. QED
      BY <1>1, <2>1, <2>2, <3>3, Zenon DEF InSequence
  <2>6. QED
    BY <2>4, <2>5, Zenon
<1>3. ASSUME NEW w \in Workers, pc'[w] = "upsert"
      PROVE  load'[w].version \in 1..(Latest(load[w].at)' + 1)
  BY <1>1, <1>3, Zenon
<1>4. (\A x \in Replicas, n \in Names : HasVersion(mem[x][n], n))'
  BY <1>1, Zenon DEF HasVersion
<1>5. (\A w \in Workers, n \in Names : HasVersion(load[w].out[n], n))'
  BY <1>1, Zenon DEF HasVersion
<1>6. ASSUME NEW w \in Workers, NEW n \in Names, pc'[w] \in Loading, n \in load'[w].todo
      PROVE  Latest(n)' + 1 <= MaxVersion
  <2>1. w \in Pending(n)' /\ Pending(n)' \in SUBSET Workers
    BY <1>6, Zenon DEF Pending
  <2>2. 1 <= Cardinality(Pending(n)') /\ Cardinality(Pending(n)') \in Nat
    BY <2>1, Fewer, Zenon
  <2>3. Latest(n)' \in 0..MaxVersion /\ Latest(n)' + Cardinality(Pending(n)') <= MaxVersion
    BY <1>2, Zenon DEF InSequence
  <2>4. QED
    BY <2>2, <2>3, ProfilesAssumption, SMTT(20)
<1>7. QED
  BY <1>2, <1>3, <1>4, <1>5, <1>6, Zenon DEF VersionInv, Room

(* The step that stores one. *)
LEMMA VersionsGrow ==
  ASSUME Base, VersionInv, NEW w \in Workers, Others(w), UNCHANGED mem,
         pc[w] = "upsert", rows' = Store(w), pc'[w] \in {"idle", "next"},
         pc'[w] = "next" => load'[w].todo = load[w].todo \ {load[w].at},
         \A n \in Names : \/ load'[w].out[n] = Absent
                          \/ load'[w].out[n] = load[w].out[n]
                          \/ n = load[w].at /\ load'[w].out[n].version = load[w].version
  PROVE  VersionInv'
<1>. USE DEF Base
<1>1. PICK a \in Names, k \in Version : a = load[w].at /\ k = load[w].version
  BY StoreGrows, Zenon
<1>2. \A n \in Names :
        /\ UpTo(n, Latest(n))' /\ Latest(n)' \in 0..MaxVersion /\ Latest(n) <= Latest(n)'
        /\ n # a => Latest(n)' = Latest(n)
        /\ n = a => Latest(n)' <= Latest(n) + 1 /\ k <= Latest(n)'
  BY <1>1, StoreGrows, Zenon
<1>3. \A n \in Names : Latest(n) \in 0..MaxVersion
                       /\ Latest(n) + Cardinality(Pending(n)) <= MaxVersion
  BY Zenon DEF VersionInv, InSequence
<1>4. a \in load[w].todo
  BY <1>1, Zenon DEF SnapInv, Knows
<1>5. ASSUME NEW n \in Names
      PROVE  Latest(n)' + Cardinality(Pending(n)') <= MaxVersion
  <2>1. Pending(n)' \subseteq Pending(n)
    BY PendingStep, Zenon DEF Pending, Loading
  <2>2. Pending(n) \in SUBSET Workers
    BY Zenon DEF Pending
  <2>3. /\ Cardinality(Pending(n)) \in Nat /\ Cardinality(Pending(n)') \in Nat
        /\ Cardinality(Pending(n)') <= Cardinality(Pending(n))
    BY <2>1, <2>2, Fewer, Zenon
  <2>4. CASE n # a
    BY <1>2, <1>3, <2>3, <2>4, ProfilesAssumption, SMTT(20)
  <2>5. CASE n = a
    <3>1. w \in Pending(n) /\ w \notin Pending(n)'
      BY <1>1, <1>4, <2>5, Zenon DEF Pending, Loading
    <3>2. Cardinality(Pending(n)') <= Cardinality(Pending(n)) - 1
      BY <2>1, <2>2, <3>1, Fewer, Zenon
    <3>3. QED
      BY <1>2, <1>3, <2>3, <2>5, <3>2, ProfilesAssumption, SMTT(20)
  <2>6. QED
    BY <2>4, <2>5, Zenon
<1>6. \A n \in Names : InSequence(n)'
  BY <1>2, <1>5, Zenon DEF InSequence
<1>7. ASSUME NEW v \in Workers, pc'[v] = "upsert"
      PROVE  load'[v].version \in 1..(Latest(load[v].at)' + 1)
  <2>1. v # w /\ pc[v] = "upsert" /\ load'[v] = load[v]
    BY <1>7, OthersSame, Zenon
  <2>2. load[v].at \in Names /\ load[v].version \in 1..(Latest(load[v].at) + 1)
    BY <2>1, Zenon DEF SnapInv, Knows, Typed, Load, VersionInv
  <2>3. PICK b \in Names : b = load[v].at
    BY <2>2, Zenon
  <2>4. Latest(b) \in Nat /\ Latest(b)' \in Nat /\ Latest(b) <= Latest(b)'
    BY <1>2, <1>3, <2>3, ProfilesAssumption, SMTT(20)
  <2>5. load'[v].version \in 1..(Latest(b)' + 1)
    BY <2>1, <2>2, <2>3, <2>4, SMTT(20)
  <2>6. QED
    BY <2>1, <2>3, <2>5, Zenon
<1>8. ASSUME NEW n \in Names, NEW p, HasVersion(p, n)
      PROVE  HasVersion(p, n)'
  BY <1>2, <1>3, <1>8, ProfilesAssumption, SMTT(20) DEF HasVersion
<1>9. (\A x \in Replicas, n \in Names : HasVersion(mem[x][n], n))'
  BY <1>8, Zenon DEF VersionInv
<1>10. ASSUME NEW v \in Workers, NEW n \in Names
       PROVE  HasVersion(load[v].out[n], n)'
  <2>1. HasVersion(load[v].out[n], n)
    BY Zenon DEF VersionInv
  <2>2. CASE load'[v].out[n] = load[v].out[n]
    BY <1>8, <2>1, <2>2, Zenon
  <2>3. CASE load'[v].out[n] = Absent
    BY <2>3, Zenon DEF HasVersion
  <2>4. CASE n = a /\ load'[v].out[n].version = k
    BY <1>1, <1>2, <2>4, ProfilesAssumption, SMTT(20) DEF HasVersion, Version
  <2>5. QED
    BY <1>1, <2>2, <2>3, <2>4, OthersSame, Zenon
<1>11. ASSUME NEW v \in Workers, NEW n \in Names, pc'[v] \in Loading, n \in load'[v].todo
       PROVE  Latest(n)' + 1 <= MaxVersion
  <2>1. v \in Pending(n)' /\ Pending(n)' \in SUBSET Workers
    BY <1>11, Zenon DEF Pending
  <2>2. 1 <= Cardinality(Pending(n)') /\ Cardinality(Pending(n)') \in Nat
    BY <2>1, Fewer, Zenon
  <2>3. Latest(n)' \in 0..MaxVersion /\ Latest(n)' + Cardinality(Pending(n)') <= MaxVersion
    BY <1>6, Zenon DEF InSequence
  <2>4. QED
    BY <2>2, <2>3, ProfilesAssumption, SMTT(20)
<1>12. QED
  BY <1>6, <1>7, <1>9, <1>10, <1>11, Zenon DEF VersionInv, Room

(* A step of request w that stores no version and begins no load. *)
LEMMA VersionsQuiet ==
  ASSUME Base, VersionInv, NEW w \in Workers, Others(w), UNCHANGED rows,
         \A x \in Replicas, n \in Names : HasVersion(mem'[x][n], n),
         \A n \in Names : HasVersion(load'[w].out[n], n),
         \A n \in Names : w \in Pending(n)' => w \in Pending(n),
         pc'[w] = "upsert" =>
           load'[w].at \in Names /\ load'[w].version \in 1..(Latest(load'[w].at) + 1)
  PROVE  VersionInv'
<1>. USE DEF Base
<1>1. \A n \in Names : Pending(n)' \subseteq Pending(n)
  BY PendingStep, Zenon
<1>2. \A v \in Workers, n \in Names : HasVersion(load'[v].out[n], n)
  BY OthersSame, Zenon DEF VersionInv
<1>3. ASSUME NEW v \in Workers, pc'[v] = "upsert"
      PROVE  load'[v].at \in Names /\ load'[v].version \in 1..(Latest(load'[v].at) + 1)
  <2>1. CASE v = w
    BY <1>3, <2>1, Zenon
  <2>2. CASE v # w
    BY <1>3, <2>2, OthersSame, SMTT(20) DEF VersionInv, SnapInv, Knows, Typed, Load
  <2>3. QED
    BY <2>1, <2>2, Zenon
<1>4. QED
  BY <1>1, <1>2, <1>3, VersionsKept, Zenon

LEMMA LoadVersions ==
  ASSUME Base, VersionInv, NEW w \in Workers,
         Glob(w) \/ ReadFile(w) \/ Validated(w) \/ GetPrevious(w) \/ Upsert(w)
  PROVE  VersionInv'
<1>. USE DEF Base
<1>1. /\ Knows(w)
      /\ \A x \in Replicas, n \in Names : HasVersion(mem[x][n], n)
      /\ \A n \in Names : HasVersion(load[w].out[n], n)
  BY Zenon DEF SnapInv, VersionInv
<1>2. CASE Glob(w)
  <2>1. VersionRoom /\ UNCHANGED <<rows, mem>>
    BY <1>2, Zenon DEF Glob, memory
  <2>2. \A v \in Workers, n \in Names : HasVersion(load'[v].out[n], n)
    BY <1>2, GlobFields, OthersSame, NoneHasVersion, SMTT(20) DEF VersionInv
  <2>3. ASSUME NEW v \in Workers, pc'[v] = "upsert"
        PROVE  load'[v].at \in Names /\ load'[v].version \in 1..(Latest(load'[v].at) + 1)
    <3>1. v # w
      BY <1>2, <2>3, GlobFields, Zenon
    <3>2. QED
      BY <1>2, <2>3, <3>1, GlobFields, OthersSame, Zenon DEF VersionInv, SnapInv, Knows, Typed, Load
  <2>4. QED
    BY <1>1, <2>1, <2>2, <2>3, VersionsKept, Zenon
<1>3. CASE ReadFile(w)
  <2>1. UNCHANGED <<rows, mem>> /\ Others(w) /\ pc[w] = "read" /\ pc'[w] \in {"idle", "read"}
    BY <1>3, ReadFields, Zenon DEF ReadFile, memory
  <2>2. \A n \in Names : HasVersion(load'[w].out[n], n)
    BY <1>1, <1>3, ReadFields, NoneHasVersion, Zenon
  <2>3. \A n \in Names : w \in Pending(n)' => w \in Pending(n)
    BY <2>1, Zenon DEF Pending
  <2>4. QED
    BY <1>1, <2>1, <2>2, <2>3, VersionsQuiet, Zenon
<1>4. CASE Validated(w)
  <2>1. UNCHANGED <<rows, mem>> /\ Others(w) /\ pc[w] = "read" /\ pc'[w] \in {"idle", "next"}
    BY <1>4, ValidatedFields, Zenon DEF Validated, memory
  <2>2. \A n \in Names : HasVersion(load'[w].out[n], n)
    BY <1>1, <1>4, ValidatedFields, NoneHasVersion, Zenon
  <2>3. \A n \in Names : w \in Pending(n)' => w \in Pending(n)
    BY <2>1, Zenon DEF Pending
  <2>4. QED
    BY <1>1, <2>1, <2>2, <2>3, VersionsQuiet, Zenon
<1>5. CASE GetPrevious(w)
  <2>1. UNCHANGED <<rows, mem>> /\ Others(w) /\ pc[w] = "next" /\ pc'[w] = "upsert"
        /\ load'[w].out = load[w].out /\ load'[w].todo = load[w].todo
    BY <1>5, PreviousFields, Zenon DEF GetPrevious, memory
  <2>2. \A n \in Names : w \in Pending(n)' => w \in Pending(n)
    BY <2>1, Zenon DEF Pending, Loading
  <2>3. PICK a : a = load'[w].at
    BY Zenon
  <2>4. a \in load[w].todo /\ load'[w].version = NextVersion(a, load[w].snap[a])
    BY <1>5, <2>3, PreviousFields, Zenon
  <2>5. a \in Names /\ Latest(a) \in Nat
    BY <2>1, <2>4, RoomLeft, Zenon DEF Loading
  <2>6. load'[w].version \in 1..(Latest(a) + 1)
    BY <2>4, <2>5, NextVersionRange, Zenon
  <2>7. QED
    BY <1>1, <2>1, <2>2, <2>3, <2>5, <2>6, VersionsQuiet, Zenon
<1>6. CASE Upsert(w)
  <2>1. /\ Others(w) /\ pc[w] = "upsert" /\ pc'[w] = "next"
        /\ load'[w].todo = load[w].todo \ {load[w].at}
    BY <1>1, <1>6, UpsertFields, Zenon
  <2>2. rows' = Store(w) /\ UNCHANGED mem
    BY <1>6, Zenon DEF Upsert, memory
  <2>3. \A n \in Names : \/ load'[w].out[n] = load[w].out[n]
                         \/ n = load[w].at /\ load'[w].out[n].version = load[w].version
    BY <1>1, <1>6, UpsertOut, Zenon
  <2>4. QED
    BY <2>1, <2>2, <2>3, VersionsGrow, Zenon
<1>7. QED
  BY <1>2, <1>3, <1>4, <1>5, <1>6, Zenon

LEMMA RequestVersions ==
  ASSUME Base, VersionInv, NEW w \in Workers,
         \/ \E ghost \in BOOLEAN : Fail(w, ghost)
         \/ Audit(w) \/ CreateCertificate(w) \/ Swap(w)
         \/ \E n \in Names : Lookup(w, n)
  PROVE  VersionInv'
<1>. USE DEF Base
<1>1. /\ Knows(w)
      /\ \A x \in Replicas, n \in Names : HasVersion(mem[x][n], n)
      /\ \A n \in Names : HasVersion(load[w].out[n], n)
  BY Zenon DEF SnapInv, VersionInv
<1>2. ASSUME End(w), UNCHANGED <<rows, mem>>
      PROVE  VersionInv'
  <2>1. \A n \in Names : w \in Pending(n)' => w \in Pending(n)
    BY <1>2, EndFields, Zenon DEF Pending, Loading
  <2>2. \A n \in Names : HasVersion(load'[w].out[n], n)
    BY <1>2, EndFields, NoneHasVersion, Zenon
  <2>3. QED
    BY <1>1, <1>2, <2>1, <2>2, EndFields, VersionsQuiet, SMTT(20)
<1>3. ASSUME NEW ghost \in BOOLEAN, Fail(w, ghost)
      PROVE  VersionInv'
  <2>1. CASE rows' = rows
    BY <1>2, <1>3, <2>1, Zenon DEF Fail, memory
  <2>2. CASE pc[w] = "upsert" /\ rows' = Store(w)
    <3>1. \A n \in Names : load'[w].out[n] = Absent
      BY <1>3, EndFields, NoLoadFields, SMTT(20) DEF Fail, NoneLoaded
    <3>2. QED
      BY <1>3, <2>2, <3>1, EndFields, VersionsGrow, ZenonT(40) DEF Fail, memory
  <2>3. QED
    BY <1>3, <2>1, <2>2, Zenon DEF Fail
<1>4. CASE Audit(w) \/ CreateCertificate(w)
  BY <1>2, <1>4, Zenon DEF Audit, CreateCertificate, memory
<1>5. CASE Swap(w)
  <2>1. UNCHANGED rows /\ mem' = [mem EXCEPT ![Home[w]] = load[w].out]
    BY <1>5, Zenon DEF Swap
  <2>2. \A x \in Replicas, n \in Names : HasVersion(mem'[x][n], n)
    BY <1>1, <2>1, Zenon DEF Typed
  <2>3. \A n \in Names : HasVersion(load'[w].out[n], n)
    BY <1>1, <1>5, SwapFields, NoneHasVersion, Zenon
  <2>4. \A n \in Names : w \in Pending(n)' => w \in Pending(n)
    BY <1>5, SwapFields, SMTT(20) DEF Pending, Loading
  <2>5. QED
    BY <1>5, <2>1, <2>2, <2>3, <2>4, SwapFields, VersionsQuiet, Zenon
<1>6. ASSUME NEW n \in Names, Lookup(w, n)
      PROVE  VersionInv'
  <2>1. load[w] = NoLoad /\ UNCHANGED <<rows, mem>>
    BY <1>1, <1>6, Zenon DEF Lookup, Knows, memory
  <2>2. Home[w] \in Replicas
    BY ProfilesAssumption, Zenon
  <2>3. \A m \in Names : load'[w].out[m] = IF m = n THEN mem[Home[w]][n] ELSE NoneLoaded[m]
    <3>1. load'[w].out = [NoneLoaded EXCEPT ![n] = mem[Home[w]][n]]
      BY <1>6, <2>1, LookupFields, Zenon
    <3>2. NoneLoaded \in [Names -> Loaded]
      BY NoLoadFields, Zenon
    <3>3. QED
      BY <3>1, <3>2, Zenon
  <2>4. \A m \in Names : HasVersion(load'[w].out[m], m)
    BY <1>1, <2>2, <2>3, NoneHasVersion, Zenon
  <2>5. \A m \in Names : w \in Pending(m)' => w \in Pending(m)
    BY <1>6, <2>1, LookupFields, Zenon DEF Pending, Loading
  <2>6. QED
    BY <1>1, <1>6, <2>1, <2>4, <2>5, LookupFields, VersionsQuiet, Zenon
<1>7. QED
  BY <1>3, <1>4, <1>5, <1>6, Zenon

LEMMA CrashVersions ==
  ASSUME Base, VersionInv, NEW x \in Replicas, Crash(x)
  PROVE  VersionInv'
<1>. USE DEF Base
<1>1. \A w \in Workers : \/ pc'[w] = "idle" /\ load'[w] = NoLoad
                         \/ pc'[w] = pc[w] /\ load'[w] = load[w]
  BY Zenon DEF Crash
<1>2. \A n \in Names : Pending(n)' \subseteq Pending(n)
  BY <1>1, Zenon DEF Pending, Loading
<1>3. ASSUME NEW v \in Workers, pc'[v] = "upsert"
      PROVE  load'[v].at \in Names /\ load'[v].version \in 1..(Latest(load'[v].at) + 1)
  <2>1. pc[v] = "upsert" /\ load'[v] = load[v]
    BY <1>1, <1>3, Zenon
  <2>2. QED
    BY <2>1, Zenon DEF VersionInv, SnapInv, Knows, Typed, Load
<1>4. \A y \in Replicas, n \in Names : HasVersion(mem'[y][n], n)
  <2>1. \A y \in Replicas, n \in Names : mem'[y][n] = mem[y][n] \/ mem'[y][n] = Absent
    BY Zenon DEF Crash, Typed
  <2>2. QED
    BY <2>1, NoneHasVersion, Zenon DEF VersionInv
<1>5. \A w \in Workers, n \in Names : HasVersion(load'[w].out[n], n)
  BY <1>1, NoneHasVersion, Zenon DEF VersionInv
<1>6. QED
  BY <1>2, <1>3, <1>4, <1>5, VersionsKept, Zenon DEF Crash

LEMMA NextVersions ==
  ASSUME Base, VersionInv, [Next]_vars
  PROVE  VersionInv'
<1>1. ASSUME UNCHANGED <<rows, memory, pc, load>>
      PROVE  VersionInv'
  <2>1. \A n \in Names : Pending(n)' \subseteq Pending(n)
    BY <1>1, Zenon DEF Pending
  <2>2. \A w \in Workers : pc'[w] = "upsert" =>
          load'[w].at \in Names /\ load'[w].version \in 1..(Latest(load'[w].at) + 1)
    BY <1>1, Zenon DEF VersionInv, Base, SnapInv, Knows, Typed, Load
  <2>3. QED
    BY <1>1, <2>1, <2>2, VersionsKept, Zenon DEF VersionInv, memory
<1>2. CASE UNCHANGED vars
  BY <1>1, <1>2, Zenon DEF vars
<1>3. ASSUME NEW n \in Names, NEW c \in Contents \cup {None}, Edit(n, c)
      PROVE  VersionInv'
  BY <1>1, <1>3, Zenon DEF Edit
<1>4. CASE EditRefused
  BY <1>1, <1>4, Zenon DEF EditRefused
<1>5. QED
  BY <1>2, <1>3, <1>4, LoadVersions, RequestVersions, CrashVersions, Zenon DEF Next

-----------------------------------------------------------------------------
LEMMA Kept == Spec => []ProfilesInv
<1>1. Init => ProfilesInv
  BY InitBase, InitVersions, InitExact, Zenon DEF ProfilesInv, Base
<1>2. ProfilesInv /\ [Next]_vars => ProfilesInv'
  BY NextBase, NextVersions, NextExact, Zenon DEF ProfilesInv, Base
<1>3. QED
  BY <1>1, <1>2, PTL DEF Spec

(* A registry is one whole directory as one load read it, whatever failed, *)
(* crashed or ran at the same time.                                        *)
THEOREM SnapshotsWhole == Spec => []OneSnapshot
<1>1. ProfilesInv => OneSnapshot
  BY Zenon DEF ProfilesInv, SnapInv
<1>2. QED
  BY <1>1, Kept, PTL

(* Stored versions have no gap and every version a registry hands out is   *)
(* stored, also when loads of several replicas race for a version.         *)
THEOREM VersionsAlwaysStored == Spec => []VersionsStored
<1>1. ProfilesInv => VersionsStored
  <2>. SUFFICES ASSUME ProfilesInv
                PROVE  VersionsStored
    BY Zenon
  <2>. USE ProfilesAssumption
  <2>1. \A n \in Names : Latest(n) \in 0..MaxVersion /\ UpTo(n, Latest(n))
    BY Zenon DEF ProfilesInv, VersionInv, InSequence
  <2>2. \A n \in Names : \A v \in 1..Latest(n) : rows[n][v] # None
    BY <2>1, SMTT(20) DEF UpTo, Version
  <2>3. \A x \in Replicas, n \in Names : HasVersion(mem[x][n], n)
    BY Zenon DEF ProfilesInv, VersionInv
  <2>4. QED
    BY <2>2, <2>3, Zenon DEF HasVersion, VersionsStored
<1>2. QED
  BY <1>1, Kept, PTL

(* While no two loads overlapped, a registry's profile is the content      *)
(* stored under its version.                                               *)
THEOREM MemoryAlwaysExact == Spec => []MemoryExact
<1>1. ProfilesInv => MemoryExact
  BY Zenon DEF ProfilesInv, ExactInv, Exact, IsStored, MemoryExact
<1>2. QED
  BY <1>1, Kept, PTL

(* While no two loads overlapped, what a certificate was issued from is a  *)
(* stored version of its profile.                                          *)
THEOREM IssuedAlwaysTraceable == Spec => []IssuedTraceable
<1>1. ProfilesInv => IssuedTraceable
  BY Zenon DEF ProfilesInv, ExactInv, Exact, CanTrace, IssuedTraceable
<1>2. QED
  BY <1>1, Kept, PTL
=============================================================================
