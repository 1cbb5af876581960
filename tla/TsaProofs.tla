----------------------------- MODULE TsaProofs ------------------------------
(***************************************************************************)
(* Proofs about Tsa, for any number of rotations, time-stamp requests and  *)
(* clients, identities, references, faults, restarts and clock changes.    *)
(***************************************************************************)
EXTENDS Tsa, TLAPS

(* The snapshots drawn so far: the signed ones and those being signed. *)
Snaps == tokens \cup {stamp[s] : s \in {z \in Stampers : stamp[z] # None}}

(* The guard, lastGenTime, is ahead of the clock by no more than it has    *)
(* drawn, ...                                                              *)
Guard == lastGen + 1 <= peak + drawn

(* ... no snapshot is ahead of the guard that drew it, ... *)
Drawn(t) ==
  /\ t.boot <= boot
  /\ t.boot = boot => t.n <= drawn /\ t.gen <= lastGen
  /\ t.gen <= peak + t.n - 1

(* ... and the snapshots of an incarnation, signed or not, are in order. *)
InOrder(t, u) == t.boot = u.boot /\ t.n < u.n => t.gen < u.gen

TimesInv ==
  /\ Guard
  /\ \A t \in Snaps : Drawn(t)
  /\ \A t, u \in Snaps : InOrder(t, u)

-----------------------------------------------------------------------------
(* The identities in the store. *)
Ids == {rows[i].id : i \in DOMAIN rows}

IsNewest(i) ==
  \A j \in DOMAIN rows \ {i} :
    \/ rows[j].at < rows[i].at
    \/ rows[j].at = rows[i].at /\ j < i

(* A rotation past its reference has it for itself as soon as the key is   *)
(* there, and swaps in what it has stored.                                 *)
Rotating(w) ==
  /\ pc[w] # "idle" => req[w].ref \in Refs /\ req[w].prev \in Identities
  /\ pc[w] \in {"create", "swap", "audit"} =>
       req[w].id \in Identities /\ req[w].at \in 1..MaxTime
  /\ pc[w] = "create" => keys[req[w].ref] = req[w].id
  /\ pc[w] \in {"swap", "audit"} => req[w].id \in Ids

(* Nothing happens in a process that failed to start. *)
Down ==
  /\ Newest.ref = None
  /\ \A w \in Workers : pc[w] = "idle"
  /\ \A c \in Clients : asked[c] \in {None, 0}

Keyed(r) == r.ref # None => keys[r.ref] = r.id

StoreInv ==
  /\ rows \in Seq(Row)
  /\ \E i \in DOMAIN rows : IsNewest(i)
  /\ \A i \in DOMAIN rows : Keyed(rows[i])
  /\ live # None => live \in Ids
  /\ live = None => Down
  /\ \A t \in Snaps : t.by \in Ids
  /\ \A w \in Workers : Rotating(w)

-----------------------------------------------------------------------------
(* The rotations under way, and what they stored, are of the batch; of a   *)
(* rotation that nothing overlapped it is the only one.                    *)
Flight(w) ==
  /\ pc[w] \in {"swap", "audit"} => req[w].id \in Batch
  /\ pc[w] = "audit" => live \in Batch
  /\ ~overlap /\ pc[w] # "idle" => acked = None /\ \A v \in Workers \ {w} : pc[v] = "idle"
  /\ ~overlap /\ pc[w] \in {"generate", "create"} => Batch = {}
  /\ ~overlap /\ pc[w] \in {"swap", "audit"} => Batch = {req[w].id}

Acked == acked # None => acked \in Batch /\ (~overlap => Batch = {acked})

BatchInv ==
  /\ base <= Len(rows)
  /\ \A w \in Workers : Flight(w)
  /\ Acked

(* While the clock only goes forward nothing is dated later than now, ... *)
Dated ==
  /\ \A i \in DOMAIN rows : rows[i].at <= now
  /\ \A c \in Clients : asked[c] # None => asked[c] <= now
  /\ \A w \in Workers : pc[w] = "create" => req[w].at <= now

(* ... no identity from before the batch is dated later than one of it, or *)
(* than one that a rotation is about to store, ...                         *)
Older(i) == i <= base /\ rows[i].ref # None
Newer(i) == base < i /\ rows[i].ref # None

Ordered ==
  \A i \in DOMAIN rows : Older(i) =>
    /\ \A j \in DOMAIN rows : Newer(j) => rows[i].at <= rows[j].at
    /\ \A w \in Workers : pc[w] = "create" => rows[i].at <= req[w].at

(* ... and what is in use once a rotation was answered is of the batch. *)
InUse == acked # None => live \in Batch \cup {None}

OrderInv == back = 0 => Dated /\ Ordered /\ InUse

TsaInv == TypeOK /\ TimesInv /\ StoreInv /\ BatchInv /\ OrderInv

-----------------------------------------------------------------------------
(* A row is added at the end, after the ones there were. *)
LEMMA RowAdded ==
  ASSUME rows \in Seq(Row), NEW r \in Row, rows' = Append(rows, r)
  PROVE  /\ rows' \in Seq(Row)
         /\ DOMAIN rows = 1..Len(rows) /\ Len(rows) \in Nat
         /\ DOMAIN rows' = 1..(Len(rows) + 1) /\ Len(rows') = Len(rows) + 1
         /\ \A i \in 1..Len(rows) : rows'[i] = rows[i]
         /\ rows'[Len(rows) + 1] = r
OBVIOUS

LEMMA OldOrAdded ==
  ASSUME rows \in Seq(Row), NEW r \in Row, rows' = Append(rows, r), NEW i \in DOMAIN rows'
  PROVE  rows'[i] = r \/ (i \in DOMAIN rows /\ rows'[i] = rows[i])
<1>1. PICK n \in Nat : DOMAIN rows = 1..n /\ DOMAIN rows' = 1..(n + 1)
                      /\ (\A j \in 1..n : rows'[j] = rows[j]) /\ rows'[n + 1] = r
  BY RowAdded, Zenon
<1>2. i = n + 1 \/ i \in 1..n
  BY <1>1
<1>3. CASE i = n + 1
  BY <1>1, <1>3, Zenon
<1>4. CASE i \in 1..n
  BY <1>1, <1>4, Zenon
<1>5. QED
  BY <1>2, <1>3, <1>4, Zenon

(* What the rotations do not touch, and what only they touch. *)
LEMMA RotationScope ==
  ASSUME NEW w \in Workers, RotateStep(w)
  PROVE  UNCHANGED <<clock, lastGen, drawn, boot, tokens, stamp, asked>>
BY Zenon DEF RotateStep, ReceiveRotate, Generate, Create, AuditRotate, Rotate, clock, responder

LEMMA StampScope ==
  ASSUME NEW s \in Stampers, Respond(s)
  PROVE  UNCHANGED <<clock, rotation, live, boot, asked>>
BY Zenon DEF Respond, Refuse, Snapshot, Sign, vars, responder

LEMMA IssueScope ==
  ASSUME NEW c \in Clients, Issue(c)
  PROVE  UNCHANGED <<clock, keys, audit, pc, req, history, faults, responder, boot, tokens, stamp>>
BY Zenon DEF Issue, ReceiveIssue, IssueLeaf, rotation

-----------------------------------------------------------------------------
(* Types. *)
Bounded == TypeOK /\ Guard

LEMMA InitTyped == Init => Bounded /\ rows \in Seq(Row)
<1>. SUFFICES ASSUME Init
              PROVE  Bounded /\ rows \in Seq(Row)
  BY Zenon
<1>. USE TsaAssumption
<1>1. [id |-> First, at |-> 1, ref |-> FirstRef] \in Row
  BY DEF Row, OwnRow
<1>2. rows \in Seq(Row) /\ \A i \in DOMAIN rows : rows[i] \in Row
  BY <1>1 DEF Init
<1>3. keys \in [Refs \cup {FirstRef} -> Identities \cup {None}]
  BY Zenon DEF Init
<1>4. /\ pc \in [Workers -> {"idle", "generate", "create", "swap", "audit"}]
      /\ req \in [Workers -> [prev: Identities \cup {None}, ref: Refs \cup {None},
                              id: Identities \cup {None}, at: 0..MaxTime]]
      /\ stamp \in [Stampers -> Token \cup {None}]
      /\ asked \in [Clients -> 0..MaxTime \cup {None}]
  BY DEF Init, NoRotation
<1>5. /\ now \in 1..MaxTime /\ back \in 0..MaxBack /\ peak \in now..MaxTime
      /\ lastGen \in 0..(MaxTime + MaxTokens) /\ drawn \in 0..MaxTokens
      /\ boot \in 0..MaxBoots /\ faults \in 0..MaxFaults /\ base \in Nat /\ Guard
  BY DEF Init, Guard
<1>6. TypeOK
  BY <1>2, <1>3, <1>4, <1>5, Zenon DEF Init, TypeOK
<1>7. QED
  BY <1>2, <1>5, <1>6, Zenon DEF Bounded

LEMMA Numbers ==
  ASSUME TypeOK
  PROVE  /\ {now, back, peak, lastGen, drawn, boot} \subseteq Nat
         /\ 1 <= now /\ now <= peak /\ peak <= MaxTime /\ drawn <= MaxTokens
         /\ boot <= MaxBoots
BY TsaAssumption DEF TypeOK

LEMMA ClockTyped ==
  ASSUME Bounded, Tick \/ SetBack
  PROVE  Bounded'
<1>. USE TsaAssumption
<1>1. now' \in 1..MaxTime /\ back' \in 0..MaxBack /\ peak' \in now'..MaxTime /\ peak <= peak'
  BY DEF Bounded, TypeOK, Tick, SetBack
<1>2. UNCHANGED <<rotation, responder, boot, tokens, stamp, asked>>
  BY Zenon DEF Tick, SetBack
<1>3. TypeOK'
  BY <1>1, <1>2, Zenon DEF Bounded, TypeOK, rotation, history, responder
<1>4. Guard'
  BY <1>1, <1>2, Numbers DEF Bounded, Guard, responder
<1>5. QED
  BY <1>3, <1>4, Zenon DEF Bounded

LEMMA StampTyped ==
  ASSUME Bounded, NEW s \in Stampers, Respond(s)
  PROVE  Bounded'
<1>. USE TsaAssumption DEF Bounded
<1>1. CASE Refuse(s)
  BY <1>1, Zenon DEF Refuse, vars, clock, rotation, history, responder, TypeOK, Guard
<1>2. CASE Snapshot(s)
  <2>1. lastGen' \in 1..(MaxTime + MaxTokens) /\ drawn' \in 1..MaxTokens
        /\ lastGen' + 1 <= peak + drawn'
    BY <1>2 DEF Snapshot, GenTime, TypeOK, Guard
  <2>2. [boot |-> boot, n |-> drawn', gen |-> lastGen', by |-> live] \in Token
    BY <1>2, <2>1, Zenon DEF Snapshot, TypeOK, Token
  <2>3. stamp' \in [Stampers -> Token \cup {None}]
    BY <1>2, <2>2, Zenon DEF Snapshot, TypeOK
  <2>4. UNCHANGED <<now, back, peak, rows, keys, live, boot, tokens, audit, pc, req, base,
                    acked, overlap, faults, asked>>
    BY <1>2, Zenon DEF Snapshot, clock, rotation, history
  <2>5. lastGen' \in 0..(MaxTime + MaxTokens) /\ drawn' \in 0..MaxTokens /\ Guard'
    BY <2>1, <2>4, Numbers DEF Guard
  <2>6. TypeOK'
    BY <2>3, <2>4, <2>5, Zenon DEF TypeOK
  <2>7. QED
    BY <2>5, <2>6, Zenon
<1>3. ASSUME NEW ok \in BOOLEAN, Sign(s, ok)
      PROVE  Bounded'
  <2>1. stamp[s] \in Token
    BY <1>3, Zenon DEF Sign, TypeOK
  <2>2. tokens' \subseteq Token /\ stamp' \in [Stampers -> Token \cup {None}]
    BY <1>3, <2>1, Zenon DEF Sign, TypeOK
  <2>3. UNCHANGED <<now, back, peak, rows, keys, live, lastGen, drawn, boot, audit, pc, req,
                    base, acked, overlap, faults, asked>>
    BY <1>3, Zenon DEF Sign, clock, rotation, history, responder
  <2>4. QED
    BY <2>2, <2>3, Zenon DEF TypeOK, Guard
<1>4. QED
  BY <1>1, <1>2, <1>3, Zenon DEF Respond

Rotations == [prev: Identities \cup {None}, ref: Refs \cup {None},
              id: Identities \cup {None}, at: 0..MaxTime]

LEMMA Opened ==
  ASSUME NEW p \in Identities, NEW k \in Refs
  PROVE  LET q == [NoRotation EXCEPT !.prev = p, !.ref = k]
         IN q \in Rotations /\ q.prev = p /\ q.ref = k
<1>1. NoRotation \in Rotations
  BY TsaAssumption DEF NoRotation, Rotations
<1>2. \A r \in Rotations : [r EXCEPT !.prev = p] \in Rotations
  BY Zenon DEF Rotations
<1>3. \A r \in Rotations : [r EXCEPT !.ref = k] \in Rotations
  BY Zenon DEF Rotations
<1>4. [NoRotation EXCEPT !.prev = p, !.ref = k] = [[NoRotation EXCEPT !.prev = p] EXCEPT !.ref = k]
  BY Zenon
<1>5. [NoRotation EXCEPT !.prev = p, !.ref = k] \in Rotations
  BY <1>1, <1>2, <1>3, <1>4, Zenon
<1>6. [NoRotation EXCEPT !.prev = p, !.ref = k].prev = p
  BY Zenon DEF NoRotation
<1>7. [NoRotation EXCEPT !.prev = p, !.ref = k].ref = k
  BY Zenon DEF NoRotation
<1>8. QED
  BY <1>5, <1>6, <1>7, Zenon

LEMMA RotateTyped ==
  ASSUME Bounded, StoreInv, NEW w \in Workers, RotateStep(w)
  PROVE  Bounded'
<1>. USE TsaAssumption DEF Bounded
<1>0. /\ pc \in [Workers -> {"idle", "generate", "create", "swap", "audit"}]
      /\ req \in [Workers -> Rotations]
      /\ keys \in [Refs \cup {FirstRef} -> Identities \cup {None}]
      /\ acked \in Identities \cup {None} /\ overlap \in BOOLEAN /\ base \in Nat
      /\ faults \in 0..MaxFaults
  BY Zenon DEF TypeOK, Rotations
<1>1. UNCHANGED <<now, back, peak, lastGen, drawn, boot, tokens, stamp, asked>>
  BY RotationScope, Zenon DEF clock
<1>2. Rotating(w) /\ req[w] \in Rotations /\ pc[w] \in {"idle", "generate", "create", "swap", "audit"}
  BY Zenon DEF StoreInv, TypeOK, Rotations
<1>3. NoRotation \in Rotations
  BY DEF NoRotation, Rotations
<1>4. CASE ReceiveRotate(w)
  <2>1. PICK k \in Refs : req' = [req EXCEPT ![w] = [NoRotation EXCEPT !.prev = live, !.ref = k]]
    BY <1>4, Zenon DEF ReceiveRotate
  <2>2. [NoRotation EXCEPT !.prev = live, !.ref = k] \in Rotations
    BY <1>4, Opened, Zenon DEF ReceiveRotate, TypeOK
  <2>3. req' \in [Workers -> Rotations]
    BY <1>0, <2>1, <2>2, Zenon
  <2>4. /\ pc' \in [Workers -> {"idle", "generate", "create", "swap", "audit"}]
        /\ acked' \in Identities \cup {None} /\ overlap' \in BOOLEAN
        /\ UNCHANGED <<rows, keys, audit, faults, live>>
    BY <1>0, <1>4, Zenon DEF ReceiveRotate, Goto, responder
  <2>5. base' \in Nat
    <3>1. Len(rows) \in Nat
      BY DEF StoreInv
    <3>2. QED
      BY <1>0, <1>4, <3>1, Zenon DEF ReceiveRotate
  <2>6. QED
    BY <1>1, <2>3, <2>4, <2>5, Zenon DEF TypeOK, Guard, Rotations
<1>5. ASSUME NEW r \in Outcome, Generate(w, r)
      PROVE  Bounded'
  <2>. DEFINE G == /\ keys' \in [Refs \cup {FirstRef} -> Identities \cup {None}]
                   /\ req' \in [Workers -> Rotations]
                   /\ pc' \in [Workers -> {"idle", "generate", "create", "swap", "audit"}]
  <2>1. faults' \in 0..MaxFaults
    BY <1>0, <1>5 DEF Generate, Call
  <2>2. ASSUME keys[req[w].ref] # None PROVE G
    <3>1. Finish(w) /\ keys' = keys
      BY <1>5, <2>2, Zenon DEF Generate
    <3>2. QED
      BY <1>0, <1>3, <3>1, Zenon DEF Finish, Goto
  <2>3. ASSUME keys[req[w].ref] = None PROVE G
    <3>1. PICK i \in Unused :
            /\ keys' = IF r = "lost" THEN keys ELSE [keys EXCEPT ![req[w].ref] = i]
            /\ IF r = "ok" THEN /\ req' = [req EXCEPT ![w].id = i, ![w].at = now]
                                /\ Goto(w, "create")
               ELSE Finish(w)
      BY <1>5, <2>3, Zenon DEF Generate
    <3>2. i \in Identities /\ now \in 0..MaxTime
      BY SMTT(20) DEF Unused, TypeOK
    <3>3. keys' \in [Refs \cup {FirstRef} -> Identities \cup {None}]
      BY <1>0, <3>1, <3>2, Zenon
    <3>4. [req[w] EXCEPT !.id = i, !.at = now] \in Rotations
      BY <1>2, <3>2, Zenon DEF Rotations
    <3>5. CASE r = "ok"
      <4>1. req' = [req EXCEPT ![w] = [req[w] EXCEPT !.id = i, !.at = now]]
        BY <1>0, <3>1, <3>5, Zenon
      <4>2. QED
        BY <1>0, <3>1, <3>3, <3>4, <3>5, <4>1, Zenon DEF Goto
    <3>6. CASE r # "ok"
      <4>1. Finish(w)
        BY <3>1, <3>6, Zenon
      <4>2. QED
        BY <1>0, <1>3, <3>3, <4>1, Zenon DEF Finish, Goto
    <3>7. QED
      BY <3>5, <3>6, Zenon
  <2>4. UNCHANGED <<rows, audit, base, acked, overlap, live>>
    BY <1>5, Zenon DEF Generate, history, responder
  <2>5. QED
    BY <1>1, <2>1, <2>2, <2>3, <2>4, Zenon DEF TypeOK, Guard, Rotations
<1>6. ASSUME NEW r \in Outcome, Create(w, r)
      PROVE  Bounded'
  <2>. DEFINE row == [id |-> req[w].id, at |-> req[w].at, ref |-> req[w].ref]
  <2>1. row \in Row
    BY <1>2, <1>6, Zenon DEF Create, Row, OwnRow, Rotating
  <2>2. rows' = rows \/ rows' = Append(rows, row)
    BY <1>6, Zenon DEF Create
  <2>. HIDE DEF row
  <2>3. \A i \in DOMAIN rows' : rows'[i] \in Row
    <3>1. CASE rows' = rows
      BY <3>1, Zenon DEF TypeOK
    <3>2. CASE rows' = Append(rows, row)
      BY <2>1, <3>2, RowAdded DEF StoreInv
    <3>3. QED
      BY <2>2, <3>1, <3>2, Zenon
  <2>4. req' \in [Workers -> Rotations] /\ faults' \in 0..MaxFaults
    BY <1>0, <1>3, <1>6 DEF Create, Call, Finish
  <2>5. pc' \in [Workers -> {"idle", "generate", "create", "swap", "audit"}]
    BY <1>0, <1>6, Zenon DEF Create, Finish, Goto
  <2>6. UNCHANGED <<keys, audit, base, acked, overlap, live>>
    BY <1>6, Zenon DEF Create, history, responder
  <2>7. QED
    BY <1>1, <2>3, <2>4, <2>5, <2>6, Zenon DEF TypeOK, Guard, Rotations
<1>7. ASSUME NEW r \in Outcome, AuditRotate(w, r)
      PROVE  Bounded'
  <2>1. req' \in [Workers -> Rotations] /\ faults' \in 0..MaxFaults
    BY <1>0, <1>3, <1>7 DEF AuditRotate, Call, Finish
  <2>2. pc' \in [Workers -> {"idle", "generate", "create", "swap", "audit"}]
    BY <1>0, <1>7, Zenon DEF AuditRotate, Finish, Goto
  <2>3. audit' \subseteq [target: Identities, prev: Identities] /\ acked' \in Identities \cup {None}
    BY <1>2, <1>7 DEF AuditRotate, TypeOK, Rotating
  <2>4. UNCHANGED <<rows, keys, base, overlap, live>>
    BY <1>7, Zenon DEF AuditRotate, responder
  <2>5. QED
    BY <1>1, <2>1, <2>2, <2>3, <2>4, Zenon DEF TypeOK, Guard, Rotations
<1>8. CASE Rotate(w)
  <2>1. pc' \in [Workers -> {"idle", "generate", "create", "swap", "audit"}]
        /\ live' \in Identities
        /\ UNCHANGED <<rows, keys, req, audit, base, acked, overlap, faults>>
    BY <1>2, <1>8, Zenon DEF Rotate, Goto, history, TypeOK, Rotating
  <2>2. QED
    BY <1>1, <2>1, Zenon DEF TypeOK, Guard, Rotations
<1>9. QED
  BY <1>4, <1>5, <1>6, <1>7, <1>8, Zenon DEF RotateStep

(* What a restart finds: the newest row is in the store. *)
LEMMA NewestStored ==
  ASSUME \E i \in DOMAIN rows : IsNewest(i)
  PROVE  \E i \in DOMAIN rows : IsNewest(i) /\ Newest = rows[i]
BY Zenon DEF Newest, IsNewest

LEMMA LoadableTyped ==
  ASSUME TypeOK, StoreInv
  PROVE  Loadable \in Ids \cup {None} /\ Loadable \in Identities \cup {None}
<1>1. PICK i \in DOMAIN rows : Newest = rows[i]
  BY NewestStored, Zenon DEF StoreInv
<1>2. rows[i].id \in Ids
  BY <1>1, Zenon DEF Ids
<1>3. \A r \in Row : r.id \in Identities \cup {None}
  BY Zenon DEF Row, OwnRow, ClientRow
<1>4. rows[i].id \in Identities \cup {None}
  BY <1>1, <1>3, Zenon DEF TypeOK
<1>5. QED
  BY <1>1, <1>2, <1>4, Zenon DEF Loadable

LEMMA RestartTyped ==
  ASSUME Bounded, StoreInv, Restart
  PROVE  Bounded'
<1>. USE TsaAssumption DEF Bounded
<1>1. Loadable \in Identities \cup {None}
  BY LoadableTyped, Zenon
<1>2. NoRotation \in Rotations
  BY DEF NoRotation, Rotations
<1>3. /\ live' \in Identities \cup {None} /\ lastGen' = 0 /\ drawn' = 0 /\ boot' \in 0..MaxBoots
      /\ UNCHANGED <<now, back, peak, rows, keys, audit, base, acked, overlap, faults, tokens>>
  BY <1>1, Numbers DEF Restart, clock, history
<1>4. /\ pc' \in [Workers -> {"idle", "generate", "create", "swap", "audit"}]
      /\ req' \in [Workers -> Rotations] /\ stamp' \in [Stampers -> Token \cup {None}]
  BY <1>2, Zenon DEF Restart
<1>5. asked' \in [Clients -> 0..MaxTime \cup {None}]
  BY DEF Restart
<1>6. Guard' /\ lastGen' \in 0..(MaxTime + MaxTokens) /\ drawn' \in 0..MaxTokens
  BY <1>3, Numbers DEF Guard
<1>7. QED
  BY <1>3, <1>4, <1>5, <1>6, Zenon DEF TypeOK, Rotations

LEMMA ClientRowTyped ==
  ASSUME TypeOK, NEW c \in Clients, asked[c] \notin {None, 0}
  PROVE  /\ [id |-> None, at |-> asked[c], ref |-> None] \in Row
         /\ asked[c] \in 1..MaxTime
<1>1. asked[c] \in 1..MaxTime
  BY TsaAssumption DEF TypeOK
<1>2. QED
  BY <1>1, Zenon DEF Row, ClientRow

LEMMA IssueTyped ==
  ASSUME Bounded, StoreInv, NEW c \in Clients, Issue(c)
  PROVE  Bounded'
<1>. USE DEF Bounded
<1>1. UNCHANGED <<now, back, peak, keys, audit, pc, req, base, acked, overlap, faults, live,
                  lastGen, drawn, boot, tokens, stamp>>
  BY IssueScope, Zenon DEF clock, history, responder
<1>2. /\ asked' \in [Clients -> 0..MaxTime \cup {None}]
      /\ \A i \in DOMAIN rows' : rows'[i] \in Row
  <2>1. CASE ReceiveIssue(c)
    <3>1. now \in 0..MaxTime
      BY DEF TypeOK
    <3>2. QED
      BY <2>1, <3>1, Zenon DEF ReceiveIssue, TypeOK, rotation
  <2>2. ASSUME NEW stored \in BOOLEAN, IssueLeaf(c, stored)
        PROVE  \A i \in DOMAIN rows' : rows'[i] \in Row
    <3>. DEFINE row == [id |-> None, at |-> asked[c], ref |-> None]
    <3>1. row \in Row /\ (rows' = rows \/ rows' = Append(rows, row))
      BY <2>2, ClientRowTyped, Zenon DEF IssueLeaf
    <3>. HIDE DEF row
    <3>2. rows \in Seq(Row)
      BY Zenon DEF StoreInv
    <3>3. rows' \in Seq(Row)
      BY <3>1, <3>2, RowAdded, Zenon
    <3>4. QED
      BY <3>3
  <2>3. asked' \in [Clients -> 0..MaxTime \cup {None}]
    <3>1. 0 \in 0..MaxTime
      BY TsaAssumption
    <3>2. CASE asked' = [asked EXCEPT ![c] = 0]
      BY <3>1, <3>2, Zenon DEF TypeOK
    <3>3. QED
      BY <2>1, <3>2, Zenon DEF Issue, IssueLeaf
  <2>4. QED
    BY <2>1, <2>2, <2>3, Zenon DEF Issue
<1>3. QED
  BY <1>1, <1>2, Zenon DEF TypeOK, Guard

-----------------------------------------------------------------------------
(* The genTimes. *)
LEMMA SnapsTyped ==
  ASSUME TypeOK
  PROVE  \A t \in Snaps : t \in Token
BY Zenon DEF TypeOK, Snaps

LEMMA TokenNumbers ==
  ASSUME NEW t \in Token
  PROVE  t.boot \in Nat /\ t.n \in Nat /\ t.gen \in Nat /\ 1 <= t.n
BY TsaAssumption DEF Token

(* Whatever leaves the guard and the snapshots alone keeps the order; the  *)
(* clock's latest time only grows.                                         *)
LEMMA TimesKept ==
  ASSUME TypeOK, TimesInv, peak' \in Nat, peak <= peak', UNCHANGED <<lastGen, drawn, boot>>,
         Snaps' \subseteq Snaps
  PROVE  TimesInv'
<1>1. Guard'
  BY Numbers DEF TimesInv, Guard
<1>2. ASSUME NEW t \in Snaps'
      PROVE  Drawn(t)'
  <2>1. Drawn(t) /\ t.boot \in Nat /\ t.n \in Nat /\ t.gen \in Nat
    BY SnapsTyped, TokenNumbers, Zenon DEF TimesInv
  <2>2. QED
    BY <2>1, Numbers DEF Drawn
<1>3. \A t, u \in Snaps' : InOrder(t, u)
  BY Zenon DEF TimesInv
<1>4. QED
  BY <1>1, <1>2, <1>3, Zenon DEF TimesInv, InOrder

LEMMA InitTimes == Init => TimesInv
<1>. SUFFICES ASSUME Init
              PROVE  TimesInv
  BY Zenon
<1>1. Snaps = {}
  BY Zenon DEF Init, Snaps
<1>2. QED
  BY <1>1, InitTyped, Zenon DEF TimesInv, Bounded

LEMMA SnapshotTimes ==
  ASSUME TypeOK, TimesInv, NEW s \in Stampers, Snapshot(s)
  PROVE  TimesInv'
<1>0. PICK new : new = [boot |-> boot, n |-> drawn', gen |-> lastGen', by |-> live]
  BY Zenon
<1>1. /\ drawn' = drawn + 1 /\ lastGen' = GenTime /\ UNCHANGED <<now, peak, boot, tokens>>
      /\ stamp' = [stamp EXCEPT ![s] = new]
  BY <1>0, Zenon DEF Snapshot, clock
<1>2. lastGen' \in Nat /\ lastGen < lastGen' /\ lastGen' + 1 <= peak' + drawn'
  BY <1>1, Numbers DEF GenTime, TimesInv, Guard
<1>3. new.boot = boot /\ new.n = drawn' /\ new.gen = lastGen'
  BY <1>0, Zenon
<1>4. ASSUME NEW t \in Snaps', t # new
      PROVE  t \in Snaps
  BY <1>1, <1>4, Zenon DEF Snaps, TypeOK
<1>5. ASSUME NEW t \in Snaps
      PROVE  Drawn(t)' /\ InOrder(t, new)' /\ InOrder(new, t)'
  <2>1. Drawn(t) /\ t.boot \in Nat /\ t.n \in Nat /\ t.gen \in Nat
    BY SnapsTyped, TokenNumbers, Zenon DEF TimesInv
  <2>2. QED
    BY <1>1, <1>2, <1>3, <2>1, Numbers DEF Drawn, InOrder
<1>6. Drawn(new)' /\ InOrder(new, new)'
  BY <1>1, <1>2, <1>3, Numbers DEF Drawn, InOrder
<1>7. \A t, u \in Snaps' : InOrder(t, u)'
  BY <1>4, <1>5, <1>6, Zenon DEF TimesInv, InOrder
<1>8. QED
  BY <1>2, <1>4, <1>5, <1>6, <1>7, Zenon DEF TimesInv, Guard

LEMMA RestartTimes ==
  ASSUME TypeOK, TimesInv, Restart
  PROVE  TimesInv'
<1>1. boot' = boot + 1 /\ lastGen' = 0 /\ drawn' = 0 /\ UNCHANGED <<peak, tokens>>
      /\ stamp' = [s \in Stampers |-> None]
  BY Zenon DEF Restart, clock
<1>2. Snaps' \subseteq Snaps
  BY <1>1, Zenon DEF Snaps
<1>3. Guard'
  BY <1>1, Numbers DEF Guard
<1>4. ASSUME NEW t \in Snaps'
      PROVE  Drawn(t)'
  <2>1. Drawn(t) /\ t.boot \in Nat /\ t.n \in Nat /\ t.gen \in Nat
    BY <1>2, SnapsTyped, TokenNumbers, Zenon DEF TimesInv
  <2>2. QED
    BY <1>1, <2>1, Numbers DEF Drawn
<1>5. QED
  BY <1>2, <1>3, <1>4, Zenon DEF TimesInv, InOrder

LEMMA NextTimes ==
  ASSUME TypeOK, TimesInv, [Next]_vars
  PROVE  TimesInv'
<1>1. CASE Tick \/ SetBack
  BY <1>1, TimesKept, Numbers DEF Tick, SetBack, responder, Snaps
<1>2. ASSUME NEW w \in Workers, RotateStep(w)
      PROVE  TimesInv'
  BY <1>2, RotationScope, TimesKept, Numbers DEF clock, Snaps
<1>3. ASSUME NEW s \in Stampers, Respond(s)
      PROVE  TimesInv'
  <2>1. CASE Snapshot(s)
    BY <2>1, SnapshotTimes, Zenon
  <2>2. CASE Refuse(s)
    BY <2>2, TimesKept, Numbers DEF Refuse, vars, clock, responder, Snaps
  <2>3. ASSUME NEW ok \in BOOLEAN, Sign(s, ok)
        PROVE  TimesInv'
    <3>1. Snaps' \subseteq Snaps
      BY <2>3, Zenon DEF Sign, Snaps, TypeOK
    <3>2. QED
      BY <2>3, <3>1, TimesKept, Numbers DEF Sign, clock, responder
  <2>4. QED
    BY <1>3, <2>1, <2>2, <2>3, Zenon DEF Respond
<1>4. ASSUME NEW c \in Clients, Issue(c)
      PROVE  TimesInv'
  BY <1>4, IssueScope, TimesKept, Numbers DEF clock, responder, Snaps
<1>5. CASE Restart
  BY <1>5, RestartTimes, Zenon
<1>6. CASE UNCHANGED vars
  BY <1>6, TimesKept, Numbers DEF vars, clock, responder, Snaps
<1>7. QED
  BY <1>1, <1>2, <1>3, <1>4, <1>5, <1>6, Zenon DEF Next

-----------------------------------------------------------------------------
(* The store.  A step adds at most one row, whose key is there if it has   *)
(* one, and no key is ever replaced.                                       *)
AddsRow == \E r \in Row : Keyed(r) /\ rows' = Append(rows, r)

KeysStay == \A k \in Refs \cup {FirstRef} : keys[k] # None => keys'[k] = keys[k]

LEMMA IdsGrow ==
  ASSUME rows \in Seq(Row), rows' = rows \/ AddsRow
  PROVE  Ids \subseteq Ids'
<1>1. CASE rows' = rows
  BY <1>1, Zenon DEF Ids
<1>2. CASE AddsRow
  <2>1. PICK r \in Row : rows' = Append(rows, r)
    BY <1>2, Zenon DEF AddsRow
  <2>2. DOMAIN rows \subseteq DOMAIN rows' /\ \A i \in DOMAIN rows : rows'[i] = rows[i]
    BY <2>1, RowAdded
  <2>3. QED
    BY <2>2, Zenon DEF Ids
<1>3. QED
  BY <1>1, <1>2, Zenon

LEMMA RowDate ==
  ASSUME NEW r \in Row
  PROVE  r.at \in Nat /\ 1 <= r.at
BY TsaAssumption DEF Row, OwnRow, ClientRow

(* After a row is added there is still a newest one: it, or the one there  *)
(* was.                                                                    *)
LEMMA NewestGrows ==
  ASSUME rows \in Seq(Row), \E i \in DOMAIN rows : IsNewest(i), rows' = rows \/ AddsRow
  PROVE  \E i \in DOMAIN rows' : IsNewest(i)'
<1>1. CASE rows' = rows
  BY <1>1, Zenon DEF IsNewest
<1>2. CASE AddsRow
  <2>1. PICK r \in Row : rows' = Append(rows, r)
    BY <1>2, Zenon DEF AddsRow
  <2>2. PICK n \in Nat :
          /\ DOMAIN rows = 1..n /\ DOMAIN rows' = 1..(n + 1)
          /\ \A i \in 1..n : rows'[i] = rows[i]
          /\ rows'[n + 1] = r
    <3>. DEFINE m == Len(rows)
    <3>1. m \in Nat /\ DOMAIN rows = 1..m /\ DOMAIN rows' = 1..(m + 1)
          /\ (\A i \in 1..m : rows'[i] = rows[i]) /\ rows'[m + 1] = r
      BY <2>1, RowAdded, Zenon
    <3>2. QED
      BY <3>1, Zenon
  <2>3. r.at \in Nat /\ \A i \in 1..n : rows[i].at \in Nat
    <3>1. \A x \in Row : x.at \in Nat
      BY RowDate, Zenon
    <3>2. \A i \in 1..n : rows[i] \in Row
      BY <2>2
    <3>3. QED
      BY <3>1, <3>2, Zenon
  <2>4. PICK i \in 1..n : IsNewest(i)
    BY <2>2, Zenon
  <2>5. \A j \in 1..n : j # i => rows[j].at < rows[i].at \/ (rows[j].at = rows[i].at /\ j < i)
    BY <2>2, <2>4, Zenon DEF IsNewest
  <2>6. \A j \in 1..(n + 1) : j = n + 1 \/ j \in 1..n
    OBVIOUS
  <2>7. i \in 1..(n + 1) /\ n + 1 \in 1..(n + 1) /\ i # n + 1
    OBVIOUS
  <2>8. CASE r.at < rows[i].at
    <3>1. \A j \in 1..(n + 1) : j # i =>
            rows'[j].at < rows'[i].at \/ (rows'[j].at = rows'[i].at /\ j < i)
      BY <2>2, <2>5, <2>6, <2>8, Zenon
    <3>2. QED
      BY <2>2, <2>7, <3>1, Zenon DEF IsNewest
  <2>9. CASE ~(r.at < rows[i].at)
    <3>1. \A j \in 1..n : rows[j].at <= rows[i].at
      BY <2>3, <2>5, SMTT(20)
    <3>2. \A j \in 1..n : rows[j].at <= r.at
      BY <2>3, <2>9, <3>1
    <3>3. \A j \in 1..n : rows'[j].at < rows'[n + 1].at
                          \/ (rows'[j].at = rows'[n + 1].at /\ j < n + 1)
      BY <2>2, <2>3, <3>2
    <3>4. QED
      BY <2>2, <2>6, <2>7, <3>3, Zenon DEF IsNewest
  <2>10. QED
    BY <2>8, <2>9, Zenon
<1>3. QED
  BY <1>1, <1>2, Zenon

LEMMA StoreStep ==
  ASSUME TypeOK, StoreInv, rows' = rows \/ AddsRow, KeysStay, UNCHANGED <<tokens, stamp>>,
         live' # None, live' \in Ids',
         \A v \in Workers : Rotating(v)' \/ (pc'[v] = pc[v] /\ req'[v] = req[v])
  PROVE  StoreInv'
<1>. USE TsaAssumption
<1>1. rows \in Seq(Row) /\ rows' \in Seq(Row) /\ Ids \subseteq Ids'
  BY IdsGrow, RowAdded, Zenon DEF StoreInv, AddsRow
<1>2. \E i \in DOMAIN rows' : IsNewest(i)'
  BY NewestGrows, Zenon DEF StoreInv
<1>3. ASSUME NEW r \in Row, Keyed(r)
      PROVE  Keyed(r)'
  <2>1. r.ref # None => r.ref \in Refs \cup {FirstRef} /\ r.id # None
    BY Zenon DEF Row, OwnRow, ClientRow
  <2>2. QED
    BY <1>3, <2>1, Zenon DEF Keyed, KeysStay
<1>4. \A i \in DOMAIN rows' : Keyed(rows[i])'
  <2>1. \A i \in DOMAIN rows : rows[i] \in Row /\ Keyed(rows[i])
    BY Zenon DEF StoreInv, TypeOK
  <2>2. CASE rows' = rows
    BY <1>3, <2>1, <2>2, Zenon DEF Keyed
  <2>3. CASE AddsRow
    <3>1. PICK r \in Row : Keyed(r) /\ rows' = Append(rows, r)
      BY <2>3, Zenon DEF AddsRow
    <3>2. \A i \in DOMAIN rows' : rows'[i] = r \/ (i \in DOMAIN rows /\ rows'[i] = rows[i])
      BY <1>1, <3>1, OldOrAdded, Zenon
    <3>3. ASSUME NEW i \in DOMAIN rows'
          PROVE  rows'[i] \in Row /\ Keyed(rows'[i])
      BY <2>1, <3>1, <3>2, Zenon
    <3>4. QED
      BY <1>3, <3>3, Zenon DEF Keyed
  <2>4. QED
    BY <2>2, <2>3, Zenon
<1>5. \A t \in Snaps' : t.by \in Ids'
  BY <1>1, Zenon DEF StoreInv, Snaps
<1>6. ASSUME NEW v \in Workers, pc'[v] = pc[v] /\ req'[v] = req[v]
      PROVE  Rotating(v)'
  <2>1. Rotating(v) /\ pc'[v] = pc[v] /\ req'[v] = req[v]
    BY <1>6, Zenon DEF StoreInv
  <2>2. pc[v] = "create" => keys'[req[v].ref] = req[v].id
    BY <2>1, Zenon DEF Rotating, KeysStay
  <2>3. QED
    BY <1>1, <2>1, <2>2, Zenon DEF Rotating
<1>7. QED
  BY <1>1, <1>2, <1>4, <1>5, <1>6, Zenon DEF StoreInv

LEMMA RotateStore ==
  ASSUME Bounded, StoreInv, NEW w \in Workers, RotateStep(w)
  PROVE  StoreInv'
<1>. USE TsaAssumption DEF Bounded
<1>0. /\ pc \in [Workers -> {"idle", "generate", "create", "swap", "audit"}]
      /\ req \in [Workers -> Rotations]
      /\ keys \in [Refs \cup {FirstRef} -> Identities \cup {None}]
      /\ live \in Identities \cup {None} /\ now \in 1..MaxTime
  BY Zenon DEF TypeOK, Rotations
<1>up. live # None
  BY Zenon DEF RotateStep, ReceiveRotate, Generate, Create, AuditRotate, Rotate, StoreInv, Down
<1>1. UNCHANGED <<tokens, stamp>> /\ Rotating(w) /\ live \in Ids /\ live # None
  BY <1>up, RotationScope, Zenon DEF StoreInv
<1>2. rows \in Seq(Row)
  BY Zenon DEF StoreInv
<1>3. ASSUME NEW v \in Workers \ {w}
      PROVE  pc'[v] = pc[v] /\ req'[v] = req[v]
  BY <1>0, Zenon DEF RotateStep, ReceiveRotate, Generate, Create, AuditRotate, Rotate, Finish, Goto
<1>4. CASE ReceiveRotate(w)
  <2>1. PICK k \in Refs : req' = [req EXCEPT ![w] = [NoRotation EXCEPT !.prev = live, !.ref = k]]
    BY <1>4, Zenon DEF ReceiveRotate
  <2>2. /\ pc'[w] = "generate" /\ UNCHANGED <<rows, keys, live>>
        /\ req'[w].prev = live /\ req'[w].ref = k
    <3>1. req'[w] = [NoRotation EXCEPT !.prev = live, !.ref = k]
      BY <1>0, <2>1, Zenon
    <3>2. pc'[w] = "generate" /\ UNCHANGED <<rows, keys, live>>
      BY <1>0, <1>4, Zenon DEF ReceiveRotate, Goto, responder
    <3>3. [NoRotation EXCEPT !.prev = live, !.ref = k].prev = live
          /\ [NoRotation EXCEPT !.prev = live, !.ref = k].ref = k
      BY <1>0, <1>1, Opened, Zenon
    <3>4. QED
      BY <3>1, <3>2, <3>3, Zenon
  <2>3. Rotating(w)' /\ KeysStay /\ live' \in Ids' /\ live' # None
    BY <1>0, <1>1, <2>2, Zenon DEF Rotating, KeysStay, Ids
  <2>4. QED
    BY <1>1, <1>3, <2>2, <2>3, StoreStep, Zenon
<1>5. ASSUME NEW r \in Outcome, Generate(w, r)
      PROVE  StoreInv'
  <2>1. pc[w] = "generate" /\ UNCHANGED <<rows, live>> /\ live' \in Ids' /\ live' # None
    BY <1>1, <1>5, Zenon DEF Generate, responder, Ids
  <2>2. ASSUME Finish(w), UNCHANGED keys
        PROVE  StoreInv'
    <3>1. Rotating(w)' /\ KeysStay
      BY <1>0, <2>2, Zenon DEF Rotating, KeysStay, Finish, Goto
    <3>2. QED
      BY <1>1, <1>3, <2>1, <3>1, StoreStep, Zenon
  <2>3. CASE keys[req[w].ref] # None
    BY <1>5, <2>2, <2>3, Zenon DEF Generate
  <2>4. CASE keys[req[w].ref] = None
    <3>1. PICK i \in Unused :
            /\ keys' = IF r = "lost" THEN keys ELSE [keys EXCEPT ![req[w].ref] = i]
            /\ IF r = "ok" THEN /\ req' = [req EXCEPT ![w].id = i, ![w].at = now]
                                /\ Goto(w, "create")
               ELSE Finish(w)
      BY <1>5, <2>4, Zenon DEF Generate
    <3>2. KeysStay
      BY <1>0, <2>4, <3>1, Zenon DEF KeysStay
    <3>3. CASE r = "ok"
      <4>1. /\ req'[w].id = i /\ req'[w].at = now /\ req'[w].ref = req[w].ref
            /\ req'[w].prev = req[w].prev /\ pc'[w] = "create"
        BY <1>0, <3>1, <3>3, SMTT(20) DEF Goto, Rotations
      <4>2. req[w].ref \in Refs /\ req[w].prev \in Identities /\ i \in Identities
        BY <1>1, <2>1, Zenon DEF Rotating, Unused
      <4>3. keys'[req[w].ref] = i
        BY <1>0, <3>1, <3>3, <4>2, Zenon
      <4>4. Rotating(w)'
        BY <1>0, <4>1, <4>2, <4>3, Zenon DEF Rotating
      <4>5. QED
        BY <1>1, <1>3, <2>1, <3>2, <4>4, StoreStep, Zenon
    <3>4. CASE r # "ok"
      <4>1. Rotating(w)'
        BY <1>0, <3>1, <3>4, Zenon DEF Rotating, Finish, Goto
      <4>2. QED
        BY <1>1, <1>3, <2>1, <3>2, <4>1, StoreStep, Zenon
    <3>5. QED
      BY <3>3, <3>4, Zenon
  <2>5. QED
    BY <2>3, <2>4, Zenon
<1>6. ASSUME NEW r \in Outcome, Create(w, r)
      PROVE  StoreInv'
  <2>. DEFINE row == [id |-> req[w].id, at |-> req[w].at, ref |-> req[w].ref]
  <2>1. row \in Row /\ Keyed(row)
    BY <1>1, <1>6, Zenon DEF Create, Row, OwnRow, Rotating, Keyed
  <2>2. rows' = IF r = "lost" THEN rows ELSE Append(rows, row)
    BY <1>6, Zenon DEF Create
  <2>3. rows' = rows \/ AddsRow
    BY <2>1, <2>2, Zenon DEF AddsRow
  <2>4. UNCHANGED <<keys, live>> /\ KeysStay
    BY <1>6, Zenon DEF Create, responder, KeysStay
  <2>5. Ids \subseteq Ids'
    BY <1>2, <2>3, IdsGrow, Zenon
  <2>6. CASE r = "ok"
    <3>1. rows' = Append(rows, row)
      BY <2>2, <2>6, Zenon
    <3>2. Len(rows) + 1 \in DOMAIN rows' /\ rows'[Len(rows) + 1].id = req[w].id
      BY <1>2, <2>1, <3>1, RowAdded, SMTT(20)
    <3>3. req[w].id \in Ids'
      BY <3>2, Zenon DEF Ids
    <3>4. pc'[w] = "swap" /\ req' = req
      BY <1>0, <1>6, <2>6, Zenon DEF Create, Goto
    <3>5. Rotating(w)'
      BY <1>1, <1>6, <3>3, <3>4, Zenon DEF Create, Rotating
    <3>6. QED
      BY <1>1, <1>3, <2>3, <2>4, <2>5, <3>5, StoreStep, Zenon
  <2>7. CASE r # "ok"
    <3>1. Rotating(w)'
      BY <1>0, <1>6, <2>7, Zenon DEF Create, Finish, Goto, Rotating
    <3>2. QED
      BY <1>1, <1>3, <2>3, <2>4, <2>5, <3>1, StoreStep, Zenon
  <2>8. QED
    BY <2>6, <2>7, Zenon
<1>7. ASSUME NEW r \in Outcome, AuditRotate(w, r)
      PROVE  StoreInv'
  <2>1. UNCHANGED <<rows, keys, live>> /\ Rotating(w)' /\ KeysStay /\ live' \in Ids' /\ live' # None
    BY <1>0, <1>1, <1>7, Zenon DEF AuditRotate, Finish, Goto, Rotating, KeysStay, responder, Ids
  <2>2. QED
    BY <1>1, <1>3, <2>1, StoreStep, Zenon
<1>8. CASE Rotate(w)
  <2>1. UNCHANGED <<rows, keys, req>> /\ pc[w] = "swap" /\ pc'[w] = "audit" /\ live' = req[w].id
    BY <1>0, <1>8, Zenon DEF Rotate, Goto
  <2>2. Rotating(w)' /\ KeysStay /\ live' \in Ids' /\ live' # None
    BY <1>1, <2>1, Zenon DEF Rotating, KeysStay, Ids
  <2>3. QED
    BY <1>1, <1>3, <2>1, <2>2, StoreStep, Zenon
<1>9. QED
  BY <1>4, <1>5, <1>6, <1>7, <1>8, Zenon DEF RotateStep

(* The other steps write no row and no key. *)
LEMMA OtherStore ==
  ASSUME TypeOK, StoreInv, UNCHANGED <<rows, keys>>, live' # None => live' \in Ids,
         live' = None => Down',
         \A t \in Snaps' : t.by \in Ids,
         \A w \in Workers : pc'[w] = "idle" \/ (pc'[w] = pc[w] /\ req'[w] = req[w])
  PROVE  StoreInv'
<1>1. Ids' = Ids
  BY Zenon DEF Ids
<1>2. ASSUME NEW w \in Workers
      PROVE  Rotating(w)'
  <2>1. Rotating(w)
    BY Zenon DEF StoreInv
  <2>2. CASE pc'[w] = "idle"
    BY <2>2, Zenon DEF Rotating
  <2>3. CASE pc'[w] = pc[w] /\ req'[w] = req[w]
    BY <1>1, <2>1, <2>3, Zenon DEF Rotating
  <2>4. QED
    BY <2>2, <2>3, Zenon
<1>3. QED
  BY <1>1, <1>2, Zenon DEF StoreInv, IsNewest, Keyed

LEMMA StaysDown ==
  ASSUME StoreInv, UNCHANGED <<rows, pc, live, asked>>
  PROVE  live' = None => Down'
BY Zenon DEF StoreInv, Down, Newest

LEMMA IssueStore ==
  ASSUME Bounded, StoreInv, NEW c \in Clients, Issue(c)
  PROVE  StoreInv'
<1>. USE DEF Bounded
<1>1. UNCHANGED <<keys, pc, req, live, tokens, stamp>>
  BY IssueScope, Zenon DEF responder
<1>2. live # None /\ live \in Ids
  BY Zenon DEF Issue, ReceiveIssue, IssueLeaf, StoreInv, Down
<1>3. rows' = rows \/ AddsRow
  <2>1. ASSUME NEW stored \in BOOLEAN, IssueLeaf(c, stored)
        PROVE  rows' = rows \/ AddsRow
    <3>1. Keyed([id |-> None, at |-> asked[c], ref |-> None])
      BY Zenon DEF Keyed
    <3>2. QED
      BY <2>1, <3>1, ClientRowTyped, Zenon DEF IssueLeaf, AddsRow
  <2>2. QED
    BY <2>1, Zenon DEF Issue, ReceiveIssue, rotation
<1>4. Ids \subseteq Ids'
  BY <1>3, IdsGrow, Zenon DEF StoreInv
<1>5. KeysStay
  BY <1>1, Zenon DEF KeysStay
<1>6. QED
  BY <1>1, <1>2, <1>3, <1>4, <1>5, StoreStep, Zenon

LEMMA NextStore ==
  ASSUME Bounded, StoreInv, [Next]_vars
  PROVE  StoreInv'
<1>. USE DEF Bounded
<1>1. (live # None => live \in Ids) /\ \A t \in Snaps : t.by \in Ids
  BY Zenon DEF StoreInv
<1>2. CASE Tick \/ SetBack \/ UNCHANGED vars
  <2>1. UNCHANGED <<rows, keys, live, pc, req, tokens, stamp, asked>>
    BY <1>2, Zenon DEF Tick, SetBack, vars, rotation, responder
  <2>2. QED
    BY <1>1, <2>1, StaysDown, OtherStore, Zenon DEF Snaps
<1>3. ASSUME NEW s \in Stampers, Respond(s)
      PROVE  StoreInv'
  <2>1. \A t \in Snaps' : t.by \in Ids
    <3>1. CASE Refuse(s)
      BY <1>1, <3>1, Zenon DEF Refuse, vars, Snaps
    <3>2. CASE Snapshot(s)
      <4>1. \A t \in Snaps' : t \in Snaps \/ t.by = live
        BY <3>2 DEF Snapshot, Snaps, TypeOK
      <4>2. QED
        BY <1>1, <3>2, <4>1, Zenon DEF Snapshot
    <3>3. ASSUME NEW ok \in BOOLEAN, Sign(s, ok)
          PROVE  \A t \in Snaps' : t.by \in Ids
      <4>1. Snaps' \subseteq Snaps
        BY <3>3, Zenon DEF Sign, Snaps, TypeOK
      <4>2. QED
        BY <1>1, <4>1, Zenon
    <3>4. QED
      BY <1>3, <3>1, <3>2, <3>3, Zenon DEF Respond
  <2>2. UNCHANGED <<rows, keys, pc, req, live, asked>>
    BY <1>3, StampScope, Zenon DEF rotation
  <2>3. QED
    BY <1>1, <2>1, <2>2, StaysDown, OtherStore, Zenon
<1>4. CASE Restart
  <2>1. live' = Loadable /\ Loadable \in Ids \cup {None} /\ UNCHANGED <<rows, keys>>
        /\ \A w \in Workers : pc'[w] = "idle"
    BY <1>4, LoadableTyped, Zenon DEF Restart
  <2>2. Snaps' \subseteq Snaps
    BY <1>4, Zenon DEF Restart, Snaps
  <2>3. live' = None => Newest.ref = None
    <3>1. PICK i \in DOMAIN rows : Newest = rows[i]
      BY NewestStored, Zenon DEF StoreInv
    <3>2. Newest \in Row /\ Keyed(Newest)
      BY <3>1, Zenon DEF StoreInv, TypeOK
    <3>3. Newest.ref # None => Newest.id # None
      BY <3>2, TsaAssumption, Zenon DEF Row, OwnRow, ClientRow
    <3>4. QED
      BY <2>1, <3>2, <3>3, Zenon DEF Loadable, Keyed
  <2>4. \A c \in Clients : asked'[c] \in {None, 0}
    BY <1>4, Zenon DEF Restart
  <2>5. live' = None => Down'
    BY <2>1, <2>3, <2>4, Zenon DEF Down, Newest
  <2>6. QED
    BY <1>1, <2>1, <2>2, <2>5, OtherStore, Zenon
<1>5. QED
  BY <1>2, <1>3, <1>4, RotateStore, IssueStore, Zenon DEF Next

LEMMA InitStore == Init => StoreInv
<1>. SUFFICES ASSUME Init
              PROVE  StoreInv
  BY Zenon
<1>1. rows \in Seq(Row) /\ DOMAIN rows = {1} /\ rows[1].id = First /\ rows[1].ref = FirstRef
  BY InitTyped DEF Init
<1>2. Snaps = {} /\ First \in Ids
  BY <1>1, Zenon DEF Init, Snaps, Ids
<1>3. IsNewest(1)
  BY <1>1, Zenon DEF IsNewest
<1>4. keys[FirstRef] = First /\ live = First /\ \A w \in Workers : pc[w] = "idle"
  BY Zenon DEF Init
<1>5. First # None
  BY TsaAssumption, Zenon
<1>6. QED
  BY <1>1, <1>2, <1>3, <1>4, <1>5, Zenon DEF StoreInv, Rotating, Keyed

-----------------------------------------------------------------------------
(* The batch starts empty and grows with the rows the rotations add. *)
LEMMA SameBatch ==
  ASSUME UNCHANGED <<rows, base>>
  PROVE  Batch' = Batch
BY Zenon DEF Batch

LEMMA NewBatch ==
  ASSUME rows \in Seq(Row), UNCHANGED rows, base' = Len(rows)
  PROVE  Batch' = {} /\ base' <= Len(rows')
<1>1. DOMAIN rows = 1..Len(rows) /\ Len(rows) \in Nat
  OBVIOUS
<1>2. \A j \in 1..Len(rows) : ~(Len(rows) < j)
  BY <1>1
<1>3. Batch' = {}
  BY <1>1, <1>2, Zenon DEF Batch
<1>4. QED
  BY <1>1, <1>3

LEMMA BatchGrows ==
  ASSUME rows \in Seq(Row), NEW r \in Row, rows' = Append(rows, r), base \in Nat,
         base <= Len(rows), UNCHANGED base
  PROVE  Batch' = Batch \cup ({r.id} \ {None}) /\ base' <= Len(rows')
<1>1. PICK n \in Nat :
        /\ n = Len(rows) /\ Len(rows') = n + 1
        /\ DOMAIN rows = 1..n /\ DOMAIN rows' = 1..(n + 1)
        /\ \A i \in 1..n : rows'[i] = rows[i]
        /\ rows'[n + 1] = r
  BY RowAdded, Zenon
<1>2. base < n + 1 /\ base <= n + 1 /\ n + 1 \in 1..(n + 1)
  BY <1>1
<1>3. \A i \in 1..n : i \in 1..(n + 1)
  OBVIOUS
<1>4. \A i \in 1..(n + 1) : i = n + 1 \/ i \in 1..n
  OBVIOUS
<1>5. ASSUME NEW x \in Batch'
      PROVE  x \in Batch \cup ({r.id} \ {None})
  <2>1. PICK i \in 1..(n + 1) : base < i /\ x = rows'[i].id /\ x # None
    BY <1>1, <1>5, Zenon DEF Batch
  <2>2. CASE i = n + 1
    BY <1>1, <2>1, <2>2, Zenon
  <2>3. CASE i \in 1..n
    BY <1>1, <2>1, <2>3, Zenon DEF Batch
  <2>4. QED
    BY <1>4, <2>1, <2>2, <2>3, Zenon
<1>6. ASSUME NEW x \in Batch
      PROVE  x \in Batch'
  <2>1. PICK i \in 1..n : base < i /\ x = rows[i].id /\ x # None
    BY <1>1, <1>6, Zenon DEF Batch
  <2>2. QED
    BY <1>1, <1>3, <2>1, Zenon DEF Batch
<1>7. ASSUME r.id # None
      PROVE  r.id \in Batch'
  BY <1>1, <1>2, <1>7, Zenon DEF Batch
<1>8. QED
  BY <1>1, <1>2, <1>5, <1>6, <1>7, Zenon

LEMMA InitBatch == Init => BatchInv
<1>. SUFFICES ASSUME Init
              PROVE  BatchInv
  BY Zenon
<1>1. base <= Len(rows)
  BY DEF Init
<1>2. acked = None /\ \A w \in Workers : pc[w] = "idle"
  BY Zenon DEF Init
<1>3. QED
  BY <1>1, <1>2, Zenon DEF BatchInv, Flight, Acked

(* Steps of others keep the rotations and add nothing to the batch. *)
LEMMA QuietBatch ==
  ASSUME BatchInv, Batch' = Batch, base' <= Len(rows'), UNCHANGED <<acked, overlap>>,
         \/ UNCHANGED <<pc, req, live>>
         \/ \A w \in Workers : pc'[w] = "idle"
  PROVE  BatchInv'
<1>1. Acked'
  BY Zenon DEF BatchInv, Acked
<1>2. CASE UNCHANGED <<pc, req, live>>
  <2>1. ASSUME NEW w \in Workers
        PROVE  Flight(w)'
    <3>1. Flight(w)
      BY Zenon DEF BatchInv
    <3>2. QED
      BY <1>2, <3>1, Zenon DEF Flight
  <2>2. QED
    BY <1>1, <2>1, Zenon DEF BatchInv
<1>3. CASE \A w \in Workers : pc'[w] = "idle"
  <2>1. ASSUME NEW w \in Workers
        PROVE  Flight(w)'
    BY <1>3, Zenon DEF Flight
  <2>2. QED
    BY <1>1, <2>1, Zenon DEF BatchInv
<1>4. QED
  BY <1>2, <1>3, Zenon

LEMMA RotateBatch ==
  ASSUME Bounded, StoreInv, BatchInv, NEW w \in Workers, RotateStep(w)
  PROVE  BatchInv'
<1>. USE TsaAssumption DEF Bounded
<1>0. /\ pc \in [Workers -> {"idle", "generate", "create", "swap", "audit"}]
      /\ req \in [Workers -> Rotations] /\ rows \in Seq(Row) /\ base \in Nat
  BY Zenon DEF TypeOK, Rotations, StoreInv
<1>1. base <= Len(rows) /\ Acked /\ \A v \in Workers : Flight(v)
  BY Zenon DEF BatchInv
<1>2. ASSUME NEW v \in Workers \ {w}
      PROVE  pc'[v] = pc[v] /\ req'[v] = req[v]
  BY <1>0, Zenon DEF RotateStep, ReceiveRotate, Generate, Create, AuditRotate, Rotate, Finish, Goto
<1>3. ~overlap /\ pc[w] # "idle" => acked = None /\ \A v \in Workers \ {w} : pc[v] = "idle"
  BY <1>1, Zenon DEF Flight
<1>4. CASE ReceiveRotate(w)
  <2>1. pc'[w] = "generate" /\ UNCHANGED <<rows, live>>
    BY <1>0, <1>4, Zenon DEF ReceiveRotate, Goto, responder
  <2>2. CASE \A v \in Workers : pc[v] = "idle"
    <3>1. base' = Len(rows) /\ acked' = None
      BY <1>4, <2>2, Zenon DEF ReceiveRotate
    <3>2. Batch' = {} /\ base' <= Len(rows')
      BY <1>0, <2>1, <3>1, NewBatch, Zenon
    <3>3. Flight(w)'
      BY <1>2, <2>1, <2>2, <3>1, <3>2, Zenon DEF Flight
    <3>4. \A v \in Workers \ {w} : Flight(v)'
      BY <1>2, <2>2, Zenon DEF Flight
    <3>5. QED
      BY <3>1, <3>2, <3>3, <3>4, Zenon DEF BatchInv, Acked
  <2>3. CASE ~\A v \in Workers : pc[v] = "idle"
    <3>1. overlap' = TRUE /\ UNCHANGED <<base, acked>>
      BY <1>4, <2>3, Zenon DEF ReceiveRotate
    <3>2. Batch' = Batch /\ base' <= Len(rows')
      BY <1>1, <2>1, <3>1, SameBatch, Zenon
    <3>3. \A v \in Workers : Flight(v)'
      BY <1>1, <1>2, <2>1, <3>1, <3>2, Zenon DEF Flight
    <3>4. QED
      BY <1>1, <3>1, <3>2, <3>3, Zenon DEF BatchInv, Acked
  <2>4. QED
    BY <2>2, <2>3, Zenon
<1>5. ASSUME NEW r \in Outcome, Generate(w, r)
      PROVE  BatchInv'
  <2>1. pc[w] = "generate" /\ pc'[w] \in {"idle", "create"}
        /\ UNCHANGED <<rows, base, acked, overlap, live>>
    BY <1>0, <1>5, Zenon DEF Generate, Finish, Goto, history, responder
  <2>2. Batch' = Batch /\ base' <= Len(rows')
    BY <1>1, <2>1, SameBatch, Zenon
  <2>3. Flight(w)'
    BY <1>1, <1>2, <2>1, <2>2, Zenon DEF Flight
  <2>4. ASSUME NEW v \in Workers \ {w}
        PROVE  Flight(v)'
    BY <1>1, <1>2, <1>3, <2>1, <2>2, Zenon DEF Flight
  <2>5. QED
    BY <1>1, <2>1, <2>2, <2>3, <2>4, Zenon DEF BatchInv, Acked
<1>6. ASSUME NEW r \in Outcome, Create(w, r)
      PROVE  BatchInv'
  <2>. DEFINE row == [id |-> req[w].id, at |-> req[w].at, ref |-> req[w].ref]
  <2>1. Rotating(w) /\ pc[w] = "create"
    BY <1>6, Zenon DEF Create, StoreInv
  <2>2. row \in Row /\ row.id = req[w].id /\ row.id # None
    BY <2>1, Zenon DEF Row, OwnRow, Rotating
  <2>3. rows' = IF r = "lost" THEN rows ELSE Append(rows, row)
    BY <1>6, Zenon DEF Create
  <2>. HIDE DEF row
  <2>4. UNCHANGED <<base, acked, overlap, live>>
    BY <1>6, Zenon DEF Create, history, responder
  <2>5. /\ Batch' = Batch \/ Batch' = Batch \cup {req[w].id}
        /\ r = "ok" => Batch' = Batch \cup {req[w].id}
        /\ base' <= Len(rows')
    <3>1. CASE r = "lost"
      <4>1. rows' = rows /\ r # "ok"
        BY <2>3, <3>1, Zenon
      <4>2. QED
        BY <1>1, <2>4, <4>1, SameBatch, Zenon
    <3>2. CASE r # "lost"
      <4>1. rows' = Append(rows, row)
        BY <2>3, <3>2, Zenon
      <4>2. Batch' = Batch \cup ({row.id} \ {None}) /\ base' <= Len(rows')
        BY <1>0, <1>1, <2>2, <2>4, <4>1, BatchGrows, Zenon
      <4>3. QED
        BY <2>2, <4>2, Zenon
    <3>3. QED
      BY <3>1, <3>2, Zenon
  <2>6. ASSUME NEW v \in Workers \ {w}
        PROVE  Flight(v)'
    BY <1>1, <1>2, <1>3, <2>1, <2>4, <2>5, Zenon DEF Flight
  <2>7. Acked'
    BY <1>1, <1>3, <2>1, <2>4, <2>5, Zenon DEF Acked
  <2>8. CASE r = "ok"
    <3>1. pc'[w] = "swap" /\ req' = req
      BY <1>0, <1>6, <2>8, Zenon DEF Create, Goto
    <3>2. ~overlap => Batch = {}
      BY <1>1, <2>1, Zenon DEF Flight
    <3>3. Batch' = Batch \cup {req[w].id} /\ (~overlap => Batch' = {req[w].id})
      BY <2>5, <2>8, <3>2, Zenon
    <3>4. Flight(w)'
      BY <1>2, <1>3, <2>1, <2>4, <3>1, <3>3, Zenon DEF Flight
    <3>5. QED
      BY <2>5, <2>6, <2>7, <3>4, Zenon DEF BatchInv
  <2>9. CASE r # "ok"
    <3>1. Flight(w)'
      BY <1>0, <1>6, <2>9, Zenon DEF Create, Finish, Goto, Flight
    <3>2. QED
      BY <2>5, <2>6, <2>7, <3>1, Zenon DEF BatchInv
  <2>10. QED
    BY <2>8, <2>9, Zenon
<1>7. ASSUME NEW r \in Outcome, AuditRotate(w, r)
      PROVE  BatchInv'
  <2>1. /\ pc[w] = "audit" /\ pc'[w] = "idle" /\ acked' \in {acked, req[w].id}
        /\ UNCHANGED <<rows, base, overlap, live>>
    BY <1>0, <1>7, Zenon DEF AuditRotate, Finish, Goto, responder
  <2>2. Batch' = Batch /\ base' <= Len(rows')
    BY <1>1, <2>1, SameBatch, Zenon
  <2>3. ASSUME NEW v \in Workers
        PROVE  Flight(v)'
    BY <1>1, <1>2, <1>3, <2>1, <2>2, Zenon DEF Flight
  <2>4. Acked'
    BY <1>1, <2>1, <2>2, Zenon DEF Flight, Acked
  <2>5. QED
    BY <2>2, <2>3, <2>4, Zenon DEF BatchInv
<1>8. CASE Rotate(w)
  <2>1. /\ pc[w] = "swap" /\ pc'[w] = "audit" /\ live' = req[w].id
        /\ UNCHANGED <<rows, base, acked, overlap, req>>
    BY <1>0, <1>8, Zenon DEF Rotate, Goto, history
  <2>2. Batch' = Batch /\ base' <= Len(rows') /\ req[w].id \in Batch
    BY <1>1, <2>1, SameBatch, Zenon DEF Flight
  <2>3. Flight(w)'
    BY <1>1, <1>2, <2>1, <2>2, Zenon DEF Flight
  <2>4. ASSUME NEW v \in Workers \ {w}
        PROVE  Flight(v)'
    BY <1>1, <1>2, <1>3, <2>1, <2>2, Zenon DEF Flight
  <2>5. QED
    BY <1>1, <2>1, <2>2, <2>3, <2>4, Zenon DEF BatchInv, Acked
<1>9. QED
  BY <1>4, <1>5, <1>6, <1>7, <1>8, Zenon DEF RotateStep

(* A client's row is none of the batch. *)
LEMMA IssueBatch ==
  ASSUME TypeOK, StoreInv, BatchInv, NEW c \in Clients, Issue(c)
  PROVE  Batch' = Batch /\ base' <= Len(rows')
<1>1. UNCHANGED base /\ base \in Nat /\ base <= Len(rows) /\ rows \in Seq(Row)
  BY IssueScope, Zenon DEF history, TypeOK, BatchInv, StoreInv
<1>2. CASE rows' = rows
  BY <1>1, <1>2, SameBatch, Zenon
<1>3. ASSUME NEW stored \in BOOLEAN, IssueLeaf(c, stored), rows' # rows
      PROVE  Batch' = Batch /\ base' <= Len(rows')
  <2>. DEFINE row == [id |-> None, at |-> asked[c], ref |-> None]
  <2>1. row \in Row /\ rows' = Append(rows, row) /\ row.id = None
    BY <1>3, ClientRowTyped, Zenon DEF IssueLeaf
  <2>. HIDE DEF row
  <2>2. QED
    BY <1>1, <2>1, BatchGrows, Zenon
<1>4. QED
  BY <1>2, <1>3, Zenon DEF Issue, ReceiveIssue, rotation

LEMMA NextBatch ==
  ASSUME Bounded, StoreInv, BatchInv, [Next]_vars
  PROVE  BatchInv'
<1>1. ASSUME UNCHANGED <<rows, base>>
      PROVE  Batch' = Batch /\ base' <= Len(rows')
  BY <1>1, SameBatch, Zenon DEF BatchInv
<1>2. CASE Tick \/ SetBack \/ UNCHANGED vars
  BY <1>1, <1>2, QuietBatch, Zenon DEF Tick, SetBack, vars, rotation, history, responder
<1>3. ASSUME NEW s \in Stampers, Respond(s)
      PROVE  BatchInv'
  BY <1>1, <1>3, StampScope, QuietBatch, Zenon DEF rotation, history
<1>4. ASSUME NEW c \in Clients, Issue(c)
      PROVE  BatchInv'
  BY <1>4, IssueScope, IssueBatch, QuietBatch, Zenon DEF history, responder, Bounded
<1>5. CASE Restart
  BY <1>1, <1>5, QuietBatch, Zenon DEF Restart, history
<1>6. QED
  BY <1>2, <1>3, <1>4, <1>5, RotateBatch, Zenon DEF Next

-----------------------------------------------------------------------------
(* On a clock that only goes forward no identity from before the batch is  *)
(* the newest, once the batch has one.                                     *)
LEMMA BatchLoaded ==
  ASSUME TypeOK, StoreInv, OrderInv, back = 0, Batch # {}
  PROVE  Loadable \in Batch \cup {None}
<1>1. PICK i \in DOMAIN rows : IsNewest(i) /\ Newest = rows[i]
  BY NewestStored, Zenon DEF StoreInv
<1>2. PICK j \in DOMAIN rows : base < j /\ rows[j].id # None
  BY Zenon DEF Batch
<1>3. rows[i] \in Row /\ rows[j] \in Row
  BY Zenon DEF TypeOK
<1>4. rows[j].ref # None
  BY <1>2, <1>3, TsaAssumption, Zenon DEF Row, OwnRow, ClientRow
<1>5. rows[i].at \in Nat /\ rows[j].at \in Nat
  BY <1>3, RowDate, Zenon
<1>6. i \in Nat /\ j \in Nat /\ base \in Nat
  <2>1. DOMAIN rows = 1..Len(rows)
    BY DEF StoreInv
  <2>2. QED
    BY <2>1 DEF TypeOK
<1>7. CASE rows[i].ref = None
  BY <1>1, <1>7, Zenon DEF Loadable
<1>8. CASE rows[i].ref # None /\ i <= base
  <2>1. rows[i].at <= rows[j].at
    BY <1>2, <1>4, <1>8, Zenon DEF OrderInv, Ordered, Older, Newer
  <2>2. i # j
    BY <1>2, <1>6, <1>8
  <2>3. rows[j].at < rows[i].at \/ (rows[j].at = rows[i].at /\ j < i)
    BY <1>1, <2>2, Zenon DEF IsNewest
  <2>4. QED
    BY <1>2, <1>5, <1>6, <1>8, <2>1, <2>3
<1>9. CASE base < i
  BY <1>1, <1>9, Zenon DEF Loadable, Batch
<1>10. i <= base \/ base < i
  BY <1>6
<1>11. QED
  BY <1>7, <1>8, <1>9, <1>10, Zenon

LEMMA InitOrder == Init => OrderInv
<1>. SUFFICES ASSUME Init
              PROVE  OrderInv
  BY Zenon
<1>1. DOMAIN rows = {1} /\ rows[1].at = 1 /\ now = 1 /\ base = 1
  BY DEF Init
<1>2. acked = None /\ (\A w \in Workers : pc[w] = "idle") /\ \A c \in Clients : asked[c] = None
  BY Zenon DEF Init
<1>3. Dated
  BY <1>1, <1>2 DEF Dated
<1>4. ~(base < 1)
  BY <1>1
<1>5. Ordered
  BY <1>1, <1>2, <1>4, Zenon DEF Ordered, Newer
<1>6. QED
  BY <1>2, <1>3, <1>5, Zenon DEF OrderInv, InUse

LEMMA TickOrder ==
  ASSUME Bounded, StoreInv, OrderInv, Tick \/ SetBack
  PROVE  OrderInv'
<1>. USE DEF Bounded
<1>. SUFFICES ASSUME back' = 0
              PROVE  OrderInv'
  BY Zenon DEF OrderInv
<1>1. Tick /\ back = 0 /\ now' = now + 1 /\ now \in Nat
  BY Numbers DEF Tick, SetBack
<1>2. Dated /\ Ordered /\ InUse
  BY <1>1, Zenon DEF OrderInv
<1>3. UNCHANGED <<rows, pc, req, asked, base, acked, live>>
  BY <1>1, Zenon DEF Tick, rotation, history, responder
<1>4. \A x \in Nat : x <= now => x <= now'
  BY <1>1
<1>5. ASSUME NEW i \in DOMAIN rows
      PROVE  rows[i].at \in Nat
  BY RowDate, Zenon DEF TypeOK
<1>6. ASSUME NEW c \in Clients, asked[c] # None
      PROVE  asked[c] \in Nat
  BY <1>6, TsaAssumption DEF TypeOK
<1>7. ASSUME NEW w \in Workers
      PROVE  req[w].at \in Nat
  BY TsaAssumption DEF TypeOK
<1>8. Dated'
  BY <1>2, <1>3, <1>4, <1>5, <1>6, <1>7, Zenon DEF Dated
<1>9. Ordered' /\ InUse'
  BY <1>2, <1>3, SameBatch, Zenon DEF Ordered, Older, Newer, InUse
<1>10. QED
  BY <1>8, <1>9, Zenon DEF OrderInv

(* Steps that write no row. *)
LEMMA QuietOrder ==
  ASSUME OrderInv, UNCHANGED <<clock, rows, base, acked>>, live' = live \/ InUse',
         \A w \in Workers : pc'[w] # "create" \/ (pc'[w] = pc[w] /\ req'[w] = req[w]),
         \A c \in Clients : asked'[c] # None => asked'[c] = asked[c] \/ asked'[c] <= now
  PROVE  OrderInv'
<1>. SUFFICES ASSUME back' = 0
              PROVE  OrderInv'
  BY Zenon DEF OrderInv
<1>1. UNCHANGED <<now, back>> /\ Dated /\ Ordered /\ InUse
  BY Zenon DEF OrderInv, clock
<1>2. Dated'
  BY <1>1, Zenon DEF Dated
<1>3. Ordered'
  BY <1>1, Zenon DEF Ordered, Older, Newer
<1>4. InUse'
  BY <1>1, SameBatch, Zenon DEF InUse
<1>5. QED
  BY <1>2, <1>3, <1>4, Zenon DEF OrderInv

(* A row is added whose date has passed and, if it has a key, is no        *)
(* earlier than the identities from before the batch.                      *)
LEMMA AddedOrder ==
  ASSUME TypeOK, StoreInv, BatchInv, OrderInv, UNCHANGED <<clock, base, acked, live>>,
         NEW r \in Row, rows' = Append(rows, r), Batch \subseteq Batch',
         back = 0 => r.at <= now,
         back = 0 /\ r.ref # None => \A i \in DOMAIN rows : Older(i) => rows[i].at <= r.at,
         \A w \in Workers : pc'[w] # "create" \/ (pc'[w] = pc[w] /\ req'[w] = req[w]),
         \A c \in Clients : asked'[c] # None => asked'[c] = asked[c] \/ asked'[c] <= now
  PROVE  OrderInv'
<1>. SUFFICES ASSUME back' = 0
              PROVE  OrderInv'
  BY Zenon DEF OrderInv
<1>1. UNCHANGED <<now, back>> /\ Dated /\ Ordered /\ InUse /\ back = 0
  BY Zenon DEF OrderInv, clock
<1>2. PICK n \in Nat :
        /\ n = Len(rows) /\ DOMAIN rows = 1..n /\ DOMAIN rows' = 1..(n + 1)
        /\ \A i \in 1..n : rows'[i] = rows[i]
        /\ rows'[n + 1] = r
  BY RowAdded, Zenon DEF StoreInv
<1>3. \A i \in 1..(n + 1) : i = n + 1 \/ i \in 1..n
  OBVIOUS
<1>4. ~(n + 1 <= base)
  BY <1>2 DEF BatchInv, TypeOK
<1>5. Dated'
  <2>1. \A i \in DOMAIN rows' : rows'[i].at <= now'
    BY <1>1, <1>2, <1>3, Zenon DEF Dated
  <2>2. QED
    BY <1>1, <2>1, Zenon DEF Dated
<1>6. ASSUME NEW i \in DOMAIN rows', Older(i)'
      PROVE  /\ \A j \in DOMAIN rows' : Newer(j)' => rows'[i].at <= rows'[j].at
             /\ \A w \in Workers : pc'[w] = "create" => rows'[i].at <= req'[w].at
  <2>1. i \in 1..n /\ Older(i) /\ rows'[i] = rows[i]
    BY <1>2, <1>3, <1>4, <1>6, Zenon DEF Older
  <2>2. ASSUME NEW j \in DOMAIN rows', Newer(j)'
        PROVE  rows'[i].at <= rows'[j].at
    <3>1. CASE j = n + 1
      BY <1>1, <1>2, <2>1, <2>2, <3>1, Zenon DEF Newer
    <3>2. CASE j \in 1..n
      BY <1>1, <1>2, <2>1, <2>2, <3>2, Zenon DEF Newer, Ordered
    <3>3. QED
      BY <1>2, <1>3, <3>1, <3>2, Zenon
  <2>3. QED
    BY <1>1, <1>2, <2>1, <2>2, Zenon DEF Ordered
<1>7. Ordered'
  BY <1>6, Zenon DEF Ordered
<1>8. InUse'
  BY <1>1, Zenon DEF InUse
<1>9. QED
  BY <1>5, <1>7, <1>8, Zenon DEF OrderInv

LEMMA IssueOrder ==
  ASSUME Bounded, StoreInv, BatchInv, OrderInv, NEW c \in Clients, Issue(c)
  PROVE  OrderInv'
<1>. USE DEF Bounded
<1>1. UNCHANGED <<clock, base, acked, live, pc, req>>
  BY IssueScope, Zenon DEF history, responder
<1>2. asked \in [Clients -> 0..MaxTime \cup {None}] /\ now \in Nat
  BY Numbers, Zenon DEF TypeOK
<1>3. \A d \in Clients : asked'[d] # None => asked'[d] = asked[d] \/ asked'[d] <= now
  <2>1. 0 <= now /\ now <= now
    BY <1>2
  <2>2. asked' = [asked EXCEPT ![c] = now] \/ asked' = [asked EXCEPT ![c] = 0]
    BY Zenon DEF Issue, ReceiveIssue, IssueLeaf
  <2>3. QED
    BY <1>2, <2>1, <2>2, Zenon
<1>4. CASE rows' = rows
  BY <1>1, <1>3, <1>4, QuietOrder, Zenon
<1>5. ASSUME NEW stored \in BOOLEAN, IssueLeaf(c, stored), rows' # rows
      PROVE  OrderInv'
  <2>. DEFINE row == [id |-> None, at |-> asked[c], ref |-> None]
  <2>1. row \in Row /\ rows' = Append(rows, row) /\ row.ref = None /\ row.at = asked[c]
        /\ asked[c] # None
    BY <1>5, ClientRowTyped, Zenon DEF IssueLeaf
  <2>. HIDE DEF row
  <2>2. back = 0 => row.at <= now
    BY <2>1, Zenon DEF OrderInv, Dated
  <2>3. Batch' = Batch
    BY IssueBatch, Zenon
  <2>4. QED
    BY <1>1, <1>3, <2>1, <2>2, <2>3, AddedOrder, Zenon
<1>6. QED
  BY <1>4, <1>5, Zenon DEF Issue, ReceiveIssue, rotation

LEMMA RestartOrder ==
  ASSUME Bounded, StoreInv, BatchInv, OrderInv, Restart
  PROVE  OrderInv'
<1>. USE DEF Bounded
<1>. SUFFICES ASSUME back' = 0
              PROVE  OrderInv'
  BY Zenon DEF OrderInv
<1>1. /\ UNCHANGED <<clock, rows, base, acked>> /\ live' = Loadable
      /\ \A w \in Workers : pc'[w] = "idle"
  BY Zenon DEF Restart, history
<1>2. acked # None => Loadable \in Batch \cup {None}
  BY <1>1, BatchLoaded, Zenon DEF clock, BatchInv, Acked
<1>3. InUse'
  BY <1>1, <1>2, SameBatch, Zenon DEF InUse
<1>4. 0 <= now
  BY Numbers
<1>5. \A c \in Clients : asked'[c] # None => asked'[c] <= now
  BY <1>4, Zenon DEF Restart
<1>6. QED
  BY <1>1, <1>3, <1>5, QuietOrder, Zenon

LEMMA RotateOrder ==
  ASSUME Bounded, StoreInv, BatchInv, OrderInv, BatchInv', NEW w \in Workers, RotateStep(w)
  PROVE  OrderInv'
<1>. USE TsaAssumption DEF Bounded
<1>0. /\ pc \in [Workers -> {"idle", "generate", "create", "swap", "audit"}]
      /\ req \in [Workers -> Rotations] /\ rows \in Seq(Row) /\ base \in Nat
      /\ now \in Nat
  BY Numbers, Zenon DEF TypeOK, Rotations, StoreInv
<1>1. UNCHANGED <<clock, asked, now, back>>
  BY RotationScope, Zenon DEF clock
<1>2. ASSUME NEW v \in Workers \ {w}
      PROVE  pc'[v] = pc[v] /\ req'[v] = req[v]
  BY <1>0, Zenon DEF RotateStep, ReceiveRotate, Generate, Create, AuditRotate, Rotate, Finish, Goto
<1>3. CASE ReceiveRotate(w)
  <2>1. pc'[w] = "generate" /\ UNCHANGED <<rows, live>>
    BY <1>0, <1>3, Zenon DEF ReceiveRotate, Goto, responder
  <2>2. CASE \A v \in Workers : pc[v] = "idle"
    <3>. SUFFICES ASSUME back' = 0
                  PROVE  OrderInv'
      BY Zenon DEF OrderInv
    <3>1. base' = Len(rows) /\ acked' = None
      BY <1>3, <2>2, Zenon DEF ReceiveRotate
    <3>2. \A v \in Workers : pc'[v] # "create"
      BY <1>2, <2>1, <2>2, Zenon
    <3>3. Dated'
      BY <1>1, <2>1, <3>2, Zenon DEF OrderInv, Dated
    <3>4. \A j \in DOMAIN rows : ~(base' < j)
      <4>1. DOMAIN rows = 1..Len(rows) /\ Len(rows) \in Nat
        BY <1>0
      <4>2. QED
        BY <3>1, <4>1
    <3>5. Ordered'
      BY <2>1, <3>2, <3>4, Zenon DEF Ordered, Newer
    <3>6. QED
      BY <3>1, <3>3, <3>5, Zenon DEF OrderInv, InUse
  <2>3. CASE ~\A v \in Workers : pc[v] = "idle"
    <3>1. UNCHANGED <<base, acked>>
      BY <1>3, <2>3, Zenon DEF ReceiveRotate
    <3>2. QED
      BY <1>1, <1>2, <2>1, <3>1, QuietOrder, Zenon
  <2>4. QED
    BY <2>2, <2>3, Zenon
<1>4. ASSUME NEW r \in Outcome, Generate(w, r)
      PROVE  OrderInv'
  <2>1. UNCHANGED <<rows, base, acked, live>>
    BY <1>4, Zenon DEF Generate, history, responder
  <2>2. pc'[w] = "idle" \/ (pc'[w] = "create" /\ req'[w].at = now)
    <3>1. CASE Finish(w)
      BY <1>0, <3>1, Zenon DEF Finish, Goto
    <3>2. CASE \E i \in Unused : req' = [req EXCEPT ![w].id = i, ![w].at = now] /\ Goto(w, "create")
      BY <1>0, <3>2 DEF Goto, Rotations
    <3>3. QED
      BY <1>4, <3>1, <3>2, Zenon DEF Generate
  <2>3. CASE pc'[w] = "idle"
    BY <1>1, <1>2, <2>1, <2>3, QuietOrder, Zenon
  <2>4. CASE pc'[w] = "create" /\ req'[w].at = now
    <3>. SUFFICES ASSUME back' = 0
                  PROVE  OrderInv'
      BY Zenon DEF OrderInv
    <3>1. Dated /\ Ordered /\ InUse
      BY <1>1, Zenon DEF OrderInv
    <3>2. now <= now
      BY <1>0
    <3>3. Dated'
      BY <1>1, <1>2, <2>1, <2>4, <3>1, <3>2, Zenon DEF Dated
    <3>4. ASSUME NEW i \in DOMAIN rows, Older(i), NEW v \in Workers, pc'[v] = "create"
          PROVE  rows[i].at <= req'[v].at
      <4>1. CASE v = w
        BY <2>4, <3>1, <4>1, Zenon DEF Dated
      <4>2. CASE v # w
        BY <1>2, <3>1, <3>4, <4>2, Zenon DEF Ordered
      <4>3. QED
        BY <4>1, <4>2, Zenon
    <3>5. Ordered'
      BY <2>1, <3>1, <3>4, Zenon DEF Ordered, Older, Newer
    <3>6. QED
      BY <2>1, <3>1, <3>3, <3>5, SameBatch, Zenon DEF OrderInv, InUse
  <2>5. QED
    BY <2>2, <2>3, <2>4, Zenon
<1>5. ASSUME NEW r \in Outcome, Create(w, r)
      PROVE  OrderInv'
  <2>. DEFINE row == [id |-> req[w].id, at |-> req[w].at, ref |-> req[w].ref]
  <2>1. Rotating(w) /\ pc[w] = "create"
    BY <1>5, Zenon DEF Create, StoreInv
  <2>2. row \in Row /\ row.at = req[w].at
    BY <2>1, Zenon DEF Row, OwnRow, Rotating
  <2>3. rows' = IF r = "lost" THEN rows ELSE Append(rows, row)
    BY <1>5, Zenon DEF Create
  <2>. HIDE DEF row
  <2>4. UNCHANGED <<base, acked, live>> /\ pc'[w] # "create"
    BY <1>0, <1>5, Zenon DEF Create, Finish, Goto, history, responder
  <2>5. CASE rows' = rows
    BY <1>1, <1>2, <2>4, <2>5, QuietOrder, Zenon
  <2>6. CASE rows' = Append(rows, row)
    <3>1. back = 0 => row.at <= now
      BY <2>1, <2>2, Zenon DEF OrderInv, Dated
    <3>2. back = 0 => \A i \in DOMAIN rows : Older(i) => rows[i].at <= row.at
      BY <2>1, <2>2, Zenon DEF OrderInv, Ordered
    <3>3. Batch \subseteq Batch'
      BY <1>0, <2>2, <2>4, <2>6, BatchGrows, Zenon DEF BatchInv
    <3>4. QED
      BY <1>1, <1>2, <2>2, <2>4, <2>6, <3>1, <3>2, <3>3, AddedOrder, Zenon
  <2>7. QED
    BY <2>3, <2>5, <2>6, Zenon
<1>6. ASSUME NEW r \in Outcome, AuditRotate(w, r)
      PROVE  OrderInv'
  <2>. SUFFICES ASSUME back' = 0
                PROVE  OrderInv'
    BY Zenon DEF OrderInv
  <2>1. pc[w] = "audit" /\ pc'[w] = "idle" /\ UNCHANGED <<rows, base, live>>
    BY <1>0, <1>6, Zenon DEF AuditRotate, Finish, Goto, responder
  <2>2. live \in Batch /\ Batch' = Batch
    BY <2>1, SameBatch, Zenon DEF BatchInv, Flight
  <2>3. Dated /\ Ordered
    BY <1>1, Zenon DEF OrderInv
  <2>4. Dated' /\ Ordered'
    BY <1>1, <1>2, <2>1, <2>3, Zenon DEF Dated, Ordered, Older, Newer
  <2>5. QED
    BY <2>1, <2>2, <2>4, Zenon DEF OrderInv, InUse
<1>7. CASE Rotate(w)
  <2>1. /\ pc[w] = "swap" /\ pc'[w] = "audit" /\ live' = req[w].id
        /\ UNCHANGED <<rows, base, acked>>
    BY <1>0, <1>7, Zenon DEF Rotate, Goto, history
  <2>2. InUse'
    BY <2>1, SameBatch, Zenon DEF BatchInv, Flight, InUse
  <2>3. QED
    BY <1>1, <1>2, <2>1, <2>2, QuietOrder, Zenon
<1>8. QED
  BY <1>3, <1>4, <1>5, <1>6, <1>7, Zenon DEF RotateStep

LEMMA NextOrder ==
  ASSUME Bounded, StoreInv, BatchInv, OrderInv, BatchInv', [Next]_vars
  PROVE  OrderInv'
<1>1. ASSUME UNCHANGED <<clock, rotation, live, asked>>
      PROVE  OrderInv'
  BY <1>1, QuietOrder, Zenon DEF rotation, history
<1>2. ASSUME NEW s \in Stampers, Respond(s)
      PROVE  OrderInv'
  BY <1>1, <1>2, StampScope, Zenon
<1>3. CASE UNCHANGED vars
  BY <1>1, <1>3, Zenon DEF vars, responder
<1>4. QED
  BY <1>2, <1>3, TickOrder, RotateOrder, IssueOrder, RestartOrder, Zenon DEF Next

-----------------------------------------------------------------------------
LEMMA NextInv ==
  ASSUME TsaInv, [Next]_vars
  PROVE  TsaInv'
<1>. USE DEF TsaInv
<1>1. Bounded
  BY Zenon DEF TimesInv, Bounded
<1>2. TypeOK'
  <2>1. CASE UNCHANGED vars
    BY <2>1, Zenon DEF TypeOK, vars, clock, rotation, history, responder
  <2>2. CASE Next
    BY <1>1, <2>2, ClockTyped, StampTyped, RotateTyped, IssueTyped, RestartTyped, Zenon
       DEF Next, Bounded
  <2>3. QED
    BY <2>1, <2>2, Zenon
<1>3. TimesInv' /\ StoreInv'
  BY <1>1, NextTimes, NextStore, Zenon
<1>4. BatchInv' /\ OrderInv'
  BY <1>1, NextBatch, NextOrder, Zenon
<1>5. QED
  BY <1>2, <1>3, <1>4, Zenon

LEMMA Kept == Spec => []TsaInv
<1>1. Init => TsaInv
  BY InitTyped, InitTimes, InitStore, InitBatch, InitOrder, Zenon DEF TsaInv, Bounded
<1>2. TsaInv /\ [Next]_vars => TsaInv'
  BY NextInv, Zenon
<1>3. QED
  BY <1>1, <1>2, PTL DEF Spec

(* Later snapshots have later genTimes: no two tokens of one incarnation   *)
(* share a second or go back in time, however requests and the clock fall. *)
THEOREM GenTimesAlwaysIncrease == Spec => []GenTimesIncrease
<1>1. TsaInv => GenTimesIncrease
  BY Zenon DEF TsaInv, TimesInv, Snaps, InOrder, GenTimesIncrease
<1>2. QED
  BY <1>1, Kept, PTL

(* The guard that makes them increase runs ahead of the clock by no more   *)
(* than one second for each snapshot drawn.                                *)
THEOREM DriftStaysBounded == Spec => []DriftBounded
<1>1. TsaInv => DriftBounded
  BY Zenon DEF TsaInv, TimesInv, Snaps, Drawn, DriftBounded
<1>2. QED
  BY <1>1, Kept, PTL

(* Every row with a key reference has its own key and every signer is      *)
(* stored: the certificate is persisted before the swap, and no key is     *)
(* replaced.  A start fails only on a client's row.                        *)
THEOREM SignersStored == Spec => []SignerStored
<1>1. TsaInv => SignerStored
  BY Zenon DEF TsaInv, StoreInv, Down, Keyed, Snaps, Ids, SignerStored
<1>2. QED
  BY <1>1, Kept, PTL

(* A rotation answered 200 survives a restart while the clock is not set   *)
(* back: of rotations that overlap one is loaded, and an older identity is *)
(* never, not even when a client's row makes the start fail.               *)
THEOREM RotationsRestartSafe == Spec => []RestartSafe
<1>1. ASSUME TsaInv
      PROVE  RestartSafe
  <2>1. back = 0 /\ acked # None => Loadable \in Batch \cup {None}
    BY <1>1, BatchLoaded, Zenon DEF TsaInv, BatchInv, Acked
  <2>2. QED
    BY <1>1, <2>1, Zenon DEF TsaInv, BatchInv, Acked, OrderInv, InUse, RestartSafe
<1>2. QED
  BY <1>1, Kept, PTL
=============================================================================
