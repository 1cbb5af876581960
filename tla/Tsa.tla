-------------------------------- MODULE Tsa ---------------------------------
(***************************************************************************)
(* The time-stamping authority of one replica: Responder signs tokens with *)
(* strictly increasing genTimes, POST /v1/tsa/rotate mints a new signing   *)
(* identity and swaps it in, POST /v1/certificates issues under the        *)
(* profile tsa like under any other, and a restart loads the newest row of *)
(* the profile (internal/tsa/responder.go, internal/tsa/issue.go,          *)
(* internal/api/tsa.go, internal/api/certificates.go,                      *)
(* internal/keystore/ref.go and LoadTSAIssuer).  The key pair and the      *)
(* certificate of one IssueIdentity call share a name, an identity.  Times *)
(* are in seconds, the precision of both genTime and created_at.           *)
(***************************************************************************)
EXTENDS Naturals, Sequences, FiniteSets

CONSTANTS
  Workers,     \* rotation requests in flight
  Stampers,    \* time-stamp requests in flight
  Clients,     \* clients that ask once for a certificate under profile tsa
  Identities,  \* TSA identities that may be minted
  First,       \* the identity bootstrap minted
  Refs,        \* the keystore references FreshRef draws from
  FirstRef,    \* bootstrap's fixed reference
  None,        \* no value
  FaultPoints, \* the calls that may fail
  MaxFaults,   \* bound: failed calls per behaviour
  MaxTime,     \* bound: the clock
  MaxBack,     \* bound: how often the clock is set back
  MaxTokens,   \* bound: tokens, and genTimes one incarnation draws
  MaxBoots,    \* bound: restarts
  MaxEvents    \* bound: failures, restarts, set-backs, client requests in all

ASSUME TsaAssumption ==
  /\ First \in Identities /\ None \notin Identities
  /\ FirstRef \notin Refs /\ None \notin Refs /\ None # FirstRef
  /\ {MaxFaults, MaxTime, MaxBack, MaxTokens, MaxBoots} \subseteq Nat
  /\ MaxTime >= 1

VARIABLES
  now,      \* the wall clock
  back,     \* how often it was set back
  peak,     \* history: the latest time it showed
  rows,     \* the tsa rows of table certificates, in insertion order
  keys,     \* the keystore: the identity whose key is under each reference
  live,     \* Responder.issuer, None when the last start failed
  lastGen,  \* Responder.lastGenTime, 0 for the zero time
  boot,     \* how often the process was restarted
  drawn,    \* snapshots this incarnation took
  tokens,   \* history: the tokens issued
  audit,    \* the tsa-rotate entries of table audit_log
  pc, req,  \* where each rotation stands and its local variables
  stamp,    \* per time-stamp request: the snapshot it signs with, if any
  asked,    \* per client: None before it asks, when it asked, 0 afterwards
  base,     \* history: the rows there were when a rotation last arrived alone
  acked,    \* history: the last rotation answered 200 since then
  overlap,  \* history: another one arrived while it was under way
  faults    \* how many faults happened

responder == <<live, lastGen, drawn>>
history == <<base, acked, overlap>>
rotation == <<rows, keys, audit, pc, req, history, faults>>
clock == <<now, back, peak>>
vars == <<clock, rotation, responder, boot, tokens, stamp, asked>>

(* The row of a client's certificate has none of the TSA's identities and  *)
(* an empty KeyRef.                                                        *)
OwnRow == [id: Identities, at: 1..MaxTime, ref: Refs \cup {FirstRef}]
ClientRow == [id: {None}, at: 1..MaxTime, ref: {None}]
Row == OwnRow \cup ClientRow

NoRotation == [prev |-> None, ref |-> None, id |-> None, at |-> 0]

Init ==
  /\ now = 1 /\ back = 0 /\ peak = 1
  /\ rows = << [id |-> First, at |-> 1, ref |-> FirstRef] >>
  /\ keys = [k \in Refs \cup {FirstRef} |-> IF k = FirstRef THEN First ELSE None]
  /\ live = First /\ lastGen = 0 /\ drawn = 0
  /\ boot = 0
  /\ tokens = {}
  /\ audit = {}
  /\ pc = [w \in Workers |-> "idle"]
  /\ req = [w \in Workers |-> NoRotation]
  /\ stamp = [s \in Stampers |-> None]
  /\ asked = [c \in Clients |-> None]
  /\ base = 1 /\ acked = None /\ overlap = FALSE
  /\ faults = 0

(* What counts against MaxEvents. *)
Events == back + boot + faults + Cardinality({c \in Clients : asked[c] # None})

-----------------------------------------------------------------------------
(* The clock goes on, or is set back. *)
Tick ==
  /\ now < MaxTime
  /\ now' = now + 1
  /\ peak' = IF now' > peak THEN now' ELSE peak
  /\ UNCHANGED <<back, rotation, responder, boot, tokens, stamp, asked>>

SetBack ==
  /\ back < MaxBack
  /\ Events < MaxEvents
  /\ now > 1
  /\ now' = now - 1
  /\ back' = back + 1
  /\ UNCHANGED <<peak, rotation, responder, boot, tokens, stamp, asked>>

-----------------------------------------------------------------------------
(* The genTime snapshot draws: the clock's second, or one second after the *)
(* last one drawn when the clock is not past it.                           *)
GenTimeNotBefore ==
  IF now >= lastGen THEN now ELSE lastGen + 1

GenTimeTwoSeconds ==
  IF now > lastGen THEN now ELSE lastGen + 2

GenTime ==
  IF now > lastGen THEN now ELSE lastGen + 1

(* A request that does not parse, or with a SHA-1 imprint, draws nothing. *)
Refuse(s) ==
  /\ live # None
  /\ stamp[s] = None
  /\ UNCHANGED vars

(* snapshot: the issuer and the next genTime under one lock. *)
Snapshot(s) ==
  /\ live # None
  /\ stamp[s] = None
  /\ drawn < MaxTokens
  /\ Cardinality(tokens) < MaxTokens
  /\ lastGen' = GenTime
  /\ drawn' = drawn + 1
  /\ stamp' = [stamp EXCEPT ![s] = [boot |-> boot, n |-> drawn', gen |-> lastGen',
                                    by |-> live]]
  /\ UNCHANGED <<clock, rotation, live, boot, tokens, asked>>

(* Respond signs the snapshot, or fails to. *)
Sign(s, ok) ==
  /\ stamp[s] # None
  /\ tokens' = IF ok THEN tokens \cup {stamp[s]} ELSE tokens
  /\ stamp' = [stamp EXCEPT ![s] = None]
  /\ UNCHANGED <<clock, rotation, responder, boot, asked>>

-----------------------------------------------------------------------------
(* A call of rotation w ends with outcome r: it takes effect and says so,  *)
(* it does not, or it takes effect and reports an error.                   *)
Outcome == {"ok", "lost", "ghost"}

Call(w, r) ==
  IF r = "ok" THEN faults' = faults
  ELSE /\ pc[w] \in FaultPoints
       /\ faults < MaxFaults
       /\ Events < MaxEvents
       /\ faults' = faults + 1

Goto(w, p) == pc' = [pc EXCEPT ![w] = p]

Finish(w) ==
  /\ Goto(w, "idle")
  /\ req' = [req EXCEPT ![w] = NoRotation]

(* handleRotateTSA reads the issuer in use, then FreshRef draws references *)
(* until one is unused.                                                    *)
ReceiveRotate(w) ==
  /\ live # None
  /\ pc[w] = "idle"
  /\ \E k \in Refs :
       /\ keys[k] = None
       /\ req' = [req EXCEPT ![w] = [NoRotation EXCEPT !.prev = live, !.ref = k]]
  /\ Goto(w, "generate")
  /\ IF \A v \in Workers : pc[v] = "idle"
     THEN base' = Len(rows) /\ acked' = None /\ overlap' = FALSE
     ELSE overlap' = TRUE /\ UNCHANGED <<base, acked>>
  /\ UNCHANGED <<clock, rows, keys, audit, faults, responder, boot, tokens, stamp, asked>>

(* The identities no rotation made or is making. *)
Unused ==
  Identities \ ( {keys[k] : k \in Refs \cup {FirstRef}}
                 \cup {rows[i].id : i \in DOMAIN rows}
                 \cup {req[w].id : w \in Workers} )

(* IssueIdentity generates the key, which the keystore refuses to do over  *)
(* an existing one, then reads the clock.                                  *)
GenerateAnyway(w, r) ==
  /\ pc[w] = "generate"
  /\ Call(w, r)
  /\ \E i \in Unused :
       /\ keys' = IF r = "lost" THEN keys ELSE [keys EXCEPT ![req[w].ref] = i]
       /\ IF r = "ok" THEN /\ req' = [req EXCEPT ![w].id = i, ![w].at = now]
                           /\ Goto(w, "create")
          ELSE Finish(w)
  /\ UNCHANGED <<clock, rows, audit, history, responder, boot, tokens, stamp, asked>>

Generate(w, r) ==
  /\ pc[w] = "generate"
  /\ Call(w, r)
  /\ IF keys[req[w].ref] # None THEN Finish(w) /\ UNCHANGED keys
     ELSE \E i \in Unused :
            /\ keys' = IF r = "lost" THEN keys ELSE [keys EXCEPT ![req[w].ref] = i]
            /\ IF r = "ok" THEN /\ req' = [req EXCEPT ![w].id = i, ![w].at = now]
                                /\ Goto(w, "create")
               ELSE Finish(w)
  /\ UNCHANGED <<clock, rows, audit, history, responder, boot, tokens, stamp, asked>>

(* ... and persists the certificate. *)
Create(w, r) ==
  /\ pc[w] = "create"
  /\ Call(w, r)
  /\ rows' = IF r = "lost" THEN rows
             ELSE Append(rows, [id |-> req[w].id, at |-> req[w].at, ref |-> req[w].ref])
  /\ IF r = "ok" THEN Goto(w, "swap") /\ UNCHANGED req ELSE Finish(w)
  /\ UNCHANGED <<clock, keys, audit, history, responder, boot, tokens, stamp, asked>>

(* Responder.Rotate. *)
Rotate(w) ==
  /\ pc[w] = "swap"
  /\ live' = req[w].id
  /\ Goto(w, "audit")
  /\ UNCHANGED <<req, clock, rows, keys, audit, history, faults, lastGen, drawn, boot,
                 tokens, stamp, asked>>

(* The audit entry; its failure answers 500 with the new identity in use. *)
AuditRotate(w, r) ==
  /\ pc[w] = "audit"
  /\ Call(w, r)
  /\ audit' = IF r = "lost" THEN audit
              ELSE audit \cup {[target |-> req[w].id, prev |-> req[w].prev]}
  /\ acked' = IF r = "ok" THEN req[w].id ELSE acked
  /\ Finish(w)
  /\ UNCHANGED <<clock, rows, keys, base, overlap, responder, boot, tokens, stamp, asked>>

-----------------------------------------------------------------------------
(* handleIssueCertificate looks up the profile and reads the clock ... *)
ReceiveIssue(c) ==
  /\ live # None
  /\ asked[c] = None
  /\ Events < MaxEvents
  /\ asked' = [asked EXCEPT ![c] = now]
  /\ UNCHANGED <<clock, rotation, responder, boot, tokens, stamp>>

(* ... and issueLeafCertificate stores the row, without a KeyRef, or fails. *)
IssueLeaf(c, stored) ==
  /\ asked[c] \notin {None, 0}
  /\ rows' = IF stored THEN Append(rows, [id |-> None, at |-> asked[c], ref |-> None])
             ELSE rows
  /\ asked' = [asked EXCEPT ![c] = 0]
  /\ UNCHANGED <<clock, keys, audit, pc, req, history, faults, responder, boot, tokens, stamp>>

-----------------------------------------------------------------------------
(* GetLatestByProfile, over every row of the profile: created_at, then the *)
(* insertion order.                                                        *)
NewestByClock ==
  rows[CHOOSE i \in DOMAIN rows : \A j \in DOMAIN rows : rows[j].at <= rows[i].at]

Newest ==
  rows[CHOOSE i \in DOMAIN rows :
         \A j \in DOMAIN rows \ {i} :
           \/ rows[j].at < rows[i].at
           \/ rows[j].at = rows[i].at /\ j < i]

(* What LoadTSAIssuer returns: the newest row with its key, or an error    *)
(* when the keystore has no key under the row's reference.                 *)
Loadable ==
  IF Newest.ref = None THEN None
  ELSE IF keys[Newest.ref] = None THEN None
  ELSE Newest.id

(* The process ends at any point, with the requests it serves, and starts  *)
(* again; it exits when it cannot load the TSA's identity.  The genTime    *)
(* guard starts from nothing.                                              *)
Restart ==
  /\ boot < MaxBoots
  /\ Events < MaxEvents
  /\ boot' = boot + 1
  /\ live' = Loadable
  /\ lastGen' = 0 /\ drawn' = 0
  /\ pc' = [w \in Workers |-> "idle"]
  /\ req' = [w \in Workers |-> NoRotation]
  /\ stamp' = [s \in Stampers |-> None]
  /\ asked' = [c \in Clients |-> IF asked[c] = None THEN None ELSE 0]
  /\ UNCHANGED <<clock, rows, keys, audit, history, faults, tokens>>

RotateStep(w) ==
  \/ ReceiveRotate(w)
  \/ \E r \in Outcome : Generate(w, r) \/ Create(w, r) \/ AuditRotate(w, r)
  \/ Rotate(w)

Respond(s) ==
  \/ Refuse(s)
  \/ Snapshot(s)
  \/ \E ok \in BOOLEAN : Sign(s, ok)

Issue(c) ==
  \/ ReceiveIssue(c)
  \/ \E stored \in BOOLEAN : IssueLeaf(c, stored)

Next ==
  \/ Tick
  \/ SetBack
  \/ \E w \in Workers : RotateStep(w)
  \/ \E s \in Stampers : Respond(s)
  \/ \E c \in Clients : Issue(c)
  \/ Restart

Spec == Init /\ [][Next]_vars

-----------------------------------------------------------------------------
Token == [boot: 0..MaxBoots, n: 1..MaxTokens, gen: 1..(MaxTime + MaxTokens),
          by: Identities]

TypeOK ==
  /\ now \in 1..MaxTime /\ back \in 0..MaxBack /\ peak \in now..MaxTime
  /\ \A i \in DOMAIN rows : rows[i] \in Row
  /\ keys \in [Refs \cup {FirstRef} -> Identities \cup {None}]
  /\ live \in Identities \cup {None} /\ lastGen \in 0..(MaxTime + MaxTokens)
  /\ drawn \in 0..MaxTokens /\ boot \in 0..MaxBoots
  /\ tokens \subseteq Token
  /\ audit \subseteq [target: Identities, prev: Identities]
  /\ pc \in [Workers -> {"idle", "generate", "create", "swap", "audit"}]
  /\ req \in [Workers -> [prev: Identities \cup {None}, ref: Refs \cup {None},
                          id: Identities \cup {None}, at: 0..MaxTime]]
  /\ stamp \in [Stampers -> Token \cup {None}]
  /\ asked \in [Clients -> 0..MaxTime \cup {None}]
  /\ base \in Nat /\ acked \in Identities \cup {None} /\ overlap \in BOOLEAN
  /\ faults \in 0..MaxFaults

(* Of two tokens of one incarnation, the one whose snapshot was drawn      *)
(* later has the later genTime (in whole seconds), however fast requests   *)
(* come, in whatever order they are signed, and when the clock goes back.  *)
GenTimesIncrease ==
  \A t, u \in tokens : t.boot = u.boot /\ t.n < u.n => t.gen < u.gen

(* The guard never runs further ahead of the clock than it has to: the     *)
(* n-th genTime of an incarnation is at most n - 1 seconds past the latest *)
(* time the clock showed.                                                  *)
DriftBounded ==
  \A t \in tokens : t.gen <= peak + t.n - 1

(* A row with a key reference can be loaded with its own key, and the      *)
(* identity in use, like every one that signed a token, is in the store: a *)
(* token's certificate can be fetched by serial, whatever failed.  A start *)
(* fails to load an identity only when the newest row is a client's.       *)
SignerStored ==
  /\ \A i \in DOMAIN rows : rows[i].ref # None => keys[rows[i].ref] = rows[i].id
  /\ ({live} \cup {t.by : t \in tokens}) \ {None} \subseteq {rows[i].id : i \in DOMAIN rows}
  /\ live = None => Newest.ref = None

(* The identities stored since a rotation last arrived with none under     *)
(* way.                                                                    *)
Batch == {rows[i].id : i \in {j \in DOMAIN rows : base < j}} \ {None}

(* A rotation that was answered 200 is the identity in use, and what a     *)
(* restart would load, until the next rotation arrives ("restart-safe (a   *)
(* later restart picks up the same identity)"), whatever failed before it. *)
(* Of rotations that overlap the one in use and the one a restart would    *)
(* load may differ, but both are of that batch.  None of this holds when   *)
(* the clock was set back, as created_at orders the rows; and when a       *)
(* client's certificate is the newest row the restart loads nothing,       *)
(* rather than an older identity.                                          *)
RestartSafe ==
  back = 0 /\ acked # None /\ (\A w \in Workers : pc[w] = "idle") =>
    /\ {live, Loadable} \subseteq Batch \cup {None}
    /\ ~overlap => Batch = {acked}
=============================================================================
