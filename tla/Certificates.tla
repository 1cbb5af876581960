---------------------------- MODULE Certificates ----------------------------
(***************************************************************************)
(* The certificate ledger and revocation: issuing leaf and client          *)
(* certificates, revoking them, mTLS authorization of the callers, and the *)
(* CRL that each replica caches (internal/api/certificates.go, clients.go, *)
(* auth.go, revocation.go, internal/revocation/crl.go, ocsp.go).           *)
(* Replicas share the store; each has its own CRLBuilder with a mutex.     *)
(* Every store call of a handler is a step and ends "ok", "lost" (failed   *)
(* without effect) or "ghost" (took effect, the answer was lost).          *)
(***************************************************************************)
EXTENDS Naturals, FiniteSets

CONSTANTS
  Workers,      \* request slots
  Replicas,     \* trustmated processes over the same store
  Serials,      \* serials of leaf certificates
  Admin,        \* the bootstrap administrator's certificate
  Manager,      \* a client certificate with the manager role
  Clients,      \* leaf certificates whose holders call the API
  Anchor,       \* the intermediate CA's certificate
  Routes,       \* the routes that are called: "revoke", "client", "leaf", "crl"
  Reasons,      \* revocation reasons the callers give
  CRLValidity,  \* in clock ticks
  None,         \* no value
  FaultPoints,  \* where faults may strike: store calls by their point, "crash"
  MaxFaults,    \* bound: how many faults a behaviour has
  MaxTime       \* bound: the last tick of the clock

Roles == {"admin", "manager"}

ASSUME CertificatesAssumption ==
  /\ {Admin, Manager} \subseteq Serials
  /\ Admin # Manager
  /\ Clients \subseteq Serials
  /\ Anchor \notin Serials
  /\ None \notin Workers \cup Serials \cup Roles \cup Reasons \cup Replicas \cup {Anchor}
  /\ CRLValidity \in Nat
  /\ MaxFaults \in Nat
  /\ MaxTime \in Nat

VARIABLES
  now,      \* the wall clock
  certs,    \* table certificates: status, reason; at is history: when revoked
  roles,    \* table client_roles
  audit,    \* table audit_log, as a set of <<action, serial>>
  crl,      \* per replica: the CRLBuilder's cached list and its expiry
  mutex,    \* per replica: the request inside CRLBuilder.CRL
  pc,       \* where each request stands
  req,      \* the local variables of its handler
  by,       \* history: the caller on whose behalf a certificate was issued
  acked,    \* history, per replica: revocations answered 200
  faults    \* how many faults happened

tables == <<certs, roles, audit>>
history == <<by, acked>>
vars == <<now, tables, crl, mutex, pc, req, history, faults>>

Known == Serials \cup {Anchor}

Cert == [status: {"absent", "good", "revoked"}, reason: Reasons \cup {"unspecified", None},
         at: Nat]

Cache == [cached: BOOLEAN, list: SUBSET Serials, expires: Nat]

(* cached = nil; the expiry is not read then. *)
NoCRL == [cached |-> FALSE, list |-> {}, expires |-> 0]

(* home: the replica that serves the request; late: the caller's           *)
(* certificate was revoked already when it arrived; did: the request       *)
(* revoked serial; at, found: when a CRL build began and what it lists.    *)
Request == [route: Routes \cup {None}, home: Replicas \cup {None},
            caller: Serials \cup {None}, late: BOOLEAN, role: Roles \cup {None},
            serial: Known \cup {None}, grant: Roles \cup {None},
            reason: Reasons \cup {None}, did: BOOLEAN, at: Nat, found: SUBSET Serials,
            reply: {"none", "forbidden", "notFound", "conflict", "error", "ok"}]

NoRequest == [route |-> None, home |-> None, caller |-> None, late |-> FALSE,
              role |-> None, serial |-> None, grant |-> None, reason |-> None,
              did |-> FALSE, at |-> 0, found |-> {}, reply |-> "none"]

Authorizing == {"role", "cert"}

Issuing == {"issue", "auditIssue", "assign", "undo", "auditUndo"}

Revoking == {"lookup", "revokeRead", "revokeUpdate", "auditRevoke", "invalidate"}

Points == {"idle", "lock", "find", "sign", "reply"} \cup Authorizing \cup Issuing \cup Revoking

(* After bootstrap and the onboarding of one manager. *)
Init ==
  /\ now = 0
  /\ certs = [s \in Known |->
                [status |-> IF s \in {Admin, Manager, Anchor} THEN "good" ELSE "absent",
                 reason |-> None, at |-> 0]]
  /\ roles = [s \in Serials |-> IF s = Admin THEN "admin"
                                ELSE IF s = Manager THEN "manager" ELSE None]
  /\ audit = {}
  /\ crl = [x \in Replicas |-> NoCRL]
  /\ mutex = [x \in Replicas |-> None]
  /\ pc = [w \in Workers |-> "idle"]
  /\ req = [w \in Workers |-> NoRequest]
  /\ by = [s \in Serials |-> None]
  /\ acked = [x \in Replicas |-> {}]
  /\ faults = 0

-----------------------------------------------------------------------------
(* Store calls and control flow. *)

Outcome == {"ok", "lost", "ghost"}

Call(w, r) ==
  /\ r # "ok" => pc[w] \in FaultPoints /\ faults < MaxFaults
  /\ faults' = IF r = "ok" THEN faults ELSE faults + 1
  /\ UNCHANGED now

Goto(w, p) == pc' = [pc EXCEPT ![w] = p]

Answer(w, a) ==
  /\ Goto(w, "reply")
  /\ req' = [req EXCEPT ![w].reply = a]

(* The next point after a call that went well, the 500 after a failure. *)
Continue(w, r, p) ==
  IF r = "ok" THEN Goto(w, p) /\ UNCHANGED req ELSE Answer(w, "error")

AppendAudit(w, r, action) ==
  audit' = IF r = "lost" THEN audit ELSE audit \cup {<<action, req[w].serial>>}

(* UPDATE certificates SET revoked_at WHERE serial = ? AND revoked_at IS   *)
(* NULL; at is the clock of the commit.                                    *)
RevokeRow(s, reason) ==
  certs' = IF certs[s].status = "good"
           THEN [certs EXCEPT ![s] = [status |-> "revoked", reason |-> reason, at |-> now]]
           ELSE certs

(* SELECT ... WHERE revoked_at IS NOT NULL. *)
Revoked == {s \in Known : certs[s].status = "revoked"}

(* INSERT INTO client_roles ... ON CONFLICT DO UPDATE. *)
Assign(s, role) == roles' = [roles EXCEPT ![s] = role]

roleSatisfies(actual, min) == actual = "admin" \/ actual = min

(* NewRouter: the role each protected route demands. *)
RequiredRoleManager(route) == "manager"

RequiredRole(route) == IF route = "client" THEN "admin" ELSE "manager"

(* What OCSPResponder.Respond reads from the row it looks up. *)
OCSPStatus(s) == IF certs[s].status = "absent" THEN "unknown" ELSE certs[s].status

-----------------------------------------------------------------------------
(* A request arrives at some replica.  The TLS layer only lets a caller in *)
(* with a certificate of this CA; requests the handlers reject for their   *)
(* shape alone (JSON, CSR, reason, role) change nothing and are left out.  *)
Receive(w, q, p) ==
  /\ pc[w] = "idle"
  /\ Goto(w, p)
  /\ \E x \in Replicas : req' = [req EXCEPT ![w] = [q EXCEPT !.home = x]]
  /\ UNCHANGED <<now, tables, crl, mutex, history, faults>>

Caller(route, c) ==
  [NoRequest EXCEPT !.route = route, !.caller = c, !.late = certs[c].status = "revoked"]

Callers == {c \in Clients : certs[c].status # "absent"}

ReceiveRevoke(w) ==
  /\ "revoke" \in Routes
  /\ \E c \in Callers, s \in Known, reason \in Reasons :
       Receive(w, [Caller("revoke", c) EXCEPT !.serial = s, !.reason = reason], "role")

(* Bound: a serial is left for every issuing request in flight. *)
SerialRoom ==
  Cardinality({w \in Workers : req[w].route \in {"client", "leaf"}})
    < Cardinality({s \in Serials : certs[s].status = "absent"})

(* POST /v1/clients, which grants a role, ... *)
ReceiveClient(w) ==
  /\ "client" \in Routes
  /\ SerialRoom
  /\ \E c \in Callers, g \in Roles :
       Receive(w, [Caller("client", c) EXCEPT !.grant = g], "role")

(* ... and POST /v1/certificates, which does not. *)
ReceiveLeaf(w) ==
  /\ "leaf" \in Routes
  /\ SerialRoom
  /\ \E c \in Callers : Receive(w, Caller("leaf", c), "role")

ReceiveCRL(w) ==
  /\ "crl" \in Routes
  /\ Receive(w, [NoRequest EXCEPT !.route = "crl"], "lock")

(* requireRole reads the role ... *)
ReadRole(w, r) ==
  /\ pc[w] = "role"
  /\ r # "ghost"
  /\ Call(w, r)
  /\ LET role == roles[req[w].caller]
     IN IF r = "ok" /\ role # None
        THEN Goto(w, "cert") /\ req' = [req EXCEPT ![w].role = role]
        ELSE Answer(w, IF r = "ok" THEN "forbidden" ELSE "error")
  /\ UNCHANGED <<tables, crl, mutex, history>>

(* ... then the certificate, and goes on to the handler. *)
ReadCertRoleOnly(w, r) ==
  /\ pc[w] = "cert"
  /\ r # "ghost"
  /\ Call(w, r)
  /\ IF roleSatisfies(req[w].role, RequiredRole(req[w].route))
     THEN Continue(w, r, IF req[w].route = "revoke" THEN "lookup" ELSE "issue")
     ELSE Answer(w, "forbidden")
  /\ UNCHANGED <<tables, crl, mutex, history>>

ReadCert(w, r) ==
  /\ pc[w] = "cert"
  /\ r # "ghost"
  /\ Call(w, r)
  /\ IF r = "ok" /\ ( \/ certs[req[w].caller].status = "revoked"
                      \/ ~roleSatisfies(req[w].role, RequiredRole(req[w].route)) )
     THEN Answer(w, "forbidden")
     ELSE Continue(w, r, IF req[w].route = "revoke" THEN "lookup" ELSE "issue")
  /\ UNCHANGED <<tables, crl, mutex, history>>

-----------------------------------------------------------------------------
(* issueLeafCertificate, for POST /v1/certificates and POST /v1/clients. *)
IssueLeaf(w, r) ==
  /\ pc[w] = "issue"
  /\ Call(w, r)
  /\ \E s \in Serials :
       /\ certs[s].status = "absent"
       /\ certs' = IF r = "lost" THEN certs ELSE [certs EXCEPT ![s].status = "good"]
       /\ by' = IF r = "lost" THEN by ELSE [by EXCEPT ![s] = req[w].caller]
       /\ IF r = "ok"
          THEN Goto(w, "auditIssue") /\ req' = [req EXCEPT ![w].serial = s]
          ELSE Answer(w, "error")
  /\ UNCHANGED <<roles, audit, crl, mutex, acked>>

AuditIssue(w, r) ==
  /\ pc[w] = "auditIssue"
  /\ Call(w, r)
  /\ AppendAudit(w, r, "issue")
  /\ IF r = "ok" /\ req[w].route = "leaf"
     THEN Answer(w, "ok")
     ELSE Continue(w, r, "assign")
  /\ UNCHANGED <<certs, roles, crl, mutex, history>>

(* assignRoleOrRevoke. *)
AssignRole(w, r) ==
  /\ pc[w] = "assign"
  /\ Call(w, r)
  /\ IF r = "lost" THEN UNCHANGED roles ELSE Assign(req[w].serial, req[w].grant)
  /\ IF r = "ok" THEN Answer(w, "ok") ELSE Goto(w, "undo") /\ UNCHANGED req
  /\ UNCHANGED <<certs, audit, crl, mutex, history>>

(* The compensating revoke.  Unlike the revoke route it leaves the cached  *)
(* CRL alone.  It may find the certificate revoked by someone else, which  *)
(* like its own failure is only logged.                                    *)
CompensatingRevoke(w, r) ==
  /\ pc[w] = "undo"
  /\ Call(w, r)
  /\ IF r = "lost" THEN UNCHANGED certs ELSE RevokeRow(req[w].serial, "unspecified")
  /\ IF r = "ok" /\ certs[req[w].serial].status = "good"
     THEN Goto(w, "auditUndo") /\ UNCHANGED req
     ELSE Answer(w, "error")
  /\ UNCHANGED <<roles, audit, crl, mutex, history>>

AuditUndo(w, r) ==
  /\ pc[w] = "auditUndo"
  /\ Call(w, r)
  /\ AppendAudit(w, r, "revoke")
  /\ Answer(w, "error")
  /\ UNCHANGED <<certs, roles, crl, mutex, history>>

-----------------------------------------------------------------------------
(* handleRevokeCertificate: only a leaf that exists can be revoked. *)
LookupAnyKind(w, r) ==
  /\ pc[w] = "lookup"
  /\ r # "ghost"
  /\ Call(w, r)
  /\ IF r = "ok" /\ certs[req[w].serial].status = "absent"
     THEN Answer(w, "notFound")
     ELSE Continue(w, r, "revokeRead")
  /\ UNCHANGED <<tables, crl, mutex, history>>

Lookup(w, r) ==
  /\ pc[w] = "lookup"
  /\ r # "ghost"
  /\ Call(w, r)
  /\ LET s == req[w].serial
     IN IF r = "ok" /\ (s = Anchor \/ certs[s].status = "absent")
        THEN Answer(w, IF s = Anchor THEN "conflict" ELSE "notFound")
        ELSE Continue(w, r, "revokeRead")
  /\ UNCHANGED <<tables, crl, mutex, history>>

(* certificateRepository.Revoke: the read that tells a repeated revoke ... *)
RevokeRead(w, r) ==
  /\ pc[w] = "revokeRead"
  /\ r # "ghost"
  /\ Call(w, r)
  /\ IF r = "ok" /\ certs[req[w].serial].status = "revoked"
     THEN Answer(w, "conflict")
     ELSE Continue(w, r, "revokeUpdate")
  /\ UNCHANGED <<tables, crl, mutex, history>>

(* ... and the conditional UPDATE that decides. *)
RevokeUpdateUncounted(w, r) ==
  /\ pc[w] = "revokeUpdate"
  /\ Call(w, r)
  /\ IF r = "lost" THEN UNCHANGED certs ELSE RevokeRow(req[w].serial, req[w].reason)
  /\ IF r = "ok" THEN /\ Goto(w, "auditRevoke")
                      /\ req' = [req EXCEPT ![w].did = TRUE]
     ELSE Answer(w, "error")
  /\ UNCHANGED <<roles, audit, crl, mutex, history>>

RevokeUpdate(w, r) ==
  /\ pc[w] = "revokeUpdate"
  /\ Call(w, r)
  /\ LET hit == r # "lost" /\ certs[req[w].serial].status = "good"
     IN /\ IF r = "lost" THEN UNCHANGED certs ELSE RevokeRow(req[w].serial, req[w].reason)
        /\ IF r = "ok" /\ hit
           THEN /\ Goto(w, "auditRevoke")
                /\ req' = [req EXCEPT ![w].did = TRUE]
           ELSE /\ Goto(w, "reply")
                /\ req' = [req EXCEPT ![w].did = hit,
                             ![w].reply = IF r = "ok" THEN "conflict" ELSE "error"]
  /\ UNCHANGED <<roles, audit, crl, mutex, history>>

(* A failed audit entry fails the request before the cache is dropped. *)
AuditRevoke(w, r) ==
  /\ pc[w] = "auditRevoke"
  /\ Call(w, r)
  /\ AppendAudit(w, r, "revoke")
  /\ Continue(w, r, "invalidate")
  /\ UNCHANGED <<certs, roles, crl, mutex, history>>

(* CRLBuilder.Invalidate waits for the mutex, then the 200 goes out. *)
InvalidateNoWait(w) ==
  /\ pc[w] = "invalidate"
  /\ crl' = [crl EXCEPT ![req[w].home] = NoCRL]
  /\ acked' = [acked EXCEPT ![req[w].home] = @ \cup {req[w].serial}]
  /\ Answer(w, "ok")
  /\ UNCHANGED <<now, tables, mutex, by, faults>>

Invalidate(w) ==
  /\ pc[w] = "invalidate"
  /\ mutex[req[w].home] = None
  /\ crl' = [crl EXCEPT ![req[w].home] = NoCRL]
  /\ acked' = [acked EXCEPT ![req[w].home] = @ \cup {req[w].serial}]
  /\ Answer(w, "ok")
  /\ UNCHANGED <<now, tables, mutex, by, faults>>

-----------------------------------------------------------------------------
(* CRLBuilder.CRL: take the mutex; serve the cache while it is fresh ... *)
FreshOffByOne(c) == c.cached /\ now <= c.expires

Fresh(c) == c.cached /\ now < c.expires

LockCRL(w) ==
  /\ pc[w] = "lock"
  /\ mutex[req[w].home] = None
  /\ IF Fresh(crl[req[w].home])
     THEN Answer(w, "ok") /\ UNCHANGED mutex
     ELSE /\ mutex' = [mutex EXCEPT ![req[w].home] = w]
          /\ Goto(w, "find")
          /\ req' = [req EXCEPT ![w].at = now]
  /\ UNCHANGED <<now, tables, crl, history, faults>>

(* ... or list what is revoked in the store now, less what this CA did not *)
(* issue: the intermediate's own certificate is the root's ...             *)
FindRevokedKeepsLock(w, r) ==
  /\ pc[w] = "find"
  /\ r # "ghost"
  /\ Call(w, r)
  /\ IF r = "ok"
     THEN /\ Goto(w, "sign")
          /\ req' = [req EXCEPT ![w].found = Revoked \ {Anchor}]
     ELSE Answer(w, "error")
  /\ UNCHANGED <<tables, crl, mutex, history>>

FindRevoked(w, r) ==
  /\ pc[w] = "find"
  /\ r # "ghost"
  /\ Call(w, r)
  /\ IF r = "ok"
     THEN /\ Goto(w, "sign")
          /\ req' = [req EXCEPT ![w].found = Revoked \ {Anchor}]
          /\ UNCHANGED mutex
     ELSE /\ Answer(w, "error")
          /\ mutex' = [mutex EXCEPT ![req[w].home] = None]
  /\ UNCHANGED <<tables, crl, history>>

(* ... sign and cache the list, and let go of the mutex; a serial that     *)
(* does not parse or a signature that fails leaves the cache as it was.    *)
SignCRL(w, r) ==
  /\ pc[w] = "sign"
  /\ r # "ghost"
  /\ Call(w, r)
  /\ IF r = "ok"
     THEN /\ crl' = [crl EXCEPT ![req[w].home] = [cached |-> TRUE, list |-> req[w].found,
                                               expires |-> req[w].at + CRLValidity]]
          /\ Answer(w, "ok")
     ELSE UNCHANGED crl /\ Answer(w, "error")
  /\ mutex' = [mutex EXCEPT ![req[w].home] = None]
  /\ UNCHANGED <<tables, history>>

Reply(w) ==
  /\ pc[w] = "reply"
  /\ Goto(w, "idle")
  /\ req' = [req EXCEPT ![w] = NoRequest]
  /\ UNCHANGED <<now, tables, crl, mutex, history, faults>>

(* A replica dies with the requests it serves and restarts without a CRL. *)
Crash(x) ==
  /\ "crash" \in FaultPoints
  /\ faults < MaxFaults
  /\ faults' = faults + 1
  /\ pc' = [w \in Workers |-> IF req[w].home = x THEN "idle" ELSE pc[w]]
  /\ req' = [w \in Workers |-> IF req[w].home = x THEN NoRequest ELSE req[w]]
  /\ crl' = [crl EXCEPT ![x] = NoCRL]
  /\ mutex' = [mutex EXCEPT ![x] = None]
  /\ UNCHANGED <<now, tables, history>>

Tick ==
  /\ now < MaxTime
  /\ now' = now + 1
  /\ UNCHANGED <<tables, crl, mutex, pc, req, history, faults>>

-----------------------------------------------------------------------------
Arrive(w) ==
  ReceiveRevoke(w) \/ ReceiveClient(w) \/ ReceiveLeaf(w) \/ ReceiveCRL(w)

StoreStep(w, r) ==
  \/ ReadRole(w, r)
  \/ ReadCert(w, r)
  \/ IssueLeaf(w, r)
  \/ AuditIssue(w, r)
  \/ AssignRole(w, r)
  \/ CompensatingRevoke(w, r)
  \/ AuditUndo(w, r)
  \/ Lookup(w, r)
  \/ RevokeRead(w, r)
  \/ RevokeUpdate(w, r)
  \/ AuditRevoke(w, r)
  \/ FindRevoked(w, r)
  \/ SignCRL(w, r)

Step(w) ==
  \/ Invalidate(w) \/ LockCRL(w) \/ Reply(w)
  \/ \E r \in Outcome : StoreStep(w, r)

Next ==
  \/ Tick
  \/ \E w \in Workers : Arrive(w) \/ Step(w)
  \/ \E x \in Replicas : Crash(x)

Spec == Init /\ [][Next]_vars

-----------------------------------------------------------------------------
TypeOK ==
  /\ now \in 0..MaxTime
  /\ certs \in [Known -> Cert]
  /\ roles \in [Serials -> Roles \cup {None}]
  /\ audit \in SUBSET ({"issue", "revoke"} \X Known)
  /\ crl \in [Replicas -> Cache]
  /\ mutex \in [Replicas -> Workers \cup {None}]
  /\ pc \in [Workers -> Points]
  /\ req \in [Workers -> Request]
  /\ by \in [Serials -> Serials \cup {None}]
  /\ acked \in [Replicas -> SUBSET Known]
  /\ faults \in 0..MaxFaults

(* What handleRevokeCertificate promises on its own replica: once it       *)
(* answers 200, no CRL without that certificate is left in the cache, not  *)
(* even one whose build had read the store before the revoke: Invalidate   *)
(* waits for the build.                                                    *)
AckedListed ==
  \A x \in Replicas : crl[x].cached => acked[x] \subseteq crl[x].list

(* The CRL mutex of a replica is taken exactly by the request that builds  *)
(* a CRL there: one at a time builds, and when it answers, with a list or  *)
(* with the error of the store, or dies with its replica, nobody is left   *)
(* waiting for a mutex without a holder.                                   *)
LockAccounted ==
  /\ \A x \in Replicas : mutex[x] # None => req[mutex[x]].home = x
  /\ \A w \in Workers :
       pc[w] \in {"find", "sign"} <=> \E x \in Replicas : mutex[x] = w

(* The bound design.md relies on when each replica caches on its own: a    *)
(* replica never serves a CRL that misses a revocation CRLValidity old,    *)
(* whoever revoked and whatever failed.                                    *)
StalenessBounded ==
  \A x \in Replicas, s \in Known :
    Fresh(crl[x]) /\ certs[s].status = "revoked" /\ certs[s].at + CRLValidity <= now
      => s \in crl[x].list

(* CRL and OCSP agree: what a cached CRL lists is a leaf that OCSP reports *)
(* as revoked; a CA certificate, which no CRL of its own would list, is    *)
(* never revoked by the route.                                             *)
CRLSound ==
  /\ \A x \in Replicas : \A s \in crl[x].list : OCSPStatus(s) = "revoked"
  /\ OCSPStatus(Anchor) = "good"

(* Of the requests that revoke one certificate, one at most gets through,  *)
(* and the 200 it answers tells the reason that is stored and audited.     *)
RevokeDecidedOnce ==
  \A w \in Workers : req[w].did =>
    /\ certs[req[w].serial].status = "revoked"
    /\ certs[req[w].serial].reason = req[w].reason
    /\ req[w].reply = "ok" => <<"revoke", req[w].serial>> \in audit
    /\ \A v \in Workers : v # w /\ req[v].did => req[v].serial # req[w].serial

(* A request that arrives when its caller's certificate is already revoked *)
(* never reaches a handler, whatever requireRole's two reads interleave    *)
(* with.                                                                   *)
NoLateAuthorization ==
  \A w \in Workers : req[w].late =>
    \/ pc[w] \in Authorizing
    \/ pc[w] = "reply" /\ req[w].reply \in {"forbidden", "error"}

(* Roles come from administrators: a certificate that carries a role,      *)
(* other than the initial ones, was issued for a caller with the admin     *)
(* role.                                                                   *)
NoEscalation ==
  \A s \in Serials \ {Admin, Manager} :
    roles[s] # None => by[s] \in Serials /\ roles[by[s]] = "admin"
=============================================================================
