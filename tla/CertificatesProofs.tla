------------------------- MODULE CertificatesProofs -------------------------
(***************************************************************************)
(* Proofs about Certificates, for any number of requests, replicas,        *)
(* serials, faults and crashes.  The invariant has a part about what a     *)
(* request knows at each point, one about the CRL of each replica (who     *)
(* holds its mutex, what the list being built and the cached list hold),   *)
(* and one about the rows that revocations and role grants decide.         *)
(* RequestSteps shows that every action of a request is a RequestStep; the *)
(* lemmas after it show that a RequestStep preserves the invariant, and    *)
(* each property that the runs check follows from it.                      *)
(***************************************************************************)
EXTENDS Certificates, TLAPS

(* The types the proofs need. *)
Typed ==
  /\ now \in Nat
  /\ certs \in [Known -> Cert]
  /\ roles \in [Serials -> Roles \cup {None}]
  /\ crl \in [Replicas -> Cache]
  /\ mutex \in [Replicas -> Workers \cup {None}]
  /\ pc \in [Workers -> Points]
  /\ req \in [Workers -> Request]
  /\ by \in [Serials -> Serials \cup {None}]
  /\ acked \in [Replicas -> SUBSET Known]

(* What request w knows at the point where it stands. *)
Local(w) ==
  /\ pc[w] = "idle" => req[w] = NoRequest
  /\ pc[w] # "idle" => req[w].home \in Replicas
  /\ pc[w] # "reply" => req[w].reply = "none"
  /\ pc[w] \in Authorizing \cup Issuing \cup Revoking => req[w].caller \in Serials
  /\ pc[w] \in Authorizing => req[w].route \in {"revoke", "client", "leaf"}
  /\ pc[w] \in Authorizing /\ req[w].route = "revoke" => req[w].serial \in Known
  /\ pc[w] = "lookup" => req[w].serial \in Known
  /\ pc[w] \in Revoking \ {"lookup"} => req[w].serial \in Serials
  /\ pc[w] \in Issuing => req[w].route \in {"client", "leaf"}
  /\ pc[w] \in Issuing \ {"issue"} => req[w].serial \in Serials

Sane == \A w \in Workers : Local(w)

Dead(s) == certs[s].status = "revoked"

(* What Invalidate is for: whatever list is cached, or is going to be, has *)
(* all that its replica acknowledged.                                      *)
Listed ==
  /\ \A x \in Replicas : \A s \in acked[x] : s \in Serials /\ Dead(s)
  /\ \A w \in Workers : pc[w] \in {"auditRevoke", "invalidate"} => Dead(req[w].serial)
  /\ \A x \in Replicas : crl[x].cached = TRUE => acked[x] \subseteq crl[x].list
  /\ \A w \in Workers : pc[w] = "sign" => acked[req[w].home] \subseteq req[w].found

(* A list has everything revoked before its build began. *)
Timely ==
  /\ \A w \in Workers : pc[w] \in {"find", "sign"} => req[w].at <= now
  /\ \A w \in Workers : pc[w] = "sign" =>
       \A s \in Known : Dead(s) /\ certs[s].at < req[w].at => s \in req[w].found
  /\ \A x \in Replicas : crl[x].cached = TRUE =>
       /\ crl[x].expires <= now + CRLValidity
       /\ \A s \in Known :
            Dead(s) /\ certs[s].at + CRLValidity < crl[x].expires => s \in crl[x].list

(* A list has nothing else, and the intermediate is on none. *)
Sound ==
  /\ certs[Anchor].status = "good"
  /\ \A w \in Workers : pc[w] = "sign" => \A s \in req[w].found : Dead(s)
  /\ \A x \in Replicas : \A s \in crl[x].list : Dead(s)

CRLInv == LockAccounted /\ Listed /\ Timely /\ Sound

(* The one request that revoked a certificate. *)
Decided ==
  \A w \in Workers : req[w].did = TRUE =>
    /\ pc[w] \in {"auditRevoke", "invalidate", "reply"}
    /\ req[w].serial \in Serials
    /\ Dead(req[w].serial)
    /\ certs[req[w].serial].reason = req[w].reason
    /\ pc[w] = "invalidate" \/ req[w].reply = "ok" => <<"revoke", req[w].serial>> \in audit
    /\ \A v \in Workers : v # w /\ req[v].did = TRUE => req[v].serial # req[w].serial

(* A request that was late is turned away by the second read. *)
Late ==
  \A w \in Workers : req[w].late = TRUE =>
    \/ pc[w] \in Authorizing /\ Dead(req[w].caller)
    \/ pc[w] = "reply" /\ req[w].reply \in {"forbidden", "error"}

(* A role is given once and stays, to a certificate that an administrator  *)
(* asked for.                                                              *)
Granted ==
  /\ \A s \in Serials : certs[s].status = "absent" => roles[s] = None
  /\ \A w \in Workers : pc[w] \in {"cert"} \cup Issuing =>
       roles[req[w].caller] = req[w].role /\ req[w].role # None
  /\ \A w \in Workers : pc[w] \in Issuing /\ req[w].route = "client" => req[w].role = "admin"
  /\ \A w \in Workers : pc[w] \in {"auditIssue", "assign"} =>
       /\ certs[req[w].serial].status # "absent"
       /\ roles[req[w].serial] = None
       /\ by[req[w].serial] = req[w].caller
       /\ \A v \in Workers : v # w /\ pc[v] \in {"auditIssue", "assign"} =>
            req[v].serial # req[w].serial
  /\ \A w \in Workers : pc[w] = "assign" => req[w].route = "client"
  /\ NoEscalation

DecisionInv == Decided /\ Late /\ Granted

-----------------------------------------------------------------------------
(* A step of request w leaves the other requests alone. *)
Others(w) ==
  /\ pc' \in [Workers -> Points] /\ req' \in [Workers -> Request]
  /\ \A v \in Workers \ {w} : pc'[v] = pc[v] /\ req'[v] = req[v]

(* The handler's variables but for its answer. *)
SameOwn(w) ==
  /\ req'[w].route = req[w].route /\ req'[w].home = req[w].home
  /\ req'[w].caller = req[w].caller /\ req'[w].late = req[w].late
  /\ req'[w].role = req[w].role /\ req'[w].serial = req[w].serial
  /\ req'[w].grant = req[w].grant /\ req'[w].reason = req[w].reason
  /\ req'[w].did = req[w].did /\ req'[w].at = req[w].at /\ req'[w].found = req[w].found

Replies == {"none", "forbidden", "notFound", "conflict", "error", "ok"}

(* One field of a request changes. *)
LEMMA FieldTyped ==
  ASSUME NEW q \in Request
  PROVE  /\ \A a \in Replies : [q EXCEPT !.reply = a] \in Request
         /\ \A r \in Roles \cup {None} : [q EXCEPT !.role = r] \in Request
         /\ \A s \in Known : [q EXCEPT !.serial = s] \in Request
         /\ \A d \in BOOLEAN : [q EXCEPT !.did = d] \in Request
         /\ \A n \in Nat : [q EXCEPT !.at = n] \in Request
         /\ \A F \in SUBSET Serials : [q EXCEPT !.found = F] \in Request
<1>1. ASSUME NEW a \in Replies PROVE [q EXCEPT !.reply = a] \in Request
  BY Zenon DEF Request, Replies
<1>2. ASSUME NEW r \in Roles \cup {None} PROVE [q EXCEPT !.role = r] \in Request
  BY Zenon DEF Request
<1>3. ASSUME NEW s \in Known PROVE [q EXCEPT !.serial = s] \in Request
  BY Zenon DEF Request
<1>4. ASSUME NEW d \in BOOLEAN PROVE [q EXCEPT !.did = d] \in Request
  BY Zenon DEF Request
<1>5. ASSUME NEW n \in Nat PROVE [q EXCEPT !.at = n] \in Request
  BY Zenon DEF Request
<1>6. ASSUME NEW F \in SUBSET Serials PROVE [q EXCEPT !.found = F] \in Request
  BY Zenon DEF Request
<1>7. QED
  BY <1>1, <1>2, <1>3, <1>4, <1>5, <1>6, Zenon

(* A step that gives w's variables the value q and takes w to point p. *)
LEMMA Update ==
  ASSUME Typed, NEW w \in Workers, NEW p \in Points, NEW q \in Request,
         pc' = [pc EXCEPT ![w] = p], req' = [req EXCEPT ![w] = q]
  PROVE  Others(w) /\ pc'[w] = p /\ req'[w] = q
BY Zenon DEF Typed, Others

LEMMA GotoStep ==
  ASSUME Typed, NEW w \in Workers, NEW p \in Points, Goto(w, p), UNCHANGED req
  PROVE  Others(w) /\ pc'[w] = p /\ SameOwn(w) /\ req'[w] = req[w]
<1>1. Others(w) /\ pc'[w] = p /\ req'[w] = req[w]
  BY Zenon DEF Typed, Others, Goto
<1>2. SameOwn(w)
  BY <1>1, Zenon DEF SameOwn
<1>3. QED
  BY <1>1, <1>2, Zenon

LEMMA AnswerStep ==
  ASSUME Typed, NEW w \in Workers, NEW a \in Replies, Answer(w, a)
  PROVE  Others(w) /\ pc'[w] = "reply" /\ SameOwn(w) /\ req'[w].reply = a
<1>. DEFINE q == [req[w] EXCEPT !.reply = a]
<1>1. req[w] \in Request /\ "reply" \in Points
  BY Zenon DEF Typed, Points
<1>2. q \in Request
  BY <1>1, FieldTyped, Zenon
<1>3. pc' = [pc EXCEPT ![w] = "reply"] /\ req' = [req EXCEPT ![w] = q]
  BY Zenon DEF Answer, Goto
<1>4. Others(w) /\ pc'[w] = "reply" /\ req'[w] = q
  BY Zenon, <1>1, <1>2, <1>3, Update
<1>5. SameOwn(w) /\ req'[w].reply = a
  BY <1>1, <1>4, Zenon DEF SameOwn, Request
<1>6. QED
  BY <1>4, <1>5, Zenon

-----------------------------------------------------------------------------
(* Rows are added good and are revoked for good, the intermediate's never. *)
CertStep ==
  /\ certs' \in [Known -> Cert]
  /\ \A s \in Known :
       \/ certs'[s] = certs[s]
       \/ s \in Serials /\ certs[s].status = "absent" /\ certs'[s].status = "good"
       \/ /\ s \in Serials /\ certs[s].status = "good" /\ Dead(s)'
          /\ certs'[s].at = now

(* What a step of w does to the CRLs and their mutexes: nothing, ... *)
Apart(w) ==
  /\ UNCHANGED <<crl, mutex, acked>>
  /\ pc[w] \notin {"find", "sign"} /\ pc'[w] \notin {"find", "sign"}
  /\ pc'[w] \in {"auditRevoke", "invalidate"} => certs'[req'[w].serial].status = "revoked"

(* ... Invalidate, ... *)
Invalidates(w) ==
  LET x == req[w].home
  IN /\ pc[w] = "invalidate" /\ pc'[w] = "reply"
     /\ x \in Replicas /\ mutex[x] = None
     /\ crl' = [crl EXCEPT ![x] = NoCRL]
     /\ acked' = [acked EXCEPT ![x] = @ \cup {req[w].serial}]
     /\ UNCHANGED <<certs, mutex>>

(* ... or a step of CRLBuilder.CRL. *)
Locks(w) ==
  LET x == req[w].home
  IN /\ pc[w] = "lock" /\ pc'[w] = "find"
     /\ x \in Replicas /\ mutex[x] = None
     /\ mutex' = [mutex EXCEPT ![x] = w]
     /\ req'[w].home = x /\ req'[w].at = now
     /\ UNCHANGED <<certs, crl, acked>>

Finds(w) ==
  /\ pc[w] = "find" /\ pc'[w] = "sign"
  /\ req'[w].home = req[w].home /\ req'[w].at = req[w].at
  /\ req'[w].found = Revoked \ {Anchor}
  /\ UNCHANGED <<certs, crl, mutex, acked>>

Caches(w) ==
  crl' = [crl EXCEPT ![req[w].home] = [cached |-> TRUE, list |-> req[w].found,
                                       expires |-> req[w].at + CRLValidity]]

Ends(w) ==
  LET x == req[w].home
  IN /\ x \in Replicas
     /\ pc'[w] = "reply"
     /\ mutex' = [mutex EXCEPT ![x] = None]
     /\ \/ pc[w] \in {"find", "sign"} /\ UNCHANGED crl
        \/ pc[w] = "sign" /\ Caches(w)
     /\ UNCHANGED <<certs, acked>>

CRLStep(w) == Apart(w) \/ Invalidates(w) \/ Locks(w) \/ Finds(w) \/ Ends(w)

(* The revocation that w may have decided. *)
DecideStep(w) ==
  /\ audit \subseteq audit'
  /\ \/ req'[w].did = FALSE
     \/ /\ req[w].did = TRUE
        /\ req'[w].serial = req[w].serial /\ req'[w].reason = req[w].reason
        /\ pc'[w] \in {"invalidate", "reply"}
        /\ pc'[w] = "invalidate" \/ req'[w].reply = "ok" => <<"revoke", req[w].serial>> \in audit'
     \/ /\ req[w].serial \in Serials
        /\ certs[req[w].serial].status = "good"
        /\ req'[w].serial = req[w].serial /\ req'[w].reason = req[w].reason
        /\ Dead(req[w].serial)' /\ certs'[req[w].serial].reason = req[w].reason
        /\ pc'[w] \in {"auditRevoke", "reply"}
        /\ req'[w].reply # "ok"

LateStep(w) ==
  \/ req'[w].late = FALSE
  \/ /\ pc'[w] \in Authorizing /\ req'[w].caller \in Serials
     /\ certs'[req'[w].caller].status = "revoked"
  \/ pc'[w] = "reply" /\ req'[w].reply \in {"forbidden", "error"}

(* Roles and their certificates: w reads its caller's role, goes on, ... *)
ReadsOn(w) ==
  /\ UNCHANGED <<roles, by>>
  /\ \/ pc'[w] \notin {"cert"} \cup Issuing
     \/ /\ pc[w] = "role" /\ pc'[w] = "cert"
        /\ req'[w].caller = req[w].caller
        /\ req'[w].role = roles[req[w].caller] /\ req'[w].role # None
     \/ /\ pc[w] = "cert" /\ pc'[w] = "issue"
        /\ SameOwn(w)
        /\ req[w].route = "client" => req[w].role = "admin"
     \/ /\ pc[w] = "auditIssue" /\ pc'[w] = "assign"
        /\ SameOwn(w) /\ req[w].route = "client"
     \/ /\ pc[w] \in Issuing /\ pc'[w] \in {"undo", "auditUndo"}
        /\ SameOwn(w)

(* ... signs a certificate, ... *)
Signs(w) ==
  /\ pc[w] = "issue"
  /\ UNCHANGED roles
  /\ \E s \in Serials :
       /\ certs[s].status = "absent"
       /\ by' = [by EXCEPT ![s] = req[w].caller]
       /\ certs'[s].status = "good"
       /\ \/ pc'[w] = "reply"
          \/ /\ pc'[w] = "auditIssue"
             /\ req'[w].serial = s
             /\ req'[w].caller = req[w].caller /\ req'[w].role = req[w].role
             /\ req'[w].route = req[w].route

(* ... or grants the role. *)
Grants(w) ==
  /\ pc[w] = "assign" /\ pc'[w] \in {"reply", "undo"}
  /\ SameOwn(w)
  /\ roles' = [roles EXCEPT ![req[w].serial] = req[w].grant]
  /\ UNCHANGED by

GrantStep(w) == ReadsOn(w) \/ Signs(w) \/ Grants(w)

RequestStep(w) ==
  /\ Others(w) /\ Local(w)' /\ CertStep
  /\ CRLStep(w) /\ DecideStep(w) /\ LateStep(w) /\ GrantStep(w)
  /\ now' = now

CertInv == Sane /\ CRLInv /\ DecisionInv

-----------------------------------------------------------------------------
(* Facts for the steps of a request. *)
LEMMA SameCerts ==
  ASSUME Typed, UNCHANGED certs
  PROVE  CertStep
BY Zenon DEF Typed, CertStep

LEMMA RevokeRowStep ==
  ASSUME Typed, NEW s \in Serials, NEW reason \in Reasons \cup {"unspecified", None},
         RevokeRow(s, reason)
  PROVE  /\ CertStep
         /\ certs[s].status = "good" =>
              certs'[s].status = "revoked" /\ certs'[s].reason = reason
<1>1. CASE certs[s].status = "good"
  <2>. DEFINE c == [status |-> "revoked", reason |-> reason, at |-> now]
  <2>1. certs' = [certs EXCEPT ![s] = c] /\ s \in Known /\ c \in Cert
    BY <1>1, Zenon DEF RevokeRow, Known, Cert, Typed
  <2>2. certs' \in [Known -> Cert] /\ certs'[s] = c /\ \A t \in Known \ {s} : certs'[t] = certs[t]
    BY <2>1, Zenon DEF Typed
  <2>3. QED
    BY <1>1, <2>2, SMTT(20) DEF CertStep, Dead
<1>2. CASE certs[s].status # "good"
  BY <1>2, SameCerts, Zenon DEF RevokeRow
<1>3. QED
  BY <1>1, <1>2, Zenon

LEMMA IssueRowStep ==
  ASSUME Typed, NEW s \in Serials, certs[s].status = "absent",
         certs' = [certs EXCEPT ![s].status = "good"]
  PROVE  CertStep /\ certs'[s].status = "good"
<1>. DEFINE c == [certs[s] EXCEPT !.status = "good"]
<1>1. certs' = [certs EXCEPT ![s] = c] /\ s \in Known /\ certs[s] \in Cert
  BY Zenon DEF Known, Typed
<1>2. c \in Cert /\ c.status = "good"
  BY <1>1, Zenon DEF Cert
<1>3. certs' \in [Known -> Cert] /\ certs'[s] = c /\ \A t \in Known \ {s} : certs'[t] = certs[t]
  BY <1>1, <1>2, Zenon DEF Typed
<1>4. QED
  BY <1>2, <1>3, Zenon DEF CertStep

LEMMA Flags ==
  ASSUME Typed, CertInv, NEW w \in Workers
  PROVE  /\ req[w].did \in BOOLEAN /\ req[w].late \in BOOLEAN
         /\ pc[w] \notin {"auditRevoke", "invalidate", "reply"} => req[w].did = FALSE
         /\ pc[w] \notin Authorizing \cup {"reply"} => req[w].late = FALSE
<1>1. req[w].did \in BOOLEAN /\ req[w].late \in BOOLEAN
  BY Zenon DEF Typed, Request
<1>2. pc[w] \notin {"auditRevoke", "invalidate", "reply"} => req[w].did # TRUE
  BY Zenon DEF CertInv, DecisionInv, Decided
<1>3. pc[w] \notin Authorizing \cup {"reply"} => req[w].late # TRUE
  BY Zenon DEF CertInv, DecisionInv, Late
<1>4. QED
  BY Zenon, <1>1, <1>2, <1>3

(* A request that is answered knows what it should, and takes part in no   *)
(* grant.                                                                  *)
LEMMA Replied ==
  ASSUME NEW w \in Workers, pc'[w] = "reply", req'[w].home \in Replicas
  PROVE  /\ Local(w)'
         /\ UNCHANGED <<roles, by>> => GrantStep(w)
<1>1. Local(w)'
  BY Zenon DEF Local, Authorizing, Issuing, Revoking
<1>2. ASSUME UNCHANGED <<roles, by>> PROVE ReadsOn(w)
  BY <1>2, Zenon DEF ReadsOn, Issuing
<1>3. QED
  BY Zenon, <1>1, <1>2 DEF GrantStep

LEMMA EndStep ==
  ASSUME Typed, CertInv, NEW w \in Workers, NEW a \in Replies, Answer(w, a),
         pc[w] \notin {"idle", "find", "sign"}, CertStep, audit \subseteq audit',
         UNCHANGED <<crl, mutex, acked, roles, by, now>>,
         a = "ok" => req[w].did = FALSE,
         a \notin {"forbidden", "error"} => req[w].late = FALSE
  PROVE  RequestStep(w)
<1>1. Others(w) /\ pc'[w] = "reply" /\ SameOwn(w) /\ req'[w].reply = a
  BY AnswerStep, Zenon
<1>2. req[w].home \in Replicas
  BY Zenon DEF CertInv, Sane, Local
<1>3. req'[w].home \in Replicas
  BY <1>1, <1>2, Zenon DEF SameOwn
<1>4. CRLStep(w)
  BY <1>1, Zenon DEF CRLStep, Apart
<1>5. DecideStep(w)
  BY <1>1, Flags, Zenon DEF DecideStep, SameOwn
<1>6. LateStep(w)
  BY <1>1, Zenon DEF LateStep, SameOwn
<1>7. Local(w)' /\ GrantStep(w)
  BY Zenon, <1>1, <1>3, Replied
<1>8. QED
  BY <1>1, <1>3, <1>4, <1>5, <1>6, <1>7, Zenon DEF RequestStep

(* A request goes on to point p of its handler. *)
LEMMA OnStep ==
  ASSUME Typed, CertInv, NEW w \in Workers,
         NEW p \in Issuing \cup {"lookup", "revokeRead", "revokeUpdate"},
         Others(w), SameOwn(w), pc'[w] = p, req'[w].reply = req[w].reply,
         pc[w] \in Authorizing \cup Issuing \cup {"lookup", "revokeRead"},
         CertStep, audit \subseteq audit', UNCHANGED <<crl, mutex, acked, now>>,
         p # "lookup" => req[w].serial \in Serials \/ p = "issue",
         p = "lookup" => req[w].serial \in Known,
         p \in Issuing => req[w].route \in {"client", "leaf"},
         req[w].late = FALSE, GrantStep(w)
  PROVE  RequestStep(w)
<1>1. /\ req[w].home \in Replicas /\ req[w].reply = "none" /\ req[w].caller \in Serials
  BY Zenon DEF CertInv, Sane, Local, Authorizing, Issuing, Revoking
<1>2. Local(w)'
  BY <1>1, Zenon DEF Local, SameOwn, Authorizing, Issuing, Revoking
<1>3. CRLStep(w)
  BY Zenon DEF CRLStep, Apart, Authorizing, Issuing
<1>4. DecideStep(w)
  <2>1. req[w].did = FALSE
    BY Zenon, Flags DEF Authorizing, Issuing
  <2>2. QED
    BY <2>1, Zenon DEF DecideStep, SameOwn
<1>5. LateStep(w)
  BY Zenon DEF LateStep, SameOwn
<1>6. QED
  BY <1>2, <1>3, <1>4, <1>5, Zenon DEF RequestStep

-----------------------------------------------------------------------------
(* requireRole *)
LEMMA ReadRoleStep ==
  ASSUME Typed, CertInv, NEW w \in Workers, NEW r \in Outcome, ReadRole(w, r)
  PROVE  RequestStep(w)
<1>. DEFINE role == roles[req[w].caller]
            q == [req[w] EXCEPT !.role = role]
<1>1. /\ pc[w] = "role" /\ UNCHANGED <<certs, roles, audit, crl, mutex, by, acked, now>>
  BY Zenon DEF ReadRole, Call, tables, history
<1>2. /\ req[w].home \in Replicas /\ req[w].reply = "none" /\ req[w].caller \in Serials
      /\ req[w].route \in {"revoke", "client", "leaf"}
      /\ req[w].route = "revoke" => req[w].serial \in Known
  BY <1>1, Zenon DEF CertInv, Sane, Local, Authorizing
<1>3. CASE r = "ok" /\ role # None
  <2>1. Goto(w, "cert") /\ req' = [req EXCEPT ![w].role = role]
    BY <1>3, Zenon DEF ReadRole
  <2>2. role \in Roles \cup {None} /\ req[w] \in Request /\ "cert" \in Points
    BY <1>2, Zenon DEF Typed, Points, Authorizing
  <2>3. q \in Request
    BY <2>2, FieldTyped, Zenon
  <2>4. pc' = [pc EXCEPT ![w] = "cert"] /\ req' = [req EXCEPT ![w] = q]
    BY <2>1, Zenon DEF Goto
  <2>5. Others(w) /\ pc'[w] = "cert" /\ req'[w] = q
    BY Zenon, <2>2, <2>3, <2>4, Update
  <2>6. /\ req'[w].route = req[w].route /\ req'[w].home = req[w].home
        /\ req'[w].caller = req[w].caller /\ req'[w].late = req[w].late
        /\ req'[w].serial = req[w].serial /\ req'[w].did = req[w].did
        /\ req'[w].reply = req[w].reply /\ req'[w].role = role
    BY <2>2, <2>5, Zenon DEF Request
  <2>. HIDE DEF q, role
  <2>7. Local(w)'
    BY <1>2, <2>5, <2>6, Zenon DEF Local, Authorizing, Issuing, Revoking
  <2>8. CRLStep(w)
    BY <1>1, <2>5, Zenon DEF CRLStep, Apart
  <2>9. DecideStep(w)
    BY Zenon, <1>1, <2>6, Flags DEF DecideStep
  <2>10. LateStep(w)
    <3>1. CASE req[w].late = TRUE
      <4>1. certs[req[w].caller].status = "revoked"
        BY <1>1, <3>1, Zenon DEF CertInv, DecisionInv, Late, Dead
      <4>2. QED
        BY <1>1, <1>2, <2>5, <2>6, <4>1, Zenon DEF LateStep, Authorizing
    <3>2. CASE req[w].late # TRUE
      BY Zenon, <2>6, <3>2, Flags DEF LateStep
    <3>3. QED
      BY Zenon, <3>1, <3>2
  <2>11. GrantStep(w)
    BY <1>1, <1>3, <2>5, <2>6, Zenon DEF GrantStep, ReadsOn, role
  <2>12. CertStep
    BY <1>1, SameCerts, Zenon
  <2>13. QED
    BY <1>1, <2>5, <2>7, <2>8, <2>9, <2>10, <2>11, <2>12, Zenon DEF RequestStep
<1>4. CASE ~(r = "ok" /\ role # None)
  <2>1. PICK a \in {"forbidden", "error"} : Answer(w, a)
    BY <1>4, Zenon DEF ReadRole
  <2>2. QED
    BY Zenon, <1>1, <2>1, SameCerts, EndStep DEF Replies
<1>5. QED
  BY <1>3, <1>4, Zenon

LEMMA ReadCertStep ==
  ASSUME Typed, CertInv, NEW w \in Workers, NEW r \in Outcome, ReadCert(w, r)
  PROVE  RequestStep(w)
<1>. DEFINE p == IF req[w].route = "revoke" THEN "lookup" ELSE "issue"
            no == r = "ok" /\ ( \/ certs[req[w].caller].status = "revoked"
                                \/ ~roleSatisfies(req[w].role, RequiredRole(req[w].route)) )
<1>1. /\ pc[w] = "cert" /\ UNCHANGED <<certs, roles, audit, crl, mutex, by, acked, now>>
  BY Zenon DEF ReadCert, Call, tables, history
<1>2. CASE no
  <2>1. Answer(w, "forbidden")
    BY <1>2, Zenon DEF ReadCert
  <2>2. QED
    BY Zenon, <1>1, <2>1, SameCerts, EndStep DEF Replies
<1>3. CASE ~no /\ r # "ok"
  <2>1. Answer(w, "error")
    BY <1>3, Zenon DEF ReadCert, Continue
  <2>2. QED
    BY Zenon, <1>1, <2>1, SameCerts, EndStep DEF Replies
<1>4. CASE ~no /\ r = "ok"
  <2>1. Goto(w, p) /\ UNCHANGED req
    BY <1>4, Zenon DEF ReadCert, Continue
  <2>2. p \in Points
    BY Zenon DEF Points, Issuing, Revoking
  <2>3. Others(w) /\ pc'[w] = p /\ SameOwn(w) /\ req'[w] = req[w]
    BY <2>1, <2>2, GotoStep, Zenon
  <2>4. /\ req[w].route \in {"revoke", "client", "leaf"}
        /\ req[w].route = "revoke" => req[w].serial \in Known
    BY <1>1, Zenon DEF CertInv, Sane, Local, Authorizing
  <2>5. certs[req[w].caller].status # "revoked"
    BY <1>4, Zenon
  <2>6. req[w].route = "client" => req[w].role = "admin"
    BY <1>4, Zenon DEF roleSatisfies, RequiredRole
  <2>7. req[w].late # TRUE
    BY Zenon, <1>1, <2>5 DEF CertInv, DecisionInv, Late, Dead
  <2>8. req[w].late = FALSE
    BY Zenon, <2>7, Flags
  <2>9. GrantStep(w)
    BY <1>1, <2>3, <2>6, Zenon DEF GrantStep, ReadsOn, Issuing
  <2>10. QED
    BY Zenon, <1>1, <2>3, <2>4, <2>8, <2>9, SameCerts, OnStep DEF Authorizing, Issuing
<1>5. QED
  BY <1>2, <1>3, <1>4, Zenon

-----------------------------------------------------------------------------
(* Issuing *)
LEMMA IssueLeafStep ==
  ASSUME Typed, CertInv, NEW w \in Workers, NEW r \in Outcome, IssueLeaf(w, r)
  PROVE  RequestStep(w)
<1>1. /\ pc[w] = "issue" /\ UNCHANGED <<roles, audit, crl, mutex, acked, now>>
  BY Zenon DEF IssueLeaf, Call
<1>2. PICK s \in Serials :
        /\ certs[s].status = "absent"
        /\ certs' = IF r = "lost" THEN certs ELSE [certs EXCEPT ![s].status = "good"]
        /\ by' = IF r = "lost" THEN by ELSE [by EXCEPT ![s] = req[w].caller]
        /\ IF r = "ok"
           THEN Goto(w, "auditIssue") /\ req' = [req EXCEPT ![w].serial = s]
           ELSE Answer(w, "error")
  BY Zenon DEF IssueLeaf
<1>3. /\ req[w].home \in Replicas /\ req[w].reply = "none" /\ req[w].caller \in Serials
      /\ req[w].route \in {"client", "leaf"}
  BY <1>1, Zenon DEF CertInv, Sane, Local, Issuing
<1>4. req[w].did = FALSE /\ req[w].late = FALSE
  BY Zenon, <1>1, Flags DEF Authorizing
<1>5. CASE r = "lost"
  <2>1. UNCHANGED <<certs, by>> /\ Answer(w, "error")
    BY <1>2, <1>5, Zenon
  <2>2. QED
    BY Zenon, <1>1, <2>1, SameCerts, EndStep DEF Replies
<1>6. CASE r # "lost"
  <2>1. /\ certs' = [certs EXCEPT ![s].status = "good"]
        /\ by' = [by EXCEPT ![s] = req[w].caller]
    BY <1>2, <1>6, Zenon
  <2>2. CertStep /\ certs'[s].status = "good"
    BY Zenon, <1>2, <2>1, IssueRowStep
  <2>3. CASE r # "ok"
    <3>1. Answer(w, "error") /\ "error" \in Replies
      BY <1>2, <2>3, Zenon DEF Replies
    <3>2. Others(w) /\ pc'[w] = "reply" /\ SameOwn(w) /\ req'[w].reply = "error"
      BY <3>1, AnswerStep, Zenon
    <3>3. Local(w)'
      BY <1>3, <3>2, Zenon DEF Local, SameOwn, Authorizing, Issuing, Revoking
    <3>4. CRLStep(w) /\ LateStep(w) /\ DecideStep(w)
      BY <1>1, <1>4, <3>2, Zenon DEF CRLStep, Apart, LateStep, DecideStep, SameOwn
    <3>5. GrantStep(w)
      BY Zenon, <1>1, <1>2, <2>1, <2>2, <3>2 DEF GrantStep, Signs
    <3>6. QED
      BY <1>1, <2>2, <3>2, <3>3, <3>4, <3>5, Zenon DEF RequestStep
  <2>4. CASE r = "ok"
    <3>. DEFINE q == [req[w] EXCEPT !.serial = s]
    <3>1. Goto(w, "auditIssue") /\ req' = [req EXCEPT ![w].serial = s]
      BY <1>2, <2>4, Zenon
    <3>2. req[w] \in Request /\ s \in Known /\ "auditIssue" \in Points
      BY Zenon DEF Typed, Known, Points, Issuing
    <3>3. q \in Request
      BY <3>2, FieldTyped, Zenon
    <3>4. pc' = [pc EXCEPT ![w] = "auditIssue"] /\ req' = [req EXCEPT ![w] = q]
      BY <3>1, Zenon DEF Goto
    <3>5. Others(w) /\ pc'[w] = "auditIssue" /\ req'[w] = q
      BY Zenon, <3>2, <3>3, <3>4, Update
    <3>6. /\ req'[w].route = req[w].route /\ req'[w].home = req[w].home
          /\ req'[w].caller = req[w].caller /\ req'[w].late = req[w].late
          /\ req'[w].serial = s /\ req'[w].did = req[w].did
          /\ req'[w].reply = req[w].reply /\ req'[w].role = req[w].role
      BY <3>2, <3>5, Zenon DEF Request
    <3>. HIDE DEF q
    <3>7. Local(w)'
      BY <1>3, <3>5, <3>6, Zenon DEF Local, Authorizing, Issuing, Revoking
    <3>8. CRLStep(w) /\ LateStep(w) /\ DecideStep(w)
      BY Zenon, <1>1, <1>4, <3>5, <3>6 DEF CRLStep, Apart, LateStep, DecideStep
    <3>9. GrantStep(w)
      BY Zenon, <1>1, <1>2, <2>1, <2>2, <3>5, <3>6 DEF GrantStep, Signs
    <3>10. QED
      BY <1>1, <2>2, <3>5, <3>7, <3>8, <3>9, Zenon DEF RequestStep
  <2>5. QED
    BY <2>3, <2>4, Zenon
<1>7. QED
  BY <1>5, <1>6, Zenon

LEMMA AuditIssueStep ==
  ASSUME Typed, CertInv, NEW w \in Workers, NEW r \in Outcome, AuditIssue(w, r)
  PROVE  RequestStep(w)
<1>1. /\ pc[w] = "auditIssue" /\ UNCHANGED <<certs, roles, crl, mutex, by, acked, now>>
      /\ audit \subseteq audit'
  BY Zenon DEF AuditIssue, Call, AppendAudit, history
<1>2. req[w].serial \in Serials /\ req[w].route \in {"client", "leaf"}
  BY <1>1, Zenon DEF CertInv, Sane, Local, Issuing
<1>3. req[w].did = FALSE /\ req[w].late = FALSE
  BY Zenon, <1>1, Flags DEF Authorizing
<1>4. CASE r = "ok" /\ req[w].route = "leaf"
  <2>1. Answer(w, "ok")
    BY <1>4, Zenon DEF AuditIssue
  <2>2. QED
    BY Zenon, <1>1, <1>3, <2>1, SameCerts, EndStep DEF Replies
<1>5. CASE r # "ok"
  <2>1. Answer(w, "error")
    BY <1>5, Zenon DEF AuditIssue, Continue
  <2>2. QED
    BY Zenon, <1>1, <2>1, SameCerts, EndStep DEF Replies
<1>6. CASE r = "ok" /\ req[w].route # "leaf"
  <2>1. Goto(w, "assign") /\ UNCHANGED req
    BY <1>6, Zenon DEF AuditIssue, Continue
  <2>2. Others(w) /\ pc'[w] = "assign" /\ SameOwn(w) /\ req'[w] = req[w]
    BY <2>1, GotoStep, Zenon DEF Points, Issuing
  <2>3. GrantStep(w)
    BY <1>1, <1>2, <1>6, <2>2, Zenon DEF GrantStep, ReadsOn
  <2>4. QED
    BY Zenon, <1>1, <1>2, <1>3, <2>2, <2>3, SameCerts, OnStep DEF Issuing
<1>7. QED
  BY <1>4, <1>5, <1>6, Zenon

LEMMA AssignRoleStep ==
  ASSUME Typed, CertInv, NEW w \in Workers, NEW r \in Outcome, AssignRole(w, r)
  PROVE  RequestStep(w)
<1>1. /\ pc[w] = "assign" /\ UNCHANGED <<certs, audit, crl, mutex, by, acked, now>>
  BY Zenon DEF AssignRole, Call, history
<1>2. /\ req[w].home \in Replicas
      /\ req[w].serial \in Serials /\ req[w].route \in {"client", "leaf"}
  BY <1>1, Zenon DEF CertInv, Sane, Local, Issuing
<1>3. req[w].did = FALSE /\ req[w].late = FALSE
  BY Zenon, <1>1, Flags DEF Authorizing
<1>4. CASE r = "ok"
  <2>1. Answer(w, "ok") /\ roles' = [roles EXCEPT ![req[w].serial] = req[w].grant]
    BY <1>4, Zenon DEF AssignRole, Assign
  <2>2. Others(w) /\ pc'[w] = "reply" /\ SameOwn(w)
    BY <2>1, AnswerStep, Zenon DEF Replies
  <2>3. Local(w)'
    BY <1>2, <2>2, Zenon DEF Local, SameOwn, Authorizing, Issuing, Revoking
  <2>4. CRLStep(w) /\ LateStep(w) /\ DecideStep(w)
    BY ZenonT(30), <1>1, <1>3, <2>2 DEF CRLStep, Apart, LateStep, DecideStep, SameOwn
  <2>5. GrantStep(w)
    BY <1>1, <2>1, <2>2, Zenon DEF GrantStep, Grants
  <2>6. QED
    BY <1>1, <2>2, <2>3, <2>4, <2>5, SameCerts, Zenon DEF RequestStep
<1>5. CASE r # "ok"
  <2>1. Goto(w, "undo") /\ UNCHANGED req
    BY <1>5, Zenon DEF AssignRole
  <2>2. Others(w) /\ pc'[w] = "undo" /\ SameOwn(w) /\ req'[w] = req[w]
    BY <2>1, GotoStep, Zenon DEF Points, Issuing
  <2>3. \/ UNCHANGED roles
        \/ roles' = [roles EXCEPT ![req[w].serial] = req[w].grant]
    BY Zenon DEF AssignRole, Assign
  <2>4. GrantStep(w)
    BY <1>1, <2>2, <2>3, Zenon DEF GrantStep, ReadsOn, Grants, Issuing
  <2>5. QED
    BY Zenon, <1>1, <1>2, <1>3, <2>2, <2>4, SameCerts, OnStep DEF Issuing
<1>6. QED
  BY <1>4, <1>5, Zenon

LEMMA CompensatingRevokeStep ==
  ASSUME Typed, CertInv, NEW w \in Workers, NEW r \in Outcome, CompensatingRevoke(w, r)
  PROVE  RequestStep(w)
<1>1. /\ pc[w] = "undo" /\ UNCHANGED <<roles, audit, crl, mutex, by, acked, now>>
  BY Zenon DEF CompensatingRevoke, Call, history
<1>2. req[w].serial \in Serials /\ req[w].route \in {"client", "leaf"}
  BY <1>1, Zenon DEF CertInv, Sane, Local, Issuing
<1>3. req[w].did = FALSE /\ req[w].late = FALSE
  BY Zenon, <1>1, Flags DEF Authorizing
<1>4. CertStep
  BY <1>2, SameCerts, RevokeRowStep, Zenon DEF CompensatingRevoke
<1>5. CASE r = "ok" /\ certs[req[w].serial].status = "good"
  <2>1. Goto(w, "auditUndo") /\ UNCHANGED req
    BY <1>5, Zenon DEF CompensatingRevoke
  <2>2. Others(w) /\ pc'[w] = "auditUndo" /\ SameOwn(w) /\ req'[w] = req[w]
    BY <2>1, GotoStep, Zenon DEF Points, Issuing
  <2>3. GrantStep(w)
    BY <1>1, <2>2, Zenon DEF GrantStep, ReadsOn, Issuing
  <2>4. QED
    BY Zenon, <1>1, <1>2, <1>3, <1>4, <2>2, <2>3, OnStep DEF Issuing
<1>6. CASE ~(r = "ok" /\ certs[req[w].serial].status = "good")
  <2>1. Answer(w, "error")
    BY <1>6, Zenon DEF CompensatingRevoke
  <2>2. QED
    BY Zenon, <1>1, <1>4, <2>1, EndStep DEF Replies
<1>7. QED
  BY SMTT(30), <1>5, <1>6

LEMMA AuditUndoStep ==
  ASSUME Typed, CertInv, NEW w \in Workers, NEW r \in Outcome, AuditUndo(w, r)
  PROVE  RequestStep(w)
<1>1. /\ pc[w] = "auditUndo" /\ UNCHANGED <<certs, roles, crl, mutex, by, acked, now>>
      /\ audit \subseteq audit' /\ Answer(w, "error")
  BY Zenon DEF AuditUndo, Call, AppendAudit, history
<1>2. QED
  BY Zenon, <1>1, SameCerts, EndStep DEF Replies

-----------------------------------------------------------------------------
(* handleRevokeCertificate *)
LEMMA LookupStep ==
  ASSUME Typed, CertInv, NEW w \in Workers, NEW r \in Outcome, Lookup(w, r)
  PROVE  RequestStep(w)
<1>. DEFINE s == req[w].serial
            no == r = "ok" /\ (s = Anchor \/ certs[s].status = "absent")
<1>1. /\ pc[w] = "lookup" /\ UNCHANGED <<certs, roles, audit, crl, mutex, by, acked, now>>
  BY Zenon DEF Lookup, Call, tables, history
<1>2. s \in Known
  BY <1>1, Zenon DEF CertInv, Sane, Local, Revoking
<1>3. req[w].did = FALSE /\ req[w].late = FALSE
  BY Zenon, <1>1, Flags DEF Authorizing
<1>4. CASE no
  <2>1. PICK a \in {"conflict", "notFound"} : Answer(w, a)
    BY <1>4, Zenon DEF Lookup
  <2>2. QED
    BY Zenon, <1>1, <1>3, <2>1, SameCerts, EndStep DEF Replies
<1>5. CASE ~no /\ r # "ok"
  <2>1. Answer(w, "error")
    BY <1>5, Zenon DEF Lookup, Continue
  <2>2. QED
    BY Zenon, <1>1, <2>1, SameCerts, EndStep DEF Replies
<1>6. CASE ~no /\ r = "ok"
  <2>1. Goto(w, "revokeRead") /\ UNCHANGED req
    BY <1>6, Zenon DEF Lookup, Continue
  <2>2. Others(w) /\ pc'[w] = "revokeRead" /\ SameOwn(w) /\ req'[w] = req[w]
    BY <2>1, GotoStep, Zenon DEF Points, Revoking
  <2>3. s \in Serials
    BY <1>2, <1>6, Zenon DEF Known
  <2>4. GrantStep(w)
    BY <1>1, <2>2, Zenon DEF GrantStep, ReadsOn, Issuing
  <2>5. QED
    BY Zenon, <1>1, <1>3, <2>2, <2>3, <2>4, SameCerts, OnStep DEF Issuing
<1>7. QED
  BY <1>4, <1>5, <1>6, Zenon

LEMMA RevokeReadStep ==
  ASSUME Typed, CertInv, NEW w \in Workers, NEW r \in Outcome, RevokeRead(w, r)
  PROVE  RequestStep(w)
<1>. DEFINE no == r = "ok" /\ certs[req[w].serial].status = "revoked"
<1>1. /\ pc[w] = "revokeRead" /\ UNCHANGED <<certs, roles, audit, crl, mutex, by, acked, now>>
  BY Zenon DEF RevokeRead, Call, tables, history
<1>2. req[w].serial \in Serials
  BY <1>1, Zenon DEF CertInv, Sane, Local, Revoking
<1>3. req[w].did = FALSE /\ req[w].late = FALSE
  BY Zenon, <1>1, Flags DEF Authorizing
<1>4. CASE no
  <2>1. Answer(w, "conflict")
    BY <1>4, Zenon DEF RevokeRead
  <2>2. QED
    BY Zenon, <1>1, <1>3, <2>1, SameCerts, EndStep DEF Replies
<1>5. CASE ~no /\ r # "ok"
  <2>1. Answer(w, "error")
    BY <1>5, Zenon DEF RevokeRead, Continue
  <2>2. QED
    BY Zenon, <1>1, <2>1, SameCerts, EndStep DEF Replies
<1>6. CASE ~no /\ r = "ok"
  <2>1. Goto(w, "revokeUpdate") /\ UNCHANGED req
    BY <1>6, Zenon DEF RevokeRead, Continue
  <2>2. Others(w) /\ pc'[w] = "revokeUpdate" /\ SameOwn(w) /\ req'[w] = req[w]
    BY <2>1, GotoStep, Zenon DEF Points, Revoking
  <2>3. GrantStep(w)
    BY <1>1, <2>2, Zenon DEF GrantStep, ReadsOn, Issuing
  <2>4. QED
    BY Zenon, <1>1, <1>2, <1>3, <2>2, <2>3, SameCerts, OnStep DEF Issuing
<1>7. QED
  BY <1>4, <1>5, <1>6, Zenon

LEMMA RevokeUpdateStep ==
  ASSUME Typed, CertInv, NEW w \in Workers, NEW r \in Outcome, RevokeUpdate(w, r)
  PROVE  RequestStep(w)
<1>. DEFINE s == req[w].serial
            hit == r # "lost" /\ certs[s].status = "good"
            a == IF r = "ok" THEN "conflict" ELSE "error"
<1>1. /\ pc[w] = "revokeUpdate" /\ UNCHANGED <<roles, audit, crl, mutex, by, acked, now>>
      /\ IF r = "lost" THEN UNCHANGED certs ELSE RevokeRow(s, req[w].reason)
  BY Zenon DEF RevokeUpdate, Call, history
<1>2. /\ req[w].home \in Replicas /\ req[w].reply = "none" /\ req[w].caller \in Serials
      /\ s \in Serials
  BY <1>1, Zenon DEF CertInv, Sane, Local, Revoking
<1>3. req[w].did = FALSE /\ req[w].late = FALSE
  BY ZenonT(30), <1>1, Flags DEF Authorizing
<1>4. req[w] \in Request /\ req[w].reason \in Reasons \cup {"unspecified", None}
  BY Zenon DEF Typed, Request
<1>5. CertStep /\ (hit => certs'[s].status = "revoked" /\ certs'[s].reason = req[w].reason)
  BY SMTT(30), <1>1, <1>2, <1>4, SameCerts, RevokeRowStep
<1>6. ASSUME NEW p \in {"auditRevoke", "reply"}, Others(w), pc'[w] = p,
             req'[w].route = req[w].route, req'[w].home = req[w].home,
             req'[w].caller = req[w].caller, req'[w].late = req[w].late,
             req'[w].serial = s, req'[w].reason = req[w].reason,
             req'[w].did = hit, req'[w].reply # "ok",
             p = "auditRevoke" => hit /\ req'[w].reply = "none"
      PROVE  RequestStep(w)
  <2>1. Local(w)'
    BY SMTT(30), <1>2, <1>6 DEF Local, Authorizing, Issuing, Revoking
  <2>2. CRLStep(w)
    BY <1>1, <1>5, <1>6, Zenon DEF CRLStep, Apart
  <2>3. DecideStep(w)
    <3>1. CASE hit
      BY <1>1, <1>2, <1>5, <1>6, <3>1, Zenon DEF DecideStep, Dead
    <3>2. CASE ~hit
      BY ZenonT(30), <1>1, <1>6, <3>2 DEF DecideStep
    <3>3. QED
      BY <3>1, <3>2, Zenon
  <2>4. LateStep(w)
    BY <1>3, <1>6, Zenon DEF LateStep
  <2>5. GrantStep(w)
    BY Zenon, <1>1, <1>6 DEF GrantStep, ReadsOn, Issuing
  <2>6. QED
    BY <1>1, <1>5, <1>6, <2>1, <2>2, <2>3, <2>4, <2>5, Zenon DEF RequestStep
<1>7. CASE r = "ok" /\ hit
  <2>. DEFINE q == [req[w] EXCEPT !.did = TRUE]
  <2>1. pc' = [pc EXCEPT ![w] = "auditRevoke"] /\ req' = [req EXCEPT ![w] = q]
    BY <1>7, Zenon DEF RevokeUpdate, Goto
  <2>2. q \in Request /\ "auditRevoke" \in Points
    BY Zenon, <1>4, FieldTyped DEF Points, Revoking
  <2>3. Others(w) /\ pc'[w] = "auditRevoke" /\ req'[w] = q
    BY Zenon, <2>1, <2>2, Update
  <2>4. /\ req'[w].route = req[w].route /\ req'[w].home = req[w].home
        /\ req'[w].caller = req[w].caller /\ req'[w].late = req[w].late
        /\ req'[w].serial = s /\ req'[w].reason = req[w].reason
        /\ req'[w].did = TRUE /\ req'[w].reply = req[w].reply
    BY <1>4, <2>3, Zenon DEF Request
  <2>5. req'[w].did = hit
    BY Zenon, <1>7, <2>4
  <2>6. QED
    BY Zenon, <1>2, <1>6, <1>7, <2>3, <2>4, <2>5
<1>8. CASE ~(r = "ok" /\ hit)
  <2>. DEFINE q1 == [req[w] EXCEPT !.did = hit]
              q == [q1 EXCEPT !.reply = a]
  <2>1. pc' = [pc EXCEPT ![w] = "reply"] /\ req' = [req EXCEPT ![w].did = hit, ![w].reply = a]
    BY <1>8, Zenon DEF RevokeUpdate, Goto
  <2>2. q1 \in Request /\ a \in Replies /\ "reply" \in Points
    BY Zenon, <1>4, FieldTyped DEF Points, Replies
  <2>3. q \in Request
    BY Zenon, <2>2, FieldTyped
  <2>4. req' = [req EXCEPT ![w] = q]
    BY Zenon, <2>1 DEF Typed
  <2>5. Others(w) /\ pc'[w] = "reply" /\ req'[w] = q
    <3>1. pc' = [pc EXCEPT ![w] = "reply"] /\ "reply" \in Points
      BY <2>1, <2>2, Zenon
    <3>. HIDE DEF q
    <3>2. QED
      BY Zenon, <2>3, <2>4, <3>1, Update
  <2>6. /\ q1.route = req[w].route /\ q1.home = req[w].home
        /\ q1.caller = req[w].caller /\ q1.late = req[w].late
        /\ q1.serial = s /\ q1.reason = req[w].reason /\ q1.did = hit
    BY <1>4, Zenon DEF Request
  <2>7. /\ q.route = q1.route /\ q.home = q1.home
        /\ q.caller = q1.caller /\ q.late = q1.late
        /\ q.serial = q1.serial /\ q.reason = q1.reason /\ q.did = q1.did /\ q.reply = a
    BY <2>2, Zenon DEF Request
  <2>8. a # "ok"
    BY Zenon
  <2>. HIDE DEF q1, q, a, hit
  <2>9. QED
    BY <1>6, <2>5, <2>6, <2>7, <2>8, Zenon
<1>9. QED
  BY <1>7, <1>8, Zenon

LEMMA AuditRevokeStep ==
  ASSUME Typed, CertInv, NEW w \in Workers, NEW r \in Outcome, AuditRevoke(w, r)
  PROVE  RequestStep(w)
<1>1. /\ pc[w] = "auditRevoke" /\ UNCHANGED <<certs, roles, crl, mutex, by, acked, now>>
      /\ audit \subseteq audit'
  BY Zenon DEF AuditRevoke, Call, AppendAudit, history
<1>2. /\ req[w].home \in Replicas /\ req[w].reply = "none" /\ req[w].caller \in Serials
      /\ req[w].serial \in Serials
  BY <1>1, Zenon DEF CertInv, Sane, Local, Revoking
<1>3. req[w].late = FALSE
  BY Zenon, <1>1, Flags DEF Authorizing
<1>4. CASE r # "ok"
  <2>1. Answer(w, "error")
    BY <1>4, Zenon DEF AuditRevoke, Continue
  <2>2. QED
    BY Zenon, <1>1, <2>1, SameCerts, EndStep DEF Replies
<1>5. CASE r = "ok"
  <2>1. Goto(w, "invalidate") /\ UNCHANGED req /\ <<"revoke", req[w].serial>> \in audit'
    BY <1>5, Zenon DEF AuditRevoke, Continue, AppendAudit
  <2>2. Others(w) /\ pc'[w] = "invalidate" /\ SameOwn(w) /\ req'[w] = req[w]
    BY <2>1, GotoStep, Zenon DEF Points, Revoking
  <2>3. Local(w)'
    BY <1>2, <2>2, Zenon DEF Local, Authorizing, Issuing, Revoking
  <2>4. certs[req[w].serial].status = "revoked"
    BY <1>1, Zenon DEF CertInv, CRLInv, Listed, Dead
  <2>5. CRLStep(w)
    BY SMTT(30), <1>1, <2>2, <2>4 DEF CRLStep, Apart
  <2>6. DecideStep(w)
    BY SMTT(30), <1>1, <2>1, <2>2, Flags DEF DecideStep
  <2>7. LateStep(w)
    BY <1>3, <2>2, Zenon DEF LateStep
  <2>8. GrantStep(w)
    BY <1>1, <2>2, Zenon DEF GrantStep, ReadsOn, Issuing
  <2>9. QED
    BY <1>1, <2>2, <2>3, <2>5, <2>6, <2>7, <2>8, SameCerts, Zenon DEF RequestStep
<1>6. QED
  BY <1>4, <1>5, Zenon

LEMMA InvalidateStep ==
  ASSUME Typed, CertInv, NEW w \in Workers, Invalidate(w)
  PROVE  RequestStep(w)
<1>1. /\ pc[w] = "invalidate" /\ UNCHANGED <<certs, roles, audit, mutex, by, now>>
      /\ Answer(w, "ok") /\ mutex[req[w].home] = None
      /\ crl' = [crl EXCEPT ![req[w].home] = NoCRL]
      /\ acked' = [acked EXCEPT ![req[w].home] = @ \cup {req[w].serial}]
  BY Zenon DEF Invalidate, tables
<1>2. req[w].home \in Replicas
  BY <1>1, Zenon DEF CertInv, Sane, Local
<1>3. req[w].late = FALSE
  BY ZenonT(30), <1>1, Flags DEF Authorizing
<1>4. Others(w) /\ pc'[w] = "reply" /\ SameOwn(w) /\ req'[w].reply = "ok"
  BY <1>1, AnswerStep, Zenon DEF Replies
<1>5. req'[w].home \in Replicas
  BY <1>2, <1>4, Zenon DEF SameOwn
<1>6. CRLStep(w)
  <2>1. Invalidates(w)
    BY <1>1, <1>2, <1>4, Zenon DEF Invalidates
  <2>2. QED
    BY Zenon, <2>1 DEF CRLStep
<1>7. req[w].did = TRUE => <<"revoke", req[w].serial>> \in audit
  BY <1>1, Zenon DEF CertInv, DecisionInv, Decided
<1>8. DecideStep(w)
  BY <1>1, <1>4, <1>7, Flags, Zenon DEF DecideStep, SameOwn
<1>9. LateStep(w)
  BY <1>3, <1>4, Zenon DEF LateStep, SameOwn
<1>10. Local(w)' /\ GrantStep(w)
  BY Zenon, <1>1, <1>4, <1>5, Replied
<1>11. QED
  BY ZenonT(30), <1>1, <1>4, <1>6, <1>8, <1>9, <1>10, SameCerts DEF RequestStep

-----------------------------------------------------------------------------
(* CRLBuilder.CRL *)
LEMMA LockCRLStep ==
  ASSUME Typed, CertInv, NEW w \in Workers, LockCRL(w)
  PROVE  RequestStep(w)
<1>1. /\ pc[w] = "lock" /\ UNCHANGED <<certs, roles, audit, crl, by, acked, now>>
      /\ mutex[req[w].home] = None
  BY Zenon DEF LockCRL, tables, history
<1>2. req[w].home \in Replicas /\ req[w].reply = "none"
  BY <1>1, Zenon DEF CertInv, Sane, Local
<1>3. req[w].did = FALSE /\ req[w].late = FALSE
  BY Zenon, <1>1, Flags DEF Authorizing
<1>4. CASE Fresh(crl[req[w].home])
  <2>1. Answer(w, "ok") /\ UNCHANGED mutex
    BY <1>4, Zenon DEF LockCRL
  <2>2. QED
    BY Zenon, <1>1, <1>3, <2>1, SameCerts, EndStep DEF Replies
<1>5. CASE ~Fresh(crl[req[w].home])
  <2>. DEFINE q == [req[w] EXCEPT !.at = now]
  <2>1. /\ mutex' = [mutex EXCEPT ![req[w].home] = w]
        /\ pc' = [pc EXCEPT ![w] = "find"] /\ req' = [req EXCEPT ![w] = q]
    BY <1>5, Zenon DEF LockCRL, Goto
  <2>2. req[w] \in Request /\ now \in Nat /\ "find" \in Points
    BY Zenon DEF Typed, Points
  <2>3. q \in Request
    BY <2>2, FieldTyped, Zenon
  <2>4. Others(w) /\ pc'[w] = "find" /\ req'[w] = q
    BY Zenon, <2>1, <2>2, <2>3, Update
  <2>5. /\ req'[w].home = req[w].home /\ req'[w].late = req[w].late
        /\ req'[w].did = req[w].did /\ req'[w].reply = req[w].reply
        /\ req'[w].at = now
    BY <2>2, <2>4, Zenon DEF Request
  <2>. HIDE DEF q
  <2>6. Local(w)'
    BY <1>2, <2>4, <2>5, Zenon DEF Local, Authorizing, Issuing, Revoking
  <2>7. CRLStep(w)
    BY <1>1, <1>2, <2>1, <2>4, <2>5, Zenon DEF CRLStep, Locks
  <2>8. DecideStep(w) /\ LateStep(w)
    BY <1>1, <1>3, <2>5, Zenon DEF DecideStep, LateStep
  <2>9. GrantStep(w)
    BY <1>1, <2>4, Zenon DEF GrantStep, ReadsOn, Issuing
  <2>10. QED
    BY <1>1, <2>4, <2>6, <2>7, <2>8, <2>9, SameCerts, Zenon DEF RequestStep
<1>6. QED
  BY <1>4, <1>5, Zenon

LEMMA FindRevokedStep ==
  ASSUME Typed, CertInv, NEW w \in Workers, NEW r \in Outcome, FindRevoked(w, r)
  PROVE  RequestStep(w)
<1>1. /\ pc[w] = "find" /\ UNCHANGED <<certs, roles, audit, crl, by, acked, now>>
  BY Zenon DEF FindRevoked, Call, tables, history
<1>2. req[w].home \in Replicas /\ req[w].reply = "none"
  BY <1>1, Zenon DEF CertInv, Sane, Local
<1>3. req[w].did = FALSE /\ req[w].late = FALSE
  BY ZenonT(30), <1>1, Flags DEF Authorizing
<1>4. CASE r = "ok"
  <2>. DEFINE F == Revoked \ {Anchor}
              q == [req[w] EXCEPT !.found = F]
  <2>1. /\ UNCHANGED mutex
        /\ pc' = [pc EXCEPT ![w] = "sign"] /\ req' = [req EXCEPT ![w] = q]
    BY <1>4, Zenon DEF FindRevoked, Goto
  <2>2. req[w] \in Request /\ F \in SUBSET Serials /\ "sign" \in Points
    BY Zenon DEF Typed, Points, Revoked, Known
  <2>3. q \in Request
    BY SMTT(30), <2>2, FieldTyped
  <2>4. Others(w) /\ pc'[w] = "sign" /\ req'[w] = q
    BY ZenonT(30), <2>1, <2>2, <2>3, Update
  <2>5. /\ req'[w].home = req[w].home /\ req'[w].late = req[w].late
        /\ req'[w].did = req[w].did /\ req'[w].reply = req[w].reply
        /\ req'[w].at = req[w].at /\ req'[w].found = F
    BY <2>2, <2>4, Zenon DEF Request
  <2>. HIDE DEF q
  <2>6. Local(w)'
    BY <1>2, <2>4, <2>5, Zenon DEF Local, Authorizing, Issuing, Revoking
  <2>7. CRLStep(w)
    <3>1. Finds(w)
      BY <1>1, <2>1, <2>4, <2>5, Zenon DEF Finds
    <3>2. QED
      BY ZenonT(30), <3>1 DEF CRLStep
  <2>8. DecideStep(w) /\ LateStep(w)
    BY ZenonT(30), <1>1, <1>3, <2>5 DEF DecideStep, LateStep
  <2>9. GrantStep(w)
    BY <1>1, <2>4, Zenon DEF GrantStep, ReadsOn, Issuing
  <2>10. QED
    BY <1>1, <2>4, <2>6, <2>7, <2>8, <2>9, SameCerts, Zenon DEF RequestStep
<1>5. CASE r # "ok"
  <2>1. Answer(w, "error") /\ mutex' = [mutex EXCEPT ![req[w].home] = None]
    BY SMTT(30), <1>5 DEF FindRevoked
  <2>2. Others(w) /\ pc'[w] = "reply" /\ SameOwn(w) /\ req'[w].reply = "error"
    BY <2>1, AnswerStep, Zenon DEF Replies
  <2>3. req'[w].home \in Replicas
    BY <1>2, <2>2, Zenon DEF SameOwn
  <2>4. CRLStep(w)
    <3>1. Ends(w)
      BY <1>1, <1>2, <2>1, <2>2, Zenon DEF Ends
    <3>2. QED
      BY ZenonT(30), <3>1 DEF CRLStep
  <2>5. DecideStep(w) /\ LateStep(w)
    <3>1. req'[w].did = FALSE /\ req'[w].late = FALSE
      BY Zenon, <1>3, <2>2 DEF SameOwn
    <3>2. QED
      BY Zenon, <1>1, <3>1 DEF DecideStep, LateStep
  <2>6. Local(w)' /\ GrantStep(w)
    BY Zenon, <1>1, <2>2, <2>3, Replied
  <2>7. QED
    BY Zenon, <1>1, <2>2, <2>4, <2>5, <2>6, SameCerts DEF RequestStep
<1>6. QED
  BY <1>4, <1>5, Zenon

LEMMA SignCRLStep ==
  ASSUME Typed, CertInv, NEW w \in Workers, NEW r \in Outcome, SignCRL(w, r)
  PROVE  RequestStep(w)
<1>1. /\ pc[w] = "sign" /\ UNCHANGED <<certs, roles, audit, by, acked, now>>
      /\ mutex' = [mutex EXCEPT ![req[w].home] = None]
      /\ UNCHANGED crl \/ Caches(w)
  BY Zenon DEF SignCRL, Call, Caches, tables, history
<1>a. PICK a \in {"ok", "error"} : Answer(w, a)
  BY Zenon DEF SignCRL
<1>2. req[w].home \in Replicas /\ req[w].reply = "none"
  BY <1>1, Zenon DEF CertInv, Sane, Local
<1>3. req[w].did = FALSE /\ req[w].late = FALSE
  BY ZenonT(30), <1>1, Flags DEF Authorizing
<1>4. Others(w) /\ pc'[w] = "reply" /\ SameOwn(w) /\ req'[w].reply = a
  BY <1>a, AnswerStep, Zenon DEF Replies
<1>5. req'[w].home \in Replicas
  BY <1>2, <1>4, Zenon DEF SameOwn
<1>6. CRLStep(w)
  <2>1. Ends(w)
    BY <1>1, <1>2, <1>4, Zenon DEF Ends
  <2>2. QED
    BY ZenonT(30), <2>1 DEF CRLStep
<1>7. DecideStep(w) /\ LateStep(w)
  <2>1. req'[w].did = FALSE /\ req'[w].late = FALSE
    BY Zenon, <1>3, <1>4 DEF SameOwn
  <2>2. QED
    BY Zenon, <1>1, <2>1 DEF DecideStep, LateStep
<1>8. Local(w)' /\ GrantStep(w)
  BY Zenon, <1>1, <1>4, <1>5, Replied
<1>9. QED
  BY ZenonT(30), <1>1, <1>4, <1>6, <1>7, <1>8, SameCerts DEF RequestStep

-----------------------------------------------------------------------------
(* The end and the beginning of a request. *)
LEMMA NoRequestTyped ==
  /\ NoRequest \in Request
  /\ NoRequest.did = FALSE /\ NoRequest.late = FALSE /\ NoRequest.reply = "none"
  /\ NoRequest.home = None
BY Zenon DEF NoRequest, Request

LEMMA ReplyStep ==
  ASSUME Typed, CertInv, NEW w \in Workers, Reply(w)
  PROVE  RequestStep(w)
<1>1. /\ pc[w] = "reply"
      /\ UNCHANGED <<certs, roles, audit, crl, mutex, by, acked, now>>
      /\ pc' = [pc EXCEPT ![w] = "idle"] /\ req' = [req EXCEPT ![w] = NoRequest]
  BY Zenon DEF Reply, Goto, tables, history
<1>2. Others(w) /\ pc'[w] = "idle" /\ req'[w] = NoRequest
  BY Zenon, <1>1, NoRequestTyped, Update DEF Points
<1>3. Local(w)'
  BY <1>2, NoRequestTyped, Zenon DEF Local, Authorizing, Issuing, Revoking
<1>4. CRLStep(w) /\ DecideStep(w) /\ LateStep(w) /\ GrantStep(w)
  <2>1. CRLStep(w) /\ GrantStep(w)
    BY Zenon, <1>1, <1>2 DEF CRLStep, Apart, GrantStep, ReadsOn, Issuing
  <2>2. DecideStep(w) /\ LateStep(w)
    BY ZenonT(30), <1>1, <1>2, NoRequestTyped DEF DecideStep, LateStep
  <2>3. QED
    BY <2>1, <2>2, Zenon
<1>5. QED
  BY <1>1, <1>2, <1>3, <1>4, SameCerts, Zenon DEF RequestStep

LEMMA ReceiveStep ==
  ASSUME Typed, CertInv, NEW w \in Workers, NEW q \in Request, NEW p \in {"role", "lock"},
         Receive(w, q, p),
         q.reply = "none", q.did = FALSE,
         p = "lock" => q.late = FALSE,
         p = "role" =>
           /\ q.caller \in Serials /\ q.route \in {"revoke", "client", "leaf"}
           /\ q.route = "revoke" => q.serial \in Known
           /\ q.late = TRUE => certs[q.caller].status = "revoked"
  PROVE  RequestStep(w)
<1>1. /\ pc[w] = "idle"
      /\ UNCHANGED <<certs, roles, audit, crl, mutex, by, acked, now>>
      /\ pc' = [pc EXCEPT ![w] = p]
  BY Zenon DEF Receive, Goto, tables, history
<1>2. PICK x \in Replicas : req' = [req EXCEPT ![w] = [q EXCEPT !.home = x]]
  BY Zenon DEF Receive
<1>. DEFINE u == [q EXCEPT !.home = x]
<1>3. u \in Request /\ p \in Points
  BY SMTT(20) DEF Request, Points, Authorizing
<1>4. /\ u.home = x /\ u.reply = q.reply /\ u.did = q.did /\ u.late = q.late
      /\ u.caller = q.caller /\ u.route = q.route /\ u.serial = q.serial
  BY Zenon DEF Request
<1>. HIDE DEF u
<1>5. Others(w) /\ pc'[w] = p /\ req'[w] = u
  <2>1. req' = [req EXCEPT ![w] = u]
    BY <1>2, Zenon DEF u
  <2>2. QED
    BY <1>1, <1>3, <2>1, Zenon DEF Typed, Others
<1>6. Local(w)'
  BY <1>4, <1>5, Zenon DEF Local, Authorizing, Issuing, Revoking
<1>7. CRLStep(w) /\ DecideStep(w) /\ GrantStep(w)
  BY Zenon, <1>1, <1>4, <1>5 DEF CRLStep, Apart, DecideStep, GrantStep, ReadsOn, Issuing
<1>8. q.late \in BOOLEAN
  BY Zenon DEF Request
<1>9. LateStep(w)
  <2>1. CASE q.late = TRUE
    BY <1>1, <1>4, <1>5, <2>1, Zenon DEF LateStep, Authorizing
  <2>2. CASE q.late = FALSE
    BY <1>4, <1>5, <2>2, Zenon DEF LateStep
  <2>3. QED
    BY Zenon, <1>8, <2>1, <2>2
<1>10. QED
  BY <1>1, <1>5, <1>6, <1>7, <1>9, SameCerts, Zenon DEF RequestStep

(* What a request that calls on behalf of client c looks like. *)
Plain(q) ==
  /\ q.did = FALSE /\ q.reply = "none"
  /\ q.late = TRUE => certs[q.caller].status = "revoked"

LEMMA CallerFacts ==
  ASSUME Typed, NEW route \in Routes, NEW c \in Callers
  PROVE  /\ Caller(route, c) \in Request
         /\ c \in Serials
         /\ Caller(route, c).route = route /\ Caller(route, c).caller = c
         /\ Plain(Caller(route, c))
<1>. DEFINE b == certs[c].status = "revoked"
            q1 == [NoRequest EXCEPT !.route = route]
            q2 == [q1 EXCEPT !.caller = c]
            q3 == [q2 EXCEPT !.late = b]
<1>1. c \in Serials /\ b \in BOOLEAN
  BY CertificatesAssumption, Zenon DEF Callers
<1>2. q1 \in Request /\ q1.route = route /\ q1.did = FALSE /\ q1.reply = "none"
  BY Zenon DEF NoRequest, Request
<1>3. /\ q2 \in Request /\ q2.route = q1.route /\ q2.caller = c
      /\ q2.did = q1.did /\ q2.reply = q1.reply
  <2>. HIDE DEF q1
  <2>1. QED
    BY <1>1, <1>2, Zenon DEF Request
<1>4. /\ q3 \in Request /\ q3.route = q2.route /\ q3.caller = q2.caller
      /\ q3.did = q2.did /\ q3.reply = q2.reply /\ q3.late = b
  <2>. HIDE DEF q1, q2, b
  <2>1. QED
    BY <1>1, <1>3, SMTT(20) DEF Request
<1>5. Caller(route, c) = q3
  BY Zenon DEF Caller
<1>6. q3.late = TRUE => certs[c].status = "revoked"
  BY Zenon, <1>4
<1>. HIDE DEF q1, q2, q3, b
<1>7. Plain(q3)
  BY <1>2, <1>3, <1>4, <1>6, Zenon DEF Plain
<1>8. QED
  BY <1>1, <1>2, <1>3, <1>4, <1>5, <1>7, Zenon

LEMMA ArriveStep ==
  ASSUME Typed, CertInv, NEW w \in Workers, Arrive(w)
  PROVE  RequestStep(w)
<1>1. CASE ReceiveRevoke(w)
  <2>1. PICK c \in Callers, s \in Known, reason \in Reasons :
          Receive(w, [Caller("revoke", c) EXCEPT !.serial = s, !.reason = reason], "role")
    BY Zenon, <1>1 DEF ReceiveRevoke
  <2>. DEFINE q == Caller("revoke", c)
              q1 == [q EXCEPT !.serial = s]
              q2 == [q1 EXCEPT !.reason = reason]
  <2>2. /\ q \in Request /\ c \in Serials /\ q.route = "revoke" /\ q.caller = c /\ Plain(q)
    <3>1. "revoke" \in Routes
      BY <1>1, Zenon DEF ReceiveRevoke
    <3>2. QED
      BY <3>1, CallerFacts, Zenon
  <2>. HIDE DEF q
  <2>3. /\ q1 \in Request /\ q1.route = q.route /\ q1.caller = q.caller /\ q1.serial = s
        /\ q1.did = q.did /\ q1.reply = q.reply /\ q1.late = q.late
    BY <2>2, Zenon DEF Request
  <2>. HIDE DEF q1
  <2>4. /\ q2 \in Request /\ q2.route = q1.route /\ q2.caller = q1.caller
        /\ q2.serial = q1.serial
        /\ q2.did = q1.did /\ q2.reply = q1.reply /\ q2.late = q1.late
    BY <2>3, Zenon DEF Request
  <2>5. Receive(w, q2, "role")
    BY <2>1, Zenon DEF q, q1
  <2>. HIDE DEF q2
  <2>6. QED
    BY Zenon, <2>2, <2>3, <2>4, <2>5, ReceiveStep DEF Plain
<1>2. CASE ReceiveClient(w)
  <2>1. PICK c \in Callers, g \in Roles :
          Receive(w, [Caller("client", c) EXCEPT !.grant = g], "role")
    BY <1>2, Zenon DEF ReceiveClient
  <2>. DEFINE q == Caller("client", c)
              q1 == [q EXCEPT !.grant = g]
  <2>2. /\ q \in Request /\ c \in Serials /\ q.route = "client" /\ q.caller = c /\ Plain(q)
    <3>1. "client" \in Routes
      BY <1>2, Zenon DEF ReceiveClient
    <3>2. QED
      BY <3>1, CallerFacts, Zenon
  <2>. HIDE DEF q
  <2>3. /\ q1 \in Request /\ q1.route = q.route /\ q1.caller = q.caller
        /\ q1.did = q.did /\ q1.reply = q.reply /\ q1.late = q.late
    BY <2>2, Zenon DEF Request
  <2>4. Receive(w, q1, "role")
    BY <2>1, Zenon DEF q
  <2>. HIDE DEF q1
  <2>5. QED
    BY Zenon, <2>2, <2>3, <2>4, ReceiveStep DEF Plain
<1>3. CASE ReceiveLeaf(w)
  <2>1. PICK c \in Callers : Receive(w, Caller("leaf", c), "role")
    BY <1>3, Zenon DEF ReceiveLeaf
  <2>. DEFINE q == Caller("leaf", c)
  <2>2. /\ q \in Request /\ c \in Serials /\ q.route = "leaf" /\ q.caller = c /\ Plain(q)
    <3>1. "leaf" \in Routes
      BY <1>3, Zenon DEF ReceiveLeaf
    <3>2. QED
      BY <3>1, CallerFacts, Zenon
  <2>3. Receive(w, q, "role")
    BY <2>1, Zenon
  <2>. HIDE DEF q
  <2>4. QED
    BY Zenon, <2>2, <2>3, ReceiveStep DEF Plain
<1>4. CASE ReceiveCRL(w)
  <2>. DEFINE q == [NoRequest EXCEPT !.route = "crl"]
  <2>1. Receive(w, q, "lock") /\ "crl" \in Routes
    BY <1>4, Zenon DEF ReceiveCRL
  <2>2. q \in Request /\ q.reply = "none" /\ q.did = FALSE /\ q.late = FALSE
    BY Zenon, <2>1 DEF NoRequest, Request
  <2>. HIDE DEF q
  <2>3. QED
    BY Zenon, <2>1, <2>2, ReceiveStep
<1>5. QED
  BY <1>1, <1>2, <1>3, <1>4, Zenon DEF Arrive

(* Every step of a request has that shape. *)
LEMMA RequestSteps ==
  ASSUME Typed, CertInv, NEW w \in Workers, Arrive(w) \/ Step(w)
  PROVE  RequestStep(w)
<1>1. ASSUME NEW r \in Outcome, StoreStep(w, r)
      PROVE  RequestStep(w)
  BY <1>1, ReadRoleStep, ReadCertStep, IssueLeafStep, AuditIssueStep, AssignRoleStep,
     CompensatingRevokeStep, AuditUndoStep, LookupStep, RevokeReadStep, RevokeUpdateStep,
     AuditRevokeStep, FindRevokedStep, SignCRLStep, Zenon DEF StoreStep
<1>2. QED
  BY <1>1, ArriveStep, InvalidateStep, LockCRLStep, ReplyStep, Zenon DEF Step

-----------------------------------------------------------------------------
(* What a RequestStep preserves: the types, what requests know, the parts  *)
(* of the invariant about CRLs and those about revocations that were       *)
(* decided and callers that were late.                                     *)

LEMMA TypedKept ==
  ASSUME Typed, CertInv, NEW w \in Workers, RequestStep(w)
  PROVE  Typed'
<1>1. now' \in Nat /\ certs' \in [Known -> Cert]
      /\ pc' \in [Workers -> Points] /\ req' \in [Workers -> Request]
  BY Zenon DEF RequestStep, Others, CertStep, Typed
<1>2. req[w] \in Request
  BY Zenon DEF Typed
<1>3. roles' \in [Serials -> Roles \cup {None}]
  <2>1. req[w].grant \in Roles \cup {None}
    BY <1>2, Zenon DEF Request
  <2>2. QED
    BY <2>1, Zenon DEF RequestStep, GrantStep, ReadsOn, Signs, Grants, Typed
<1>4. by' \in [Serials -> Serials \cup {None}]
  <2>1. req[w].caller \in Serials \cup {None}
    BY <1>2, Zenon DEF Request
  <2>2. QED
    BY <2>1, Zenon DEF RequestStep, GrantStep, ReadsOn, Signs, Grants, Typed
<1>5. mutex' \in [Replicas -> Workers \cup {None}]
  BY Zenon DEF RequestStep, CRLStep, Apart, Invalidates, Locks, Finds, Ends, Typed
<1>6. acked' \in [Replicas -> SUBSET Known]
  <2>1. pc[w] = "invalidate" => req[w].serial \in Known
    BY Zenon DEF CertInv, Sane, Local, Revoking, Known
  <2>2. QED
    BY <2>1 DEF RequestStep, CRLStep, Apart, Invalidates, Locks, Finds, Ends, Typed
<1>7. crl' \in [Replicas -> Cache]
  <2>1. NoCRL \in Cache
    BY Zenon DEF NoCRL, Cache
  <2>2. [cached |-> TRUE, list |-> req[w].found, expires |-> req[w].at + CRLValidity] \in Cache
    BY <1>2, CertificatesAssumption, SMTT(20) DEF Request, Cache
  <2>3. QED
    BY <2>1, <2>2, Zenon
       DEF RequestStep, CRLStep, Apart, Invalidates, Locks, Finds, Ends, Caches, Typed
<1>8. QED
  BY <1>1, <1>3, <1>4, <1>5, <1>6, <1>7, Zenon DEF Typed

LEMMA SaneKept ==
  ASSUME Typed, CertInv, NEW w \in Workers, RequestStep(w)
  PROVE  Sane'
<1>. SUFFICES ASSUME NEW v \in Workers PROVE Local(v)'
  BY Zenon DEF Sane
<1>1. CASE v = w
  BY <1>1, Zenon DEF RequestStep
<1>2. CASE v # w
  <2>1. pc'[v] = pc[v] /\ req'[v] = req[v] /\ Local(v)
    BY <1>2, Zenon DEF RequestStep, Others, CertInv, Sane
  <2>2. QED
    BY <2>1, Zenon DEF Local
<1>3. QED
  BY <1>1, <1>2, Zenon

LEMMA DeadStays ==
  ASSUME CertStep, NEW s \in Known
  PROVE  /\ Dead(s) => certs'[s] = certs[s] /\ certs'[s].status = "revoked"
         /\ certs'[s].status = "revoked" /\ ~Dead(s) => s \in Serials /\ certs'[s].at = now
         /\ certs'[s].status = "absent" => certs[s].status = "absent"
BY Zenon DEF CertStep, Dead

(* The holder of a mutex, by name. *)
LEMMA Holder ==
  ASSUME Typed, CertInv, NEW w \in Workers, pc[w] \in {"find", "sign"}
  PROVE  req[w].home \in Replicas /\ mutex[req[w].home] = w
<1>1. PICK x \in Replicas : mutex[x] = w
  BY Zenon DEF CertInv, CRLInv, LockAccounted
<1>2. w # None
  BY CertificatesAssumption, Zenon
<1>3. QED
  BY <1>1, <1>2, Zenon DEF CertInv, CRLInv, LockAccounted

LEMMA LockKept ==
  ASSUME Typed, CertInv, NEW w \in Workers, RequestStep(w)
  PROVE  LockAccounted'
<1>0. \A v \in Workers \ {w} : pc'[v] = pc[v] /\ req'[v] = req[v]
  BY Zenon DEF RequestStep, Others
<1>1. /\ \A x \in Replicas : mutex[x] # None => mutex[x] \in Workers /\ req[mutex[x]].home = x
      /\ \A v \in Workers : pc[v] \in {"find", "sign"} <=> \E x \in Replicas : mutex[x] = v
  BY Zenon DEF CertInv, CRLInv, LockAccounted, Typed
<1>2. w # None
  BY CertificatesAssumption, Zenon
<1>3. CASE Apart(w) \/ Invalidates(w)
  <2>1. mutex' = mutex /\ pc[w] \notin {"find", "sign"} /\ pc'[w] \notin {"find", "sign"}
    BY <1>3, Zenon DEF Apart, Invalidates
  <2>2. \A x \in Replicas : mutex[x] # w
    BY <1>1, <2>1, Zenon
  <2>3. QED
    BY <1>0, <1>1, <2>1, <2>2, Zenon DEF LockAccounted
<1>4. CASE Locks(w)
  <2>. DEFINE x == req[w].home
  <2>1. /\ x \in Replicas /\ mutex[x] = None /\ mutex'[x] = w
        /\ \A y \in Replicas \ {x} : mutex'[y] = mutex[y]
        /\ pc[w] = "lock" /\ pc'[w] = "find" /\ req'[w].home = x
    BY <1>4, Zenon DEF Locks, Typed
  <2>. HIDE DEF x
  <2>2. \A y \in Replicas : mutex[y] # w
    BY <1>1, <2>1, Zenon
  <2>3. ASSUME NEW y \in Replicas, mutex'[y] # None
        PROVE  req'[mutex'[y]].home = y
    BY <1>0, <1>1, <2>1, <2>2, <2>3
  <2>4. ASSUME NEW v \in Workers
        PROVE  pc'[v] \in {"find", "sign"} <=> \E y \in Replicas : mutex'[y] = v
    <3>1. CASE v = w
      BY <2>1, <3>1, Zenon
    <3>2. CASE v # w
      <4>1. v # None
        BY CertificatesAssumption, Zenon
      <4>2. QED
        BY <1>0, <1>1, <2>1, <3>2, <4>1
    <3>3. QED
      BY <3>1, <3>2, Zenon
  <2>5. QED
    BY <2>3, <2>4, Zenon DEF LockAccounted
<1>5. CASE Finds(w)
  BY <1>0, <1>1, <1>5 DEF Finds, LockAccounted
<1>6. CASE Ends(w)
  <2>. DEFINE x == req[w].home
  <2>1. /\ x \in Replicas /\ mutex'[x] = None
        /\ \A y \in Replicas \ {x} : mutex'[y] = mutex[y]
        /\ pc[w] \in {"find", "sign"} /\ pc'[w] = "reply"
    BY <1>6, Zenon DEF Ends, Typed
  <2>2. mutex[x] = w
    BY <2>1, Holder, Zenon
  <2>. HIDE DEF x
  <2>3. \A y \in Replicas : mutex'[y] # w
    BY <1>1, <1>2, <2>1, <2>2 DEF x
  <2>4. ASSUME NEW y \in Replicas, mutex'[y] # None
        PROVE  req'[mutex'[y]].home = y
    BY <1>0, <1>1, <2>1, <2>3, <2>4
  <2>5. ASSUME NEW v \in Workers
        PROVE  pc'[v] \in {"find", "sign"} <=> \E y \in Replicas : mutex'[y] = v
    <3>1. CASE v = w
      BY <2>1, <2>3, <3>1, Zenon
    <3>2. CASE v # w
      <4>1. v # None
        BY CertificatesAssumption, Zenon
      <4>2. QED
        BY <1>0, <1>1, <2>1, <2>2, <3>2, <4>1, SMTT(20)
    <3>3. QED
      BY <3>1, <3>2, Zenon
  <2>6. QED
    BY <2>4, <2>5, Zenon DEF LockAccounted
<1>7. QED
  BY <1>3, <1>4, <1>5, <1>6, Zenon DEF RequestStep, CRLStep

LEMMA ListedKept ==
  ASSUME Typed, CertInv, NEW w \in Workers, RequestStep(w)
  PROVE  Listed'
<1>0. \A v \in Workers \ {w} : pc'[v] = pc[v] /\ req'[v] = req[v]
  BY Zenon DEF RequestStep, Others
<1>1. CertStep /\ CRLStep(w) /\ Serials \subseteq Known /\ Anchor \notin Serials
  BY CertificatesAssumption, Zenon DEF RequestStep, Known
<1>2. \A x \in Replicas : \A s \in acked[x] : s \in Serials /\ Dead(s)
  BY Zenon DEF CertInv, CRLInv, Listed
<1>3. ASSUME Invalidates(w)
      PROVE  req[w].serial \in Serials /\ Dead(req[w].serial)
  BY <1>3, Zenon DEF Invalidates, CertInv, CRLInv, Listed, Sane, Local, Revoking
<1>4. ASSUME NEW x \in Replicas, NEW s \in acked'[x]
      PROVE  s \in Serials /\ certs'[s].status = "revoked"
  <2>1. s \in Serials /\ Dead(s)
    <3>1. CASE Invalidates(w)
      <4>1. acked'[x] \subseteq acked[x] \cup {req[w].serial}
        BY <3>1, Zenon DEF Invalidates, Typed
      <4>2. QED
        BY <1>2, <1>3, <1>4, <3>1, <4>1, Zenon
    <3>2. CASE ~Invalidates(w)
      <4>1. acked' = acked
        BY <1>1, <3>2, Zenon DEF CRLStep, Apart, Locks, Finds, Ends
      <4>2. QED
        BY <1>2, <1>4, <4>1, Zenon
    <3>3. QED
      BY <3>1, <3>2, Zenon
  <2>2. QED
    BY <1>1, <2>1, DeadStays, Zenon
<1>5. ASSUME NEW v \in Workers, pc'[v] \in {"auditRevoke", "invalidate"}
      PROVE  certs'[req'[v].serial].status = "revoked"
  <2>1. CASE v = w
    BY <1>1, <1>5, <2>1, Zenon DEF CRLStep, Apart, Invalidates, Locks, Finds, Ends
  <2>2. CASE v # w
    <3>1. req[v].serial \in Known /\ Dead(req[v].serial) /\ req'[v] = req[v]
      BY <1>0, <1>1, <1>5, <2>2, Zenon DEF CertInv, CRLInv, Listed, Sane, Local, Revoking
    <3>2. QED
      BY <1>1, <3>1, DeadStays, Zenon
  <2>3. QED
    BY <2>1, <2>2, Zenon
<1>6. ASSUME NEW x \in Replicas, crl'[x].cached = TRUE
      PROVE  acked'[x] \subseteq crl'[x].list
  <2>0. crl[x].cached = TRUE => acked[x] \subseteq crl[x].list
    BY Zenon DEF CertInv, CRLInv, Listed
  <2>1. CASE Invalidates(w)
    <3>1. x # req[w].home
      BY <1>6, <2>1, Zenon DEF Invalidates, NoCRL, Typed
    <3>2. acked'[x] = acked[x] /\ crl'[x] = crl[x]
      BY <2>1, <3>1, Zenon DEF Invalidates, Typed
    <3>3. QED
      BY <1>6, <2>0, <3>2, Zenon
  <2>2. CASE Ends(w) /\ pc[w] = "sign" /\ Caches(w)
    <3>1. /\ acked' = acked
          /\ crl' = [crl EXCEPT ![req[w].home] = [cached |-> TRUE, list |-> req[w].found,
                                                  expires |-> req[w].at + CRLValidity]]
      BY <2>2, Zenon DEF Ends, Caches
    <3>2. CASE x = req[w].home
      <4>1. crl'[x].list = req[w].found
        BY <3>1, <3>2, Zenon DEF Typed
      <4>2. acked[x] \subseteq req[w].found
        BY <2>2, <3>2, Zenon DEF CertInv, CRLInv, Listed
      <4>3. QED
        BY <3>1, <4>1, <4>2, Zenon
    <3>3. CASE x # req[w].home
      <4>1. crl'[x] = crl[x]
        BY <3>1, <3>3, Zenon DEF Typed
      <4>2. QED
        BY <1>6, <2>0, <3>1, <4>1, Zenon
    <3>4. QED
      BY <3>2, <3>3, Zenon
  <2>3. CASE ~Invalidates(w) /\ ~(Ends(w) /\ pc[w] = "sign" /\ Caches(w))
    <3>1. acked' = acked /\ crl' = crl
      BY <1>1, <2>3, Zenon DEF CRLStep, Apart, Locks, Finds, Ends
    <3>2. QED
      BY <1>6, <2>0, <3>1, Zenon
  <2>4. QED
    BY <2>1, <2>2, <2>3, Zenon
<1>7. ASSUME NEW v \in Workers, pc'[v] = "sign"
      PROVE  acked'[req'[v].home] \subseteq req'[v].found
  <2>1. CASE v = w
    <3>1. Finds(w)
      BY <1>1, <1>7, <2>1, Zenon DEF CRLStep, Apart, Invalidates, Locks, Ends
    <3>2. /\ req'[w].home = req[w].home /\ req'[w].found = Revoked \ {Anchor}
          /\ acked' = acked /\ pc[w] = "find"
      BY <3>1, Zenon DEF Finds
    <3>3. req[w].home \in Replicas
      BY <3>2, Holder, Zenon
    <3>4. QED
      BY SMTT(30), <1>1, <1>2, <2>1, <3>2, <3>3 DEF Revoked, Dead
  <2>2. CASE v # w
    <3>1. pc[v] = "sign" /\ req'[v] = req[v]
      BY <1>0, <1>7, <2>2, Zenon
    <3>2. req[v].home \in Replicas /\ mutex[req[v].home] = v /\ v # None
      BY SMTT(30), <3>1, Holder, CertificatesAssumption
    <3>3. acked'[req[v].home] = acked[req[v].home]
      BY <1>1, <3>2, Zenon DEF CRLStep, Apart, Invalidates, Locks, Finds, Ends, Typed
    <3>4. acked[req[v].home] \subseteq req[v].found
      BY <3>1, Zenon DEF CertInv, CRLInv, Listed
    <3>5. QED
      BY <3>1, <3>3, <3>4, Zenon
  <2>3. QED
    BY <2>1, <2>2, Zenon
<1>8. QED
  BY Zenon, <1>4, <1>5, <1>6, <1>7 DEF Listed, Dead

LEMMA TimelyKept ==
  ASSUME Typed, CertInv, NEW w \in Workers, RequestStep(w)
  PROVE  Timely'
<1>0. (\A v \in Workers \ {w} : pc'[v] = pc[v] /\ req'[v] = req[v]) /\ now' = now /\ now \in Nat
  BY Zenon DEF RequestStep, Others, Typed
<1>1. CertStep /\ CRLStep(w) /\ CRLValidity \in Nat
  BY CertificatesAssumption, Zenon DEF RequestStep
<1>2. ASSUME NEW v \in Workers, pc'[v] \in {"find", "sign"}
      PROVE  req'[v].at <= now
  <2>1. CASE v = w
    <3>1. CASE Locks(w)
      BY SMTT(30), <1>0, <2>1, <3>1 DEF Locks
    <3>2. CASE Finds(w)
      BY <2>1, <3>2, Zenon DEF Finds, CertInv, CRLInv, Timely
    <3>3. QED
      BY <1>1, <1>2, <2>1, <3>1, <3>2, Zenon DEF CRLStep, Apart, Invalidates, Ends
  <2>2. CASE v # w
    BY <1>0, <1>2, <2>2, Zenon DEF CertInv, CRLInv, Timely
  <2>3. QED
    BY <2>1, <2>2, Zenon
<1>3. ASSUME NEW v \in Workers, pc'[v] = "sign", NEW s \in Known,
             certs'[s].status = "revoked", certs'[s].at < req'[v].at
      PROVE  s \in req'[v].found
  <2>1. CASE v = w
    <3>1. Finds(w)
      BY <1>1, <1>3, <2>1, Zenon DEF CRLStep, Apart, Invalidates, Locks, Ends
    <3>2. req'[w].found = Revoked \ {Anchor} /\ certs' = certs
      BY <3>1, Zenon DEF Finds
    <3>3. s # Anchor
      BY SMTT(30), <1>3, <3>2 DEF CertInv, CRLInv, Sound
    <3>4. QED
      BY SMTT(30), <1>3, <2>1, <3>2, <3>3 DEF Revoked
  <2>2. CASE v # w
    <3>1. pc[v] = "sign" /\ req'[v] = req[v]
      BY <1>0, <1>3, <2>2, Zenon
    <3>2. req[v].at <= now /\ req[v].at \in Nat /\ certs'[s].at \in Nat
      <4>1. req[v].at <= now
        BY <3>1, Zenon DEF CertInv, CRLInv, Timely
      <4>2. req[v].at \in Nat
        BY Zenon DEF Typed, Request
      <4>3. certs'[s].at \in Nat
        BY <1>1, Zenon DEF CertStep, Cert
      <4>4. QED
        BY <4>1, <4>2, <4>3, Zenon
    <3>3. certs'[s].at # now
      BY <1>0, <1>3, <3>1, <3>2
    <3>4. Dead(s) /\ certs'[s] = certs[s]
      BY <1>1, <1>3, <3>3, DeadStays, Zenon
    <3>5. QED
      BY <1>3, <3>1, <3>4, Zenon DEF CertInv, CRLInv, Timely
  <2>3. QED
    BY <2>1, <2>2, Zenon
<1>4. ASSUME NEW x \in Replicas, crl'[x].cached = TRUE
      PROVE  /\ crl'[x].expires <= now + CRLValidity
             /\ \A s \in Known : certs'[s].status = "revoked"
                                   /\ certs'[s].at + CRLValidity < crl'[x].expires
                                 => s \in crl'[x].list
  <2>1. CASE Ends(w) /\ pc[w] = "sign" /\ Caches(w) /\ x = req[w].home
    <3>1. /\ crl'[x].list = req[w].found /\ crl'[x].expires = req[w].at + CRLValidity
          /\ certs' = certs
      BY <2>1 DEF Ends, Caches, Typed
    <3>2. req[w].at <= now /\ req[w].at \in Nat
      BY SMTT(30), <2>1 DEF CertInv, CRLInv, Timely, Typed, Request
    <3>3. crl'[x].expires <= now + CRLValidity
      BY <1>0, <1>1, <3>1, <3>2
    <3>4. ASSUME NEW s \in Known, certs[s].status = "revoked",
                 certs[s].at + CRLValidity < req[w].at + CRLValidity
          PROVE  s \in req[w].found
      <4>1. certs[s].at \in Nat
        BY Zenon DEF Typed, Cert
      <4>2. certs[s].at < req[w].at
        BY <1>1, <3>2, <3>4, <4>1, SMTT(20)
      <4>3. QED
        BY <2>1, <3>4, <4>2, Zenon DEF CertInv, CRLInv, Timely, Dead
    <3>5. QED
      BY <3>1, <3>3, <3>4, Zenon
  <2>2. CASE ~(Ends(w) /\ pc[w] = "sign" /\ Caches(w) /\ x = req[w].home)
    <3>1. crl'[x] = crl[x]
      <4>1. CASE Invalidates(w)
        BY SMTT(30), <1>4, <4>1 DEF Invalidates, NoCRL, Typed
      <4>2. CASE ~Invalidates(w)
        BY SMTT(30), <1>1, <2>2, <4>2 DEF CRLStep, Apart, Locks, Finds, Ends, Caches, Typed
      <4>3. QED
        BY <4>1, <4>2, Zenon
    <3>2. /\ crl[x].expires <= now + CRLValidity /\ crl[x].expires \in Nat
          /\ \A s \in Known : Dead(s) /\ certs[s].at + CRLValidity < crl[x].expires
                              => s \in crl[x].list
      BY <1>4, <3>1, Zenon DEF CertInv, CRLInv, Timely, Typed, Cache
    <3>3. ASSUME NEW s \in Known, certs'[s].status = "revoked",
                 certs'[s].at + CRLValidity < crl[x].expires
          PROVE  s \in crl[x].list
      <4>1. certs'[s].at # now
        BY <1>0, <1>1, <3>2, <3>3, SMTT(20)
      <4>2. Dead(s) /\ certs'[s] = certs[s]
        BY <1>1, <3>3, <4>1, DeadStays, Zenon
      <4>3. QED
        BY <3>2, <3>3, <4>2, Zenon
    <3>4. QED
      BY <3>1, <3>2, <3>3, Zenon
  <2>3. QED
    BY <2>1, <2>2, Zenon
<1>5. QED
  BY Zenon, <1>0, <1>2, <1>3, <1>4 DEF Timely, Dead

LEMMA SoundKept ==
  ASSUME Typed, CertInv, NEW w \in Workers, RequestStep(w)
  PROVE  Sound'
<1>0. \A v \in Workers \ {w} : pc'[v] = pc[v] /\ req'[v] = req[v]
  BY Zenon DEF RequestStep, Others
<1>1. CertStep /\ CRLStep(w) /\ Serials \subseteq Known /\ Anchor \in Known /\ Anchor \notin Serials
  BY CertificatesAssumption, Zenon DEF RequestStep, Known
<1>2. certs'[Anchor].status = "good"
  BY <1>1, Zenon DEF CertStep, CertInv, CRLInv, Sound
<1>3. ASSUME NEW v \in Workers, pc'[v] = "sign", NEW s \in req'[v].found
      PROVE  certs'[s].status = "revoked"
  <2>1. CASE v = w
    <3>1. Finds(w)
      BY <1>1, <1>3, <2>1, Zenon DEF CRLStep, Apart, Invalidates, Locks, Ends
    <3>2. QED
      BY SMTT(30), <1>3, <2>1, <3>1 DEF Finds, Revoked
  <2>2. CASE v # w
    <3>1. pc[v] = "sign" /\ req'[v] = req[v]
      BY <1>0, <1>3, <2>2, SMTT(20)
    <3>2. Dead(s) /\ s \in Known
      BY SMTT(30), <1>1, <1>3, <3>1 DEF CertInv, CRLInv, Sound, Typed, Request
    <3>3. QED
      BY <1>1, <3>2, DeadStays, Zenon
  <2>3. QED
    BY <2>1, <2>2, Zenon
<1>4. ASSUME NEW x \in Replicas, NEW s \in crl'[x].list
      PROVE  certs'[s].status = "revoked"
  <2>1. \/ s \in crl[x].list
        \/ Ends(w) /\ pc[w] = "sign" /\ s \in req[w].found
    BY SMTT(30), <1>1, <1>4
    DEF CRLStep, Apart, Invalidates, Locks, Finds, Ends, Caches, NoCRL, Typed
  <2>2. Dead(s)
    BY <2>1, Zenon DEF CertInv, CRLInv, Sound
  <2>3. s \in Serials
    BY <2>1, Zenon DEF Typed, Cache, Request
  <2>4. QED
    BY SMTT(30), <1>1, <2>2, <2>3, DeadStays
<1>5. QED
  BY <1>2, <1>3, <1>4, Zenon DEF Sound, Dead

LEMMA DecidedKept ==
  ASSUME Typed, CertInv, NEW w \in Workers, RequestStep(w)
  PROVE  Decided'
<1>0. \A v \in Workers \ {w} : pc'[v] = pc[v] /\ req'[v] = req[v]
  BY Zenon DEF RequestStep, Others
<1>1. CertStep /\ DecideStep(w) /\ audit \subseteq audit' /\ Serials \subseteq Known
  BY SMTT(30) DEF RequestStep, DecideStep, Known
<1>2. ASSUME NEW v \in Workers, req[v].did = TRUE
      PROVE  /\ req[v].serial \in Serials
             /\ certs'[req[v].serial].status = "revoked"
             /\ certs'[req[v].serial].reason = req[v].reason
             /\ certs[req[v].serial].status # "good"
  <2>1. req[v].serial \in Serials /\ Dead(req[v].serial)
        /\ certs[req[v].serial].reason = req[v].reason
    BY Zenon, <1>2 DEF CertInv, DecisionInv, Decided
  <2>2. QED
    BY <1>1, <2>1, DeadStays, Zenon DEF Dead
<1>3. ASSUME NEW v \in Workers \ {w}, req'[v].did = TRUE
      PROVE  /\ pc'[v] \in {"auditRevoke", "invalidate", "reply"}
             /\ req'[v].serial \in Serials
             /\ certs'[req'[v].serial].status = "revoked"
             /\ certs'[req'[v].serial].reason = req'[v].reason
             /\ pc'[v] = "invalidate" \/ req'[v].reply = "ok"
                  => <<"revoke", req'[v].serial>> \in audit'
  <2>1. req[v].did = TRUE /\ pc'[v] = pc[v] /\ req'[v] = req[v]
    BY <1>0, <1>3, Zenon
  <2>2. /\ pc[v] \in {"auditRevoke", "invalidate", "reply"}
        /\ pc[v] = "invalidate" \/ req[v].reply = "ok" => <<"revoke", req[v].serial>> \in audit
    BY <2>1, Zenon DEF CertInv, DecisionInv, Decided
  <2>3. QED
    BY ZenonT(30), <1>1, <1>2, <2>1, <2>2
<1>4. ASSUME req'[w].did = TRUE
      PROVE  /\ pc'[w] \in {"auditRevoke", "invalidate", "reply"}
             /\ req'[w].serial = req[w].serial
             /\ req'[w].serial \in Serials
             /\ certs'[req'[w].serial].status = "revoked"
             /\ certs'[req'[w].serial].reason = req'[w].reason
             /\ pc'[w] = "invalidate" \/ req'[w].reply = "ok"
                  => <<"revoke", req'[w].serial>> \in audit'
             /\ req[w].did = TRUE \/ certs[req[w].serial].status = "good"
  BY Zenon, <1>1, <1>2, <1>4 DEF DecideStep, Dead
<1>5. ASSUME NEW v \in Workers, NEW u \in Workers, u # v,
             req'[v].did = TRUE, req'[u].did = TRUE
      PROVE  req'[u].serial # req'[v].serial
  <2>0. \A x, y \in Workers : x # y /\ req[x].did = TRUE /\ req[y].did = TRUE
                              => req[x].serial # req[y].serial
    BY Zenon DEF CertInv, DecisionInv, Decided
  <2>1. CASE v # w /\ u # w
    BY <1>0, <1>5, <2>0, <2>1, SMTT(20)
  <2>2. CASE v = w
    <3>1. req[u].did = TRUE /\ req'[u] = req[u] /\ certs[req[u].serial].status # "good"
      BY Zenon, <1>0, <1>2, <1>5, <2>2
    <3>2. QED
      BY Zenon, <1>4, <1>5, <2>0, <2>2, <3>1
  <2>3. CASE u = w
    <3>1. req[v].did = TRUE /\ req'[v] = req[v] /\ certs[req[v].serial].status # "good"
      BY Zenon, <1>0, <1>2, <1>5, <2>3
    <3>2. QED
      BY Zenon, <1>4, <1>5, <2>0, <2>3, <3>1
  <2>4. QED
    BY <2>1, <2>2, <2>3, Zenon
<1>6. QED
  BY ZenonT(30), <1>3, <1>4, <1>5 DEF Decided, Dead

LEMMA LateKept ==
  ASSUME Typed, CertInv, NEW w \in Workers, RequestStep(w)
  PROVE  Late'
<1>. SUFFICES ASSUME NEW v \in Workers, req'[v].late = TRUE
              PROVE  \/ pc'[v] \in Authorizing /\ certs'[req'[v].caller].status = "revoked"
                     \/ pc'[v] = "reply" /\ req'[v].reply \in {"forbidden", "error"}
  BY ZenonT(30) DEF Late, Dead
<1>1. CASE v = w
  BY SMTT(30), <1>1 DEF RequestStep, LateStep
<1>2. CASE v # w
  <2>1. pc'[v] = pc[v] /\ req'[v] = req[v]
    BY <1>2, Zenon DEF RequestStep, Others
  <2>2. \/ pc[v] \in Authorizing /\ Dead(req[v].caller)
        \/ pc[v] = "reply" /\ req[v].reply \in {"forbidden", "error"}
    BY <2>1, Zenon DEF CertInv, DecisionInv, Late
  <2>3. pc[v] \in Authorizing => req[v].caller \in Known
    BY Zenon DEF CertInv, Sane, Local, Known
  <2>4. QED
    BY SMTT(30), <2>1, <2>2, <2>3, DeadStays DEF RequestStep
<1>3. QED
  BY <1>1, <1>2, Zenon

-----------------------------------------------------------------------------
(* A role is granted to a certificate that had none, and a certificate is  *)
(* signed under a serial that was free.                                    *)
LEMMA RolesStay ==
  ASSUME Typed, CertInv, NEW w \in Workers, RequestStep(w), NEW s \in Serials
  PROVE  /\ roles[s] # None => roles'[s] = roles[s]
         /\ certs[s].status # "absent" => certs'[s].status # "absent" /\ by'[s] = by[s]
<1>1. CertStep /\ GrantStep(w) /\ s \in Known
  BY Zenon DEF RequestStep, Known
<1>2. roles[s] # None => roles'[s] = roles[s]
  <2>1. CASE Grants(w)
    <3>1. roles[req[w].serial] = None
      BY <2>1, Zenon DEF Grants, CertInv, DecisionInv, Granted
    <3>2. QED
      BY <2>1, <3>1, Zenon DEF Grants, Typed
  <2>2. QED
    BY <1>1, <2>1, Zenon DEF GrantStep, ReadsOn, Signs
<1>3. certs[s].status # "absent" => certs'[s].status # "absent"
  BY <1>1, DeadStays, Zenon
<1>4. certs[s].status # "absent" => by'[s] = by[s]
  BY <1>1, Zenon DEF GrantStep, ReadsOn, Signs, Grants, Typed
<1>5. QED
  BY <1>2, <1>3, <1>4, Zenon

LEMMA GrantedKept ==
  ASSUME Typed, CertInv, NEW w \in Workers, RequestStep(w)
  PROVE  Granted'
<1>0. \A v \in Workers \ {w} : pc'[v] = pc[v] /\ req'[v] = req[v]
  BY Zenon DEF RequestStep, Others
<1>1. CertStep /\ GrantStep(w) /\ Serials \subseteq Known
  BY Zenon DEF RequestStep, Known
<1>2. /\ \A s \in Serials : certs[s].status = "absent" => roles[s] = None
      /\ \A v \in Workers : pc[v] \in {"cert"} \cup Issuing =>
           roles[req[v].caller] = req[v].role /\ req[v].role # None
      /\ \A v \in Workers : pc[v] \in Issuing /\ req[v].route = "client" => req[v].role = "admin"
      /\ \A v \in Workers : pc[v] = "assign" => req[v].route = "client"
      /\ NoEscalation
  BY Zenon DEF CertInv, DecisionInv, Granted
<1>3. ASSUME NEW v \in Workers, pc[v] \in {"auditIssue", "assign"}
      PROVE  /\ certs[req[v].serial].status # "absent"
             /\ roles[req[v].serial] = None
             /\ by[req[v].serial] = req[v].caller
             /\ req[v].serial \in Serials
             /\ \A u \in Workers : u # v /\ pc[u] \in {"auditIssue", "assign"} =>
                  req[u].serial # req[v].serial
  BY <1>3, Zenon DEF CertInv, DecisionInv, Granted, Sane, Local, Issuing
<1>4. \A v \in Workers : pc[v] \in {"cert"} \cup Issuing => req[v].caller \in Serials
  BY Zenon DEF CertInv, Sane, Local, Authorizing
<1>5. ASSUME NEW s \in Serials, certs'[s].status = "absent"
      PROVE  roles'[s] = None
  <2>1. certs[s].status = "absent" /\ roles[s] = None
    BY <1>1, <1>2, <1>5, DeadStays, Zenon
  <2>2. CASE Grants(w)
    <3>1. s # req[w].serial
      BY <1>3, <2>1, <2>2, Zenon DEF Grants
    <3>2. QED
      BY <2>1, <2>2, <3>1, Zenon DEF Grants, Typed
  <2>3. QED
    BY ZenonT(30), <1>1, <2>1, <2>2 DEF GrantStep, ReadsOn, Signs
<1>6. ASSUME NEW v \in Workers, pc'[v] \in {"cert"} \cup Issuing
      PROVE  roles'[req'[v].caller] = req'[v].role /\ req'[v].role # None
  <2>1. CASE pc[v] \in {"cert"} \cup Issuing
             /\ req'[v].caller = req[v].caller /\ req'[v].role = req[v].role
    BY <1>2, <1>4, <2>1, RolesStay, SMTT(20)
  <2>2. CASE v # w
    BY <1>0, <1>6, <2>1, <2>2, Zenon
  <2>3. CASE v = w /\ pc[w] = "role" /\ ReadsOn(w)
    BY <1>6, <2>3, Zenon DEF ReadsOn, Issuing
  <2>4. CASE v = w /\ ~(pc[w] = "role" /\ ReadsOn(w))
    BY Zenon, <1>1, <1>6, <2>1, <2>4 DEF GrantStep, ReadsOn, Signs, Grants, SameOwn, Issuing
  <2>5. QED
    BY <2>2, <2>3, <2>4, Zenon
<1>7. ASSUME NEW v \in Workers, pc'[v] \in Issuing, req'[v].route = "client"
      PROVE  req'[v].role = "admin"
  <2>1. CASE v # w
    BY <1>0, <1>2, <1>7, <2>1, Zenon
  <2>2. CASE v = w
    BY Zenon, <1>1, <1>2, <1>7, <2>2 DEF GrantStep, ReadsOn, Signs, Grants, SameOwn, Issuing
  <2>3. QED
    BY <2>1, <2>2, Zenon
<1>8. ASSUME NEW v \in Workers, pc'[v] = "assign"
      PROVE  req'[v].route = "client"
  <2>1. CASE v # w
    BY SMTT(30), <1>0, <1>2, <1>8, <2>1
  <2>2. CASE v = w
    BY <1>1, <1>8, <2>2, Zenon DEF GrantStep, ReadsOn, Signs, Grants, SameOwn, Issuing
  <2>3. QED
    BY <2>1, <2>2, Zenon
<1>9. ASSUME pc'[w] \in {"auditIssue", "assign"}
      PROVE  \/ /\ pc[w] = "auditIssue" /\ ReadsOn(w)
                /\ req'[w].serial = req[w].serial /\ req'[w].caller = req[w].caller
             \/ /\ Signs(w) /\ req'[w].serial \in Serials
                /\ certs[req'[w].serial].status = "absent"
                /\ certs'[req'[w].serial].status = "good"
                /\ by'[req'[w].serial] = req'[w].caller
  BY ZenonT(30), <1>1, <1>9 DEF GrantStep, ReadsOn, Signs, Grants, SameOwn, Issuing, Typed
<1>10. ASSUME NEW v \in Workers, pc'[v] \in {"auditIssue", "assign"}
       PROVE  /\ certs'[req'[v].serial].status # "absent"
              /\ roles'[req'[v].serial] = None
              /\ by'[req'[v].serial] = req'[v].caller
  <2>1. CASE v # w
    <3>1. pc[v] = pc'[v] /\ req'[v] = req[v] /\ pc[v] \in {"auditIssue", "assign"}
      BY <1>0, <1>10, <2>1, Zenon
    <3>2. roles'[req[v].serial] = None
      <4>1. CASE Grants(w)
        <5>1. req[w].serial # req[v].serial
          BY <1>3, <2>1, <3>1, <4>1, Zenon DEF Grants
        <5>2. QED
          BY <1>3, <3>1, <4>1, <5>1, Zenon DEF Grants, Typed
      <4>2. QED
        BY <1>1, <1>3, <3>1, <4>1, Zenon DEF GrantStep, ReadsOn, Signs
    <3>3. QED
      BY <1>3, <3>1, <3>2, RolesStay, SMTT(20)
  <2>2. CASE v = w
    <3>1. CASE Signs(w)
      BY <1>2, <1>3, <1>9, <1>10, <2>2, <3>1, Zenon DEF Signs
    <3>2. CASE ~Signs(w)
      <4>1. /\ pc[w] = "auditIssue" /\ roles' = roles
            /\ req'[w].serial = req[w].serial /\ req'[w].caller = req[w].caller
        BY <1>9, <1>10, <2>2, <3>2, Zenon DEF ReadsOn
      <4>2. QED
        BY <1>3, <2>2, <4>1, RolesStay
    <3>3. QED
      BY <3>1, <3>2, Zenon
  <2>3. QED
    BY <2>1, <2>2, Zenon
<1>11. ASSUME NEW v \in Workers, NEW u \in Workers, u # v,
              pc'[v] \in {"auditIssue", "assign"}, pc'[u] \in {"auditIssue", "assign"}
       PROVE  req'[u].serial # req'[v].serial
  <2>1. CASE v # w /\ u # w
    BY <1>0, <1>3, <1>11, <2>1, SMTT(20)
  <2>2. CASE v = w
    <3>1. pc[u] \in {"auditIssue", "assign"} /\ req'[u] = req[u]
      BY <1>0, <1>11, <2>2, Zenon
    <3>2. QED
      BY <1>3, <1>9, <1>11, <2>2, <3>1
  <2>3. CASE u = w
    <3>1. pc[v] \in {"auditIssue", "assign"} /\ req'[v] = req[v]
      BY <1>0, <1>11, <2>3, Zenon
    <3>2. QED
      BY <1>3, <1>9, <1>11, <2>3, <3>1, SMTT(20)
  <2>4. QED
    BY <2>1, <2>2, <2>3, Zenon
<1>12. ASSUME NEW s \in Serials \ {Admin, Manager}, roles'[s] # None
       PROVE  by'[s] \in Serials /\ roles'[by'[s]] = "admin"
  <2>0. None # "admin"
    BY CertificatesAssumption, Zenon DEF Roles
  <2>1. by[s] \in Serials /\ roles[by[s]] = "admin" /\ certs[s].status # "absent"
    <3>1. CASE roles[s] # None
      BY <1>2, <3>1, Zenon DEF NoEscalation
    <3>2. CASE roles[s] = None
      <4>1. Grants(w) /\ s = req[w].serial
        BY ZenonT(30), <1>1, <1>12, <3>2 DEF GrantStep, ReadsOn, Signs, Grants, Typed
      <4>2. pc[w] = "assign" /\ by[s] = req[w].caller /\ certs[s].status # "absent"
        BY <1>3, <4>1, Zenon DEF Grants
      <4>3. QED
        BY <1>2, <1>4, <4>2, Zenon DEF Issuing
    <3>3. QED
      BY <3>1, <3>2, Zenon
  <2>2. QED
    BY <2>0, <2>1, RolesStay, Zenon
<1>13. QED
  BY <1>5, <1>6, <1>7, <1>8, <1>10, <1>11, <1>12, Zenon DEF Granted, NoEscalation

LEMMA RequestKeeps ==
  ASSUME Typed, CertInv, NEW w \in Workers, Arrive(w) \/ Step(w)
  PROVE  Typed' /\ CertInv'
<1>1. RequestStep(w)
  BY RequestSteps, Zenon
<1>2. QED
  BY <1>1, TypedKept, SaneKept, LockKept, ListedKept, TimelyKept, SoundKept, DecidedKept,
     LateKept, GrantedKept, Zenon DEF CertInv, CRLInv, DecisionInv

-----------------------------------------------------------------------------
(* Time and crashes. *)
LEMMA TickKeeps ==
  ASSUME Typed, CertInv, Tick
  PROVE  Typed' /\ CertInv'
<1>1. /\ now' = now + 1 /\ now \in Nat
      /\ UNCHANGED <<certs, roles, audit, crl, mutex, pc, req, by, acked>>
  BY Zenon DEF Tick, tables, history, Typed
<1>2. Typed'
  BY <1>1 DEF Typed
<1>3. Sane'
  BY <1>1, Zenon DEF CertInv, Sane, Local
<1>4. LockAccounted' /\ Listed' /\ Sound'
  BY <1>1 DEF CertInv, CRLInv, LockAccounted, Listed, Sound, Dead
<1>5. Timely'
  <2>1. ASSUME NEW w \in Workers, pc[w] \in {"find", "sign"}
        PROVE  req[w].at <= now + 1
    <3>1. req[w].at <= now /\ req[w].at \in Nat
      BY <2>1, Zenon DEF CertInv, CRLInv, Timely, Typed, Request
    <3>2. QED
      BY <1>1, <3>1
  <2>2. ASSUME NEW x \in Replicas, crl[x].cached = TRUE
        PROVE  crl[x].expires <= now + 1 + CRLValidity
    <3>1. crl[x].expires <= now + CRLValidity /\ crl[x].expires \in Nat
      BY SMTT(30), <2>2 DEF CertInv, CRLInv, Timely, Typed, Cache
    <3>2. QED
      BY <1>1, <3>1, CertificatesAssumption, SMTT(20)
  <2>3. QED
    BY Zenon, <1>1, <2>1, <2>2 DEF CertInv, CRLInv, Timely, Dead
<1>6. Decided' /\ Late'
  BY SMTT(30), <1>1 DEF CertInv, DecisionInv, Decided, Late, Dead
<1>7. Granted'
  BY <1>1, Zenon DEF CertInv, DecisionInv, Granted, NoEscalation
<1>8. QED
  BY <1>2, <1>3, <1>4, <1>5, <1>6, <1>7, Zenon DEF CertInv, CRLInv, DecisionInv

(* A crash ends the requests of its replica, and with them its mutex. *)
LEMMA CrashKeeps ==
  ASSUME Typed, CertInv, NEW x \in Replicas, Crash(x)
  PROVE  Typed' /\ CertInv'
<1>1. /\ UNCHANGED <<now, certs, roles, audit, by, acked>>
      /\ crl' = [crl EXCEPT ![x] = NoCRL] /\ mutex' = [mutex EXCEPT ![x] = None]
  BY Zenon DEF Crash, tables, history
<1>2. \A v \in Workers :
        \/ pc'[v] = pc[v] /\ req'[v] = req[v] /\ req[v].home # x
        \/ pc'[v] = "idle" /\ req'[v] = NoRequest /\ req[v].home = x
  BY Zenon DEF Crash
<1>3. /\ NoRequest.home = None /\ NoRequest.reply = "none" /\ NoRequest.did = FALSE
      /\ NoRequest.late = FALSE
  BY Zenon DEF NoRequest
<1>4. Typed'
  <2>1. NoRequest \in Request /\ "idle" \in Points /\ NoCRL \in Cache
    BY NoRequestTyped, Zenon DEF Points, NoCRL, Cache
  <2>2. pc' \in [Workers -> Points] /\ req' \in [Workers -> Request]
    BY <2>1, Zenon DEF Crash, Typed
  <2>3. crl' \in [Replicas -> Cache] /\ mutex' \in [Replicas -> Workers \cup {None}]
    BY <1>1, <2>1, Zenon DEF Typed
  <2>4. QED
    BY <1>1, <2>2, <2>3, Zenon DEF Typed
<1>5. Sane'
  <2>. SUFFICES ASSUME NEW v \in Workers PROVE Local(v)'
    BY Zenon DEF Sane
  <2>1. CASE pc'[v] = pc[v] /\ req'[v] = req[v]
    BY <2>1, Zenon DEF CertInv, Sane, Local
  <2>2. CASE pc'[v] = "idle" /\ req'[v] = NoRequest
    BY <1>3, <2>2, Zenon DEF Local, Authorizing, Issuing, Revoking
  <2>3. QED
    BY <1>2, <2>1, <2>2, Zenon
<1>6. LockAccounted'
  <2>1. /\ \A y \in Replicas : mutex[y] # None => mutex[y] \in Workers /\ req[mutex[y]].home = y
        /\ \A v \in Workers : pc[v] \in {"find", "sign"} <=> \E y \in Replicas : mutex[y] = v
    BY ZenonT(40) DEF CertInv, CRLInv, LockAccounted, Typed
  <2>2. mutex'[x] = None /\ \A y \in Replicas \ {x} : mutex'[y] = mutex[y]
    BY <1>1, Zenon DEF Typed
  <2>3. None \notin Workers
    BY CertificatesAssumption, Zenon
  <2>4. ASSUME NEW y \in Replicas, mutex'[y] # None
        PROVE  req'[mutex'[y]].home = y
    BY <1>2, <2>1, <2>2, <2>4
  <2>5. ASSUME NEW v \in Workers
        PROVE  pc'[v] \in {"find", "sign"} <=> \E y \in Replicas : mutex'[y] = v
    <3>1. CASE req[v].home = x
      <4>1. pc'[v] \notin {"find", "sign"}
        BY <1>2, <3>1, Zenon
      <4>2. ASSUME NEW y \in Replicas PROVE mutex'[y] # v
        BY <2>1, <2>2, <2>3, <3>1
      <4>3. QED
        BY <4>1, <4>2, Zenon
    <3>2. CASE req[v].home # x
      <4>1. pc'[v] = pc[v]
        BY <1>2, <3>2, Zenon
      <4>2. \A y \in Replicas : mutex'[y] = v <=> mutex[y] = v
        BY <2>1, <2>2, <2>3, <3>2, SMTT(20)
      <4>3. QED
        BY <2>1, <4>1, <4>2, Zenon
    <3>3. QED
      BY <3>1, <3>2, Zenon
  <2>6. QED
    BY <2>4, <2>5, Zenon DEF LockAccounted
<1>7. \A y \in Replicas : \/ crl'[y] = crl[y]
                          \/ crl'[y].cached = FALSE /\ crl'[y].list = {}
  BY <1>1, Zenon DEF NoCRL, Typed
<1>8. Listed'
  BY ZenonT(30), <1>1, <1>2, <1>7 DEF CertInv, CRLInv, Listed, Dead
<1>9. Timely'
  BY <1>1, <1>2, <1>7, Zenon DEF CertInv, CRLInv, Timely, Dead
<1>10. Sound'
  BY <1>1, <1>2, <1>7, Zenon DEF CertInv, CRLInv, Sound, Dead
<1>11. \A v \in Workers : req'[v].did = TRUE \/ req'[v].late = TRUE
                          => pc'[v] = pc[v] /\ req'[v] = req[v]
  BY SMTT(30), <1>2, <1>3
<1>12. Decided' /\ Late'
  <2>1. Decided'
    <3>1. SUFFICES ASSUME NEW w \in Workers, req'[w].did = TRUE
                   PROVE  /\ pc'[w] \in {"auditRevoke", "invalidate", "reply"}
                          /\ req'[w].serial \in Serials
                          /\ Dead(req[w].serial)
                          /\ certs[req'[w].serial].reason = req'[w].reason
                          /\ (pc'[w] = "invalidate" \/ req'[w].reply = "ok"
                                => <<"revoke", req'[w].serial>> \in audit)
                          /\ \A v \in Workers : v # w /\ req'[v].did = TRUE
                                               => req'[v].serial # req'[w].serial
      BY Zenon, <1>1, <1>11 DEF Decided, Dead
    <3>2. pc'[w] = pc[w] /\ req'[w] = req[w]
      BY <1>11, <3>1, Zenon
    <3>3. QED
      BY <1>11, <3>1, <3>2, SMTT(20) DEF CertInv, DecisionInv, Decided
  <2>2. Late'
    BY Zenon, <1>1, <1>11 DEF CertInv, DecisionInv, Late, Dead
  <2>3. QED
    BY <2>1, <2>2, Zenon
<1>13. \A v \in Workers : pc'[v] # "idle" => pc'[v] = pc[v] /\ req'[v] = req[v]
  BY SMTT(30), <1>2
<1>14. Granted'
  BY <1>1, <1>13, SMTT(20) DEF CertInv, DecisionInv, Granted, NoEscalation, Issuing
<1>15. QED
  BY SMTT(30), <1>4, <1>5, <1>6, <1>8, <1>9, <1>10, <1>12, <1>14
     DEF CertInv, CRLInv, DecisionInv

LEMMA StutterKeeps ==
  ASSUME Typed, CertInv, UNCHANGED vars
  PROVE  Typed' /\ CertInv'
<1>1. UNCHANGED <<now, certs, roles, audit, crl, mutex, pc, req, by, acked>>
  BY SMTT(30) DEF vars, tables, history
<1>2. Typed' /\ Sane' /\ LockAccounted' /\ Listed'
  <2>1. Typed'
    BY <1>1, Zenon DEF Typed
  <2>2. Sane'
    BY <1>1, ZenonT(40) DEF CertInv, Sane, Local
  <2>3. LockAccounted'
    BY <1>1, Zenon DEF CertInv, CRLInv, LockAccounted
  <2>4. Listed'
    BY <1>1, Zenon DEF CertInv, CRLInv, Listed, Dead
  <2>5. QED
    BY <2>1, <2>2, <2>3, <2>4, Zenon
<1>3. Timely' /\ Sound'
  BY SMTT(30), <1>1 DEF CertInv, CRLInv, Timely, Sound, Dead
<1>4. Decided' /\ Late' /\ Granted'
  BY <1>1, SMTT(20) DEF CertInv, DecisionInv, Decided, Late, Granted, NoEscalation, Dead
<1>5. QED
  BY <1>2, <1>3, <1>4, Zenon DEF CertInv, CRLInv, DecisionInv

LEMMA InvInit ==
  ASSUME Init
  PROVE  Typed /\ CertInv
<1>1. /\ now = 0 /\ CRLValidity \in Nat
      /\ \A w \in Workers : pc[w] = "idle" /\ req[w] = NoRequest
      /\ \A x \in Replicas : crl[x] = NoCRL /\ mutex[x] = None /\ acked[x] = {}
      /\ None \notin Workers \cup Serials \cup Roles
  BY Zenon, CertificatesAssumption DEF Init
<1>2. /\ NoRequest.home = None /\ NoRequest.reply = "none" /\ NoRequest.did = FALSE
      /\ NoRequest.late = FALSE /\ NoCRL.cached = FALSE /\ NoCRL.list = {}
  BY Zenon DEF NoRequest, NoCRL
<1>3. certs \in [Known -> Cert]
  BY Zenon DEF Init, Cert
<1>4. Typed
  <2>1. NoRequest \in Request /\ "idle" \in Points /\ NoCRL \in Cache
    BY NoRequestTyped, Zenon DEF Points, NoCRL, Cache
  <2>2. roles \in [Serials -> Roles \cup {None}]
    BY Zenon DEF Init, Roles
  <2>3. QED
    BY <1>3, <2>1, <2>2, Zenon DEF Init, Typed
<1>5. Sane
  BY <1>1, <1>2, Zenon DEF Sane, Local, Authorizing, Issuing, Revoking
<1>6. LockAccounted /\ Listed /\ Timely
  BY <1>1, <1>2, Zenon DEF LockAccounted, Listed, Timely
<1>7. Sound
  BY <1>1, <1>2, Zenon DEF Init, Sound, Known
<1>8. Decided /\ Late
  BY <1>1, <1>2, Zenon DEF Decided, Late
<1>9. Granted
  <2>1. \A s \in Serials : certs[s].status = "absent" => s \notin {Admin, Manager}
    BY Zenon DEF Init, Known
  <2>2. \A s \in Serials \ {Admin, Manager} : roles[s] = None
    BY Zenon DEF Init
  <2>3. QED
    BY <1>1, <2>1, <2>2, Zenon DEF Granted, NoEscalation, Issuing
<1>10. QED
  BY <1>4, <1>5, <1>6, <1>7, <1>8, <1>9, Zenon DEF CertInv, CRLInv, DecisionInv

(* The inductive invariant of the certificate API: in every reachable      *)
(* state each replica's CRL, its mutex and the rows are as CertInv says.   *)
THEOREM CertificateInvariant == Spec => [](Typed /\ CertInv)
<1>1. Init => Typed /\ CertInv
  BY InvInit, Zenon
<1>2. Typed /\ CertInv /\ [Next]_vars => Typed' /\ CertInv'
  BY RequestKeeps, TickKeeps, CrashKeeps, StutterKeeps, Zenon DEF Next
<1>3. QED
  BY <1>1, <1>2, PTL DEF Spec

(* Once handleRevokeCertificate answered 200, no CRL that its replica      *)
(* caches lacks the certificate, whichever builds were under way.          *)
THEOREM AcknowledgedListed == Spec => []AckedListed
<1>1. Typed /\ CertInv => AckedListed
  BY Zenon DEF CertInv, CRLInv, Listed, AckedListed, Typed, Cache
<1>2. QED
  BY <1>1, CertificateInvariant, PTL

(* The CRL mutex of a replica is held exactly by the request that builds   *)
(* there, after faults and crashes too.                                    *)
THEOREM MutexAccounted == Spec => []LockAccounted
<1>1. Typed /\ CertInv => LockAccounted
  BY Zenon DEF CertInv, CRLInv
<1>2. QED
  BY <1>1, CertificateInvariant, PTL

(* A replica that serves a CRL from its cache misses no revocation that is *)
(* CRLValidity old.                                                        *)
THEOREM CRLStaleness == Spec => []StalenessBounded
<1>1. Typed /\ CertInv => StalenessBounded
  <2>. SUFFICES ASSUME Typed, CertInv, NEW x \in Replicas, NEW s \in Known,
                       Fresh(crl[x]), certs[s].status = "revoked",
                       certs[s].at + CRLValidity <= now
                PROVE  s \in crl[x].list
    BY Zenon DEF StalenessBounded
  <2>1. crl[x].cached = TRUE /\ now < crl[x].expires
    BY Zenon DEF Fresh, Typed, Cache
  <2>2. crl[x].expires \in Nat /\ now \in Nat /\ certs[s].at \in Nat /\ CRLValidity \in Nat
    BY CertificatesAssumption, Zenon DEF Typed, Cache, Cert
  <2>3. certs[s].at + CRLValidity < crl[x].expires
    BY <2>1, <2>2, SMTT(20)
  <2>4. QED
    BY <2>1, <2>3, Zenon DEF CertInv, CRLInv, Timely, Dead
<1>2. QED
  BY <1>1, CertificateInvariant, PTL

(* A cached CRL lists only leaves that OCSP reports revoked, and the       *)
(* intermediate's certificate is never revoked.                            *)
THEOREM CRLAgreesWithOCSP == Spec => []CRLSound
<1>1. Typed /\ CertInv => CRLSound
  BY Zenon DEF CertInv, CRLInv, Sound, CRLSound, OCSPStatus, Dead
<1>2. QED
  BY <1>1, CertificateInvariant, PTL

(* One request at most revokes a certificate, with the reason stored and,  *)
(* when it answers 200, the revocation audited.                            *)
THEOREM RevokedOnce == Spec => []RevokeDecidedOnce
<1>1. Typed /\ CertInv => RevokeDecidedOnce
  <2>. SUFFICES ASSUME Typed, CertInv PROVE RevokeDecidedOnce
    BY Zenon
  <2>1. \A w \in Workers : req[w].did \in BOOLEAN
    BY SMTT(30) DEF Typed, Request
  <2>2. QED
    BY <2>1, Zenon DEF CertInv, DecisionInv, Decided, RevokeDecidedOnce, Dead
<1>2. QED
  BY <1>1, CertificateInvariant, PTL

(* A caller whose certificate was revoked before the request arrived never *)
(* reaches a handler.                                                      *)
THEOREM LateTurnedAway == Spec => []NoLateAuthorization
<1>1. Typed /\ CertInv => NoLateAuthorization
  <2>. SUFFICES ASSUME Typed, CertInv PROVE NoLateAuthorization
    BY Zenon
  <2>1. \A w \in Workers : req[w].late \in BOOLEAN
    BY Zenon DEF Typed, Request
  <2>2. QED
    BY <2>1, Zenon DEF CertInv, DecisionInv, Late, NoLateAuthorization
<1>2. QED
  BY <1>1, CertificateInvariant, PTL

(* A role other than the initial ones was granted for an administrator.    *)
THEOREM RolesFromAdmins == Spec => []NoEscalation
<1>1. Typed /\ CertInv => NoEscalation
  BY Zenon DEF CertInv, DecisionInv, Granted
<1>2. QED
  BY <1>1, CertificateInvariant, PTL

(* What a step may never do to a row of certificates: bring a revoked one  *)
(* back or rewrite its reason or time (revoked_at IS NULL in the UPDATE of *)
(* the store's Revoke), revoke one never issued, or unissue one.           *)
RowAdvances(s) ==
  /\ certs[s].status = "revoked" => certs'[s] = certs[s]
  /\ certs'[s].status = "revoked" => certs[s].status # "absent"
  /\ certs[s].status # "absent" => certs'[s].status # "absent"

RowsAdvance == \A s \in Known : RowAdvances(s)

LEMMA CertStepAdvances ==
  ASSUME CertStep
  PROVE  RowsAdvance
<1>. SUFFICES ASSUME NEW s \in Known PROVE RowAdvances(s)
  BY Zenon DEF RowsAdvance
<1>1. CASE certs'[s] = certs[s]
  BY <1>1, Zenon DEF RowAdvances
<1>2. CASE certs[s].status = "absent" /\ certs'[s].status = "good"
  BY <1>2, Zenon DEF RowAdvances
<1>3. CASE certs[s].status = "good" /\ certs'[s].status = "revoked"
  BY <1>3, Zenon DEF RowAdvances
<1>4. QED
  BY <1>1, <1>2, <1>3, Zenon DEF CertStep, Dead

(* A revocation is final: whatever requests, crashes and failed queries    *)
(* interleave, a row goes from absent to good to revoked and stays as its  *)
(* one Revoke wrote it.                                                    *)
THEOREM RevocationsFinal == Spec => [][RowsAdvance]_vars
<1>1. Typed /\ CertInv /\ [Next]_vars => [RowsAdvance]_vars
  <2>. SUFFICES ASSUME Typed, CertInv, Next PROVE RowsAdvance
    BY Zenon
  <2>1. CASE UNCHANGED certs
    BY <2>1, Zenon DEF RowsAdvance, RowAdvances
  <2>2. ASSUME NEW w \in Workers, Arrive(w) \/ Step(w)
        PROVE  RowsAdvance
    BY <2>2, RequestSteps, CertStepAdvances, Zenon DEF RequestStep
  <2>3. Tick => UNCHANGED certs
    BY Zenon DEF Tick, tables
  <2>4. ASSUME NEW x \in Replicas, Crash(x)
        PROVE  UNCHANGED certs
    BY <2>4, Zenon DEF Crash, tables
  <2>5. QED
    BY <2>1, <2>2, <2>3, <2>4, Zenon DEF Next
<1>2. QED
  BY <1>1, CertificateInvariant, PTL DEF Spec
=============================================================================
