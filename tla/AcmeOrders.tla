----------------------------- MODULE AcmeOrders -----------------------------
(***************************************************************************)
(* ACME orders: POST /v1/acme/new-order and POST .../finalize, served by   *)
(* any number of concurrent requests over one store (internal/api/acme.go, *)
(* internal/api/certificates.go).  Every store call of a handler is a step *)
(* of its own, so requests of one replica or of several interleave between *)
(* any two calls; the SQL statement behind a call is atomic.               *)
(*                                                                         *)
(* A store call ends in one of three ways:                                 *)
(*   "ok"     it took effect and answered;                                 *)
(*   "lost"   it failed and had no effect;                                 *)
(*   "ghost"  it took effect but the answer was lost (dropped connection,  *)
(*            cancelled request), so the handler sees an error.            *)
(* A request that dies with its process stops between two calls.           *)
(***************************************************************************)
EXTENDS AcmeNonces, FiniteSets

CONSTANTS
  Workers,     \* request slots: how many requests are in flight at once
  Accounts,    \* ACME accounts; rows are never changed once created
  RoleOf,      \* the role column of each account
  Orders,      \* order ids (random, so each new order has a fresh one)
  Serials,     \* certificate serials (random, likewise)
  Names,       \* identifiers an order or a CSR may carry
  None,        \* no value
  FaultPoints, \* where faults may strike: store calls by their point, "crash"
  MaxFaults    \* bound: how many faults a behaviour has

Roles == {"admin", "manager"}

ASSUME OrdersAssumption ==
  /\ RoleOf \in [Accounts -> Roles]
  /\ None \notin Accounts \cup Orders \cup Serials \cup Names \cup Roles
  /\ MaxFaults \in Nat

VARIABLES
  orders,   \* table acme_orders
  certs,    \* table certificates; field order is history: what it was issued for
  roles,    \* table client_roles
  audit,    \* table audit_log, as a set of <<action, serial>>
  pc,       \* where each request stands
  req,      \* the local variables of its handler
  faults    \* how many faults happened

tables == <<orders, certs, roles, audit>>
vars == <<now, nonceVars, tables, pc, req, faults>>

Status == {"absent", "ready", "processing", "valid"}

Order == [status: Status, acct: Accounts \cup {None}, name: Names \cup {None},
          cert: Serials \cup {None}]

Cert == [status: {"absent", "good", "revoked"}, name: Names \cup {None},
         order: Orders \cup {None}]

Request == [acct: Accounts \cup {None}, order: Orders \cup {None},
            name: Names \cup {None}, serial: Serials \cup {None},
            reply: {"none", "badNonce", "rejected", "notFound", "notReady",
                    "error", "created", "valid"}]

NoRequest == [acct |-> None, order |-> None, name |-> None, serial |-> None,
              reply |-> "none"]

(* The points of handleACMEFinalize at which the request holds its claim. *)
Holding == {"issue", "auditIssue", "assign", "revoke", "auditRevoke", "record"}

Points == {"idle", "newOrder", "getOrder", "claim", "reply"} \cup Holding

Init ==
  /\ NonceInit
  /\ orders = [o \in Orders |-> [status |-> "absent", acct |-> None,
                                 name |-> None, cert |-> None]]
  /\ certs = [s \in Serials |-> [status |-> "absent", name |-> None,
                                 order |-> None]]
  /\ roles = [s \in Serials |-> None]
  /\ audit = {}
  /\ pc = [w \in Workers |-> "idle"]
  /\ req = [w \in Workers |-> NoRequest]
  /\ faults = 0

-----------------------------------------------------------------------------
(* Store calls and control flow. *)

Outcome == {"ok", "lost", "ghost"}

(* A store call of w with outcome r; a failure draws on the bound. *)
Call(w, r) ==
  /\ r # "ok" => pc[w] \in FaultPoints /\ faults < MaxFaults
  /\ faults' = IF r = "ok" THEN faults ELSE faults + 1
  /\ UNCHANGED <<now, nonceVars>>

Goto(w, p) == pc' = [pc EXCEPT ![w] = p]

(* The handler has its response, which names the order it is about. *)
Answer(w, a) ==
  /\ Goto(w, "reply")
  /\ req' = [req EXCEPT ![w].reply = a]

(* UPDATE acme_orders SET status, cert_serial WHERE id = o AND status = from. *)
UpdateStatusBlind(o, from, to, s) ==
  orders' = [orders EXCEPT ![o].status = to, ![o].cert = s]

UpdateStatus(o, from, to, s) ==
  orders' = IF orders[o].status = from
            THEN [orders EXCEPT ![o].status = to, ![o].cert = s]
            ELSE orders

-----------------------------------------------------------------------------
(* verifiedJWS and resolveACMEAccount, for a request q that goes to point  *)
(* p when both accept it: the nonce is spent before the URL, signature and *)
(* account checks, which reject a request that is not authentic.  A body   *)
(* that is no JWS, a nonce that is not valid and a DELETE that fails all   *)
(* leave the nonce as it is; one that deletes and then fails is like a     *)
(* rejection.                                                              *)
Accept(w, n, authentic, q, p) ==
  /\ pc[w] = "idle"
  /\ \/ /\ Consume(n)
        /\ IF authentic
           THEN /\ Goto(w, p)
                /\ req' = [req EXCEPT ![w] = q]
           ELSE Answer(w, "rejected")
     \/ /\ UNCHANGED nonceVars
        /\ Answer(w, "badNonce")
  /\ UNCHANGED <<now, tables, faults>>

(* Bound: an order id is left for every new-order request in flight. *)
OrderRoom ==
  Cardinality({w \in Workers : pc[w] = "newOrder"})
    < Cardinality({o \in Orders : orders[o].status = "absent"})

(* POST /v1/acme/new-order.  A payload without exactly one non-empty       *)
(* trustmate-client identifier is rejected like an unauthentic request.    *)
ReceiveNewOrder(w) ==
  /\ OrderRoom
  /\ \E n \in Nonce, authentic \in BOOLEAN, a \in Accounts, name \in Names :
       Accept(w, n, authentic,
              [NoRequest EXCEPT !.acct = a, !.name = name], "newOrder")

(* POST /v1/acme/order/{id}/finalize; name is the CSR's common name, None  *)
(* when the payload or the CSR does not parse.                             *)
ReceiveFinalize(w) ==
  \E n \in Nonce, authentic \in BOOLEAN, a \in Accounts, o \in Orders,
     name \in Names \cup {None} :
    Accept(w, n, authentic,
           [NoRequest EXCEPT !.acct = a, !.order = o, !.name = name], "getOrder")

(* handleACMENewOrder inserts the order, ready from the start. *)
CreateOrder(w, r) ==
  /\ pc[w] = "newOrder"
  /\ Call(w, r)
  /\ \E o \in Orders :
       /\ orders[o].status = "absent"
       /\ orders' = IF r = "lost" THEN orders
                    ELSE [orders EXCEPT ![o] = [status |-> "ready",
                            acct |-> req[w].acct, name |-> req[w].name, cert |-> None]]
       /\ req' = [req EXCEPT ![w].order = o,
                             ![w].reply = IF r = "ok" THEN "created" ELSE "error"]
  /\ Goto(w, "reply")
  /\ UNCHANGED <<certs, roles, audit>>

(* handleACMEFinalize's checks on the order it read, in the code's order: *)
(* an order that is already valid answers before the CSR is looked at.    *)
VerdictAnyAccount(w, o) ==
  IF o.status = "absent" THEN "notFound"
  ELSE IF o.status = "valid" THEN "valid"
  ELSE IF o.status # "ready" THEN "notReady"
  ELSE IF o.name # req[w].name THEN "rejected"
  ELSE "go"

Verdict(w, o) ==
  IF o.status = "absent" THEN "notFound"
  ELSE IF o.acct # req[w].acct THEN "rejected"
  ELSE IF o.status = "valid" THEN "valid"
  ELSE IF o.status # "ready" THEN "notReady"
  ELSE IF o.name # req[w].name THEN "rejected"
  ELSE "go"

GetOrder(w, r) ==
  /\ pc[w] = "getOrder"
  /\ r # "ghost"
  /\ Call(w, r)
  /\ LET o == orders[req[w].order]
         v == Verdict(w, o)
     IN IF r = "lost"
        THEN Answer(w, "error")
        ELSE IF v = "go"
        THEN Goto(w, "claim") /\ UNCHANGED req
        ELSE /\ Goto(w, "reply")
             /\ req' = [req EXCEPT ![w].reply = v,
                          ![w].serial = IF v = "valid" THEN o.cert ELSE None]
  /\ UNCHANGED tables

(* The claim: a compare-and-swap from ready to processing. *)
ClaimLoserGoesOn(w, r) ==
  /\ pc[w] = "claim"
  /\ Call(w, r)
  /\ IF r = "lost" THEN UNCHANGED orders
     ELSE UpdateStatus(req[w].order, "ready", "processing", None)
  /\ IF r = "ok"
     THEN Goto(w, "issue") /\ UNCHANGED req
     ELSE Answer(w, "error")
  /\ UNCHANGED <<certs, roles, audit>>

Claim(w, r) ==
  /\ pc[w] = "claim"
  /\ Call(w, r)
  /\ LET claimed == orders[req[w].order].status = "ready"
     IN /\ IF r = "lost" THEN UNCHANGED orders
           ELSE UpdateStatus(req[w].order, "ready", "processing", None)
        /\ IF r = "ok" /\ claimed
           THEN Goto(w, "issue") /\ UNCHANGED req
           ELSE Answer(w, IF r = "ok" THEN "notReady" ELSE "error")
  /\ UNCHANGED <<certs, roles, audit>>

(* issueLeafCertificate up to Certificates().Create: signing and insert. *)
IssueLeaf(w, r) ==
  /\ pc[w] = "issue"
  /\ Call(w, r)
  /\ \E s \in Serials :
       /\ certs[s].status = "absent"
       /\ certs' = IF r = "lost" THEN certs
                   ELSE [certs EXCEPT ![s] = [status |-> "good",
                           name |-> req[w].name, order |-> req[w].order]]
       /\ IF r = "ok"
          THEN Goto(w, "auditIssue") /\ req' = [req EXCEPT ![w].serial = s]
          ELSE Answer(w, "error")
  /\ UNCHANGED <<orders, roles, audit>>

(* ... and its audit entry, whose failure fails the request. *)
AuditIssue(w, r) ==
  /\ pc[w] = "auditIssue"
  /\ Call(w, r)
  /\ audit' = IF r = "lost" THEN audit
              ELSE audit \cup {<<"acme-issue", req[w].serial>>}
  /\ IF r = "ok" THEN Goto(w, "assign") /\ UNCHANGED req ELSE Answer(w, "error")
  /\ UNCHANGED <<orders, certs, roles>>

(* assignRoleOrRevoke: the role assignment ... *)
AssignKeepGoing(w, r) ==
  /\ pc[w] = "assign"
  /\ Call(w, r)
  /\ roles' = IF r = "lost" THEN roles
              ELSE [roles EXCEPT ![req[w].serial] = RoleOf[req[w].acct]]
  /\ Goto(w, "record")
  /\ UNCHANGED <<req, orders, certs, audit>>

AssignRole(w, r) ==
  /\ pc[w] = "assign"
  /\ Call(w, r)
  /\ roles' = IF r = "lost" THEN roles
              ELSE [roles EXCEPT ![req[w].serial] = RoleOf[req[w].acct]]
  /\ Goto(w, IF r = "ok" THEN "record" ELSE "revoke")
  /\ UNCHANGED <<req, orders, certs, audit>>

(* ... on failure the compensating revoke, whose own failure is logged ... *)
CompensatingRevoke(w, r) ==
  /\ pc[w] = "revoke"
  /\ Call(w, r)
  /\ certs' = IF r = "lost" THEN certs
              ELSE [certs EXCEPT ![req[w].serial].status = "revoked"]
  /\ IF r = "ok" THEN Goto(w, "auditRevoke") /\ UNCHANGED req
     ELSE Answer(w, "error")
  /\ UNCHANGED <<orders, roles, audit>>

(* ... and its audit entry.  The request fails either way. *)
AuditRevoke(w, r) ==
  /\ pc[w] = "auditRevoke"
  /\ Call(w, r)
  /\ audit' = IF r = "lost" THEN audit
              ELSE audit \cup {<<"revoke", req[w].serial>>}
  /\ Answer(w, "error")
  /\ UNCHANGED <<orders, certs, roles>>

(* The record: processing to valid.  A lost swap is only logged, so the    *)
(* request succeeds with its own serial whether or not the row changed.    *)
RecordFromReady(w, r) ==
  /\ pc[w] = "record"
  /\ Call(w, r)
  /\ IF r = "lost" THEN UNCHANGED orders
     ELSE UpdateStatus(req[w].order, "ready", "valid", req[w].serial)
  /\ Answer(w, IF r = "ok" THEN "valid" ELSE "error")
  /\ UNCHANGED <<certs, roles, audit>>

Record(w, r) ==
  /\ pc[w] = "record"
  /\ Call(w, r)
  /\ IF r = "lost" THEN UNCHANGED orders
     ELSE UpdateStatus(req[w].order, "processing", "valid", req[w].serial)
  /\ Answer(w, IF r = "ok" THEN "valid" ELSE "error")
  /\ UNCHANGED <<certs, roles, audit>>

(* Every response, problem documents included, carries a new nonce. *)
Reply(w) ==
  /\ pc[w] = "reply"
  /\ Goto(w, "idle")
  /\ req' = [req EXCEPT ![w] = NoRequest]
  /\ IssueNonce
  /\ UNCHANGED <<now, tables, faults>>

(* The process dies, or the client is gone before anything is sent. *)
Crash(w) ==
  /\ pc[w] # "idle"
  /\ "crash" \in FaultPoints
  /\ faults < MaxFaults
  /\ faults' = faults + 1
  /\ Goto(w, "idle")
  /\ req' = [req EXCEPT ![w] = NoRequest]
  /\ UNCHANGED <<now, nonceVars, tables>>

-----------------------------------------------------------------------------
Environment == (Tick \/ NewNonce) /\ UNCHANGED <<tables, pc, req, faults>>

Receive(w) == ReceiveNewOrder(w) \/ ReceiveFinalize(w)

StoreStep(w, r) ==
  \/ CreateOrder(w, r)
  \/ GetOrder(w, r)
  \/ Claim(w, r)
  \/ IssueLeaf(w, r)
  \/ AuditIssue(w, r)
  \/ AssignRole(w, r)
  \/ CompensatingRevoke(w, r)
  \/ AuditRevoke(w, r)
  \/ Record(w, r)

Step(w) == Reply(w) \/ \E r \in Outcome : StoreStep(w, r)

Next ==
  \/ Environment
  \/ \E w \in Workers : Receive(w) \/ Step(w) \/ Crash(w)

Spec == Init /\ [][Next]_vars

(* A handler that runs is scheduled again: net/http gives each request its *)
(* goroutine and nothing in the handlers waits for another request.        *)
FairSpec == Spec /\ \A w \in Workers : WF_vars(Step(w))

-----------------------------------------------------------------------------
TypeOK ==
  /\ NonceTypeOK
  /\ orders \in [Orders -> Order]
  /\ certs \in [Serials -> Cert]
  /\ roles \in [Serials -> Roles \cup {None}]
  /\ audit \in SUBSET ({"acme-issue", "revoke"} \X Serials)
  /\ pc \in [Workers -> Points]
  /\ req \in [Workers -> Request]
  /\ faults \in 0..MaxFaults

(* One order never yields two certificates, whatever finalize requests     *)
(* race or are retried and wherever store calls fail or the process dies:  *)
(* the claim decides before anything is signed, and nothing releases it.   *)
SingleIssuance ==
  \A s, t \in Serials :
    certs[s].order # None /\ certs[s].order = certs[t].order => s = t

Holds(w, o) == pc[w] \in Holding /\ req[w].order = o

(* The invariant the comment on !recorded relies on: a request past its    *)
(* claim is the only one on that order and still finds it processing, so   *)
(* the final swap cannot be lost.                                          *)
SoleClaim ==
  \A w \in Workers, o \in Orders :
    Holds(w, o) => /\ orders[o].status = "processing"
                   /\ \A v \in Workers : Holds(v, o) => v = w

(* What GET .../certificate relies on: a valid order names a certificate   *)
(* that exists, was issued for it with its identifier, is not the one a    *)
(* compensating revoke took back, carries the account's role and is in     *)
(* the audit log.  (The revoke route is not in this module: "good" means   *)
(* as the order flow left it.)                                             *)
ValidOrderBacked ==
  \A o \in Orders : orders[o].status = "valid" =>
    LET s == orders[o].cert
    IN /\ s \in Serials
       /\ certs[s] = [status |-> "good", name |-> orders[o].name, order |-> o]
       /\ roles[s] = RoleOf[orders[o].acct]
       /\ <<"acme-issue", s>> \in audit

(* A certificate carries the identifier of the order it was issued for and *)
(* no role but that of the account that placed the order, even when        *)
(* another account presents the order's id to finalize.                    *)
CertFromOrder ==
  \A s \in Serials : certs[s].order # None =>
    LET o == orders[certs[s].order]
    IN certs[s].name = o.name /\ roles[s] \in {None, RoleOf[o.acct]}

(* A finalize that answers 200, also as the idempotent retry or after a    *)
(* swap that the code would only log, names the order as it is stored: the *)
(* caller's own, valid, with the serial in the response.  A 201 of         *)
(* new-order names an order of the caller.                                 *)
ReplyTruthful ==
  \A w \in Workers :
    /\ req[w].reply = "valid" =>
         LET o == orders[req[w].order]
         IN o.status = "valid" /\ o.acct = req[w].acct /\ o.cert = req[w].serial
    /\ req[w].reply = "created" =>
         LET o == orders[req[w].order]
         IN o.status # "absent" /\ o.acct = req[w].acct

(* An order never goes back: its status moves absent, ready, processing,   *)
(* valid one at a time, its account and identifier never change once       *)
(* stored and a valid order keeps its certificate.                         *)
OrderForward ==
  [][\A o \in Orders : orders'[o] # orders[o] =>
       \/ orders[o].status = "absent" /\ orders'[o].status = "ready"
       \/ /\ <<orders[o].status, orders'[o].status>> \in
               {<<"ready", "processing">>, <<"processing", "valid">>}
          /\ orders'[o].acct = orders[o].acct
          /\ orders'[o].name = orders[o].name]_vars

(* What assignRoleOrRevoke is for: when role assignments fail and nothing  *)
(* else does, no certificate is left that authenticates but authorizes     *)
(* nothing: once its request has gone, it is revoked or has its role.      *)
NoIdleCert ==
  \A s \in Serials :
    certs[s].status = "good" /\ roles[s] = None
      => \E w \in Workers : pc[w] \in Holding /\ req[w].serial = s

(* A claimed order becomes valid unless a call failed: the only way to the *)
(* stuck "processing" order of the comment on the claim is a fault, never  *)
(* what other requests on the order do.                                    *)
ClaimsComplete ==
  \A o \in Orders :
    orders[o].status = "processing" ~> orders[o].status = "valid" \/ faults > 0

-----------------------------------------------------------------------------
(* Orders as one-shot tickets: claimed once past ready, made into the      *)
(* certificates issued for them.                                           *)
OneShot == INSTANCE ClaimOnce WITH
  Tickets <- Orders,
  Products <- Serials,
  claimed <- {o \in Orders : orders[o].status \in {"processing", "valid"}},
  made <- [o \in Orders |-> {s \in Serials : certs[s].order = o}]

(* The handlers implement the one-shot ticket: a certificate is only made  *)
(* from an order claimed before, at most once per claim, and no claim is   *)
(* ever undone.                                                            *)
ImplementsClaimOnce == OneShot!Spec
=============================================================================
