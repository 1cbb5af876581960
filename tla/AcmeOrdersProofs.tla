-------------------------- MODULE AcmeOrdersProofs --------------------------
(***************************************************************************)
(* Proofs about AcmeOrders and the nonces it spends, for any number of     *)
(* requests in flight, orders, serials, accounts, nonces and faults.       *)
(***************************************************************************)
EXTENDS AcmeOrders, TLAPS

(* What the users of the table do to it in one step. *)
NonceStep ==
  \/ IssueNonce /\ UNCHANGED now
  \/ \E n \in Nonce : Consume(n) /\ UNCHANGED now
  \/ UNCHANGED <<now, nonceVars>>
  \/ Tick

(* Consuming or issuing a nonce keeps the nonce table well-typed. *)
LEMMA NonceTyped ==
  ASSUME NonceTypeOK, NonceStep
  PROVE  NonceTypeOK'
<1>. now \in Nat /\ now + NonceTTL \in Nat
  BY NonceAssumption DEF NonceTypeOK
<1>1. CASE IssueNonce /\ UNCHANGED now
  <2>1. CASE issued < MaxNonces
    <3>1. issued + 1 \in Nonce /\ issued + 1 \in 0..MaxNonces
      BY <2>1, NonceAssumption DEF NonceTypeOK, Nonce
    <3>2. QED
      BY <1>1, <2>1, <3>1, Zenon DEF NonceTypeOK, IssueNonce
  <2>2. CASE ~(issued < MaxNonces)
    BY <1>1, <2>2, Zenon DEF NonceTypeOK, IssueNonce, nonceVars
  <2>3. QED
    BY <2>1, <2>2, Zenon
<1>2. CASE \E n \in Nonce : Consume(n) /\ UNCHANGED now
  <2>1. PICK n \in Nonce : Consume(n) /\ UNCHANGED now
    BY <1>2, Zenon
  <2>2. uses[n] + 1 \in Nat
    BY DEF NonceTypeOK
  <2>3. QED
    BY <2>1, <2>2, Zenon DEF NonceTypeOK, Consume
<1>3. CASE UNCHANGED <<now, nonceVars>>
  BY <1>3, Zenon DEF NonceTypeOK, nonceVars
<1>4. CASE Tick
  BY <1>4, NonceAssumption DEF NonceTypeOK, Tick, nonceVars
<1>5. QED
  BY <1>1, <1>2, <1>3, <1>4, Zenon DEF NonceStep

(* NonceSingleUse is not inductive alone: that the next nonce to be issued *)
(* was never used needs that only issued nonces are.                       *)
NonceInv ==
  /\ NonceSingleUse
  /\ \A n \in Nonce : n > issued => uses[n] = 0 /\ n \notin live

(* The table starts empty. *)
LEMMA NonceInitInv == NonceInit => NonceInv
BY DEF NonceInit, NonceInv, NonceSingleUse

(* No step on the table lets a nonce through again. *)
LEMMA NonceKept ==
  ASSUME NonceTypeOK, NonceInv, NonceStep
  PROVE  NonceInv'
<1>. issued \in Nat /\ \A n \in Nonce : n \in Nat /\ uses[n] \in Nat
  BY NonceAssumption DEF NonceTypeOK, Nonce
<1>. USE DEF NonceInv, NonceSingleUse, NonceTypeOK
<1>1. CASE IssueNonce /\ UNCHANGED now
  <2>1. CASE issued < MaxNonces
    <3>1. issued + 1 \in Nonce
      BY <2>1, NonceAssumption DEF Nonce
    <3>2. issued' = issued + 1 /\ UNCHANGED <<uses, usedAt>>
          /\ \A n \in Nonce : n # issued + 1 => /\ expiresAt'[n] = expiresAt[n]
                                                /\ n \in live' <=> n \in live
      BY <1>1, <2>1, <3>1 DEF IssueNonce
    <3>3. uses[issued + 1] = 0
      BY <3>1
    <3>4. QED
      BY <3>2, <3>3
  <2>2. CASE ~(issued < MaxNonces)
    BY <1>1, <2>2, Zenon DEF IssueNonce, nonceVars
  <2>3. QED
    BY <2>1, <2>2, Zenon
<1>2. CASE \E n \in Nonce : Consume(n) /\ UNCHANGED now
  <2>1. PICK n \in Nonce : Consume(n) /\ UNCHANGED now
    BY <1>2, Zenon
  <2>2. n \in live /\ expiresAt[n] > now /\ uses[n] = 0 /\ ~(n > issued)
    BY <2>1 DEF Consume, Valid
  <2>3. uses'[n] = 1 /\ usedAt'[n] = now /\ n \notin live'
    BY <2>1, <2>2 DEF Consume
  <2>4. \A m \in Nonce \ {n} : /\ uses'[m] = uses[m] /\ usedAt'[m] = usedAt[m]
                               /\ m \in live' <=> m \in live
    BY <2>1, Zenon DEF Consume
  <2>5. UNCHANGED <<issued, expiresAt>>
    BY <2>1, Zenon DEF Consume
  <2>6. expiresAt[n] \in Nat /\ now \in Nat
    OBVIOUS
  <2>7. QED
    BY <2>2, <2>3, <2>4, <2>5, <2>6
<1>3. CASE UNCHANGED <<now, nonceVars>> \/ Tick
  BY <1>3, Zenon DEF Tick, nonceVars
<1>4. QED
  BY <1>1, <1>2, <1>3, Zenon DEF NonceStep

-----------------------------------------------------------------------------
(* What a handler's local variables hold at each of its points. *)
ReqOK ==
  \A w \in Workers :
    /\ pc[w] \notin {"idle", "reply"} => req[w].acct \in Accounts
    /\ pc[w] = "newOrder" => req[w].name \in Names
    /\ pc[w] \in {"getOrder", "claim"} \cup Holding => req[w].order \in Orders
    /\ pc[w] \in Holding \ {"issue"} => req[w].serial \in Serials

Typed == TypeOK /\ ReqOK

(* Typed holds at the start. *)
LEMMA InitTyped == Init => Typed
BY NonceAssumption, OrdersAssumption
DEF Init, NonceInit, Typed, TypeOK, NonceTypeOK, ReqOK, Order, Cert, Request, NoRequest,
    Status, Points, Holding, Nonce

(* The part of Typed that is about one handler's point and variables. *)
Handlers ==
  /\ pc \in [Workers -> Points]
  /\ req \in [Workers -> Request]
  /\ ReqOK

Replies == {"none", "badNonce", "rejected", "notFound", "notReady", "error", "created",
            "valid"}

(* Answering a request keeps every handler's variables as they should be. *)
LEMMA AnswerTyped ==
  ASSUME Handlers, NEW w \in Workers, NEW a \in Replies, Answer(w, a)
  PROVE  Handlers'
BY SMTT(20) DEF Handlers, Answer, Goto, Replies, Request, ReqOK, Points, Holding

(* So does going on to a point that asks for no more than the last one. *)
LEMMA GotoTyped ==
  ASSUME Handlers, NEW w \in Workers, NEW p \in Points, Goto(w, p), UNCHANGED req,
         \/ pc[w] = "getOrder" /\ p = "claim"
         \/ pc[w] = "claim" /\ p = "issue"
         \/ pc[w] \in Holding \ {"issue"} /\ p \in Holding \ {"issue"}
  PROVE  Handlers'
BY Zenon DEF Handlers, Goto, ReqOK, Points, Holding

(* And so does going on with new local variables that suit the new point. *)
LEMMA UpdateTyped ==
  ASSUME Handlers, NEW w \in Workers, NEW p \in Points, NEW q \in Request, Goto(w, p),
         req' = [req EXCEPT ![w] = q],
         \/ p = "reply"
         \/ p = "auditIssue" /\ q.acct \in Accounts /\ q.order \in Orders
                             /\ q.serial \in Serials
  PROVE  Handlers'
BY Zenon DEF Handlers, Goto, ReqOK, Points, Holding

(* Accepting or refusing a request. *)
LEMMA AcceptTyped ==
  ASSUME Typed, NEW w \in Workers, NEW n \in Nonce, NEW authentic \in BOOLEAN,
         NEW q \in Request, NEW p \in Points, Accept(w, n, authentic, q, p),
         q.acct \in Accounts,
         \/ p = "newOrder" /\ q.name \in Names
         \/ p = "getOrder" /\ q.order \in Orders
  PROVE  Typed'
<1>1. Handlers
  BY Zenon DEF Typed, TypeOK, Handlers
<1>2. Handlers'
  <2>1. CASE pc' = [pc EXCEPT ![w] = p] /\ req' = [req EXCEPT ![w] = q]
    BY <1>1, <2>1, Zenon DEF Handlers, ReqOK, Points, Holding
  <2>2. CASE Answer(w, "rejected") \/ Answer(w, "badNonce")
    BY <1>1, <2>2, AnswerTyped, Zenon DEF Replies
  <2>3. QED
    BY <2>1, <2>2, Zenon DEF Accept, Goto
<1>3. NonceTypeOK'
  <2>1. (Consume(n) /\ UNCHANGED now) \/ UNCHANGED <<now, nonceVars>>
    BY Zenon DEF Accept
  <2>2. QED
    BY <2>1, NonceTyped, Zenon DEF NonceStep, Typed, TypeOK
<1>4. UNCHANGED <<tables, faults>>
  BY Zenon DEF Accept
<1>5. QED
  BY <1>2, <1>3, <1>4, Zenon DEF Typed, TypeOK, Handlers, tables

(* Every store call keeps the tables and the handlers well-typed. *)
LEMMA StoreTyped ==
  ASSUME Typed, NEW w \in Workers, NEW r \in Outcome, StoreStep(w, r)
  PROVE  Typed'
<1>. Handlers
  BY Zenon DEF Typed, TypeOK, Handlers
<1>1. NonceTypeOK' /\ faults' \in 0..MaxFaults
  <2>1. Call(w, r)
    BY Zenon DEF StoreStep, CreateOrder, GetOrder, Claim, IssueLeaf, AuditIssue, AssignRole,
           CompensatingRevoke, AuditRevoke, Record
  <2>2. NonceTypeOK'
    BY <2>1, NonceTyped, Zenon DEF NonceStep, Call, Typed, TypeOK
  <2>3. faults' \in 0..MaxFaults
    BY <2>1, OrdersAssumption DEF Call, Typed, TypeOK
  <2>4. QED
    BY <2>2, <2>3, Zenon
<1>2. CASE CreateOrder(w, r)
  <2>1. PICK o \in Orders :
          /\ orders' = IF r = "lost" THEN orders
                       ELSE [orders EXCEPT ![o] = [status |-> "ready",
                               acct |-> req[w].acct, name |-> req[w].name,
                               cert |-> None]]
          /\ req' = [req EXCEPT ![w].order = o,
                                ![w].reply = IF r = "ok" THEN "created" ELSE "error"]
    BY <1>2, Zenon DEF CreateOrder
  <2>2. pc[w] = "newOrder" /\ pc' = [pc EXCEPT ![w] = "reply"]
        /\ UNCHANGED <<certs, roles, audit>>
    BY <1>2, Zenon DEF CreateOrder, Goto
  <2>3. Handlers'
    <3>. DEFINE q == [req[w] EXCEPT !.order = o,
                                    !.reply = IF r = "ok" THEN "created" ELSE "error"]
    <3>1. q \in Request
      BY Zenon DEF Handlers, Request
    <3>2. req' = [req EXCEPT ![w] = q]
      BY <2>1, Zenon DEF Handlers, Request
    <3>. HIDE DEF q
    <3>3. QED
      BY <2>2, <3>1, <3>2, UpdateTyped, Zenon DEF Goto, Points
  <2>4. orders' \in [Orders -> Order]
    BY <2>1, <2>2, Zenon DEF Typed, TypeOK, ReqOK, Order, Status
  <2>5. QED
    BY <1>1, <2>2, <2>3, <2>4, Zenon DEF Typed, TypeOK, Handlers
<1>3. CASE GetOrder(w, r)
  <2>1. pc[w] = "getOrder" /\ req[w].order \in Orders /\ UNCHANGED tables
    BY <1>3, Zenon DEF GetOrder, Handlers, ReqOK
  <2>2. orders[req[w].order] \in Order
    BY <2>1, Zenon DEF Typed, TypeOK
  <2>3. Handlers'
    <3>1. CASE Answer(w, "error")
      BY <3>1, AnswerTyped, Zenon DEF Replies
    <3>2. CASE Goto(w, "claim") /\ UNCHANGED req
      BY <2>1, <3>2, GotoTyped, Zenon DEF Points
    <3>3. CASE \E v \in Replies, s \in Serials \cup {None} :
                 /\ Goto(w, "reply")
                 /\ req' = [req EXCEPT ![w].reply = v, ![w].serial = s]
      <4>1. PICK v \in Replies, s \in Serials \cup {None} :
              /\ Goto(w, "reply")
              /\ req' = [req EXCEPT ![w].reply = v, ![w].serial = s]
        BY <3>3, Zenon
      <4>. DEFINE q == [req[w] EXCEPT !.reply = v, !.serial = s]
      <4>2. q \in Request
        BY Zenon DEF Handlers, Request, Replies
      <4>3. req' = [req EXCEPT ![w] = q]
        BY <4>1, Zenon DEF Handlers, Request
      <4>. HIDE DEF q
      <4>4. QED
        BY <4>1, <4>2, <4>3, UpdateTyped, Zenon DEF Points
    <3>4. QED
      <4>1. Verdict(w, orders[req[w].order]) \in {"notFound", "rejected", "valid",
                                                   "notReady", "go"}
        BY Zenon DEF Verdict
      <4>2. orders[req[w].order].cert \in Serials \cup {None}
        BY <2>2, Zenon DEF Order
      <4>3. QED
        BY <1>3, <3>1, <3>2, <3>3, <4>1, <4>2, Zenon DEF GetOrder, Replies
  <2>4. QED
    BY <1>1, <2>1, <2>3, Zenon DEF Typed, TypeOK, Handlers, tables
<1>4. CASE Claim(w, r)
  <2>1. pc[w] = "claim" /\ req[w].order \in Orders /\ UNCHANGED <<certs, roles, audit>>
    BY <1>4, Zenon DEF Claim, Handlers, ReqOK
  <2>2. orders' \in [Orders -> Order]
    BY <1>4, <2>1 DEF Claim, UpdateStatus, Typed, TypeOK, Order, Status
  <2>3. \/ Goto(w, "issue") /\ UNCHANGED req
        \/ Answer(w, "notReady")
        \/ Answer(w, "error")
    BY <1>4, Zenon DEF Claim
  <2>4. Handlers'
    BY <2>1, <2>3, AnswerTyped, GotoTyped, Zenon DEF Points, Holding, Replies
  <2>5. QED
    BY <1>1, <2>1, <2>2, <2>4, Zenon DEF Typed, TypeOK, Handlers
<1>5. CASE IssueLeaf(w, r)
  <2>1. pc[w] = "issue" /\ req[w].order \in Orders /\ UNCHANGED <<orders, roles, audit>>
    BY <1>5, Zenon DEF IssueLeaf, Handlers, ReqOK, Holding
  <2>2. PICK s \in Serials :
          /\ certs' = IF r = "lost" THEN certs
                      ELSE [certs EXCEPT ![s] = [status |-> "good",
                              name |-> req[w].name, order |-> req[w].order]]
          /\ IF r = "ok"
             THEN Goto(w, "auditIssue") /\ req' = [req EXCEPT ![w].serial = s]
             ELSE Answer(w, "error")
    BY <1>5, Zenon DEF IssueLeaf
  <2>3. certs' \in [Serials -> Cert]
    BY <2>1, <2>2, Zenon DEF Typed, TypeOK, Cert, Request
  <2>4. Handlers'
    <3>1. CASE r = "ok"
      <4>. DEFINE q == [req[w] EXCEPT !.serial = s]
      <4>1. q \in Request /\ q.serial = s /\ q.acct = req[w].acct /\ q.order = req[w].order
        BY Zenon DEF Handlers, Request
      <4>2. req' = [req EXCEPT ![w] = q]
        BY <2>2, <3>1, Zenon DEF Handlers, Request
      <4>3. q.acct \in Accounts /\ q.order \in Orders /\ q.serial \in Serials
        BY <2>1, <4>1, Zenon DEF Handlers, ReqOK, Holding
      <4>. HIDE DEF q
      <4>4. QED
        BY <2>2, <3>1, <4>1, <4>2, <4>3, UpdateTyped, Zenon DEF Points, Holding
    <3>2. CASE r # "ok"
      BY <2>2, <3>2, AnswerTyped, Zenon DEF Replies
    <3>3. QED
      BY <3>1, <3>2, Zenon
  <2>5. QED
    BY <1>1, <2>1, <2>3, <2>4, Zenon DEF Typed, TypeOK, Handlers
<1>6. CASE AuditIssue(w, r)
  <2>1. pc[w] = "auditIssue" /\ req[w].serial \in Serials
        /\ UNCHANGED <<orders, certs, roles>>
    BY <1>6, Zenon DEF AuditIssue, Handlers, ReqOK, Holding
  <2>2. audit' \in SUBSET ({"acme-issue", "revoke"} \X Serials)
    BY <1>6, <2>1 DEF AuditIssue, Typed, TypeOK
  <2>3. (Goto(w, "assign") /\ UNCHANGED req) \/ Answer(w, "error")
    BY <1>6, Zenon DEF AuditIssue
  <2>4. Handlers'
    BY <2>1, <2>3, AnswerTyped, GotoTyped, Zenon DEF Points, Holding, Replies
  <2>5. QED
    BY <1>1, <2>1, <2>2, <2>4, Zenon DEF Typed, TypeOK, Handlers
<1>7. CASE AssignRole(w, r)
  <2>1. pc[w] = "assign" /\ req[w].acct \in Accounts /\ req[w].serial \in Serials
        /\ UNCHANGED <<req, orders, certs, audit>>
    BY <1>7, Zenon DEF AssignRole, Handlers, ReqOK, Holding
  <2>2. roles' \in [Serials -> Roles \cup {None}]
    BY <1>7, <2>1, OrdersAssumption, Zenon DEF AssignRole, Typed, TypeOK
  <2>3. Goto(w, "record") \/ Goto(w, "revoke")
    BY <1>7, Zenon DEF AssignRole
  <2>4. Handlers'
    BY <2>1, <2>3, GotoTyped, Zenon DEF Points, Holding
  <2>5. QED
    BY <1>1, <2>1, <2>2, <2>4, Zenon DEF Typed, TypeOK, Handlers
<1>8. CASE CompensatingRevoke(w, r)
  <2>1. pc[w] = "revoke" /\ UNCHANGED <<orders, roles, audit>>
    BY <1>8, Zenon DEF CompensatingRevoke
  <2>2. certs' \in [Serials -> Cert]
    BY <1>8, ZenonT(20) DEF CompensatingRevoke, Typed, TypeOK, Cert
  <2>3. (Goto(w, "auditRevoke") /\ UNCHANGED req) \/ Answer(w, "error")
    BY <1>8, Zenon DEF CompensatingRevoke
  <2>4. Handlers'
    BY <2>1, <2>3, AnswerTyped, GotoTyped, Zenon DEF Points, Holding, Replies
  <2>5. QED
    BY <1>1, <2>1, <2>2, <2>4, Zenon DEF Typed, TypeOK, Handlers
<1>9. CASE AuditRevoke(w, r)
  <2>1. pc[w] = "auditRevoke" /\ req[w].serial \in Serials
        /\ UNCHANGED <<orders, certs, roles>>
    BY <1>9, Zenon DEF AuditRevoke, Handlers, ReqOK, Holding
  <2>2. audit' \in SUBSET ({"acme-issue", "revoke"} \X Serials)
    BY <1>9, <2>1 DEF AuditRevoke, Typed, TypeOK
  <2>3. Handlers'
    BY <1>9, AnswerTyped, Zenon DEF AuditRevoke, Replies
  <2>4. QED
    BY <1>1, <2>1, <2>2, <2>3, Zenon DEF Typed, TypeOK, Handlers
<1>10. CASE Record(w, r)
  <2>1. pc[w] = "record" /\ req[w].order \in Orders /\ req[w].serial \in Serials
        /\ UNCHANGED <<certs, roles, audit>>
    BY <1>10, Zenon DEF Record, Handlers, ReqOK, Holding
  <2>2. orders' \in [Orders -> Order]
    BY <1>10, <2>1 DEF Record, UpdateStatus, Typed, TypeOK, Order, Status
  <2>3. Answer(w, "valid") \/ Answer(w, "error")
    BY <1>10, Zenon DEF Record
  <2>4. Handlers'
    BY <2>3, AnswerTyped, Zenon DEF Replies
  <2>5. QED
    BY <1>1, <2>1, <2>2, <2>4, Zenon DEF Typed, TypeOK, Handlers
<1>11. QED
  BY <1>2, <1>3, <1>4, <1>5, <1>6, <1>7, <1>8, <1>9, <1>10, Zenon DEF StoreStep

(* Typed is inductive. *)
LEMMA NextTyped == Typed /\ [Next]_vars => Typed'
<1>. SUFFICES ASSUME Typed, [Next]_vars
              PROVE  Typed'
  BY Zenon
<1>. Handlers
  BY Zenon DEF Typed, TypeOK, Handlers
<1>1. CASE Environment
  <2>1. NonceTypeOK'
    BY <1>1, NonceTyped, Zenon DEF NonceStep, Environment, NewNonce, Typed, TypeOK
  <2>2. QED
    BY <1>1, <2>1, Zenon DEF Environment, Typed, TypeOK, ReqOK, tables
<1>2. ASSUME NEW w \in Workers, ReceiveNewOrder(w)
      PROVE  Typed'
  <2>1. PICK n \in Nonce, authentic \in BOOLEAN, a \in Accounts, name \in Names :
          Accept(w, n, authentic, [NoRequest EXCEPT !.acct = a, !.name = name], "newOrder")
    BY <1>2, Zenon DEF ReceiveNewOrder
  <2>. DEFINE q == [NoRequest EXCEPT !.acct = a, !.name = name]
  <2>2. q \in Request /\ q.acct \in Accounts /\ q.name \in Names
    BY Zenon DEF Request, NoRequest
  <2>. HIDE DEF q
  <2>3. Accept(w, n, authentic, q, "newOrder")
    BY <2>1, Zenon DEF q
  <2>4. QED
    BY <2>2, <2>3, AcceptTyped, Zenon DEF Points
<1>3. ASSUME NEW w \in Workers, ReceiveFinalize(w)
      PROVE  Typed'
  <2>1. PICK n \in Nonce, authentic \in BOOLEAN, a \in Accounts, o \in Orders,
             name \in Names \cup {None} :
          Accept(w, n, authentic,
                 [NoRequest EXCEPT !.acct = a, !.order = o, !.name = name], "getOrder")
    BY <1>3, Zenon DEF ReceiveFinalize
  <2>. DEFINE q == [NoRequest EXCEPT !.acct = a, !.order = o, !.name = name]
  <2>2. q \in Request /\ q.acct \in Accounts /\ q.order \in Orders
    BY Zenon DEF Request, NoRequest
  <2>. HIDE DEF q
  <2>3. Accept(w, n, authentic, q, "getOrder")
    BY <2>1, Zenon DEF q
  <2>4. QED
    BY <2>2, <2>3, AcceptTyped, Zenon DEF Points
<1>4. ASSUME NEW w \in Workers, NEW r \in Outcome, StoreStep(w, r)
      PROVE  Typed'
  BY <1>4, StoreTyped, Zenon
<1>5. ASSUME NEW w \in Workers, Reply(w) \/ Crash(w)
      PROVE  Typed'
  <2>1. pc' = [pc EXCEPT ![w] = "idle"] /\ req' = [req EXCEPT ![w] = NoRequest]
        /\ UNCHANGED tables
    BY <1>5, Zenon DEF Reply, Crash, Goto
  <2>2. Handlers'
    BY <2>1, Zenon DEF Handlers, ReqOK, Request, NoRequest, Points, Holding
  <2>3. NonceTypeOK'
    BY <1>5, NonceTyped, Zenon DEF NonceStep, Reply, Crash, Typed, TypeOK
  <2>4. faults' \in 0..MaxFaults
    BY <1>5, OrdersAssumption DEF Reply, Crash, Typed, TypeOK
  <2>5. QED
    BY <2>1, <2>2, <2>3, <2>4, Zenon DEF Typed, TypeOK, Handlers, tables
<1>6. CASE UNCHANGED vars
  BY <1>6, Zenon DEF vars, nonceVars, tables, Typed, TypeOK, NonceTypeOK, ReqOK
<1>7. QED
  BY <1>1, <1>2, <1>3, <1>4, <1>5, <1>6, Zenon DEF Next, Receive, Step

(* Type correctness: the tables and the handlers' local variables keep     *)
(* their types, whatever requests come in and whatever store calls fail.   *)
THEOREM TypeCorrect == Spec => []TypeOK
<1>1. Typed => TypeOK
  BY Zenon DEF Typed
<1>2. QED
  BY <1>1, InitTyped, NextTyped, PTL DEF Spec

-----------------------------------------------------------------------------
(* The inductive invariant behind SingleIssuance and SoleClaim.  Neither   *)
(* is inductive alone: that a second certificate cannot follow needs that  *)
(* the holder of a claim is unique until it signs, that an order with a    *)
(* certificate is past ready for good, and that a holder about to sign     *)
(* finds no certificate for its order.                                     *)
HeldIsProcessing ==
  \A w \in Workers : pc[w] \in Holding => orders[req[w].order].status = "processing"

OneHolder ==
  \A v, w \in Workers :
    pc[v] \in Holding /\ pc[w] \in Holding /\ req[v].order = req[w].order => v = w

IssuedIsClaimed ==
  \A s \in Serials : certs[s].order # None =>
    orders[certs[s].order].status \in {"processing", "valid"}

NothingSigned ==
  \A w \in Workers, s \in Serials : pc[w] = "issue" => certs[s].order # req[w].order

AbsentIsUnissued ==
  \A s \in Serials : certs[s].status = "absent" => certs[s].order = None

ClaimInv ==
  /\ HeldIsProcessing
  /\ OneHolder
  /\ IssuedIsClaimed
  /\ NothingSigned
  /\ AbsentIsUnissued
  /\ SingleIssuance

(* The invariant holds at the start: no order is held, nothing is issued. *)
LEMMA InitClaimInv == Init => ClaimInv
BY DEF Init, ClaimInv, HeldIsProcessing, OneHolder, IssuedIsClaimed, NothingSigned,
       AbsentIsUnissued, SingleIssuance, Holding

(* A step that changes neither orders nor certificates, and after which a  *)
(* handler holds or is about to sign only if it did so before, for the     *)
(* same order, keeps the invariant.                                        *)
LEMMA QuietStep ==
  ASSUME ClaimInv, UNCHANGED <<orders, certs>>,
         \A v \in Workers :
           /\ pc'[v] \in Holding => pc[v] \in Holding /\ req'[v].order = req[v].order
           /\ pc'[v] = "issue" => pc[v] = "issue"
  PROVE  ClaimInv'
<1>1. HeldIsProcessing'
  BY Zenon DEF ClaimInv, HeldIsProcessing
<1>2. OneHolder'
  BY Zenon DEF ClaimInv, OneHolder
<1>3. IssuedIsClaimed' /\ AbsentIsUnissued' /\ SingleIssuance'
  BY Zenon DEF ClaimInv, IssuedIsClaimed, AbsentIsUnissued, SingleIssuance
<1>4. NothingSigned'
  BY Zenon DEF ClaimInv, NothingSigned, Holding
<1>5. QED
  BY <1>1, <1>2, <1>3, <1>4, Zenon DEF ClaimInv

(* Claim is the only step by which a handler comes to hold an order.  It   *)
(* found the order ready, so nobody held it and nothing was issued for it. *)
LEMMA ClaimStep ==
  ASSUME Typed, ClaimInv, NEW w \in Workers, NEW r \in Outcome, Claim(w, r)
  PROVE  ClaimInv'
<1>. DEFINE o == req[w].order
<1>1. /\ pc[w] = "claim" /\ o \in Orders /\ UNCHANGED certs
      /\ pc \in [Workers -> Points] /\ req \in [Workers -> Request]
      /\ orders \in [Orders -> Order] /\ certs \in [Serials -> Cert]
  BY Zenon DEF Claim, Typed, TypeOK, ReqOK
<1>2. \A v \in Workers : req'[v].order = req[v].order
  BY <1>1 DEF Claim, Answer, Request
<1>3. \A v \in Workers \ {w} : pc'[v] = pc[v]
  BY <1>1, Zenon DEF Claim, Answer, Goto
<1>4. \A x \in Orders : orders'[x].status = orders[x].status
                        \/ /\ x = o /\ orders[x].status = "ready"
                           /\ orders'[x].status = "processing"
  BY <1>1 DEF Claim, UpdateStatus, Order
<1>5. pc'[w] \in Holding => /\ pc'[w] = "issue" /\ orders[o].status = "ready"
                            /\ orders'[o].status = "processing"
  BY <1>1 DEF Claim, UpdateStatus, Answer, Goto, Order, Holding
<1>6. \A v \in Workers : pc[v] \in Holding => req[v].order \in Orders
  BY Zenon DEF Typed, ReqOK
<1>7. \A s \in Serials : certs[s].order # None => certs[s].order \in Orders
  BY <1>1, Zenon DEF Cert
<1>8. HeldIsProcessing'
  BY <1>2, <1>3, <1>4, <1>5, <1>6, Zenon DEF ClaimInv, HeldIsProcessing
<1>9. OneHolder'
  BY <1>2, <1>3, <1>5 DEF ClaimInv, OneHolder, HeldIsProcessing
<1>10. IssuedIsClaimed' /\ AbsentIsUnissued' /\ SingleIssuance'
  BY <1>1, <1>4, <1>7, Zenon DEF ClaimInv, IssuedIsClaimed, AbsentIsUnissued, SingleIssuance
<1>11. NothingSigned'
  <2>1. orders[o].status = "ready" => \A s \in Serials : certs[s].order # o
    BY <1>1, OrdersAssumption, Zenon DEF ClaimInv, IssuedIsClaimed
  <2>2. QED
    BY <1>1, <1>2, <1>3, <1>5, <2>1 DEF ClaimInv, NothingSigned, Holding
<1>12. QED
  BY <1>8, <1>9, <1>10, <1>11, Zenon DEF ClaimInv

(* The holder signs: its order had no certificate and is processing, and   *)
(* no other handler is about to sign for it.                               *)
LEMMA IssueStep ==
  ASSUME Typed, ClaimInv, NEW w \in Workers, NEW r \in Outcome, IssueLeaf(w, r)
  PROVE  ClaimInv'
<1>. DEFINE o == req[w].order
<1>1. /\ pc[w] = "issue" /\ o \in Orders /\ UNCHANGED orders
      /\ pc \in [Workers -> Points] /\ req \in [Workers -> Request]
      /\ certs \in [Serials -> Cert]
  BY Zenon DEF IssueLeaf, Typed, TypeOK, ReqOK, Holding
<1>2. \A v \in Workers : req'[v].order = req[v].order
  BY <1>1 DEF IssueLeaf, Answer, Request
<1>3. /\ \A v \in Workers \ {w} : pc'[v] = pc[v]
      /\ pc'[w] # "issue"
  BY <1>1, Zenon DEF IssueLeaf, Answer, Goto
<1>4. PICK s \in Serials : \A t \in Serials :
        /\ certs'[t].order = certs[t].order \/ (t = s /\ certs'[t].order = o)
        /\ certs'[t].status = "absent" => certs'[t].order = certs[t].order
                                          /\ certs[t].status = "absent"
  BY <1>1 DEF IssueLeaf, Cert
<1>5. HeldIsProcessing'
  BY <1>1, <1>2, <1>3, Zenon DEF ClaimInv, HeldIsProcessing, Holding
<1>6. OneHolder'
  BY <1>1, <1>2, <1>3 DEF ClaimInv, OneHolder, Holding
<1>7. IssuedIsClaimed'
  BY <1>1, <1>4 DEF ClaimInv, IssuedIsClaimed, HeldIsProcessing, Holding
<1>8. AbsentIsUnissued'
  BY <1>4, Zenon DEF ClaimInv, AbsentIsUnissued
<1>9. NothingSigned'
  BY <1>1, <1>2, <1>3, <1>4 DEF ClaimInv, NothingSigned, OneHolder, Holding
<1>10. SingleIssuance'
  BY <1>1, <1>4 DEF ClaimInv, SingleIssuance, NothingSigned
<1>11. QED
  BY <1>5, <1>6, <1>7, <1>8, <1>9, <1>10, Zenon DEF ClaimInv

(* An order is born absent and so unheld; the holder that records it gives *)
(* its hold up.                                                            *)
LEMMA OrderStep ==
  ASSUME Typed, ClaimInv, NEW w \in Workers, NEW r \in Outcome,
         CreateOrder(w, r) \/ Record(w, r)
  PROVE  ClaimInv'
<1>1. /\ UNCHANGED certs
      /\ pc \in [Workers -> Points] /\ req \in [Workers -> Request]
      /\ orders \in [Orders -> Order] /\ certs \in [Serials -> Cert]
  BY Zenon DEF CreateOrder, Record, Typed, TypeOK
<1>2. \A v \in Workers \ {w} : pc'[v] = pc[v] /\ req'[v].order = req[v].order
  BY <1>1, Zenon DEF CreateOrder, Record, Answer, Goto, Request
<1>3. pc'[w] = "reply"
  BY <1>1, Zenon DEF CreateOrder, Record, Answer, Goto
<1>4. \A x \in Orders :
        \/ orders'[x].status = orders[x].status
        \/ orders[x].status = "absent"
        \/ /\ pc[w] \in Holding /\ x = req[w].order
           /\ orders[x].status = "processing" /\ orders'[x].status = "valid"
  <2>1. CASE CreateOrder(w, r)
    BY <1>1, <2>1, Zenon DEF CreateOrder
  <2>2. CASE Record(w, r)
    BY <1>1, <2>2 DEF Record, UpdateStatus, Order, Holding
  <2>3. QED
    BY <2>1, <2>2, Zenon
<1>5. \A v \in Workers : pc[v] \in Holding => req[v].order \in Orders
  BY Zenon DEF Typed, ReqOK
<1>6. \A s \in Serials : certs[s].order # None => certs[s].order \in Orders
  BY <1>1, Zenon DEF Cert
<1>7. HeldIsProcessing'
  BY <1>2, <1>3, <1>4, <1>5 DEF ClaimInv, HeldIsProcessing, OneHolder, Holding
<1>8. OneHolder'
  BY <1>2, <1>3 DEF ClaimInv, OneHolder, Holding
<1>9. IssuedIsClaimed' /\ AbsentIsUnissued' /\ SingleIssuance'
  BY <1>1, <1>4, <1>6, Zenon DEF ClaimInv, IssuedIsClaimed, AbsentIsUnissued, SingleIssuance
<1>10. NothingSigned'
  BY <1>1, <1>2, <1>3, Zenon DEF ClaimInv, NothingSigned
<1>11. QED
  BY <1>7, <1>8, <1>9, <1>10, Zenon DEF ClaimInv

(* A revoked certificate keeps the order it was issued for. *)
LEMMA RevokeStep ==
  ASSUME Typed, ClaimInv, NEW w \in Workers, NEW r \in Outcome, CompensatingRevoke(w, r)
  PROVE  ClaimInv'
<1>1. /\ pc[w] = "revoke" /\ UNCHANGED orders
      /\ pc \in [Workers -> Points] /\ req \in [Workers -> Request]
      /\ certs \in [Serials -> Cert]
  BY Zenon DEF CompensatingRevoke, Typed, TypeOK
<1>2. \A v \in Workers : /\ req'[v].order = req[v].order
                         /\ pc'[v] \in Holding => pc[v] \in Holding
                         /\ pc'[v] = "issue" => pc[v] = "issue"
  BY <1>1 DEF CompensatingRevoke, Answer, Goto, Request, Holding
<1>3. \A t \in Serials :
        /\ certs'[t].order = certs[t].order
        /\ certs'[t].status = "absent" => certs[t].status = "absent"
  BY <1>1, Zenon DEF CompensatingRevoke, Cert
<1>4. HeldIsProcessing' /\ OneHolder'
  BY <1>1, <1>2, Zenon DEF ClaimInv, HeldIsProcessing, OneHolder
<1>5. IssuedIsClaimed' /\ AbsentIsUnissued' /\ SingleIssuance'
  BY <1>1, <1>3 DEF ClaimInv, IssuedIsClaimed, AbsentIsUnissued, SingleIssuance
<1>6. NothingSigned'
  BY <1>2, <1>3, ZenonT(40) DEF ClaimInv, NothingSigned
<1>7. QED
  BY <1>4, <1>5, <1>6, Zenon DEF ClaimInv

(* ClaimInv is inductive relative to Typed. *)
LEMMA NextClaimInv == Typed /\ ClaimInv /\ [Next]_vars => ClaimInv'
<1>. SUFFICES ASSUME Typed, ClaimInv, [Next]_vars
              PROVE  ClaimInv'
  BY Zenon
<1>. pc \in [Workers -> Points] /\ req \in [Workers -> Request]
  BY Zenon DEF Typed, TypeOK
<1>1. CASE Environment
  BY <1>1, QuietStep, Zenon DEF Environment, tables
<1>2. ASSUME NEW w \in Workers, Receive(w)
      PROVE  ClaimInv'
  <2>1. pc[w] = "idle" /\ UNCHANGED <<orders, certs>>
    BY <1>2, Zenon DEF Receive, ReceiveNewOrder, ReceiveFinalize, Accept, tables
  <2>2. \A v \in Workers \ {w} : pc'[v] = pc[v] /\ req'[v] = req[v]
    BY <1>2, Zenon DEF Receive, ReceiveNewOrder, ReceiveFinalize, Accept, Answer, Goto
  <2>3. pc'[w] \in {"newOrder", "getOrder", "reply"}
    BY <1>2, Zenon DEF Receive, ReceiveNewOrder, ReceiveFinalize, Accept, Answer, Goto
  <2>4. QED
    BY <2>1, <2>2, <2>3, QuietStep, Zenon DEF Holding
<1>3. ASSUME NEW w \in Workers, NEW r \in Outcome,
             GetOrder(w, r) \/ AuditIssue(w, r) \/ AssignRole(w, r) \/ AuditRevoke(w, r)
      PROVE  ClaimInv'
  <2>1. UNCHANGED <<orders, certs>>
    BY <1>3, Zenon DEF GetOrder, AuditIssue, AssignRole, AuditRevoke, tables
  <2>2. \A v \in Workers : req'[v].order = req[v].order
    BY <1>3, SMTT(20) DEF GetOrder, AuditIssue, AssignRole, AuditRevoke, Answer, Request
  <2>3. \A v \in Workers : /\ pc'[v] \in Holding => pc[v] \in Holding
                           /\ pc'[v] = "issue" => pc[v] = "issue"
    BY <1>3, Zenon DEF GetOrder, AuditIssue, AssignRole, AuditRevoke, Answer, Goto, Holding
  <2>4. QED
    BY <2>1, <2>2, <2>3, QuietStep, Zenon
<1>4. ASSUME NEW w \in Workers, NEW r \in Outcome, StoreStep(w, r)
      PROVE  ClaimInv'
  BY <1>3, <1>4, ClaimStep, IssueStep, OrderStep, RevokeStep, Zenon DEF StoreStep
<1>5. ASSUME NEW w \in Workers, Reply(w) \/ Crash(w)
      PROVE  ClaimInv'
  BY <1>5, QuietStep, Zenon DEF Reply, Crash, Goto, tables, Holding
<1>6. CASE UNCHANGED vars
  BY <1>6, QuietStep, Zenon DEF vars, tables
<1>7. QED
  BY <1>1, <1>2, <1>4, <1>5, <1>6, Zenon DEF Next, Step

(* Both invariants hold in every behaviour. *)
LEMMA Invariants == Spec => [](Typed /\ ClaimInv)
BY InitTyped, NextTyped, InitClaimInv, NextClaimInv, PTL DEF Spec

(* One order never yields two certificates: for any number of concurrent   *)
(* and repeated finalize requests, with any store call lost or answered    *)
(* after it took effect and any request dying between two calls.           *)
THEOREM IssuesOnce == Spec => []SingleIssuance
<1>1. ClaimInv => SingleIssuance
  BY Zenon DEF ClaimInv
<1>2. QED
  BY <1>1, Invariants, PTL

(* The claim of handleACMEFinalize is exclusive until the order is valid,  *)
(* so the processing-to-valid swap that the code only logs when it is lost *)
(* is never lost.                                                          *)
THEOREM ClaimIsExclusive == Spec => []SoleClaim
<1>1. ClaimInv => SoleClaim
  BY Zenon DEF ClaimInv, SoleClaim, Holds, HeldIsProcessing, OneHolder
<1>2. QED
  BY <1>1, Invariants, PTL

-----------------------------------------------------------------------------
(* Every step of the handlers is a step on the nonce table. *)
LEMMA StepsOnNonces == [Next]_vars => NonceStep
<1>. SUFFICES ASSUME [Next]_vars
              PROVE  NonceStep
  BY Zenon
<1>1. CASE Environment
  BY <1>1, Zenon DEF Environment, NewNonce, NonceStep
<1>2. ASSUME NEW w \in Workers, Receive(w)
      PROVE  NonceStep
  BY <1>2, Zenon DEF Receive, ReceiveNewOrder, ReceiveFinalize, Accept, NonceStep
<1>3. ASSUME NEW w \in Workers, NEW r \in Outcome, StoreStep(w, r)
      PROVE  NonceStep
  BY <1>3, Zenon DEF StoreStep, CreateOrder, GetOrder, Claim, IssueLeaf, AuditIssue, AssignRole,
              CompensatingRevoke, AuditRevoke, Record, Call, NonceStep
<1>4. ASSUME NEW w \in Workers, Reply(w) \/ Crash(w)
      PROVE  NonceStep
  BY <1>4, Zenon DEF Reply, Crash, NonceStep
<1>5. CASE UNCHANGED vars
  BY <1>5, Zenon DEF vars, NonceStep
<1>6. QED
  BY <1>1, <1>2, <1>3, <1>4, <1>5, Zenon DEF Next, Step

(* A nonce lets at most one request through verifiedJWS and none after it  *)
(* expired, for any number of nonces and requests.                         *)
THEOREM NoncesOnce == Spec => []NonceSingleUse
<1>1. Init => NonceInv
  BY NonceInitInv, Zenon DEF Init
<1>2. Typed /\ NonceInv /\ [Next]_vars => NonceInv'
  BY StepsOnNonces, NonceKept, Zenon DEF Typed, TypeOK
<1>3. NonceInv => NonceSingleUse
  BY Zenon DEF NonceInv
<1>4. QED
  BY <1>1, <1>2, <1>3, InitTyped, NextTyped, PTL DEF Spec

-----------------------------------------------------------------------------
(* How a step may change an order: the action of OrderForward. *)
Forward ==
  \A o \in Orders : orders'[o] # orders[o] =>
    \/ orders[o].status = "absent" /\ orders'[o].status = "ready"
    \/ /\ <<orders[o].status, orders'[o].status>> \in
            {<<"ready", "processing">>, <<"processing", "valid">>}
       /\ orders'[o].acct = orders[o].acct
       /\ orders'[o].name = orders[o].name

(* Orders are only written by an insert and by the two swaps. *)
LEMMA WritesForward == Typed /\ [Next]_vars => Forward
<1>. SUFFICES ASSUME Typed, [Next]_vars
              PROVE  Forward
  BY Zenon
<1>. orders \in [Orders -> Order]
  BY Zenon DEF Typed, TypeOK
<1>1. CASE UNCHANGED orders
  BY <1>1, Zenon DEF Forward
<1>2. ASSUME NEW w \in Workers, NEW r \in Outcome, CreateOrder(w, r)
      PROVE  Forward
  BY <1>2 DEF CreateOrder, Forward
<1>3. ASSUME NEW w \in Workers, NEW r \in Outcome, Claim(w, r) \/ Record(w, r)
      PROVE  Forward
  <2>1. req[w].order \in Orders
    BY <1>3, Zenon DEF Claim, Record, Typed, ReqOK, Holding
  <2>2. QED
    BY <1>1, <1>3, <2>1, SMTT(20) DEF Claim, Record, UpdateStatus, Forward, Order
<1>4. ASSUME NEW w \in Workers, NEW r \in Outcome, StoreStep(w, r)
      PROVE  Forward
  BY <1>1, <1>2, <1>3, <1>4, Zenon
  DEF StoreStep, GetOrder, IssueLeaf, AuditIssue, AssignRole, CompensatingRevoke,
      AuditRevoke, tables
<1>5. QED
  BY <1>1, <1>4, Zenon DEF Next, Environment, Receive, ReceiveNewOrder, ReceiveFinalize, Accept,
                    Step, Reply, Crash, vars, tables

(* An order never goes back: only forward through absent, ready,           *)
(* processing, valid, with its account and identifier as they were stored. *)
THEOREM OrdersForward == Spec => OrderForward
<1>1. Typed /\ [Next]_vars => [Forward]_vars
  BY WritesForward, Zenon
<1>2. QED
  BY <1>1, InitTyped, NextTyped, PTL DEF Spec, OrderForward, Forward

-----------------------------------------------------------------------------
(* The refinement mapping of OneShot. *)
Claimed == {o \in Orders : orders[o].status \in {"processing", "valid"}}

Made == [o \in Orders |-> {s \in Serials : certs[s].order = o}]

(* A swap from ready claims the order. *)
LEMMA ClaimMaps ==
  ASSUME Typed, NEW w \in Workers, NEW r \in Outcome, Claim(w, r)
  PROVE  \/ UNCHANGED <<Claimed, Made>>
         \/ \E o \in Orders : /\ o \notin Claimed
                              /\ Claimed' = Claimed \cup {o}
                              /\ UNCHANGED Made
<1>. DEFINE o == req[w].order
<1>1. o \in Orders /\ orders \in [Orders -> Order] /\ UNCHANGED certs
  BY Zenon DEF Claim, Typed, TypeOK, ReqOK
<1>2. UNCHANGED Made
  BY <1>1, Zenon DEF Made
<1>3. CASE UNCHANGED orders
  BY <1>2, <1>3, Zenon DEF Claimed
<1>4. CASE orders[o].status = "ready" /\ orders' = [orders EXCEPT ![o].status = "processing",
                                                                  ![o].cert = None]
  <2>1. o \notin Claimed
    BY <1>4, Zenon DEF Claimed
  <2>2. \A x \in Orders : orders'[x].status = IF x = o THEN "processing"
                                                       ELSE orders[x].status
    BY <1>1, <1>4, Zenon DEF Order
  <2>3. Claimed' = Claimed \cup {o}
    BY <1>1, <2>2, Zenon DEF Claimed
  <2>4. QED
    BY <1>1, <1>2, <2>1, <2>3, Zenon
<1>5. QED
  BY <1>3, <1>4, Zenon DEF Claim, UpdateStatus

(* An insert into certificates makes the product of a claimed order that   *)
(* had none.                                                               *)
LEMMA IssueMaps ==
  ASSUME Typed, ClaimInv, NEW w \in Workers, NEW r \in Outcome, IssueLeaf(w, r)
  PROVE  \/ UNCHANGED <<Claimed, Made>>
         \/ \E o \in Orders, s \in Serials :
              /\ o \in Claimed
              /\ Made[o] = {}
              /\ \A u \in Orders : s \notin Made[u]
              /\ Made' = [Made EXCEPT ![o] = {s}]
              /\ UNCHANGED Claimed
<1>. DEFINE o == req[w].order
<1>1. /\ pc[w] = "issue" /\ o \in Orders /\ UNCHANGED orders
      /\ certs \in [Serials -> Cert]
  BY Zenon DEF IssueLeaf, Typed, TypeOK, ReqOK, Holding
<1>2. UNCHANGED Claimed
  BY <1>1, Zenon DEF Claimed
<1>3. CASE UNCHANGED certs
  BY <1>2, <1>3, Zenon DEF Made
<1>4. ASSUME NEW s \in Serials, certs[s].status = "absent",
             certs' = [certs EXCEPT ![s] = [status |-> "good", name |-> req[w].name,
                                            order |-> o]]
      PROVE  /\ o \in Claimed
             /\ Made[o] = {}
             /\ \A u \in Orders : s \notin Made[u]
             /\ Made' = [Made EXCEPT ![o] = {s}]
  <2>1. o \in Claimed
    BY <1>1, Zenon DEF ClaimInv, HeldIsProcessing, Claimed, Holding
  <2>2. \A t \in Serials : certs[t].order # o
    BY <1>1, Zenon DEF ClaimInv, NothingSigned
  <2>3. certs[s].order = None
    BY <1>4, Zenon DEF ClaimInv, AbsentIsUnissued
  <2>4. Made[o] = {} /\ \A u \in Orders : s \notin Made[u]
    BY <1>1, <2>2, <2>3, OrdersAssumption, Zenon DEF Made
  <2>5. \A t \in Serials : certs'[t].order = IF t = s THEN o ELSE certs[t].order
    BY <1>1, <1>4, Zenon
  <2>6. \A u \in Orders : {t \in Serials : certs'[t].order = u}
                            = IF u = o THEN {s} ELSE {t \in Serials : certs[t].order = u}
    BY <2>2, <2>3, <2>5, OrdersAssumption, Zenon
  <2>7. Made' = [Made EXCEPT ![o] = {s}]
    BY <1>1, <2>6, Zenon DEF Made
  <2>8. QED
    BY <2>1, <2>4, <2>7, Zenon
<1>5. QED
  BY <1>1, <1>2, <1>3, <1>4, Zenon DEF IssueLeaf

(* The other writes leave every order as claimed and as made as it was. *)
LEMMA OthersStutter ==
  ASSUME Typed, NEW w \in Workers, NEW r \in Outcome,
         CreateOrder(w, r) \/ Record(w, r) \/ CompensatingRevoke(w, r)
  PROVE  UNCHANGED <<Claimed, Made>>
<1>1. orders \in [Orders -> Order] /\ certs \in [Serials -> Cert]
  BY Zenon DEF Typed, TypeOK
<1>2. \A x \in Orders : orders'[x].status \in {"processing", "valid"}
                          <=> orders[x].status \in {"processing", "valid"}
  <2>1. CASE CreateOrder(w, r)
    BY <1>1, <2>1 DEF CreateOrder
  <2>2. CASE Record(w, r)
    BY <1>1, <2>2 DEF Record, UpdateStatus, Order
  <2>3. CASE CompensatingRevoke(w, r)
    BY <2>3, Zenon DEF CompensatingRevoke
  <2>4. QED
    BY <2>1, <2>2, <2>3, Zenon
<1>3. \A s \in Serials : certs'[s].order = certs[s].order
  BY <1>1 DEF CreateOrder, Record, CompensatingRevoke, Cert
<1>4. UNCHANGED Claimed
  BY <1>2, Zenon DEF Claimed
<1>5. UNCHANGED Made
  BY <1>3, Zenon DEF Made
<1>6. QED
  BY <1>4, <1>5, Zenon

(* Every step maps to a step of ClaimOnce or to none. *)
LEMMA StepsMap == Typed /\ ClaimInv /\ [Next]_vars => [OneShot!Next]_<<Claimed, Made>>
<1>. SUFFICES ASSUME Typed, ClaimInv, [Next]_vars
              PROVE  [OneShot!Next]_<<Claimed, Made>>
  BY Zenon
<1>1. CASE UNCHANGED <<orders, certs>>
  BY <1>1, Zenon DEF Claimed, Made
<1>2. ASSUME NEW w \in Workers, NEW r \in Outcome, Claim(w, r)
      PROVE  [OneShot!Next]_<<Claimed, Made>>
  BY <1>2, ClaimMaps, Zenon DEF OneShot!Next, OneShot!Claim, Claimed, Made
<1>3. ASSUME NEW w \in Workers, NEW r \in Outcome, IssueLeaf(w, r)
      PROVE  [OneShot!Next]_<<Claimed, Made>>
  BY <1>3, IssueMaps, Zenon DEF OneShot!Next, OneShot!Make, Claimed, Made
<1>4. ASSUME NEW w \in Workers, NEW r \in Outcome, StoreStep(w, r)
      PROVE  [OneShot!Next]_<<Claimed, Made>>
  BY <1>1, <1>2, <1>3, <1>4, OthersStutter, Zenon
  DEF StoreStep, GetOrder, AuditIssue, AssignRole, AuditRevoke, tables
<1>5. QED
  BY <1>1, <1>4, Zenon DEF Next, Environment, Receive, ReceiveNewOrder, ReceiveFinalize, Accept,
                    Step, Reply, Crash, vars, tables

(* handleACMENewOrder and handleACMEFinalize implement the one-shot ticket *)
(* of ClaimOnce: a certificate is only made from an order claimed before,  *)
(* at most once, and no claim is ever undone.                              *)
THEOREM OrdersRefineClaimOnce == Spec => ImplementsClaimOnce
<1>1. Init => OneShot!Init
  BY OrdersAssumption, SMTT(20) DEF Init, OneShot!Init
<1>2. Typed /\ ClaimInv /\ [Next]_vars => [OneShot!Next]_<<Claimed, Made>>
  BY StepsMap, Zenon
<1>3. QED
  BY <1>1, <1>2, Invariants, PTL DEF Spec, ImplementsClaimOnce, OneShot!Spec, Claimed, Made
-----------------------------------------------------------------------------
(* What request w relies on.  From the checks of finalize on, the order is *)
(* its account's and has its CSR's name; ...                               *)
Agrees(w) ==
  pc[w] \in {"claim"} \cup Holding =>
    LET o == orders[req[w].order]
    IN o.status # "absent" /\ o.acct = req[w].acct /\ o.name = req[w].name

(* ... the certificate it signed is for that order, stays good unless the  *)
(* request takes it back, and has its audit entry and its role by the time *)
(* the order is recorded; ...                                              *)
Signed(w) ==
  LET s == req[w].serial
  IN /\ pc[w] \in {"newOrder", "getOrder", "claim", "issue"} => s = None
     /\ pc[w] \in Holding \ {"issue"} =>
          certs[s].order = req[w].order /\ certs[s].name = req[w].name
     /\ pc[w] \in {"auditIssue", "assign", "record"} => certs[s].status = "good"
     /\ pc[w] \in {"assign", "record"} => <<"acme-issue", s>> \in audit
     /\ pc[w] = "record" => roles[s] = RoleOf[req[w].acct]
     /\ pc[w] = "auditRevoke" => certs[s].status = "revoked"

(* ... and its answer is what ReplyTruthful says. *)
Truthful(w) ==
  LET o == orders[req[w].order]
  IN /\ pc[w] # "reply" => req[w].reply = "none"
     /\ req[w].reply \in {"valid", "created"} => req[w].order \in Orders
     /\ req[w].reply = "valid" =>
          o.status = "valid" /\ o.acct = req[w].acct /\ o.cert = req[w].serial
     /\ req[w].reply = "created" => o.status # "absent" /\ o.acct = req[w].acct

(* A serial that is not in use has no role. *)
RolesIssued == \A s \in Serials : certs[s].status = "absent" => roles[s] = None

Fulfils(w) == Agrees(w) /\ Signed(w) /\ Truthful(w)

BackInv ==
  /\ \A w \in Workers : Fulfils(w)
  /\ RolesIssued
  /\ ValidOrderBacked
  /\ CertFromOrder

(* What a step of w may write: an order moves forward, a certificate is    *)
(* added for the order at hand or is taken back, it gets its role.         *)
Writes(w) ==
  /\ \A o \in Orders :
       \/ orders'[o] = orders[o]
       \/ orders[o].status = "absent" /\ orders'[o].status = "ready"
       \/ /\ orders[o].status = "ready" /\ orders'[o].status = "processing"
          /\ orders'[o].acct = orders[o].acct /\ orders'[o].name = orders[o].name
       \/ /\ pc[w] = "record" /\ o = req[w].order
          /\ orders[o].status = "processing" /\ orders'[o].status = "valid"
          /\ orders'[o].acct = orders[o].acct /\ orders'[o].name = orders[o].name
          /\ orders'[o].cert = req[w].serial
  /\ \A s \in Serials :
       \/ certs'[s] = certs[s]
       \/ /\ pc[w] = "issue" /\ certs[s].status = "absent" /\ certs'[s].status # "absent"
          /\ certs'[s].name = req[w].name /\ certs'[s].order = req[w].order
       \/ /\ pc[w] = "revoke" /\ s = req[w].serial /\ certs'[s].status # "absent"
          /\ certs'[s].name = certs[s].name /\ certs'[s].order = certs[s].order
  /\ \A s \in Serials :
       \/ roles'[s] = roles[s]
       \/ pc[w] = "assign" /\ s = req[w].serial /\ roles'[s] = RoleOf[req[w].acct]
  /\ audit \subseteq audit'

Others(w) == \A v \in Workers \ {w} : pc'[v] = pc[v] /\ req'[v] = req[v]

(* A request that fulfils its part keeps the invariant: the other holders  *)
(* are on other orders and so on other certificates.                       *)
LEMMA WritesKeep ==
  ASSUME Typed, Typed', ClaimInv, BackInv, NEW w \in Workers,
         Others(w), Writes(w), Fulfils(w)'
  PROVE  BackInv'
<1>1. /\ orders \in [Orders -> Order] /\ orders' \in [Orders -> Order]
      /\ certs \in [Serials -> Cert] /\ certs' \in [Serials -> Cert]
  BY Zenon DEF Typed, TypeOK
<1>2. \A v \in Workers : /\ pc[v] \in {"claim"} \cup Holding => req[v].order \in Orders
                         /\ pc[v] \in Holding \ {"issue"} => req[v].serial \in Serials
  BY Zenon DEF Typed, ReqOK
<1>3. \A o \in Orders : orders[o].status # "absent" =>
        /\ orders'[o].status # "absent"
        /\ orders'[o].acct = orders[o].acct /\ orders'[o].name = orders[o].name
        /\ orders[o].status = "valid" => orders'[o] = orders[o]
  BY Zenon DEF Writes
<1>4. \A v \in Workers : pc[v] \in Holding \ {"issue"} =>
        certs[req[v].serial].order = req[v].order
  BY Zenon DEF BackInv, Fulfils, Signed
(* Nobody but its own request writes to a certificate in the making. *)
<1>5. \A v \in Workers \ {w} : pc[v] \in Holding \ {"issue"} =>
        /\ certs'[req[v].serial] = certs[req[v].serial]
        /\ roles'[req[v].serial] = roles[req[v].serial]
  <2>. SUFFICES ASSUME NEW v \in Workers \ {w}, pc[v] \in Holding \ {"issue"}
                PROVE  /\ certs'[req[v].serial] = certs[req[v].serial]
                       /\ roles'[req[v].serial] = roles[req[v].serial]
    BY Zenon
  <2>. DEFINE s == req[v].serial
  <2>1. s \in Serials /\ certs[s].order = req[v].order /\ req[v].order \in Orders
    BY <1>2, <1>4, Zenon DEF Holding
  <2>2. certs[s].status # "absent"
    BY <2>1, OrdersAssumption, Zenon DEF ClaimInv, AbsentIsUnissued
  <2>3. pc[w] \in {"revoke", "assign"} => req[w].serial # s
    <3>1. pc[w] \in {"revoke", "assign"} => req[w].order # req[v].order
      BY Zenon DEF ClaimInv, OneHolder, Holding
    <3>2. QED
      BY <1>4, <2>1, <3>1, Zenon DEF Holding
  <2>4. QED
    BY <2>1, <2>2, <2>3, Zenon DEF Writes
<1>6. ASSUME NEW v \in Workers \ {w}
      PROVE  Fulfils(v)'
  <2>1. pc'[v] = pc[v] /\ req'[v] = req[v] /\ Fulfils(v)
    BY Zenon DEF Others, BackInv
  <2>2. Agrees(v)'
    BY <1>2, <1>3, <2>1, Zenon DEF Fulfils, Agrees
  <2>3. Signed(v)'
    BY <1>5, <2>1, SMTT(20) DEF Fulfils, Signed, Writes, Holding
  <2>4. Truthful(v)'
    BY <1>3, <2>1, Zenon DEF Fulfils, Truthful
  <2>5. QED
    BY <2>2, <2>3, <2>4, Zenon DEF Fulfils
<1>7. pc[w] = "assign" => certs[req[w].serial].status = "good"
  BY Zenon DEF BackInv, Fulfils, Signed
<1>8. RolesIssued'
  BY <1>7, Zenon DEF BackInv, RolesIssued, Writes
<1>9. ValidOrderBacked'
  <2>. SUFFICES ASSUME NEW o \in Orders, orders'[o].status = "valid"
                PROVE  LET s == orders'[o].cert
                       IN /\ s \in Serials
                          /\ certs'[s] = [status |-> "good", name |-> orders'[o].name,
                                          order |-> o]
                          /\ roles'[s] = RoleOf[orders'[o].acct]
                          /\ <<"acme-issue", s>> \in audit'
    BY Zenon DEF ValidOrderBacked
  <2>. DEFINE s == orders'[o].cert
  <2>1. CASE orders'[o] = orders[o]
    <3>1. /\ s \in Serials
          /\ certs[s] = [status |-> "good", name |-> orders[o].name, order |-> o]
          /\ roles[s] = RoleOf[orders[o].acct]
          /\ <<"acme-issue", s>> \in audit
      BY <2>1, Zenon DEF BackInv, ValidOrderBacked
    <3>2. pc[w] \in {"revoke", "assign"} => req[w].serial # s
      <4>1. pc[w] \in {"revoke", "assign"} => orders[req[w].order].status = "processing"
        BY Zenon DEF ClaimInv, HeldIsProcessing, Holding
      <4>2. QED
        BY <1>4, <2>1, <3>1, <4>1 DEF Holding
    <3>3. certs'[s] = certs[s] /\ roles'[s] = roles[s]
      BY <3>1, <3>2, SMTT(20) DEF Writes
    <3>4. QED
      BY <2>1, <3>1, <3>3, Zenon DEF Writes
  <2>2. CASE orders'[o] # orders[o]
    <3>1. /\ pc[w] = "record" /\ o = req[w].order
          /\ orders'[o].acct = orders[o].acct /\ orders'[o].name = orders[o].name
          /\ s = req[w].serial
      BY <2>2, Zenon DEF Writes
    <3>2. s \in Serials /\ certs'[s] = certs[s] /\ roles'[s] = roles[s]
      BY <1>2, <3>1, Zenon DEF Writes, Holding
    <3>3. Agrees(w) /\ Signed(w)
      BY Zenon DEF BackInv, Fulfils
    <3>4. orders[o].acct = req[w].acct /\ orders[o].name = req[w].name
      BY <3>1, <3>3, Zenon DEF Agrees, Holding
    <3>5. /\ certs[s].status = "good" /\ certs[s].name = req[w].name /\ certs[s].order = o
          /\ <<"acme-issue", s>> \in audit
          /\ roles[s] = RoleOf[req[w].acct]
      BY <3>1, <3>3, Zenon DEF Signed, Holding
    <3>6. certs[s] = [status |-> "good", name |-> orders'[o].name, order |-> o]
      BY <1>1, <3>1, <3>2, <3>4, <3>5, Zenon DEF Cert
    <3>7. QED
      BY <3>1, <3>2, <3>4, <3>5, <3>6, SMTT(20) DEF Writes
  <2>3. QED
    BY <2>1, <2>2, Zenon
<1>10. CertFromOrder'
  <2>. SUFFICES ASSUME NEW s \in Serials, certs'[s].order # None
                PROVE  /\ certs'[s].name = orders'[certs'[s].order].name
                       /\ roles'[s] \in {None, RoleOf[orders'[certs'[s].order].acct]}
    BY Zenon DEF CertFromOrder
  <2>. DEFINE o == certs'[s].order
  <2>0. o \in Orders
    BY <1>1, Zenon DEF Cert
  <2>1. CASE certs'[s].order = certs[s].order /\ certs'[s].name = certs[s].name
    <3>1. orders[o].status # "absent"
      BY <2>1, Zenon DEF ClaimInv, IssuedIsClaimed
    <3>2. certs[s].name = orders[o].name /\ roles[s] \in {None, RoleOf[orders[o].acct]}
      BY <2>1, Zenon DEF BackInv, CertFromOrder
    <3>3. orders'[o].acct = orders[o].acct /\ orders'[o].name = orders[o].name
      BY <1>3, <2>0, <3>1, Zenon
    <3>4. CASE roles'[s] = roles[s]
      BY <2>1, <3>2, <3>3, <3>4, Zenon
    <3>5. CASE pc[w] = "assign" /\ s = req[w].serial /\ roles'[s] = RoleOf[req[w].acct]
      <4>1. Agrees(w)
        BY Zenon DEF BackInv, Fulfils
      <4>2. o = req[w].order
        BY <1>4, <2>1, <3>5, Zenon DEF Holding
      <4>3. orders[o].acct = req[w].acct
        BY <3>5, <4>1, <4>2, Zenon DEF Agrees, Holding
      <4>4. QED
        BY Zenon, <2>1, <3>2, <3>3, <3>5, <4>3
    <3>6. QED
      BY <3>4, <3>5, Zenon DEF Writes
  <2>2. CASE pc[w] = "issue" /\ certs[s].status = "absent" /\ certs'[s].name = req[w].name
             /\ o = req[w].order
    <3>1. orders[o].status # "absent" /\ orders[o].name = req[w].name
      BY <2>2, Zenon DEF BackInv, Fulfils, Agrees, Holding
    <3>2. orders'[o].name = orders[o].name
      BY <1>3, <2>0, <3>1, Zenon
    <3>3. roles'[s] = None
      BY <2>2, Zenon DEF BackInv, RolesIssued, Writes
    <3>4. QED
      BY <2>2, <3>1, <3>2, <3>3, Zenon
  <2>3. QED
    BY <2>1, <2>2, Zenon DEF Writes
<1>11. QED
  BY <1>6, <1>8, <1>9, <1>10, Zenon DEF BackInv

(* What the leaves below need of the types. *)
LEMMA Shapes ==
  ASSUME Typed
  PROVE  /\ orders \in [Orders -> Order] /\ certs \in [Serials -> Cert]
         /\ roles \in [Serials -> Roles \cup {None}]
         /\ pc \in [Workers -> Points] /\ req \in [Workers -> Request]
BY Zenon DEF Typed, TypeOK

(* A step that answers w with anything but a success, and writes no table  *)
(* but audit, is such a step.                                              *)
LEMMA AnswerKeeps ==
  ASSUME Typed, NEW w \in Workers, NEW a \in Replies \ {"valid", "created"}, Answer(w, a)
  PROVE  Others(w) /\ Fulfils(w)'
<1>1. /\ pc'[w] = "reply" /\ req'[w].reply = a
      /\ Others(w)
  BY Shapes, Zenon DEF Answer, Goto, Others, Request
<1>2. QED
  BY <1>1, Zenon DEF Fulfils, Agrees, Signed, Truthful, Holding

LEMMA QuietWrites ==
  ASSUME NEW w \in Workers, UNCHANGED <<orders, certs, roles>>, audit \subseteq audit'
  PROVE  Writes(w)
BY Zenon DEF Writes

(* A request begins, ends or is cut short. *)
LEMMA ReceiveFulfils ==
  ASSUME Typed, NEW w \in Workers, Receive(w) \/ Reply(w) \/ Crash(w)
  PROVE  Others(w) /\ Writes(w) /\ Fulfils(w)'
<1>1. UNCHANGED tables
  BY Zenon DEF Receive, ReceiveNewOrder, ReceiveFinalize, Accept, Reply, Crash
<1>2. Writes(w)
  BY <1>1, QuietWrites, Zenon DEF tables
<1>3. CASE \E a \in {"rejected", "badNonce"} : Answer(w, a)
  BY <1>2, <1>3, AnswerKeeps, Zenon DEF Replies
<1>4. CASE \E p \in {"idle", "newOrder", "getOrder"}, q \in Request :
             /\ Goto(w, p) /\ req' = [req EXCEPT ![w] = q]
             /\ q.reply = "none" /\ q.serial = None
  <2>1. /\ pc'[w] \in {"idle", "newOrder", "getOrder"} /\ req'[w].reply = "none"
        /\ req'[w].serial = None /\ Others(w)
    BY <1>4, Shapes, Zenon DEF Goto, Others
  <2>2. Agrees(w)' /\ Signed(w)'
    BY <2>1, Zenon DEF Agrees, Signed, Holding
  <2>3. Truthful(w)'
    BY <2>1, Zenon DEF Truthful
  <2>4. QED
    BY <1>2, <2>1, <2>2, <2>3, Zenon DEF Fulfils
<1>5. CASE Receive(w)
  <2>1. PICK n \in Nonce, authentic \in BOOLEAN, q \in Request, p \in {"newOrder", "getOrder"} :
          Accept(w, n, authentic, q, p) /\ q.reply = "none" /\ q.serial = None
    <3>1. CASE ReceiveNewOrder(w)
      <4>1. PICK n \in Nonce, authentic \in BOOLEAN, a \in Accounts, name \in Names :
              Accept(w, n, authentic, [NoRequest EXCEPT !.acct = a, !.name = name], "newOrder")
        BY Zenon, <3>1 DEF ReceiveNewOrder
      <4>. DEFINE q == [NoRequest EXCEPT !.acct = a, !.name = name]
      <4>2. q \in Request /\ q.reply = "none" /\ q.serial = None
        BY Zenon DEF NoRequest, Request
      <4>. HIDE DEF q
      <4>3. QED
        BY Zenon, <4>1, <4>2 DEF q
    <3>2. CASE ReceiveFinalize(w)
      <4>1. PICK n \in Nonce, authentic \in BOOLEAN, a \in Accounts, o \in Orders,
                 name \in Names \cup {None} :
              Accept(w, n, authentic,
                     [NoRequest EXCEPT !.acct = a, !.order = o, !.name = name], "getOrder")
        BY Zenon, <3>2 DEF ReceiveFinalize
      <4>. DEFINE q == [NoRequest EXCEPT !.acct = a, !.order = o, !.name = name]
      <4>2. q \in Request /\ q.reply = "none" /\ q.serial = None
        BY Zenon DEF NoRequest, Request
      <4>. HIDE DEF q
      <4>3. QED
        BY Zenon, <4>1, <4>2 DEF q
    <3>3. QED
      BY Zenon, <1>5, <3>1, <3>2 DEF Receive
  <2>2. QED
    BY <1>3, <1>4, <2>1, Zenon DEF Accept
<1>6. CASE Reply(w) \/ Crash(w)
  <2>1. NoRequest \in Request /\ NoRequest.reply = "none" /\ NoRequest.serial = None
    BY Zenon DEF NoRequest, Request
  <2>2. QED
    BY <1>4, <1>6, <2>1, Zenon DEF Reply, Crash
<1>7. QED
  BY Zenon, <1>5, <1>6

(* A new order is the caller's. *)
LEMMA CreateFulfils ==
  ASSUME Typed, NEW w \in Workers, NEW r \in Outcome, CreateOrder(w, r)
  PROVE  Others(w) /\ Writes(w) /\ Fulfils(w)'
<1>1. PICK o \in Orders :
        /\ orders[o].status = "absent"
        /\ orders' = IF r = "lost" THEN orders
                     ELSE [orders EXCEPT ![o] = [status |-> "ready",
                             acct |-> req[w].acct, name |-> req[w].name, cert |-> None]]
        /\ req' = [req EXCEPT ![w].order = o,
                              ![w].reply = IF r = "ok" THEN "created" ELSE "error"]
  BY Zenon DEF CreateOrder
<1>2. pc' = [pc EXCEPT ![w] = "reply"] /\ UNCHANGED <<certs, roles, audit>>
  BY Zenon DEF CreateOrder, Goto
<1>3. Others(w) /\ pc'[w] = "reply"
  BY <1>1, <1>2, Shapes, Zenon DEF Others
<1>4. Writes(w)
  BY <1>1, <1>2, Shapes, Zenon DEF Writes
<1>5. /\ req'[w].order = o /\ req'[w].acct = req[w].acct
      /\ req'[w].reply = IF r = "ok" THEN "created" ELSE "error"
  BY <1>1, Shapes, Zenon DEF Request
<1>6. r = "ok" => orders'[o].status = "ready" /\ orders'[o].acct = req[w].acct
  BY <1>1, Shapes, Zenon
<1>7. Truthful(w)'
  BY <1>3, <1>5, <1>6, Zenon DEF Truthful
<1>8. QED
  BY <1>3, <1>4, <1>7, Zenon DEF Fulfils, Agrees, Signed, Holding

(* The checks on the order that was read: what lets a request go on, and   *)
(* what an order that is valid already answers.                            *)
LEMMA GetFulfils ==
  ASSUME Typed, BackInv, NEW w \in Workers, NEW r \in Outcome, GetOrder(w, r)
  PROVE  Others(w) /\ Writes(w) /\ Fulfils(w)'
<1>. DEFINE o == orders[req[w].order]
            v == Verdict(w, o)
<1>1. pc[w] = "getOrder" /\ UNCHANGED tables /\ req[w].order \in Orders
  BY Zenon DEF GetOrder, Typed, ReqOK
<1>2. Writes(w)
  BY <1>1, QuietWrites, Zenon DEF tables
<1>3. CASE r = "lost"
  BY <1>2, <1>3, AnswerKeeps, Zenon DEF GetOrder, Replies
<1>4. CASE r # "lost" /\ v = "go"
  <2>1. pc'[w] = "claim" /\ req' = req /\ Others(w)
    BY <1>4, Shapes, Zenon DEF GetOrder, Goto, Others
  <2>2. o.status = "ready" /\ o.acct = req[w].acct /\ o.name = req[w].name
    BY <1>4, Zenon DEF Verdict
  <2>3. Signed(w) /\ req[w].reply = "none"
    BY <1>1, Zenon DEF BackInv, Fulfils, Truthful
  <2>4. Agrees(w)' /\ Signed(w)'
    BY <1>1, <2>1, <2>2, <2>3, Zenon DEF Agrees, Signed, Holding, tables
  <2>5. Truthful(w)'
    BY <2>1, <2>3, Zenon DEF Truthful
  <2>6. QED
    BY <1>2, <2>1, <2>4, <2>5, Zenon DEF Fulfils
<1>5. CASE r # "lost" /\ v # "go"
  <2>1. /\ pc' = [pc EXCEPT ![w] = "reply"]
        /\ req' = [req EXCEPT ![w].reply = v,
                              ![w].serial = IF v = "valid" THEN o.cert ELSE None]
    BY <1>5, Zenon DEF GetOrder, Goto
  <2>2. /\ pc'[w] = "reply" /\ Others(w)
        /\ req'[w].reply = v /\ req'[w].order = req[w].order /\ req'[w].acct = req[w].acct
        /\ v = "valid" => req'[w].serial = o.cert
    BY <2>1, Shapes, Zenon DEF Others, Request
  <2>3. v \in {"notFound", "rejected", "valid", "notReady"}
    BY <1>5, Zenon DEF Verdict
  <2>4. v = "valid" => o.status = "valid" /\ o.acct = req[w].acct
    BY Zenon DEF Verdict
  <2>5. Truthful(w)'
    BY <1>1, <2>2, <2>3, <2>4, Zenon DEF Truthful, tables
  <2>6. QED
    BY <1>2, <2>2, <2>5, Zenon DEF Fulfils, Agrees, Signed, Holding
<1>6. QED
  BY <1>3, <1>4, <1>5, Zenon

(* The claim keeps the order's account and identifier. *)
LEMMA ClaimFulfils ==
  ASSUME Typed, BackInv, NEW w \in Workers, NEW r \in Outcome, Claim(w, r)
  PROVE  Others(w) /\ Writes(w) /\ Fulfils(w)'
<1>. DEFINE o == req[w].order
<1>1. pc[w] = "claim" /\ UNCHANGED <<certs, roles, audit>> /\ o \in Orders
  BY Zenon DEF Claim, Typed, ReqOK
<1>2. \/ orders' = orders
      \/ orders[o].status = "ready"
         /\ orders' = [orders EXCEPT ![o].status = "processing", ![o].cert = None]
  BY Zenon DEF Claim, UpdateStatus
<1>3. \A x \in Orders :
        \/ orders'[x] = orders[x]
        \/ /\ orders[x].status = "ready" /\ orders'[x].status = "processing"
           /\ orders'[x].acct = orders[x].acct /\ orders'[x].name = orders[x].name
  BY <1>1, <1>2, Shapes, SMTT(20) DEF Order
<1>4. Writes(w)
  BY <1>1, <1>3, Zenon DEF Writes
<1>5. CASE \E a \in {"notReady", "error"} : Answer(w, a)
  BY <1>4, <1>5, AnswerKeeps, Zenon DEF Replies
<1>6. CASE Goto(w, "issue") /\ UNCHANGED req
  <2>1. pc'[w] = "issue" /\ req' = req /\ Others(w)
    BY <1>6, Shapes, Zenon DEF Goto, Others
  <2>2. Agrees(w) /\ Signed(w) /\ req[w].reply = "none"
    BY <1>1, Zenon DEF BackInv, Fulfils, Truthful
  <2>3. /\ orders'[o].status # "absent"
        /\ orders'[o].acct = req[w].acct /\ orders'[o].name = req[w].name
    BY <1>1, <1>3, <2>2, Zenon DEF Agrees
  <2>4. Agrees(w)' /\ Signed(w)'
    BY <1>1, <2>1, <2>2, <2>3, Zenon DEF Agrees, Signed, Holding
  <2>5. Truthful(w)'
    BY <2>1, <2>2, Zenon DEF Truthful
  <2>6. QED
    BY <1>4, <2>1, <2>4, <2>5, Zenon DEF Fulfils
<1>7. QED
  BY <1>5, <1>6, Zenon DEF Claim

(* A holder that goes on to its next point, its order as it was. *)
LEMMA HolderGoes ==
  ASSUME Typed, BackInv, NEW w \in Workers, NEW p \in Holding, pc[w] \in Holding,
         Goto(w, p), UNCHANGED <<orders, req>>
  PROVE  /\ Others(w) /\ Agrees(w)' /\ Truthful(w)'
         /\ pc'[w] = p /\ req'[w] = req[w]
<1>1. pc'[w] = p /\ req' = req /\ Others(w)
  BY Shapes, Zenon DEF Goto, Others
<1>2. Agrees(w) /\ req[w].reply = "none"
  BY Zenon DEF BackInv, Fulfils, Truthful, Holding
<1>3. QED
  BY <1>1, <1>2, Zenon DEF Agrees, Truthful, Holding

(* What is signed is for the order at hand, with its name. *)
LEMMA IssueFulfils ==
  ASSUME Typed, BackInv, NEW w \in Workers, NEW r \in Outcome, IssueLeaf(w, r)
  PROVE  Others(w) /\ Writes(w) /\ Fulfils(w)'
<1>1. pc[w] = "issue" /\ UNCHANGED <<orders, roles, audit>>
  BY Zenon DEF IssueLeaf
<1>2. PICK s \in Serials :
        /\ certs[s].status = "absent"
        /\ certs' = IF r = "lost" THEN certs
                    ELSE [certs EXCEPT ![s] = [status |-> "good", name |-> req[w].name,
                                               order |-> req[w].order]]
        /\ IF r = "ok" THEN Goto(w, "auditIssue") /\ req' = [req EXCEPT ![w].serial = s]
           ELSE Answer(w, "error")
  BY Zenon DEF IssueLeaf
<1>3. Writes(w)
  BY <1>1, <1>2, Shapes, Zenon DEF Writes
<1>4. CASE r # "ok"
  BY <1>2, <1>3, <1>4, AnswerKeeps, Zenon DEF Replies
<1>5. CASE r = "ok"
  <2>1. /\ pc'[w] = "auditIssue" /\ Others(w)
        /\ req'[w].serial = s /\ req'[w].order = req[w].order /\ req'[w].acct = req[w].acct
        /\ req'[w].name = req[w].name /\ req'[w].reply = req[w].reply
    BY <1>2, <1>5, Shapes, SMTT(20) DEF Goto, Others, Request
  <2>2. Agrees(w) /\ req[w].reply = "none"
    BY <1>1, Zenon DEF BackInv, Fulfils, Truthful
  <2>3. /\ certs'[s].status = "good" /\ certs'[s].name = req[w].name
        /\ certs'[s].order = req[w].order
    BY <1>2, <1>5, Shapes, Zenon
  <2>4. Agrees(w)'
    BY <1>1, <2>1, <2>2, Zenon DEF Agrees, Holding
  <2>5. Signed(w)'
    BY <2>1, <2>3, Zenon DEF Signed
  <2>6. Truthful(w)'
    BY <2>1, <2>2, Zenon DEF Truthful
  <2>7. QED
    BY <1>3, <2>1, <2>4, <2>5, <2>6, Zenon DEF Fulfils
<1>6. QED
  BY <1>4, <1>5, Zenon

LEMMA AuditFulfils ==
  ASSUME Typed, BackInv, NEW w \in Workers, NEW r \in Outcome,
         AuditIssue(w, r) \/ AuditRevoke(w, r)
  PROVE  Others(w) /\ Writes(w) /\ Fulfils(w)'
<1>1. UNCHANGED <<orders, certs, roles>> /\ audit \subseteq audit'
  BY Zenon DEF AuditIssue, AuditRevoke
<1>2. Writes(w)
  BY <1>1, QuietWrites, Zenon
<1>3. CASE Answer(w, "error")
  BY <1>2, <1>3, AnswerKeeps, Zenon DEF Replies
<1>4. CASE AuditIssue(w, r) /\ r = "ok"
  <2>1. /\ pc[w] = "auditIssue" /\ Goto(w, "assign") /\ UNCHANGED req
        /\ <<"acme-issue", req[w].serial>> \in audit'
    BY <1>4, Zenon DEF AuditIssue
  <2>2. /\ Others(w) /\ Agrees(w)' /\ Truthful(w)'
        /\ pc'[w] = "assign" /\ req'[w] = req[w]
    BY <1>1, <2>1, HolderGoes, Zenon DEF Holding
  <2>3. Signed(w)
    BY Zenon DEF BackInv, Fulfils
  <2>4. Signed(w)'
    BY <1>1, <2>1, <2>2, <2>3, Zenon DEF Signed, Holding
  <2>5. QED
    BY <1>2, <2>2, <2>4, Zenon DEF Fulfils
<1>5. QED
  BY <1>3, <1>4, Zenon DEF AuditIssue, AuditRevoke

LEMMA AssignFulfils ==
  ASSUME Typed, BackInv, NEW w \in Workers, NEW r \in Outcome, AssignRole(w, r)
  PROVE  Others(w) /\ Writes(w) /\ Fulfils(w)'
<1>. DEFINE s == req[w].serial
<1>1. /\ pc[w] = "assign" /\ UNCHANGED <<req, orders, certs, audit>> /\ s \in Serials
      /\ roles' = IF r = "lost" THEN roles ELSE [roles EXCEPT ![s] = RoleOf[req[w].acct]]
      /\ Goto(w, IF r = "ok" THEN "record" ELSE "revoke")
  BY Zenon DEF AssignRole, Typed, ReqOK, Holding
<1>2. Writes(w)
  BY <1>1, Shapes, Zenon DEF Writes
<1>3. /\ Others(w) /\ Agrees(w)' /\ Truthful(w)'
      /\ pc'[w] = (IF r = "ok" THEN "record" ELSE "revoke") /\ req'[w] = req[w]
  BY <1>1, HolderGoes, Zenon DEF Holding
<1>4. Signed(w)
  BY Zenon DEF BackInv, Fulfils
<1>5. r = "ok" => roles'[s] = RoleOf[req[w].acct]
  BY <1>1, Shapes, Zenon
<1>6. Signed(w)'
  BY <1>1, <1>3, <1>4, <1>5, Zenon DEF Signed, Holding
<1>7. QED
  BY <1>2, <1>3, <1>6, Zenon DEF Fulfils

LEMMA RevokeFulfils ==
  ASSUME Typed, BackInv, NEW w \in Workers, NEW r \in Outcome, CompensatingRevoke(w, r)
  PROVE  Others(w) /\ Writes(w) /\ Fulfils(w)'
<1>. DEFINE s == req[w].serial
<1>1. /\ pc[w] = "revoke" /\ UNCHANGED <<orders, roles, audit>> /\ s \in Serials
      /\ certs' = IF r = "lost" THEN certs ELSE [certs EXCEPT ![s].status = "revoked"]
  BY Zenon DEF CompensatingRevoke, Typed, ReqOK, Holding
<1>2. \A t \in Serials :
        \/ certs'[t] = certs[t]
        \/ /\ t = s /\ certs'[t].status = "revoked"
           /\ certs'[t].name = certs[t].name /\ certs'[t].order = certs[t].order
  BY <1>1, Shapes, Zenon DEF Cert
<1>3. Writes(w)
  BY <1>1, <1>2, Zenon DEF Writes
<1>4. CASE r # "ok"
  BY <1>3, <1>4, AnswerKeeps, Zenon DEF CompensatingRevoke, Replies
<1>5. CASE r = "ok"
  <2>1. Goto(w, "auditRevoke") /\ UNCHANGED req
    BY <1>5, Zenon DEF CompensatingRevoke
  <2>2. /\ Others(w) /\ Agrees(w)' /\ Truthful(w)'
        /\ pc'[w] = "auditRevoke" /\ req'[w] = req[w]
    BY <1>1, <2>1, HolderGoes, Zenon DEF Holding
  <2>3. Signed(w)
    BY Zenon DEF BackInv, Fulfils
  <2>4. /\ certs'[s].status = "revoked"
        /\ certs'[s].name = certs[s].name /\ certs'[s].order = certs[s].order
    BY <1>1, <1>5, Shapes, SMTT(20) DEF Cert
  <2>5. Signed(w)'
    BY <1>1, <2>2, <2>3, <2>4, Zenon DEF Signed, Holding
  <2>6. QED
    BY <1>3, <2>2, <2>5, Zenon DEF Fulfils
<1>6. QED
  BY <1>4, <1>5, Zenon

(* The final swap cannot be lost, so the answer is what is stored. *)
LEMMA RecordFulfils ==
  ASSUME Typed, ClaimInv, BackInv, NEW w \in Workers, NEW r \in Outcome, Record(w, r)
  PROVE  Others(w) /\ Writes(w) /\ Fulfils(w)'
<1>. DEFINE o == req[w].order
<1>1. pc[w] = "record" /\ UNCHANGED <<certs, roles, audit>> /\ o \in Orders
  BY Zenon DEF Record, Typed, ReqOK, Holding
<1>2. orders[o].status = "processing"
  BY <1>1, Zenon DEF ClaimInv, HeldIsProcessing, Holding
<1>3. orders' = IF r = "lost" THEN orders
                ELSE [orders EXCEPT ![o].status = "valid", ![o].cert = req[w].serial]
  BY <1>2, Zenon DEF Record, UpdateStatus
<1>4. \A x \in Orders :
        \/ orders'[x] = orders[x] /\ (x = o => r = "lost")
        \/ /\ x = o /\ orders'[x].status = "valid" /\ orders'[x].cert = req[w].serial
           /\ orders'[x].acct = orders[x].acct /\ orders'[x].name = orders[x].name
  BY <1>1, <1>3, Shapes, SMTT(20) DEF Order
<1>5. Writes(w)
  BY <1>1, <1>2, <1>4, Zenon DEF Writes
<1>6. CASE r # "ok"
  BY <1>5, <1>6, AnswerKeeps, Zenon DEF Record, Replies
<1>7. CASE r = "ok"
  <2>1. /\ pc'[w] = "reply" /\ Others(w)
        /\ req'[w].reply = "valid" /\ req'[w].order = o
        /\ req'[w].acct = req[w].acct /\ req'[w].serial = req[w].serial
    BY <1>7, Shapes, Zenon DEF Record, Answer, Goto, Others, Request
  <2>2. Agrees(w)
    BY Zenon DEF BackInv, Fulfils
  <2>3. orders[o].acct = req[w].acct
    BY <1>1, <2>2, Zenon DEF Agrees, Holding
  <2>4. /\ orders'[o].status = "valid" /\ orders'[o].cert = req[w].serial
        /\ orders'[o].acct = req[w].acct
    BY <1>1, <1>4, <1>7, <2>3, Zenon
  <2>5. Truthful(w)'
    BY <1>1, <2>1, <2>4, Zenon DEF Truthful
  <2>6. QED
    BY <1>5, <2>1, <2>5, Zenon DEF Fulfils, Agrees, Signed, Holding
<1>8. QED
  BY <1>6, <1>7, Zenon

(* BackInv is inductive relative to ClaimInv. *)
LEMMA NextBackInv == Typed /\ Typed' /\ ClaimInv /\ BackInv /\ [Next]_vars => BackInv'
<1>. SUFFICES ASSUME Typed, Typed', ClaimInv, BackInv, [Next]_vars
              PROVE  BackInv'
  BY Zenon
<1>1. CASE UNCHANGED <<tables, pc, req>>
  <2>1. ASSUME NEW w \in Workers
        PROVE  Fulfils(w)'
    BY Zenon, <1>1 DEF BackInv, Fulfils, Agrees, Signed, Truthful, tables
  <2>2. RolesIssued' /\ ValidOrderBacked' /\ CertFromOrder'
    BY Zenon, <1>1 DEF BackInv, RolesIssued, ValidOrderBacked, CertFromOrder, tables
  <2>3. QED
    BY Zenon, <2>1, <2>2 DEF BackInv
<1>2. ASSUME NEW w \in Workers, Receive(w) \/ Reply(w) \/ Crash(w)
      PROVE  BackInv'
  BY <1>2, ReceiveFulfils, WritesKeep, Zenon
<1>3. ASSUME NEW w \in Workers, NEW r \in Outcome, StoreStep(w, r)
      PROVE  BackInv'
  <2>1. Others(w) /\ Writes(w) /\ Fulfils(w)'
    BY <1>3, CreateFulfils, GetFulfils, ClaimFulfils, IssueFulfils, AuditFulfils,
       AssignFulfils, RevokeFulfils, RecordFulfils, Zenon DEF StoreStep
  <2>2. QED
    BY <2>1, WritesKeep, Zenon
<1>4. QED
  BY <1>1, <1>2, <1>3, Zenon DEF Next, Environment, Step, vars

LEMMA InitBackInv == Init => BackInv
<1>. SUFFICES ASSUME Init
              PROVE  BackInv
  BY Zenon
<1>1. /\ \A w \in Workers : pc[w] = "idle" /\ req[w] = NoRequest
      /\ \A o \in Orders : orders[o].status = "absent"
      /\ \A s \in Serials : certs[s].status = "absent" /\ certs[s].order = None
                             /\ roles[s] = None
  BY Zenon DEF Init
<1>2. NoRequest.serial = None /\ NoRequest.reply = "none"
  BY Zenon DEF NoRequest
<1>3. \A w \in Workers : Agrees(w) /\ Signed(w)
  BY <1>1, <1>2, Zenon DEF Agrees, Signed, Holding
<1>4. \A w \in Workers : Truthful(w)
  BY <1>1, <1>2, Zenon DEF Truthful
<1>5. ValidOrderBacked /\ RolesIssued
  BY <1>1, Zenon DEF ValidOrderBacked, RolesIssued
<1>6. CertFromOrder
  BY <1>1, Zenon DEF CertFromOrder
<1>7. QED
  BY <1>3, <1>4, <1>5, <1>6, Zenon DEF BackInv, Fulfils

LEMMA Backed == Spec => [](Typed /\ ClaimInv /\ BackInv)
<1>1. Typed /\ ClaimInv /\ BackInv /\ [Next]_vars => (Typed /\ ClaimInv /\ BackInv)'
  BY NextTyped, NextClaimInv, NextBackInv, Zenon
<1>2. QED
  BY <1>1, InitTyped, InitClaimInv, InitBackInv, PTL DEF Spec

(* A valid order names a certificate that exists, is good, was issued for  *)
(* it with its identifier, has the account's role and is in the audit log: *)
(* whatever failed, died or was retried on the way.                        *)
THEOREM ValidIsBacked == Spec => []ValidOrderBacked
<1>1. BackInv => ValidOrderBacked
  BY Zenon DEF BackInv
<1>2. QED
  BY <1>1, Backed, PTL

(* A certificate has the identifier of its order and no role but that of   *)
(* the account that placed it, whoever presents the order's id.            *)
THEOREM CertsFromOrders == Spec => []CertFromOrder
<1>1. BackInv => CertFromOrder
  BY Zenon DEF BackInv
<1>2. QED
  BY <1>1, Backed, PTL

(* A success that is about to be answered is what the store holds, for the *)
(* caller's own order; the swap that the code only logs changes nothing.   *)
THEOREM RepliesTruthful == Spec => []ReplyTruthful
<1>1. BackInv => ReplyTruthful
  BY Zenon DEF BackInv, Fulfils, Truthful, ReplyTruthful
<1>2. QED
  BY <1>1, Backed, PTL

-----------------------------------------------------------------------------
(* Nothing fails but role assignments. *)
OnlyAssignFails == FaultPoints \subseteq {"assign"}

(* The holder of a certificate without a role gives it the role or takes   *)
(* it back before it lets go.                                              *)
LEMMA NextNoIdle ==
  ASSUME OnlyAssignFails, Typed, ClaimInv, BackInv, NoIdleCert, [Next]_vars
  PROVE  NoIdleCert'
<1>. DEFINE Idle(s) == certs[s].status = "good" /\ roles[s] = None
            Kept(s) == \E w \in Workers : pc[w] \in Holding /\ req[w].serial = s
<1>. SUFFICES ASSUME NEW s \in Serials, Idle(s)'
              PROVE  Kept(s)'
  BY Zenon DEF NoIdleCert
<1>1. CASE UNCHANGED <<tables, pc, req>>
  BY <1>1, Zenon DEF NoIdleCert, tables
<1>2. ASSUME NEW w \in Workers, Receive(w) \/ Reply(w) \/ Crash(w)
      PROVE  Kept(s)'
  <2>1. Idle(s)
    BY Zenon, <1>2 DEF Receive, ReceiveNewOrder, ReceiveFinalize, Accept, Reply, Crash, tables
  <2>2. PICK v \in Workers : pc[v] \in Holding /\ req[v].serial = s
    BY Zenon, <2>1 DEF NoIdleCert
  <2>3. pc[w] \in {"idle", "reply"} /\ Others(w)
    BY ZenonT(30), <1>2, ReceiveFulfils
    DEF Receive, ReceiveNewOrder, ReceiveFinalize, Accept, Reply, Crash, OnlyAssignFails
  <2>4. v # w
    BY <2>2, <2>3 DEF Holding
  <2>5. QED
    BY Zenon, <2>2, <2>3, <2>4 DEF Others
<1>3. ASSUME NEW w \in Workers, NEW r \in Outcome, StoreStep(w, r)
      PROVE  Kept(s)'
  <2>1. r # "ok" => pc[w] = "assign"
    BY SMTT(30), <1>3 DEF StoreStep, CreateOrder, GetOrder, Claim, IssueLeaf, AuditIssue, AssignRole,
                CompensatingRevoke, AuditRevoke, Record, Call, OnlyAssignFails
  <2>2. Others(w) /\ Signed(w)
    BY ZenonT(30), <1>3, CreateFulfils, GetFulfils, ClaimFulfils, IssueFulfils, AuditFulfils,
       AssignFulfils, RevokeFulfils, RecordFulfils DEF StoreStep, BackInv, Fulfils
  <2>3. CASE Idle(s) /\ ~(pc[w] \in Holding /\ req[w].serial = s)
    BY <2>2, <2>3, Zenon DEF NoIdleCert, Others
  <2>4. CASE IssueLeaf(w, r)
    <3>1. PICK t \in Serials :
            /\ certs' = [certs EXCEPT ![t] = [status |-> "good", name |-> req[w].name,
                                              order |-> req[w].order]]
            /\ Goto(w, "auditIssue") /\ req' = [req EXCEPT ![w].serial = t]
            /\ pc[w] = "issue" /\ UNCHANGED roles
      BY ZenonT(30), <2>1, <2>4 DEF IssueLeaf
    <3>2. CASE s = t
      BY <3>1, <3>2, Shapes, SMTT(20) DEF Goto, Holding, Request
    <3>3. CASE s # t
      <4>1. Idle(s) /\ req[w].serial # s
        BY <2>2, <3>1, <3>3, Shapes, OrdersAssumption, Zenon DEF Signed
      <4>2. QED
        BY <2>3, <4>1, Zenon
    <3>4. QED
      BY <3>2, <3>3, Zenon
  <2>5. CASE CreateOrder(w, r) \/ GetOrder(w, r) \/ Claim(w, r)
    <3>1. pc[w] \notin Holding /\ UNCHANGED <<certs, roles>>
      BY <2>5, Zenon DEF CreateOrder, GetOrder, Claim, Holding, tables
    <3>2. QED
      BY <2>3, <3>1, Zenon
  <2>6. CASE AuditIssue(w, r)
    <3>1. UNCHANGED <<certs, roles, req>> /\ Goto(w, "assign")
      BY <2>1, <2>6, Zenon DEF AuditIssue
    <3>2. pc'[w] \in Holding /\ req'[w] = req[w]
      BY <3>1, Shapes, Zenon DEF Goto, Holding
    <3>3. QED
      BY <2>3, <3>1, <3>2, Zenon
  <2>7. CASE AssignRole(w, r)
    <3>. DEFINE t == req[w].serial
    <3>1. /\ pc[w] = "assign" /\ UNCHANGED <<certs, req>>
          /\ roles' = IF r = "lost" THEN roles ELSE [roles EXCEPT ![t] = RoleOf[req[w].acct]]
          /\ pc' = [pc EXCEPT ![w] = IF r = "ok" THEN "record" ELSE "revoke"]
      BY <2>7, Zenon DEF AssignRole, Goto
    <3>2. pc'[w] \in Holding /\ req'[w] = req[w]
      BY <3>1, Shapes, Zenon DEF Holding
    <3>3. RoleOf[req[w].acct] # None
      BY <3>1, OrdersAssumption, Zenon DEF Typed, ReqOK
    <3>4. roles[s] = None
      BY <3>1, <3>3, Shapes, Zenon
    <3>5. QED
      BY <2>3, <3>1, <3>2, <3>4, Zenon
  <2>8. CASE CompensatingRevoke(w, r)
    <3>. DEFINE t == req[w].serial
    <3>1. /\ pc[w] = "revoke" /\ UNCHANGED roles
          /\ certs' = [certs EXCEPT ![t].status = "revoked"]
      BY <2>1, <2>8, Zenon DEF CompensatingRevoke
    <3>2. s # t /\ certs'[s] = certs[s]
      BY <3>1, Shapes, Zenon DEF Cert
    <3>3. QED
      BY <2>3, <3>1, <3>2, Zenon
  <2>9. CASE AuditRevoke(w, r) \/ Record(w, r)
    <3>1. /\ pc[w] \in {"auditRevoke", "record"} /\ UNCHANGED <<certs, roles>>
      BY <2>9, Zenon DEF AuditRevoke, Record
    <3>2. RoleOf[req[w].acct] # None
      BY <3>1, OrdersAssumption, Zenon DEF Typed, ReqOK
    <3>3. req[w].serial # s
      BY <2>2, <3>1, <3>2, Zenon DEF Signed
    <3>4. QED
      BY <2>3, <3>1, <3>3, Zenon
  <2>10. QED
    BY <1>3, <2>4, <2>5, <2>6, <2>7, <2>8, <2>9, SMTT(20) DEF StoreStep
<1>4. QED
  BY <1>1, <1>2, <1>3, Zenon DEF Next, Environment, Step, vars

(* What assignRoleOrRevoke is for: when nothing fails but role             *)
(* assignments, no request leaves a certificate behind that authenticates  *)
(* and authorizes nothing.                                                 *)
THEOREM NoneLeftIdle == FaultPoints \subseteq {"assign"} => (Spec => []NoIdleCert)
<1>. SUFFICES ASSUME OnlyAssignFails
              PROVE  Spec => []NoIdleCert
  BY Zenon DEF OnlyAssignFails
<1>1. Init => NoIdleCert
  BY DEF Init, NoIdleCert
<1>2. Typed /\ ClaimInv /\ BackInv /\ NoIdleCert /\ [Next]_vars => NoIdleCert'
  BY NextNoIdle, Zenon
<1>3. QED
  BY <1>1, <1>2, Backed, PTL DEF Spec
=============================================================================
