------------------------- MODULE AcmeAccountsProofs -------------------------
(***************************************************************************)
(* Proofs about AcmeAccounts, for any number of requests, keys, tokens,    *)
(* ids, faults and crashes.  The inductive invariant says what a request   *)
(* knows at each point, that the request past the claim has its token for  *)
(* itself, and what every row of acme_accounts goes back to.               *)
(***************************************************************************)
EXTENDS AcmeAccounts, TLAPS

(* The types the proofs need: the nonces do not matter here. *)
Typed ==
  /\ now \in Nat
  /\ tokens \in [Tokens -> Token]
  /\ accounts \in [Ids -> Account]
  /\ pc \in [Workers -> Points]
  /\ req \in [Workers -> Request]
  /\ spentOn \in [Tokens -> [by: Keys \cup {None}, vouched: Keys \cup {None}]]
  /\ burnt \subseteq Tokens

Enrolled(i) == accounts[i] # NoAccount

(* Until it is answered, a request is signed by the key it presents, ... *)
Signed ==
  \A w \in Workers :
    pc[w] \in {"lookup", "getToken", "stamp", "claim", "create", "recover"} =>
      /\ req[w].jwk \in JWK
      /\ req[w].jwk.key \in Keys
      /\ req[w].by = req[w].jwk.key

(* ... its binding, when it verifies, is for that key, ... *)
Vouched ==
  \A w \in Workers :
    /\ pc[w] \in {"lookup", "getToken"} /\ req[w].mac = TRUE => req[w].vouched = req[w].by
    /\ pc[w] = "getToken" => req[w].token \in Tokens
    /\ pc[w] \in {"stamp", "claim", "create"} =>
         /\ req[w].token \in Tokens
         /\ req[w].vouched = req[w].by
         /\ tokens[req[w].token].status # "absent"
         /\ req[w].role = tokens[req[w].token].role

(* ... and past the claim the token is its own. *)
Holds ==
  \A w \in Workers : pc[w] = "create" =>
    /\ tokens[req[w].token].status = "consumed"
    /\ spentOn[req[w].token] = [by |-> req[w].by, vouched |-> req[w].vouched]
    /\ req[w].at < tokens[req[w].token].exp
    /\ \A i \in Ids : accounts[i].eab # req[w].token
    /\ \A v \in Workers : v # w /\ pc[v] = "create" => req[v].token # req[w].token

(* Every row has a key, its thumbprint and the token it came from. *)
Backed ==
  \A i \in Ids : Enrolled(i) =>
    /\ accounts[i].jwk \in JWK
    /\ accounts[i].jwk.key \in Keys
    /\ accounts[i].thumb = Thumbprint(accounts[i].jwk.key)
    /\ accounts[i].eab \in Tokens
    /\ tokens[accounts[i].eab].status = "consumed"
    /\ spentOn[accounts[i].eab] = [by |-> accounts[i].jwk.key, vouched |-> accounts[i].jwk.key]
    /\ tokens[accounts[i].eab].role = accounts[i].role
    /\ accounts[i].createdAt < tokens[accounts[i].eab].exp

Unique ==
  \A i, j \in Ids : Enrolled(i) /\ Enrolled(j) /\ accounts[i].thumb = accounts[j].thumb => i = j

(* What was told, or is about to be. *)
Told ==
  \A w \in Workers :
    /\ pc[w] # "reply" => req[w].reply = "none"
    /\ pc[w] = "audit" \/ req[w].reply \in {"existing", "created"} =>
         /\ req[w].id \in Ids
         /\ Enrolled(req[w].id)
         /\ accounts[req[w].id].jwk.key = req[w].by

AccountInv == Signed /\ Vouched /\ Holds /\ Backed /\ Unique /\ Told /\ TokenAccounted

-----------------------------------------------------------------------------
(* What passes the checks on the two signatures. *)
LEMMA EnrolmentFacts ==
  ASSUME NEW q \in Enrolments
  PROVE  /\ q \in Request
         /\ q.jwk \in JWK /\ q.jwk.key \in Keys
         /\ q.by = q.jwk.key
         /\ q.mac = TRUE => q.vouched = q.by
         /\ q.reply = "none"
<1>1. PICK j \in Outer, b \in Binding : Authentic(j) /\ q = Enrolment(j, b)
  BY DEF Enrolments
<1>2. /\ j.jwk \in JWK /\ j.jwk.key \in Keys
      /\ j.by = j.jwk.key
  BY <1>1, Zenon DEF Authentic, Verify, JWKPublicKey, Outer, JWK
<1>3. CASE Matches(b, j)
  <2>. DEFINE m == VerifyHMAC(b, b.kid)
              v == IF m /\ b.by = b.kid THEN JWKPublicKey(b.payload) ELSE None
  <2>1. q = NewRequest(j.jwk, j.by, v, b.kid, m)
    BY <1>1, <1>3, Zenon DEF Enrolment
  <2>2. b.payload = j.jwk /\ b.kid \in Tokens
    BY <1>3, Zenon DEF Matches, Binding
  <2>3. m \in BOOLEAN /\ (m => b.by = b.kid)
    BY Zenon DEF VerifyHMAC
  <2>4. v \in Keys \cup {None} /\ (m => v = j.by)
    BY <1>2, <2>2, <2>3, Zenon DEF JWKPublicKey
  <2>. HIDE DEF m, v
  <2>5. QED
    BY <1>2, <2>1, <2>2, <2>3, <2>4, Zenon DEF NewRequest, Request
<1>4. CASE ~Matches(b, j)
  <2>1. q = NewRequest(j.jwk, j.by, None, None, FALSE)
    BY <1>1, <1>4, Zenon DEF Enrolment
  <2>2. QED
    BY <1>2, <2>1, Zenon DEF NewRequest, Request
<1>5. QED
  BY <1>3, <1>4, Zenon

(* The steps of a request w, by what they do to it: it is answered with a  *)
(* problem or cut short, ...                                               *)
Stops(w) ==
  /\ \/ pc'[w] = "reply" /\ req'[w] = Answered(None, None, "problem")
     \/ pc'[w] = "idle" /\ req'[w] = NoRequest
  /\ pc[w] = "create" => \/ req[w].token \in burnt'
                         \/ \E i \in Ids : Enrolled(i)' /\ accounts'[i].jwk.key = req[w].by

(* ... told about an account, ... *)
Tells(w) ==
  /\ pc[w] \notin {"create", "reply"}
  /\ pc'[w] = "reply"
  /\ \E i \in Ids, a \in {"existing", "created"} :
       /\ req'[w] = Answered(req[w].by, i, a)
       /\ Enrolled(i)
       /\ accounts[i].jwk.key = req[w].by

(* ... or goes on to its next point. *)
Goes(w) ==
  \/ pc[w] = "idle" /\ pc'[w] = "lookup" /\ req'[w] \in Enrolments
  \/ pc[w] = "lookup" /\ pc'[w] = "getToken" /\ req'[w] = req[w] /\ req[w].token \in Tokens
  \/ /\ pc[w] = "getToken" /\ pc'[w] = "stamp"
     /\ tokens[req[w].token].status = "open"
     /\ req[w].mac = TRUE
     /\ req'[w] = [req[w] EXCEPT !.role = tokens[req[w].token].role]
  \/ /\ pc[w] = "stamp" /\ pc'[w] = "claim"
     /\ req'[w] = [req[w] EXCEPT !.at = now]
  \/ /\ pc[w] = "claim" /\ pc'[w] = "create" /\ req'[w] = req[w]
     /\ tokens[req[w].token].status = "open"
     /\ req[w].at < tokens[req[w].token].exp
     /\ tokens' = [tokens EXCEPT ![req[w].token].status = "consumed"]
     /\ spentOn' = [spentOn EXCEPT ![req[w].token] = Presenter(w)]
  \/ /\ pc[w] = "create" /\ pc'[w] = "audit"
     /\ \E i \in Ids : /\ req'[w] = [req[w] EXCEPT !.id = i]
                       /\ Enrolled(i)' /\ accounts'[i].jwk.key = req[w].by
  \/ /\ pc[w] = "create" /\ pc'[w] = "recover" /\ req'[w] = req[w]
     /\ \E i \in Ids : Enrolled(i)' /\ accounts'[i].jwk.key = req[w].by

(* What a step of w does to the tables: nothing, ... *)
Still == UNCHANGED <<tokens, accounts, spentOn>>

(* ... the claim of an open token, ... *)
Claims(w) ==
  /\ pc[w] = "claim"
  /\ tokens[req[w].token].status = "open"
  /\ tokens' = [tokens EXCEPT ![req[w].token].status = "consumed"]
  /\ spentOn' = [spentOn EXCEPT ![req[w].token] = Presenter(w)]
  /\ \/ pc'[w] = "create"
     \/ req[w].token \in burnt'
  /\ UNCHANGED accounts

(* ... or a new row. *)
Row(w) == [thumb |-> thumbprint(w), jwk |-> req[w].jwk, role |-> req[w].role,
           eab |-> req[w].token, createdAt |-> req[w].at]

Creates(w, i) ==
  /\ pc[w] = "create"
  /\ ~Enrolled(i)
  /\ NoConflict(thumbprint(w))
  /\ accounts' = [accounts EXCEPT ![i] = Row(w)]
  /\ pc'[w] # "create"
  /\ UNCHANGED <<tokens, spentOn>>

Others(w) ==
  /\ pc' \in [Workers -> Points] /\ req' \in [Workers -> Request]
  /\ \A v \in Workers \ {w} : pc'[v] = pc[v] /\ req'[v] = req[v]

RequestStep(w) ==
  /\ Others(w)
  /\ Stops(w) \/ Tells(w) \/ Goes(w)
  /\ Still \/ Claims(w) \/ \E i \in Ids : Creates(w, i)
  /\ burnt \subseteq burnt' /\ burnt' \subseteq Tokens
  /\ now' = now

LEMMA AnsweredTyped ==
  ASSUME NEW by \in Keys \cup {None}, NEW i \in Ids \cup {None},
         NEW a \in {"none", "problem", "existing", "created"}
  PROVE  Answered(by, i, a) \in Request
BY Zenon DEF Answered, Request

(* One field of a request changes. *)
LEMMA FieldTyped ==
  ASSUME NEW q \in Request
  PROVE  /\ \A r \in Roles \cup {None} : [q EXCEPT !.role = r] \in Request
         /\ \A n \in Nat : [q EXCEPT !.at = n] \in Request
         /\ \A i \in Ids : [q EXCEPT !.id = i] \in Request
<1>1. ASSUME NEW r \in Roles \cup {None} PROVE [q EXCEPT !.role = r] \in Request
  BY Zenon DEF Request
<1>2. ASSUME NEW n \in Nat PROVE [q EXCEPT !.at = n] \in Request
  BY Zenon DEF Request
<1>3. ASSUME NEW i \in Ids PROVE [q EXCEPT !.id = i] \in Request
  BY Zenon DEF Request
<1>4. QED
  BY <1>1, <1>2, <1>3, Zenon

LEMMA UpdateTyped ==
  ASSUME Typed, NEW w \in Workers
  PROVE  /\ \A r \in Roles \cup {None} : [req EXCEPT ![w].role = r] \in [Workers -> Request]
         /\ \A n \in Nat : [req EXCEPT ![w].at = n] \in [Workers -> Request]
         /\ \A i \in Ids : [req EXCEPT ![w].id = i] \in [Workers -> Request]
<1>1. req \in [Workers -> Request] /\ req[w] \in Request
  BY Zenon DEF Typed
<1>2. \A q \in Request : [req EXCEPT ![w] = q] \in [Workers -> Request]
  BY <1>1, Zenon
<1>3. ASSUME NEW r \in Roles \cup {None} PROVE [req EXCEPT ![w].role = r] \in [Workers -> Request]
  BY <1>1, <1>2, FieldTyped, Zenon
<1>4. ASSUME NEW n \in Nat PROVE [req EXCEPT ![w].at = n] \in [Workers -> Request]
  BY <1>1, <1>2, FieldTyped, Zenon
<1>5. ASSUME NEW i \in Ids PROVE [req EXCEPT ![w].id = i] \in [Workers -> Request]
  BY <1>1, <1>2, FieldTyped, Zenon
<1>6. QED
  BY <1>3, <1>4, <1>5, Zenon

LEMMA ProblemStep ==
  ASSUME Typed, NEW w \in Workers, Problem(w)
  PROVE  /\ Others(w)
         /\ pc'[w] = "reply" /\ req'[w] = Answered(None, None, "problem")
BY AnsweredTyped, Zenon DEF Typed, Problem, Goto, Others, Points

LEMMA AnswerStep ==
  ASSUME Typed, AccountInv, NEW w \in Workers, NEW i \in Ids, NEW a \in {"existing", "created"},
         pc[w] \in {"lookup", "recover", "audit"}, AnswerAccount(w, a, i),
         Enrolled(i), accounts[i].jwk.key = req[w].by
  PROVE  Others(w) /\ Tells(w)
<1>1. req[w].by \in Keys \cup {None}
  BY Zenon DEF Typed, Request
<1>2. Others(w)
  BY <1>1, AnsweredTyped, Zenon DEF Typed, AnswerAccount, Goto, Others, Points
<1>3. Tells(w)
  BY Zenon DEF Typed, AnswerAccount, Goto, Tells
<1>4. QED
  BY <1>2, <1>3, Zenon

(* A row found by a request's thumbprint is the account of its key. *)
LEMMA FoundIsOwn ==
  ASSUME Typed, AccountInv, NEW w \in Workers, NEW i \in Ids,
         req[w].jwk \in JWK, req[w].jwk.key \in Keys, req[w].by = req[w].jwk.key,
         i \in ByThumbprint(thumbprint(w))
  PROVE  Enrolled(i) /\ accounts[i].jwk.key = req[w].by
<1>1. /\ accounts[i].thumb = [key |-> req[w].jwk.key, form |-> "canonical"]
      /\ accounts[i].thumb \in JWK
  BY DEF ByThumbprint, thumbprint, Thumbprint, PublicKeyToJWK, JWKPublicKey, JWK
<1>2. Enrolled(i)
  BY <1>1, JwsAssumption DEF Enrolled, NoAccount
<1>3. accounts[i].thumb = [key |-> accounts[i].jwk.key, form |-> "canonical"]
  BY <1>2, Zenon DEF AccountInv, Backed, Thumbprint, PublicKeyToJWK
<1>4. accounts[i].thumb.key = req[w].jwk.key /\ accounts[i].thumb.key = accounts[i].jwk.key
  BY <1>1, <1>3, SMTT(20)
<1>5. QED
  BY <1>2, <1>4, Zenon

LEMMA LookupStep ==
  ASSUME Typed, AccountInv, NEW w \in Workers, NEW r \in Outcome, Lookup(w, r)
  PROVE  RequestStep(w)
<1>1. /\ pc[w] = "lookup"
      /\ UNCHANGED <<tokens, accounts, spentOn, burnt, now>>
  BY Zenon DEF Lookup, Call, tables, history
<1>2. req[w].jwk \in JWK /\ req[w].jwk.key \in Keys /\ req[w].by = req[w].jwk.key
  BY <1>1, Zenon DEF AccountInv, Signed
<1>3. CASE Problem(w)
  BY <1>1, <1>3, ProblemStep, Zenon DEF RequestStep, Stops, Still, Typed
<1>4. ASSUME NEW i \in ByThumbprint(thumbprint(w)), AnswerAccount(w, "existing", i)
      PROVE  Others(w) /\ Tells(w)
  <2>1. i \in Ids
    BY Zenon DEF ByThumbprint
  <2>2. QED
    BY <1>1, <1>2, <1>4, <2>1, FoundIsOwn, AnswerStep, Zenon
<1>5. CASE req[w].token # None /\ Goto(w, "getToken") /\ UNCHANGED req
  <2>1. req[w].token \in Tokens
    BY <1>5, Zenon DEF Typed, Request
  <2>2. QED
    BY <1>1, <1>5, <2>1, Zenon DEF RequestStep, Others, Goto, Goes, Still, Typed, Points
<1>6. QED
  BY <1>1, <1>3, <1>4, <1>5, Zenon DEF Lookup, RequestStep, Still, Typed

LEMMA GetTokenStep ==
  ASSUME Typed, AccountInv, NEW w \in Workers, NEW r \in Outcome, GetToken(w, r)
  PROVE  RequestStep(w)
<1>1. /\ pc[w] = "getToken"
      /\ UNCHANGED <<tokens, accounts, spentOn, burnt, now>>
  BY Zenon DEF GetToken, Call, tables, history
<1>2. CASE Problem(w)
  BY <1>1, <1>2, ProblemStep, Zenon DEF RequestStep, Stops, Still, Typed
<1>3. CASE ~Problem(w)
  <2>1. /\ tokens[req[w].token].status = "open"
        /\ req[w].mac
        /\ Goto(w, "stamp")
        /\ req' = [req EXCEPT ![w].role = tokens[req[w].token].role]
    BY <1>3, Zenon DEF GetToken
  <2>2. req[w].token \in Tokens
    BY <1>1, Zenon DEF AccountInv, Vouched
  <2>3. tokens[req[w].token].role \in Roles \cup {None}
    BY <2>2, Zenon DEF Typed, Token
  <2>4. Others(w)
    BY <2>1, <2>3, UpdateTyped, Zenon DEF Typed, Others, Goto, Points
  <2>5. req[w].mac = TRUE
    BY <2>1, Zenon DEF Typed, Request
  <2>6. Goes(w)
    BY <1>1, <2>1, <2>5, Zenon DEF Goes, Goto, Typed
  <2>7. QED
    BY <1>1, <2>4, <2>6, Zenon DEF RequestStep, Still, Typed
<1>4. QED
  BY <1>2, <1>3, Zenon

LEMMA ClaimStep ==
  ASSUME Typed, AccountInv, NEW w \in Workers, NEW r \in Outcome, Claim(w, r)
  PROVE  RequestStep(w)
<1>. DEFINE t == req[w].token
            hit == r # "lost" /\ Claimable(t, req[w].at)
<1>1. pc[w] = "claim" /\ UNCHANGED <<accounts, now>> /\ t \in Tokens
  BY Zenon DEF Claim, Call, AccountInv, Vouched
<1>2. burnt \subseteq burnt' /\ burnt' \subseteq Tokens
  BY <1>1, Zenon DEF Claim, Typed
<1>3. CASE ~hit
  <2>1. Problem(w) /\ UNCHANGED <<tokens, spentOn>>
    BY <1>3, Zenon DEF Claim
  <2>2. QED
    BY <1>1, <1>2, <2>1, ProblemStep, Zenon DEF RequestStep, Stops, Still
<1>4. CASE hit
  <2>1. /\ tokens[t].status = "open" /\ req[w].at < tokens[t].exp
        /\ tokens' = [tokens EXCEPT ![t].status = "consumed"]
        /\ spentOn' = [spentOn EXCEPT ![t] = Presenter(w)]
    BY <1>1, <1>4, Zenon DEF Claim, Claimable, Typed, Token, Request
  <2>2. CASE r = "ok"
    <3>1. Goto(w, "create") /\ UNCHANGED req
      BY <1>4, <2>2, Zenon DEF Claim
    <3>2. QED
      BY <1>1, <1>2, <2>1, <3>1, Zenon DEF RequestStep, Others, Goto, Goes, Claims, Typed, Points
  <2>3. CASE r # "ok"
    <3>1. Problem(w) /\ t \in burnt'
      BY <1>4, <2>3, Zenon DEF Claim, Outcome
    <3>2. QED
      BY <1>1, <1>2, <2>1, <3>1, ProblemStep, Zenon DEF RequestStep, Stops, Claims
  <2>4. QED
    BY <2>2, <2>3, Zenon
<1>5. QED
  BY <1>3, <1>4, Zenon

LEMMA CreateStep ==
  ASSUME Typed, AccountInv, NEW w \in Workers, NEW r \in Outcome, Create(w, r)
  PROVE  RequestStep(w)
<1>1. /\ pc[w] = "create" /\ UNCHANGED <<tokens, spentOn, now>>
      /\ req[w].token \in Tokens
      /\ req[w].jwk \in JWK /\ req[w].jwk.key \in Keys /\ req[w].by = req[w].jwk.key
  BY Zenon DEF Create, Call, AccountInv, Signed, Vouched
<1>2. CASE r # "lost" /\ NoConflict(thumbprint(w))
  <2>1. PICK i \in Ids :
          /\ accounts[i] = NoAccount
          /\ accounts' = [accounts EXCEPT ![i] = Row(w)]
          /\ IF r = "ok" THEN Goto(w, "audit") /\ req' = [req EXCEPT ![w].id = i]
             ELSE Problem(w)
          /\ UNCHANGED burnt
    BY <1>2, Zenon DEF Create, Row
  <2>2. accounts'[i] = Row(w)
    BY <2>1, Zenon DEF Typed
  <2>3. Enrolled(i)' /\ accounts'[i].jwk.key = req[w].by
    BY <1>1, <2>2, AccountsAssumption, SMTT(20) DEF Enrolled, Row, NoAccount
  <2>4. CASE r = "ok"
    <3>a. req' = [req EXCEPT ![w].id = i]
      BY <2>1, <2>4, Zenon
    <3>b. pc' = [pc EXCEPT ![w] = "audit"]
      BY <2>1, <2>4, Zenon DEF Goto
    <3>c. [req EXCEPT ![w].id = i] \in [Workers -> Request]
      BY UpdateTyped, Zenon
    <3>d. req' \in [Workers -> Request]
      BY <3>a, <3>c, Zenon
    <3>1. Others(w) /\ pc'[w] = "audit"
      BY <3>a, <3>b, <3>d, Zenon DEF Others, Typed, Points
    <3>2. req'[w] = [req[w] EXCEPT !.id = i]
      BY <3>a, Zenon DEF Typed
    <3>3. QED
      BY <1>1, <1>2, <2>1, <2>3, <3>1, <3>2, Zenon DEF RequestStep, Goes, Creates, Enrolled, Typed
  <2>5. CASE r # "ok"
    BY <1>1, <1>2, <2>1, <2>3, <2>5, ProblemStep, Zenon DEF RequestStep, Stops, Creates, Enrolled, Typed
  <2>6. QED
    BY <2>4, <2>5, Zenon
<1>3. CASE ~(r # "lost" /\ NoConflict(thumbprint(w)))
  <2>1. CASE r = "ok"
    <3>1. Goto(w, "recover") /\ UNCHANGED <<req, burnt, accounts>>
      BY <1>3, <2>1, Zenon DEF Create
    <3>2. PICK i \in Ids : i \in ByThumbprint(thumbprint(w))
      BY <1>3, <2>1, Zenon DEF NoConflict, ByThumbprint
    <3>3. Enrolled(i) /\ accounts[i].jwk.key = req[w].by
      BY <1>1, <3>2, FoundIsOwn, Zenon
    <3>4. Enrolled(i)' /\ accounts'[i].jwk.key = req[w].by
      BY <3>1, <3>3, Zenon DEF Enrolled
    <3>5. QED
      BY <1>1, <3>1, <3>4, Zenon DEF RequestStep, Others, Goto, Goes, Still, Typed, Points
  <2>2. CASE r # "ok"
    <3>1. Problem(w) /\ burnt' = burnt \cup {req[w].token} /\ UNCHANGED accounts
      BY <1>3, <2>2, Zenon DEF Create
    <3>2. QED
      BY <1>1, <3>1, ProblemStep, Zenon DEF RequestStep, Stops, Still, Typed
  <2>3. QED
    BY <2>1, <2>2, Zenon
<1>4. QED
  BY <1>2, <1>3, Zenon

(* Every step of a request has that shape. *)
LEMMA RequestSteps ==
  ASSUME Typed, AccountInv, NEW w \in Workers, Receive(w) \/ Step(w) \/ Crash(w)
  PROVE  RequestStep(w)
<1>1. CASE Receive(w)
  <2>1. pc[w] = "idle" /\ UNCHANGED <<tokens, accounts, spentOn, burnt, now>>
    BY <1>1, Zenon DEF Receive, tables, history
  <2>2. CASE Problem(w)
    BY <2>1, <2>2, ProblemStep, Zenon DEF RequestStep, Stops, Still, Typed
  <2>3. CASE ~Problem(w)
    <3>1. PICK q \in Enrolments : Goto(w, "lookup") /\ req' = [req EXCEPT ![w] = q]
      BY <1>1, <2>3, Zenon DEF Receive
    <3>2. q \in Request
      BY EnrolmentFacts, Zenon
    <3>3. Others(w) /\ Goes(w)
      BY <2>1, <3>1, <3>2, Zenon DEF Others, Goto, Goes, Typed, Points
    <3>4. QED
      BY <2>1, <3>3, Zenon DEF RequestStep, Still, Typed
  <2>4. QED
    BY <2>2, <2>3, Zenon
<1>2. CASE Stamp(w)
  <2>1. /\ pc[w] = "stamp" /\ UNCHANGED <<tokens, accounts, spentOn, burnt, now>>
        /\ pc' = [pc EXCEPT ![w] = "claim"]
        /\ req' = [req EXCEPT ![w].at = now]
    BY <1>2, Zenon DEF Stamp, Goto, tables, history
  <2>2. req' \in [Workers -> Request]
    BY <2>1, UpdateTyped, Zenon DEF Typed
  <2>3. Others(w) /\ Goes(w)
    BY <2>1, <2>2, Zenon DEF Others, Goes, Typed, Points
  <2>4. QED
    BY <2>1, <2>3, Zenon DEF RequestStep, Still, Typed
<1>3. CASE Reply(w)
  <2>1. /\ pc[w] = "reply" /\ UNCHANGED <<tokens, accounts, spentOn, burnt, now>>
        /\ pc' = [pc EXCEPT ![w] = "idle"]
        /\ req' = [req EXCEPT ![w] = NoRequest]
    BY <1>3, Zenon DEF Reply, Goto, tables, history
  <2>2. NoRequest \in Request
    BY AnsweredTyped, Zenon DEF NoRequest
  <2>3. QED
    BY <2>1, <2>2, Zenon DEF RequestStep, Others, Stops, Still, Typed, Points
<1>4. CASE Crash(w)
  <2>1. /\ UNCHANGED <<tokens, accounts, spentOn, now>>
        /\ pc' = [pc EXCEPT ![w] = "idle"]
        /\ req' = [req EXCEPT ![w] = NoRequest]
        /\ burnt' = IF pc[w] = "create" THEN burnt \cup {req[w].token} ELSE burnt
    BY <1>4, Zenon DEF Crash, Goto, tables
  <2>2. NoRequest \in Request
    BY AnsweredTyped, Zenon DEF NoRequest
  <2>3. burnt \subseteq burnt' /\ burnt' \subseteq Tokens
    BY <2>1, Zenon DEF AccountInv, Vouched, Typed
  <2>4. QED
    BY <2>1, <2>2, <2>3, Zenon DEF RequestStep, Others, Stops, Still, Typed, Points
<1>5. ASSUME NEW r \in Outcome, Recover(w, r)
      PROVE  RequestStep(w)
  <2>1. pc[w] = "recover" /\ UNCHANGED <<tokens, accounts, spentOn, burnt, now>>
    BY <1>5, Zenon DEF Recover, Call, tables, history
  <2>2. CASE Problem(w)
    BY <2>1, <2>2, ProblemStep, Zenon DEF RequestStep, Stops, Still, Typed
  <2>3. CASE ~Problem(w)
    <3>1. PICK i \in Ids : i \in ByThumbprint(thumbprint(w)) /\ AnswerAccount(w, "existing", i)
      BY <1>5, <2>3, Zenon DEF Recover, ByThumbprint
    <3>2. Enrolled(i) /\ accounts[i].jwk.key = req[w].by
      BY <2>1, <3>1, FoundIsOwn, Zenon DEF AccountInv, Signed
    <3>3. Others(w) /\ Tells(w)
      BY <2>1, <3>1, <3>2, AnswerStep, Zenon
    <3>4. QED
      BY <2>1, <3>3, Zenon DEF RequestStep, Still, Typed
  <2>4. QED
    BY <2>2, <2>3, Zenon
<1>6. ASSUME NEW r \in Outcome, Audit(w, r)
      PROVE  RequestStep(w)
  <2>1. /\ pc[w] = "audit" /\ UNCHANGED <<tokens, accounts, spentOn, burnt, now>>
        /\ AnswerAccount(w, "created", req[w].id)
    BY <1>6, Zenon DEF Audit, Call, history
  <2>2. Others(w) /\ Tells(w)
    BY <2>1, AnswerStep, Zenon DEF AccountInv, Told
  <2>3. QED
    BY <2>1, <2>2, Zenon DEF RequestStep, Still, Typed
<1>7. QED
  BY <1>1, <1>2, <1>3, <1>4, <1>5, <1>6, LookupStep, GetTokenStep, ClaimStep, CreateStep, Zenon
     DEF Step, StoreStep

-----------------------------------------------------------------------------
(* Tokens and rows only ever move forward. *)
LEMMA Forward ==
  ASSUME Typed, AccountInv, NEW w \in Workers, RequestStep(w)
  PROVE  /\ \A i \in Ids : Enrolled(i) => accounts'[i] = accounts[i]
         /\ \A t \in Tokens :
              /\ tokens'[t].role = tokens[t].role /\ tokens'[t].exp = tokens[t].exp
              /\ tokens[t].status # "absent" => tokens'[t].status # "absent"
              /\ tokens[t].status = "consumed" =>
                   tokens'[t].status = "consumed" /\ spentOn'[t] = spentOn[t]
<1>1. CASE Still
  BY <1>1, Zenon DEF Still
<1>2. CASE Claims(w)
  <2>1. req[w].token \in Tokens
    BY <1>2, Zenon DEF Claims, AccountInv, Vouched
  <2>2. ASSUME NEW t \in Tokens
        PROVE  /\ tokens'[t].role = tokens[t].role /\ tokens'[t].exp = tokens[t].exp
               /\ tokens[t].status # "absent" => tokens'[t].status # "absent"
               /\ tokens[t].status = "consumed" =>
                    tokens'[t].status = "consumed" /\ spentOn'[t] = spentOn[t]
    BY <1>2, <2>1, Zenon DEF Claims, Typed, Token
  <2>3. QED
    BY <1>2, <2>2, Zenon DEF Claims
<1>3. ASSUME NEW i \in Ids, Creates(w, i)
      PROVE  \A j \in Ids : Enrolled(j) => accounts'[j] = accounts[j]
  BY <1>3, Zenon DEF Creates, Enrolled, Typed
<1>4. QED
  BY <1>1, <1>2, <1>3, Zenon DEF RequestStep, Creates

LEMMA TypedKept ==
  ASSUME Typed, AccountInv, NEW w \in Workers, RequestStep(w)
  PROVE  Typed'
<1>1. CASE Still
  BY <1>1, Zenon DEF Still, RequestStep, Others, Typed
<1>2. CASE Claims(w)
  <2>1. req[w].token \in Tokens
    BY <1>2, Zenon DEF Claims, AccountInv, Vouched
  <2>2. tokens' \in [Tokens -> Token]
    BY <1>2, <2>1, ZenonT(40) DEF Claims, Typed, Token
  <2>3. Presenter(w) \in [by: Keys \cup {None}, vouched: Keys \cup {None}]
    BY Zenon DEF Presenter, Typed, Request
  <2>4. spentOn' \in [Tokens -> [by: Keys \cup {None}, vouched: Keys \cup {None}]]
    BY <1>2, <2>1, <2>3, Zenon DEF Claims, Typed
  <2>5. QED
    BY <1>2, <2>2, <2>4, Zenon DEF Claims, RequestStep, Others, Typed
<1>3. ASSUME NEW i \in Ids, Creates(w, i)
      PROVE  Typed'
  <2>1. req[w].jwk \in JWK /\ req[w].jwk.key \in Keys
    BY <1>3, Zenon DEF Creates, AccountInv, Signed
  <2>2. thumbprint(w) \in JWK
    BY <2>1, Zenon DEF thumbprint, Thumbprint, PublicKeyToJWK, JWKPublicKey, JWK
  <2>3. Row(w) \in Account
    BY <2>1, <2>2, Zenon DEF Row, Account, Typed, Request
  <2>4. accounts' \in [Ids -> Account]
    BY <1>3, <2>3, Zenon DEF Creates, Typed
  <2>5. QED
    BY <1>3, <2>4, Zenon DEF Creates, RequestStep, Others, Typed
<1>4. QED
  BY <1>1, <1>2, <1>3, Zenon DEF RequestStep

LEMMA SignedKept ==
  ASSUME Typed, AccountInv, NEW w \in Workers, RequestStep(w)
  PROVE  Signed'
<1>. SUFFICES ASSUME NEW v \in Workers,
                     pc'[v] \in {"lookup", "getToken", "stamp", "claim", "create", "recover"}
              PROVE  /\ req'[v].jwk \in JWK
                     /\ req'[v].jwk.key \in Keys
                     /\ req'[v].by = req'[v].jwk.key
  BY Zenon DEF Signed
<1>1. CASE v # w
  BY <1>1, Zenon DEF RequestStep, Others, AccountInv, Signed
<1>2. CASE v = w
  <2>1. Goes(w)
    BY <1>2, Zenon DEF RequestStep, Stops, Tells
  <2>2. CASE pc[w] = "idle"
    BY <1>2, <2>1, <2>2, EnrolmentFacts, Zenon DEF Goes
  <2>3. CASE pc[w] # "idle"
    <3>1. /\ req'[w].jwk = req[w].jwk /\ req'[w].by = req[w].by
          /\ pc[w] \in {"lookup", "getToken", "stamp", "claim", "create"}
      BY <2>1, <2>3, Zenon DEF Goes, Typed, Request
    <3>2. QED
      BY <1>2, <3>1, Zenon DEF AccountInv, Signed
  <2>4. QED
    BY <2>2, <2>3, Zenon
<1>3. QED
  BY <1>1, <1>2, Zenon

LEMMA VouchedKept ==
  ASSUME Typed, AccountInv, NEW w \in Workers, RequestStep(w)
  PROVE  Vouched'
<1>. DEFINE Past(v) == /\ req[v].token \in Tokens
                       /\ req[v].vouched = req[v].by
                       /\ tokens[req[v].token].status # "absent"
                       /\ req[v].role = tokens[req[v].token].role
<1>1. ASSUME NEW v \in Workers, pc'[v] \in {"lookup", "getToken"}, req'[v].mac = TRUE
      PROVE  req'[v].vouched = req'[v].by
  <2>1. CASE v # w
    BY <1>1, <2>1, Zenon DEF RequestStep, Others, AccountInv, Vouched
  <2>2. CASE v = w
    <3>1. Goes(w)
      BY <1>1, <2>2, Zenon DEF RequestStep, Stops, Tells
    <3>2. CASE pc[w] = "idle"
      BY <1>1, <2>2, <3>1, <3>2, EnrolmentFacts, Zenon DEF Goes
    <3>3. CASE pc[w] # "idle"
      <4>1. pc[w] = "lookup" /\ req'[w] = req[w]
        BY <1>1, <2>2, <3>1, <3>3, Zenon DEF Goes
      <4>2. QED
        BY <1>1, <2>2, <4>1, Zenon DEF AccountInv, Vouched
    <3>4. QED
      BY <3>2, <3>3, Zenon
  <2>3. QED
    BY <2>1, <2>2, Zenon
<1>2. ASSUME NEW v \in Workers, pc'[v] = "getToken"
      PROVE  req'[v].token \in Tokens
  <2>1. CASE v # w
    BY <1>2, <2>1, Zenon DEF RequestStep, Others, AccountInv, Vouched
  <2>2. CASE v = w
    BY <1>2, <2>2, Zenon DEF RequestStep, Stops, Tells, Goes
  <2>3. QED
    BY <2>1, <2>2, Zenon
<1>3. ASSUME NEW v \in Workers, pc'[v] \in {"stamp", "claim", "create"}
      PROVE  Past(v)'
  <2>1. CASE v # w
    <3>1. req'[v] = req[v] /\ Past(v)
      BY <1>3, <2>1, Zenon DEF RequestStep, Others, AccountInv, Vouched
    <3>2. QED
      BY <3>1, Forward, Zenon
  <2>2. CASE v = w
    <3>1. Goes(w)
      BY <1>3, <2>2, Zenon DEF RequestStep, Stops, Tells
    <3>2. CASE pc[w] = "getToken"
      <4>1. /\ tokens[req[w].token].status = "open"
            /\ req[w].mac = TRUE
            /\ req'[w] = [req[w] EXCEPT !.role = tokens[req[w].token].role]
        BY <3>1, <3>2, Zenon DEF Goes
      <4>2. req[w].token \in Tokens /\ req[w].vouched = req[w].by
        BY <3>2, <4>1, Zenon DEF AccountInv, Vouched
      <4>3. /\ req'[w].token = req[w].token /\ req'[w].vouched = req[w].vouched
            /\ req'[w].by = req[w].by /\ req'[w].role = tokens[req[w].token].role
        BY <4>1 DEF Typed, Request
      <4>4. QED
        BY <2>2, <4>1, <4>2, <4>3, Forward
    <3>3. CASE pc[w] # "getToken"
      <4>1. /\ pc[w] \in {"stamp", "claim"}
            /\ req'[w].token = req[w].token /\ req'[w].vouched = req[w].vouched
            /\ req'[w].by = req[w].by /\ req'[w].role = req[w].role
        BY <1>3, <2>2, <3>1, <3>3, Zenon DEF Goes, Typed, Request
      <4>2. Past(w)
        BY <4>1, Zenon DEF AccountInv, Vouched
      <4>3. QED
        BY <2>2, <4>1, <4>2, Forward, Zenon
    <3>4. QED
      BY <3>2, <3>3, Zenon
  <2>3. QED
    BY <2>1, <2>2, Zenon
<1>4. QED
  BY <1>1, <1>2, <1>3, Zenon DEF Vouched

(* The rows of accounts after the step: the old ones and perhaps w's.      *)
LEMMA Rows ==
  ASSUME Typed, AccountInv, NEW w \in Workers, RequestStep(w), NEW i \in Ids
  PROVE  \/ accounts'[i] = accounts[i]
         \/ /\ Creates(w, i) /\ accounts'[i] = Row(w)
            /\ \A j \in Ids \ {i} : accounts'[j] = accounts[j]
<1>1. CASE Still \/ Claims(w)
  BY <1>1, Zenon DEF Still, Claims
<1>2. ASSUME NEW j \in Ids, Creates(w, j)
      PROVE  \/ accounts'[i] = accounts[i]
             \/ /\ Creates(w, i) /\ accounts'[i] = Row(w)
                /\ \A k \in Ids \ {i} : accounts'[k] = accounts[k]
  <2>1. CASE i = j
    BY <1>2, <2>1, Zenon DEF Creates, Typed
  <2>2. CASE i # j
    BY <1>2, <2>2, Zenon DEF Creates, Typed
  <2>3. QED
    BY <2>1, <2>2, Zenon
<1>3. QED
  BY <1>1, <1>2, Zenon DEF RequestStep

(* What the request past the claim knows. *)
LEMMA Knows ==
  ASSUME AccountInv, NEW w \in Workers, pc[w] = "create"
  PROVE  /\ req[w].jwk \in JWK /\ req[w].jwk.key \in Keys /\ req[w].by = req[w].jwk.key
         /\ req[w].token \in Tokens /\ req[w].vouched = req[w].by
         /\ req[w].role = tokens[req[w].token].role
         /\ tokens[req[w].token].status = "consumed"
         /\ spentOn[req[w].token] = [by |-> req[w].by, vouched |-> req[w].by]
         /\ req[w].at < tokens[req[w].token].exp
         /\ \A i \in Ids : accounts[i].eab # req[w].token
         /\ \A v \in Workers : v # w /\ pc[v] = "create" => req[v].token # req[w].token
<1>1. req[w].jwk \in JWK /\ req[w].jwk.key \in Keys /\ req[w].by = req[w].jwk.key
  BY Zenon DEF AccountInv, Signed
<1>2. /\ req[w].token \in Tokens /\ req[w].vouched = req[w].by
      /\ req[w].role = tokens[req[w].token].role
  BY Zenon DEF AccountInv, Vouched
<1>3. QED
  BY <1>1, <1>2, Zenon DEF AccountInv, Holds

LEMMA HoldsKept ==
  ASSUME Typed, AccountInv, NEW w \in Workers, RequestStep(w)
  PROVE  Holds'
<1>1. ASSUME NEW v \in Workers, v # w, pc'[v] = "create"
      PROVE  /\ pc[v] = "create" /\ req'[v] = req[v]
             /\ tokens'[req[v].token].status = "consumed"
             /\ spentOn'[req[v].token] = [by |-> req[v].by, vouched |-> req[v].vouched]
             /\ req[v].at < tokens'[req[v].token].exp
             /\ \A i \in Ids : accounts'[i].eab # req[v].token
  <2>1. pc[v] = "create" /\ req'[v] = req[v]
    BY <1>1, Zenon DEF RequestStep, Others
  <2>2. /\ tokens'[req[v].token].status = "consumed"
        /\ spentOn'[req[v].token] = [by |-> req[v].by, vouched |-> req[v].vouched]
        /\ req[v].at < tokens'[req[v].token].exp
    BY <2>1, Knows, Forward, ZenonT(20)
  <2>3. ASSUME NEW i \in Ids
        PROVE  accounts'[i].eab # req[v].token
    <3>1. CASE accounts'[i] = accounts[i]
      BY <2>1, <3>1, ZenonT(20) DEF AccountInv, Holds
    <3>2. CASE Creates(w, i) /\ accounts'[i] = Row(w)
      <4>1. pc[w] = "create" /\ accounts'[i].eab = req[w].token
        BY <3>2 DEF Creates, Row
      <4>2. QED
        BY <1>1, <2>1, <4>1, Knows, ZenonT(20)
    <3>3. QED
      BY <3>1, <3>2, Rows, Zenon
  <2>4. QED
    BY <2>1, <2>2, <2>3, Zenon
<1>2. ASSUME pc'[w] = "create"
      PROVE  /\ tokens'[req'[w].token].status = "consumed"
             /\ spentOn'[req'[w].token] = [by |-> req'[w].by, vouched |-> req'[w].vouched]
             /\ req'[w].at < tokens'[req'[w].token].exp
             /\ \A i \in Ids : accounts'[i].eab # req'[w].token
             /\ \A v \in Workers : v # w /\ pc'[v] = "create" => req'[v].token # req'[w].token
  <2>. DEFINE t == req[w].token
  <2>1. /\ pc[w] = "claim" /\ req'[w] = req[w]
        /\ tokens[t].status = "open"
        /\ req[w].at < tokens[t].exp
        /\ tokens' = [tokens EXCEPT ![t].status = "consumed"]
        /\ spentOn' = [spentOn EXCEPT ![t] = Presenter(w)]
    BY <1>2, Zenon DEF RequestStep, Stops, Tells, Goes
  <2>2. t \in Tokens
    BY <2>1, Zenon DEF AccountInv, Vouched
  <2>3. /\ tokens'[t].status = "consumed"
        /\ spentOn'[t] = Presenter(w)
        /\ req[w].at < tokens'[t].exp
    BY <2>1, <2>2, Zenon DEF Typed, Token
  <2>4. ASSUME NEW i \in Ids
        PROVE  accounts'[i].eab # t
    <3>1. accounts'[i] = accounts[i]
      BY <2>1, Rows, Zenon DEF Creates
    <3>2. CASE Enrolled(i)
      BY <2>1, <3>1, <3>2, Zenon DEF AccountInv, Backed
    <3>3. CASE ~Enrolled(i)
      BY <2>2, <3>1, <3>3, AccountsAssumption DEF Enrolled, NoAccount
    <3>4. QED
      BY <3>2, <3>3, Zenon
  <2>5. ASSUME NEW v \in Workers, v # w, pc'[v] = "create"
        PROVE  req'[v].token # t
    <3>1. pc[v] = "create" /\ req'[v] = req[v]
      BY <1>1, <2>5, Zenon
    <3>2. tokens[req[v].token].status = "consumed"
      BY <3>1, Zenon DEF AccountInv, Holds
    <3>3. QED
      BY <2>1, <3>1, <3>2, Zenon
  <2>6. QED
    BY <2>1, <2>3, <2>4, <2>5, Zenon DEF Presenter
<1>3. ASSUME NEW v \in Workers, NEW u \in Workers, v # u, pc'[v] = "create", pc'[u] = "create"
      PROVE  req'[u].token # req'[v].token
  <2>1. CASE v # w /\ u # w
    <3>1. pc[v] = "create" /\ req'[v] = req[v] /\ pc[u] = "create" /\ req'[u] = req[u]
      BY <1>1, <1>3, <2>1, Zenon
    <3>2. QED
      BY <1>3, <3>1, ZenonT(20) DEF AccountInv, Holds
  <2>2. CASE v = w \/ u = w
    BY <1>2, <1>3, <2>2, Zenon
  <2>3. QED
    BY <2>1, <2>2, Zenon
<1>4. QED
  <2>. SUFFICES ASSUME NEW v \in Workers, pc'[v] = "create"
                PROVE  /\ tokens'[req'[v].token].status = "consumed"
                       /\ spentOn'[req'[v].token] = [by |-> req'[v].by, vouched |-> req'[v].vouched]
                       /\ req'[v].at < tokens'[req'[v].token].exp
                       /\ \A i \in Ids : accounts'[i].eab # req'[v].token
                       /\ \A u \in Workers : u # v /\ pc'[u] = "create" => req'[u].token # req'[v].token
    BY Zenon DEF Holds
  <2>1. CASE v = w
    BY <1>2, <2>1, Zenon
  <2>2. CASE v # w
    <3>1. \A u \in Workers : u # v /\ pc'[u] = "create" => req'[u].token # req'[v].token
      BY <1>3, Zenon
    <3>2. QED
      BY <1>1, <2>2, <3>1, ZenonT(20)
  <2>3. QED
    BY <2>1, <2>2, Zenon

LEMMA BackedKept ==
  ASSUME Typed, AccountInv, NEW w \in Workers, RequestStep(w)
  PROVE  Backed'
<1>. SUFFICES ASSUME NEW i \in Ids, Enrolled(i)'
              PROVE  /\ accounts'[i].jwk \in JWK
                     /\ accounts'[i].jwk.key \in Keys
                     /\ accounts'[i].thumb = Thumbprint(accounts'[i].jwk.key)
                     /\ accounts'[i].eab \in Tokens
                     /\ tokens'[accounts'[i].eab].status = "consumed"
                     /\ spentOn'[accounts'[i].eab] =
                          [by |-> accounts'[i].jwk.key, vouched |-> accounts'[i].jwk.key]
                     /\ tokens'[accounts'[i].eab].role = accounts'[i].role
                     /\ accounts'[i].createdAt < tokens'[accounts'[i].eab].exp
  BY Zenon DEF Backed
<1>1. CASE accounts'[i] = accounts[i]
  <2>1. Enrolled(i)
    BY <1>1, Zenon DEF Enrolled, NoAccount
  <2>2. QED
    BY <1>1, <2>1, Forward DEF AccountInv, Backed
<1>2. CASE Creates(w, i) /\ accounts'[i] = Row(w)
  <2>1. /\ accounts'[i].jwk = req[w].jwk /\ accounts'[i].eab = req[w].token
        /\ accounts'[i].role = req[w].role /\ accounts'[i].createdAt = req[w].at
        /\ accounts'[i].thumb = thumbprint(w)
        /\ pc[w] = "create" /\ UNCHANGED <<tokens, spentOn>>
    BY <1>2 DEF Row, Creates
  <2>2. thumbprint(w) = Thumbprint(req[w].jwk.key)
    BY Zenon DEF thumbprint, JWKPublicKey
  <2>3. QED
    <3>1. /\ req[w].jwk \in JWK /\ req[w].jwk.key \in Keys
          /\ req[w].token \in Tokens
          /\ req[w].role = tokens[req[w].token].role
          /\ tokens[req[w].token].status = "consumed"
          /\ spentOn[req[w].token] = [by |-> req[w].jwk.key, vouched |-> req[w].jwk.key]
          /\ req[w].at < tokens[req[w].token].exp
      BY <2>1, Knows, Zenon
    <3>2. QED
      BY <2>1, <2>2, <3>1, Zenon
<1>3. QED
  BY <1>1, <1>2, Rows, Zenon

LEMMA UniqueKept ==
  ASSUME Typed, AccountInv, NEW w \in Workers, RequestStep(w)
  PROVE  Unique'
<1>. SUFFICES ASSUME NEW i \in Ids, NEW j \in Ids, Enrolled(i)', Enrolled(j)',
                     accounts'[i].thumb = accounts'[j].thumb, i # j
              PROVE  FALSE
  BY Zenon DEF Unique
<1>1. CASE accounts'[i] = accounts[i] /\ accounts'[j] = accounts[j]
  BY <1>1, Zenon DEF AccountInv, Unique, Enrolled, NoAccount
<1>2. ASSUME NEW a \in Ids, NEW b \in Ids, a # b, Creates(w, a), accounts'[a] = Row(w),
             accounts'[b] = accounts[b], accounts'[a].thumb = accounts'[b].thumb
      PROVE  FALSE
  <2>1. accounts[b].thumb = thumbprint(w)
    BY <1>2 DEF Row
  <2>2. QED
    BY <1>2, <2>1, Zenon DEF Creates, NoConflict, ByThumbprint
<1>3. QED
  BY <1>1, <1>2, Rows, Zenon

LEMMA ToldKept ==
  ASSUME Typed, AccountInv, NEW w \in Workers, RequestStep(w)
  PROVE  Told'
<1>. SUFFICES ASSUME NEW v \in Workers
              PROVE  /\ pc'[v] # "reply" => req'[v].reply = "none"
                     /\ pc'[v] = "audit" \/ req'[v].reply \in {"existing", "created"} =>
                          /\ req'[v].id \in Ids
                          /\ accounts'[req'[v].id] # NoAccount
                          /\ accounts'[req'[v].id].jwk.key = req'[v].by
  BY Zenon DEF Told, Enrolled
<1>0. \A i \in Ids : Enrolled(i) => accounts'[i] # NoAccount /\ accounts'[i] = accounts[i]
  BY Forward, Zenon DEF Enrolled
<1>1. CASE v # w
  <2>1. pc'[v] = pc[v] /\ req'[v] = req[v]
    BY <1>1, Zenon DEF RequestStep, Others
  <2>2. QED
    BY <1>0, <2>1, Zenon DEF AccountInv, Told
<1>2. CASE v = w /\ Stops(w)
  <2>1. req'[w].reply \in {"none", "problem"} /\ pc'[w] # "audit"
    BY <1>2 DEF Stops, NoRequest, Answered
  <2>2. pc'[w] # "reply" => req'[w].reply = "none"
    BY <1>2 DEF Stops, NoRequest, Answered
  <2>3. QED
    BY <1>2, <2>1, <2>2, Zenon
<1>3. CASE v = w /\ Tells(w)
  <2>1. PICK i \in Ids, a \in {"existing", "created"} :
               req'[w] = Answered(req[w].by, i, a) /\ Enrolled(i) /\ accounts[i].jwk.key = req[w].by
    BY <1>3, Zenon DEF Tells
  <2>2. req'[w].id = i /\ req'[w].by = req[w].by
    BY <2>1 DEF Answered
  <2>3. QED
    BY <1>0, <1>3, <2>1, <2>2, Zenon DEF Tells
<1>4. CASE v = w /\ Goes(w)
  <2>1. pc[w] # "reply" => req[w].reply = "none"
    BY Zenon DEF AccountInv, Told
  <2>2. CASE pc[w] = "idle"
    BY <1>4, <2>2, EnrolmentFacts, Zenon DEF Goes
  <2>3. CASE pc'[w] = "audit"
    <3>1. PICK i \in Ids : /\ pc[w] = "create"
                           /\ req'[w] = [req[w] EXCEPT !.id = i]
                           /\ Enrolled(i)' /\ accounts'[i].jwk.key = req[w].by
      BY <1>4, <2>3, Zenon DEF Goes
    <3>2. req'[w].id = i /\ req'[w].by = req[w].by /\ req'[w].reply = req[w].reply
      BY <3>1 DEF Typed, Request
    <3>3. QED
      BY <1>4, <2>1, <3>1, <3>2, Zenon DEF Enrolled
  <2>4. CASE pc[w] # "idle" /\ pc'[w] # "audit"
    <3>1. pc[w] # "reply" /\ req'[w].reply = req[w].reply
      BY <1>4, <2>4, Zenon DEF Goes, Typed, Request
    <3>2. QED
      BY <1>4, <2>1, <2>4, <3>1, Zenon
  <2>5. QED
    BY <2>2, <2>3, <2>4, Zenon
<1>5. QED
  BY <1>1, <1>2, <1>3, <1>4, Zenon DEF RequestStep

LEMMA AccountedKept ==
  ASSUME Typed, AccountInv, NEW w \in Workers, RequestStep(w)
  PROVE  TokenAccounted'
<1>. SUFFICES ASSUME NEW t \in Tokens, tokens'[t].status = "consumed"
              PROVE  \/ \E i \in Ids : Enrolled(i)' /\ accounts'[i].jwk.key = spentOn'[t].by
                     \/ \E v \in Workers : pc'[v] = "create" /\ req'[v].token = t
                     \/ t \in burnt'
  BY Zenon DEF TokenAccounted, KeyOf, JWKPublicKey, Enrolled
<1>1. CASE tokens[t].status = "consumed"
  <2>1. spentOn'[t] = spentOn[t]
    BY <1>1, Forward, Zenon
  <2>2. ASSUME NEW i \in Ids, Enrolled(i), accounts[i].jwk.key = spentOn[t].by
        PROVE  Enrolled(i)' /\ accounts'[i].jwk.key = spentOn'[t].by
    BY <2>1, <2>2, Forward, Zenon DEF Enrolled, NoAccount
  <2>3. ASSUME NEW v \in Workers, v # w, pc[v] = "create", req[v].token = t
        PROVE  pc'[v] = "create" /\ req'[v].token = t
    BY <2>3, Zenon DEF RequestStep, Others
  <2>4. ASSUME pc[w] = "create", req[w].token = t
        PROVE  \/ \E i \in Ids : Enrolled(i)' /\ accounts'[i].jwk.key = spentOn'[t].by
               \/ t \in burnt'
    <3>1. spentOn[t] = [by |-> req[w].by, vouched |-> req[w].vouched]
      BY <2>4, Zenon DEF AccountInv, Holds
    <3>2. \/ \E i \in Ids : Enrolled(i)' /\ accounts'[i].jwk.key = req[w].by
          \/ t \in burnt'
      BY <2>4, Zenon DEF RequestStep, Stops, Tells, Goes
    <3>3. QED
      BY <2>1, <3>1, <3>2, SMTT(20)
  <2>5. \/ \E i \in Ids : Enrolled(i) /\ accounts[i].jwk.key = spentOn[t].by
        \/ \E v \in Workers : pc[v] = "create" /\ req[v].token = t
        \/ t \in burnt
    BY <1>1, Zenon DEF AccountInv, TokenAccounted, KeyOf, JWKPublicKey, Enrolled
  <2>6. QED
    BY <2>2, <2>3, <2>4, <2>5, Zenon DEF RequestStep
<1>2. CASE tokens[t].status # "consumed"
  <2>1. Claims(w)
    BY <1>2, Zenon DEF RequestStep, Still, Creates
  <2>2. req[w].token = t
    BY <1>2, <2>1, Zenon DEF Claims, Typed, Token, AccountInv, Vouched
  <2>3. CASE pc'[w] = "create"
    <3>1. req'[w] = req[w]
      BY <2>3, Zenon DEF RequestStep, Stops, Tells, Goes
    <3>2. QED
      BY <2>2, <2>3, <3>1, Zenon
  <2>4. QED
    BY <2>1, <2>2, <2>3, Zenon DEF Claims
<1>3. QED
  BY <1>1, <1>2, Zenon

LEMMA RequestKeeps ==
  ASSUME Typed, AccountInv, NEW w \in Workers, Receive(w) \/ Step(w) \/ Crash(w)
  PROVE  (Typed /\ AccountInv)'
BY RequestSteps, TypedKept, SignedKept, VouchedKept, HoldsKept, BackedKept, UniqueKept,
   ToldKept, AccountedKept, Zenon DEF AccountInv

(* Time, nonces and new tokens change nothing that a request or a row      *)
(* relies on.                                                              *)
LEMMA EnvironmentKeeps ==
  ASSUME Typed, AccountInv, Environment \/ UNCHANGED vars
  PROVE  (Typed /\ AccountInv)'
<1>1. UNCHANGED <<accounts, pc, req, spentOn, burnt>> /\ now' \in Nat
  BY DEF Environment, Tick, NewNonce, IssueEABToken, vars, tables, history, Typed
<1>2. \/ tokens' = tokens
      \/ \E t \in Tokens, role \in Roles :
           /\ tokens[t].status = "absent"
           /\ tokens' = [tokens EXCEPT ![t] = [status |-> "open", role |-> role,
                                               exp |-> now + TokenTTL]]
  BY Zenon DEF Environment, IssueEABToken, vars, tables
<1>3. tokens' \in [Tokens -> Token]
  BY <1>2, AccountsAssumption DEF Typed, Token
<1>4. \A t \in Tokens : tokens[t].status # "absent" => tokens'[t] = tokens[t]
  BY <1>2, Zenon DEF Typed
<1>5. \A t \in Tokens : tokens'[t].status = "consumed" => tokens[t].status = "consumed"
  BY <1>2, SMTT(20) DEF Typed
<1>6. Typed'
  BY <1>1, <1>3, Zenon DEF Typed
<1>7. Signed' /\ Told' /\ Unique'
  BY <1>1, Zenon DEF AccountInv, Signed, Told, Unique, Enrolled
<1>8. Vouched'
  BY <1>1, <1>4, Zenon DEF AccountInv, Vouched
<1>9. Holds'
  <2>1. ASSUME NEW w \in Workers, pc[w] = "create"
        PROVE  tokens'[req[w].token] = tokens[req[w].token]
    BY <1>4, <2>1, Zenon DEF AccountInv, Vouched
  <2>2. QED
    BY <1>1, <2>1, Zenon DEF AccountInv, Holds
<1>10. Backed'
  <2>1. ASSUME NEW i \in Ids, Enrolled(i)
        PROVE  tokens'[accounts[i].eab] = tokens[accounts[i].eab]
    BY <1>4, <2>1, Zenon DEF AccountInv, Backed
  <2>2. QED
    BY <1>1, <2>1, Zenon DEF AccountInv, Backed, Enrolled
<1>11. TokenAccounted'
  BY <1>1, <1>5, Zenon DEF AccountInv, TokenAccounted, KeyOf
<1>12. QED
  BY <1>6, <1>7, <1>8, <1>9, <1>10, <1>11, Zenon DEF AccountInv

LEMMA InvInit == Init => Typed /\ AccountInv
<1>. SUFFICES ASSUME Init PROVE Typed /\ AccountInv
  BY Zenon
<1>1. NoRequest \in Request
  BY AnsweredTyped, Zenon DEF NoRequest
<1>2. NoAccount \in Account
  BY Zenon DEF NoAccount, Account
<1>3. Typed
  BY <1>1, <1>2, Zenon DEF Init, NonceInit, Typed, Token, Points
<1>4. Signed /\ Vouched /\ Holds
  BY Zenon DEF Init, Signed, Vouched, Holds
<1>5. Backed /\ Unique
  BY Zenon DEF Init, Backed, Unique, Enrolled
<1>6. Told
  BY Zenon DEF Init, Told, NoRequest, Answered
<1>7. TokenAccounted
  BY Zenon DEF Init, TokenAccounted
<1>8. QED
  BY <1>3, <1>4, <1>5, <1>6, <1>7, Zenon DEF AccountInv

(* The inductive invariant: what a request knows at each point of          *)
(* handleACMENewAccount, and what every row of acme_accounts goes back to. *)
THEOREM AccountInvariant == Spec => [](Typed /\ AccountInv)
<1>1. Typed /\ AccountInv /\ [Next]_vars => (Typed /\ AccountInv)'
  BY RequestKeeps, EnvironmentKeeps, Zenon DEF Next
<1>2. QED
  BY InvInit, <1>1, PTL DEF Spec

(* The UNIQUE thumbprint column keeps one account per key, whatever form   *)
(* the jwk of each racing request came in.                                 *)
THEOREM AccountsUnique == Spec => []OneAccountPerKey
<1>1. Typed /\ AccountInv => OneAccountPerKey
  <2>. SUFFICES ASSUME AccountInv, NEW i \in Ids, NEW j \in Ids, Enrolled(i), Enrolled(j),
                       accounts[i].jwk.key = accounts[j].jwk.key
                PROVE  i = j
    BY Zenon DEF OneAccountPerKey, KeyOf, JWKPublicKey, Enrolled
  <2>1. accounts[i].thumb = accounts[j].thumb
    BY Zenon DEF AccountInv, Backed
  <2>2. QED
    BY <2>1, Zenon DEF AccountInv, Unique
<1>2. QED
  BY AccountInvariant, <1>1, PTL

(* Every account goes back to a consumed token that vouched for its key,   *)
(* gave its role and had not expired.                                      *)
THEOREM AccountsBacked == Spec => []AccountBacked
<1>1. Typed /\ AccountInv => AccountBacked
  BY Zenon DEF AccountInv, Backed, AccountBacked, KeyOf, JWKPublicKey, Enrolled
<1>2. QED
  BY AccountInvariant, <1>1, PTL

(* A consumed token made an account for the key that presented it, is held *)
(* by a request that is about to make one, or fell to a fault.             *)
THEOREM TokensAccounted == Spec => []TokenAccounted
<1>1. Typed /\ AccountInv => TokenAccounted
  BY Zenon DEF AccountInv
<1>2. QED
  BY AccountInvariant, <1>1, PTL

(* A 200 or a 201 points to the account of the key that signed the request. *)
THEOREM LocationsOwn == Spec => []LocationIsOwn
<1>1. Typed /\ AccountInv => LocationIsOwn
  BY Zenon DEF AccountInv, Told, LocationIsOwn, KeyOf, JWKPublicKey, Enrolled
<1>2. QED
  BY AccountInvariant, <1>1, PTL

-----------------------------------------------------------------------------
(* A claim is a claim of the ticket, a new row makes it into its product.  *)
LEMMA StepsMap ==
  ASSUME Typed, AccountInv, [Next]_vars
  PROVE  [OneShot!Next]_<<Claimed, Made>>
<1>1. CASE Environment \/ UNCHANGED vars
  <2>1. accounts' = accounts
    BY <1>1, Zenon DEF Environment, Tick, NewNonce, IssueEABToken, vars, tables
  <2>2. \A t \in Tokens : tokens'[t].status = "consumed" <=> tokens[t].status = "consumed"
    BY <1>1 DEF Environment, IssueEABToken, vars, tables, Typed
  <2>3. QED
    BY <2>1, <2>2, Zenon DEF Claimed, Made
<1>2. ASSUME NEW w \in Workers, RequestStep(w)
      PROVE  [OneShot!Next]_<<Claimed, Made>>
  <2>1. CASE Still
    BY <2>1, Zenon DEF Still, Claimed, Made
  <2>2. CASE Claims(w)
    <3>1. req[w].token \in Tokens
      BY <2>2, Zenon DEF Claims, AccountInv, Vouched
    <3>2. req[w].token \notin Claimed
      BY <2>2, Zenon DEF Claims, Claimed
    <3>3. \A t \in Tokens : tokens'[t].status = "consumed" <=>
                            t = req[w].token \/ tokens[t].status = "consumed"
      BY <2>2, <3>1, Zenon DEF Claims, Typed, Token
    <3>4. Claimed' = Claimed \cup {req[w].token}
      BY <3>1, <3>3, Zenon DEF Claimed
    <3>5. Made' = Made
      BY <2>2, Zenon DEF Claims, Made
    <3>6. QED
      BY <3>1, <3>2, <3>4, <3>5, Zenon DEF OneShot!Next, OneShot!Claim
  <2>3. ASSUME NEW i \in Ids, Creates(w, i)
        PROVE  OneShot!Next
    <3>. DEFINE t == req[w].token
    <3>1. pc[w] = "create"
      BY <2>3, Zenon DEF Creates
    <3>2. t \in Tokens /\ t \in Claimed /\ \A j \in Ids : accounts[j].eab # t
      BY <3>1, Knows, Zenon DEF Claimed
    <3>3. Made[t] = {}
      BY <3>2, Zenon DEF Made
    <3>4. accounts[i].eab = None
      BY <2>3 DEF Creates, Enrolled, NoAccount
    <3>5. \A u \in Tokens : i \notin Made[u]
      BY <3>4, AccountsAssumption, Zenon DEF Made
    <3>6. \A j \in Ids : accounts'[j].eab = IF j = i THEN t ELSE accounts[j].eab
      BY <2>3, Zenon DEF Creates, Row, Typed
    <3>7. ASSUME NEW u \in Tokens
          PROVE  Made'[u] = IF u = t THEN {i} ELSE Made[u]
      BY <3>2, <3>4, <3>6, AccountsAssumption, Zenon DEF Made
    <3>8. Made' = [Made EXCEPT ![t] = {i}]
      BY <3>2, <3>7, Zenon DEF Made
    <3>9. Claimed' = Claimed
      BY <2>3, Zenon DEF Creates, Claimed
    <3>10. QED
      BY <3>2, <3>3, <3>5, <3>8, <3>9, Zenon DEF OneShot!Next, OneShot!Make
  <2>4. QED
    BY <1>2, <2>1, <2>2, <2>3, Zenon DEF RequestStep
<1>3. QED
  BY <1>1, <1>2, RequestSteps, Zenon DEF Next

(* handleACMENewAccount implements the one-shot ticket of ClaimOnce: no    *)
(* account without an earlier claim of its token, and no second one.       *)
THEOREM AccountsRefineClaimOnce == Spec => ImplementsClaimOnce
<1>1. Init => OneShot!Init
  BY AccountsAssumption DEF Init, OneShot!Init, Claimed, Made, NoAccount
<1>2. Typed /\ AccountInv /\ [Next]_vars => [OneShot!Next]_<<Claimed, Made>>
  BY StepsMap, Zenon
<1>3. QED
  BY <1>1, <1>2, AccountInvariant, PTL DEF Spec, ImplementsClaimOnce, OneShot!Spec, Claimed, Made
=============================================================================
