---------------------------- MODULE AcmeAccounts ----------------------------
(***************************************************************************)
(* ACME enrolment: POST /v1/acme/new-account with external account binding *)
(* and the administrator's POST /v1/acme/eab-tokens (internal/api/acme.go, *)
(* internal/store/sqlite/acme.go).  As in AcmeOrders, every store call of  *)
(* handleACMENewAccount is a step and ends "ok", "lost" or "ghost".        *)
(***************************************************************************)
EXTENDS AcmeNonces, Jws

CONSTANTS
  Workers,    \* request slots: how many new-account requests are in flight
  Tokens,     \* EAB key ids (random, so each new token has a fresh one)
  Ids,        \* account ids (random, likewise)
  TokenTTL,   \* acmeEABTokenTTL, in clock ticks
  MaxFaults   \* bound: failed store calls and crashes per behaviour

Roles == {"admin", "manager"}

ASSUME AccountsAssumption ==
  /\ None \notin Keys \cup Tokens \cup Ids \cup Roles
  /\ TokenTTL \in Nat
  /\ MaxFaults \in Nat

VARIABLES
  tokens,    \* table acme_eab_tokens
  accounts,  \* table acme_accounts
  audit,     \* table audit_log, as a set of <<action, target>>
  pc,        \* where each new-account request stands
  req,       \* the local variables of its handler
  spentOn,   \* history: the key that signed the request that claimed the token,
             \* and the key that the token's holder vouched for
  burnt,     \* history: tokens whose claiming request a fault cut short
  faults     \* how many faults happened

tables == <<tokens, accounts, audit>>
history == <<spentOn, burnt>>
vars == <<now, nonceVars, tables, pc, req, history, faults>>

Token == [status: {"absent", "open", "consumed"}, role: Roles \cup {None}, exp: Nat]

(* thumb is jwk_thumbprint, jwk the key as the client wrote it. *)
Account == [thumb: JWK \cup {None}, jwk: JWK \cup {None}, role: Roles \cup {None},
            eab: Tokens \cup {None}, createdAt: Nat]

NoAccount == [thumb |-> None, jwk |-> None, role |-> None, eab |-> None, createdAt |-> 0]

(* What the handler keeps of a request: its jwk and the token that its     *)
(* binding names (None when the binding is not for this URL and this jwk), *)
(* mac says whether the binding verifies under the token's HMAC key; role  *)
(* is the role read with the token, at the handler's "now".  As history,   *)
(* by is the key that signed the request and vouched the key that the      *)
(* holder of the token made the binding for.                               *)
Request == [jwk: JWK \cup {None}, by: Keys \cup {None}, vouched: Keys \cup {None},
            token: Tokens \cup {None}, mac: BOOLEAN, role: Roles \cup {None}, at: Nat, id: Ids \cup {None},
            reply: {"none", "problem", "existing", "created"}]

(* A request as it came in, ... *)
NewRequest(j, by, v, t, m) ==
  [jwk |-> j, by |-> by, vouched |-> v, token |-> t, mac |-> m,
   role |-> None, at |-> 0, id |-> None, reply |-> "none"]

(* ... and one that is answered: nothing but what is told is still needed. *)
Answered(by, i, a) ==
  [jwk |-> None, by |-> by, vouched |-> None, token |-> None, mac |-> FALSE,
   role |-> None, at |-> 0, id |-> i, reply |-> a]

NoRequest == Answered(None, None, "none")

Points == {"idle", "lookup", "getToken", "stamp", "claim", "create", "recover",
           "audit", "reply"}

Init ==
  /\ NonceInit
  /\ tokens = [t \in Tokens |-> [status |-> "absent", role |-> None, exp |-> 0]]
  /\ accounts = [i \in Ids |-> NoAccount]
  /\ audit = {}
  /\ pc = [w \in Workers |-> "idle"]
  /\ req = [w \in Workers |-> NoRequest]
  /\ spentOn = [t \in Tokens |-> [by |-> None, vouched |-> None]]
  /\ burnt = {}
  /\ faults = 0

-----------------------------------------------------------------------------
Outcome == {"ok", "lost", "ghost"}

(* A store call with outcome r; a failure draws on the bound. *)
Call(r) ==
  /\ r # "ok" => faults < MaxFaults
  /\ faults' = IF r = "ok" THEN faults ELSE faults + 1
  /\ UNCHANGED <<now, nonceVars>>

Goto(w, p) == pc' = [pc EXCEPT ![w] = p]

(* A problem document. *)
Problem(w) ==
  /\ Goto(w, "reply")
  /\ req' = [req EXCEPT ![w] = Answered(None, None, "problem")]

(* The 200 and 201 responses: Location names account i. *)
AnswerAccount(w, a, i) ==
  /\ Goto(w, "reply")
  /\ req' = [req EXCEPT ![w] = Answered(req[w].by, i, a)]

(* GetByThumbprint: the rows that hold thumbprint p. *)
ByThumbprint(p) == {i \in Ids : accounts[i].thumb = p}

(* The thumbprint of the request's key, computed before the look-up. *)
thumbprint(w) == Thumbprint(JWKPublicKey(req[w].jwk))

(* POST /v1/acme/eab-tokens.  Nobody knows the token's HMAC key before the *)
(* response, so insert and audit are one step; the audit entry may fail    *)
(* without failing the request.  A failed insert leaves no usable token.   *)
IssueEABToken(t, role, logged) ==
  /\ tokens[t].status = "absent"
  /\ ~logged => faults < MaxFaults
  /\ tokens' = [tokens EXCEPT ![t] = [status |-> "open", role |-> role,
                                      exp |-> now + TokenTTL]]
  /\ audit' = IF logged THEN audit \cup {<<"acme-eab-token-issue", t>>} ELSE audit
  /\ faults' = IF logged THEN faults ELSE faults + 1
  /\ UNCHANGED <<now, nonceVars, accounts, pc, req, history>>

(* The outer JWS of a new-account request and the binding in its payload,  *)
(* url telling whether they are for the new-account URL.  A binding that   *)
(* does not parse fares like one for another jwk.                          *)
Outer == [alg: Algs, by: Keys \cup {None}, url: BOOLEAN, jwk: JWK \cup {None}]

Binding == [alg: Algs, by: Tokens \cup {None}, url: BOOLEAN, kid: Tokens, payload: JWK]

(* The checks on the outer JWS. *)
Authentic(j) ==
  /\ j.url
  /\ j.jwk # None
  /\ JWKPublicKey(j.jwk) # None
  /\ Verify(j, JWKPublicKey(j.jwk))

(* The checks on the binding that need no token: its payload has to be the *)
(* outer jwk, byte for byte.                                               *)
Matches(b, j) == b.url = j.url /\ b.payload = j.jwk

(* What a request with outer JWS j and binding b comes to; it vouches for  *)
(* a key when the holder of the token it names made the binding.           *)
Enrolment(j, b) ==
  IF Matches(b, j)
  THEN LET m == VerifyHMAC(b, b.kid)
           v == IF m /\ b.by = b.kid THEN JWKPublicKey(b.payload) ELSE None
       IN NewRequest(j.jwk, j.by, v, b.kid, m)
  ELSE NewRequest(j.jwk, j.by, None, None, FALSE)

Enrolments == {Enrolment(j, b) : j \in {o \in Outer : Authentic(o)}, b \in Binding}

(* verifiedJWS and the checks on the outer JWS and its payload.  The nonce *)
(* is spent before any of them; a body that is no JWS, a nonce that is not *)
(* valid and a DELETE that fails leave it as it is.                        *)
Receive(w) ==
  /\ pc[w] = "idle"
  /\ \/ UNCHANGED nonceVars /\ Problem(w)
     \/ /\ \E n \in Nonce : Consume(n)
        /\ \/ Problem(w)
           \/ \E q \in Enrolments :
                Goto(w, "lookup") /\ req' = [req EXCEPT ![w] = q]
  /\ UNCHANGED <<now, tables, history, faults>>

(* The idempotency check: a registered key gets its account back and its   *)
(* binding is not looked at.  Otherwise the binding has to be for this     *)
(* request.                                                                *)
Lookup(w, r) ==
  /\ pc[w] = "lookup"
  /\ r # "ghost"
  /\ Call(r)
  /\ IF r = "lost"
     THEN Problem(w)
     ELSE IF ByThumbprint(thumbprint(w)) # {}
     THEN \E i \in ByThumbprint(thumbprint(w)) : AnswerAccount(w, "existing", i)
     ELSE IF req[w].token = None
     THEN Problem(w)
     ELSE Goto(w, "getToken") /\ UNCHANGED req
  /\ UNCHANGED <<tables, history>>

Presenter(w) == [by |-> req[w].by, vouched |-> req[w].vouched]

(* The fast-fail checks on the token row.  expires_at holds whole seconds  *)
(* and the clock does not: in the very second of the expiry, After may     *)
(* answer either way.                                                      *)
GetTokenBurns(w, r) ==
  /\ pc[w] = "getToken"
  /\ r # "ghost"
  /\ Call(r)
  /\ LET t == tokens[req[w].token]
     IN IF r = "ok" /\ t.status = "open" /\ now < t.exp
        THEN IF req[w].mac
             THEN /\ Goto(w, "stamp") /\ req' = [req EXCEPT ![w].role = t.role]
                  /\ UNCHANGED <<tokens, spentOn>>
             ELSE /\ tokens' = [tokens EXCEPT ![req[w].token].status = "consumed"]
                  /\ spentOn' = [spentOn EXCEPT ![req[w].token] = Presenter(w)]
                  /\ Problem(w)
        ELSE Problem(w) /\ UNCHANGED <<tokens, spentOn>>
  /\ UNCHANGED <<accounts, audit, burnt>>

GetToken(w, r) ==
  /\ pc[w] = "getToken"
  /\ r # "ghost"
  /\ Call(r)
  /\ LET t == tokens[req[w].token]
     IN IF r = "lost"
        THEN Problem(w)
        ELSE \E after \in {now > t.exp, now >= t.exp} :
               IF t.status = "open" /\ ~after /\ req[w].mac
               THEN Goto(w, "stamp") /\ req' = [req EXCEPT ![w].role = t.role]
               ELSE Problem(w)
  /\ UNCHANGED <<tables, history>>

(* now := time.Now(), after the HMAC was verified. *)
Stamp(w) ==
  /\ pc[w] = "stamp"
  /\ Goto(w, "claim")
  /\ req' = [req EXCEPT ![w].at = now]
  /\ UNCHANGED <<now, nonceVars, tables, history, faults>>

(* The rows that MarkConsumed's UPDATE ... WHERE consumed = 0 AND          *)
(* expires_at > now can hit.                                               *)
ClaimableTwice(t, at) == tokens[t].status # "absent" /\ tokens[t].exp > at

ClaimableLate(t, at) == tokens[t].status = "open"

Claimable(t, at) == tokens[t].status = "open" /\ tokens[t].exp > at

(* MarkConsumed. *)
Claim(w, r) ==
  /\ pc[w] = "claim"
  /\ Call(r)
  /\ LET t == req[w].token
         hit == r # "lost" /\ Claimable(t, req[w].at)
     IN /\ tokens' = IF hit THEN [tokens EXCEPT ![t].status = "consumed"] ELSE tokens
        /\ spentOn' = IF hit THEN [spentOn EXCEPT ![t] = Presenter(w)] ELSE spentOn
        /\ burnt' = IF hit /\ r = "ghost" THEN burnt \cup {t} ELSE burnt
        /\ IF hit /\ r = "ok"
           THEN Goto(w, "create") /\ UNCHANGED req
           ELSE Problem(w)
  /\ UNCHANGED <<accounts, audit>>

(* The UNIQUE constraint on acme_accounts.jwk_thumbprint. *)
NoConflictCheck(p) == TRUE

NoConflict(p) == ByThumbprint(p) = {}

(* Accounts().Create, whose unique violation is a race lost to a request   *)
(* with the same key.                                                      *)
Create(w, r) ==
  /\ pc[w] = "create"
  /\ Call(r)
  /\ UNCHANGED <<tokens, audit, spentOn>>
  /\ IF r # "lost" /\ NoConflict(thumbprint(w))
     THEN \E i \in Ids :
            /\ accounts[i] = NoAccount
            /\ accounts' = [accounts EXCEPT ![i] =
                  [thumb |-> thumbprint(w), jwk |-> req[w].jwk, role |-> req[w].role,
                   eab |-> req[w].token, createdAt |-> req[w].at]]
            /\ IF r = "ok"
               THEN Goto(w, "audit") /\ req' = [req EXCEPT ![w].id = i]
               ELSE Problem(w)
            /\ UNCHANGED burnt
     ELSE /\ UNCHANGED accounts
          /\ IF r = "ok"
             THEN Goto(w, "recover") /\ UNCHANGED <<req, burnt>>
             ELSE Problem(w) /\ burnt' = burnt \cup {req[w].token}

(* The lost race: hand back the account that won. *)
RecoverOwn(w, r) ==
  /\ pc[w] = "recover"
  /\ r # "ghost"
  /\ Call(r)
  /\ AnswerAccount(w, "existing", req[w].id)
  /\ UNCHANGED <<tables, history>>

Recover(w, r) ==
  /\ pc[w] = "recover"
  /\ r # "ghost"
  /\ Call(r)
  /\ IF r = "ok" /\ ByThumbprint(thumbprint(w)) # {}
     THEN \E i \in ByThumbprint(thumbprint(w)) : AnswerAccount(w, "existing", i)
     ELSE Problem(w)
  /\ UNCHANGED <<tables, history>>

(* The audit entry, whose failure is only logged. *)
Audit(w, r) ==
  /\ pc[w] = "audit"
  /\ Call(r)
  /\ audit' = IF r = "lost" THEN audit
              ELSE audit \cup {<<"acme-new-account", req[w].id>>}
  /\ AnswerAccount(w, "created", req[w].id)
  /\ UNCHANGED <<tokens, accounts, history>>

(* Every response, problem documents included, carries a new nonce. *)
Reply(w) ==
  /\ pc[w] = "reply"
  /\ Goto(w, "idle")
  /\ req' = [req EXCEPT ![w] = NoRequest]
  /\ IssueNonce
  /\ UNCHANGED <<now, tables, history, faults>>

(* The process dies. *)
Crash(w) ==
  /\ pc[w] # "idle"
  /\ faults < MaxFaults
  /\ faults' = faults + 1
  /\ burnt' = IF pc[w] = "create" THEN burnt \cup {req[w].token} ELSE burnt
  /\ Goto(w, "idle")
  /\ req' = [req EXCEPT ![w] = NoRequest]
  /\ UNCHANGED <<now, nonceVars, tables, spentOn>>

-----------------------------------------------------------------------------
Environment ==
  \/ (Tick \/ NewNonce) /\ UNCHANGED <<tables, pc, req, history, faults>>
  \/ \E t \in Tokens, role \in Roles, logged \in BOOLEAN :
       IssueEABToken(t, role, logged)

StoreStep(w, r) ==
  \/ Lookup(w, r)
  \/ GetToken(w, r)
  \/ Claim(w, r)
  \/ Create(w, r)
  \/ Recover(w, r)
  \/ Audit(w, r)

Step(w) == Stamp(w) \/ Reply(w) \/ \E r \in Outcome : StoreStep(w, r)

Next ==
  \/ Environment
  \/ \E w \in Workers : Receive(w) \/ Step(w) \/ Crash(w)

Spec == Init /\ [][Next]_vars

-----------------------------------------------------------------------------
TypeOK ==
  /\ NonceTypeOK
  /\ tokens \in [Tokens -> Token]
  /\ accounts \in [Ids -> Account]
  /\ audit \in SUBSET ({"acme-eab-token-issue"} \X Tokens
                       \cup {"acme-new-account"} \X Ids)
  /\ pc \in [Workers -> Points]
  /\ req \in [Workers -> Request]
  /\ spentOn \in [Tokens -> [by: Keys \cup {None}, vouched: Keys \cup {None}]]
  /\ burnt \in SUBSET Tokens
  /\ faults \in 0..MaxFaults

(* The key that requests with this account's kid are verified with. *)
KeyOf(i) == JWKPublicKey(accounts[i].jwk)

(* One key has at most one account, however its jwk is written, also when  *)
(* requests with the same key and different tokens race past the           *)
(* idempotency check: resolving a kid and recovering from the race rely on *)
(* it.                                                                     *)
OneAccountPerKey ==
  \A i, j \in Ids :
    NoAccount \notin {accounts[i], accounts[j]} /\ KeyOf(i) = KeyOf(j) => i = j

(* Every account was enrolled by the token it names: that token is         *)
(* consumed, was claimed by a request that this key signed, its holder     *)
(* vouched for this key, it gave the role and had not expired at the       *)
(* account's created_at, although the handler checks the expiry on a row   *)
(* it read earlier and with a different rounding.                          *)
AccountBacked ==
  \A i \in Ids : accounts[i] # NoAccount =>
    LET a == accounts[i]
        t == tokens[a.eab]
    IN /\ t.status = "consumed"
       /\ spentOn[a.eab] = [by |-> KeyOf(i), vouched |-> KeyOf(i)]
       /\ t.role = a.role
       /\ a.createdAt < t.exp

(* A consumed token is not lost: the key that presented it has an account  *)
(* (its own or the one that won the race), or its request still holds the  *)
(* claim, or a fault hit that request between the claim and the insert.    *)
TokenAccounted ==
  \A t \in Tokens : tokens[t].status = "consumed" =>
    \/ \E i \in Ids : accounts[i] # NoAccount /\ KeyOf(i) = spentOn[t].by
    \/ \E w \in Workers : pc[w] = "create" /\ req[w].token = t
    \/ t \in burnt

(* The account a 200 or a 201 points to exists, and later requests with    *)
(* its kid are verified with the key that signed this one, also for the    *)
(* request that lost the insert race and whatever form each jwk came in.   *)
LocationIsOwn ==
  \A w \in Workers : req[w].reply \in {"existing", "created"} =>
    req[w].id \in {i \in Ids : /\ accounts[i] # NoAccount
                               /\ KeyOf(i) = req[w].by}

-----------------------------------------------------------------------------
(* EAB tokens as one-shot tickets, made into the accounts that name them.  *)
Claimed == {t \in Tokens : tokens[t].status = "consumed"}

Made == [t \in Tokens |-> {i \in Ids : accounts[i].eab = t}]

OneShot == INSTANCE ClaimOnce WITH
  Tickets <- Tokens,
  Products <- Ids,
  claimed <- Claimed,
  made <- Made

(* Enrolment implements the one-shot ticket: no account without an earlier *)
(* claim of its token, and no second one.                                  *)
ImplementsClaimOnce == OneShot!Spec
=============================================================================
