--------------------------- MODULE KeyStoreProofs ---------------------------
(***************************************************************************)
(* Proof that the three keystore backends implement KeyMap, for any number *)
(* of goroutines, processes, references, keys and faults.  The inductive   *)
(* invariant says who holds the lock of a reference, what its holder may   *)
(* rely on, and that whatever was handed out or cached is what is stored.  *)
(***************************************************************************)
EXTENDS KeyStore, TLAPS

(* A Generate that has the lock of its reference, ... *)
Inside(w) == call[w].op = "generate" /\ pc[w] \notin {"idle", "fresh", "lock"}

(* ... and has found the reference free. *)
Making(w) == Inside(w) /\ pc[w] # "exists"

(* The points of a call fit its kind and its backend. *)
Fits ==
  \A w \in Workers :
    /\ pc[w] = "idle" => call[w] = NoCall
    /\ pc[w] \in {"fresh", "lock", "exists", "create", "write", "rename", "post", "token"}
         => call[w].op = "generate"
    /\ pc[w] = "cache" => call[w].op = "get"
    /\ pc[w] \notin {"idle", "fresh"} => call[w].ref \in Refs
    /\ pc[w] \in {"create", "write", "rename"} => backend = "file"
    /\ pc[w] = "post" => backend = "vault"
    /\ pc[w] = "token" => backend = "pkcs11"

(* Who shares a directory, and who generates on a token. *)
Together ==
  \A v, w \in Workers :
    \/ backend = "file"
    \/ backend = "pkcs11" /\ call[v].op = "generate" /\ call[w].op = "generate"
    => home[v] = home[w]

Locked == \A w \in Workers : Inside(w) => holder[home[w]][call[w].ref] = w

(* What the holder of a lock found stays so until it succeeds. *)
Free ==
  \A w \in Workers :
    /\ Making(w) => made[home[w]][call[w].ref] = 0
    /\ pc[w] \in {"create", "write", "rename", "token"} => stored[call[w].ref] = None

(* The key a file is being made of is nobody else's. *)
Unseen ==
  \A w \in Workers : pc[w] \in {"write", "rename"} =>
    /\ call[w].key \in Keys
    /\ \A f \in Refs : stored[f] # call[w].key
    /\ \A v \in Workers : v # w => call[v].key # call[w].key

(* What is about to be put in place or returned. *)
Ready ==
  \A w \in Workers :
    /\ pc[w] = "rename" => tmp[call[w].ref] = call[w].key
    /\ pc[w] = "remember" => call[w].key \in Keys /\ stored[call[w].ref] = call[w].key

(* What was handed out, cached or made is what is stored. *)
Kept ==
  /\ \A f \in Refs : stored[f] \in Keys \cup {None}
  /\ \A x \in Processes, f \in Refs : cached[x][f] # None => cached[x][f] = stored[f]
  /\ \A f \in Refs, k \in Keys : <<f, k>> \in handed => stored[f] = k
  /\ \A x \in Processes, f \in Refs : made[x][f] # 0 => stored[f] # None

KeyInv == Fits /\ Together /\ Locked /\ Free /\ Unseen /\ Ready /\ Kept

-----------------------------------------------------------------------------
(* Type correctness. *)
LEMMA AttemptTyped ==
  ASSUME TypeOK, NEW r \in Outcome, Attempt(r)
  PROVE  faults' \in 0..MaxFaults
BY KeyStoreAssumption DEF TypeOK, Attempt

LEMMA FailTyped ==
  ASSUME TypeOK, NEW w \in Workers, Fail(w)
  PROVE  /\ holder' \in [Processes -> [Refs -> Workers \cup {None}]]
         /\ pc' \in [Workers -> Points]
         /\ call' \in [Workers -> Call]
         /\ UNCHANGED <<made, handed>>
BY KeyStoreAssumption DEF TypeOK, Fail, Unlock, Goto, NewCall, NoCall, Call, Points, history

LEMMA ReturnTyped ==
  ASSUME TypeOK, NEW w \in Workers, NEW k \in Keys, call[w].ref \in Refs, Return(w, k)
  PROVE  /\ holder' \in [Processes -> [Refs -> Workers \cup {None}]]
         /\ pc' \in [Workers -> Points]
         /\ call' \in [Workers -> Call]
         /\ handed' \subseteq Refs \X Keys
         /\ made' \in [Processes -> [Refs -> Nat]]
<1>1. /\ pc' \in [Workers -> Points]
      /\ call' \in [Workers -> Call]
      /\ handed' \subseteq Refs \X Keys
  BY KeyStoreAssumption DEF TypeOK, Return, Goto, NewCall, NoCall, Call, Points
<1>2. holder' \in [Processes -> [Refs -> Workers \cup {None}]]
  BY Zenon DEF TypeOK, Return, Unlock
<1>3. made' \in [Processes -> [Refs -> Nat]]
  BY DEF TypeOK, Return
<1>4. QED
  BY <1>1, <1>2, <1>3, Zenon

(* What a step writes into its call is of the call's type. *)
LEMMA CallTyped ==
  ASSUME TypeOK, NEW w \in Workers
  PROVE  /\ \A f \in Refs : [call EXCEPT ![w].ref = f] \in [Workers -> Call]
         /\ \A k \in Keys : [call EXCEPT ![w].key = k] \in [Workers -> Call]
         /\ call[w].tries # FreshAttempts
              => [call EXCEPT ![w].tries = @ + 1] \in [Workers -> Call]
<1>1. \A f \in Refs : [call EXCEPT ![w].ref = f] \in [Workers -> Call]
  BY ZenonT(40) DEF TypeOK, Call
<1>2. \A k \in Keys : [call EXCEPT ![w].key = k] \in [Workers -> Call]
  BY Zenon DEF TypeOK, Call
<1>3. ASSUME call[w].tries # FreshAttempts
      PROVE  [call EXCEPT ![w].tries = @ + 1] \in [Workers -> Call]
  <2>1. call[w].tries \in 0..FreshAttempts
    BY Zenon DEF TypeOK, Call
  <2>2. call[w].tries + 1 \in 0..FreshAttempts
    BY <1>3, <2>1, KeyStoreAssumption
  <2>3. QED
    BY <2>2, Zenon DEF TypeOK, Call
<1>4. QED
  BY <1>1, <1>2, <1>3, Zenon

(* The calls keep every variable in its type, given what the invariant     *)
(* says of the call at hand.                                               *)
LEMMA TypeStep ==
  ASSUME TypeOK, Fits, Ready, Kept, [Next]_vars
  PROVE  TypeOK'
<1>1. CASE UNCHANGED vars
  BY <1>1, Zenon DEF vars, deployment, history, TypeOK
<1>2. ASSUME NEW w \in Workers, Receive(w), UNCHANGED deployment
      PROVE  TypeOK'
  <2>1. call' \in [Workers -> Call] /\ pc' \in [Workers -> Points]
    <3>1. \A op \in {"generate", "get"}, f \in Refs \cup {None} : NewCall(op, f) \in Call
      BY KeyStoreAssumption DEF NewCall, Call
    <3>2. PICK c \in Call, p \in {"lock", "fresh", "cache", "read"} :
            call' = [call EXCEPT ![w] = c] /\ pc' = [pc EXCEPT ![w] = p]
      BY <1>2, <3>1, Zenon DEF Receive, ReceiveGenerate, ReceiveFresh, ReceiveGet, Goto
    <3>3. QED
      BY <3>2, Zenon DEF TypeOK, Points
  <2>2. UNCHANGED <<deployment, stored, tmp, cached, holder, history, faults>>
    BY <1>2, Zenon DEF Receive, ReceiveGenerate, ReceiveFresh, ReceiveGet
  <2>3. QED
    BY <2>1, <2>2, Zenon DEF TypeOK, deployment, history
<1>3. ASSUME NEW w \in Workers, Lock(w) \/ CheckCache(w) \/ Remember(w), UNCHANGED deployment
      PROVE  TypeOK'
  <2>1. CASE Lock(w)
    BY <1>3, <2>1, Zenon DEF Lock, Goto, TypeOK, Points, deployment, history
  <2>2. CASE CheckCache(w)
    <3>1. CASE cached[home[w]][call[w].ref] = None
      BY <1>3, <2>2, <3>1, Zenon DEF CheckCache, Goto, TypeOK, Points, deployment, history
    <3>2. CASE cached[home[w]][call[w].ref] # None
      <4>. pc[w] = "cache"
        BY <2>2, Zenon DEF CheckCache
      <4>. call[w].ref \in Refs
        BY Zenon DEF Fits
      <4>1. cached[home[w]][call[w].ref] \in Keys
        BY <3>2 DEF TypeOK
      <4>2. Return(w, cached[home[w]][call[w].ref])
        BY <2>2, <3>2, Zenon DEF CheckCache
      <4>3. QED
        BY <1>3, <2>2, <4>1, <4>2, ReturnTyped, Zenon DEF CheckCache, TypeOK, deployment
    <3>3. QED
      BY <3>1, <3>2, Zenon
  <2>3. CASE Remember(w)
    BY <1>3, <2>3, ReturnTyped, Zenon DEF Remember, Ready, TypeOK, Fits, deployment
  <2>4. QED
    BY <1>3, <2>1, <2>2, <2>3, Zenon
<1>4. ASSUME NEW w \in Workers, NEW r \in Outcome, IOStep(w, r), UNCHANGED deployment
      PROVE  TypeOK'
  <2>1. faults' \in 0..MaxFaults
    BY <1>4, AttemptTyped, Zenon DEF IOStep, FreshRef, Exists, CreateTmp, WriteTmp, Rename, Post,
                              GenerateOnToken, ReadKey
  <2>2. /\ pc' \in [Workers -> Points]
        /\ call' \in [Workers -> Call]
        /\ holder' \in [Processes -> [Refs -> Workers \cup {None}]]
        /\ UNCHANGED <<made, handed>>
    <3>. USE FailTyped, CallTyped DEF Goto, history
    <3>. pc \in [Workers -> Points] /\ call \in [Workers -> Call]
         /\ holder \in [Processes -> [Refs -> Workers \cup {None}]]
      BY Zenon DEF TypeOK
    <3>1. ASSUME NEW f \in Refs, FreshRef(w, f, r) PROVE <2>2
      <4>1. CASE Fail(w)
        BY <4>1, Zenon
      <4>2. CASE ~Fail(w)
        <5>1. /\ call[w].tries # FreshAttempts
              /\ UNCHANGED <<holder, history>>
              /\ pc' = pc \/ pc' = [pc EXCEPT ![w] = "lock"]
              /\ \/ call' = [call EXCEPT ![w].ref = f]
                 \/ call' = [call EXCEPT ![w].tries = @ + 1]
          BY <3>1, <4>2, Zenon DEF FreshRef
        <5>2. call' \in [Workers -> Call]
          <6>1. CASE call' = [call EXCEPT ![w].ref = f]
            BY <6>1, Zenon
          <6>2. CASE call' = [call EXCEPT ![w].tries = @ + 1]
            BY <5>1, <6>2, Zenon
          <6>3. QED
            BY <5>1, <6>1, <6>2, Zenon
        <5>3. QED
          BY <5>1, <5>2, Zenon DEF Points
      <4>3. QED
        BY <4>1, <4>2, Zenon
    <3>2. CASE Exists(w, r) \/ WriteTmp(w, r) \/ Rename(w, r) \/ Post(w, r)
      BY <3>2, ZenonT(20) DEF Exists, Creates, WriteTmp, Rename, Post, Points, TypeOK, Backends
    <3>3. CASE CreateTmp(w, r) \/ GenerateOnToken(w, r)
      <4>1. CASE Fail(w)
        BY <4>1, Zenon
      <4>2. CASE ~Fail(w)
        <5>1. PICK k \in Keys : call' = [call EXCEPT ![w].key = k]
          BY <3>3, <4>2, Zenon DEF CreateTmp, GenerateOnToken
        <5>2. QED
          BY <3>3, <4>2, <5>1, Zenon DEF CreateTmp, GenerateOnToken, Points
      <4>3. QED
        BY <4>1, <4>2, Zenon
    <3>4. CASE ReadKey(w, r)
      <4>1. pc[w] = "read" /\ call[w].ref \in Refs
        BY <3>4, Zenon DEF ReadKey, Fits
      <4>2. stored[call[w].ref] \in Keys \cup {None}
        BY <4>1, Zenon DEF Kept
      <4>3. CASE Fail(w)
        BY <4>3, Zenon
      <4>4. CASE ~Fail(w)
        <5>1. /\ stored[call[w].ref] \in Keys
              /\ call' = [call EXCEPT ![w].key = stored[call[w].ref]]
          BY <3>4, <4>2, <4>4, Zenon DEF ReadKey
        <5>2. call' \in [Workers -> Call]
          BY <5>1, Zenon
        <5>3. QED
          BY <3>4, <4>4, <5>2, Zenon DEF ReadKey, Points
      <4>5. QED
        BY <4>3, <4>4, Zenon
    <3>5. QED
      BY <1>4, <3>1, <3>2, <3>3, <3>4, Zenon DEF IOStep
  <2>3. stored' \in [Refs -> Content] /\ tmp' \in [Refs -> Content]
    <3>. stored \in [Refs -> Content] /\ tmp \in [Refs -> Content] /\ call[w] \in Call
      BY Zenon DEF TypeOK
    <3>1. CASE CreateTmp(w, r) \/ WriteTmp(w, r)
      BY <3>1, Zenon DEF CreateTmp, WriteTmp, Content, Call
    <3>2. CASE Rename(w, r)
      BY <3>2, Zenon DEF Rename, Fits, Content
    <3>3. CASE Post(w, r) \/ GenerateOnToken(w, r)
      BY <3>3 DEF Post, GenerateOnToken, Content, Fits
    <3>4. QED
      BY <1>4, <3>1, <3>2, <3>3, Zenon DEF IOStep, FreshRef, Exists, ReadKey
  <2>4. UNCHANGED <<cached, deployment>>
    BY <1>4, Zenon DEF IOStep, FreshRef, Exists, CreateTmp, WriteTmp, Rename, Post,
                GenerateOnToken, ReadKey
  <2>5. QED
    BY <2>1, <2>2, <2>3, <2>4, Zenon DEF TypeOK, deployment
<1>5. ASSUME NEW x \in Processes, Crash(x), UNCHANGED deployment
      PROVE  TypeOK'
  BY <1>5, KeyStoreAssumption DEF Crash, TypeOK, NewCall, NoCall, Call, Points, deployment, history
<1>6. QED
  BY <1>1, <1>2, <1>3, <1>4, <1>5, Zenon DEF Next, Step

-----------------------------------------------------------------------------
(* A step of goroutine w leaves the other goroutines where they are, and   *)
(* their locks with them.                                                  *)
LEMMA FailLocal ==
  ASSUME TypeOK, NEW w \in Workers, Fail(w) \/ \E k \in Keys : Return(w, k)
  PROVE  /\ pc' = [pc EXCEPT ![w] = "idle"]
         /\ call' = [call EXCEPT ![w] = NoCall]
         /\ \A v \in Workers \ {w}, x \in Processes, f \in Refs :
              holder[x][f] = v => holder'[x][f] = v
<1>1. pc' = [pc EXCEPT ![w] = "idle"] /\ call' = [call EXCEPT ![w] = NoCall] /\ Unlock(w)
  BY Zenon DEF Fail, Return, Goto
<1>2. ASSUME NEW v \in Workers \ {w}, NEW x \in Processes, NEW f \in Refs, holder[x][f] = v
      PROVE  holder'[x][f] = v
  BY <1>1, <1>2, Zenon DEF Unlock, TypeOK
<1>3. QED
  BY <1>1, <1>2, Zenon

LEMMA StepLocal ==
  ASSUME TypeOK, KeyInv, NEW w \in Workers, Receive(w) \/ Step(w)
  PROVE  /\ \A v \in Workers \ {w} : pc'[v] = pc[v] /\ call'[v] = call[v]
         /\ \A v \in Workers \ {w}, x \in Processes, f \in Refs :
              holder[x][f] = v => holder'[x][f] = v
<1>. pc \in [Workers -> Points] /\ call \in [Workers -> Call]
  BY Zenon DEF TypeOK
<1>1. CASE Fail(w) \/ \E k \in Keys : Return(w, k)
  BY <1>1, FailLocal
<1>2. CASE Lock(w)
  <2>1. \A v \in Workers \ {w} : pc'[v] = pc[v] /\ call'[v] = call[v]
    BY <1>2, Zenon DEF Lock, Goto
  <2>2. ASSUME NEW v \in Workers \ {w}, NEW x \in Processes, NEW f \in Refs,
               holder[x][f] = v
        PROVE  holder'[x][f] = v
    BY <1>2, <2>2, KeyStoreAssumption, Zenon DEF Lock, TypeOK
  <2>3. QED
    BY <2>1, <2>2, Zenon
<1>3. CASE Receive(w)
  BY <1>3, Zenon DEF Receive, ReceiveGenerate, ReceiveFresh, ReceiveGet, Goto
<1>4. ASSUME NEW r \in Outcome, IOStep(w, r), ~Fail(w)
      PROVE  /\ \A v \in Workers \ {w} : pc'[v] = pc[v] /\ call'[v] = call[v]
             /\ UNCHANGED holder
  <2>1. CASE \E f \in Refs : FreshRef(w, f, r)
    BY <1>4, <2>1, Zenon DEF FreshRef, Goto
  <2>2. CASE Exists(w, r) \/ CreateTmp(w, r) \/ WriteTmp(w, r) \/ Rename(w, r)
    BY <1>4, <2>2, Zenon DEF Exists, CreateTmp, WriteTmp, Rename, Goto
  <2>3. CASE Post(w, r) \/ GenerateOnToken(w, r) \/ ReadKey(w, r)
    BY <1>4, <2>3, Zenon DEF Post, GenerateOnToken, ReadKey, Goto
  <2>4. QED
    BY <1>4, <2>1, <2>2, <2>3, Zenon DEF IOStep
<1>5. CASE CheckCache(w)
  <2>1. cached[home[w]][call[w].ref] \in Keys \cup {None}
    BY <1>5, ZenonT(20) DEF CheckCache, TypeOK, Fits, KeyInv
  <2>2. QED
    BY <1>1, <1>5, <2>1, Zenon DEF CheckCache, Goto
<1>6. CASE Remember(w)
  BY <1>1, <1>6, Zenon DEF Remember, Ready, KeyInv
<1>7. QED
  BY <1>1, <1>2, <1>3, <1>4, <1>5, <1>6, Zenon DEF Step

(* Two goroutines never create a key under one reference together: in one  *)
(* process the lock is in the way; processes only share Vault, which keeps *)
(* the first key, or a token, on which one at a time generates.            *)
LEMMA Alone ==
  ASSUME TypeOK, KeyInv, NEW v \in Workers, NEW w \in Workers, v # w,
         pc[v] \in {"create", "write", "rename", "token"},
         pc[w] \in {"create", "write", "rename", "post", "token"}
  PROVE  call[v].ref # call[w].ref
<1>1. call[v].op = "generate" /\ call[w].op = "generate"
  BY Zenon DEF KeyInv, Fits
<1>2. home[v] = home[w]
  BY <1>1, Zenon DEF KeyInv, Fits, Together
<1>3. /\ holder[home[v]][call[v].ref] = v
      /\ holder[home[w]][call[w].ref] = w
  BY <1>1, Zenon DEF KeyInv, Locked, Inside
<1>4. QED
  BY <1>2, <1>3, Zenon

(* What a step does to the keys: nothing, ... *)
Still == UNCHANGED <<stored, made, handed>>

(* ... or it puts a key that nobody has where there was none, ... *)
Puts(w, k) ==
  /\ pc[w] \in {"rename", "post", "token"}
  /\ stored[call[w].ref] = None
  /\ \A f \in Refs : stored[f] # k /\ <<f, k>> \notin handed
  /\ \A v \in Workers \ {w} : call[v].key # k
  /\ stored' = [stored EXCEPT ![call[w].ref] = k]
  /\ UNCHANGED <<made, handed, cached>>

(* ... or it returns the key that is stored. *)
Hands(w) ==
  /\ pc[w] \in {"cache", "remember"}
  /\ stored[call[w].ref] \in Keys
  /\ Return(w, stored[call[w].ref])
  /\ UNCHANGED stored
  /\ \/ UNCHANGED cached
     \/ cached' = [cached EXCEPT ![home[w]][call[w].ref] = stored[call[w].ref]]

LEMMA RefTyped ==
  ASSUME TypeOK, KeyInv, NEW w \in Workers, pc[w] \notin {"idle", "fresh"}
  PROVE  /\ call[w].ref \in Refs
         /\ stored[call[w].ref] \in Keys \cup {None}
BY Zenon DEF KeyInv, Fits, Kept

LEMMA StepShape ==
  ASSUME TypeOK, KeyInv, NEW w \in Workers, Receive(w) \/ Step(w)
  PROVE  (Still /\ UNCHANGED cached) \/ (\E k \in Keys : Puts(w, k)) \/ Hands(w)
<1>1. CASE Receive(w) \/ Lock(w)
  BY <1>1, Zenon DEF Receive, ReceiveGenerate, ReceiveFresh, ReceiveGet, Lock, Still, history
<1>2. ASSUME NEW r \in Outcome,
             \/ \E f \in Refs : FreshRef(w, f, r)
             \/ Exists(w, r) \/ CreateTmp(w, r) \/ WriteTmp(w, r) \/ ReadKey(w, r)
      PROVE  Still /\ UNCHANGED cached
  <2>1. UNCHANGED history
    BY <1>2, Zenon DEF FreshRef, Exists, CreateTmp, WriteTmp, ReadKey, Fail
  <2>2. UNCHANGED <<stored, cached>>
    BY <1>2, Zenon DEF FreshRef, Exists, CreateTmp, WriteTmp, ReadKey
  <2>3. QED
    BY <2>1, <2>2, Zenon DEF Still, history
<1>3. ASSUME NEW r \in Outcome, Rename(w, r)
      PROVE  (Still /\ UNCHANGED cached) \/ \E k \in Keys : Puts(w, k)
  <2>1. CASE r # "ok"
    BY <1>3, <2>1, Zenon DEF Rename, Fail, Still, history
  <2>2. CASE r = "ok"
    <3>1. /\ pc[w] = "rename"
          /\ stored' = [stored EXCEPT ![call[w].ref] = tmp[call[w].ref]]
          /\ UNCHANGED <<made, handed, cached>>
      BY <1>3, <2>2, Zenon DEF Rename, history
    <3>2. /\ call[w].key \in Keys
          /\ tmp[call[w].ref] = call[w].key
          /\ stored[call[w].ref] = None
          /\ \A v \in Workers \ {w} : call[v].key # call[w].key
          /\ \A f \in Refs : stored[f] # call[w].key
      BY <3>1, Zenon DEF KeyInv, Ready, Unseen, Free
    <3>3. \A f \in Refs : <<f, call[w].key>> \notin handed
      BY <3>2, Zenon DEF KeyInv, Kept
    <3>4. Puts(w, call[w].key)
      BY <3>1, <3>2, <3>3, Zenon DEF Puts
    <3>5. QED
      BY <3>2, <3>4, Zenon
  <2>3. QED
    BY <2>1, <2>2, Zenon
<1>4. ASSUME NEW r \in Outcome, Post(w, r)
      PROVE  (Still /\ UNCHANGED cached) \/ \E k \in Keys : Puts(w, k)
  <2>1. UNCHANGED <<made, handed, cached>> /\ pc[w] = "post"
    BY <1>4, Zenon DEF Post, Fail, history
  <2>2. PICK k \in Keys : /\ Fresh(k)
                          /\ stored' = IF r = "lost" \/ stored[call[w].ref] # None THEN stored
                                       ELSE [stored EXCEPT ![call[w].ref] = k]
    BY <1>4, Zenon DEF Post
  <2>3. CASE r = "lost" \/ stored[call[w].ref] # None
    BY <2>1, <2>2, <2>3, Zenon DEF Still
  <2>4. CASE ~(r = "lost" \/ stored[call[w].ref] # None)
    BY <2>1, <2>2, <2>4, Zenon DEF Puts, Fresh
  <2>5. QED
    BY <2>3, <2>4, Zenon
<1>5. ASSUME NEW r \in Outcome, GenerateOnToken(w, r)
      PROVE  (Still /\ UNCHANGED cached) \/ \E k \in Keys : Puts(w, k)
  <2>1. UNCHANGED <<made, handed, cached>> /\ pc[w] = "token"
    BY <1>5, Zenon DEF GenerateOnToken, Fail, history
  <2>2. stored[call[w].ref] = None
    BY <2>1, Zenon DEF KeyInv, Free
  <2>3. PICK k \in Keys : /\ Fresh(k)
                          /\ stored' = IF r = "lost" THEN stored
                                       ELSE [stored EXCEPT ![call[w].ref] = k]
    BY <1>5, <2>2, Zenon DEF GenerateOnToken
  <2>4. QED
    BY <2>1, <2>2, <2>3, Zenon DEF Still, Puts, Fresh
<1>6. CASE CheckCache(w)
  <2>1. pc[w] = "cache" /\ UNCHANGED <<stored, cached>>
    BY <1>6, Zenon DEF CheckCache
  <2>2. CASE cached[home[w]][call[w].ref] = None
    BY <1>6, <2>1, <2>2, Zenon DEF CheckCache, Still, history
  <2>3. CASE cached[home[w]][call[w].ref] # None
    <3>1. home[w] \in Processes /\ call[w].ref \in Refs
      BY <2>1, RefTyped, Zenon DEF TypeOK
    <3>2. cached[home[w]][call[w].ref] = stored[call[w].ref]
          /\ cached[home[w]][call[w].ref] \in Keys
      BY <2>3, <3>1, Zenon DEF KeyInv, Kept, TypeOK
    <3>3. Return(w, stored[call[w].ref])
      BY <1>6, <2>3, <3>2, Zenon DEF CheckCache
    <3>4. QED
      BY <2>1, <3>2, <3>3, Zenon DEF Hands
  <2>4. QED
    BY <2>2, <2>3, Zenon
<1>7. CASE Remember(w)
  BY <1>7, Zenon DEF Remember, KeyInv, Ready, Hands
<1>8. QED
  BY <1>1, <1>2, <1>3, <1>4, <1>5, <1>6, <1>7, Zenon DEF Step, IOStep

-----------------------------------------------------------------------------
(* Where a step takes the call of its goroutine: it ends, ... *)
Ends(w) == pc'[w] = "idle" /\ call'[w] = NoCall

(* ... begins, ... *)
Begins(w) ==
  /\ pc[w] = "idle"
  /\ call'[w].key = None
  /\ \/ /\ pc'[w] \in {"fresh", "lock"}
        /\ call'[w].op = "generate"
        /\ Apart(w)
     \/ pc'[w] \in {"cache", "read"} /\ call'[w].op = "get"
  /\ pc'[w] # "fresh" => call'[w].ref \in Refs
  /\ UNCHANGED holder

(* ... goes on with what it has ... *)
Goes(w) ==
  /\ call'[w] = call[w]
  /\ \/ pc[w] = "lock" /\ pc'[w] = "exists" /\ holder'[home[w]][call[w].ref] = w
     \/ /\ UNCHANGED holder
        /\ \/ pc[w] = "exists" /\ pc'[w] = Creates /\ stored[call[w].ref] = None
           \/ pc[w] = "write" /\ pc'[w] = "rename" /\ tmp'[call[w].ref] = call[w].key
           \/ pc[w] = "rename" /\ pc'[w] = "remember" /\ stored'[call[w].ref] = call[w].key
           \/ pc[w] = "post" /\ pc'[w] = "read"
           \/ pc[w] = "cache" /\ pc'[w] = "read"

(* ... or with a reference or a key it found. *)
Learns(w) ==
  /\ call'[w].op = call[w].op
  /\ UNCHANGED holder
  /\ \/ /\ pc[w] = "fresh" /\ call'[w].key = call[w].key
        /\ pc'[w] \in {"fresh", "lock"}
        /\ pc'[w] = "lock" => call'[w].ref \in Refs
     \/ /\ call'[w].ref = call[w].ref
        /\ call'[w].key \in Keys
        /\ \/ pc[w] = "create" /\ pc'[w] = "write" /\ Fresh(call'[w].key)
           \/ /\ pc[w] = "token" /\ pc'[w] = "remember" /\ Fresh(call'[w].key)
              /\ stored'[call[w].ref] = call'[w].key
           \/ pc[w] = "read" /\ pc'[w] = "remember" /\ stored[call[w].ref] = call'[w].key

LEMMA Moves ==
  ASSUME TypeOK, KeyInv, NEW w \in Workers, Receive(w) \/ Step(w)
  PROVE  Ends(w) \/ Begins(w) \/ Goes(w) \/ Learns(w)
<1>. pc \in [Workers -> Points] /\ call \in [Workers -> Call]
  BY Zenon DEF TypeOK
<1>1. CASE Fail(w) \/ \E k \in Keys : Return(w, k)
  BY <1>1, FailLocal DEF Ends
<1>2. CASE Lock(w)
  <2>1. home[w] \in Processes /\ call[w].ref \in Refs
    BY <1>2, RefTyped, Zenon DEF Lock, TypeOK
  <2>2. QED
    BY <1>2, <2>1, Zenon DEF Lock, Goto, Goes, TypeOK
<1>3. CASE Receive(w)
  <2>1. CASE \E f \in Refs : ReceiveGenerate(w, f)
    BY <2>1 DEF ReceiveGenerate, Goto, Begins, NewCall
  <2>2. CASE \E f \in Refs : ReceiveGet(w, f)
    BY <2>2 DEF ReceiveGet, Goto, Begins, NewCall
  <2>3. CASE ReceiveFresh(w)
    BY <2>3, Zenon DEF ReceiveFresh, Goto, Begins, NewCall
  <2>4. QED
    BY <1>3, <2>1, <2>2, <2>3, Zenon DEF Receive
<1>4. ASSUME NEW r \in Outcome, IOStep(w, r), ~Fail(w)
      PROVE  Goes(w) \/ Learns(w)
  <2>1. CASE \E f \in Refs : FreshRef(w, f, r)
    <3>1. PICK f \in Refs : FreshRef(w, f, r)
      BY <2>1, Zenon
    <3>2. CASE stored[f] = None
      BY <1>4, <3>1, <3>2, SMTT(20) DEF FreshRef, Goto, Learns, Call
    <3>3. CASE stored[f] # None
      <4>1. /\ pc[w] = "fresh"
            /\ call' = [call EXCEPT ![w].tries = call[w].tries + 1]
            /\ UNCHANGED <<pc, holder>>
        BY <1>4, <3>1, <3>3, Zenon DEF FreshRef
      <4>2. call'[w].op = call[w].op /\ call'[w].key = call[w].key
        BY <4>1, Zenon DEF Call
      <4>3. QED
        BY <4>1, <4>2, Zenon DEF Learns
    <3>4. QED
      BY <3>2, <3>3, Zenon
  <2>2. CASE Exists(w, r)
    BY <1>4, <2>2, Zenon DEF Exists, Goto, Goes
  <2>3. CASE CreateTmp(w, r)
    <3>1. PICK k \in Keys : Fresh(k) /\ call' = [call EXCEPT ![w].key = k]
      BY <1>4, <2>3, Zenon DEF CreateTmp
    <3>2. call'[w].op = call[w].op /\ call'[w].ref = call[w].ref /\ call'[w].key = k
      BY <3>1, Zenon DEF Call
    <3>3. QED
      BY <1>4, <2>3, <3>1, <3>2, Zenon DEF CreateTmp, Goto, Learns
  <2>4. CASE WriteTmp(w, r)
    BY <1>4, <2>4, RefTyped, Zenon DEF WriteTmp, Goto, Goes, TypeOK
  <2>5. CASE Rename(w, r)
    <3>1. call[w].ref \in Refs /\ tmp[call[w].ref] = call[w].key
      BY <2>5, RefTyped, Zenon DEF Rename, KeyInv, Ready
    <3>2. QED
      BY <1>4, <2>5, <3>1, Zenon DEF Rename, Goto, Goes, TypeOK
  <2>6. CASE Post(w, r)
    BY <1>4, <2>6, Zenon DEF Post, Goto, Goes
  <2>7. CASE GenerateOnToken(w, r)
    <3>1. pc[w] = "token" /\ r = "ok"
      BY <1>4, <2>7, Zenon DEF GenerateOnToken
    <3>2. call[w].ref \in Refs /\ stored[call[w].ref] = None
      BY <3>1, RefTyped, Zenon DEF KeyInv, Free
    <3>3. PICK k \in Keys : /\ Fresh(k) /\ call' = [call EXCEPT ![w].key = k]
                            /\ stored' = [stored EXCEPT ![call[w].ref] = k]
      BY <2>7, <3>1, <3>2, Zenon DEF GenerateOnToken
    <3>4. call'[w].op = call[w].op /\ call'[w].ref = call[w].ref /\ call'[w].key = k
      BY <3>3, Zenon DEF Call
    <3>5. QED
      BY <2>7, <3>1, <3>2, <3>3, <3>4, SMTT(20) DEF GenerateOnToken, Goto, Learns, TypeOK
  <2>8. CASE ReadKey(w, r)
    <3>1. stored[call[w].ref] \in Keys
      BY <1>4, <2>8, RefTyped, Zenon DEF ReadKey
    <3>2. call' = [call EXCEPT ![w].key = stored[call[w].ref]]
      BY <1>4, <2>8, Zenon DEF ReadKey
    <3>3. call'[w].op = call[w].op /\ call'[w].ref = call[w].ref
          /\ call'[w].key = stored[call[w].ref]
      BY <3>2, Zenon DEF Call
    <3>4. QED
      BY <1>4, <2>8, <3>1, <3>3, Zenon DEF ReadKey, Goto, Learns
  <2>9. QED
    BY <1>4, <2>1, <2>2, <2>3, <2>4, <2>5, <2>6, <2>7, <2>8, Zenon DEF IOStep
<1>5. CASE CheckCache(w)
  <2>1. cached[home[w]][call[w].ref] \in Keys \cup {None}
    BY <1>5, Zenon DEF CheckCache, TypeOK, Fits, KeyInv
  <2>2. QED
    BY <1>1, <1>5, <2>1, Zenon DEF CheckCache, Goto, Goes
<1>6. CASE Remember(w)
  BY <1>1, <1>6, Zenon DEF Remember, Ready, KeyInv
<1>7. QED
  BY <1>1, <1>2, <1>3, <1>4, <1>5, <1>6, Zenon DEF Step

(* A temporary file is only touched by the goroutine that makes its key. *)
LEMMA TmpShape ==
  ASSUME TypeOK, KeyInv, NEW w \in Workers, Receive(w) \/ Step(w)
  PROVE  \/ UNCHANGED tmp
         \/ /\ pc[w] \in {"create", "write", "rename"}
            /\ \A f \in Refs : f # call[w].ref => tmp'[f] = tmp[f]
<1>1. CASE Receive(w) \/ Lock(w) \/ CheckCache(w) \/ Remember(w)
  BY <1>1, Zenon DEF Receive, ReceiveGenerate, ReceiveFresh, ReceiveGet, Lock, CheckCache, Remember
<1>2. ASSUME NEW r \in Outcome, IOStep(w, r)
      PROVE  \/ UNCHANGED tmp
             \/ /\ pc[w] \in {"create", "write", "rename"}
                /\ \A f \in Refs : f # call[w].ref => tmp'[f] = tmp[f]
  <2>1. CASE CreateTmp(w, r) \/ WriteTmp(w, r) \/ Rename(w, r)
    BY <2>1, Zenon DEF CreateTmp, WriteTmp, Rename, TypeOK
  <2>2. CASE ~(CreateTmp(w, r) \/ WriteTmp(w, r) \/ Rename(w, r))
    BY <1>2, <2>2, Zenon DEF IOStep, FreshRef, Exists, Post, GenerateOnToken, ReadKey
  <2>3. QED
    BY <2>1, <2>2, Zenon
<1>3. QED
  BY <1>1, <1>2, Zenon DEF Step

-----------------------------------------------------------------------------
(* The invariant is inductive. *)
LEMMA FitsStep ==
  ASSUME TypeOK, KeyInv, NEW w \in Workers, Receive(w) \/ Step(w), UNCHANGED deployment
  PROVE  Fits'
<1>. UNCHANGED backend
  BY Zenon DEF deployment
<1>1. Fits!(w)'
  <2>1. CASE Ends(w) \/ Begins(w)
    BY <2>1, Zenon DEF Ends, Begins, NoCall, NewCall
  <2>2. CASE Goes(w)
    BY <2>2, Zenon DEF Goes, Creates, KeyInv, Fits, TypeOK, Backends
  <2>3. CASE Learns(w)
    BY <2>3, Zenon DEF Learns, KeyInv, Fits
  <2>4. QED
    BY <2>1, <2>2, <2>3, Moves, Zenon
<1>2. ASSUME NEW v \in Workers \ {w}
      PROVE  Fits!(v)'
  BY StepLocal DEF KeyInv, Fits
<1>3. QED
  BY <1>1, <1>2, Zenon DEF Fits

LEMMA TogetherStep ==
  ASSUME TypeOK, KeyInv, NEW w \in Workers, Receive(w) \/ Step(w), UNCHANGED deployment
  PROVE  Together'
<1>. UNCHANGED <<backend, home>>
  BY Zenon DEF deployment
<1>1. \/ call'[w].op # "generate"
      \/ call'[w].op = call[w].op
      \/ Apart(w)
  BY Moves DEF Ends, Begins, Goes, Learns, NoCall, NewCall
<1>2. \A v \in Workers \ {w} : call'[v].op = call[v].op
  BY StepLocal, Zenon
<1>3. QED
  BY <1>1, <1>2 DEF Together, KeyInv, Apart

LEMMA LockedStep ==
  ASSUME TypeOK, KeyInv, NEW w \in Workers, Receive(w) \/ Step(w), UNCHANGED deployment
  PROVE  Locked'
<1>. UNCHANGED home
  BY Zenon DEF deployment
<1>1. Inside(w)' => holder'[home[w]][call'[w].ref] = w
  <2>1. CASE Ends(w) \/ Begins(w)
    BY <2>1, Zenon DEF Ends, Begins, Inside
  <2>2. CASE Goes(w)
    BY <2>2, Zenon DEF Goes, KeyInv, Fits, Locked, Inside
  <2>3. CASE Learns(w)
    BY <2>3, Zenon DEF Learns, KeyInv, Locked, Inside
  <2>4. QED
    BY <2>1, <2>2, <2>3, Moves, Zenon
<1>2. ASSUME NEW v \in Workers \ {w}, Inside(v)'
      PROVE  holder'[home[v]][call'[v].ref] = v
  <2>1. Inside(v) /\ call'[v] = call[v]
    BY <1>2, StepLocal, Zenon DEF Inside
  <2>2. home[v] \in Processes /\ call[v].ref \in Refs
    BY <2>1, RefTyped, Zenon DEF Inside, TypeOK
  <2>3. holder[home[v]][call[v].ref] = v
    BY <2>1, Zenon DEF KeyInv, Locked
  <2>4. QED
    BY <2>1, <2>2, <2>3, StepLocal
<1>3. QED
  BY <1>1, <1>2, Zenon DEF Locked

(* A successful Generate counts for its own process and reference only. *)
LEMMA MadeShape ==
  ASSUME TypeOK, KeyInv, NEW w \in Workers, Receive(w) \/ Step(w)
  PROVE  \/ UNCHANGED made
         \/ /\ Making(w)
            /\ stored[call[w].ref] # None
            /\ made' = [made EXCEPT ![home[w]][call[w].ref] = 1]
<1>1. CASE Hands(w) /\ call[w].op = "generate"
  <2>1. Making(w)
    BY <1>1, Zenon DEF Hands, Making, Inside
  <2>2. made' = [made EXCEPT ![home[w]][call[w].ref] = @ + 1]
    BY <1>1, Zenon DEF Hands, Return
  <2>3. made[home[w]][call[w].ref] = 0
    BY <2>1, Zenon DEF KeyInv, Free
  <2>4. stored[call[w].ref] # None
    BY <1>1, KeyStoreAssumption, Zenon DEF Hands
  <2>5. QED
    BY <2>1, <2>2, <2>3, <2>4
<1>2. CASE Hands(w) /\ call[w].op # "generate"
  BY <1>2, Zenon DEF Hands, Return
<1>3. QED
  BY <1>1, <1>2, StepShape, Zenon DEF Still, Puts

LEMMA FreeStep ==
  ASSUME TypeOK, KeyInv, NEW w \in Workers, Receive(w) \/ Step(w), UNCHANGED deployment
  PROVE  Free'
<1>. UNCHANGED home
  BY Zenon DEF deployment
<1>1. Making(w)' => made'[home[w]][call'[w].ref] = 0
  <2>. SUFFICES ASSUME Making(w)' PROVE made'[home[w]][call'[w].ref] = 0
    BY Zenon
  <2>1. /\ ~Ends(w) /\ ~Begins(w)
        /\ call[w].op = "generate" /\ call'[w].ref = call[w].ref
        /\ pc[w] \notin {"idle", "fresh", "lock"}
        /\ pc[w] = "exists" => stored[call[w].ref] = None
        /\ pc'[w] # "idle"
    BY Moves DEF Making, Inside, Ends, Begins, Goes, Learns
  <2>2. made[home[w]][call[w].ref] = 0
    <3>1. CASE pc[w] = "exists"
      BY <2>1, <3>1, RefTyped DEF KeyInv, Kept, TypeOK
    <3>2. CASE pc[w] # "exists"
      BY <2>1, <3>2, Zenon DEF KeyInv, Free, Making, Inside
    <3>3. QED
      BY <3>1, <3>2, Zenon
  <2>3. UNCHANGED made
    BY <2>1, StepShape, ZenonT(40) DEF Still, Puts, Hands, Return, Goto, TypeOK
  <2>4. QED
    BY <2>1, <2>2, <2>3, Zenon
<1>2. ASSUME NEW v \in Workers \ {w}, Making(v)'
      PROVE  made'[home[v]][call'[v].ref] = 0
  <2>1. Making(v) /\ call'[v] = call[v]
    BY <1>2, StepLocal, Zenon DEF Making, Inside
  <2>2. made[home[v]][call[v].ref] = 0
    BY <2>1, Zenon DEF KeyInv, Free
  <2>3. home[v] \in Processes /\ call[v].ref \in Refs
    BY <2>1, RefTyped, Zenon DEF Making, Inside, TypeOK
  <2>4. ~(Making(w) /\ home[v] = home[w] /\ call[v].ref = call[w].ref)
    BY <2>1, Zenon DEF KeyInv, Locked, Making
  <2>5. QED
    BY <2>1, <2>2, <2>3, <2>4, MadeShape, SMTT(20) DEF TypeOK, Making, Inside
<1>3. pc'[w] \in {"create", "write", "rename", "token"} => stored'[call'[w].ref] = None
  <2>. SUFFICES ASSUME pc'[w] \in {"create", "write", "rename", "token"}
                PROVE  stored'[call'[w].ref] = None
    BY Zenon
  <2>1. /\ pc[w] \in {"exists", "create", "write"}
        /\ call'[w].ref = call[w].ref
        /\ stored[call[w].ref] = None
    BY Moves, Zenon DEF Ends, Begins, Goes, Learns, KeyInv, Free
  <2>2. UNCHANGED stored
    BY <2>1, StepShape, Zenon DEF Still, Puts, Hands
  <2>3. QED
    BY <2>1, <2>2, Zenon
<1>4. ASSUME NEW v \in Workers \ {w}, pc'[v] \in {"create", "write", "rename", "token"}
      PROVE  stored'[call'[v].ref] = None
  <2>1. pc[v] = pc'[v] /\ call'[v] = call[v]
    BY StepLocal, Zenon
  <2>2. stored[call[v].ref] = None /\ call[v].ref \in Refs
    BY <1>4, <2>1, RefTyped, Zenon DEF KeyInv, Free
  <2>3. ASSUME NEW k \in Keys, Puts(w, k)
        PROVE  stored'[call[v].ref] = None
    <3>1. call[v].ref # call[w].ref
      BY <1>4, <2>1, <2>3, Alone, Zenon DEF Puts
    <3>2. QED
      BY <2>2, <2>3, <3>1, Zenon DEF Puts, TypeOK
  <2>4. QED
    BY <2>1, <2>2, <2>3, StepShape, Zenon DEF Still, Hands
<1>5. QED
  BY <1>1, <1>2, <1>3, <1>4, Zenon DEF Free

LEMMA UnseenStep ==
  ASSUME TypeOK, KeyInv, NEW w \in Workers, Receive(w) \/ Step(w)
  PROVE  Unseen'
<1>1. ASSUME pc'[w] \in {"write", "rename"}
      PROVE  /\ call'[w].key \in Keys
             /\ \A f \in Refs : stored'[f] # call'[w].key
             /\ \A v \in Workers : v # w => call'[v].key # call'[w].key
  <2>1. /\ pc[w] \in {"create", "write"}
        /\ call'[w].key \in Keys
        /\ \A f \in Refs : stored[f] # call'[w].key
        /\ \A v \in Workers : v # w => call[v].key # call'[w].key
    <3>1. CASE pc[w] = "write"
      <4>1. call'[w] = call[w]
        BY <1>1, <3>1, Moves, Zenon DEF Ends, Begins, Goes, Learns
      <4>2. QED
        BY <3>1, <4>1, Zenon DEF KeyInv, Unseen
    <3>2. CASE pc[w] # "write"
      <4>1. pc[w] = "create" /\ call'[w].key \in Keys /\ Fresh(call'[w].key)
        BY <1>1, <3>2, Moves, Zenon DEF Ends, Begins, Goes, Creates, Learns, TypeOK, Backends
      <4>2. QED
        BY <4>1, Zenon DEF Fresh
    <3>3. QED
      BY <3>1, <3>2, Zenon
  <2>2. UNCHANGED stored
    BY <2>1, StepShape, Zenon DEF Still, Puts, Hands
  <2>3. QED
    BY <2>1, <2>2, StepLocal, Zenon
<1>2. ASSUME NEW v \in Workers \ {w}, pc'[v] \in {"write", "rename"}
      PROVE  /\ call'[v].key \in Keys
             /\ \A f \in Refs : stored'[f] # call'[v].key
             /\ \A u \in Workers : u # v => call'[u].key # call'[v].key
  <2>1. pc[v] \in {"write", "rename"} /\ call'[v] = call[v]
    BY <1>2, StepLocal, Zenon
  <2>2. /\ call[v].key \in Keys
        /\ \A f \in Refs : stored[f] # call[v].key
        /\ \A u \in Workers : u # v => call[u].key # call[v].key
    BY <2>1, Zenon DEF KeyInv, Unseen
  <2>3. \A f \in Refs : stored'[f] # call[v].key
    BY <2>2, StepShape, Zenon DEF Still, Puts, Hands, TypeOK
  <2>4. call'[w].key # call[v].key
    <3>1. CASE Ends(w) \/ Begins(w)
      BY <2>2, <3>1, KeyStoreAssumption, SMTT(20) DEF Ends, Begins, NoCall, NewCall
    <3>2. CASE Goes(w)
      BY <2>2, <3>2, Zenon DEF Goes
    <3>3. CASE Learns(w)
      BY <2>2, <3>3, RefTyped, Zenon DEF Learns, Fresh
    <3>4. QED
      BY <3>1, <3>2, <3>3, Moves, Zenon
  <2>5. QED
    BY <2>1, <2>2, <2>3, <2>4, StepLocal
<1>3. QED
  BY <1>1, <1>2, Zenon DEF Unseen

LEMMA ReadyStep ==
  ASSUME TypeOK, KeyInv, NEW w \in Workers, Receive(w) \/ Step(w)
  PROVE  Ready'
<1>1. pc'[w] = "rename" => tmp'[call'[w].ref] = call'[w].key
  BY Moves, Zenon DEF Ends, Begins, Goes, Creates, Learns, TypeOK, Backends
<1>2. ASSUME pc'[w] = "remember"
      PROVE  call'[w].key \in Keys /\ stored'[call'[w].ref] = call'[w].key
  <2>1. CASE Goes(w)
    <3>1. pc[w] = "rename" /\ call'[w] = call[w] /\ stored'[call[w].ref] = call[w].key
      BY <1>2, <2>1, Zenon DEF Goes, Creates, TypeOK, Backends
    <3>2. QED
      BY <3>1, Zenon DEF KeyInv, Unseen
  <2>2. CASE Learns(w) /\ pc[w] = "token"
    BY <1>2, <2>2, Zenon DEF Learns
  <2>3. CASE Learns(w) /\ pc[w] # "token"
    <3>1. /\ pc[w] = "read" /\ call'[w].key \in Keys
          /\ call'[w].ref = call[w].ref
          /\ stored[call[w].ref] = call'[w].key
      BY <1>2, <2>3, Zenon DEF Learns
    <3>2. UNCHANGED stored
      BY <3>1, StepShape, Zenon DEF Still, Puts, Hands
    <3>3. QED
      BY <3>1, <3>2, Zenon
  <2>4. QED
    BY <1>2, <2>1, <2>2, <2>3, Moves, Zenon DEF Ends, Begins
<1>3. ASSUME NEW v \in Workers \ {w}, pc'[v] = "rename"
      PROVE  tmp'[call'[v].ref] = call'[v].key
  <2>1. pc[v] = "rename" /\ call'[v] = call[v]
    BY <1>3, StepLocal, Zenon
  <2>2. tmp[call[v].ref] = call[v].key /\ call[v].ref \in Refs
    BY <2>1, RefTyped, Zenon DEF KeyInv, Ready
  <2>3. pc[w] \in {"create", "write", "rename"} => call[v].ref # call[w].ref
    BY <2>1, Alone, Zenon
  <2>4. QED
    BY <2>1, <2>2, <2>3, TmpShape, Zenon
<1>4. ASSUME NEW v \in Workers \ {w}, pc'[v] = "remember"
      PROVE  call'[v].key \in Keys /\ stored'[call'[v].ref] = call'[v].key
  <2>1. pc[v] = "remember" /\ call'[v] = call[v]
    BY <1>4, StepLocal, Zenon
  <2>2. call[v].key \in Keys /\ stored[call[v].ref] = call[v].key /\ call[v].ref \in Refs
    BY <2>1, RefTyped, Zenon DEF KeyInv, Ready
  <2>3. stored'[call[v].ref] = stored[call[v].ref]
    BY <2>2, StepShape, KeyStoreAssumption, Zenon DEF Still, Puts, Hands, TypeOK
  <2>4. QED
    BY <2>1, <2>2, <2>3, Zenon
<1>5. QED
  BY <1>1, <1>2, <1>3, <1>4, Zenon DEF Ready

LEMMA KeptStep ==
  ASSUME TypeOK, KeyInv, NEW w \in Workers, Receive(w) \/ Step(w)
  PROVE  Kept'
<1>1. CASE Still /\ UNCHANGED cached
  BY <1>1, Zenon DEF Still, KeyInv, Kept
<1>2. ASSUME NEW k \in Keys, Puts(w, k)
      PROVE  Kept'
  <2>. call[w].ref \in Refs
    BY <1>2, RefTyped, Zenon DEF Puts
  <2>1. \A f \in Refs : stored[f] # None => stored'[f] = stored[f]
    BY <1>2, Zenon DEF Puts, TypeOK
  <2>2. \A f \in Refs : stored'[f] \in Keys \cup {None}
    BY <1>2, Zenon DEF Puts, TypeOK, KeyInv, Kept
  <2>3. \A x \in Processes, f \in Refs : cached'[x][f] # None => cached'[x][f] = stored'[f]
    BY <1>2, <2>1, ZenonT(40) DEF Puts, KeyInv, Kept
  <2>4. \A f \in Refs, l \in Keys : <<f, l>> \in handed' => stored'[f] = l
    BY <1>2, <2>1, KeyStoreAssumption, Zenon DEF Puts, KeyInv, Kept
  <2>5. \A x \in Processes, f \in Refs : made'[x][f] # 0 => stored'[f] # None
    BY <1>2, <2>1, Zenon DEF Puts, KeyInv, Kept
  <2>6. QED
    BY <2>2, <2>3, <2>4, <2>5, Zenon DEF Kept
<1>3. CASE Hands(w)
  <2>. call[w].ref \in Refs /\ home[w] \in Processes
    BY <1>3, RefTyped, Zenon DEF Hands, TypeOK
  <2>1. \A x \in Processes, f \in Refs : cached'[x][f] # None => cached'[x][f] = stored'[f]
    <3>1. CASE UNCHANGED cached
      BY <1>3, <3>1, Zenon DEF Hands, KeyInv, Kept
    <3>2. CASE cached' = [cached EXCEPT ![home[w]][call[w].ref] = stored[call[w].ref]]
      BY <1>3, <3>2, Zenon DEF Hands, KeyInv, Kept, TypeOK
    <3>3. QED
      BY <1>3, <3>1, <3>2, Zenon DEF Hands
  <2>2. \A f \in Refs, l \in Keys : <<f, l>> \in handed' => stored'[f] = l
    BY <1>3, Zenon DEF Hands, Return, KeyInv, Kept
  <2>3. \A x \in Processes, f \in Refs : made'[x][f] # 0 => stored'[f] # None
    <3>1. ASSUME NEW x \in Processes, NEW f \in Refs, made'[x][f] # 0
          PROVE  made[x][f] # 0 \/ stored[f] # None
      <4>1. CASE UNCHANGED made
        BY <3>1, <4>1, Zenon
      <4>2. CASE ~UNCHANGED made
        <5>1. /\ stored[call[w].ref] # None
              /\ made' = [made EXCEPT ![home[w]][call[w].ref] = 1]
          BY <4>2, MadeShape, Zenon
        <5>2. CASE x = home[w] /\ f = call[w].ref
          BY <5>1, <5>2, Zenon
        <5>3. CASE ~(x = home[w] /\ f = call[w].ref)
          <6>1. made'[x][f] = made[x][f]
            BY <5>1, <5>3, Zenon DEF TypeOK
          <6>2. QED
            BY <3>1, <6>1, Zenon
        <5>4. QED
          BY <5>2, <5>3, Zenon
      <4>3. QED
        BY <4>1, <4>2, Zenon
    <3>2. QED
      BY <1>3, <3>1, Zenon DEF Hands, KeyInv, Kept
  <2>4. QED
    BY <1>3, <2>1, <2>2, <2>3, Zenon DEF Hands, KeyInv, Kept
<1>4. QED
  BY <1>1, <1>2, <1>3, StepShape, Zenon

(* A crash ends the calls of a process, and keeps what is stored. *)
LEMMA CrashStep ==
  ASSUME TypeOK, KeyInv, NEW x \in Processes, Crash(x), UNCHANGED deployment
  PROVE  KeyInv'
<1>. /\ UNCHANGED <<backend, home, stored, tmp, made, handed>>
     /\ cached' = [cached EXCEPT ![x] = [f \in Refs |-> None]]
     /\ holder' = [holder EXCEPT ![x] = [f \in Refs |-> None]]
  BY Zenon DEF Crash, deployment, history
<1>1. \A w \in Workers :
        IF home[w] = x THEN pc'[w] = "idle" /\ call'[w] = NoCall
        ELSE pc'[w] = pc[w] /\ call'[w] = call[w]
  BY Zenon DEF Crash
<1>. NoCall.op = "none" /\ NoCall.key = None
  BY Zenon DEF NoCall, NewCall
<1>2. Fits'
  BY <1>1, Zenon DEF KeyInv, Fits
<1>3. Together'
  BY <1>1 DEF KeyInv, Together
<1>4. Locked'
  <2>. SUFFICES ASSUME NEW w \in Workers, Inside(w)'
                PROVE  holder'[home[w]][call'[w].ref] = w
    BY Zenon DEF Locked
  <2>1. home[w] # x /\ call'[w] = call[w] /\ Inside(w)
    BY <1>1, Zenon DEF Inside
  <2>2. QED
    BY <2>1, Zenon DEF KeyInv, Locked, TypeOK
<1>5. Free'
  BY <1>1, Zenon DEF KeyInv, Free, Making, Inside
<1>6. Unseen'
  BY <1>1, KeyStoreAssumption DEF KeyInv, Unseen
<1>7. Ready'
  BY <1>1, Zenon DEF KeyInv, Ready
<1>8. Kept'
  BY Zenon DEF KeyInv, Kept, TypeOK
<1>9. QED
  BY <1>2, <1>3, <1>4, <1>5, <1>6, <1>7, <1>8, Zenon DEF KeyInv

-----------------------------------------------------------------------------
(* In every state that the calls and crashes reach, the invariant holds:   *)
(* what Generate found under the lock stays so until it puts its key, and  *)
(* whatever was handed out, cached or made is the key that is stored.      *)
THEOREM KeyStoreInvariant == Spec => [](TypeOK /\ KeyInv)
<1>1. Init => TypeOK /\ KeyInv
  <2>. SUFFICES ASSUME Init PROVE TypeOK /\ KeyInv
    BY Zenon
  <2>1. TypeOK
    BY KeyStoreAssumption, SMTT(20) DEF Init, TypeOK, NoCall, NewCall, Call, Points, Content
  <2>2. \A w \in Workers : pc[w] = "idle" /\ call[w] = NoCall
    BY Zenon DEF Init
  <2>3. NoCall.op = "none"
    BY Zenon DEF NoCall, NewCall
  <2>4. Fits /\ Locked /\ Free /\ Unseen /\ Ready
    BY <2>2, Zenon DEF Fits, Locked, Free, Unseen, Ready, Making, Inside
  <2>5. Together
    BY <2>2, <2>3, Zenon DEF Init, Together
  <2>6. Kept
    BY Zenon DEF Init, Kept
  <2>7. QED
    BY <2>1, <2>4, <2>5, <2>6, Zenon DEF KeyInv
<1>2. TypeOK /\ KeyInv /\ [Next]_vars => (TypeOK /\ KeyInv)'
  <2>. SUFFICES ASSUME TypeOK, KeyInv, [Next]_vars PROVE TypeOK' /\ KeyInv'
    BY Zenon
  <2>1. TypeOK'
    BY TypeStep, Zenon DEF KeyInv
  <2>2. CASE UNCHANGED vars
    <3>. UNCHANGED <<backend, home, stored, tmp, cached, holder, pc, call, made, handed>>
      BY <2>2, Zenon DEF vars, deployment, history
    <3>1. Fits' /\ Together'
      BY Zenon DEF KeyInv, Fits, Together
    <3>2. Locked' /\ Free'
      BY Zenon DEF KeyInv, Locked, Free, Making, Inside
    <3>3. Unseen' /\ Ready'
      BY Zenon DEF KeyInv, Unseen, Ready
    <3>4. Kept'
      BY Zenon DEF KeyInv, Kept
    <3>5. QED
      BY <2>1, <3>1, <3>2, <3>3, <3>4, Zenon DEF KeyInv
  <2>3. ASSUME NEW w \in Workers, Receive(w) \/ Step(w), UNCHANGED deployment
        PROVE  KeyInv'
    BY <2>3, FitsStep, TogetherStep, LockedStep, FreeStep, UnseenStep, ReadyStep, KeptStep, Zenon
       DEF KeyInv
  <2>4. QED
    BY <2>1, <2>2, <2>3, CrashStep, Zenon DEF Next
<1>3. QED
  BY <1>1, <1>2, PTL DEF Spec

(* A step puts a key, hands one out, or leaves the map alone. *)
LEMMA StepsMap ==
  ASSUME TypeOK, KeyInv, [Next]_vars
  PROVE  [Map!Next]_<<stored, handed, made>>
<1>1. ASSUME NEW w \in Workers, NEW k \in Keys, Puts(w, k)
      PROVE  Map!Next
  <2>1. call[w].ref \in Refs
    BY <1>1, RefTyped, Zenon DEF Puts
  <2>2. Map!Put(call[w].ref, k)
    BY <1>1, Zenon DEF Puts, Map!Put
  <2>3. QED
    BY <2>1, <2>2, Zenon DEF Map!Next
<1>2. ASSUME NEW w \in Workers, Hands(w)
      PROVE  Map!Next
  <2>1. /\ call[w].ref \in Refs /\ home[w] \in Processes
        /\ stored[call[w].ref] # None
        /\ handed' = handed \cup {<<call[w].ref, stored[call[w].ref]>>}
        /\ UNCHANGED stored
    BY <1>2, RefTyped, KeyStoreAssumption, Zenon DEF Hands, Return, TypeOK
  <2>2. CASE call[w].op = "generate"
    <3>1. Making(w)
      BY <1>2, <2>2, Zenon DEF Hands, Making, Inside
    <3>2. made[home[w]][call[w].ref] = 0
      BY <3>1, Zenon DEF KeyInv, Free
    <3>3. made' = [made EXCEPT ![home[w]][call[w].ref] = @ + 1]
      BY <1>2, <2>2, Zenon DEF Hands, Return
    <3>4. made' = [made EXCEPT ![home[w]][call[w].ref] = 1]
      BY <3>2, <3>3
    <3>5. Map!Make(home[w], call[w].ref)
      BY <2>1, <3>2, <3>4, Zenon DEF Map!Make
    <3>6. QED
      BY <2>1, <3>5, Zenon DEF Map!Next
  <2>3. CASE call[w].op # "generate"
    <3>1. Map!Hand(call[w].ref)
      BY <1>2, <2>1, <2>3, Zenon DEF Hands, Return, Map!Hand
    <3>2. QED
      BY <2>1, <3>1, Zenon DEF Map!Next
  <2>4. QED
    BY <2>2, <2>3, Zenon
<1>3. ASSUME NEW x \in Processes, Crash(x)
      PROVE  UNCHANGED <<stored, handed, made>>
  BY <1>3, Zenon DEF Crash, history
<1>4. CASE UNCHANGED vars
  BY <1>4, Zenon DEF vars, history
<1>5. ASSUME NEW w \in Workers, Receive(w) \/ Step(w)
      PROVE  [Map!Next]_<<stored, handed, made>>
  BY <1>1, <1>2, <1>5, StepShape, Zenon DEF Still
<1>6. QED
  BY <1>3, <1>4, <1>5, Zenon DEF Next

(* The file, Vault and PKCS#11 keystores implement the interface: no       *)
(* interleaving of calls, failed write or crash replaces key material, and *)
(* every signer handed out is the key that is stored.                      *)
THEOREM KeyStoreRefinesKeyMap == Spec => ImplementsKeyMap
<1>1. Init => Map!Init
  BY Zenon DEF Init, Map!Init
<1>2. TypeOK /\ KeyInv /\ [Next]_vars => [Map!Next]_<<stored, handed, made>>
  BY StepsMap, Zenon
<1>3. QED
  BY <1>1, <1>2, KeyStoreInvariant, PTL DEF Spec, ImplementsKeyMap, Map!Spec, Map!vars
=============================================================================
