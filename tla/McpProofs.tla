----------------------------- MODULE McpProofs ------------------------------
(***************************************************************************)
(* Proofs about Mcp, for any number of servers, names, calls and faults.   *)
(* The invariant says, for each call, what it has at hand at the point     *)
(* where it stands, when it may have a certificate, which files are its    *)
(* own, and which of its files it has found free.                          *)
(***************************************************************************)
EXTENDS Mcp, TLAPS

Kinds == {"key", "cert", "tsr"}

(* The tools that save files. *)
Saving == {"issue", "sign", "stamp"}

Before == {"new", "stat", "post"}

AtFile == {"open", "write", "remove"}

(* What is left to be checked or to be saved is the list or its end. *)
Shape(i) ==
  LET c == call[i] IN
  /\ pc[i] = "new" => c = NoCall
  /\ pc[i] # "new" => c.tool \in Tools
  /\ c.tool \in Saving => c.name \in Names
  /\ pc[i] = "stat" =>
       /\ c.tool \in Saving
       /\ c.todo = Checks(c.tool) \/ (c.tool = "issue" /\ c.todo = <<"key">>)
  /\ pc[i] \in AtFile =>
       /\ c.tool \in Saving
       /\ c.todo = Saves(c.tool) \/ (c.tool = "issue" /\ c.todo = <<"cert">>)
       /\ c.data = i

(* Before its request, and where its answer has no serial, a call has no   *)
(* certificate; a stamp never has one.                                     *)
Certless(i) ==
  pc[i] \in Before \cup (Answers \ (Telling \cup Unsettled)) \/ call[i].tool = "stamp" =>
    certs[i] = "none"

(* The files of a call's making: they have its name, the file at hand is   *)
(* its own and not whole, and the key is whole before the certificate is   *)
(* there; the rest is what FilesSound says.                                *)
Files(i) ==
  LET file(e) == disk[<<call[i].name, e>>]
      tool == call[i].tool
  IN /\ \A n \in Names, e \in Kinds :
          disk[<<n, e>>].of = i => call[i].name = n /\ pc[i] \notin Before
     /\ pc[i] \in {"write", "remove"} => disk[Output(i)] = [of |-> i, whole |-> FALSE]
     /\ pc[i] \in AtFile /\ tool = "issue" =>
          IF call[i].todo = <<"cert">> THEN file("key") = Own(i) ELSE file("cert").of # i
     /\ pc[i] = "done" /\ tool = "issue" => file("key") = Own(i) /\ file("cert") = Own(i)
     /\ pc[i] = "done" /\ tool = "sign" => file("cert") = Own(i)
     /\ pc[i] = "done" /\ tool = "stamp" => file("tsr") = Own(i)
     /\ pc[i] = "cert failed" /\ tool = "issue" => file("key") = Own(i)
     /\ tool = "issue" /\ file("cert").of = i => file("key") = Own(i)

(* The files on a list. *)
On(e, l) == \E k \in DOMAIN l : e = l[k]

(* The files a call has found free and has not opened. *)
Cleared(i, e) ==
  LET c == call[i] IN
  \/ pc[i] = "stat" /\ c.todo = <<"key">> /\ e = "cert"
  \/ pc[i] = "post" /\ On(e, Checks(c.tool))
  \/ pc[i] = "open" /\ On(e, c.todo)
  \/ pc[i] = "write" /\ c.tool = "issue" /\ c.todo # <<"cert">> /\ e = "cert"

Free(i) ==
  \A e \in Kinds :
    LET o == <<call[i].name, e>>
    IN Cleared(i, e) /\ Exists(o) => o \in unseen[i]

CallInv(i) == Shape(i) /\ Certless(i) /\ Files(i) /\ Free(i)

McpInv == TypeOK /\ \A i \in Calls : CallInv(i)

-----------------------------------------------------------------------------
(* The lists of files, and what a call has at hand. *)
LEMMA ListFacts ==
  /\ \A x, y : /\ Head(<<x, y>>) = x /\ Tail(<<x, y>>) = <<y>> /\ Len(<<x, y>>) = 2
               /\ DOMAIN <<x, y>> = {1, 2} /\ <<x, y>>[1] = x /\ <<x, y>>[2] = y
               /\ <<x, y>> # << >>
  /\ \A x : /\ Head(<<x>>) = x /\ Tail(<<x>>) = << >> /\ Len(<<x>>) = 1
            /\ DOMAIN <<x>> = {1} /\ <<x>>[1] = x /\ <<x>> # << >>
  /\ \A x, y, z : <<x, y>> # <<z>>
  /\ \A x, y : <<x>> = <<y>> => x = y
  /\ DOMAIN << >> = {}
<1>1. \A x, y : /\ Head(<<x, y>>) = x /\ Tail(<<x, y>>) = <<y>> /\ Len(<<x, y>>) = 2
                /\ DOMAIN <<x, y>> = {1, 2} /\ <<x, y>>[1] = x /\ <<x, y>>[2] = y
                /\ <<x, y>> # << >>
  OBVIOUS
<1>2. \A x : /\ Head(<<x>>) = x /\ Tail(<<x>>) = << >> /\ Len(<<x>>) = 1
             /\ DOMAIN <<x>> = {1} /\ <<x>>[1] = x /\ <<x>> # << >>
  OBVIOUS
<1>3. \A x, y, z : <<x, y>> # <<z>>
  BY <1>1, <1>2
<1>4. \A x, y : <<x>> = <<y>> => x = y
  BY <1>2
<1>5. DOMAIN << >> = {}
  OBVIOUS
<1>6. QED
  BY <1>1, <1>2, <1>3, <1>4, <1>5, Zenon

LEMMA TheLists ==
  /\ Head(<<"cert", "key">>) = "cert" /\ Tail(<<"cert", "key">>) = <<"key">>
  /\ Len(<<"cert", "key">>) # 1
  /\ Head(<<"key", "cert">>) = "key" /\ Tail(<<"key", "cert">>) = <<"cert">>
  /\ Len(<<"key", "cert">>) # 1
  /\ \A x \in Kinds : Head(<<x>>) = x /\ Tail(<<x>>) = << >> /\ Len(<<x>>) = 1
  /\ <<"key", "cert">> # <<"cert">> /\ <<"cert", "key">> # <<"key">>
  /\ << >> # <<"key", "cert">> /\ << >> # <<"cert">> /\ << >> # <<"tsr">>
BY ListFacts

LEMMA ListsAre ==
  /\ << >> \in Lists
  /\ \A x \in Kinds : <<x>> \in Lists
  /\ \A x, y \in Kinds : <<x, y>> \in Lists
<1>1. << >> \in [1..0 -> Kinds]
  OBVIOUS
<1>2. \A x \in Kinds : <<x>> \in [1..1 -> Kinds]
  OBVIOUS
<1>3. \A x, y \in Kinds : <<x, y>> \in [1..2 -> Kinds]
  OBVIOUS
<1>4. 0 \in 0..2 /\ 1 \in 0..2 /\ 2 \in 0..2
  OBVIOUS
<1>5. \A n \in 0..2 : [1..n -> Kinds] \subseteq Lists
  BY Zenon DEF Lists, Kinds
<1>6. QED
  BY <1>1, <1>2, <1>3, <1>4, <1>5, Zenon

LEMMA ToolLists ==
  /\ Checks("issue") = <<"cert", "key">> /\ Saves("issue") = <<"key", "cert">>
  /\ Checks("sign") = <<"cert">> /\ Saves("sign") = <<"cert">>
  /\ Checks("stamp") = <<"tsr">> /\ Saves("stamp") = <<"tsr">>
  /\ \A t \in {"cli", "revoke"} : Checks(t) = << >> /\ Saves(t) = << >>
BY DEF Checks, Saves

LEMMA ListKinds ==
  ASSUME NEW l, NEW e
  PROVE  /\ l \in {<<"cert", "key">>, <<"key", "cert">>} => (On(e, l) <=> e \in {"cert", "key"})
         /\ l = <<"cert">> => (On(e, l) <=> e = "cert")
         /\ l = <<"tsr">> => (On(e, l) <=> e = "tsr")
         /\ l = << >> => ~On(e, l)
BY ListFacts, SMTT(20) DEF On

LEMMA ToolsAre ==
  /\ Tools = {"issue", "sign", "stamp", "cli", "revoke"}
  /\ \A t \in Tools : Checks(t) \in Lists /\ Saves(t) \in Lists
<1>1. Tools = {"issue", "sign", "stamp", "cli", "revoke"}
  BY DEF Tools, Issuing
<1>2. "key" \in Kinds /\ "cert" \in Kinds /\ "tsr" \in Kinds
  BY Zenon DEF Kinds
<1>3. QED
  BY <1>1, <1>2, ToolLists, ListsAre, Zenon

LEMMA AtStat ==
  ASSUME NEW i \in Calls, Shape(i), pc[i] = "stat"
  PROVE  LET c == call[i] IN
         /\ c.name \in Names
         /\ \/ /\ c.tool = "issue" /\ c.todo = <<"cert", "key">> /\ Tail(c.todo) = <<"key">>
               /\ Len(c.todo) # 1 /\ Output(i) = <<c.name, "cert">>
            \/ /\ c.tool = "issue" /\ c.todo = <<"key">> /\ Tail(c.todo) = << >>
               /\ Len(c.todo) = 1 /\ Output(i) = <<c.name, "key">>
            \/ /\ c.tool = "sign" /\ c.todo = <<"cert">> /\ Tail(c.todo) = << >>
               /\ Len(c.todo) = 1 /\ Output(i) = <<c.name, "cert">>
            \/ /\ c.tool = "stamp" /\ c.todo = <<"tsr">> /\ Tail(c.todo) = << >>
               /\ Len(c.todo) = 1 /\ Output(i) = <<c.name, "tsr">>
<1>1. call[i].name \in Names
  BY Zenon DEF Shape
<1>2. "key" \in Kinds /\ "cert" \in Kinds /\ "tsr" \in Kinds
  BY Zenon DEF Kinds
<1>3. \/ call[i].tool = "issue" /\ call[i].todo = <<"cert", "key">>
      \/ call[i].tool = "issue" /\ call[i].todo = <<"key">>
      \/ call[i].tool = "sign" /\ call[i].todo = <<"cert">>
      \/ call[i].tool = "stamp" /\ call[i].todo = <<"tsr">>
  BY ToolLists, Zenon DEF Shape, Saving
<1>4. QED
  BY <1>1, <1>2, <1>3, TheLists, Zenon DEF Output

LEMMA FileAtHand ==
  ASSUME NEW i \in Calls, Shape(i), pc[i] \in AtFile
  PROVE  LET c == call[i] IN
         /\ c.name \in Names /\ c.data = i
         /\ \/ /\ c.tool = "issue" /\ c.todo = <<"key", "cert">> /\ Tail(c.todo) = <<"cert">>
               /\ Len(c.todo) # 1 /\ Head(c.todo) = "key" /\ c.todo # <<"cert">>
            \/ /\ c.tool = "issue" /\ c.todo = <<"cert">>
               /\ Len(c.todo) = 1 /\ Head(c.todo) = "cert"
            \/ /\ c.tool = "sign" /\ c.todo = <<"cert">>
               /\ Len(c.todo) = 1 /\ Head(c.todo) = "cert"
            \/ /\ c.tool = "stamp" /\ c.todo = <<"tsr">>
               /\ Len(c.todo) = 1 /\ Head(c.todo) = "tsr"
         /\ Output(i) = <<c.name, Head(c.todo)>>
         /\ Output(i) \in Outputs
<1>1. call[i].name \in Names /\ call[i].data = i
  BY Zenon DEF Shape
<1>2. "key" \in Kinds /\ "cert" \in Kinds /\ "tsr" \in Kinds
  BY Zenon DEF Kinds
<1>3. \/ call[i].tool = "issue" /\ call[i].todo = <<"key", "cert">>
      \/ call[i].tool = "issue" /\ call[i].todo = <<"cert">>
      \/ call[i].tool = "sign" /\ call[i].todo = <<"cert">>
      \/ call[i].tool = "stamp" /\ call[i].todo = <<"tsr">>
  BY ToolLists, Zenon DEF Shape, Saving
<1>4. Head(call[i].todo) \in Kinds
  BY <1>2, <1>3, TheLists, Zenon
<1>5. <<call[i].name, Head(call[i].todo)>> \in Outputs
  BY <1>1, <1>4 DEF Outputs, Kinds
<1>6. QED
  BY <1>1, <1>2, <1>3, <1>5, TheLists, Zenon DEF Output

-----------------------------------------------------------------------------
(* A call that a step leaves alone. *)
LEMMA SameCall ==
  ASSUME NEW j \in Calls, CallInv(j), disk' = disk,
         pc'[j] = pc[j], call'[j] = call[j], unseen'[j] = unseen[j],
         certs[j] = "none" => certs'[j] = "none"
  PROVE  CallInv(j)'
<1>1. Shape(j)'
  BY Zenon DEF CallInv, Shape
<1>2. Certless(j)'
  BY Zenon DEF CallInv, Certless
<1>3. Files(j)'
  BY Zenon DEF CallInv, Files, Output, Own
<1>4. Free(j)'
  BY Zenon DEF CallInv, Free, Cleared, Exists
<1>5. QED
  BY <1>1, <1>2, <1>3, <1>4, Zenon DEF CallInv

(* A step of call i changes a file o that is not there or is its own: call *)
(* j has nothing there to lose, and if the file is new and j is running,   *)
(* the file appeared while j ran.                                          *)
LEMMA OtherFile ==
  ASSUME NEW i \in Calls, NEW j \in Calls, i # j, CallInv(j),
         pc'[j] = pc[j], call'[j] = call[j], certs'[j] = certs[j],
         NEW o \in Outputs, \A u \in Outputs : u # o => disk'[u] = disk[u],
         disk[o].of \in {0, i}, disk'[o].of \in {0, i},
         unseen[j] \subseteq unseen'[j],
         \/ disk'[o] = NoFile
         \/ disk[o] # NoFile
         \/ pc[j] \in {"stat", "post", "open", "write"} => o \in unseen'[j]
  PROVE  CallInv(j)'
<1>0. j # 0
  BY McpAssumption DEF Calls
<1>1. Shape(j)'
  BY Zenon DEF CallInv, Shape
<1>2. Certless(j)'
  BY Zenon DEF CallInv, Certless
<1>3. disk[o].of # j /\ disk'[o].of # j
  BY <1>0
<1>4. \A u \in Outputs : /\ disk[u].of = j <=> disk'[u].of = j
                         /\ disk[u].of = j => disk'[u] = disk[u]
  BY <1>3, Zenon
<1>5. \A n \in Names, e \in Kinds : <<n, e>> \in Outputs
  BY DEF Outputs, Kinds
<1>6. call[j].tool \in Saving => call[j].name \in Names
  BY Zenon DEF CallInv, Shape
<1>7. \A b \in BOOLEAN : [of |-> j, whole |-> b].of = j
  OBVIOUS
<1>8. "key" \in Kinds /\ "cert" \in Kinds /\ "tsr" \in Kinds
      /\ "issue" \in Saving /\ "sign" \in Saving /\ "stamp" \in Saving
  BY Zenon DEF Kinds, Saving
<1>9. \A u \in Outputs, b \in BOOLEAN :
        disk[u] = [of |-> j, whole |-> b] => disk'[u] = [of |-> j, whole |-> b]
  BY <1>4, <1>7, Zenon
<1>10. Files(j)'
  <2>1. \A n \in Names, e \in Kinds :
          disk'[<<n, e>>].of = j => call'[j].name = n /\ pc'[j] \notin Before
    BY <1>4, <1>5, Zenon DEF CallInv, Files
  <2>2. pc'[j] \in {"write", "remove"} => disk'[Output(j)'] = [of |-> j, whole |-> FALSE]
    <3>1. pc[j] \in {"write", "remove"} => Output(j) \in Outputs
      BY FileAtHand, Zenon DEF AtFile, CallInv
    <3>2. Output(j)' = Output(j)
      BY Zenon DEF Output
    <3>3. QED
      BY <1>9, <3>1, <3>2, Zenon DEF CallInv, Files
  <2>3. \A e \in Kinds : call[j].tool \in Saving => <<call[j].name, e>> \in Outputs
    BY <1>5, <1>6, Zenon
  <2>4. pc[j] \in AtFile /\ call[j].tool = "issue" =>
          IF call[j].todo = <<"cert">> THEN disk'[<<call[j].name, "key">>] = Own(j)
          ELSE disk'[<<call[j].name, "cert">>].of # j
    BY <1>4, <1>8, <1>9, <2>3, Zenon DEF CallInv, Files, Own
  <2>5. pc[j] = "done" /\ call[j].tool = "issue" =>
          disk'[<<call[j].name, "key">>] = Own(j) /\ disk'[<<call[j].name, "cert">>] = Own(j)
    BY <1>8, <1>9, <2>3, Zenon DEF CallInv, Files, Own
  <2>6. pc[j] = "done" /\ call[j].tool = "sign" => disk'[<<call[j].name, "cert">>] = Own(j)
    BY <1>8, <1>9, <2>3, Zenon DEF CallInv, Files, Own
  <2>7. pc[j] = "done" /\ call[j].tool = "stamp" => disk'[<<call[j].name, "tsr">>] = Own(j)
    BY <1>8, <1>9, <2>3, Zenon DEF CallInv, Files, Own
  <2>8. pc[j] = "cert failed" /\ call[j].tool = "issue" => disk'[<<call[j].name, "key">>] = Own(j)
    BY <1>8, <1>9, <2>3, Zenon DEF CallInv, Files, Own
  <2>9. call[j].tool = "issue" /\ disk'[<<call[j].name, "cert">>].of = j =>
          disk'[<<call[j].name, "key">>] = Own(j)
    BY <1>4, <1>8, <1>9, <2>3, Zenon DEF CallInv, Files, Own
  <2>10. QED
    BY <2>1, <2>2, <2>4, <2>5, <2>6, <2>7, <2>8, <2>9, Zenon DEF Files, Own
<1>11. Free(j)'
  <2>. SUFFICES ASSUME NEW e \in Kinds, Cleared(j, e)', Exists(<<call[j].name, e>>)'
                PROVE  <<call[j].name, e>> \in unseen'[j]
    BY Zenon DEF Free
  <2>1. Cleared(j, e)
    BY Zenon DEF Cleared
  <2>2. Exists(<<call[j].name, e>>) => <<call[j].name, e>> \in unseen'[j]
    BY <2>1, Zenon DEF CallInv, Free
  <2>3. CASE <<call[j].name, e>> = o
    <3>1. pc[j] \in {"stat", "post", "open", "write"}
      BY <2>1, Zenon DEF Cleared
    <3>2. QED
      BY <2>2, <2>3, <3>1, Zenon DEF Exists
  <2>4. CASE <<call[j].name, e>> # o
    <3>1. CASE <<call[j].name, e>> \in Outputs
      BY <2>2, <2>4, <3>1, Zenon DEF Exists
    <3>2. CASE <<call[j].name, e>> \notin Outputs
      <4>1. call[j].tool \notin Saving
        BY <1>5, <1>6, <3>2, Zenon
      <4>2. pc[j] = "post" /\ On(e, Checks(call[j].tool))
        BY <2>1, <4>1, Zenon DEF CallInv, Shape, Cleared, AtFile
      <4>3. call[j].tool \in Tools
        BY <4>2, Zenon DEF CallInv, Shape
      <4>4. Checks(call[j].tool) = << >>
        BY <4>1, <4>3, ToolsAre, ToolLists, Zenon DEF Saving
      <4>5. QED
        BY <4>2, <4>4, ListKinds, Zenon
    <3>3. QED
      BY <3>1, <3>2, Zenon
  <2>5. QED
    BY <2>3, <2>4, Zenon
<1>12. QED
  BY <1>1, <1>2, <1>10, <1>11, Zenon DEF CallInv

LEMMA NoCallType == NoCall \in Call
<1>1. 0 \in 0..(MaxCalls + 1) /\ 0 \in 0..MaxCalls
  BY McpAssumption
<1>2. QED
  BY <1>1, ListsAre DEF NoCall, Call

LEMMA EndedFields ==
  ASSUME TypeOK, NEW i \in Calls
  PROVE  /\ Ended(i) \in Call
         /\ Ended(i).tool = call[i].tool /\ Ended(i).name = call[i].name
<1>1. call[i].tool \in Tools \cup {None} /\ call[i].name \in Names \cup {None}
  BY Zenon DEF TypeOK, Call
<1>2. QED
  BY <1>1, NoCallType, Zenon DEF Ended, Call

(* A call ends, with its files as the last step left them. *)
LEMMA Ending ==
  ASSUME TypeOK, NEW i \in Calls, CallInv(i), pc[i] # "new",
         NEW p \in Answers, pc'[i] = p, call'[i] = Ended(i),
         p \notin Telling \cup Unsettled \/ call[i].tool = "stamp" => certs'[i] = "none",
         \A n \in Names, e \in Kinds : disk'[<<n, e>>].of = i => disk[<<n, e>>].of = i,
         p = "done" /\ call[i].tool = "issue" =>
           disk'[<<call[i].name, "key">>] = Own(i) /\ disk'[<<call[i].name, "cert">>] = Own(i),
         p = "done" /\ call[i].tool = "sign" => disk'[<<call[i].name, "cert">>] = Own(i),
         p = "done" /\ call[i].tool = "stamp" => disk'[<<call[i].name, "tsr">>] = Own(i),
         p = "cert failed" /\ call[i].tool = "issue" => disk'[<<call[i].name, "key">>] = Own(i),
         call[i].tool = "issue" /\ disk'[<<call[i].name, "cert">>].of = i =>
           disk'[<<call[i].name, "key">>] = Own(i)
  PROVE  CallInv(i)'
<1>1. call'[i].tool = call[i].tool /\ call'[i].name = call[i].name
  BY EndedFields, Zenon
<1>2. p \notin Steps
  BY DEF Answers, Telling, Unsettled, Steps
<1>3. p \notin Before /\ p \notin AtFile /\ p \notin {"write", "remove", "stat", "open", "post", "new"}
  BY <1>2, Zenon DEF Steps, Before, AtFile
<1>4. Shape(i)'
  BY <1>1, <1>3, Zenon DEF CallInv, Shape
<1>5. Certless(i)'
  BY <1>1, <1>3, Zenon DEF Certless
<1>6. Files(i)'
  <2>1. \A n \in Names, e \in Kinds : disk'[<<n, e>>].of = i => call'[i].name = n
    BY <1>1, Zenon DEF CallInv, Files
  <2>2. QED
    BY <1>1, <1>3, <2>1, Zenon DEF Files, Own
<1>7. Free(i)'
  BY <1>3, Zenon DEF Free, Cleared
<1>8. QED
  BY <1>4, <1>5, <1>6, <1>7, Zenon DEF CallInv

-----------------------------------------------------------------------------
(* The steps of call i. *)
Others(i) ==
  \A j \in Calls \ {i} : pc'[j] = pc[j] /\ call'[j] = call[j] /\ unseen'[j] = unseen[j]

LEMMA AnswerMoves ==
  ASSUME TypeOK, NEW i \in Calls, NEW p \in Answers, Answer(i, p)
  PROVE  /\ pc'[i] = p /\ call'[i] = Ended(i) /\ Others(i)
         /\ pc' \in [Calls -> Steps \cup Answers]
         /\ call' \in [Calls -> Call]
         /\ unseen' \in [Calls -> SUBSET Outputs]
<1>1. pc' = [pc EXCEPT ![i] = p] /\ call' = [call EXCEPT ![i] = Ended(i)]
      /\ unseen' = [unseen EXCEPT ![i] = {}]
  BY Zenon DEF Answer, Goto
<1>2. Ended(i) \in Call
  BY EndedFields, Zenon
<1>3. {} \in SUBSET Outputs
  BY Zenon
<1>4. QED
  BY <1>1, <1>2, <1>3, Zenon DEF TypeOK, Others

LEMMA FaultBound ==
  ASSUME TypeOK, NEW failed, Fault(failed)
  PROVE  faults' \in 0..MaxFaults
BY McpAssumption DEF TypeOK, Fault

(* A call that leaves the directory alone ends. *)
LEMMA AnswerStep ==
  ASSUME McpInv, NEW i \in Calls, pc[i] # "new", NEW p \in Answers, Answer(i, p),
         disk' = disk, faults' \in 0..MaxFaults,
         certs' \in [Calls -> {"none", "valid", "revoked"}],
         \A j \in Calls \ {i} : certs[j] = "none" => certs'[j] = "none",
         p \notin Telling \cup Unsettled \/ call[i].tool = "stamp" => certs'[i] = "none",
         p = "done" => call[i].tool \notin Saving,
         p = "cert failed" /\ call[i].tool = "issue" =>
           disk[<<call[i].name, "key">>] = Own(i)
  PROVE  McpInv'
<1>1. TypeOK /\ CallInv(i)
  BY Zenon DEF McpInv
<1>2. pc'[i] = p /\ call'[i] = Ended(i) /\ Others(i) /\ TypeOK'
  BY <1>1, AnswerMoves, Zenon DEF TypeOK
<1>3. CallInv(i)'
  <2>1. "issue" \in Saving /\ "sign" \in Saving /\ "stamp" \in Saving
    BY Zenon DEF Saving
  <2>2. call[i].tool = "issue" /\ disk[<<call[i].name, "cert">>].of = i =>
          disk[<<call[i].name, "key">>] = Own(i)
    BY <1>1, Zenon DEF CallInv, Files
  <2>3. QED
    BY <1>1, <1>2, <2>1, <2>2, Ending, Zenon
<1>4. ASSUME NEW j \in Calls \ {i}
      PROVE  CallInv(j)'
  BY <1>2, SameCall, Zenon DEF McpInv, Others
<1>5. QED
  BY <1>2, <1>3, <1>4, Zenon DEF McpInv

LEMMA RefuseStep ==
  ASSUME McpInv, NEW i \in Calls, Refuse(i)
  PROVE  McpInv'
<1>1. "refused" \in Answers /\ "refused" \notin {"done", "cert failed"}
  BY DEF Answers
<1>2. pc[i] # "new" /\ certs[i] = "none"
  BY Zenon DEF Refuse, McpInv, CallInv, Certless, Before
<1>3. QED
  BY <1>1, <1>2, AnswerStep, Zenon DEF Refuse, McpInv, TypeOK

LEMMA BeginStep ==
  ASSUME McpInv, NEW i \in Calls, NEW tool \in Tools, NEW x \in Servers \cup {None},
         NEW n \in Names \cup {None}, NEW t \in 0..MaxCalls, Begin(i, tool, x, n, t)
  PROVE  McpInv'
<1>1. TypeOK /\ CallInv(i) /\ pc[i] = "new" /\ certs[i] = "none"
  BY Zenon DEF McpInv, Begin, CallInv, Certless, Before
<1>2. PICK c : c = [NoCall EXCEPT !.tool = tool, !.server = x, !.name = n,
                      !.todo = Checks(tool), !.target = t]
  BY Zenon
<1>3. PICK q : q = IF Checks(tool) = << >> THEN "post" ELSE "stat"
  BY Zenon
<1>4. pc' = [pc EXCEPT ![i] = q] /\ call' = [call EXCEPT ![i] = c]
      /\ disk' = disk /\ certs' = certs /\ unseen' = unseen /\ faults' = faults
  BY <1>2, <1>3, Zenon DEF Begin, Goto
<1>5. c \in Call /\ c.tool = tool /\ c.name = n /\ c.todo = Checks(tool)
  <2>1. Checks(tool) \in Lists
    BY ToolsAre, Zenon
  <2>2. QED
    BY <1>2, <2>1, NoCallType, Zenon DEF Call
<1>6. q \in Steps /\ q \in {"stat", "post"}
  BY <1>3, Zenon DEF Steps
<1>7. pc'[i] = q /\ call'[i] = c /\ Others(i) /\ TypeOK'
  <2>1. pc'[i] = q /\ call'[i] = c /\ Others(i)
    BY <1>1, <1>4, Zenon DEF Others, TypeOK
  <2>2. TypeOK'
    BY <1>1, <1>4, <1>5, <1>6, Zenon DEF TypeOK
  <2>3. QED
    BY <2>1, <2>2, Zenon
<1>8. q = "stat" <=> tool \in Saving
  BY <1>3, ToolsAre, ToolLists, ListFacts, Zenon DEF Saving
<1>9. tool \in Saving => n \in Names
  BY Zenon DEF Begin, Saving
<1>10. CallInv(i)'
  <2>1. q \notin AtFile /\ q \in Before /\ q \notin {"new", "write", "remove", "open", "done", "cert failed"}
    BY <1>6, Zenon DEF AtFile, Before
  <2>2. Shape(i)'
    BY <1>5, <1>7, <1>8, <1>9, <2>1, Zenon DEF Shape
  <2>3. Certless(i)'
    BY <1>1, <1>4, Zenon DEF Certless
  <2>4. \A m \in Names, e \in Kinds : disk[<<m, e>>].of # i
    BY <1>1, Zenon DEF CallInv, Files, Before
  <2>5. tool = "issue" => disk[<<n, "cert">>].of # i
    BY <1>9, <2>4, Zenon DEF Saving, Kinds
  <2>6. Files(i)'
    BY <1>4, <1>5, <1>7, <2>1, <2>4, <2>5, Zenon DEF Files
  <2>7. \A e \in Kinds : ~Cleared(i, e)'
    <3>1. tool \in Saving => <<"key">> # Checks(tool)
      <4>1. <<"key">> # <<"cert">> /\ <<"key">> # <<"tsr">>
        BY ListFacts
      <4>2. QED
        BY <4>1, ToolLists, TheLists, Zenon DEF Saving
    <3>2. tool \notin Saving => \A e : ~On(e, Checks(tool))
      BY ToolsAre, ToolLists, ListKinds, Zenon DEF Saving
    <3>3. "stat" # "post"
      OBVIOUS
    <3>4. QED
      BY <1>5, <1>7, <1>8, <2>1, <3>1, <3>2, <3>3, Zenon DEF Cleared
  <2>8. Free(i)'
    BY <2>7, Zenon DEF Free
  <2>9. QED
    BY <2>2, <2>3, <2>6, <2>8, Zenon DEF CallInv
<1>11. ASSUME NEW j \in Calls \ {i}
       PROVE  CallInv(j)'
  BY <1>4, <1>7, SameCall, Zenon DEF McpInv, Others
<1>12. QED
  BY <1>7, <1>10, <1>11, Zenon DEF McpInv

LEMMA StatStep ==
  ASSUME McpInv, NEW i \in Calls, NEW failed \in BOOLEAN, Stat(i, failed)
  PROVE  McpInv'
<1>1. TypeOK /\ CallInv(i) /\ Shape(i) /\ pc[i] = "stat" /\ certs[i] = "none"
  BY Zenon DEF McpInv, Stat, CallInv, Certless, Before
<1>2. disk' = disk /\ certs' = certs /\ faults' \in 0..MaxFaults
  BY <1>1, FaultBound, Zenon DEF Stat
<1>3. CASE ~failed /\ Exists(Output(i))
  <2>1. "refused" \in Answers /\ "refused" \notin {"done", "cert failed"} /\ pc[i] # "new"
    BY <1>1 DEF Answers
  <2>2. Answer(i, "refused")
    BY <1>3, Zenon DEF Stat
  <2>3. QED
    BY <1>1, <1>2, <2>1, <2>2, AnswerStep, Zenon DEF TypeOK
<1>4. CASE failed \/ ~Exists(Output(i))
  <2>1. PICK q : q = IF Len(call[i].todo) = 1 THEN "post" ELSE "stat"
    BY Zenon
  <2>2. PICK c : c = [call[i] EXCEPT !.todo = Tail(call[i].todo)]
    BY Zenon
  <2>. DEFINE Clear(e) == Exists(<<call[i].name, e>>) => <<call[i].name, e>> \in unseen'[i]
  <2>3. pc' = [pc EXCEPT ![i] = q] /\ call' = [call EXCEPT ![i] = c]
        /\ unseen' = [unseen EXCEPT ![i] = IF failed THEN @ \cup {Output(i)} ELSE @]
    BY <1>1, <1>4, <2>1, <2>2 DEF Stat, Goto, TypeOK
  <2>4. c.tool = call[i].tool /\ c.name = call[i].name /\ c.todo = Tail(call[i].todo)
    BY <1>1, <2>2 DEF TypeOK, Call
  <2>5. call[i].name \in Names
        /\ \/ /\ call[i].tool = "issue" /\ c.todo = <<"key">> /\ q = "stat"
              /\ Clear("cert")
           \/ /\ call[i].tool = "issue" /\ c.todo = << >> /\ q = "post"
              /\ Clear("key") /\ Cleared(i, "cert")
           \/ /\ call[i].tool = "sign" /\ c.todo = << >> /\ q = "post"
              /\ Clear("cert")
           \/ /\ call[i].tool = "stamp" /\ c.todo = << >> /\ q = "post"
              /\ Clear("tsr")
    <3>1. Exists(Output(i)) => Output(i) \in unseen'[i]
      BY <1>1, <1>4, <2>3, Zenon DEF TypeOK
    <3>2. QED
      BY <1>1, <2>1, <2>4, <3>1, AtStat, Zenon DEF Cleared
  <2>6. c.todo \in Lists
    BY <2>5, ListsAre, Zenon DEF Kinds
  <2>7. c \in Call
    BY <1>1, <2>2, <2>4, <2>6, ZenonT(20) DEF TypeOK, Call
  <2>8. q \in Steps /\ q \in {"stat", "post"}
    BY <2>1, Zenon DEF Steps
  <2>9. pc'[i] = q /\ call'[i] = c /\ Others(i) /\ unseen[i] \subseteq unseen'[i]
    BY <1>1, <2>3, Zenon DEF TypeOK, Others
  <2>10. TypeOK'
    <3>1. Output(i) \in Outputs
      <4>1. \A n \in Names : <<n, "key">> \in Outputs /\ <<n, "cert">> \in Outputs
                            /\ <<n, "tsr">> \in Outputs
        BY DEF Outputs
      <4>2. QED
        BY <1>1, <4>1, AtStat, Zenon
    <3>2. unseen' \in [Calls -> SUBSET Outputs]
      BY <1>1, <2>3, <3>1, Zenon DEF TypeOK
    <3>3. QED
      BY <1>1, <1>2, <2>3, <2>7, <2>8, <3>2, Zenon DEF TypeOK
  <2>11. q \notin AtFile /\ q \in Before /\ q \notin {"new", "write", "remove", "open", "done", "cert failed"}
    BY <2>8, Zenon DEF AtFile, Before
  <2>12. Shape(i)'
    <3>1. call[i].tool \in Saving /\ call[i].tool \in Tools
      BY <2>5, ToolsAre, Zenon DEF Saving
    <3>2. q = "stat" => call[i].tool = "issue" /\ c.todo = <<"key">>
      <4>1. "stat" # "post"
        OBVIOUS
      <4>2. QED
        BY <2>5, <4>1, Zenon
    <3>3. QED
      BY <2>4, <2>5, <2>9, <2>11, <3>1, <3>2, Zenon DEF Shape
  <2>13. Certless(i)'
    BY <1>1, <1>2, Zenon DEF Certless
  <2>14. Files(i)'
    BY <1>1, <1>2, <2>4, <2>9, <2>11, Zenon DEF CallInv, Files, Own, Before
  <2>15. Free(i)'
    <3>. SUFFICES ASSUME NEW e \in Kinds, Cleared(i, e)', ~Clear(e)
                  PROVE  FALSE
      BY <1>2, <2>4, <2>9, Zenon DEF Free, Exists
    <3>1. \/ q = "stat" /\ e = "cert"
          \/ q = "post" /\ On(e, Checks(call[i].tool))
      BY <2>4, <2>9, <2>11, Zenon DEF Cleared
    <3>2. q = "post" /\ call[i].tool = "issue" /\ e = "cert"
      <4>1. "stat" # "post"
        OBVIOUS
      <4>2. CASE q = "stat"
        BY <2>5, <3>1, <4>1, <4>2, Zenon
      <4>3. CASE q = "post" /\ call[i].tool = "issue"
        <5>1. e \in {"cert", "key"}
          BY <3>1, <4>1, <4>3, ToolLists, ListKinds, Zenon
        <5>2. QED
          BY <2>5, <4>1, <4>3, <5>1, Zenon
      <4>4. CASE q = "post" /\ call[i].tool \in {"sign", "stamp"}
        <5>1. (call[i].tool = "sign" => e = "cert") /\ (call[i].tool = "stamp" => e = "tsr")
          BY <3>1, <4>1, <4>4, ToolLists, ListKinds, Zenon
        <5>2. QED
          BY <2>5, <4>4, <5>1, Zenon
      <4>5. QED
        BY <2>5, <4>2, <4>3, <4>4, Zenon
    <3>3. Cleared(i, "cert")
      <4>1. "stat" # "post"
        OBVIOUS
      <4>2. QED
        BY <2>5, <3>2, <4>1, Zenon
    <3>4. QED
      BY <1>1, <2>9, <3>2, <3>3, Zenon DEF CallInv, Free, Kinds
  <2>16. ASSUME NEW j \in Calls \ {i}
         PROVE  CallInv(j)'
    BY <1>2, <2>9, SameCall, Zenon DEF McpInv, Others
  <2>17. QED
    BY <2>10, <2>12, <2>13, <2>14, <2>15, <2>16, Zenon DEF McpInv, CallInv
<1>5. QED
  BY <1>3, <1>4, Zenon

-----------------------------------------------------------------------------
(* The answer to a request. *)
LEMMA ReceivedStep ==
  ASSUME McpInv, NEW i \in Calls, pc[i] = "post", call[i].tool \in Tools, Received(i, i),
         disk' = disk, faults' \in 0..MaxFaults,
         certs' \in [Calls -> {"none", "valid", "revoked"}],
         \A j \in Calls \ {i} : certs[j] = "none" => certs'[j] = "none",
         call[i].tool = "stamp" => certs'[i] = "none"
  PROVE  McpInv'
<1>1. TypeOK /\ CallInv(i) /\ pc[i] # "new"
  BY Zenon DEF McpInv
<1>2. CASE Saves(call[i].tool) = << >>
  <2>1. Answer(i, "done") /\ "done" \in Answers /\ "done" \in Telling /\ "done" # "cert failed"
    BY <1>2 DEF Received, Answers, Telling
  <2>2. call[i].tool \notin Saving
    BY <1>2, ToolLists, TheLists, Zenon DEF Saving
  <2>3. QED
    BY <1>1, <2>1, <2>2, AnswerStep, Zenon
<1>3. CASE Saves(call[i].tool) # << >>
  <2>1. PICK c : c = [call[i] EXCEPT !.data = i, !.todo = Saves(call[i].tool)]
    BY Zenon
  <2>2. pc' = [pc EXCEPT ![i] = "open"] /\ call' = [call EXCEPT ![i] = c] /\ unseen' = unseen
    BY <1>1, <1>3, <2>1, Zenon DEF Received, Goto, TypeOK
  <2>3. Saves(call[i].tool) \in Lists /\ i \in 0..(MaxCalls + 1)
    BY ToolsAre, McpAssumption DEF Calls
  <2>4. c.tool = call[i].tool /\ c.name = call[i].name /\ c.data = i
        /\ c.todo = Saves(call[i].tool) /\ c \in Call
    BY <1>1, <2>1, <2>3, ZenonT(40) DEF TypeOK, Call
  <2>5. pc'[i] = "open" /\ call'[i] = c /\ Others(i)
    BY <1>1, <2>2, Zenon DEF TypeOK, Others
  <2>6. TypeOK'
    BY <1>1, <2>2, <2>4, Zenon DEF TypeOK, Steps
  <2>7. call[i].tool \in Saving /\ call[i].name \in Names
    <3>1. call[i].tool \in Saving
      BY <1>3, ToolsAre, ToolLists, Zenon DEF Saving
    <3>2. QED
      BY <1>1, <3>1, Zenon DEF CallInv, Shape
  <2>8. Shape(i)'
    BY <2>4, <2>5, <2>7, Zenon DEF Shape
  <2>9. Certless(i)'
    <3>1. "open" \notin Before \cup (Answers \ (Telling \cup Unsettled))
      BY DEF Before, Answers, Telling, Unsettled
    <3>2. QED
      BY <2>4, <2>5, <3>1, Zenon DEF Certless
  <2>10. Files(i)'
    <3>1. \A n \in Names, e \in Kinds : disk[<<n, e>>].of # i
      BY <1>1, Zenon DEF CallInv, Files, Before
    <3>2. disk[<<call[i].name, "cert">>].of # i
      BY <2>7, <3>1, Zenon DEF Kinds
    <3>3. call[i].tool = "issue" => c.todo # <<"cert">>
      BY <2>4, ToolLists, TheLists, Zenon
    <3>4. QED
      BY <2>4, <2>5, <3>1, <3>2, <3>3, Zenon DEF Files
  <2>11. Free(i)'
    <3>. SUFFICES ASSUME NEW e \in Kinds, On(e, Saves(call[i].tool)), Exists(<<call[i].name, e>>)
                  PROVE  <<call[i].name, e>> \in unseen[i]
      <4>1. \A e \in Kinds : Cleared(i, e)' => On(e, Saves(call[i].tool))
        BY <2>4, <2>5, Zenon DEF Cleared
      <4>2. call'[i].name = call[i].name /\ unseen'[i] = unseen[i]
        BY <2>2, <2>4, <2>5, Zenon
      <4>3. \A o : Exists(o)' <=> Exists(o)
        BY Zenon DEF Exists
      <4>4. QED
        BY <4>1, <4>2, <4>3, Zenon DEF Free
    <3>1. On(e, Checks(call[i].tool))
      BY <2>7, ToolLists, ListKinds, Zenon DEF Saving
    <3>2. QED
      BY <1>1, <3>1, Zenon DEF CallInv, Free, Cleared
  <2>12. ASSUME NEW j \in Calls \ {i}
         PROVE  CallInv(j)'
    BY <2>5, SameCall, Zenon DEF McpInv, Others
  <2>13. QED
    BY <2>6, <2>8, <2>9, <2>10, <2>11, <2>12, Zenon DEF McpInv, CallInv
<1>4. QED
  BY <1>2, <1>3, Zenon

LEMMA AnswersAre ==
  /\ \A r \in {"rejected", "server", "connection"} :
       r \in Answers /\ r \notin {"done", "cert failed"}
  /\ "server" \in Unsettled /\ "connection" \in Unsettled
  /\ "mismatch" \in Answers /\ "mismatch" \notin {"done", "cert failed"}
  /\ "done" \in Answers /\ "done" \in Telling /\ "done" # "cert failed"
  /\ "died" \in Answers /\ "died" \in Unsettled /\ "died" \notin {"done", "cert failed"}
BY DEF Answers, Telling, Unsettled

LEMMA PostStep ==
  ASSUME McpInv, NEW i \in Calls, NEW r \in {"ok", "rejected", "server", "connection"}, Post(i, r)
  PROVE  McpInv'
<1>1. TypeOK /\ pc[i] = "post" /\ pc[i] # "new" /\ call[i].tool \in Issuing /\ disk' = disk
  BY Zenon DEF McpInv, Post
<1>2. call[i].tool \in Tools /\ call[i].tool # "stamp"
  BY <1>1, Zenon DEF Tools, Issuing
<1>3. faults' \in 0..MaxFaults
  BY <1>1, FaultBound, Zenon DEF Post
<1>4. PICK left \in Effects(r) : certs' = [certs EXCEPT ![i] = left]
  BY Zenon DEF Post
<1>5. left \in {"none", "valid", "revoked"} /\ (r = "rejected" => left = "none")
  BY DEF Effects
<1>6. /\ certs' \in [Calls -> {"none", "valid", "revoked"}] /\ certs'[i] = left
      /\ \A j \in Calls \ {i} : certs'[j] = certs[j]
  BY <1>1, <1>4, <1>5, Zenon DEF TypeOK
<1>7. CASE r = "ok"
  <2>1. Received(i, i)
    BY <1>7, Zenon DEF Post
  <2>2. QED
    BY <1>1, <1>2, <1>3, <1>6, <2>1, ReceivedStep, Zenon
<1>8. CASE r # "ok"
  <2>1. Answer(i, r)
    BY <1>8, Zenon DEF Post
  <2>2. r \in Answers /\ r \notin {"done", "cert failed"}
    BY <1>8, AnswersAre, Zenon
  <2>3. r \notin Telling \cup Unsettled => certs'[i] = "none"
    BY <1>5, <1>6, <1>8, AnswersAre, Zenon
  <2>4. QED
    BY <1>1, <1>2, <1>3, <1>6, <2>1, <2>2, <2>3, AnswerStep, Zenon
<1>9. QED
  BY <1>7, <1>8, Zenon

LEMMA PostRevokeStep ==
  ASSUME McpInv, NEW i \in Calls, NEW r \in {"ok", "rejected", "server", "connection"},
         PostRevoke(i, r)
  PROVE  McpInv'
<1>1. TypeOK /\ CallInv(i) /\ pc[i] = "post" /\ pc[i] # "new" /\ call[i].tool = "revoke"
      /\ disk' = disk
  BY Zenon DEF McpInv, PostRevoke
<1>2. faults' \in 0..MaxFaults
  BY <1>1, FaultBound, Zenon DEF PostRevoke
<1>3. certs[i] = "none"
  BY <1>1, Zenon DEF CallInv, Certless, Before
<1>4. certs' = certs \/ (certs[call[i].target] = "valid"
                         /\ certs' = [certs EXCEPT ![call[i].target] = "revoked"])
  BY Zenon DEF PostRevoke
<1>5. /\ certs' \in [Calls -> {"none", "valid", "revoked"}]
      /\ \A j \in Calls : certs[j] = "none" => certs'[j] = "none"
  BY <1>1, <1>4 DEF TypeOK
<1>6. PICK p : p = IF r = "ok" THEN "done" ELSE r
  BY Zenon
<1>7. Answer(i, p)
  BY <1>6, Zenon DEF PostRevoke
<1>8. p \in Answers /\ p # "cert failed" /\ call[i].tool \notin Saving
  BY <1>1, <1>6, AnswersAre, Zenon DEF Saving
<1>9. QED
  BY <1>1, <1>2, <1>3, <1>5, <1>7, <1>8, AnswerStep, Zenon

LEMMA PostStampStep ==
  ASSUME McpInv, NEW i \in Calls, NEW r \in {"ok", "rejected", "server", "connection"},
         NEW own \in BOOLEAN, PostStamp(i, r, own)
  PROVE  McpInv'
<1>1. TypeOK /\ CallInv(i) /\ pc[i] = "post" /\ pc[i] # "new" /\ call[i].tool = "stamp"
      /\ disk' = disk /\ certs' = certs /\ call[i].tool \in Tools
  BY ToolsAre, Zenon DEF McpInv, PostStamp
<1>2. faults' \in 0..MaxFaults
  BY <1>1, FaultBound, Zenon DEF PostStamp
<1>3. certs[i] = "none" /\ certs' \in [Calls -> {"none", "valid", "revoked"}]
  BY <1>1, Zenon DEF CallInv, Certless, Before, TypeOK
<1>4. CASE r = "ok" /\ own
  <2>1. Received(i, i)
    BY <1>4, Zenon DEF PostStamp
  <2>2. QED
    BY <1>1, <1>2, <1>3, <2>1, ReceivedStep, Zenon
<1>5. CASE ~(r = "ok" /\ own)
  <2>1. PICK p : p = IF r = "ok" THEN "mismatch" ELSE r
    BY Zenon
  <2>2. Answer(i, p)
    BY <1>5, <2>1, Zenon DEF PostStamp
  <2>3. p \in Answers /\ p \notin {"done", "cert failed"}
    BY <2>1, AnswersAre, Zenon
  <2>4. QED
    BY <1>1, <1>2, <1>3, <2>2, <2>3, AnswerStep, Zenon
<1>6. QED
  BY <1>4, <1>5, Zenon

-----------------------------------------------------------------------------
(* The files. *)
LEMMA Pairs == \A n, m, d, e : <<n, d>> = <<m, e>> => n = m /\ d = e
OBVIOUS

(* The files of a call with a key of its own, when a step changes only the *)
(* one at hand.                                                            *)
LEMMA OwnKept ==
  ASSUME NEW i \in Calls, CallInv(i), pc[i] \in AtFile, call[i].tool = "issue",
         \A u \in Outputs : u # Output(i) => disk'[u] = disk[u]
  PROVE  IF call[i].todo = <<"cert">>
         THEN /\ Output(i) = <<call[i].name, "cert">>
              /\ disk'[<<call[i].name, "key">>] = Own(i)
         ELSE /\ Output(i) = <<call[i].name, "key">> /\ On("cert", call[i].todo)
              /\ disk'[<<call[i].name, "cert">>] = disk[<<call[i].name, "cert">>]
              /\ disk[<<call[i].name, "cert">>].of # i
<1>1. PICK k : k = <<call[i].name, "key">>
  BY Zenon
<1>2. PICK c : c = <<call[i].name, "cert">>
  BY Zenon
<1>3. call[i].name \in Names
  BY Zenon DEF CallInv, Shape, Saving
<1>4. k \in Outputs /\ c \in Outputs /\ k # c
  BY <1>1, <1>2, <1>3 DEF Outputs
<1>5. IF call[i].todo = <<"cert">> THEN disk[k] = Own(i) ELSE disk[c].of # i
  BY <1>1, <1>2, Zenon DEF CallInv, Files
<1>6. IF call[i].todo = <<"cert">> THEN Output(i) = c ELSE Output(i) = k /\ On("cert", call[i].todo)
  <2>1. call[i].todo \in {<<"key", "cert">>, <<"cert">>}
    BY ToolLists, Zenon DEF CallInv, Shape
  <2>2. "cert" \in Kinds
    BY Zenon DEF Kinds
  <2>3. QED
    BY <1>1, <1>2, <2>1, <2>2, TheLists, ListKinds, Zenon DEF Output
<1>7. CASE call[i].todo = <<"cert">>
  BY <1>1, <1>2, <1>4, <1>5, <1>6, <1>7, Zenon
<1>8. CASE call[i].todo # <<"cert">>
  BY <1>1, <1>2, <1>4, <1>5, <1>6, <1>8, Zenon
<1>9. QED
  BY <1>7, <1>8, Zenon

LEMMA SaveFails ==
  ASSUME NEW i \in Calls, Shape(i), pc[i] \in AtFile, SaveFailed(i)
  PROVE  \E p \in Answers :
           /\ Answer(i, p) /\ p # "done"
           /\ \/ p \in Telling /\ (p = "cert failed" => call[i].todo = <<"cert">>)
              \/ call[i].tool = "stamp" /\ p # "cert failed"
<1>1. /\ {"key failed", "cert failed", "token failed"} \subseteq Answers
      /\ "key failed" \in Telling /\ "cert failed" \in Telling
      /\ "key failed" \notin {"done", "cert failed"} /\ "cert failed" # "done"
      /\ "token failed" \notin {"done", "cert failed"}
  BY DEF Answers, Telling
<1>2. PICK h : h = Head(call[i].todo)
  BY Zenon
<1>3. Answer(i, CASE h = "key" -> "key failed" [] h = "cert" -> "cert failed"
                  [] OTHER -> "token failed")
  BY <1>2, Zenon DEF SaveFailed
<1>4. \/ h = "key"
      \/ h = "cert" /\ call[i].todo = <<"cert">>
      \/ h = "tsr" /\ call[i].tool = "stamp"
  BY <1>2, FileAtHand, Zenon
<1>5. CASE h = "key"
  BY <1>1, <1>3, <1>5, Zenon
<1>6. CASE h = "cert" /\ call[i].todo = <<"cert">>
  BY <1>1, <1>3, <1>6
<1>7. CASE h = "tsr" /\ call[i].tool = "stamp"
  BY <1>1, <1>3, <1>7
<1>8. QED
  BY <1>4, <1>5, <1>6, <1>7, Zenon

LEMMA OpenFails ==
  ASSUME McpInv, NEW i \in Calls, pc[i] = "open", SaveFailed(i), disk' = disk, certs' = certs,
         faults' \in 0..MaxFaults
  PROVE  McpInv'
<1>1. TypeOK /\ CallInv(i) /\ pc[i] \in AtFile /\ pc[i] # "new"
  BY Zenon DEF McpInv, AtFile
<1>2. PICK p \in Answers :
        /\ Answer(i, p) /\ p # "done"
        /\ \/ p \in Telling /\ (p = "cert failed" => call[i].todo = <<"cert">>)
           \/ call[i].tool = "stamp" /\ p # "cert failed"
  BY <1>1, SaveFails, Zenon DEF CallInv
<1>3. p \notin Telling \cup Unsettled \/ call[i].tool = "stamp" => certs'[i] = "none"
  BY <1>1, <1>2, Zenon DEF CallInv, Certless
<1>4. p = "cert failed" /\ call[i].tool = "issue" => disk[<<call[i].name, "key">>] = Own(i)
  BY <1>1, <1>2, Zenon DEF CallInv, Files
<1>5. certs' \in [Calls -> {"none", "valid", "revoked"}]
  BY <1>1, Zenon DEF TypeOK
<1>6. QED
  BY <1>1, <1>2, <1>3, <1>4, <1>5, AnswerStep, Zenon

LEMMA OpenStep ==
  ASSUME McpInv, NEW i \in Calls, NEW failed \in BOOLEAN, Open(i, failed)
  PROVE  McpInv'
<1>1. /\ TypeOK /\ CallInv(i) /\ Shape(i) /\ pc[i] = "open" /\ pc[i] \in AtFile
      /\ certs' = certs
  BY Zenon DEF McpInv, Open, CallInv, AtFile
<1>2. faults' \in 0..MaxFaults
  BY <1>1, FaultBound, Zenon DEF Open
<1>3. CASE failed \/ Exists(Output(i))
  BY <1>1, <1>2, <1>3, OpenFails, Zenon DEF Open
<1>4. CASE ~(failed \/ Exists(Output(i)))
  <2>1. PICK o : o = Output(i)
    BY Zenon
  <2>2. PICK f : f = [of |-> i, whole |-> FALSE]
    BY Zenon
  <2>3. o \in Outputs /\ call[i].name \in Names /\ call[i].data = i
        /\ o = <<call[i].name, Head(call[i].todo)>> /\ disk[o] = NoFile
    BY <1>1, <1>4, <2>1, FileAtHand, Zenon DEF Exists
  <2>4. disk' = [disk EXCEPT ![o] = f] /\ pc' = [pc EXCEPT ![i] = "write"] /\ call' = call
    BY <1>4, <2>1, <2>2, <2>3, Zenon DEF Open, Goto
  <2>5. unseen' = [j \in Calls |-> IF Running(j) THEN unseen[j] \cup {o} ELSE unseen[j]]
    BY <1>4, <2>1, Zenon DEF Open
  <2>6. f \in File /\ f.of = i /\ f # NoFile /\ NoFile.of = 0 /\ i # 0
    BY <2>2, McpAssumption DEF File, NoFile, Calls
  <2>7. disk'[o] = f /\ \A u \in Outputs : u # o => disk'[u] = disk[u]
    BY <1>1, <2>3, <2>4, Zenon DEF TypeOK
  <2>8. \A j \in Calls : /\ unseen[j] \subseteq unseen'[j]
                         /\ pc[j] \in {"stat", "post", "open", "write"} => o \in unseen'[j]
    <3>1. \A q \in {"stat", "post", "open", "write"} : q \in Steps \ {"new"}
      BY DEF Steps
    <3>2. QED
      BY <2>5, <3>1, Zenon DEF Running
  <2>9. TypeOK'
    <3>1. "write" \in Steps
      BY Zenon DEF Steps
    <3>2. unseen' \in [Calls -> SUBSET Outputs]
      BY <1>1, <2>3, <2>5, Zenon DEF TypeOK
    <3>3. QED
      BY <1>1, <1>2, <2>3, <2>4, <2>6, <3>1, <3>2, Zenon DEF TypeOK
  <2>10. pc'[i] = "write" /\ \A j \in Calls \ {i} : pc'[j] = pc[j]
    BY <1>1, <2>4, Zenon DEF TypeOK
  <2>11. ASSUME NEW j \in Calls \ {i}
         PROVE  CallInv(j)'
    <3>1. j \in Calls /\ i # j /\ CallInv(j)
      BY Zenon DEF McpInv
    <3>2. disk[o].of \in {0, i} /\ disk'[o].of \in {0, i}
      BY <2>3, <2>6, <2>7, Zenon
    <3>3. QED
      BY <1>1, <2>3, <2>4, <2>7, <2>8, <2>10, <3>1, <3>2, OtherFile, Zenon
  <2>12. "write" \in AtFile /\ "write" \notin Before
         /\ "write" \notin {"new", "stat", "post", "open", "done", "cert failed"}
         /\ "write" \notin Before \cup (Answers \ (Telling \cup Unsettled))
    BY DEF AtFile, Before, Answers, Telling, Unsettled
  <2>13. Shape(i)'
    BY <1>1, <2>4, <2>10, <2>12, Zenon DEF Shape
  <2>14. Certless(i)'
    BY <1>1, <2>4, <2>10, <2>12, Zenon DEF CallInv, Certless
  <2>15. \A n \in Names, e \in Kinds : <<n, e>> \in Outputs
    BY DEF Outputs, Kinds
  <2>16. call[i].tool = "issue" =>
           IF call[i].todo = <<"cert">>
           THEN disk'[<<call[i].name, "key">>] = Own(i)
           ELSE /\ disk'[<<call[i].name, "cert">>].of # i /\ On("cert", call[i].todo)
                /\ disk'[<<call[i].name, "cert">>] = disk[<<call[i].name, "cert">>]
    BY <1>1, <2>1, <2>7, OwnKept, Zenon
  <2>17. Files(i)'
    <3>1. ASSUME NEW n \in Names, NEW e \in Kinds, disk'[<<n, e>>].of = i
          PROVE  call[i].name = n
      <4>1. CASE <<n, e>> = o
        BY <2>3, <4>1
      <4>2. CASE <<n, e>> # o
        BY <1>1, <2>7, <2>15, <3>1, <4>2, Zenon DEF CallInv, Files
      <4>3. QED
        BY <4>1, <4>2, Zenon
    <3>2. Output(i)' = o
      BY <2>1, <2>4, Zenon DEF Output
    <3>3. QED
      BY <2>2, <2>4, <2>7, <2>10, <2>12, <2>16, <3>1, <3>2, Zenon DEF Files, Own
  <2>18. Free(i)'
    <3>1. PICK c : c = <<call[i].name, "cert">>
      BY Zenon
    <3>. SUFFICES ASSUME call[i].tool = "issue", call[i].todo # <<"cert">>, Exists(c)'
                  PROVE  c \in unseen'[i]
      BY <2>4, <2>10, <2>12, <3>1, Zenon DEF Free, Cleared
    <3>2. Exists(c) /\ On("cert", call[i].todo)
      BY <2>16, <3>1, Zenon DEF Exists
    <3>3. c \in unseen[i]
      BY <1>1, <3>1, <3>2, Zenon DEF CallInv, Free, Cleared, Kinds
    <3>4. QED
      BY <2>8, <3>3, Zenon
  <2>19. QED
    BY <2>9, <2>11, <2>13, <2>14, <2>17, <2>18, Zenon DEF McpInv, CallInv
<1>5. QED
  BY <1>3, <1>4, Zenon

(* Writing the file at hand, or giving it up, leaves it the call's own or  *)
(* removes it.                                                             *)
LEMMA OthersKept ==
  ASSUME McpInv, NEW i \in Calls, pc[i] \in {"write", "remove"}, certs' = certs,
         \A u \in Outputs : u # Output(i) => disk'[u] = disk[u],
         disk'[Output(i)].of \in {0, i},
         \A j \in Calls \ {i} : pc'[j] = pc[j] /\ call'[j] = call[j] /\ unseen'[j] = unseen[j]
  PROVE  \A j \in Calls \ {i} : CallInv(j)'
<1>1. CallInv(i) /\ pc[i] \in AtFile
  BY Zenon DEF McpInv, AtFile
<1>2. PICK o : o = Output(i)
  BY Zenon
<1>3. o \in Outputs
  BY <1>1, <1>2, FileAtHand, Zenon DEF CallInv
<1>4. disk[o] = [of |-> i, whole |-> FALSE]
  BY <1>1, <1>2, Zenon DEF CallInv, Files
<1>5. disk[o].of = i /\ disk[o] # NoFile
  BY <1>4, McpAssumption DEF NoFile, Calls
<1>6. ASSUME NEW j \in Calls \ {i}
      PROVE  CallInv(j)'
  <2>1. j \in Calls /\ i # j /\ CallInv(j)
    BY Zenon DEF McpInv
  <2>2. QED
    BY <1>2, <1>3, <1>5, <1>6, <2>1, OtherFile, ZenonT(30)
<1>7. QED
  BY <1>6, Zenon

LEMMA WriteStep ==
  ASSUME McpInv, NEW i \in Calls, NEW failed \in BOOLEAN, Write(i, failed)
  PROVE  McpInv'
<1>1. /\ TypeOK /\ CallInv(i) /\ Shape(i) /\ pc[i] = "write" /\ pc[i] \in AtFile
      /\ certs' = certs /\ pc[i] \in {"write", "remove"} /\ pc[i] # "new"
  BY Zenon DEF McpInv, Write, CallInv, AtFile
<1>2. faults' \in 0..MaxFaults
  BY <1>1, FaultBound, Zenon DEF Write
<1>3. CASE failed
  <2>1. pc' = [pc EXCEPT ![i] = "remove"] /\ disk' = disk /\ call' = call /\ unseen' = unseen
    BY <1>3, Zenon DEF Write, Goto
  <2>2. pc'[i] = "remove" /\ \A j \in Calls \ {i} : pc'[j] = pc[j]
    BY <1>1, <2>1, Zenon DEF TypeOK
  <2>3. TypeOK'
    BY <1>1, <1>2, <2>1, Zenon DEF TypeOK, Steps
  <2>4. "remove" \in AtFile /\ "remove" \notin Before
        /\ "remove" \notin {"new", "stat", "post", "open", "write", "done", "cert failed"}
        /\ "remove" \notin Before \cup (Answers \ (Telling \cup Unsettled))
    BY DEF AtFile, Before, Answers, Telling, Unsettled
  <2>5. Shape(i)' /\ Certless(i)'
    BY <1>1, <2>1, <2>2, <2>4, Zenon DEF CallInv, Shape, Certless
  <2>6. Files(i)'
    BY <1>1, <2>1, <2>2, <2>4, Zenon DEF CallInv, Files, Own, Output
  <2>7. Free(i)'
    BY <2>2, <2>4, Zenon DEF Free, Cleared
  <2>8. ASSUME NEW j \in Calls \ {i}
        PROVE  CallInv(j)'
    BY <1>1, <2>1, <2>2, SameCall, Zenon DEF McpInv
  <2>9. QED
    BY <2>3, <2>5, <2>6, <2>7, <2>8, Zenon DEF McpInv, CallInv
<1>4. CASE ~failed
  <2>1. PICK o : o = Output(i)
    BY Zenon
  <2>2. o \in Outputs /\ o = <<call[i].name, Head(call[i].todo)>> /\ call[i].name \in Names
    BY <1>1, <2>1, FileAtHand, Zenon
  <2>3. disk[o] = [of |-> i, whole |-> FALSE]
    BY <1>1, <2>1, Zenon DEF CallInv, Files
  <2>4. disk' = [disk EXCEPT ![o] = Own(i)]
    <3>1. disk' = [disk EXCEPT ![o].whole = TRUE]
      BY <1>4, <2>1, Zenon DEF Write
    <3>2. disk' = [disk EXCEPT ![o] = [disk[o] EXCEPT !.whole = TRUE]]
      BY <1>1, <2>2, <3>1, Zenon DEF TypeOK
    <3>3. [disk[o] EXCEPT !.whole = TRUE] = Own(i)
      <4>1. PICK f : f = [disk[o] EXCEPT !.whole = TRUE]
        BY Zenon
      <4>2. disk[o] \in File /\ disk[o].of = i
        BY <1>1, <2>2, <2>3 DEF TypeOK
      <4>3. f \in File /\ f.of = i /\ f.whole = TRUE
        BY <4>1, <4>2, Zenon DEF File
      <4>4. f = [of |-> f.of, whole |-> f.whole]
        BY <4>3 DEF File
      <4>5. QED
        BY <4>1, <4>3, <4>4, Zenon DEF Own
    <3>4. QED
      BY <3>2, <3>3, Zenon
  <2>5. Own(i) \in File /\ Own(i).of = i
    BY McpAssumption DEF Own, File, Calls
  <2>6. disk'[o] = Own(i) /\ (\A u \in Outputs : u # o => disk'[u] = disk[u])
        /\ disk' \in [Outputs -> File]
    BY <1>1, <2>2, <2>4, <2>5, Zenon DEF TypeOK
  <2>7. \A n \in Names, e \in Kinds : disk'[<<n, e>>].of = i => disk[<<n, e>>].of = i
    <3>1. \A n \in Names, e \in Kinds : <<n, e>> \in Outputs
      BY DEF Outputs, Kinds
    <3>2. disk[o].of = i
      BY <2>3
    <3>3. QED
      BY <2>6, <3>1, <3>2, Zenon
  <2>8. call[i].tool = "issue" =>
          IF call[i].todo = <<"cert">>
          THEN o = <<call[i].name, "cert">> /\ disk'[<<call[i].name, "key">>] = Own(i)
          ELSE /\ o = <<call[i].name, "key">> /\ disk[<<call[i].name, "cert">>].of # i
               /\ disk'[<<call[i].name, "cert">>] = disk[<<call[i].name, "cert">>]
    BY <1>1, <2>1, <2>6, OwnKept, Zenon
  <2>9. CASE Len(call[i].todo) = 1
    <3>1. Answer(i, "done")
      BY <1>4, <2>9, Zenon DEF Write
    <3>2. pc'[i] = "done" /\ call'[i] = Ended(i) /\ Others(i)
          /\ pc' \in [Calls -> Steps \cup Answers] /\ call' \in [Calls -> Call]
          /\ unseen' \in [Calls -> SUBSET Outputs]
      BY <1>1, <3>1, AnswersAre, AnswerMoves, Zenon
    <3>3. call[i].tool = "issue" => call[i].todo = <<"cert">>
      BY <1>1, <2>9, FileAtHand, Zenon
    <3>4. /\ call[i].tool = "sign" => o = <<call[i].name, "cert">>
          /\ call[i].tool = "stamp" => o = <<call[i].name, "tsr">>
      BY <1>1, <2>2, FileAtHand, Zenon
    <3>5. call[i].tool = "stamp" => certs'[i] = "none"
      BY <1>1, Zenon DEF CallInv, Certless
    <3>6. /\ call[i].tool = "issue" => disk'[<<call[i].name, "key">>] = Own(i)
                                       /\ disk'[<<call[i].name, "cert">>] = Own(i)
          /\ call[i].tool = "sign" => disk'[<<call[i].name, "cert">>] = Own(i)
          /\ call[i].tool = "stamp" => disk'[<<call[i].name, "tsr">>] = Own(i)
      BY <2>6, <2>8, <3>3, <3>4, Zenon
    <3>7. CallInv(i)'
      BY <1>1, <2>7, <3>2, <3>5, <3>6, AnswersAre, Ending, Zenon
    <3>8. TypeOK'
      BY <1>1, <1>2, <2>6, <3>2, Zenon DEF TypeOK
    <3>9. \A j \in Calls \ {i} : CallInv(j)'
      BY <1>1, <2>1, <2>5, <2>6, <3>2, OthersKept, Zenon DEF Others
    <3>10. QED
      BY <3>7, <3>8, <3>9, Zenon DEF McpInv
  <2>10. CASE Len(call[i].todo) # 1
    <3>1. call[i].tool = "issue" /\ call[i].todo # <<"cert">> /\ Tail(call[i].todo) = <<"cert">>
      BY <1>1, <2>10, FileAtHand, Zenon
    <3>2. PICK c : c = [call[i] EXCEPT !.todo = <<"cert">>]
      BY Zenon
    <3>3. pc' = [pc EXCEPT ![i] = "open"] /\ call' = [call EXCEPT ![i] = c] /\ unseen' = unseen
      <4>1. call' = [call EXCEPT ![i].todo = Tail(@)]
        BY <1>4, <2>10, Zenon DEF Write
      <4>2. call' = [call EXCEPT ![i] = c]
        BY <1>1, <3>1, <3>2, <4>1, Zenon DEF TypeOK
      <4>3. QED
        BY <1>4, <2>10, <4>2, Zenon DEF Write, Goto
    <3>4. c.tool = "issue" /\ c.name = call[i].name /\ c.data = i /\ c.todo = <<"cert">> /\ c \in Call
      <4>1. call[i] \in Call /\ call[i].data = i
        BY <1>1, FileAtHand, Zenon DEF TypeOK
      <4>2. <<"cert">> \in Lists
        BY ListsAre, Zenon DEF Kinds
      <4>3. QED
        BY <3>1, <3>2, <4>1, <4>2, ZenonT(30) DEF Call
    <3>5. pc'[i] = "open" /\ call'[i] = c /\ Others(i)
      BY <1>1, <3>3, Zenon DEF TypeOK, Others
    <3>6. TypeOK'
      BY <1>1, <1>2, <2>6, <3>3, <3>4, Zenon DEF TypeOK, Steps
    <3>7. "open" \in AtFile /\ "open" \notin Before
          /\ "open" \notin {"new", "stat", "post", "write", "remove", "done", "cert failed"}
          /\ "open" \notin Before \cup (Answers \ (Telling \cup Unsettled))
      BY DEF AtFile, Before, Answers, Telling, Unsettled
    <3>8. Shape(i)'
      BY <2>2, <3>4, <3>5, <3>7, ToolsAre, Zenon DEF Shape, Saving
    <3>9. Certless(i)'
      <4>1. "issue" # "stamp"
        OBVIOUS
      <4>2. QED
        BY <3>4, <3>5, <3>7, <4>1, Zenon DEF Certless
    <3>10. Files(i)'
      <4>1. \A n \in Names, e \in Kinds : disk'[<<n, e>>].of = i => call'[i].name = n
        BY <1>1, <2>7, <3>4, <3>5, Zenon DEF CallInv, Files
      <4>2. disk'[<<call[i].name, "key">>] = Own(i)
        BY <2>6, <2>8, <3>1, Zenon
      <4>3. QED
        BY <3>4, <3>5, <3>7, <4>1, <4>2, Zenon DEF Files, Own
    <3>11. Free(i)'
      <4>1. PICK u : u = <<call[i].name, "cert">>
        BY Zenon
      <4>2. \A e \in Kinds : Cleared(i, e)' => e = "cert"
        <5>1. \A e : Cleared(i, e)' => On(e, c.todo)
          BY <3>5, <3>7, Zenon DEF Cleared
        <5>2. QED
          BY <3>4, <5>1, ListKinds, Zenon
      <4>3. Exists(u)' => Exists(u)
        BY <2>8, <3>1, <4>1, Zenon DEF Exists
      <4>4. Exists(u) => u \in unseen'[i]
        BY <1>1, <3>1, <3>3, <4>1, Zenon DEF CallInv, Free, Cleared, Kinds
      <4>5. QED
        BY <3>4, <3>5, <4>1, <4>2, <4>3, <4>4, Zenon DEF Free
    <3>12. \A j \in Calls \ {i} : CallInv(j)'
      BY <1>1, <2>1, <2>5, <2>6, <3>5, OthersKept, Zenon DEF Others
    <3>13. QED
      BY <3>6, <3>8, <3>9, <3>10, <3>11, <3>12, Zenon DEF McpInv, CallInv
  <2>11. QED
    BY <2>9, <2>10, Zenon
<1>5. QED
  BY <1>3, <1>4, Zenon

LEMMA RemoveStep ==
  ASSUME McpInv, NEW i \in Calls, NEW failed \in BOOLEAN, Remove(i, failed)
  PROVE  McpInv'
<1>1. /\ TypeOK /\ CallInv(i) /\ Shape(i) /\ pc[i] \in AtFile /\ SaveFailed(i)
      /\ certs' = certs /\ pc[i] \in {"write", "remove"} /\ pc[i] # "new"
  BY Zenon DEF McpInv, Remove, CallInv, AtFile
<1>2. faults' \in 0..MaxFaults
  BY <1>1, FaultBound, Zenon DEF Remove
<1>3. PICK o : o = Output(i)
  BY Zenon
<1>4. o \in Outputs
  BY <1>1, <1>3, FileAtHand, Zenon
<1>5. disk' = disk \/ disk' = [disk EXCEPT ![o] = NoFile]
  BY <1>3, Zenon DEF Remove
<1>6. disk[o] = [of |-> i, whole |-> FALSE]
  BY <1>1, <1>3, Zenon DEF CallInv, Files
<1>7. NoFile \in File /\ NoFile.of = 0 /\ i # 0 /\ disk[o].of = i
  BY <1>6, McpAssumption DEF NoFile, File, Calls
<1>8. disk'[o].of \in {0, i} /\ (\A u \in Outputs : u # o => disk'[u] = disk[u])
      /\ disk' \in [Outputs -> File]
  BY <1>1, <1>4, <1>5, <1>7, Zenon DEF TypeOK
<1>9. \A n \in Names, e \in Kinds : disk'[<<n, e>>].of = i => disk[<<n, e>>].of = i
  <2>1. \A n \in Names, e \in Kinds : <<n, e>> \in Outputs
    BY DEF Outputs, Kinds
  <2>2. QED
    BY <1>7, <1>8, <2>1, Zenon
<1>10. PICK p \in Answers :
         /\ Answer(i, p) /\ p # "done"
         /\ \/ p \in Telling /\ (p = "cert failed" => call[i].todo = <<"cert">>)
            \/ call[i].tool = "stamp" /\ p # "cert failed"
  BY <1>1, SaveFails, Zenon
<1>11. pc'[i] = p /\ call'[i] = Ended(i) /\ Others(i)
       /\ pc' \in [Calls -> Steps \cup Answers] /\ call' \in [Calls -> Call]
       /\ unseen' \in [Calls -> SUBSET Outputs]
  BY <1>1, <1>10, AnswerMoves, Zenon
<1>12. p \notin Telling \cup Unsettled \/ call[i].tool = "stamp" => certs'[i] = "none"
  BY <1>1, <1>10, Zenon DEF CallInv, Certless
<1>13. /\ p = "cert failed" /\ call[i].tool = "issue" => disk'[<<call[i].name, "key">>] = Own(i)
       /\ call[i].tool = "issue" /\ disk'[<<call[i].name, "cert">>].of = i =>
            disk'[<<call[i].name, "key">>] = Own(i)
  <2>1. call[i].tool = "issue" =>
          IF call[i].todo = <<"cert">> THEN disk'[<<call[i].name, "key">>] = Own(i)
          ELSE disk'[<<call[i].name, "cert">>].of # i
    BY <1>1, <1>3, <1>8, OwnKept, Zenon
  <2>2. "issue" # "stamp"
    OBVIOUS
  <2>3. QED
    BY <1>10, <2>1, <2>2, Zenon
<1>14. CallInv(i)'
  BY <1>1, <1>9, <1>10, <1>11, <1>12, <1>13, Ending, ZenonT(30)
<1>15. TypeOK'
  BY <1>1, <1>2, <1>8, <1>11, Zenon DEF TypeOK
<1>16. \A j \in Calls \ {i} : CallInv(j)'
  BY <1>1, <1>3, <1>8, <1>11, OthersKept, Zenon DEF Others
<1>17. QED
  BY <1>14, <1>15, <1>16, Zenon DEF McpInv

LEMMA CrashStep ==
  ASSUME McpInv, NEW x \in Servers, Crash(x)
  PROVE  McpInv'
<1>. DEFINE dead(i) == Running(i) /\ call[i].server = x
<1>1. /\ pc' = [i \in Calls |-> IF dead(i) THEN "died" ELSE pc[i]]
      /\ call' = [i \in Calls |-> IF dead(i) THEN Ended(i) ELSE call[i]]
      /\ unseen' = [i \in Calls |-> IF dead(i) THEN {} ELSE unseen[i]]
      /\ disk' = disk /\ certs' = certs /\ TypeOK
  BY Zenon DEF Crash, McpInv
<1>2. faults' \in 0..MaxFaults
  BY <1>1, FaultBound, Zenon DEF Crash
<1>3. TypeOK'
  <2>1. \A i \in Calls : Ended(i) \in Call
    BY <1>1, EndedFields, Zenon
  <2>2. pc' \in [Calls -> Steps \cup Answers]
    BY <1>1, AnswersAre, Zenon DEF TypeOK
  <2>3. call' \in [Calls -> Call]
    BY <1>1, <2>1, Zenon DEF TypeOK
  <2>4. unseen' \in [Calls -> SUBSET Outputs]
    BY <1>1, Zenon DEF TypeOK
  <2>5. QED
    BY <1>1, <1>2, <2>2, <2>3, <2>4, Zenon DEF TypeOK
<1>4. ASSUME NEW i \in Calls
      PROVE  CallInv(i)'
  <2>1. CallInv(i)
    BY Zenon DEF McpInv
  <2>2. CASE ~dead(i)
    <3>1. pc'[i] = pc[i] /\ call'[i] = call[i] /\ unseen'[i] = unseen[i]
      BY <1>1, <2>2, Zenon
    <3>2. QED
      BY <1>1, <2>1, <3>1, SameCall, Zenon
  <2>3. CASE dead(i)
    <3>1. pc'[i] = "died" /\ call'[i] = Ended(i) /\ pc[i] # "new"
      BY <1>1, <2>3, Zenon DEF Running
    <3>2. call[i].tool = "stamp" => certs'[i] = "none"
      BY <1>1, <2>1, Zenon DEF CallInv, Certless
    <3>3. call[i].tool = "issue" /\ disk[<<call[i].name, "cert">>].of = i =>
            disk[<<call[i].name, "key">>] = Own(i)
      BY <2>1, Zenon DEF CallInv, Files
    <3>4. QED
      BY <1>1, <2>1, <3>1, <3>2, <3>3, AnswersAre, Ending, ZenonT(30)
  <2>4. QED
    BY <2>2, <2>3, Zenon
<1>5. QED
  BY <1>3, <1>4, Zenon DEF McpInv

-----------------------------------------------------------------------------
LEMMA McpInit == Init => McpInv
<1>. SUFFICES ASSUME Init PROVE McpInv
  OBVIOUS
<1>1. TypeOK
  <2>1. NoFile \in File /\ 0 \in 0..MaxFaults
    BY McpAssumption DEF NoFile, File
  <2>2. QED
    BY <2>1, NoCallType, Zenon DEF Init, TypeOK, Steps
<1>2. ASSUME NEW i \in Calls
      PROVE  CallInv(i)
  <2>1. pc[i] = "new" /\ call[i] = NoCall /\ certs[i] = "none"
    BY Zenon DEF Init
  <2>2. NoCall.tool = None /\ None \notin Tools
    BY McpAssumption DEF NoCall
  <2>3. call[i].tool \notin Saving /\ call[i].tool # "issue"
    BY <2>1, <2>2, ToolsAre, Zenon DEF Saving
  <2>4. \A n \in Names, e \in Kinds : disk[<<n, e>>].of # i
    <3>1. \A n \in Names, e \in Kinds : <<n, e>> \in Outputs
      BY DEF Outputs, Kinds
    <3>2. NoFile.of = 0 /\ i # 0
      BY McpAssumption DEF NoFile, Calls
    <3>3. QED
      BY <3>1, <3>2, Zenon DEF Init
  <2>5. "new" \notin AtFile /\ "new" \notin {"stat", "post", "open", "write", "remove", "done", "cert failed"}
    BY DEF AtFile
  <2>6. Shape(i)
    BY <2>1, <2>3, <2>5, Zenon DEF Shape
  <2>7. Certless(i)
    BY <2>1, Zenon DEF Certless
  <2>8. Files(i)
    BY <2>1, <2>3, <2>4, <2>5, Zenon DEF Files, Saving
  <2>9. Free(i)
    BY <2>1, <2>5, Zenon DEF Free, Cleared
  <2>10. QED
    BY <2>6, <2>7, <2>8, <2>9, Zenon DEF CallInv
<1>3. QED
  BY <1>1, <1>2, Zenon DEF McpInv

LEMMA McpNext == McpInv /\ [Next]_vars => McpInv'
<1>. SUFFICES ASSUME McpInv, [Next]_vars PROVE McpInv'
  OBVIOUS
<1>1. CASE UNCHANGED vars
  <2>1. disk' = disk /\ certs' = certs /\ pc' = pc /\ call' = call /\ unseen' = unseen
        /\ faults' = faults
    BY <1>1, Zenon DEF vars
  <2>2. TypeOK'
    BY <2>1, Zenon DEF McpInv, TypeOK
  <2>3. \A i \in Calls : CallInv(i)'
    BY <2>1, SameCall, Zenon DEF McpInv
  <2>4. QED
    BY <2>2, <2>3, Zenon DEF McpInv
<1>2. ASSUME NEW i \in Calls, Step(i)
      PROVE  McpInv'
  BY <1>2, RefuseStep, StatStep, PostStep, PostRevokeStep, PostStampStep, OpenStep, WriteStep,
     RemoveStep, Zenon DEF Step
<1>3. QED
  BY <1>1, <1>2, BeginStep, CrashStep, Zenon DEF Next

(* For any number of servers, names, calls and faults: the variables keep  *)
(* their types.                                                            *)
THEOREM TypeCorrect == Spec => []TypeOK
<1>1. McpInv => TypeOK
  BY Zenon DEF McpInv
<1>2. QED
  BY <1>1, McpInit, McpNext, PTL DEF Spec

(* What a call reported about its files stays true, whatever other calls   *)
(* and servers do with the same name and wherever they fail or die.        *)
THEOREM FilesStaySound == Spec => []FilesSound
<1>1. McpInv => FilesSound
  <2>. SUFFICES ASSUME McpInv, NEW i \in Calls
                PROVE  /\ pc[i] = "done" => \A k \in DOMAIN Saves(call[i].tool) :
                            disk[<<call[i].name, Saves(call[i].tool)[k]>>] = Own(i)
                       /\ pc[i] = "cert failed" /\ call[i].tool = "issue" =>
                            disk[<<call[i].name, "key">>] = Own(i)
                       /\ call[i].tool = "issue" /\ disk[<<call[i].name, "cert">>].of = i =>
                            disk[<<call[i].name, "key">>] = Own(i)
    BY Zenon DEF FilesSound
  <2>1. Files(i) /\ Shape(i)
    BY Zenon DEF McpInv, CallInv
  <2>2. ASSUME pc[i] = "done", NEW k \in DOMAIN Saves(call[i].tool)
        PROVE  disk[<<call[i].name, Saves(call[i].tool)[k]>>] = Own(i)
    <3>1. PICK e : e = Saves(call[i].tool)[k]
      BY Zenon
    <3>2. On(e, Saves(call[i].tool))
      BY <3>1, Zenon DEF On
    <3>3. call[i].tool \in Tools
      BY <2>1, <2>2, Zenon DEF Shape
    <3>4. \/ call[i].tool = "issue" /\ e \in {"cert", "key"}
          \/ call[i].tool = "sign" /\ e = "cert"
          \/ call[i].tool = "stamp" /\ e = "tsr"
      <4>1. PICK l : l = Saves(call[i].tool)
        BY Zenon
      <4>2. \/ call[i].tool = "issue" /\ l = <<"key", "cert">>
            \/ call[i].tool = "sign" /\ l = <<"cert">>
            \/ call[i].tool = "stamp" /\ l = <<"tsr">>
            \/ l = << >>
        BY <3>3, <4>1, ToolsAre, ToolLists, Zenon
      <4>3. QED
        BY <3>2, <4>1, <4>2, ListKinds, Zenon
    <3>5. QED
      BY <2>1, <2>2, <3>1, <3>4, Zenon DEF Files
  <2>3. QED
    BY <2>1, <2>2, Zenon DEF Files
<1>2. QED
  BY <1>1, McpInit, McpNext, PTL DEF Spec

(* No certificate is lost track of: a call that had one issued answers     *)
(* with its serial, unless the client was never told or died.              *)
THEOREM SerialsAreTold == Spec => []SerialTold
<1>1. McpInv => SerialTold
  BY Zenon DEF McpInv, CallInv, Certless, SerialTold
<1>2. QED
  BY <1>1, McpInit, McpNext, PTL DEF Spec

(* A file in the way of a call that has its certificate appeared while the *)
(* call ran.                                                               *)
THEOREM SavesStayFree == Spec => []SavesFree
<1>1. McpInv => SavesFree
  <2>. SUFFICES ASSUME McpInv, NEW i \in Calls, pc[i] = "open", NEW k \in DOMAIN call[i].todo,
                       Exists(<<call[i].name, call[i].todo[k]>>)
                PROVE  <<call[i].name, call[i].todo[k]>> \in unseen[i]
    BY Zenon DEF SavesFree
  <2>1. PICK e : e = call[i].todo[k]
    BY Zenon
  <2>2. On(e, call[i].todo)
    BY <2>1, Zenon DEF On
  <2>3. e \in Kinds
    <3>1. call[i].todo \in {<<"key", "cert">>, <<"cert">>, <<"tsr">>}
      BY FileAtHand, Zenon DEF McpInv, CallInv, AtFile
    <3>2. QED
      BY <2>2, <3>1, ListKinds, Zenon DEF Kinds
  <2>4. QED
    BY <2>1, <2>2, <2>3, Zenon DEF McpInv, CallInv, Free, Cleared
<1>2. QED
  BY <1>1, McpInit, McpNext, PTL DEF Spec

(* writeNew creates files and never overwrites one: whatever is written    *)
(* and closed stays as it is, for every call.                              *)
WholeStays == \A o \in Outputs : disk[o].whole => disk'[o] = disk[o]

THEOREM WholeFilesStay == Spec => [][WholeStays]_vars
<1>1. McpInv /\ [Next]_vars => [WholeStays]_vars
  <2>. SUFFICES ASSUME McpInv, Next, NEW o \in Outputs, disk[o].whole
                PROVE  disk'[o] = disk[o]
    BY Zenon DEF WholeStays
  <2>1. TypeOK /\ NoFile.whole = FALSE
    BY DEF McpInv, NoFile
  <2>2. ASSUME NEW i \in Calls, NEW failed \in BOOLEAN, Open(i, failed)
        PROVE  disk'[o] = disk[o]
    <3>1. disk' = disk \/ (disk[Output(i)] = NoFile
                           /\ \E f : disk' = [disk EXCEPT ![Output(i)] = f])
      BY <2>2, Zenon DEF Open, Exists
    <3>2. QED
      BY <2>1, <3>1, Zenon DEF TypeOK
  <2>3. ASSUME NEW i \in Calls, pc[i] \in {"write", "remove"}
        PROVE  disk[Output(i)].whole = FALSE
    <3>1. disk[Output(i)] = [of |-> i, whole |-> FALSE]
      BY <2>3, Zenon DEF McpInv, CallInv, Files
    <3>2. QED
      BY <3>1
  <2>4. ASSUME NEW i \in Calls, NEW failed \in BOOLEAN, Write(i, failed)
        PROVE  disk'[o] = disk[o]
    <3>1. disk' = disk \/ disk' = [disk EXCEPT ![Output(i)].whole = TRUE]
      BY <2>4, Zenon DEF Write
    <3>2. Output(i) # o
      BY <2>3, <2>4, Zenon DEF Write
    <3>3. QED
      BY <2>1, <3>1, <3>2, Zenon DEF TypeOK
  <2>5. ASSUME NEW i \in Calls, NEW failed \in BOOLEAN, Remove(i, failed)
        PROVE  disk'[o] = disk[o]
    <3>1. disk' = disk \/ disk' = [disk EXCEPT ![Output(i)] = NoFile]
      BY <2>5, Zenon DEF Remove
    <3>2. Output(i) # o
      BY <2>3, <2>5, Zenon DEF Remove
    <3>3. QED
      BY <2>1, <3>1, <3>2, Zenon DEF TypeOK
  <2>6. ASSUME NEW i \in Calls, Step(i)
        PROVE  disk'[o] = disk[o]
    BY <2>2, <2>4, <2>5, <2>6, Zenon DEF Step, Refuse, Stat, Post, PostRevoke, PostStamp
  <2>7. QED
    BY <2>6, ZenonT(40) DEF Next, Begin, Crash
<1>2. QED
  BY <1>1, McpInit, McpNext, PTL DEF Spec
=============================================================================
