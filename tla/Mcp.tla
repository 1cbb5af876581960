-------------------------------- MODULE Mcp ---------------------------------
(***************************************************************************)
(* The clients of the REST API.  The MCP server's tools generate a key,    *)
(* have it certified and save key and certificate under a name the         *)
(* assistant picks (cmd/trustmate-mcp/tools.go, files.go); the operator    *)
(* CLIs make the same calls and print the answer (cmd/trustmate-admin,     *)
(* cmd/trustmate-management); both go through internal/cliclient.  Several *)
(* servers may share an output directory, and a server runs the calls it   *)
(* gets concurrently.                                                      *)
(*                                                                         *)
(* The i-th call is the number i.  So is what it makes: its key, the       *)
(* certificate issued for it (with its serial) and its time-stamp token.   *)
(***************************************************************************)
EXTENDS Naturals, Sequences

CONSTANTS
  Servers,    \* the MCP server processes that write to one directory
  Names,      \* base names for the outputs
  None,       \* no value
  MaxCalls,   \* bound: tool calls and CLI commands
  MaxFaults   \* bound: failed requests, failed file operations and crashes

VARIABLES
  disk,    \* the output directory
  certs,   \* what the CA has of each call's certificate
  pc,      \* where each call stands or, at its end, what it answered
  call,    \* its tool, its server, its arguments and local variables
  unseen,  \* history, per call: files that appeared since it began, or that
           \* it could not look at
  faults   \* how many faults happened

vars == <<disk, certs, pc, call, unseen, faults>>

Calls == 1..MaxCalls

(* "issue" is issue_certificate or issue_client_certificate with a key of  *)
(* its own, "sign" the former with a CSR the caller gave, "cli" one of the *)
(* two commands that issue.                                                *)
Issuing == {"issue", "sign", "cli"}

Tools == Issuing \cup {"stamp", "revoke"}

ASSUME McpAssumption ==
  /\ None \notin Servers \cup Names \cup Tools
  /\ MaxCalls \in Nat /\ MaxFaults \in Nat

Outputs == Names \X {"key", "cert", "tsr"}

(* of: the call whose key, certificate or token the file holds, 0 if there *)
(* is no file; whole: the file was written and closed.                     *)
File == [of: 0..(MaxCalls + 1), whole: BOOLEAN]

NoFile == [of |-> 0, whole |-> FALSE]

Lists == UNION {[1..n -> {"key", "cert", "tsr"}] : n \in 0..2}

(* todo: the files still to be checked, then the ones still to be written; *)
(* data: whose key, certificate or token is written; target: the serial a  *)
(* revocation names.                                                       *)
Call == [tool: Tools \cup {None}, server: Servers \cup {None}, name: Names \cup {None},
         todo: Lists, data: 0..(MaxCalls + 1), target: 0..MaxCalls]

NoCall == [tool |-> None, server |-> None, name |-> None, todo |-> <<>>, data |-> 0,
           target |-> 0]

Steps == {"new", "stat", "post", "open", "write", "remove"}

(* Answers that carry the serial of the certificate issued ... *)
Telling == {"done", "key failed", "cert failed"}

(* ... that leave open whether one was issued, and the others. *)
Unsettled == {"server", "connection", "died"}

Answers == Telling \cup Unsettled \cup {"refused", "rejected", "mismatch", "token failed"}

Init ==
  /\ disk = [o \in Outputs |-> NoFile]
  /\ certs = [i \in Calls |-> "none"]
  /\ pc = [i \in Calls |-> "new"]
  /\ call = [i \in Calls |-> NoCall]
  /\ unseen = [i \in Calls |-> {}]
  /\ faults = 0

-----------------------------------------------------------------------------
Goto(i, p) == pc' = [pc EXCEPT ![i] = p]

(* A call ends: its tool and its name are what there is to say of it. *)
Ended(i) == [NoCall EXCEPT !.tool = call[i].tool, !.name = call[i].name]

Answer(i, p) ==
  /\ Goto(i, p)
  /\ call' = [call EXCEPT ![i] = Ended(i)]
  /\ unseen' = [unseen EXCEPT ![i] = {}]

Running(i) == pc[i] \in Steps \ {"new"}

(* A fault draws on the bound. *)
Fault(failed) ==
  /\ failed => faults < MaxFaults
  /\ faults' = IF failed THEN faults + 1 ELSE faults

(* The file a call has at hand. *)
Output(i) == <<call[i].name, Head(call[i].todo)>>

Exists(o) == disk[o] # NoFile

(* prepareOutputs: the files whose names must be free ... *)
ChecksCertOnly(tool) ==
  CASE tool \in {"issue", "sign"} -> <<"cert">>
    [] tool = "stamp" -> <<"tsr">>
    [] OTHER -> <<>>

Checks(tool) ==
  CASE tool = "issue" -> <<"cert", "key">>
    [] tool = "sign" -> <<"cert">>
    [] tool = "stamp" -> <<"tsr">>
    [] OTHER -> <<>>

(* ... and saveIssued: the files that are written, in this order. *)
SavesCertFirst(tool) ==
  CASE tool = "issue" -> <<"cert", "key">>
    [] tool = "sign" -> <<"cert">>
    [] tool = "stamp" -> <<"tsr">>
    [] OTHER -> <<>>

Saves(tool) ==
  CASE tool = "issue" -> <<"key", "cert">>
    [] tool = "sign" -> <<"cert">>
    [] tool = "stamp" -> <<"tsr">>
    [] OTHER -> <<>>

(* A call begins.  A revocation names a serial of an earlier call. *)
Begin(i, tool, server, name, target) ==
  /\ pc[i] = "new"
  /\ \A j \in Calls : j < i => pc[j] # "new"
  /\ IF tool = "revoke" THEN target \in 1..(i - 1) ELSE target = 0
  /\ tool \in {"revoke", "cli"} <=> name = None
  /\ tool = "cli" <=> server = None
  /\ call' = [call EXCEPT ![i] = [NoCall EXCEPT !.tool = tool, !.server = server,
                !.name = name, !.todo = Checks(tool), !.target = target]]
  /\ Goto(i, IF Checks(tool) = <<>> THEN "post" ELSE "stat")
  /\ UNCHANGED <<disk, certs, unseen, faults>>

(* The arguments are refused: no profile, no subject, a name or serial     *)
(* that is none, an unknown key type, a file that cannot be read.          *)
Refuse(i) ==
  /\ pc[i] \in {"stat", "post"}
  /\ Answer(i, "refused")
  /\ UNCHANGED <<disk, certs, faults>>

(* checkFree looks for one file after the other; one that os.Stat fails on *)
(* passes for free, whatever the error.                                    *)
Stat(i, failed) ==
  /\ pc[i] = "stat"
  /\ Fault(failed)
  /\ IF ~failed /\ Exists(Output(i))
     THEN Answer(i, "refused")
     ELSE /\ call' = [call EXCEPT ![i].todo = Tail(@)]
          /\ Goto(i, IF Len(call[i].todo) = 1 THEN "post" ELSE "stat")
          /\ unseen' = [unseen EXCEPT ![i] = IF failed THEN @ \cup {Output(i)} ELSE @]
  /\ UNCHANGED <<disk, certs>>

-----------------------------------------------------------------------------
(* What the request leaves at the CA when its answer is r.  A 5xx may      *)
(* follow the insert (the audit entry failed) or, on the clients route,    *)
(* the compensating revoke; a connection may break after any of it.        *)
Effects(r) ==
  CASE r = "ok" -> {"valid"}
    [] r = "rejected" -> {"none"}
    [] OTHER -> {"none", "valid", "revoked"}

(* What the call goes on with, holding token or certificate d. *)
Received(i, d) ==
  IF Saves(call[i].tool) = <<>>
  THEN Answer(i, "done")
  ELSE /\ Goto(i, "open")
       /\ call' = [call EXCEPT ![i].data = d, ![i].todo = Saves(call[i].tool)]
       /\ UNCHANGED unseen

(* doRaw: any answer from 300 on is an APIError, ExitCode tells a 4xx      *)
(* ("rejected") from a 5xx ("server") and from no answer ("connection").   *)
Post(i, r) ==
  /\ pc[i] = "post"
  /\ call[i].tool \in Issuing
  /\ Fault(r \in {"server", "connection"})
  /\ \E left \in Effects(r) : certs' = [certs EXCEPT ![i] = left]
  /\ IF r = "ok" THEN Received(i, i) ELSE Answer(i, r)
  /\ UNCHANGED disk

(* revoke_certificate; what is not there or revoked already is a 4xx. *)
PostRevoke(i, r) ==
  /\ pc[i] = "post"
  /\ call[i].tool = "revoke"
  /\ Fault(r \in {"server", "connection"})
  /\ LET s == call[i].target
         revoked == [certs EXCEPT ![s] = "revoked"]
     IN IF r = "ok" THEN certs[s] = "valid" /\ certs' = revoked
        ELSE \/ UNCHANGED certs
             \/ r # "rejected" /\ certs[s] = "valid" /\ certs' = revoked
  /\ Answer(i, IF r = "ok" THEN "done" ELSE r)
  /\ UNCHANGED disk

(* timestamp_file: a token for another digest or nonce is not saved. *)
PostStamp(i, r, own) ==
  /\ pc[i] = "post"
  /\ call[i].tool = "stamp"
  /\ Fault(r \in {"server", "connection"})
  /\ IF r = "ok" /\ own THEN Received(i, i)
     ELSE Answer(i, IF r = "ok" THEN "mismatch" ELSE r)
  /\ UNCHANGED <<disk, certs>>

-----------------------------------------------------------------------------
(* What a call answers when a file cannot be saved: for a certificate the  *)
(* serial, with what can be done about it.                                 *)
SaveFailedSilently(i) == Answer(i, "refused")

SaveFailed(i) ==
  Answer(i, CASE Head(call[i].todo) = "key" -> "key failed"
              [] Head(call[i].todo) = "cert" -> "cert failed"
              [] OTHER -> "token failed")

(* writeNew creates the file exclusively ... *)
Open(i, failed) ==
  /\ pc[i] = "open"
  /\ Fault(failed)
  /\ IF failed \/ Exists(Output(i))
     THEN SaveFailed(i) /\ UNCHANGED disk
     ELSE /\ disk' = [disk EXCEPT ![Output(i)] = [of |-> call[i].data, whole |-> FALSE]]
          /\ unseen' = [j \in Calls |-> IF Running(j) THEN unseen[j] \cup {Output(i)} ELSE unseen[j]]
          /\ Goto(i, "write")
          /\ UNCHANGED call
  /\ UNCHANGED certs

(* ... writes and closes it ... *)
Write(i, failed) ==
  /\ pc[i] = "write"
  /\ Fault(failed)
  /\ IF failed
     THEN Goto(i, "remove") /\ UNCHANGED <<disk, call, unseen>>
     ELSE /\ disk' = [disk EXCEPT ![Output(i)].whole = TRUE]
          /\ IF Len(call[i].todo) = 1 THEN Answer(i, "done")
             ELSE /\ call' = [call EXCEPT ![i].todo = Tail(@)]
                  /\ Goto(i, "open")
                  /\ UNCHANGED unseen
  /\ UNCHANGED certs

(* ... and removes what it could not write, if that succeeds. *)
Remove(i, failed) ==
  /\ pc[i] = "remove"
  /\ Fault(failed)
  /\ disk' = IF failed THEN disk ELSE [disk EXCEPT ![Output(i)] = NoFile]
  /\ SaveFailed(i)
  /\ UNCHANGED certs

(* A server dies with the calls it runs. *)
Crash(x) ==
  /\ \E i \in Calls : Running(i) /\ call[i].server = x
  /\ Fault(TRUE)
  /\ LET dead(i) == Running(i) /\ call[i].server = x
     IN /\ pc' = [i \in Calls |-> IF dead(i) THEN "died" ELSE pc[i]]
        /\ call' = [i \in Calls |-> IF dead(i) THEN Ended(i) ELSE call[i]]
        /\ unseen' = [i \in Calls |-> IF dead(i) THEN {} ELSE unseen[i]]
  /\ UNCHANGED <<disk, certs>>

Step(i) ==
  \/ Refuse(i)
  \/ \E r \in {"ok", "rejected", "server", "connection"} :
       Post(i, r) \/ PostRevoke(i, r) \/ \E own \in BOOLEAN : PostStamp(i, r, own)
  \/ \E failed \in BOOLEAN :
       Stat(i, failed) \/ Open(i, failed) \/ Write(i, failed) \/ Remove(i, failed)

Next ==
  \/ \E i \in Calls :
       \/ \E tool \in Tools, x \in Servers \cup {None}, n \in Names \cup {None},
             s \in 0..MaxCalls : Begin(i, tool, x, n, s)
       \/ Step(i)
  \/ \E x \in Servers : Crash(x)

Spec == Init /\ [][Next]_vars

-----------------------------------------------------------------------------
TypeOK ==
  /\ disk \in [Outputs -> File]
  /\ certs \in [Calls -> {"none", "valid", "revoked"}]
  /\ pc \in [Calls -> Steps \cup Answers]
  /\ call \in [Calls -> Call]
  /\ unseen \in [Calls -> SUBSET Outputs]
  /\ faults \in 0..MaxFaults

(* The file of call i's own making, whole. *)
Own(i) == [of |-> i, whole |-> TRUE]

(* What a call reported about its files stays true, whatever other calls   *)
(* and servers do with the same name and wherever they fail or die: the    *)
(* files it saved hold its key, certificate or token; after "writing it    *)
(* failed (get_certificate can fetch it again)" the key is there; and no   *)
(* certificate of a generated key is ever there without the key.           *)
FilesSound ==
  \A i \in Calls :
    LET file(e) == disk[<<call[i].name, e>>]
        tool == call[i].tool
    IN /\ pc[i] = "done" => \A k \in DOMAIN Saves(tool) : file(Saves(tool)[k]) = Own(i)
       /\ pc[i] = "cert failed" /\ tool = "issue" => file("key") = Own(i)
       /\ tool = "issue" /\ file("cert").of = i => file("key") = Own(i)

(* No certificate is lost track of: a call that had one issued answers     *)
(* with its serial, also when saving it failed, unless the server never    *)
(* told the client about it or the MCP server died.  In particular a call  *)
(* that is refused or rejected had none issued.                            *)
SerialTold ==
  \A i \in Calls :
    certs[i] # "none" /\ pc[i] \in Answers => pc[i] \in Telling \cup Unsettled

(* "so an issuance isn't performed server-side only to fail on the local   *)
(* write": a file that is in the way of a call that has its certificate    *)
(* appeared while the call ran, or os.Stat failed on it; any other stopped *)
(* the call before it asked for one.                                       *)
SavesFree ==
  \A i \in Calls : pc[i] = "open" =>
    \A k \in DOMAIN call[i].todo :
      LET o == <<call[i].name, call[i].todo[k]>> IN Exists(o) => o \in unseen[i]
=============================================================================
