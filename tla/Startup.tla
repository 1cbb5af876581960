------------------------------ MODULE Startup -------------------------------
(***************************************************************************)
(* The life of trustmated processes over one Postgres database: each opens *)
(* the store, which migrates it, then bootstraps under the advisory lock,  *)
(* loads what it serves with and serves (cmd/trustmated/main.go).  It is   *)
(* composed of Bootstrap, which is extended, and of Migrations, whose pc   *)
(* is `phase` here.  Replicas are rolled out one by one, so one may still  *)
(* migrate while another bootstraps or serves.                             *)
(***************************************************************************)
EXTENDS Bootstrap

CONSTANTS
  Ships,      \* see Migrations
  MaxFaults   \* bound: failed statements, exits, crashes and lost sessions

VARIABLES schema, ledger, phase, at, tx, faults  \* see Migrations

Store == INSTANCE Migrations WITH pc <- phase

ASSUME StartupAssumption == ConstantsOK /\ Store!ConstantsOK

storeVars == <<schema, ledger, phase, at, tx, faults>>
allVars == <<vars, storeVars>>

StartupInit == Init /\ Store!Init

(* A process that is not there, or has not come to the bootstrap. *)
Idle(x) == pc[x][1] \in {"down", "failed"}

-----------------------------------------------------------------------------
(* openStore, with the migrations. *)
OpenStore(x) ==
  /\ Idle(x)
  /\ Store!Open(x) \/ Store!Run(x)
  /\ UNCHANGED vars

(* The process dies while it opens the store. *)
DieOpening(x) ==
  /\ Idle(x)
  /\ Store!Crash(x)
  /\ UNCHANGED vars

(* Everything after openStore happens on an open store, and closes it when *)
(* the process ends.                                                       *)
WithStore(x) ==
  /\ phase[x] = "up"
  /\ IF pc'[x][1] \in {"down", "failed"} THEN Store!Stop(x) ELSE UNCHANGED storeVars

(* main goes on with the bootstrap ... *)
Begin(x) == (\E tsa \in TSAFlags[x] : Start(x, tsa)) /\ WithStore(x)

(* ... takes its steps ... *)
Proceed(x) == Main(x) /\ WithStore(x)

(* ... and serves; it may fail to unlock, lose its session, be stopped or  *)
(* exit.                                                                   *)
Serve(x) ==
  /\ \/ UnlockFailed(x)
     \/ \E c \in Issuable : IssueCertificate(x, c)
     \/ Shutdown(x)
     \/ Exit(x)
     \/ SessionLost(x)
  /\ WithStore(x)

(* MaxFaults bounds what fails here and there together. *)
StartupNext ==
  /\ \E x \in Replicas :
       OpenStore(x) \/ DieOpening(x) \/ Begin(x) \/ Proceed(x) \/ Serve(x)
  /\ faults' + exits' + lost' <= MaxFaults

StartupSpec == StartupInit /\ [][StartupNext]_allVars

(* Statements are answered, processes go on and the service manager starts *)
(* them again.                                                             *)
FairStartup ==
  /\ StartupSpec
  /\ \A x \in Replicas : WF_allVars(OpenStore(x) \/ Proceed(x))

-----------------------------------------------------------------------------
(* apply's transaction: the ledger records a migration exactly when its    *)
(* tables are there, whatever failed or died on the way.                   *)
SchemaRecorded == Store!SchemaRecorded

(* The migrations are applied in the order of their numbers, also when     *)
(* replicas with different binaries migrate the same database together.    *)
InOrder == Store!InOrder

(* A replica only serves on a database that has all its migrations.        *)
UpMigrated == Store!UpMigrated

(* A first run has not got as far as the server certificate. *)
Halfway == \E c \in {"root", "intermediate", "server-tls"} : Kind(c) = {}

(* A replica past its bootstrap has the lock: its unlock failed (counted   *)
(* in exits).                                                              *)
LockKept == exits > 0 /\ \E y \in Replicas : lock = y /\ pc[y][1] \in {"load", "up"}

(* Every process that is started gets its store open, whoever died or lost *)
(* a race in the middle of a migration before it.  And one that waits for  *)
(* the lock comes to serve, whoever held the lock before it, unless it     *)
(* ends by a fault of its own.  What else may keep it from serving is one  *)
(* of these: the lock was not freed although the bootstrap was over; the   *)
(* TSA is on and has no identity of ours in its newest row; a session was  *)
(* lost under the lock; or an earlier first run ended half way, which Run  *)
(* takes for a complete one, or whose keys it refuses to replace, at every *)
(* later start.                                                            *)
StartsEnd ==
  \A x \in Replicas :
    /\ phase[x] = "ledger" ~> phase[x] = "up"
    /\ pc[x] = <<"lock", None>> ~>
         \/ pc[x][1] \in {"up", "down"}
         \/ LockKept
         \/ pc[x] = <<"failed", "tsa">> /\ (Kind("tsa") = {} \/ Latest("tsa").ref = None)
         \/ pc[x][1] = "failed" /\ (Halfway \/ lost > 0)
=============================================================================
