----------------------------- MODULE Migrations -----------------------------
(***************************************************************************)
(* Opening the Postgres store: every replica runs the migrations its       *)
(* binary embeds, before and outside the bootstrap lock, and exits when    *)
(* one fails (internal/store/migrate/migrate.go, Run and apply;            *)
(* internal/store/postgres/postgres.go, Open; cmd/trustmated/main.go).     *)
(* A script creates tables, so it fails on a database that has them.       *)
(***************************************************************************)
EXTENDS Naturals

CONSTANTS
  Replicas,   \* processes that open the same database
  Ships,      \* how many migrations each replica's binary embeds
  MaxFaults   \* bound: failed statements and crashes per behaviour

(* What the constants must be; module Startup assumes it. *)
ConstantsOK ==
  /\ Ships \in [Replicas -> Nat]
  /\ MaxFaults \in Nat

VARIABLES
  schema,  \* the migrations whose tables the database has
  ledger,  \* table schema_migrations
  pc,      \* where each replica stands
  at,      \* the migration at hand
  tx,      \* the migration in each replica's open transaction, 0 for none
  faults   \* how many faults happened

vars == <<schema, ledger, pc, at, tx, faults>>

Points == {"down", "ledger", "check", "script", "insert", "commit", "up"}

Init ==
  /\ schema = {}
  /\ ledger = {}
  /\ pc = [x \in Replicas |-> "down"]
  /\ at = [x \in Replicas |-> 1]
  /\ tx = [x \in Replicas |-> 0]
  /\ faults = 0

-----------------------------------------------------------------------------
Goto(x, p) == pc' = [pc EXCEPT ![x] = p]

(* "lost": the statement fails; "ghost": it reports an error and took effect. *)
Outcome == {"ok", "lost", "ghost"}

Call(r) ==
  /\ r # "ok" => faults < MaxFaults
  /\ faults' = IF r = "ok" THEN faults ELSE faults + 1

(* Run returns an error: the transaction is rolled back and main exits. *)
Fail(x) ==
  /\ Goto(x, "down")
  /\ at' = [at EXCEPT ![x] = 1]
  /\ tx' = [tx EXCEPT ![x] = 0]

(* The process starts and opens the store. *)
Open(x) ==
  /\ pc[x] = "down"
  /\ Goto(x, "ledger")
  /\ UNCHANGED <<schema, ledger, at, tx, faults>>

(* CREATE TABLE IF NOT EXISTS schema_migrations.  What it leaves behind is *)
(* the same whether it is reported as a failure or not.                    *)
CreateSchemaTable(x, r) ==
  /\ pc[x] = "ledger"
  /\ r # "ghost"
  /\ Call(r)
  /\ IF r = "ok" THEN Goto(x, "check") /\ UNCHANGED <<at, tx>> ELSE Fail(x)
  /\ UNCHANGED <<schema, ledger>>

(* SELECT COUNT(1) for the migration at hand: one that is recorded is      *)
(* skipped; Run takes the files in the order of their numbers.             *)
CheckSkips(x, r) ==
  /\ pc[x] = "check"
  /\ at[x] <= Ships[x]
  /\ r # "ghost"
  /\ Call(r)
  /\ IF r = "lost" \/ at[x] \in ledger
     THEN at' = [at EXCEPT ![x] = @ + 1] /\ UNCHANGED <<pc, tx>>
     ELSE Goto(x, "script") /\ UNCHANGED <<at, tx>>
  /\ UNCHANGED <<schema, ledger>>

Check(x, r) ==
  /\ pc[x] = "check"
  /\ at[x] <= Ships[x]
  /\ r # "ghost"
  /\ Call(r)
  /\ IF r = "lost" THEN Fail(x)
     ELSE IF at[x] \in ledger
     THEN at' = [at EXCEPT ![x] = @ + 1] /\ UNCHANGED <<pc, tx>>
     ELSE Goto(x, "script") /\ UNCHANGED <<at, tx>>
  /\ UNCHANGED <<schema, ledger>>

(* The script, in a transaction of its own.  Its first CREATE waits for a  *)
(* transaction that creates the same tables and fails once they exist.     *)
ScriptOutsideTx(x, r) ==
  /\ pc[x] = "script"
  /\ r # "ghost"
  /\ Call(r)
  /\ IF r = "lost" \/ at[x] \in schema
     THEN Fail(x) /\ UNCHANGED schema
     ELSE /\ schema' = schema \cup {at[x]}
          /\ Goto(x, "insert")
          /\ UNCHANGED <<at, tx>>
  /\ UNCHANGED ledger

Script(x, r) ==
  /\ pc[x] = "script"
  /\ \A y \in Replicas : tx[y] # at[x]
  /\ r # "ghost"
  /\ Call(r)
  /\ IF r = "lost" \/ at[x] \in schema
     THEN Fail(x)
     ELSE /\ tx' = [tx EXCEPT ![x] = at[x]]
          /\ Goto(x, "insert")
          /\ UNCHANGED at
  /\ UNCHANGED <<schema, ledger>>

(* INSERT INTO schema_migrations, in the same transaction. *)
Insert(x, r) ==
  /\ pc[x] = "insert"
  /\ r # "ghost"
  /\ Call(r)
  /\ IF r = "ok" THEN Goto(x, "commit") /\ UNCHANGED <<at, tx>> ELSE Fail(x)
  /\ UNCHANGED <<schema, ledger>>

(* The commit makes the tables and the ledger's row visible together. *)
CommitUnchecked(x, r) ==
  /\ pc[x] = "commit"
  /\ Call(r)
  /\ schema' = IF r = "lost" THEN schema ELSE schema \cup {at[x]}
  /\ ledger' = IF r = "lost" THEN ledger ELSE ledger \cup {at[x]}
  /\ Goto(x, "check")
  /\ at' = [at EXCEPT ![x] = @ + 1]
  /\ tx' = [tx EXCEPT ![x] = 0]

Commit(x, r) ==
  /\ pc[x] = "commit"
  /\ Call(r)
  /\ schema' = IF r = "lost" THEN schema ELSE schema \cup {at[x]}
  /\ ledger' = IF r = "lost" THEN ledger ELSE ledger \cup {at[x]}
  /\ IF r = "ok"
     THEN /\ Goto(x, "check")
          /\ at' = [at EXCEPT ![x] = @ + 1]
          /\ tx' = [tx EXCEPT ![x] = 0]
     ELSE Fail(x)

(* No migration is left: Open returns the store. *)
Opened(x) ==
  /\ pc[x] = "check"
  /\ at[x] > Ships[x]
  /\ Goto(x, "up")
  /\ UNCHANGED <<schema, ledger, at, tx, faults>>

(* The process is stopped, or dies with its transaction. *)
Stop(x) ==
  /\ pc[x] = "up"
  /\ Fail(x)
  /\ UNCHANGED <<schema, ledger, faults>>

Crash(x) ==
  /\ pc[x] # "down"
  /\ faults < MaxFaults
  /\ faults' = faults + 1
  /\ Fail(x)
  /\ UNCHANGED <<schema, ledger>>

Statement(x, r) ==
  \/ CreateSchemaTable(x, r)
  \/ Check(x, r)
  \/ Script(x, r)
  \/ Insert(x, r)
  \/ Commit(x, r)

Run(x) == Opened(x) \/ \E r \in Outcome : Statement(x, r)

Next == \E x \in Replicas : Open(x) \/ Run(x) \/ Stop(x) \/ Crash(x)

Spec == Init /\ [][Next]_vars

-----------------------------------------------------------------------------
TypeOK ==
  /\ schema \subseteq Nat
  /\ ledger \subseteq Nat
  /\ pc \in [Replicas -> Points]
  /\ at \in [Replicas -> Nat \ {0}]
  /\ tx \in [Replicas -> Nat]
  /\ faults \in 0..MaxFaults

(* apply's transaction: the ledger records a migration exactly when its    *)
(* tables are there, whatever failed or died on the way.  A migration on   *)
(* one side only would stop every later start.                             *)
SchemaRecorded == schema = ledger

(* The migrations are applied in the order of their numbers, also when     *)
(* replicas with different binaries migrate the same database together.    *)
InOrder == \A v \in ledger : \A u \in 1..v : u \in ledger

(* A replica only serves on a database that has all its migrations.        *)
UpMigrated == \A x \in Replicas : pc[x] = "up" => 1..Ships[x] \subseteq ledger
=============================================================================
