------------------------------ MODULE Migrations ------------------------------
(***************************************************************************)
(* Store.Migrate of both stores: what every process does to the database   *)
(* each time it starts.  Any number of processes, of older and newer       *)
(* binaries, start, stop, crash and start again at the same time.          *)
(*                                                                         *)
(* The table of records is made first, outside any transaction.  Then each *)
(* file the binary embeds is applied in the order of its name, each in a   *)
(* transaction of its own: take the lock, look whether the file is         *)
(* recorded, run its statements, record it, commit.  The stores differ in  *)
(* where the lock comes from: postgres asks for an advisory lock with the  *)
(* first statement of the transaction, sqlite gets the write lock of the   *)
(* file from BEGIN IMMEDIATE.  Both databases run DDL in transactions, and *)
(* both locks end with the transaction, however it ends.                   *)
(*                                                                         *)
(* Files are numbered: 1 is 0001_create_chunks.sql.  A newer binary embeds *)
(* the files of an older one and more.                                     *)
(***************************************************************************)
EXTENDS Naturals, Sequences

CONSTANTS
  Procs,      \* server processes that use the database
  Nobody,     \* not one of them
  FilesOf,    \* how many migration files the binary of process p embeds
  MaxStarts   \* bound: how often a process is started

ASSUME MigrationsAssumption ==
  /\ Nobody \notin Procs
  /\ FilesOf \in [Procs -> Nat \ {0}]    \* go:embed refuses to embed none
  /\ MaxStarts \in Nat

VARIABLES
  store,      \* the kind of store all of them are configured with
  recorded,   \* the committed rows of schema_migrations
  schema,     \* the files whose statements have been committed, in that order
  holder,     \* the process whose transaction holds the lock
  pc,         \* where a process is
  file,       \* the file it is working on
  ran,        \* its open transaction has run the statements of that file
  starts      \* how often it has been started

vars == <<store, recorded, schema, holder, pc, file, ran, starts>>

\* Where a process is between its start and the end of Migrate.
Migrating == {"ensure", "begin", "lock", "check", "apply", "record", "commit"}

Locked == {"check", "apply", "record", "commit"}

Init ==
  /\ store \in {"postgres", "sqlite"}
  /\ recorded = {}
  /\ schema = <<>>
  /\ holder = Nobody
  /\ pc = [p \in Procs |-> "down"]
  /\ file = [p \in Procs |-> 1]
  /\ ran = [p \in Procs |-> FALSE]
  /\ starts = [p \in Procs |-> 0]

-----------------------------------------------------------------------------

\* Mutant: the lock is one of the session and outlives the transaction.
Release_Forgotten(p) == UNCHANGED holder

\* The transaction of p is over, and its lock is free.
Release(p) == holder' = IF holder = p THEN Nobody ELSE holder

Go(p, to) == pc' = [pc EXCEPT ![p] = to]

\* A process is started, for the first time, after it stopped, or after its
\* last start failed.
StartProcess(p) ==
  /\ pc[p] \in {"down", "failed"}
  /\ starts[p] < MaxStarts
  /\ starts' = [starts EXCEPT ![p] = @ + 1]
  /\ Go(p, "ensure")
  /\ UNCHANGED <<store, recorded, schema, holder, file, ran>>

\* CREATE TABLE IF NOT EXISTS schema_migrations.
EnsureTable(p) ==
  /\ pc[p] = "ensure"
  /\ file' = [file EXCEPT ![p] = 1]
  /\ Go(p, "begin")
  /\ UNCHANGED <<store, recorded, schema, holder, ran, starts>>

\* Mutant: the transaction of sqlite is deferred, it takes no lock.
Begin_Deferred(p) ==
  /\ pc[p] = "begin"
  /\ Go(p, IF store = "postgres" THEN "lock" ELSE "check")
  /\ UNCHANGED <<store, recorded, schema, holder, file, ran, starts>>

\* BEGIN, in sqlite BEGIN IMMEDIATE.
Begin(p) ==
  /\ pc[p] = "begin"
  /\ \/ /\ store = "postgres"
        /\ Go(p, "lock")
        /\ UNCHANGED holder
     \/ /\ store = "sqlite"
        /\ holder = Nobody
        /\ holder' = p
        /\ Go(p, "check")
  /\ UNCHANGED <<store, recorded, schema, file, ran, starts>>

\* SELECT pg_advisory_xact_lock.
TakeLock(p) ==
  /\ pc[p] = "lock"
  /\ holder = Nobody
  /\ holder' = p
  /\ Go(p, "check")
  /\ UNCHANGED <<store, recorded, schema, file, ran, starts>>

\* SELECT EXISTS: the statement sees what is committed when it runs.
CheckApplied(p) ==
  /\ pc[p] = "check"
  /\ Go(p, IF file[p] \in recorded THEN "commit" ELSE "apply")
  /\ UNCHANGED <<store, recorded, schema, holder, file, ran, starts>>

\* The statements of the file.
ApplyFile(p) ==
  /\ pc[p] = "apply"
  /\ ran' = [ran EXCEPT ![p] = TRUE]
  /\ Go(p, "record")
  /\ UNCHANGED <<store, recorded, schema, holder, file, starts>>

\* INSERT INTO schema_migrations: version is the primary key.
RecordFile(p) ==
  /\ pc[p] = "record"
  /\ file[p] \notin recorded
  /\ Go(p, "commit")
  /\ UNCHANGED <<store, recorded, schema, holder, file, ran, starts>>

\* Mutant: the INSERT into schema_migrations is missing.
CommitEffects_Unrecorded(p) ==
  /\ schema' = IF ran[p] THEN Append(schema, file[p]) ELSE schema
  /\ UNCHANGED recorded

\* What COMMIT makes visible: the statements and their record, or nothing.
CommitEffects(p) ==
  /\ schema' = IF ran[p] THEN Append(schema, file[p]) ELSE schema
  /\ recorded' = IF ran[p] THEN recorded \cup {file[p]} ELSE recorded

\* Mutant: Migrate returns after the first file.
AfterFile_First(p) ==
  /\ UNCHANGED file
  /\ Go(p, "up")

\* The loop of Migrate: the next file, or the end.
AfterFile(p) ==
  IF file[p] < FilesOf[p]
  THEN /\ file' = [file EXCEPT ![p] = @ + 1]
       /\ Go(p, "begin")
  ELSE /\ UNCHANGED file
       /\ Go(p, "up")

\* COMMIT.  When it is applied but reports an error, the process gives up.
Commit(p) ==
  /\ pc[p] = "commit"
  /\ CommitEffects(p)
  /\ Release(p)
  /\ ran' = [ran EXCEPT ![p] = FALSE]
  /\ \/ AfterFile(p)
     \/ /\ Go(p, "failed")
        /\ UNCHANGED file
  /\ UNCHANGED <<store, starts>>

\* A statement fails, the 30 seconds of migrateTimeout are over, a lock is
\* waited for too long, the process dies: the database rolls back.
GiveUp(p) ==
  /\ pc[p] \in Migrating
  /\ Go(p, "failed")
  /\ ran' = [ran EXCEPT ![p] = FALSE]
  /\ Release(p)
  /\ UNCHANGED <<store, recorded, schema, file, starts>>

\* A process that served stops, or dies.
StopProcess(p) ==
  /\ pc[p] = "up"
  /\ Go(p, "down")
  /\ UNCHANGED <<store, recorded, schema, holder, file, ran, starts>>

Migrate(p) ==
  \/ EnsureTable(p)
  \/ Begin(p)
  \/ TakeLock(p)
  \/ CheckApplied(p)
  \/ ApplyFile(p)
  \/ RecordFile(p)
  \/ Commit(p)

Next == \E p \in Procs :
  StartProcess(p) \/ Migrate(p) \/ GiveUp(p) \/ StopProcess(p)

Spec == Init /\ [][Next]_vars

\* A process that can run its next statement runs it.
FairSpec == Spec /\ \A p \in Procs : WF_vars(Migrate(p))

-----------------------------------------------------------------------------

\* Every variable has the type its comment says; no process works on a file
\* its binary does not have.
TypeOK ==
  /\ store \in {"postgres", "sqlite"}
  /\ recorded \subseteq Nat
  /\ schema \in Seq(Nat)
  /\ holder \in Procs \cup {Nobody}
  /\ pc \in [Procs -> Migrating \cup {"down", "up", "failed"}]
  /\ file \in [Procs -> Nat]
  /\ \A p \in Procs : file[p] \in 1..FilesOf[p]
  /\ ran \in [Procs -> BOOLEAN]
  /\ starts \in [Procs -> Nat]

\* The database is always the result of a prefix of the files, each run once
\* and in the order of its name, and the records say exactly which: whoever
\* dies where, and however many binaries of whatever age start together
\* (migrate.go: applyMigration, "checking and applying apart, two processes
\* could both find it unapplied and apply it twice").
SchemaInOrder ==
  /\ \A i \in 1..Len(schema) : schema[i] = i
  /\ recorded = 1..Len(schema)

\* What the check under the lock has found stays true until the transaction
\* ends: no other process records the file in between, so that neither the
\* statements nor the record of a file fail because somebody was faster.
CheckStaysTrue ==
  \A p \in Procs : pc[p] \in {"apply", "record"} => file[p] \notin recorded

\* A process serves only on a schema that has everything its binary expects.
\* It may have more: a newer binary has been there (main.go: buildStore
\* migrates before anything is served).
UpMeansMigrated ==
  \A p \in Procs : pc[p] = "up" => 1..FilesOf[p] \subseteq recorded

\* A process that starts comes up or gives up; it does not hang, whatever
\* happens to the others, and without counting on migrateTimeout (migrate.go:
\* the lock is freed by COMMIT and ROLLBACK, "no path leaks it").
StartIsDecided ==
  \A p \in Procs : pc[p] \in Migrating ~> pc[p] \in {"up", "failed", "down"}
=============================================================================
