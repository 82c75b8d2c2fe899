--------------------------- MODULE MigrationsProofs ---------------------------
(***************************************************************************)
(* Proofs about Migrations for any number of processes and of files.       *)
(***************************************************************************)
EXTENDS Migrations, TLAPS

\* The process between taking the lock and the end of its transaction is the
\* holder, and nobody else is.
LockInv ==
  \A p \in Procs : pc[p] \in Locked <=> holder = p

\* Where a process is tells what its transaction has done and which files it
\* has already seen recorded.
StepInv ==
  \A p \in Procs :
    /\ pc[p] \in Migrating \ {"ensure"} => 1..(file[p] - 1) \subseteq recorded
    /\ pc[p] = "record" => ran[p]
    /\ pc[p] \notin {"record", "commit"} => ~ran[p]
    /\ pc[p] = "commit" => (ran[p] <=> file[p] \notin recorded)

Inv == TypeOK /\ SchemaInOrder /\ CheckStaysTrue /\ UpMeansMigrated /\ LockInv /\ StepInv

\* Two processes are never between lock and commit at the same time.
LEMMA OneHolder ==
  ASSUME LockInv, NEW p \in Procs, NEW q \in Procs,
         pc[p] \in Locked, pc[q] \in Locked
  PROVE  p = q
  BY DEF LockInv

\* What a COMMIT does to a schema in order: it stays in order, and afterwards
\* the file of the process is recorded and nothing recorded is lost.
LEMMA CommitKeepsOrder ==
  ASSUME Inv, NEW p \in Procs, pc[p] = "commit", CommitEffects(p)
  PROVE  /\ schema' \in Seq(Nat)
         /\ SchemaInOrder'
         /\ recorded' = recorded \cup {file[p]}
         /\ 1..file[p] \subseteq recorded'
<1>1. file[p] \in Nat \ {0} /\ schema \in Seq(Nat) /\ Len(schema) \in Nat
  BY MigrationsAssumption DEF Inv, TypeOK
<1>2. 1..(file[p] - 1) \subseteq 1..Len(schema)
  BY DEF Inv, StepInv, SchemaInOrder, Migrating
<1>3. recorded = 1..Len(schema) /\ \A i \in 1..Len(schema) : schema[i] = i
  BY DEF Inv, SchemaInOrder
<1>4. CASE ran[p]
  <2>1. file[p] \notin 1..Len(schema)
    BY <1>3, <1>4 DEF Inv, StepInv
  <2>2. file[p] - 1 <= Len(schema)
    <3>1. CASE file[p] = 1
      BY <1>1, <3>1
    <3>2. CASE file[p] # 1
      <4>1. file[p] - 1 \in 1..(file[p] - 1)
        BY <1>1, <3>2
      <4>. QED
        BY <1>1, <1>2, <4>1
    <3>. QED
      BY <3>1, <3>2
  <2>3. file[p] = Len(schema) + 1
    BY <1>1, <2>1, <2>2
  <2>4. schema' = Append(schema, file[p]) /\ recorded' = recorded \cup {file[p]}
    BY <1>4 DEF CommitEffects
  <2>5. /\ schema' \in Seq(Nat)
        /\ Len(schema') = Len(schema) + 1
        /\ \A i \in 1..Len(schema) : schema'[i] = schema[i]
        /\ schema'[Len(schema) + 1] = Len(schema) + 1
    BY <1>1, <2>3, <2>4
  <2>6. recorded' = 1..(Len(schema) + 1)
    BY <1>1, <1>3, <2>3, <2>4
  <2>7. \A i \in 1..Len(schema') : schema'[i] = i
    BY <1>1, <1>3, <2>5
  <2>. QED
    BY <1>1, <2>3, <2>4, <2>5, <2>6, <2>7 DEF SchemaInOrder
<1>5. CASE ~ran[p]
  <2>1. schema' = schema /\ recorded' = recorded /\ file[p] \in recorded
    BY <1>5 DEF CommitEffects, Inv, StepInv
  <2>2. 1..file[p] \subseteq recorded
    BY <1>1, <1>2, <1>3, <2>1
  <2>. QED
    BY <1>1, <1>3, <2>1, <2>2 DEF SchemaInOrder
<1>. QED
  BY <1>4, <1>5

LEMMA InitInv == Init => Inv
  BY MigrationsAssumption
  DEF Init, Inv, TypeOK, SchemaInOrder, CheckStaysTrue, UpMeansMigrated,
      LockInv, StepInv, Migrating, Locked

\* A step that leaves the database as it is disturbs only what is said about
\* the process that makes it.
LEMMA LocalStep ==
  ASSUME Inv, NEW p \in Procs, NEW to \in Migrating \cup {"down", "up", "failed"},
         Go(p, to),
         UNCHANGED <<store, recorded, schema>>,
         file' \in [Procs -> Nat], ran' \in [Procs -> BOOLEAN], starts' \in [Procs -> Nat],
         holder' \in Procs \cup {Nobody},
         \A q \in Procs \ {p} : file'[q] = file[q] /\ ran'[q] = ran[q],
         file'[p] \in 1..FilesOf[p],
         to \in {"apply", "record"} => file'[p] \notin recorded,
         to = "up" => 1..FilesOf[p] \subseteq recorded,
         \A q \in Procs : pc'[q] \in Locked <=> holder' = q,
         to \in Migrating \ {"ensure"} => 1..(file'[p] - 1) \subseteq recorded,
         to = "record" => ran'[p],
         to \notin {"record", "commit"} => ~ran'[p],
         to = "commit" => (ran'[p] <=> file'[p] \notin recorded)
  PROVE  Inv'
<1>1. pc' \in [Procs -> Migrating \cup {"down", "up", "failed"}] /\ pc'[p] = to
      /\ \A q \in Procs \ {p} : pc'[q] = pc[q]
  BY DEF Inv, TypeOK, Go
<1>2. TypeOK'
  BY <1>1 DEF Inv, TypeOK
<1>3. SchemaInOrder' /\ CheckStaysTrue' /\ UpMeansMigrated'
  BY <1>1 DEF Inv, SchemaInOrder, CheckStaysTrue, UpMeansMigrated
<1>4. LockInv'
  BY DEF LockInv
<1>5. StepInv'
  BY <1>1 DEF Inv, StepInv
<1>. QED
  BY <1>2, <1>3, <1>4, <1>5 DEF Inv

LEMMA NextInv == Inv /\ [Next]_vars => Inv'
<1>. SUFFICES ASSUME Inv, [Next]_vars PROVE Inv'
  OBVIOUS
<1>. USE MigrationsAssumption DEF Migrating, Locked
<1>0. CASE UNCHANGED vars
  BY <1>0 DEF vars, Inv, TypeOK, SchemaInOrder, CheckStaysTrue, UpMeansMigrated, LockInv, StepInv
<1>1. ASSUME NEW p \in Procs, StartProcess(p) PROVE Inv'
  <2>1. /\ file[p] \in 1..FilesOf[p] /\ ~ran[p] /\ pc[p] \notin Locked /\ holder # p
        /\ Go(p, "ensure")
    BY <1>1 DEF StartProcess, Inv, TypeOK, StepInv, LockInv
  <2>2. \A q \in Procs : pc'[q] \in Locked <=> holder' = q
    BY <1>1, <2>1 DEF StartProcess, Go, Inv, TypeOK, LockInv
  <2>3. /\ starts' \in [Procs -> Nat] /\ UNCHANGED <<store, recorded, schema, holder, file, ran>>
        /\ file \in [Procs -> Nat] /\ ran \in [Procs -> BOOLEAN] /\ holder \in Procs \cup {Nobody}
    BY <1>1 DEF StartProcess, Inv, TypeOK
  <2>. QED
    BY <2>1, <2>2, <2>3, LocalStep
<1>2. ASSUME NEW p \in Procs, EnsureTable(p) PROVE Inv'
  <2>1. ~ran[p] /\ pc[p] \notin Locked /\ holder # p /\ Go(p, "begin") /\ file'[p] = 1
    BY <1>2 DEF EnsureTable, Inv, TypeOK, StepInv, LockInv
  <2>2. \A q \in Procs : pc'[q] \in Locked <=> holder' = q
    BY <1>2, <2>1 DEF EnsureTable, Go, Inv, TypeOK, LockInv
  <2>3. file' \in [Procs -> Nat] /\ \A q \in Procs \ {p} : file'[q] = file[q]
    BY <1>2 DEF EnsureTable, Inv, TypeOK
  <2>4. 1 \in 1..FilesOf[p] /\ 1..(file'[p] - 1) \subseteq recorded
    BY <2>1 DEF Inv, TypeOK
  <2>. QED
    BY <1>2, <2>1, <2>2, <2>3, <2>4, LocalStep DEF EnsureTable, Inv, TypeOK
<1>3. ASSUME NEW p \in Procs, Begin(p) PROVE Inv'
  <2>1. ~ran[p] /\ pc[p] \notin Locked /\ 1..(file[p] - 1) \subseteq recorded
    BY <1>3 DEF Begin, Inv, TypeOK, StepInv
  <2>2. CASE store = "postgres" /\ Go(p, "lock") /\ UNCHANGED holder
    <3>1. \A q \in Procs : pc'[q] \in Locked <=> holder' = q
      BY <2>1, <2>2 DEF Go, Inv, TypeOK, LockInv
    <3>. QED
      BY <1>3, <2>1, <2>2, <3>1, LocalStep DEF Begin, Inv, TypeOK
  <2>3. CASE holder = Nobody /\ holder' = p /\ Go(p, "check")
    <3>1. \A q \in Procs : pc'[q] \in Locked <=> holder' = q
      BY <2>1, <2>3 DEF Go, Inv, TypeOK, LockInv
    <3>. QED
      BY <1>3, <2>1, <2>3, <3>1, LocalStep DEF Begin, Inv, TypeOK
  <2>. QED
    BY <1>3, <2>2, <2>3 DEF Begin
<1>4. ASSUME NEW p \in Procs, TakeLock(p) PROVE Inv'
  <2>1. ~ran[p] /\ 1..(file[p] - 1) \subseteq recorded /\ Go(p, "check")
    BY <1>4 DEF TakeLock, Inv, TypeOK, StepInv
  <2>2. \A q \in Procs : pc'[q] \in Locked <=> holder' = q
    BY <1>4 DEF TakeLock, Go, Inv, TypeOK, LockInv
  <2>. QED
    BY <1>4, <2>1, <2>2, LocalStep DEF TakeLock, Inv, TypeOK
<1>5. ASSUME NEW p \in Procs, CheckApplied(p) PROVE Inv'
  <2>. DEFINE to == IF file[p] \in recorded THEN "commit" ELSE "apply"
  <2>1. /\ ~ran[p] /\ 1..(file[p] - 1) \subseteq recorded /\ Go(p, to) /\ holder = p
        /\ to \in Locked
    BY <1>5 DEF CheckApplied, Inv, TypeOK, StepInv, LockInv
  <2>2. \A q \in Procs : pc'[q] \in Locked <=> holder' = q
    BY <1>5, <2>1 DEF CheckApplied, Go, Inv, TypeOK, LockInv
  <2>. QED
    BY <1>5, <2>1, <2>2, LocalStep DEF CheckApplied, Inv, TypeOK
<1>6. ASSUME NEW p \in Procs, ApplyFile(p) PROVE Inv'
  <2>1. /\ 1..(file[p] - 1) \subseteq recorded /\ Go(p, "record") /\ file[p] \notin recorded
        /\ ran' \in [Procs -> BOOLEAN] /\ ran'[p] /\ \A q \in Procs \ {p} : ran'[q] = ran[q]
    BY <1>6 DEF ApplyFile, Inv, TypeOK, StepInv, CheckStaysTrue
  <2>2. \A q \in Procs : pc'[q] \in Locked <=> holder' = q
    BY <1>6 DEF ApplyFile, Go, Inv, TypeOK, LockInv
  <2>. QED
    BY <1>6, <2>1, <2>2, LocalStep DEF ApplyFile, Inv, TypeOK
<1>7. ASSUME NEW p \in Procs, RecordFile(p) PROVE Inv'
  <2>1. ran[p] /\ 1..(file[p] - 1) \subseteq recorded /\ Go(p, "commit") /\ file[p] \notin recorded
    BY <1>7 DEF RecordFile, Inv, TypeOK, StepInv
  <2>2. \A q \in Procs : pc'[q] \in Locked <=> holder' = q
    BY <1>7 DEF RecordFile, Go, Inv, TypeOK, LockInv
  <2>. QED
    BY <1>7, <2>1, <2>2, LocalStep DEF RecordFile, Inv, TypeOK
<1>8. ASSUME NEW p \in Procs, Commit(p) PROVE Inv'
  <2>1. /\ schema' \in Seq(Nat) /\ SchemaInOrder'
        /\ recorded' = recorded \cup {file[p]} /\ 1..file[p] \subseteq recorded'
    BY <1>8, CommitKeepsOrder DEF Commit
  <2>2. /\ holder = p /\ holder' = Nobody
        /\ \A q \in Procs \ {p} : pc[q] \notin Locked
    BY <1>8 DEF Commit, Release, Inv, LockInv
  <2>3. PICK to \in {"begin", "up", "failed"} :
          /\ Go(p, to)
          /\ to = "begin" => file[p] < FilesOf[p] /\ file' = [file EXCEPT ![p] = @ + 1]
          /\ to = "up" => ~(file[p] < FilesOf[p])
          /\ to # "begin" => file' = file
    BY <1>8 DEF Commit, AfterFile
  <2>4. /\ pc' \in [Procs -> Migrating \cup {"down", "up", "failed"}] /\ pc'[p] = to
        /\ \A q \in Procs \ {p} : pc'[q] = pc[q]
    BY <2>3 DEF Inv, TypeOK, Go
  <2>5. /\ file' \in [Procs -> Nat]
        /\ \A q \in Procs : file'[q] \in 1..FilesOf[q]
        /\ \A q \in Procs \ {p} : file'[q] = file[q]
        /\ to = "begin" => file'[p] = file[p] + 1
    <3>1. file \in [Procs -> Nat] /\ \A q \in Procs : file[q] \in 1..FilesOf[q]
      BY DEF Inv, TypeOK
    <3>2. CASE to = "begin"
      <4>1. file[p] < FilesOf[p] /\ file' = [file EXCEPT ![p] = @ + 1]
        BY <2>3, <3>2
      <4>2. file[p] + 1 \in 1..FilesOf[p]
        BY <3>1, <4>1
      <4>. QED
        BY <3>1, <4>1, <4>2
    <3>3. CASE to # "begin"
      BY <2>3, <3>1, <3>3
    <3>. QED
      BY <3>2, <3>3
  <2>6. ran' \in [Procs -> BOOLEAN] /\ ~ran'[p] /\ \A q \in Procs \ {p} : ran'[q] = ran[q]
    BY <1>8 DEF Commit, Inv, TypeOK
  <2>7. TypeOK'
    <3>1. store' = store /\ starts' = starts
      BY <1>8 DEF Commit
    <3>2. recorded' \subseteq Nat
      BY <2>1 DEF Inv, TypeOK
    <3>. QED
      BY <2>1, <2>2, <2>4, <2>5, <2>6, <3>1, <3>2 DEF Inv, TypeOK
  <2>8. CheckStaysTrue'
    BY <2>2, <2>3, <2>4 DEF CheckStaysTrue
  <2>9. UpMeansMigrated'
    <3>1. to = "up" => 1..FilesOf[p] \subseteq recorded'
      BY <2>1, <2>3 DEF Inv, TypeOK
    <3>. QED
      BY <2>1, <2>4, <3>1 DEF Inv, UpMeansMigrated
  <2>10. LockInv'
    BY <2>2, <2>3, <2>4 DEF LockInv
  <2>11. StepInv'
    <3>1. to = "begin" => 1..(file'[p] - 1) \subseteq recorded'
      BY <2>1, <2>5 DEF Inv, TypeOK
    <3>. QED
      BY <2>1, <2>2, <2>3, <2>4, <2>5, <2>6, <3>1 DEF Inv, StepInv
  <2>. QED
    BY <2>1, <2>7, <2>8, <2>9, <2>10, <2>11 DEF Inv
<1>9. ASSUME NEW p \in Procs, GiveUp(p) PROVE Inv'
  <2>1. /\ Go(p, "failed") /\ file[p] \in 1..FilesOf[p] /\ holder' # p
        /\ ran' \in [Procs -> BOOLEAN] /\ ~ran'[p] /\ \A q \in Procs \ {p} : ran'[q] = ran[q]
    BY <1>9 DEF GiveUp, Release, Inv, TypeOK
  <2>2. \A q \in Procs : pc'[q] \in Locked <=> holder' = q
    BY <1>9, <2>1 DEF GiveUp, Release, Go, Inv, TypeOK, LockInv
  <2>3. holder' \in Procs \cup {Nobody}
    BY <1>9 DEF GiveUp, Release, Inv, TypeOK
  <2>. QED
    BY <1>9, <2>1, <2>2, <2>3, LocalStep DEF GiveUp, Inv, TypeOK
<1>10. ASSUME NEW p \in Procs, StopProcess(p) PROVE Inv'
  <2>1. file[p] \in 1..FilesOf[p] /\ ~ran[p] /\ pc[p] \notin Locked /\ Go(p, "down")
    BY <1>10 DEF StopProcess, Inv, TypeOK, StepInv
  <2>2. \A q \in Procs : pc'[q] \in Locked <=> holder' = q
    BY <1>10, <2>1 DEF StopProcess, Go, Inv, TypeOK, LockInv
  <2>. QED
    BY <1>10, <2>1, <2>2, LocalStep DEF StopProcess, Inv, TypeOK
<1>. QED
  BY <1>0, <1>1, <1>2, <1>3, <1>4, <1>5, <1>6, <1>7, <1>8, <1>9, <1>10 DEF Next, Migrate

LEMMA SpecInv == Spec => []Inv
  BY InitInv, NextInv, PTL DEF Spec

\* Every variable keeps its type, and no process leaves the list of its files.
THEOREM TypeCorrect == Spec => []TypeOK
  BY SpecInv, PTL DEF Inv

\* The schema is a prefix of the files, each once and in order, and the records
\* say which, for any number of processes, starts, crashes and ages of binary.
THEOREM SchemaAlwaysInOrder == Spec => []SchemaInOrder
  BY SpecInv, PTL DEF Inv

\* What a process has checked under the lock stays true while it holds it.
THEOREM CheckAlwaysStaysTrue == Spec => []CheckStaysTrue
  BY SpecInv, PTL DEF Inv

\* A process serves only on a schema that has all its files.
THEOREM UpAlwaysMeansMigrated == Spec => []UpMeansMigrated
  BY SpecInv, PTL DEF Inv
=============================================================================
