-------------------------- MODULE MigrationsProofs --------------------------
(***************************************************************************)
(* For any number of replicas, files, images and crashes: every migration  *)
(* takes effect once, in order, and before a replica that needs it serves. *)
(*                                                                         *)
(* The properties are about what is committed; what makes them inductive   *)
(* is what each open transaction has staged.  No two transactions record   *)
(* the same version, because the second waits for the first and then finds *)
(* its version there; and each has run exactly what it records.            *)
(***************************************************************************)
EXTENDS Migrations, TLAPS

\* What a transaction sees recorded: the committed versions and its own.
Seen(r) == recorded \cup staged[r].recorded

\* No two transactions, and none and the table, hold the same version.
VersionsApart ==
  \A r \in Replicas :
    /\ staged[r].recorded \cap recorded = {}
    /\ \A d \in Replicas : d # r => staged[r].recorded \cap staged[d].recorded = {}

Prefix(files) == \A i \in files : 1..i \subseteq files

\* Between two statements: what a replica has run, recorded and passed by.
ReplicaState(r) ==
  /\ staged[r].recorded \subseteq 1..(next[r] - 1)
  /\ pc[r] # "record" => staged[r].run = staged[r].recorded
  /\ pc[r] = "record" => staged[r].run = staged[r].recorded \cup {next[r]}
  /\ pc[r] \in {"down", "ensure", "create", "serving"} => staged[r].recorded = {}
  /\ pc[r] \in {"check", "apply", "record", "commit"} => 1..(next[r] - 1) \subseteq Seen(r)
  /\ pc[r] \in {"ensure", "create"} => next[r] = 1
  /\ pc[r] \in {"apply", "record"} => next[r] <= Image[r]
  /\ pc[r] = "commit" => next[r] > Image[r]
  /\ pc[r] = "serving" => 1..Image[r] \subseteq recorded

MigrationInvariant ==
  /\ TypeOK
  /\ AppliedOnce
  /\ VersionsApart
  /\ Prefix(recorded)
  /\ \A r \in Replicas : ReplicaState(r)

-----------------------------------------------------------------------------
\* The invariant holds before anything is migrated.
LEMMA InitInvariant == Init => MigrationInvariant
  <1> SUFFICES ASSUME Init PROVE MigrationInvariant
    OBVIOUS
  <1>1. TypeOK
    <2>1. next \in [Replicas -> 1..(Files + 1)] /\ runs \in [1..Files -> Nat]
      BY MigrationsAssumption DEF Init
    <2>2. staged \in [Replicas -> [table : BOOLEAN, run : SUBSET (1..Files),
                                    recorded : SUBSET (1..Files)]]
      BY DEF Init, NoWrites
    <2> QED
      BY <2>1, <2>2 DEF Init, TypeOK
  <1>2. AppliedOnce /\ VersionsApart /\ Prefix(recorded)
    BY DEF Init, AppliedOnce, VersionsApart, Prefix, NoWrites
  <1>3. ASSUME NEW r \in Replicas PROVE ReplicaState(r)
    BY DEF Init, ReplicaState, Seen, NoWrites
  <1> QED
    BY <1>1, <1>2, <1>3 DEF MigrationInvariant

\* A replica that moves on without touching the database disturbs nobody: only
\* its own state has to be looked at.
LEMMA LocalStep ==
  ASSUME MigrationInvariant, NEW r \in Replicas, TypeOK',
         UNCHANGED <<recorded, runs>>,
         staged'[r].recorded \subseteq staged[r].recorded,
         \A d \in Replicas \ {r} :
           staged'[d] = staged[d] /\ pc'[d] = pc[d] /\ next'[d] = next[d],
         ReplicaState(r)'
  PROVE  MigrationInvariant'
  <1>1. AppliedOnce' /\ Prefix(recorded)'
    BY DEF MigrationInvariant, AppliedOnce, Prefix
  <1>2. VersionsApart'
    BY DEF MigrationInvariant, VersionsApart
  <1>3. ASSUME NEW d \in Replicas, d # r PROVE ReplicaState(d)'
    BY <1>3 DEF MigrationInvariant, ReplicaState, Seen
  <1> QED
    BY <1>1, <1>2, <1>3 DEF MigrationInvariant

\* A transaction that is rolled back, by an error or a crash, leaves nothing.
LEMMA Restart ==
  ASSUME MigrationInvariant, NEW r \in Replicas,
         pc' = [pc EXCEPT ![r] = "down"],
         staged' = [staged EXCEPT ![r] = NoWrites],
         crashes' \in Nat,
         UNCHANGED <<table, recorded, runs, next>>
  PROVE  MigrationInvariant'
  <1>1. TypeOK'
    BY DEF MigrationInvariant, TypeOK, NoWrites
  <1>2. /\ staged'[r].recorded = {} /\ staged'[r].run = {}
        /\ pc'[r] = "down" /\ next'[r] \in Nat
    BY MigrationsAssumption DEF MigrationInvariant, TypeOK, NoWrites
  <1>3. ReplicaState(r)'
    BY <1>2 DEF ReplicaState
  <1>4. \A d \in Replicas \ {r} :
          staged'[d] = staged[d] /\ pc'[d] = pc[d] /\ next'[d] = next[d]
    BY DEF MigrationInvariant, TypeOK
  <1> QED
    BY <1>1, <1>2, <1>3, <1>4, LocalStep

\* ApplyMigrations begins.
LEMMA StartStep ==
  ASSUME MigrationInvariant, NEW r \in Replicas, Start(r)
  PROVE  MigrationInvariant'
  <1>1. TypeOK'
    BY MigrationsAssumption DEF MigrationInvariant, TypeOK, Start, Goto
  <1>2. ReplicaState(r)'
    BY DEF MigrationInvariant, TypeOK, ReplicaState, Seen, Start, Goto
  <1>3. \A d \in Replicas \ {r} :
          staged'[d] = staged[d] /\ pc'[d] = pc[d] /\ next'[d] = next[d]
    BY DEF MigrationInvariant, TypeOK, Start, Goto
  <1> QED
    BY <1>1, <1>2, <1>3, LocalStep DEF Start

\* The loop has passed no file yet when the table is there.
LEMMA EnsureTableStep ==
  ASSUME MigrationInvariant, NEW r \in Replicas, EnsureTable(r) \/ CreateTable(r)
  PROVE  MigrationInvariant'
  <1>1. CASE EnsureTable(r)
    <2>1. TypeOK'
      BY <1>1 DEF MigrationInvariant, TypeOK, EnsureTable, Goto
    <2>2. ReplicaState(r)'
      BY <1>1 DEF MigrationInvariant, TypeOK, ReplicaState, Seen, EnsureTable, Goto
    <2>3. \A d \in Replicas \ {r} :
            staged'[d] = staged[d] /\ pc'[d] = pc[d] /\ next'[d] = next[d]
      BY <1>1 DEF MigrationInvariant, TypeOK, EnsureTable, Goto
    <2> QED
      BY <1>1, <2>1, <2>2, <2>3, LocalStep DEF EnsureTable
  <1>2. CASE CreateTable(r) /\ table
    BY <1>2, Restart DEF CreateTable, Fail, Goto, MigrationInvariant, TypeOK
  <1>3. CASE CreateTable(r) /\ ~table
    <2>1. TypeOK'
      BY <1>3 DEF MigrationInvariant, TypeOK, CreateTable, Fail, Goto
    <2>2. ReplicaState(r)'
      BY <1>3 DEF MigrationInvariant, TypeOK, ReplicaState, Seen, CreateTable, Fail, Goto
    <2>3. \A d \in Replicas \ {r} :
            staged'[d] = staged[d] /\ pc'[d] = pc[d] /\ next'[d] = next[d]
      BY <1>3 DEF MigrationInvariant, TypeOK, CreateTable, Fail, Goto
    <2>4. staged'[r].recorded = staged[r].recorded /\ UNCHANGED <<recorded, runs>>
      BY <1>3 DEF MigrationInvariant, TypeOK, CreateTable, Fail, Goto
    <2> QED
      BY <2>1, <2>2, <2>3, <2>4, LocalStep
  <1> QED
    BY <1>1, <1>2, <1>3

\* The loop passes a file that is recorded, or ends.
LEMMA CheckAppliedStep ==
  ASSUME MigrationInvariant, NEW r \in Replicas, CheckApplied(r)
  PROVE  MigrationInvariant'
  <1>1. /\ pc[r] = "check" /\ next[r] \in 1..(Files + 1) /\ Files \in Nat
        /\ Image[r] \in 0..Files /\ ReplicaState(r)
    BY MigrationsAssumption DEF MigrationInvariant, TypeOK, CheckApplied
  <1>2. \A d \in Replicas \ {r} :
          staged'[d] = staged[d] /\ pc'[d] = pc[d] /\ next'[d] = next[d]
    BY DEF MigrationInvariant, TypeOK, CheckApplied, Goto
  <1>3. CASE next[r] > Image[r] /\ Goto(r, "commit") /\ UNCHANGED next
    <2>1. TypeOK'
      BY <1>3 DEF MigrationInvariant, TypeOK, CheckApplied, Goto
    <2>2. pc'[r] = "commit" /\ UNCHANGED <<next, staged, recorded>>
      BY <1>3 DEF MigrationInvariant, TypeOK, CheckApplied, Goto
    <2>3. ReplicaState(r)'
      BY <1>1, <1>3, <2>2 DEF ReplicaState, Seen
    <2> QED
      BY <1>2, <2>1, <2>2, <2>3, LocalStep DEF CheckApplied
  <1>4. CASE /\ next[r] <= Image[r] /\ File(r) \in recorded
             /\ next' = [next EXCEPT ![r] = @ + 1] /\ UNCHANGED pc
    <2>1. TypeOK'
      BY <1>1, <1>4 DEF MigrationInvariant, TypeOK, CheckApplied
    <2>2. next'[r] = next[r] + 1 /\ UNCHANGED <<pc, staged, recorded>>
      BY <1>4 DEF MigrationInvariant, TypeOK, CheckApplied
    <2>3. 1..(next'[r] - 1) \subseteq 1..(next[r] - 1) \cup {next[r]}
      BY <1>1, <2>2
    <2>4. 1..(next[r] - 1) \subseteq 1..(next'[r] - 1)
      BY <1>1, <2>2
    <2>5. ReplicaState(r)'
      BY <1>1, <1>4, <2>2, <2>3, <2>4 DEF ReplicaState, Seen, File
    <2> QED
      BY <1>2, <2>1, <2>2, <2>5, LocalStep DEF CheckApplied
  <1>5. CASE next[r] <= Image[r] /\ Goto(r, "apply") /\ UNCHANGED next
    <2>1. TypeOK'
      BY <1>5 DEF MigrationInvariant, TypeOK, CheckApplied, Goto
    <2>2. pc'[r] = "apply" /\ UNCHANGED <<next, staged, recorded>>
      BY <1>5 DEF MigrationInvariant, TypeOK, CheckApplied, Goto
    <2>3. ReplicaState(r)'
      BY <1>1, <1>5, <2>2 DEF ReplicaState, Seen
    <2> QED
      BY <1>2, <2>1, <2>2, <2>3, LocalStep DEF CheckApplied
  <1> QED
    BY <1>3, <1>4, <1>5 DEF CheckApplied

\* The file runs, or the replica gives up because another's has.
LEMMA ApplyFileStep ==
  ASSUME MigrationInvariant, NEW r \in Replicas, ApplyFile(r)
  PROVE  MigrationInvariant'
  <1>1. /\ pc[r] = "apply" /\ next[r] \in 1..Files /\ Files \in Nat
        /\ Image[r] \in 0..Files /\ ReplicaState(r)
    BY MigrationsAssumption DEF MigrationInvariant, TypeOK, ApplyFile, ReplicaState
  <1>2. CASE Fail(r)
    BY <1>2, Restart DEF Fail, Goto, MigrationInvariant, TypeOK
  <1>3. CASE /\ staged' = [staged EXCEPT ![r].run = @ \cup {File(r)}]
             /\ Goto(r, "record")
             /\ UNCHANGED <<table, recorded, runs, next, crashes>>
    <2>1. TypeOK'
      BY <1>1, <1>3 DEF MigrationInvariant, TypeOK, Goto, File
    <2>2. /\ pc'[r] = "record" /\ staged'[r].run = staged[r].run \cup {next[r]}
          /\ staged'[r].recorded = staged[r].recorded
          /\ UNCHANGED <<next, recorded, runs>>
      BY <1>3 DEF MigrationInvariant, TypeOK, Goto, File
    <2>3. \A d \in Replicas \ {r} :
            staged'[d] = staged[d] /\ pc'[d] = pc[d] /\ next'[d] = next[d]
      BY <1>3 DEF MigrationInvariant, TypeOK, Goto
    <2>4. ReplicaState(r)'
      BY <1>1, <2>2 DEF ReplicaState, Seen
    <2> QED
      BY <2>1, <2>2, <2>3, <2>4, LocalStep
  <1> QED
    BY <1>2, <1>3 DEF ApplyFile

\* The version is recorded: nobody else has, and nobody else will.
LEMMA RecordVersionStep ==
  ASSUME MigrationInvariant, NEW r \in Replicas, RecordVersion(r)
  PROVE  MigrationInvariant'
  <1>1. /\ pc[r] = "record" /\ next[r] \in 1..Files /\ Files \in Nat
        /\ Image[r] \in 0..Files /\ ReplicaState(r)
    BY MigrationsAssumption DEF MigrationInvariant, TypeOK, RecordVersion, ReplicaState
  <1>2. CASE Fail(r)
    BY <1>2, Restart DEF Fail, Goto, MigrationInvariant, TypeOK
  <1>3. CASE /\ File(r) \notin recorded
             /\ staged' = [staged EXCEPT ![r].recorded = @ \cup {File(r)}]
             /\ next' = [next EXCEPT ![r] = @ + 1]
             /\ Goto(r, "check")
             /\ UNCHANGED <<table, recorded, runs, crashes>>
    <2>1. TypeOK'
      <3>1. next' \in [Replicas -> 1..(Files + 1)]
        BY <1>1, <1>3 DEF MigrationInvariant, TypeOK
      <3>2. staged' \in [Replicas -> [table : BOOLEAN, run : SUBSET (1..Files),
                                      recorded : SUBSET (1..Files)]]
        BY <1>1, <1>3 DEF MigrationInvariant, TypeOK, File
      <3> QED
        BY <1>3, <3>1, <3>2 DEF MigrationInvariant, TypeOK, Goto
    <2>2. /\ pc'[r] = "check" /\ next'[r] = next[r] + 1
          /\ staged'[r].run = staged[r].run
          /\ staged'[r].recorded = staged[r].recorded \cup {next[r]}
      BY <1>3 DEF MigrationInvariant, TypeOK, Goto, File
    <2>3. \A d \in Replicas \ {r} :
            staged'[d] = staged[d] /\ pc'[d] = pc[d] /\ next'[d] = next[d]
      BY <1>3 DEF MigrationInvariant, TypeOK, Goto
    <2>4. 1..(next'[r] - 1) = 1..(next[r] - 1) \cup {next[r]}
      BY <1>1, <2>2
    <2>5. ReplicaState(r)'
      BY <1>1, <1>3, <2>2, <2>4 DEF ReplicaState, Seen
    <2>6. ASSUME NEW d \in Replicas, d # r PROVE ReplicaState(d)'
      BY <1>3, <2>3, <2>6 DEF MigrationInvariant, ReplicaState, Seen
    <2>7. VersionsApart'
      <3>1. next[r] \notin recorded
        BY <1>3 DEF File
      <3>2. \A d \in Replicas \ {r} : next[r] \notin staged[d].recorded
        BY DEF RecordVersion, Others, File
      <3> QED
        BY <1>3, <2>2, <2>3, <3>1, <3>2 DEF MigrationInvariant, VersionsApart
    <2>8. AppliedOnce' /\ Prefix(recorded)'
      BY <1>3 DEF MigrationInvariant, AppliedOnce, Prefix
    <2> QED
      BY <2>1, <2>5, <2>6, <2>7, <2>8 DEF MigrationInvariant
  <1> QED
    BY <1>2, <1>3 DEF RecordVersion

\* What was run and recorded becomes visible at once.
LEMMA CommitStep ==
  ASSUME MigrationInvariant, NEW r \in Replicas, Commit(r)
  PROVE  MigrationInvariant'
  <1>1. /\ pc[r] = "commit" /\ next[r] \in 1..(Files + 1) /\ Files \in Nat
        /\ Image[r] \in 0..Files /\ ReplicaState(r)
    BY MigrationsAssumption DEF MigrationInvariant, TypeOK, Commit
  <1>2. recorded' = recorded \cup staged[r].recorded /\ staged[r].run = staged[r].recorded
    BY <1>1 DEF Commit, ReplicaState
  <1>3. TypeOK'
    <2>1. runs' \in [1..Files -> Nat]
      <3>1. ASSUME NEW i \in 1..Files
            PROVE  runs[i] + (IF i \in staged[r].run THEN 1 ELSE 0) \in Nat
        BY DEF MigrationInvariant, TypeOK
      <3> QED
        BY <3>1 DEF Commit
    <2>2. NoWrites \in [table : BOOLEAN, run : SUBSET (1..Files),
                         recorded : SUBSET (1..Files)]
      BY DEF NoWrites
    <2>3. table' \in BOOLEAN /\ recorded' \subseteq 1..Files
      BY DEF MigrationInvariant, TypeOK, Commit
    <2> QED
      BY <2>1, <2>2, <2>3 DEF MigrationInvariant, TypeOK, Commit, Goto
  <1>4. AppliedOnce'
    <2> SUFFICES ASSUME NEW i \in 1..Files
                 PROVE  runs'[i] = IF i \in recorded' THEN 1 ELSE 0
      BY DEF AppliedOnce
    <2>1. runs'[i] = runs[i] + IF i \in staged[r].run THEN 1 ELSE 0
      BY DEF Commit
    <2>2. runs[i] = IF i \in recorded THEN 1 ELSE 0
      BY DEF MigrationInvariant, AppliedOnce
    <2>3. ~(i \in recorded /\ i \in staged[r].recorded)
      BY DEF MigrationInvariant, VersionsApart
    <2> QED
      BY <1>2, <2>1, <2>2, <2>3
  <1>5. /\ pc'[r] = "serving" /\ staged'[r].recorded = {} /\ staged'[r].run = {}
        /\ UNCHANGED next
    BY DEF MigrationInvariant, TypeOK, Commit, Goto, NoWrites
  <1>6. \A d \in Replicas \ {r} : staged'[d] = staged[d] /\ pc'[d] = pc[d]
    BY DEF MigrationInvariant, TypeOK, Commit, Goto
  <1>7. VersionsApart'
    BY <1>2, <1>5, <1>6 DEF MigrationInvariant, VersionsApart
  <1>8. Prefix(recorded)'
    <2> SUFFICES ASSUME NEW i \in recorded' PROVE 1..i \subseteq recorded'
      BY DEF Prefix
    <2>1. CASE i \in recorded
      BY <1>2, <2>1 DEF MigrationInvariant, Prefix
    <2>2. CASE i \in staged[r].recorded
      <3>1. i \in 1..(next[r] - 1) /\ 1..(next[r] - 1) \subseteq recorded'
        BY <1>1, <1>2, <2>2 DEF ReplicaState, Seen
      <3>2. 1..i \subseteq 1..(next[r] - 1)
        BY <1>1, <3>1
      <3> QED
        BY <3>1, <3>2
    <2> QED
      BY <1>2, <2>1, <2>2
  <1>9. ReplicaState(r)'
    <2>1. 1..Image[r] \subseteq 1..(next[r] - 1)
      BY <1>1 DEF ReplicaState
    <2>2. 1..Image[r] \subseteq recorded'
      BY <1>1, <1>2, <2>1 DEF ReplicaState, Seen
    <2> QED
      BY <1>1, <1>5, <2>2 DEF ReplicaState
  <1>10. ASSUME NEW d \in Replicas, d # r PROVE ReplicaState(d)'
    <2>1. ReplicaState(d) /\ recorded \subseteq recorded'
      BY <1>2 DEF MigrationInvariant
    <2> QED
      BY <1>5, <1>6, <1>10, <2>1 DEF ReplicaState, Seen
  <1> QED
    BY <1>3, <1>4, <1>7, <1>8, <1>9, <1>10 DEF MigrationInvariant

\* A replica is killed wherever it is.
LEMMA CrashStep ==
  ASSUME MigrationInvariant, NEW r \in Replicas, Crash(r)
  PROVE  MigrationInvariant'
  <1>1. crashes' \in Nat
    BY DEF Crash, MigrationInvariant, TypeOK
  <1> QED
    BY <1>1, Restart DEF Crash, Goto

\* The invariant holds at every statement of every replica.
THEOREM InvariantHolds == Spec => []MigrationInvariant
  <1>1. MigrationInvariant /\ [Next]_vars => MigrationInvariant'
    <2> SUFFICES ASSUME MigrationInvariant, [Next]_vars PROVE MigrationInvariant'
      OBVIOUS
    <2>1. ASSUME NEW r \in Replicas, Step(r) PROVE MigrationInvariant'
      BY <2>1, StartStep, EnsureTableStep, CheckAppliedStep, ApplyFileStep,
         RecordVersionStep, CommitStep DEF Step
    <2>2. ASSUME NEW r \in Replicas, Crash(r) PROVE MigrationInvariant'
      BY <2>2, CrashStep
    <2>3. CASE UNCHANGED vars
      BY <2>3 DEF vars, MigrationInvariant, TypeOK, AppliedOnce, VersionsApart,
         Prefix, ReplicaState, Seen
    <2> QED
      BY <2>1, <2>2, <2>3 DEF Next
  <1> QED
    BY InitInvariant, <1>1, PTL DEF Spec

\* However many replicas start together, run the same file and are killed, every
\* file takes effect exactly once, with its version recorded.
THEOREM EveryMigrationOnce == Spec => []AppliedOnce
  <1>1. MigrationInvariant => AppliedOnce
    BY DEF MigrationInvariant
  <1> QED
    BY InvariantHolds, <1>1, PTL

\* No transaction ever sees a file applied without all earlier ones, whichever
\* releases run side by side.
THEOREM MigrationsInOrder == Spec => []AppliedInOrder
  <1>1. MigrationInvariant => AppliedInOrder
    <2> SUFFICES ASSUME MigrationInvariant, NEW r \in Replicas, NEW i \in Visible(r)
                 PROVE  1..i \subseteq Visible(r)
      BY DEF AppliedInOrder
    <2>1. /\ ReplicaState(r) /\ next[r] \in 1..(Files + 1) /\ Files \in Nat
          /\ Prefix(recorded)
      BY MigrationsAssumption DEF MigrationInvariant, TypeOK
    <2>2. CASE i \in recorded
      BY <2>1, <2>2 DEF Prefix, Visible
    <2>3. CASE i \in staged[r].run
      <3>1. pc[r] \in {"check", "apply", "record", "commit"}
        BY <2>1, <2>3 DEF ReplicaState, MigrationInvariant, TypeOK
      <3>2. staged[r].recorded \subseteq staged[r].run
        BY <2>1 DEF ReplicaState
      <3>3. 1..(next[r] - 1) \subseteq Visible(r)
        BY <2>1, <3>1, <3>2 DEF ReplicaState, Seen, Visible
      <3>4. i \in 1..(next[r] - 1) \/ i = next[r]
        BY <2>1, <2>3 DEF ReplicaState
      <3>5. 1..i \subseteq 1..(next[r] - 1) \cup {i}
        BY <2>1, <3>4
      <3> QED
        BY <3>3, <3>5
    <2> QED
      BY <2>2, <2>3 DEF Visible
  <1> QED
    BY InvariantHolds, <1>1, PTL

\* A replica that serves finds the whole schema of its image.
THEOREM ServingMeansMigrated == Spec => []ServesMigrated
  <1>1. MigrationInvariant => ServesMigrated
    BY DEF MigrationInvariant, ReplicaState, ServesMigrated
  <1> QED
    BY InvariantHolds, <1>1, PTL

\* What a replica remembers and stages, and what is recorded, keeps its type: no
\* transaction ever holds a version that is no file.
THEOREM TypesHold == Spec => []TypeOK
  <1>1. MigrationInvariant => TypeOK
    BY DEF MigrationInvariant
  <1> QED
    BY InvariantHolds, <1>1, PTL

=============================================================================
