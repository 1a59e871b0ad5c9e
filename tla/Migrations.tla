----------------------------- MODULE Migrations -----------------------------
(***************************************************************************)
(* Replicas of the service that start at the same time and bring the       *)
(* schema up to date (internal/db/migrate.go): each runs ApplyMigrations   *)
(* in one transaction, and serves once it has committed.  A replica whose  *)
(* migrations fail exits, and so does one that is killed; it is started    *)
(* again.                                                                  *)
(*                                                                         *)
(* The files of an image are numbered in the order of their names.  During *)
(* a rolling update images of two releases run side by side: the image of  *)
(* a replica holds the first Image[r] files.                               *)
(***************************************************************************)
EXTENDS Integers

CONSTANTS
  Replicas,
  Image,          \* Image[r]: how many migration files the image of r holds
  Files,          \* the number of files of the newest image
  Creating,       \* the files whose second run fails, because they create objects
  MaxCrashes      \* bound: how often replicas are killed

ASSUME MigrationsAssumption ==
  /\ Files \in Nat
  /\ Image \in [Replicas -> 0..Files]
  /\ Creating \subseteq 1..Files
  /\ MaxCrashes \in Nat

VARIABLES
  (* The database, as committed. *)
  table,          \* whether schema_migrations exists
  recorded,       \* the versions in schema_migrations
  runs,           \* runs[i]: how often the content of file i took effect
  (* The replicas. *)
  pc,             \* the next statement of each replica
  next,           \* the file its loop has come to
  staged,         \* the uncommitted writes of its transaction
  crashes         \* replicas killed so far

vars == <<table, recorded, runs, pc, next, staged, crashes>>

NoWrites == [table |-> FALSE, run |-> {}, recorded |-> {}]

Init ==
  /\ table = FALSE
  /\ recorded = {}
  /\ runs = [i \in 1..Files |-> 0]
  /\ pc = [r \in Replicas |-> "down"]
  /\ next = [r \in Replicas |-> 1]
  /\ staged = [r \in Replicas |-> NoWrites]
  /\ crashes = 0

Goto(r, label) == pc' = [pc EXCEPT ![r] = label]

\* PostgreSQL: a statement that inserts a unique key, a version or the catalog
\* entry of a table, waits for the end of any other transaction that has inserted
\* the same one.
Others(r) == Replicas \ {r}

\* Mutant: a failure is logged, and the replica serves.
FailAndServe(r) ==
  /\ Goto(r, "serving")
  /\ staged' = [staged EXCEPT ![r] = NoWrites]
  /\ UNCHANGED <<table, recorded, runs, next, crashes>>

\* A statement failed: BeginFunc rolls back, main exits.
Fail(r) ==
  /\ Goto(r, "down")
  /\ staged' = [staged EXCEPT ![r] = NoWrites]
  /\ UNCHANGED <<table, recorded, runs, next, crashes>>

-----------------------------------------------------------------------------
\* main calls ApplyMigrations, which begins the transaction.
Start(r) ==
  /\ pc[r] = "down"
  /\ Goto(r, "ensure")
  /\ next' = [next EXCEPT ![r] = 1]
  /\ UNCHANGED <<table, recorded, runs, staged, crashes>>

\* CREATE TABLE IF NOT EXISTS schema_migrations: the test for the table does
\* not see one that another transaction has not committed yet, ...
EnsureTable(r) ==
  /\ pc[r] = "ensure"
  /\ Goto(r, IF table THEN "check" ELSE "create")
  /\ UNCHANGED <<table, recorded, runs, next, staged, crashes>>

\* ... and then waits for it, and fails if it was committed after all.
CreateTable(r) ==
  /\ pc[r] = "create"
  /\ \A d \in Others(r) : ~staged[d].table
  /\ \/ table /\ Fail(r)
     \/ /\ ~table
        /\ staged' = [staged EXCEPT ![r].table = TRUE]
        /\ Goto(r, "check")
        /\ UNCHANGED <<table, recorded, runs, next, crashes>>

\* Mutant: the loop begins before the first file.
FileFromZero(r) == next[r] - 1

\* Mutant: the files are taken in descending order.
FileDescending(r) == Image[r] + 1 - next[r]

\* The file at the head of the loop over the sorted entries.
File(r) == next[r]

\* SELECT EXISTS (... WHERE version = $1): the loop skips what is recorded and
\* ends after the last file.
CheckApplied(r) ==
  /\ pc[r] = "check"
  /\ \/ /\ next[r] > Image[r]
        /\ Goto(r, "commit")
        /\ UNCHANGED next
     \/ /\ next[r] <= Image[r]
        /\ File(r) \in recorded
        /\ next' = [next EXCEPT ![r] = @ + 1]
        /\ UNCHANGED pc
     \/ /\ next[r] <= Image[r]
        /\ File(r) \notin recorded
        /\ Goto(r, "apply")
        /\ UNCHANGED next
  /\ UNCHANGED <<table, recorded, runs, staged, crashes>>

\* tx.Exec(content).  CREATE TABLE waits for another transaction that creates
\* the same table and fails if it exists; a file that creates nothing, say one
\* that rewrites data, runs whether or not another has run it.
ApplyFile(r) ==
  /\ pc[r] = "apply"
  /\ File(r) \in Creating => \A d \in Others(r) : File(r) \notin staged[d].run
  /\ \/ /\ File(r) \in Creating /\ runs[File(r)] > 0
        /\ Fail(r)
     \/ /\ ~(File(r) \in Creating /\ runs[File(r)] > 0)
        /\ staged' = [staged EXCEPT ![r].run = @ \cup {File(r)}]
        /\ Goto(r, "record")
        /\ UNCHANGED <<table, recorded, runs, next, crashes>>

\* Mutant: INSERT ... ON CONFLICT DO NOTHING.
RecordUnlessThere(r) ==
  /\ pc[r] = "record"
  /\ \A d \in Others(r) : File(r) \notin staged[d].recorded
  /\ staged' = [staged EXCEPT ![r].recorded = @ \cup {File(r)}]
  /\ next' = [next EXCEPT ![r] = @ + 1]
  /\ Goto(r, "check")
  /\ UNCHANGED <<table, recorded, runs, crashes>>

\* Mutant: the version is not recorded.
RecordNothing(r) ==
  /\ pc[r] = "record"
  /\ next' = [next EXCEPT ![r] = @ + 1]
  /\ Goto(r, "check")
  /\ UNCHANGED <<table, recorded, runs, staged, crashes>>

\* INSERT INTO schema_migrations, whose primary key is the version.
RecordVersion(r) ==
  /\ pc[r] = "record"
  /\ \A d \in Others(r) : File(r) \notin staged[d].recorded
  /\ \/ File(r) \in recorded /\ Fail(r)
     \/ /\ File(r) \notin recorded
        /\ staged' = [staged EXCEPT ![r].recorded = @ \cup {File(r)}]
        /\ next' = [next EXCEPT ![r] = @ + 1]
        /\ Goto(r, "check")
        /\ UNCHANGED <<table, recorded, runs, crashes>>

\* The end of BeginFunc; main goes on to serve.
Commit(r) ==
  /\ pc[r] = "commit"
  /\ table' = (table \/ staged[r].table)
  /\ recorded' = recorded \cup staged[r].recorded
  /\ runs' = [i \in 1..Files |-> runs[i] + IF i \in staged[r].run THEN 1 ELSE 0]
  /\ staged' = [staged EXCEPT ![r] = NoWrites]
  /\ Goto(r, "serving")
  /\ UNCHANGED <<next, crashes>>

\* The process is killed, or loses the database: PostgreSQL rolls back.
Crash(r) ==
  /\ crashes < MaxCrashes
  /\ pc[r] # "down"
  /\ Goto(r, "down")
  /\ staged' = [staged EXCEPT ![r] = NoWrites]
  /\ crashes' = crashes + 1
  /\ UNCHANGED <<table, recorded, runs, next>>

Step(r) ==
  \/ Start(r) \/ EnsureTable(r) \/ CreateTable(r) \/ CheckApplied(r)
  \/ ApplyFile(r) \/ RecordVersion(r) \/ Commit(r)

Next == \E r \in Replicas : Step(r) \/ Crash(r)

Spec == Init /\ [][Next]_vars

\* A replica is started again whenever it is down (Kubernetes does that), and
\* a statement that waits for nobody is executed.
FairSpec == Spec /\ \A r \in Replicas : WF_vars(Step(r))

-----------------------------------------------------------------------------
(***************************************************************************)
(* Properties.                                                             *)
(***************************************************************************)

\* The variables hold values of their types; what is run and recorded are files.
TypeOK ==
  /\ table \in BOOLEAN
  /\ recorded \subseteq 1..Files
  /\ runs \in [1..Files -> Nat]
  /\ pc \in [Replicas -> {"down", "ensure", "create", "check", "apply", "record",
                           "commit", "serving"}]
  /\ next \in [Replicas -> 1..(Files + 1)]
  /\ staged \in [Replicas -> [table : BOOLEAN, run : SUBSET (1..Files),
                               recorded : SUBSET (1..Files)]]
  /\ crashes \in Nat

\* Every file took effect once if its version is recorded, and not at all
\* otherwise, however many replicas found it missing and ran it, and wherever
\* one of them was killed.
AppliedOnce == \A i \in 1..Files : runs[i] = IF i \in recorded THEN 1 ELSE 0

\* A file is run only by a transaction that sees all earlier ones applied, by
\* others or by itself, so no schema is ever missing one in the middle: also
\* when replicas of two releases start together.
Visible(r) == recorded \cup staged[r].run

AppliedInOrder == \A r \in Replicas : \A i \in Visible(r) : 1..i \subseteq Visible(r)

\* A replica serves only when every file of its image is applied, also if it
\* had to give way to another replica on the way.
ServesMigrated ==
  \A r \in Replicas : pc[r] = "serving" => 1..Image[r] \subseteq recorded

\* In the end every replica serves: one that has to fail has lost to another
\* that committed, and none waits for ever.
EveryReplicaServes == <>[](\A r \in Replicas : pc[r] = "serving")

=============================================================================
