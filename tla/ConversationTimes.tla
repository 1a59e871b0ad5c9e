-------------------------- MODULE ConversationTimes --------------------------
(***************************************************************************)
(* The dates of ConversationStore: updated_at of a conversation (which     *)
(* GetConversation, append and the range operations answer), created_at of *)
(* messages and snapshots, and the created_at a snapshot copies.           *)
(*                                                                         *)
(* All of them are NOW(), which in PostgreSQL is the time at which the     *)
(* transaction began, not that of the statement or of the commit: a        *)
(* transaction that began first and waited for the row commits last, and   *)
(* takes updated_at back while version goes up.  What callers can still    *)
(* rely on is about calls made after an answer.                            *)
(*                                                                         *)
(* Time passes at least between a commit and what is begun after it;       *)
(* transactions begun between two commits may get the same date.           *)
(***************************************************************************)
EXTENDS ConversationStore

VARIABLES
  clock,            \* the clock of the database
  started,          \* NOW() of each transaction; 0 before its BEGIN
  updated_at,       \* the column of conversations; 0 without a row
  created_at,       \* the column of messages; 0 before the message is committed
  snapshot_created_at,     \* the column of snapshots
  item_created_at,  \* the column of snapshot_items: the dates in each snapshot
  seen              \* bookkeeping: updated_at when the call under way was made

dates   == <<updated_at, created_at, snapshot_created_at, item_created_at>>
datedVars == <<vars, clock, started, dates, seen>>

TimesInit ==
  /\ Init
  /\ clock = 1
  /\ started = [c \in Clients |-> 0]
  /\ updated_at = [cv \in ConversationIds |-> 0]
  /\ created_at = [m \in MessageIds |-> 0]
  /\ snapshot_created_at = [s \in SnapshotIds |-> 0]
  /\ item_created_at = [s \in SnapshotIds |-> {}]
  /\ seen = [c \in Clients |-> 0]

-----------------------------------------------------------------------------
\* The request of a client, which may have seen updated_at as it is now.
CallDated(c) ==
  /\ Call(c)
  /\ seen' = [seen EXCEPT ![c] = updated_at[Conv(c)']]
  /\ UNCHANGED <<clock, started, dates>>

\* BEGIN, before the first statement of the transaction.
BeginTx(c) ==
  /\ pc[c] # "idle"
  /\ started[c] = 0
  /\ started' = [started EXCEPT ![c] = clock]
  /\ UNCHANGED <<vars, clock, dates, seen>>

\* The transaction has ended if its client is idle.
Forget(c) ==
  /\ started' = [started EXCEPT ![c] = IF pc'[c] = "idle" THEN 0 ELSE @]
  /\ seen' = [seen EXCEPT ![c] = IF pc'[c] = "idle" THEN 0 ELSE @]

\* A statement that does not commit, or the rollback.
Statement(c) ==
  /\ \/ started[c] # 0 /\ pc[c] # "commit" /\ Step(c)
     \/ Abort(c)
  /\ Forget(c)
  /\ UNCHANGED <<clock, dates>>

\* Mutant: the UPDATE of the range operations leaves updated_at alone.
AppendedAt(c) == IF req[c].op = "append" THEN started[c] ELSE updated_at[Conv(c)]

\* UPDATE conversations SET updated_at = NOW(), in all three operations.
UpdatedAt(c) == started[c]

\* Mutant: the copies get the date of the snapshot.
CopyDatesNow(c) == {started[c] : m \in Range(req[c].ids)}

\* snapshot_items.created_at is that of the message.
CopyDates(c) == {created_at[m] : m \in Range(req[c].ids)}

\* What was written becomes visible, dated by the start of the transaction.
CommitDated(c) ==
  /\ started[c] # 0
  /\ Commit(c)
  /\ Forget(c)
  /\ clock' = clock + 1
  /\ updated_at' = [updated_at EXCEPT ![Conv(c)] =
                      IF Mutates(req[c].op) THEN UpdatedAt(c) ELSE @]
  /\ created_at' = [m \in MessageIds |->
                      IF m \in staged[c].messages THEN started[c] ELSE created_at[m]]
  /\ LET ids == {s.id : s \in staged[c].snapshots} IN
       /\ snapshot_created_at' = [s \in SnapshotIds |->
            IF s \in ids THEN started[c] ELSE snapshot_created_at[s]]
       /\ item_created_at' = [s \in SnapshotIds |->
            IF s \in ids THEN CopyDates(c) ELSE item_created_at[s]]

TimesNext ==
  \E c \in Clients : CallDated(c) \/ BeginTx(c) \/ Statement(c) \/ CommitDated(c)

TimesSpec == TimesInit /\ [][TimesNext]_datedVars

-----------------------------------------------------------------------------
(***************************************************************************)
(* Properties.                                                             *)
(***************************************************************************)

\* A change is dated later than everything its caller can have seen: a commit
\* leaves updated_at above what it was when the call was made, whatever other
\* transactions committed since, and in whichever order they began.
ChangesAreDatedAfterTheirCall ==
  [][\A c \in Clients :
       pc[c] = "commit" /\ version'[Conv(c)] # version[Conv(c)] /\ pc'[c] = "idle"
         => updated_at'[Conv(c)] > seen[c]]_datedVars

\* A snapshot is younger than every message in it: its caller can only name
\* messages of answers it had before the BEGIN that dates the snapshot, and the
\* copies keep the dates of their messages, where a copy dated by NOW() would not.
SnapshotsAreYounger ==
  \A s \in snapshots : \A t \in item_created_at[s.id] : t < snapshot_created_at[s.id]

=============================================================================
