----------------------- MODULE ConversationViewsProofs -----------------------
(***************************************************************************)
(* What callers see of a conversation while transactions change it, for    *)
(* any number of clients, readers and calls: the dates of                  *)
(* ConversationTimes, and the pages of MessageListing.                     *)
(*                                                                         *)
(* Dates: what is committed is dated before the clock; so a transaction is *)
(* dated after whatever was committed when its call was made, and no       *)
(* commit since can change the dates of the messages it names.             *)
(*                                                                         *)
(* Pages: the cursor divides the rows; a message that stayed listed is     *)
(* delivered or above it, nothing delivered without a rewrite is above it, *)
(* and what was counted is delivered or above it.  A step of the store     *)
(* keeps this because an append only adds rows and a rewrite moves every   *)
(* row above all the positions there were, and in a snapshot the cursor is *)
(* just the number of messages delivered.                                  *)
(***************************************************************************)
EXTENDS ConversationStoreRefinementProofs, ConversationTimes, MessageListing

-----------------------------------------------------------------------------
(***************************************************************************)
(* The dates.                                                              *)
(***************************************************************************)
DatesType ==
  /\ clock \in Nat
  /\ started \in [Clients -> Nat]
  /\ updated_at \in [ConversationIds -> Nat]
  /\ created_at \in [MessageIds -> Nat]
  /\ snapshot_created_at \in [SnapshotIds -> Nat]
  /\ item_created_at \in [SnapshotIds -> SUBSET Nat]
  /\ seen \in [Clients -> Nat]

\* What is committed, and what a call has seen, is older than now.
DatedBefore ==
  /\ \A cv \in ConversationIds : updated_at[cv] < clock
  /\ \A m \in MessageIds : created_at[m] < clock
  /\ \A c \in Clients : seen[c] < clock

\* The transaction of a call began after the call, and so after every commit of
\* a message that the call names.
BegunAfterCall(c) ==
  /\ pc[c] = "idle" => started[c] = 0
  /\ started[c] <= clock
  /\ started[c] # 0 => seen[c] < started[c]
  /\ \A m \in Named(req[c]) :
       origin[m] # NoId /\ (started[c] # 0 => created_at[m] < started[c])

DatesInvariant ==
  /\ DatesType
  /\ DatedBefore
  /\ \A c \in Clients : BegunAfterCall(c)
  /\ SnapshotsAreYounger

Dated == Owned /\ DatesInvariant

-----------------------------------------------------------------------------
(***************************************************************************)
(* The steps of the store, seen from here.                                 *)
(***************************************************************************)

LEMMA DatedStep == [TimesNext]_datedVars => [Next]_vars
BY DEF TimesNext, datedVars, vars, CallDated, BeginTx, Statement, CommitDated, Next, Step

\* What a request names are messages.
LEMMA NamedAreMessages ==
  ASSUME TypeOK, NEW c \in Clients
  PROVE  /\ Named(req[c]) \subseteq MessageIds
         /\ req[c] = NoRequest => Named(req[c]) = {}
<1>1. Range(<<>>) = {}
  BY DEF Range
<1>2. CASE req[c] = NoRequest
  BY <1>1, <1>2 DEF Named, NoRequest
<1>3. CASE req[c] \in Requests
  <2>1. req[c].from \in Bound /\ req[c].to \in Bound /\ req[c].ids \in Seq(MessageIds)
    BY <1>3, RequestFields
  <2>2. Range(req[c].ids) \subseteq MessageIds
    BY <2>1, LenProperties DEF Range
  <2>3. Named(req[c]) \subseteq MessageIds
    BY <2>1, <2>2 DEF Named, Bound
  <2>4. req[c] # NoRequest
    BY <1>3, RequestFields DEF NoRequest
  <2> QED
    BY <2>3, <2>4
<1> QED
  BY <1>2, <1>3 DEF TypeOK

\* A statement that does not end the transaction of a client leaves its request,
\* and the other clients, as they are.
LEMMA OneClientMoves ==
  ASSUME TypeOK, NEW c \in Clients, Step(c) \/ Abort(c)
  PROVE  /\ \A d \in Clients \ {c} : pc'[d] = pc[d] /\ req'[d] = req[d]
         /\ \/ pc'[c] = "idle" /\ req'[c] = NoRequest
            \/ pc'[c] # "idle" /\ req'[c] = req[c]
<1>1. CASE Finish(c)
  BY <1>1, FinishedIsIdle
<1>2. CASE ~Finish(c)
  <2>1. req' = req /\ pc[c] # "idle"
    BY <1>2 DEF Step, Abort, Rollback, Commit, EnsureConversation, InsertMessage,
         LockConversation, ReadOrder, VerifyOrder, RewriteOrder, UpdateConversation,
         CheckConversation, LoadMessages, InsertSnapshot
  <2>2. PICK label \in Statements : pc' = [pc EXCEPT ![c] = label]
    BY <1>2 DEF Step, Abort, Rollback, Commit, EnsureConversation, InsertMessage,
         LockConversation, ReadOrder, VerifyOrder, RewriteOrder, UpdateConversation,
         CheckConversation, LoadMessages, InsertSnapshot, Goto, Statements
  <2>3. "idle" \notin Statements
    BY DEF Statements
  <2> QED
    BY <2>1, <2>2, <2>3 DEF TypeOK
<1> QED
  BY <1>1, <1>2

\* Only a commit changes where messages come from, snapshots and versions.
LEMMA NoCommitNoChange ==
  ASSUME NEW c \in Clients, (pc[c] # "commit" /\ Step(c)) \/ Abort(c)
  PROVE  UNCHANGED tables
BY DEF Step, Abort, Rollback, Commit, EnsureConversation, InsertMessage,
       LockConversation, ReadOrder, VerifyOrder, RewriteOrder, UpdateConversation,
       CheckConversation, LoadMessages, InsertSnapshot

-----------------------------------------------------------------------------
(***************************************************************************)
(* The invariant.                                                          *)
(***************************************************************************)

LEMMA InitDated == TimesInit => Dated
<1> SUFFICES ASSUME TimesInit
             PROVE  Dated
  OBVIOUS
<1>1. Owned
  BY InitOwns DEF TimesInit
<1>2. DatesType /\ DatedBefore
  BY DEF TimesInit, DatesType, DatedBefore
<1>3. \A c \in Clients : Named(req[c]) = {}
  BY <1>1, NamedAreMessages DEF TimesInit, Init, Owned, Inductive
<1>4. \A c \in Clients : BegunAfterCall(c)
  BY <1>3 DEF TimesInit, BegunAfterCall
<1>5. SnapshotsAreYounger
  BY DEF TimesInit, Init, SnapshotsAreYounger
<1> QED
  BY <1>1, <1>2, <1>4, <1>5 DEF Dated, DatesInvariant

LEMMA CallKeepsDates ==
  ASSUME Dated, NEW c \in Clients, CallDated(c)
  PROVE  DatesInvariant'
<1> USE DEF Dated, DatesInvariant, Owned, Inductive
<1>1. PICK r \in Requests : /\ \A m \in Named(r) : origin[m] # NoId
                            /\ req' = [req EXCEPT ![c] = r]
                            /\ pc' = [pc EXCEPT ![c] = FirstStatement(r.op)]
  BY DEF CallDated, Call
<1>2. pc[c] = "idle" /\ UNCHANGED <<tables, clock, started, dates>>
  BY DEF CallDated, Call
<1>3. /\ req'[c] = r /\ \A d \in Clients \ {c} : req'[d] = req[d] /\ pc'[d] = pc[d]
      /\ r.conversation \in ConversationIds
  BY <1>1, RequestFields DEF TypeOK
<1>4. seen' = [seen EXCEPT ![c] = updated_at[r.conversation]]
  BY <1>3 DEF CallDated, Conv
<1>5. DatesType'
  BY <1>2, <1>3, <1>4 DEF DatesType, dates
<1>6. DatedBefore'
  BY <1>2, <1>3, <1>4 DEF DatedBefore, DatesType, dates
<1>7. ASSUME NEW d \in Clients
      PROVE  BegunAfterCall(d)'
  <2>1. BegunAfterCall(d)
    OBVIOUS
  <2>2. CASE d = c
    BY <1>1, <1>2, <1>3, <2>1, <2>2 DEF BegunAfterCall, tables, dates
  <2>3. CASE d # c
    <3>1. seen'[d] = seen[d]
      BY <1>4, <2>3 DEF DatesType
    <3> QED
      BY <1>2, <1>3, <2>1, <2>3, <3>1 DEF BegunAfterCall, tables, dates
  <2> QED
    BY <2>2, <2>3
<1>8. SnapshotsAreYounger'
  BY <1>2 DEF SnapshotsAreYounger, tables, dates
<1> QED
  BY <1>5, <1>6, <1>7, <1>8

\* BEGIN: everything the call has seen, and every message it names, is older.
LEMMA BeginKeepsDates ==
  ASSUME Dated, NEW c \in Clients, BeginTx(c)
  PROVE  DatesInvariant'
<1> USE DEF Dated, DatesInvariant, Owned, Inductive
<1>1. /\ pc[c] # "idle" /\ started' = [started EXCEPT ![c] = clock]
      /\ UNCHANGED <<vars, clock, dates, seen>>
  BY DEF BeginTx
<1>2. DatesType' /\ DatedBefore'
  BY <1>1 DEF DatesType, DatedBefore, dates
<1>3. ASSUME NEW d \in Clients
      PROVE  BegunAfterCall(d)'
  <2>1. BegunAfterCall(d) /\ clock \in Nat /\ Named(req[d]) \subseteq MessageIds
    BY NamedAreMessages DEF DatesType
  <2>2. CASE d = c
    <3>1. started'[c] = clock
      BY <1>1 DEF DatesType
    <3> QED
      BY <1>1, <2>1, <2>2, <3>1 DEF BegunAfterCall, DatedBefore, vars, tables, dates
  <2>3. CASE d # c
    <3>1. started'[d] = started[d]
      BY <1>1, <2>3 DEF DatesType
    <3> QED
      BY <1>1, <2>1, <3>1 DEF BegunAfterCall, vars, tables, dates
  <2> QED
    BY <2>2, <2>3
<1>4. SnapshotsAreYounger'
  BY <1>1 DEF SnapshotsAreYounger, vars, tables, dates
<1> QED
  BY <1>2, <1>3, <1>4

\* What Forget does to the dates of the transactions.
LEMMA Forgotten ==
  ASSUME DatesType, NEW c \in Clients, Forget(c)
  PROVE  /\ started' \in [Clients -> Nat] /\ seen' \in [Clients -> Nat]
         /\ \A d \in Clients \ {c} : started'[d] = started[d] /\ seen'[d] = seen[d]
         /\ pc'[c] = "idle" => started'[c] = 0 /\ seen'[c] = 0
         /\ pc'[c] # "idle" => started'[c] = started[c] /\ seen'[c] = seen[c]
BY DEF DatesType, Forget

LEMMA StatementKeepsDates ==
  ASSUME Dated, NEW c \in Clients, Statement(c)
  PROVE  DatesInvariant'
<1> USE DEF Dated, DatesInvariant, Owned, Inductive
<1>1. /\ (pc[c] # "commit" /\ Step(c)) \/ Abort(c)
      /\ Forget(c) /\ UNCHANGED <<clock, dates>>
  BY DEF Statement
<1>2. UNCHANGED tables
  BY <1>1, NoCommitNoChange
<1>3. DatesType'
  BY <1>1, Forgotten DEF DatesType, dates
<1>4. DatedBefore'
  <2>1. \A d \in Clients : seen'[d] < clock
    <3>1. clock \in Nat /\ \A d \in Clients : seen[d] \in Nat /\ seen[d] < clock
      BY DEF DatesType, DatedBefore
    <3> QED
      BY <1>1, <3>1, Forgotten
  <2> QED
    BY <1>1, <2>1 DEF DatedBefore, dates
<1>5. ASSUME NEW d \in Clients
      PROVE  BegunAfterCall(d)'
  <2>1. BegunAfterCall(d) /\ clock \in Nat
    BY DEF DatesType
  <2>2. CASE started'[d] = started[d] /\ seen'[d] = seen[d] /\ req'[d] = req[d]
             /\ (pc'[d] = "idle" <=> pc[d] = "idle")
    BY <1>1, <1>2, <2>1, <2>2 DEF BegunAfterCall, tables, dates
  <2>3. CASE pc'[d] = "idle" /\ req'[d] = NoRequest /\ started'[d] = 0
    <3>1. Named(NoRequest) = {}
      BY DEF Named, NoRequest, Range
    <3> QED
      BY <1>1, <2>1, <2>3, <3>1 DEF BegunAfterCall
  <2>4. pc[c] # "idle"
    BY <1>1 DEF Abort, Step, Commit, EnsureConversation, InsertMessage,
         LockConversation, ReadOrder, VerifyOrder, RewriteOrder, UpdateConversation,
         CheckConversation, LoadMessages, InsertSnapshot
  <2> QED
    BY <1>1, <2>2, <2>3, <2>4, OneClientMoves, Forgotten
<1>6. SnapshotsAreYounger'
  BY <1>1, <1>2 DEF SnapshotsAreYounger, tables, dates
<1> QED
  BY <1>3, <1>4, <1>5, <1>6

LEMMA CommitKeepsDates ==
  ASSUME Dated, NEW c \in Clients, CommitDated(c)
  PROVE  DatesInvariant'
<1> USE DEF Dated, DatesInvariant, Owned, Inductive
<1> DEFINE ids == {s.id : s \in staged[c].snapshots}
<1>1. /\ started[c] # 0 /\ Commit(c) /\ Forget(c) /\ clock' = clock + 1
      /\ updated_at' = [updated_at EXCEPT ![Conv(c)] =
                          IF Mutates(req[c].op) THEN started[c] ELSE @]
      /\ created_at' = [m \in MessageIds |->
                          IF m \in staged[c].messages THEN started[c] ELSE created_at[m]]
      /\ snapshot_created_at' = [s \in SnapshotIds |->
                          IF s \in ids THEN started[c] ELSE snapshot_created_at[s]]
      /\ item_created_at' = [s \in SnapshotIds |->
                          IF s \in ids THEN CopyDates(c) ELSE item_created_at[s]]
  BY DEF CommitDated, UpdatedAt
<1> HIDE DEF ids
<1>2. /\ Conv(c) \in ConversationIds /\ started[c] \in Nat /\ started[c] <= clock
      /\ clock \in Nat /\ BegunAfterCall(c)
  BY <1>1, CommitEffect DEF DatesType, BegunAfterCall
<1>3. \A t \in CopyDates(c) : t \in Nat /\ t < started[c]
  <2>1. Range(req[c].ids) \subseteq Named(req[c]) /\ Named(req[c]) \subseteq MessageIds
    BY NamedAreMessages DEF Named
  <2> QED
    BY <1>1, <1>2, <2>1 DEF CopyDates, BegunAfterCall, DatesType
<1>4. DatesType'
  <2>1. \A cv \in ConversationIds : updated_at[cv] \in Nat
    BY DEF DatesType
  <2>2. updated_at' \in [ConversationIds -> Nat]
    BY <1>1, <1>2, <2>1 DEF DatesType
  <2>3. created_at' \in [MessageIds -> Nat] /\ snapshot_created_at' \in [SnapshotIds -> Nat]
    BY <1>1, <1>2 DEF DatesType
  <2>4. item_created_at' \in [SnapshotIds -> SUBSET Nat]
    BY <1>1, <1>3 DEF DatesType
  <2> QED
    BY <1>1, <1>2, <2>2, <2>3, <2>4, Forgotten DEF DatesType
<1>5. DatedBefore'
  <2>1. \A cv \in ConversationIds : updated_at[cv] \in Nat /\ updated_at[cv] < clock
    BY DEF DatesType, DatedBefore
  <2>2. \A cv \in ConversationIds : updated_at'[cv] < clock + 1
    BY <1>1, <1>2, <2>1 DEF DatesType
  <2>3. \A m \in MessageIds : created_at[m] \in Nat /\ created_at[m] < clock
    BY DEF DatesType, DatedBefore
  <2>4. \A m \in MessageIds : created_at'[m] < clock + 1
    BY <1>1, <1>2, <2>3
  <2>5. \A d \in Clients : seen[d] \in Nat /\ seen[d] < clock
    BY DEF DatesType, DatedBefore
  <2>6. \A d \in Clients : seen'[d] < clock + 1
    BY <1>1, <1>2, <2>5, Forgotten
  <2> QED
    BY <1>1, <2>2, <2>4, <2>6 DEF DatedBefore
<1>6. pc'[c] = "idle" /\ req'[c] = NoRequest
      /\ \A d \in Clients \ {c} : pc'[d] = pc[d] /\ req'[d] = req[d]
  BY <1>1, FinishedIsIdle DEF Commit
<1>7. ASSUME NEW d \in Clients
      PROVE  BegunAfterCall(d)'
  <2>1. CASE d = c
    <3>1. Named(NoRequest) = {}
      BY DEF Named, NoRequest, Range
    <3> QED
      BY <1>1, <1>2, <1>6, <2>1, <3>1, Forgotten DEF BegunAfterCall
  <2>2. CASE d # c
    <3>1. BegunAfterCall(d) /\ started[d] \in Nat /\ started'[d] = started[d] /\ seen'[d] = seen[d]
      BY <1>1, <2>2, Forgotten DEF DatesType
    <3>2. ASSUME NEW m \in Named(req[d])
          PROVE  origin'[m] # NoId /\ created_at'[m] = created_at[m]
      <4>1. m \in MessageIds /\ origin[m] # NoId
        BY <3>1, NamedAreMessages DEF BegunAfterCall
      <4>2. m \notin staged[c].messages
        BY <4>1 DEF OwnershipInvariant, NewMessages
      <4> QED
        BY <1>1, <4>1, <4>2, CommitWrites
    <3>3. pc'[d] = pc[d] /\ req'[d] = req[d] /\ clock' = clock + 1 /\ clock \in Nat
      BY <1>1, <1>2, <1>6, <2>2
    <3> QED
      BY <3>1, <3>2, <3>3 DEF BegunAfterCall
  <2> QED
    BY <2>1, <2>2
<1>8. SnapshotsAreYounger'
  <2> SUFFICES ASSUME NEW s \in snapshots', NEW t \in item_created_at'[s.id]
               PROVE  t < snapshot_created_at'[s.id]
    BY DEF SnapshotsAreYounger
  <2>1. s \in snapshots \cup staged[c].snapshots
    BY <1>1 DEF Commit
  <2>2. s.id \in SnapshotIds
    <3>1. s \in Snapshot
      <4>1. staged[c] \in StagedWrites
        BY DEF TypeOK
      <4> QED
        BY <2>1, <4>1 DEF TypeOK, StagedWrites
    <3> QED
      BY <3>1 DEF Snapshot
  <2>3. CASE s.id \in ids
    BY <1>1, <1>3, <2>2, <2>3
  <2>4. CASE s.id \notin ids
    <3>1. s \in snapshots
      BY <2>1, <2>4 DEF ids
    <3> QED
      BY <1>1, <2>2, <2>4, <3>1 DEF SnapshotsAreYounger
  <2> QED
    BY <2>3, <2>4
<1> QED
  BY <1>4, <1>5, <1>7, <1>8

LEMMA NextDated == Dated /\ [TimesNext]_datedVars => Dated'
<1> SUFFICES ASSUME Dated, [TimesNext]_datedVars
             PROVE  Dated'
  OBVIOUS
<1>1. Owned'
  BY DatedStep, NextOwns DEF Dated
<1>2. CASE UNCHANGED datedVars
  <2>1. \A c \in Clients : BegunAfterCall(c)
    BY DEF Dated, DatesInvariant
  <2>2. \A c \in Clients : BegunAfterCall(c)'
    BY <1>2, <2>1 DEF BegunAfterCall, datedVars, vars, tables, dates
  <2>3. DatesType' /\ DatedBefore' /\ SnapshotsAreYounger'
    BY <1>2 DEF Dated, DatesInvariant, DatesType, DatedBefore, SnapshotsAreYounger,
                datedVars, vars, tables, dates
  <2> QED
    BY <1>1, <2>2, <2>3 DEF Dated, DatesInvariant
<1>3. CASE TimesNext
  <2>1. DatesInvariant'
    BY <1>3, CallKeepsDates, BeginKeepsDates, StatementKeepsDates, CommitKeepsDates
    DEF TimesNext
  <2> QED
    BY <1>1, <2>1 DEF Dated
<1> QED
  BY <1>2, <1>3

-----------------------------------------------------------------------------
(***************************************************************************)
(* The theorems.                                                           *)
(***************************************************************************)

\* Every snapshot is younger than each of the messages it holds, in whatever
\* order transactions begin, wait and commit.
THEOREM SnapshotsYounger == TimesSpec => []SnapshotsAreYounger
<1>1. Dated => SnapshotsAreYounger
  BY DEF Dated, DatesInvariant
<1> QED
  BY <1>1, InitDated, NextDated, PTL DEF TimesSpec

\* The change a call makes is dated after the updated_at its caller can have
\* seen, although updated_at may go back between two changes.
THEOREM ChangesDated == TimesSpec => ChangesAreDatedAfterTheirCall
<1> DEFINE Later(c) ==
             pc[c] = "commit" /\ version'[Conv(c)] # version[Conv(c)] /\ pc'[c] = "idle"
               => updated_at'[Conv(c)] > seen[c]
<1>1. Dated /\ [TimesNext]_datedVars => [\A c \in Clients : Later(c)]_datedVars
  <2> SUFFICES ASSUME Dated, TimesNext, NEW c \in Clients, pc[c] = "commit",
                      version'[Conv(c)] # version[Conv(c)], pc'[c] = "idle"
               PROVE  updated_at'[Conv(c)] > seen[c]
    OBVIOUS
  <2> USE DEF Dated, Owned, Inductive, DatesInvariant
  <2>1. ASSUME NEW d \in Clients, CallDated(d) \/ BeginTx(d) \/ Statement(d)
        PROVE  FALSE
    <3>1. UNCHANGED version
      BY <2>1, NoCommitNoChange DEF CallDated, Call, BeginTx, Statement, vars, tables
    <3> QED
      BY <3>1
  <2>2. PICK d \in Clients : CommitDated(d)
    BY <2>1 DEF TimesNext
  <2>3. Commit(d) /\ d = c
    <3>1. Commit(d)
      BY <2>2 DEF CommitDated
    <3>2. \A e \in Clients \ {d} : pc'[e] = pc[e]
      BY <3>1, FinishedIsIdle DEF Commit
    <3> QED
      BY <3>1, <3>2
  <2>4. Conv(c) \in ConversationIds
    BY <2>3, CommitEffect
  <2>5. Mutates(req[c].op)
    <3>1. ~Mutates(req[c].op) => version' = [version EXCEPT ![Conv(c)] = @]
      BY <2>3 DEF Commit
    <3> QED
      BY <2>4, <3>1 DEF TypeOK
  <2>6. updated_at'[Conv(c)] = started[c] /\ started[c] # 0
    BY <2>2, <2>3, <2>4, <2>5 DEF CommitDated, UpdatedAt, DatesType
  <2>7. seen[c] < started[c] /\ seen[c] \in Nat /\ started[c] \in Nat
    BY <2>6 DEF BegunAfterCall, DatesType
  <2> QED
    BY <2>6, <2>7
<1> QED
  BY <1>1, InitDated, NextDated, PTL DEF TimesSpec, ChangesAreDatedAfterTheirCall

-----------------------------------------------------------------------------
(***************************************************************************)
(* One page: the rows after the cursor, in order, and where the next page  *)
(* goes on.                                                                *)
(***************************************************************************)

LEMMA PageSizeIsPositive ==
  \A size \in Int : normalizePageSize(size) \in Nat \ {0}
BY ListingAssumption DEF normalizePageSize

\* LIMIT n: the lowest rows, and all of them if there are no more than n.
LEMMA FirstRowsProperties ==
  ASSUME NEW rows \in SUBSET ListRow, IsFiniteSet(rows), OnePositionEach(rows),
         NEW n \in Nat
  PROVE  /\ FirstRows(rows, n) \subseteq rows
         /\ \A q \in FirstRows(rows, n), r \in rows \ FirstRows(rows, n) :
              q.position < r.position
         /\ Cardinality(rows) <= n => FirstRows(rows, n) = rows
         /\ Cardinality(rows) > n => Cardinality(FirstRows(rows, n)) = n
<1> DEFINE few == FirstRows(rows, n)
           size == Cardinality(rows)
           f == [r \in rows |-> Rank(rows, r)]
           g == [r \in few |-> Rank(rows, r)]
<1>1. size \in Nat
  BY FS_CardinalityType
<1>2. \A r \in rows : Rank(rows, r) \in 1..size
  BY RankMonotone
<1>3. few \subseteq rows
  BY DEF FirstRows
<1>4. \A q \in few, r \in rows \ few : q.position < r.position
  <2> SUFFICES ASSUME NEW q \in few, NEW r \in rows \ few
               PROVE  q.position < r.position
    OBVIOUS
  <2>1. q \in rows /\ Rank(rows, q) <= n /\ r \in rows /\ ~(Rank(rows, r) <= n)
    BY DEF FirstRows
  <2>2. Rank(rows, q) < Rank(rows, r)
    BY <1>1, <1>2, <2>1
  <2> QED
    BY <2>1, <2>2, RankMonotone
<1>5. size <= n => few = rows
  BY <1>1, <1>2 DEF FirstRows
<1>6. ASSUME size > n
      PROVE  Cardinality(few) = n
  <2>1. f \in Surjection(rows, 1..size)
    BY RankProperties
  <2>2. g \in [few -> 1..n]
    BY <1>1, <1>2 DEF FirstRows
  <2>3. \A i \in 1..n : \E r \in few : g[r] = i
    <3> SUFFICES ASSUME NEW i \in 1..n
                 PROVE  \E r \in few : g[r] = i
      OBVIOUS
    <3>1. i \in 1..size
      BY <1>1, <1>6
    <3>2. PICK r \in rows : f[r] = i
      BY <2>1, <3>1 DEF Surjection
    <3>3. r \in few
      BY <3>2 DEF FirstRows
    <3> QED
      BY <3>2, <3>3
  <2>4. ASSUME NEW q \in few, NEW r \in few, g[q] = g[r]
        PROVE  q = r
    <3>1. Rank(rows, q) = Rank(rows, r) /\ q \in rows /\ r \in rows
      BY <2>4 DEF FirstRows
    <3>2. ~(q.position < r.position) /\ ~(r.position < q.position)
      BY <1>2, <3>1, RankMonotone
    <3> QED
      BY <3>1, <3>2 DEF ListRow, OnePositionEach
  <2> HIDE DEF g, few
  <2>5. g \in Bijection(few, 1..n)
    BY <2>2, <2>3, <2>4 DEF Bijection, Injection, Surjection, IsInjective
  <2>6. IsFiniteSet(few)
    BY <1>3, FS_Subset
  <2>7. Cardinality(few) = Cardinality(1..n)
    BY <2>5, <2>6, FS_Bijection DEF ExistsBijection
  <2> QED
    BY <2>7, FS_Interval
<1> QED
  BY <1>3, <1>4, <1>5, <1>6

\* Some rows have a last one.
LEMMA LastRow ==
  ASSUME NEW rows \in SUBSET ListRow, IsFiniteSet(rows), OnePositionEach(rows), rows # {}
  PROVE  \E r \in rows : \A q \in rows : q.position <= r.position
<1> DEFINE size == Cardinality(rows)
<1>1. size \in Nat /\ size # 0
  BY FS_CardinalityType, FS_EmptySet
<1>2. \A i \in 1..size : \E r \in rows : Rank(rows, r) = i
  BY RankProperties DEF Surjection
<1>3. PICK r \in rows : Rank(rows, r) = size
  BY <1>1, <1>2
<1>4. ASSUME NEW q \in rows
      PROVE  q.position <= r.position
  <2>1. Rank(rows, q) \in 1..size
    BY RankMonotone
  <2>2. ~(Rank(rows, r) < Rank(rows, q))
    BY <1>1, <1>3, <2>1
  <2>3. ~(r.position < q.position)
    BY <2>2, RankMonotone
  <2> QED
    BY <2>3 DEF ListRow
<1> QED
  BY <1>4

\* A page holds the lowest rows after the cursor; either they are all there are,
\* or the next cursor is the position of the last of them.
LEMMA PageProperties ==
  ASSUME NEW rows \in SUBSET ListRow, IsFiniteSet(rows), OnePositionEach(rows),
         \A r \in rows : r.position >= 0,
         NEW cursor \in Int, cursor >= NoCursor, NEW limit \in Nat \ {0}
  PROVE  LET ahead == {r \in rows : r.position > cursor}
             page  == PageOf(rows, cursor, limit)
             next  == NextCursor(rows, cursor, limit)
         IN  /\ page \subseteq ahead
             /\ next \in Int /\ next >= NoCursor
             /\ next = NoCursor => page = ahead
             /\ next # NoCursor =>
                  /\ \E r \in page : r.position = next
                  /\ \A r \in page : r.position <= next
                  /\ \A r \in ahead \ page : r.position > next
<1> DEFINE ahead == {r \in rows : r.position > cursor}
           found == Fetched(rows, cursor, limit)
           page  == PageOf(rows, cursor, limit)
           next  == NextCursor(rows, cursor, limit)
<1>1. ahead = {r \in rows : After(r.position, cursor)}
  BY DEF After, NoCursor, ListRow
<1>2. ahead \in SUBSET ListRow /\ IsFiniteSet(ahead) /\ OnePositionEach(ahead)
  BY FS_Subset DEF OnePositionEach
<1>3. found = FirstRows(ahead, limit + 1) /\ page = FirstRows(found, limit)
  BY <1>1 DEF Fetched, PageOf
<1>4. limit + 1 \in Nat /\ limit \in Nat
  OBVIOUS
<1>5. ahead \subseteq rows
  OBVIOUS
<1> HIDE DEF ahead, found, page, next
<1>6. /\ found \subseteq ahead
      /\ \A q \in found, r \in ahead \ found : q.position < r.position
      /\ Cardinality(ahead) <= limit + 1 => found = ahead
      /\ Cardinality(ahead) > limit + 1 => Cardinality(found) = limit + 1
  BY <1>2, <1>3, <1>4, FirstRowsProperties
<1>7. found \in SUBSET ListRow /\ IsFiniteSet(found) /\ OnePositionEach(found)
  BY <1>2, <1>6, FS_Subset DEF OnePositionEach
<1>8. /\ page \subseteq found
      /\ \A q \in page, r \in found \ page : q.position < r.position
      /\ Cardinality(found) <= limit => page = found
      /\ Cardinality(found) > limit => Cardinality(page) = limit
  BY <1>3, <1>4, <1>7, FirstRowsProperties
<1>9. page \in SUBSET ListRow /\ IsFiniteSet(page) /\ OnePositionEach(page)
  BY <1>7, <1>8, FS_Subset DEF OnePositionEach
<1>10. Cardinality(found) \in Nat /\ Cardinality(ahead) \in Nat
  BY <1>2, <1>7, FS_CardinalityType
<1>11. CASE Cardinality(found) > limit
  <2>1. page # {}
    BY <1>4, <1>8, <1>11, FS_EmptySet
  <2>2. PICK last \in page : \A r \in page : r.position <= last.position
    BY <1>9, <2>1, LastRow
  <2>3. next = CHOOSE p \in {r.position : r \in page} : \A r \in page : r.position <= p
    BY <1>11 DEF next, NextCursor, page, found
  <2>4. next \in {r.position : r \in page} /\ \A r \in page : r.position <= next
    BY <2>2, <2>3
  <2>5. PICK r \in page : r.position = next
    BY <2>4
  <2>6. next \in Int /\ next >= 0
    BY <1>5, <1>6, <1>8, <1>9, <2>5 DEF ListRow
  <2>7. \A q \in ahead \ page : q.position > next
    BY <1>2, <1>6, <1>8, <1>9, <2>5 DEF ListRow
  <2>8. next # NoCursor /\ next >= NoCursor
    BY <2>6 DEF NoCursor
  <2> QED
    BY <1>6, <1>8, <2>4, <2>5, <2>6, <2>7, <2>8 DEF ahead, page, next
<1>12. CASE ~(Cardinality(found) > limit)
  <2>1. next = NoCursor
    BY <1>12 DEF next, NextCursor, found
  <2>2. found = ahead /\ page = found
    BY <1>4, <1>6, <1>8, <1>10, <1>12
  <2>3. NoCursor \in Int /\ NoCursor >= NoCursor
    BY DEF NoCursor
  <2> QED
    BY <1>8, <2>1, <2>2, <2>3 DEF ahead, page, next
<1> QED
  BY <1>11, <1>12

-----------------------------------------------------------------------------
(***************************************************************************)
(* What a walk keeps to.                                                   *)
(***************************************************************************)
Walk == [source : ConversationIds \cup SnapshotIds \cup {NoId},
         filter : SUBSET MessageIds, cursor : Int, count : Nat,
         delivered : Seq(MessageIds), listed : SUBSET MessageIds, rewritten : BOOLEAN]

ListType ==
  /\ stage \in [Readers -> {"idle", "metadata", "page", "done"}]
  /\ walk \in [Readers -> Walk]
  /\ \A r \in Readers :
       /\ walk[r].cursor >= NoCursor
       /\ stage[r] # "idle" => walk[r].source \in ConversationIds \cup SnapshotIds

\* A message that was listed all the time has been delivered or is ahead.
NothingMissed(r) ==
  \A m \in walk[r].listed \cap walk[r].filter :
    \/ m \in Range(walk[r].delivered)
    \/ /\ stage[r] # "done"
       /\ \E row \in conversation_items[walk[r].source] :
            row.message = m /\ row.position > walk[r].cursor

\* Without a rewrite, what was delivered is listed up to the cursor.
DeliveredBehind(r) ==
  ~walk[r].rewritten =>
    /\ IsInjective(walk[r].delivered)
    /\ \A m \in Range(walk[r].delivered) :
         \E row \in conversation_items[walk[r].source] :
           row.message = m /\ (stage[r] # "done" => row.position <= walk[r].cursor)

\* Without a filter and a rewrite, what the first answer counted has been
\* delivered or is ahead of the cursor.
Ahead(r) ==
  {row \in conversation_items[walk[r].source] : row.position > walk[r].cursor}

CountAhead(r) ==
  stage[r] # "idle" /\ ~walk[r].rewritten /\ walk[r].filter = MessageIds =>
    walk[r].count <= Len(walk[r].delivered) +
                       (IF stage[r] = "done" THEN 0 ELSE Cardinality(Ahead(r)))

ConversationWalk(r) ==
  walk[r].source \in ConversationIds =>
    /\ walk[r].listed \subseteq MessagesOf(conversation_items[walk[r].source])
    /\ stage[r] # "idle" => NothingMissed(r)
    /\ DeliveredBehind(r)
    /\ CountAhead(r)

\* A walk through a snapshot has delivered as many of its messages as the cursor
\* says.
SnapshotWalk(r) ==
  walk[r].source \in SnapshotIds =>
    /\ stage[r] # "done" => walk[r].cursor = Len(walk[r].delivered) - 1
    /\ \A s \in snapshots : s.id = walk[r].source =>
         /\ Len(walk[r].delivered) <= Len(s.items)
         /\ walk[r].delivered = SubSeq(s.items, 1, Len(walk[r].delivered))
         /\ stage[r] = "done" => Len(walk[r].delivered) = Len(s.items)
    /\ walk[r].source \notin {s.id : s \in snapshots} =>
         walk[r].delivered = <<>> /\ stage[r] \notin {"page", "done"}

ListInvariant == ListType /\ \A r \in Readers : ConversationWalk(r) /\ SnapshotWalk(r)

Listed == Intended /\ ListInvariant

-----------------------------------------------------------------------------
(***************************************************************************)
(* The rows a walk pages through.                                          *)
(***************************************************************************)

LEMMA ConversationPages ==
  ASSUME Owned, NEW w \in Walk, w.source \in ConversationIds
  PROVE  /\ Rows(w) = {row \in conversation_items[w.source] : row.message \in w.filter}
         /\ Rows(w) \in SUBSET ListRow /\ IsFiniteSet(Rows(w)) /\ OnePositionEach(Rows(w))
         /\ OneRowEach(conversation_items[w.source])
         /\ \A row \in conversation_items[w.source] :
              row.position \in Nat /\ row.position > 0 /\ row.message \in MessageIds
<1> USE DEF Owned, Inductive
<1>1. w.source \notin SnapshotIds
  BY ListingAssumption
<1>2. /\ MessagesOf(conversation_items[w.source]) \subseteq messages[w.source]
      /\ OneRowEach(conversation_items[w.source])
  BY DEF OwnershipInvariant, OwnMessagesOnly
<1>3. Rows(w) = {row \in conversation_items[w.source] : row.message \in w.filter}
  BY <1>1, <1>2 DEF Rows, ConversationRows, MessagesOf
<1>4. /\ conversation_items[w.source] \in SUBSET Row
      /\ IsFiniteSet(conversation_items[w.source])
      /\ OnePositionEach(conversation_items[w.source])
  BY DEF TypeOK, StoreInvariant, PositionsFresh, UpTo
<1>5. IsFiniteSet(Rows(w)) /\ OnePositionEach(Rows(w))
  BY <1>3, <1>4, FS_Subset DEF OnePositionEach
<1>6. \A row \in conversation_items[w.source] :
        row.position \in Nat /\ row.position > 0 /\ row.message \in MessageIds
  BY <1>4 DEF Row
<1> QED
  BY <1>2, <1>3, <1>4, <1>5, <1>6, RowsAreListed

LEMMA SnapshotPages ==
  ASSUME Intended, NEW w \in Walk, w.source \in SnapshotIds,
         NEW s \in snapshots, s.id = w.source
  PROVE  Rows(w) = RowsAfter(-1, s.items) /\ s.items \in Seq(MessageIds)
<1>1. {t \in snapshots : t.id = w.source} = {s}
  BY DEF Intended, IntentInvariant, SnapshotsApart
<1>2. s.items \in Seq(MessageIds)
  BY DEF Intended, Owned, Inductive, TypeOK, Snapshot
<1>3. DOMAIN s.items = 1..Len(s.items) /\ Len(s.items) \in Nat
  BY <1>2, LenProperties
<1>4. SnapshotRows(w.source) = {[position |-> i - 1, message |-> s.items[i]] : i \in DOMAIN s.items}
  BY <1>1 DEF SnapshotRows
<1>5. \A i \in DOMAIN s.items : i - 1 = -1 + i
  BY <1>3
<1>6. SnapshotRows(w.source) = RowsAfter(-1, s.items)
  BY <1>4, <1>5 DEF RowsAfter
<1> QED
  BY <1>2, <1>6 DEF Rows

-----------------------------------------------------------------------------
(***************************************************************************)
(* Lists put one after the other.                                          *)
(***************************************************************************)

LEMMA ConcatRange ==
  ASSUME NEW S, NEW a \in Seq(S), NEW b \in Seq(S)
  PROVE  /\ a \o b \in Seq(S)
         /\ Range(a \o b) = Range(a) \cup Range(b)
         /\ IsInjective(a) /\ IsInjective(b) /\ Range(a) \cap Range(b) = {}
              => IsInjective(a \o b)
<1> DEFINE m == Len(a)
           n == Len(b)
           c == a \o b
<1>1. /\ m \in Nat /\ n \in Nat /\ DOMAIN a = 1..m /\ DOMAIN b = 1..n
      /\ c \in Seq(S) /\ DOMAIN c = 1..(m + n)
      /\ \A i \in 1..(m + n) : c[i] = IF i <= m THEN a[i] ELSE b[i - m]
  BY LenProperties, ConcatProperties
<1> HIDE DEF m, n, c
<1>2. \A i \in 1..m : i \in 1..(m + n) /\ c[i] = a[i]
  BY <1>1
<1>3. \A i \in 1..n : i + m \in 1..(m + n) /\ c[i + m] = b[i]
  <2> SUFFICES ASSUME NEW i \in 1..n
               PROVE  i + m \in 1..(m + n) /\ c[i + m] = b[i]
    OBVIOUS
  <2>1. i + m \in 1..(m + n) /\ ~(i + m <= m) /\ (i + m) - m = i
    BY <1>1
  <2> QED
    BY <1>1, <2>1
<1>4. \A i \in 1..(m + n) : \/ i \in 1..m
                            \/ i - m \in 1..n /\ i = (i - m) + m
  BY <1>1
<1>5. Range(c) = Range(a) \cup Range(b)
  <2>1. Range(a) = {a[i] : i \in 1..m} /\ Range(b) = {b[i] : i \in 1..n}
        /\ Range(c) = {c[i] : i \in 1..(m + n)}
    BY <1>1 DEF Range
  <2>2. \A i \in 1..m : a[i] \in Range(c)
    BY <1>2, <2>1
  <2>3. \A i \in 1..n : b[i] \in Range(c)
    BY <1>3, <2>1
  <2>4. ASSUME NEW i \in 1..(m + n)
        PROVE  c[i] \in Range(a) \cup Range(b)
    <3>1. CASE i \in 1..m
      BY <1>2, <2>1, <3>1
    <3>2. CASE i - m \in 1..n /\ i = (i - m) + m
      <4>1. c[i] = b[i - m]
        BY <1>3, <3>2
      <4> QED
        BY <2>1, <3>2, <4>1
    <3> QED
      BY <1>4, <3>1, <3>2
  <2> QED
    BY <2>1, <2>2, <2>3, <2>4
<1>6. ASSUME IsInjective(a), IsInjective(b), Range(a) \cap Range(b) = {},
             NEW i \in 1..(m + n), NEW j \in 1..(m + n), c[i] = c[j]
      PROVE  i = j
  <2>1. CASE i \in 1..m /\ j \in 1..m
    BY <1>1, <1>2, <1>6, <2>1 DEF IsInjective
  <2>2. CASE i \notin 1..m /\ j \notin 1..m
    <3>1. b[i - m] = b[j - m] /\ i - m \in 1..n /\ j - m \in 1..n
      BY <1>1, <1>6, <2>2
    <3>2. i - m = j - m
      BY <1>1, <1>6, <3>1 DEF IsInjective
    <3> QED
      BY <1>1, <3>2
  <2>3. ASSUME NEW x \in 1..m, NEW y \in 1..(m + n) \ 1..m, c[x] = c[y]
        PROVE  FALSE
    <3>1. a[x] \in Range(a) /\ c[x] = a[x]
      BY <1>1, <1>2 DEF Range
    <3>2. y - m \in 1..n /\ c[y] = b[y - m]
      BY <1>1
    <3>3. b[y - m] \in Range(b)
      BY <1>1, <3>2 DEF Range
    <3> QED
      BY <1>6, <2>3, <3>1, <3>2, <3>3
  <2> QED
    BY <1>6, <2>1, <2>2, <2>3
<1>7. IsInjective(a) /\ IsInjective(b) /\ Range(a) \cap Range(b) = {} => IsInjective(c)
  BY <1>1, <1>6 DEF IsInjective
<1> QED
  BY <1>1, <1>5, <1>7 DEF c

\* The beginning of a list and the piece that follows are a longer beginning.
LEMMA BeginningGrows ==
  ASSUME NEW S, NEW list \in Seq(S), NEW k \in 0..Len(list), NEW e \in k..Len(list)
  PROVE  /\ SubSeq(list, 1, k) \o SubSeq(list, k + 1, e) = SubSeq(list, 1, e)
         /\ SubSeq(list, k + 1, e) \in Seq(S) /\ Len(SubSeq(list, k + 1, e)) = e - k
         /\ \A i \in 1..(e - k) : SubSeq(list, k + 1, e)[i] = list[k + i]
         /\ SubSeq(list, 1, e) \in Seq(S) /\ Len(SubSeq(list, 1, e)) = e
<1> DEFINE head  == SubSeq(list, 1, k)
           piece == SubSeq(list, k + 1, e)
           whole == SubSeq(list, 1, e)
<1>1. Len(list) \in Nat /\ k \in Nat /\ e \in Nat /\ k <= e /\ e <= Len(list)
  BY LenProperties
<1>2. head \in Seq(S) /\ Len(head) = k /\ \A i \in 1..k : head[i] = list[i]
  <2>1. /\ head \in Seq(S) /\ Len(head) = IF 1 <= k THEN k - 1 + 1 ELSE 0
        /\ \A i \in 1..(k - 1 + 1) : head[i] = list[1 + i - 1]
    BY <1>1, PieceOfOrder
  <2> QED
    BY <1>1, <2>1
<1>3. piece \in Seq(S) /\ Len(piece) = e - k /\ \A i \in 1..(e - k) : piece[i] = list[k + i]
  <2>1. k + 1 \in Int /\ e \in Int /\ 1 <= k + 1 /\ e <= Len(list)
    BY <1>1
  <2>2. /\ piece \in Seq(S) /\ Len(piece) = IF k + 1 <= e THEN e - (k + 1) + 1 ELSE 0
        /\ \A i \in 1..(e - (k + 1) + 1) : piece[i] = list[(k + 1) + i - 1]
    BY <2>1, PieceOfOrder
  <2> QED
    BY <1>1, <2>2
<1>4. whole \in Seq(S) /\ Len(whole) = e /\ \A i \in 1..e : whole[i] = list[i]
  <2>1. /\ whole \in Seq(S) /\ Len(whole) = IF 1 <= e THEN e - 1 + 1 ELSE 0
        /\ \A i \in 1..(e - 1 + 1) : whole[i] = list[1 + i - 1]
    BY <1>1, PieceOfOrder
  <2> QED
    BY <1>1, <2>1
<1> HIDE DEF head, piece, whole
<1> DEFINE both == head \o piece
<1>5. /\ both \in Seq(S) /\ Len(both) = e
      /\ \A i \in 1..e : both[i] = IF i <= k THEN head[i] ELSE piece[i - k]
  <2>1. /\ both \in Seq(S) /\ Len(both) = Len(head) + Len(piece)
        /\ \A i \in 1..(Len(head) + Len(piece)) :
             both[i] = IF i <= Len(head) THEN head[i] ELSE piece[i - Len(head)]
    BY <1>2, <1>3, ConcatProperties
  <2>2. Len(head) + Len(piece) = e
    BY <1>1, <1>2, <1>3
  <2> QED
    BY <1>2, <2>1, <2>2
<1> HIDE DEF both
<1>6. ASSUME NEW i \in 1..e
      PROVE  both[i] = whole[i]
  <2>1. CASE i <= k
    BY <1>1, <1>2, <1>4, <1>5, <2>1
  <2>2. CASE ~(i <= k)
    <3>1. i - k \in 1..(e - k) /\ k + (i - k) = i
      BY <1>1, <2>2
    <3>2. piece[i - k] = list[i]
      BY <1>3, <3>1
    <3> QED
      BY <1>4, <1>5, <2>2, <3>2
  <2> QED
    BY <2>1, <2>2
<1>7. both = whole
  BY <1>4, <1>5, <1>6, SeqEqual
<1> QED
  BY <1>3, <1>4, <1>7 DEF head, piece, whole, both

LEMMA WholeList ==
  ASSUME NEW S, NEW list \in Seq(S)
  PROVE  SubSeq(list, 1, Len(list)) = list
<1> DEFINE whole == SubSeq(list, 1, Len(list))
<1>1. Len(list) \in Nat
  BY LenProperties
<1>2. /\ whole \in Seq(S) /\ Len(whole) = IF 1 <= Len(list) THEN Len(list) - 1 + 1 ELSE 0
      /\ \A i \in 1..(Len(list) - 1 + 1) : whole[i] = list[1 + i - 1]
  BY <1>1, PieceOfOrder
<1> HIDE DEF whole
<1>3. Len(whole) = Len(list) /\ \A i \in 1..Len(list) : whole[i] = list[i]
  BY <1>1, <1>2
<1>4. whole = list
  BY <1>2, <1>3, SeqEqual
<1> QED
  BY <1>4 DEF whole

-----------------------------------------------------------------------------
(***************************************************************************)
(* Steps of the readers.                                                   *)
(***************************************************************************)

\* A step of one reader is judged by what becomes of its own walk.
LEMMA ReaderMoves ==
  ASSUME Listed, NEW r \in Readers, UNCHANGED vars, ListType',
         \A q \in Readers \ {r} : walk'[q] = walk[q] /\ stage'[q] = stage[q],
         ConversationWalk(r)', SnapshotWalk(r)'
  PROVE  ListInvariant'
<1>1. ASSUME NEW q \in Readers \ {r}
      PROVE  ConversationWalk(q)' /\ SnapshotWalk(q)'
  <2>1. ConversationWalk(q) /\ SnapshotWalk(q) /\ walk'[q] = walk[q] /\ stage'[q] = stage[q]
    BY DEF Listed, ListInvariant
  <2>2. UNCHANGED <<conversation_items, snapshots>>
    BY DEF vars, tables
  <2>3. ConversationWalk(q)'
    BY <2>1, <2>2 DEF ConversationWalk, NothingMissed, DeliveredBehind, CountAhead, Ahead
  <2>4. SnapshotWalk(q)'
    BY <2>1, <2>2 DEF SnapshotWalk
  <2> QED
    BY <2>3, <2>4
<1> QED
  BY <1>1 DEF ListInvariant

LEMMA EmptyList ==
  /\ <<>> \in Seq(MessageIds) /\ Len(<<>>) = 0 /\ IsInjective(<<>>) /\ Range(<<>>) = {}
  /\ \A items \in Seq(MessageIds) : SubSeq(items, 1, 0) = <<>> /\ Len(items) \in Nat
<1>1. /\ <<>> \in Seq(MessageIds) /\ Len(<<>>) = 0 /\ IsInjective(<<>>) /\ Range(<<>>) = {}
  BY DEF IsInjective, Range
<1>2. ASSUME NEW items \in Seq(MessageIds)
      PROVE  SubSeq(items, 1, 0) = <<>> /\ Len(items) \in Nat
  <2>1. Len(items) \in Nat /\ 0 \in 0..Len(items) /\ 0 \in 0..Len(items)
    BY LenProperties
  <2>2. SubSeq(items, 1, 0) \in Seq(MessageIds) /\ Len(SubSeq(items, 1, 0)) = 0
    BY <2>1, BeginningGrows
  <2> QED
    BY <2>1, <2>2, EmptySeq
<1> QED
  BY <1>1, <1>2

\* A walk that has delivered nothing is at the beginning of any snapshot.
LEMMA NothingDelivered ==
  ASSUME Listed, NEW r \in Readers, UNCHANGED vars,
         walk'[r].delivered = <<>>, walk'[r].cursor = NoCursor,
         stage'[r] \in {"idle", "metadata"}
  PROVE  SnapshotWalk(r)'
<1>1. \A s \in snapshots' : s.items \in Seq(MessageIds)
  BY DEF Listed, Intended, Owned, Inductive, TypeOK, Snapshot, vars, tables
<1> QED
  BY <1>1, EmptyList DEF SnapshotWalk, NoCursor

LEMMA StartListed ==
  ASSUME Listed, NEW r \in Readers, StartWalk(r)
  PROVE  ListInvariant'
<1>1. UNCHANGED vars /\ stage' = [stage EXCEPT ![r] = "metadata"]
  BY DEF StartWalk
<1>2. PICK source \in ConversationIds \cup SnapshotIds, filter \in Filters :
        walk' = [walk EXCEPT ![r] =
                  [NoWalk EXCEPT !.source = source,
                                 !.filter = IF source \in SnapshotIds
                                            THEN MessageIds ELSE filter,
                                 !.listed = IF source \in SnapshotIds THEN {}
                                            ELSE MessagesOf(conversation_items[source])]]
  BY DEF StartWalk
<1> DEFINE new == walk'[r]
<1>3. /\ \A q \in Readers \ {r} : walk'[q] = walk[q] /\ stage'[q] = stage[q]
      /\ stage'[r] = "metadata"
      /\ new = [source |-> source,
                filter |-> IF source \in SnapshotIds THEN MessageIds ELSE filter,
                cursor |-> NoCursor, count |-> 0, delivered |-> <<>>,
                listed |-> IF source \in SnapshotIds THEN {}
                           ELSE MessagesOf(conversation_items[source]),
                rewritten |-> FALSE]
  BY <1>1, <1>2 DEF Listed, ListInvariant, ListType, NoWalk
<1>4. source \in ConversationIds => MessagesOf(conversation_items[source]) \subseteq MessageIds
  BY DEF Listed, Intended, Owned, Inductive, TypeOK, Row, MessagesOf
<1>5. new \in Walk /\ new.cursor >= NoCursor
  BY <1>3, <1>4, EmptyList, ListingAssumption DEF Walk, NoCursor
<1>6. ListType'
  BY <1>1, <1>2, <1>3, <1>5 DEF Listed, ListInvariant, ListType
<1>7. SnapshotWalk(r)'
  BY <1>1, <1>3, NothingDelivered
<1>8. ConversationWalk(r)'
  <2> SUFFICES ASSUME source \in ConversationIds
               PROVE  ConversationWalk(r)'
    BY <1>3 DEF ConversationWalk
  <2>1. source \notin SnapshotIds /\ conversation_items' = conversation_items
    BY <1>1, ListingAssumption DEF vars, tables
  <2>2. \A row \in conversation_items[source] : row.position \in Nat
    BY <1>3, <1>5, ConversationPages DEF Listed, Intended
  <2>3. new.listed = MessagesOf(conversation_items[source]) /\ new.source = source
        /\ new.cursor = NoCursor /\ new.delivered = <<>>
    BY <1>3, <2>1
  <2>4. NothingMissed(r)'
    BY <1>3, <2>1, <2>2, <2>3 DEF NothingMissed, MessagesOf, NoCursor
  <2>5. DeliveredBehind(r)'
    BY <2>3, EmptyList DEF DeliveredBehind
  <2>6. CountAhead(r)'
    <3>1. new.count = 0 /\ Len(new.delivered) = 0 /\ stage'[r] = "metadata"
      BY <1>3, EmptyList
    <3>2. Cardinality(Ahead(r)') \in Nat
      <4>1. IsFiniteSet(conversation_items[source])
        BY DEF Listed, Intended, Owned, Inductive, StoreInvariant, PositionsFresh, UpTo
      <4>2. Ahead(r)' \subseteq conversation_items[source]
        BY <2>1, <2>3 DEF Ahead
      <4> QED
        BY <4>1, <4>2, FS_Subset, FS_CardinalityType
    <3> QED
      BY <3>1, <3>2 DEF CountAhead
  <2> QED
    BY <2>1, <2>3, <2>4, <2>5, <2>6 DEF ConversationWalk
<1> QED
  BY <1>1, <1>3, <1>6, <1>7, <1>8, ReaderMoves

LEMMA MetadataListed ==
  ASSUME Listed, NEW r \in Readers, LoadMetadata(r)
  PROVE  ListInvariant'
<1> DEFINE source == walk[r].source
           new == walk'[r]
<1>1. UNCHANGED vars /\ stage[r] = "metadata" /\ walk[r] \in Walk /\ walk[r].cursor >= NoCursor
  BY DEF LoadMetadata, Listed, ListInvariant, ListType
<1>2. conversation_items' = conversation_items /\ snapshots' = snapshots
  BY <1>1 DEF vars, tables
<1>3. /\ ConversationWalk(r) /\ SnapshotWalk(r)
      /\ source \in ConversationIds \cup SnapshotIds
  BY <1>1 DEF Listed, ListInvariant, ListType
<1>4. CASE stage' = [stage EXCEPT ![r] = "idle"] /\ walk' = [walk EXCEPT ![r] = NoWalk]
  <2>1. NoWalk \in Walk /\ NoWalk.cursor >= NoCursor
    BY EmptyList DEF NoWalk, Walk, NoCursor
  <2>2. /\ stage'[r] = "idle" /\ new = NoWalk /\ ListType'
        /\ \A q \in Readers \ {r} : walk'[q] = walk[q] /\ stage'[q] = stage[q]
    BY <1>4, <2>1 DEF Listed, ListInvariant, ListType
  <2>3. ConversationWalk(r)'
    BY <2>2, StoreAssumption DEF ConversationWalk, NoWalk
  <2>4. SnapshotWalk(r)'
    BY <1>1, <2>2, NothingDelivered DEF NoWalk
  <2> QED
    BY <1>1, <2>2, <2>3, <2>4, ReaderMoves
<1>5. CASE /\ source \in conversations
           /\ stage' = [stage EXCEPT ![r] = "page"]
           /\ walk' = [walk EXCEPT ![r].count =
                          IF walk[r].cursor = NoCursor THEN message_count[source] ELSE @]
  <2> DEFINE count == IF walk[r].cursor = NoCursor THEN message_count[source]
                                                   ELSE walk[r].count
  <2>1. /\ source \in ConversationIds /\ source \notin SnapshotIds
        /\ message_count[source] \in Nat /\ count \in Nat
        /\ message_count[source] = Cardinality(conversation_items[source])
    BY <1>1, <1>5, ListingAssumption
    DEF Listed, Intended, Owned, Inductive, TypeOK, StoreInvariant, CountMatchesItems, Walk
  <2>2. /\ stage'[r] = "page"
        /\ new = [walk[r] EXCEPT !.count = count]
        /\ \A q \in Readers \ {r} : walk'[q] = walk[q] /\ stage'[q] = stage[q]
    BY <1>5 DEF Listed, ListInvariant, ListType
  <2>3. new \in Walk /\ new.cursor >= NoCursor
    BY <1>1, <2>1, <2>2 DEF Walk
  <2>4. ListType'
    <3>1. new.source = source
      BY <1>1, <2>2 DEF Walk
    <3>2. \A q \in Readers : stage'[q] # "idle" =>
                              walk'[q].source \in ConversationIds \cup SnapshotIds
      BY <1>3, <2>2, <3>1 DEF Listed, ListInvariant, ListType
    <3>3. walk' \in [Readers -> Walk] /\ \A q \in Readers : walk'[q].cursor >= NoCursor
      BY <1>5, <2>2, <2>3 DEF Listed, ListInvariant, ListType
    <3>4. stage' \in [Readers -> {"idle", "metadata", "page", "done"}]
      BY <1>5 DEF Listed, ListInvariant, ListType
    <3> QED
      BY <3>2, <3>3, <3>4 DEF ListType
  <2>5. /\ new.source = source /\ new.filter = walk[r].filter /\ new.cursor = walk[r].cursor
        /\ new.delivered = walk[r].delivered /\ new.listed = walk[r].listed
        /\ new.rewritten = walk[r].rewritten
        /\ new.count = count
    BY <1>1, <2>2 DEF Walk
  <2> HIDE DEF new, count
  <2>6. SnapshotWalk(r)'
    BY <2>1, <2>5 DEF SnapshotWalk, new
  <2>7. NothingMissed(r)' /\ DeliveredBehind(r)'
    BY <1>1, <1>2, <1>3, <2>1, <2>2, <2>5
    DEF ConversationWalk, NothingMissed, DeliveredBehind, new
  <2>8. CountAhead(r)'
    <3> SUFFICES ASSUME ~walk[r].rewritten, walk[r].filter = MessageIds
                 PROVE  count <= Len(walk[r].delivered) + Cardinality(Ahead(r))
      BY <1>2, <2>2, <2>5 DEF CountAhead, Ahead, new
    <3>1. CASE walk[r].cursor = NoCursor
      <4>1. \A row \in conversation_items[source] : row.position \in Nat
        BY <1>1, <2>1, ConversationPages DEF Listed, Intended
      <4>2. Ahead(r) = conversation_items[source]
        BY <3>1, <4>1 DEF Ahead, NoCursor
      <4>3. count = Cardinality(conversation_items[source])
        BY <2>1, <3>1 DEF count
      <4>4. Len(walk[r].delivered) \in Nat
        BY <1>1, LenProperties DEF Walk
      <4> QED
        BY <2>1, <4>2, <4>3, <4>4
    <3>2. CASE walk[r].cursor # NoCursor
      BY <1>1, <1>3, <2>1, <3>2 DEF ConversationWalk, CountAhead, count
    <3> QED
      BY <3>1, <3>2
  <2>9. ConversationWalk(r)'
    BY <1>2, <1>3, <2>1, <2>5, <2>7, <2>8 DEF ConversationWalk, new
  <2> QED
    BY <1>1, <2>2, <2>4, <2>6, <2>9, ReaderMoves
<1>6. CASE /\ source \in {s.id : s \in snapshots}
           /\ stage' = [stage EXCEPT ![r] = "page"]
           /\ UNCHANGED walk
  <2>1. source \in SnapshotIds /\ source \notin ConversationIds
    BY <1>6, ListingAssumption DEF Listed, Intended, Owned, Inductive, TypeOK, Snapshot
  <2>2. /\ stage'[r] = "page" /\ new = walk[r] /\ ListType'
        /\ \A q \in Readers \ {r} : walk'[q] = walk[q] /\ stage'[q] = stage[q]
    BY <1>3, <1>6 DEF Listed, ListInvariant, ListType
  <2>3. ConversationWalk(r)'
    BY <2>1, <2>2 DEF ConversationWalk
  <2>4. SnapshotWalk(r)'
    BY <1>1, <1>2, <1>3, <1>6, <2>1, <2>2 DEF SnapshotWalk
  <2> QED
    BY <1>1, <2>2, <2>3, <2>4, ReaderMoves
<1> QED
  BY <1>4, <1>5, <1>6 DEF LoadMetadata

\* What one page makes of a walk.
PageRead(r, limit) ==
  LET w    == walk[r]
      next == NextCursor(Rows(w), w.cursor, limit)
  IN  /\ stage[r] = "page"
      /\ stage'[r] = IF next = NoCursor THEN "done" ELSE "metadata"
      /\ walk'[r] = [w EXCEPT
                       !.delivered = @ \o OrderBy(PageOf(Rows(w), w.cursor, limit)),
                       !.cursor = next]

LEMMA PageFields ==
  ASSUME NEW r \in Readers, NEW limit, walk[r] \in Walk, PageRead(r, limit)
  PROVE  LET w    == walk[r]
             page == PageOf(Rows(w), w.cursor, limit)
             next == NextCursor(Rows(w), w.cursor, limit)
         IN  /\ walk'[r].source = w.source /\ walk'[r].filter = w.filter
             /\ walk'[r].listed = w.listed /\ walk'[r].rewritten = w.rewritten
             /\ walk'[r].count = w.count
             /\ walk'[r].cursor = next
             /\ walk'[r].delivered = w.delivered \o OrderBy(page)
             /\ w.delivered \in Seq(MessageIds) /\ w.cursor \in Int
             /\ walk'[r].delivered \in Seq(MessageIds) /\ next \in Int => walk'[r] \in Walk
<1> DEFINE w   == walk[r]
           new == walk'[r]
<1>1. new = [w EXCEPT !.delivered = @ \o OrderBy(PageOf(Rows(w), w.cursor, limit)),
                      !.cursor = NextCursor(Rows(w), w.cursor, limit)]
  BY DEF PageRead
<1> HIDE DEF new
<1>2. /\ new.source = w.source /\ new.filter = w.filter
      /\ new.listed = w.listed /\ new.rewritten = w.rewritten
      /\ new.count = w.count
      /\ new.cursor = NextCursor(Rows(w), w.cursor, limit)
      /\ new.delivered = w.delivered \o OrderBy(PageOf(Rows(w), w.cursor, limit))
      /\ w.delivered \in Seq(MessageIds) /\ w.cursor \in Int
  BY <1>1 DEF Walk
<1>3. ASSUME new.delivered \in Seq(MessageIds), new.cursor \in Int
      PROVE  new \in Walk
  <2>1. new = [source |-> w.source, filter |-> w.filter, cursor |-> new.cursor,
               count |-> w.count, delivered |-> new.delivered,
               listed |-> w.listed, rewritten |-> w.rewritten]
    BY <1>1, <1>2 DEF Walk
  <2>2. /\ w.source \in ConversationIds \cup SnapshotIds \cup {NoId}
        /\ w.filter \in SUBSET MessageIds /\ w.listed \in SUBSET MessageIds
        /\ w.rewritten \in BOOLEAN /\ w.count \in Nat
    BY DEF Walk
  <2> HIDE DEF w
  <2> QED
    BY ONLY <1>3, <2>1, <2>2 DEF Walk
<1> QED
  BY <1>2, <1>3 DEF new

\* A page of a conversation.
LEMMA ConversationPageListed ==
  ASSUME Listed, NEW r \in Readers, NEW limit \in Nat \ {0}, UNCHANGED vars,
         PageRead(r, limit), walk[r].source \in ConversationIds
  PROVE  /\ ConversationWalk(r)'
         /\ walk'[r] \in Walk /\ walk'[r].cursor >= NoCursor
<1> DEFINE w     == walk[r]
           rows  == Rows(w)
           items == conversation_items[w.source]
           ahead == {row \in rows : row.position > w.cursor}
           page  == PageOf(rows, w.cursor, limit)
           next  == NextCursor(rows, w.cursor, limit)
           new   == walk'[r]
<1>1. w \in Walk /\ w.cursor \in Int /\ w.cursor >= NoCursor /\ ConversationWalk(r)
  BY DEF Listed, ListInvariant, ListType, Walk
<1>2. /\ rows = {row \in items : row.message \in w.filter}
      /\ rows \in SUBSET ListRow /\ IsFiniteSet(rows) /\ OnePositionEach(rows)
      /\ OneRowEach(items)
      /\ \A row \in items : row.position \in Nat /\ row.position > 0 /\ row.message \in MessageIds
  BY <1>1, ConversationPages DEF Listed, Intended
<1>3. /\ new.source = w.source /\ new.filter = w.filter /\ new.listed = w.listed
      /\ new.rewritten = w.rewritten /\ new.cursor = next
      /\ new.delivered = w.delivered \o OrderBy(page) /\ new.count = w.count
      /\ w.delivered \in Seq(MessageIds)
      /\ new.delivered \in Seq(MessageIds) /\ next \in Int => new \in Walk
  BY <1>1, PageFields
<1>4. stage[r] = "page" /\ stage'[r] = IF next = NoCursor THEN "done" ELSE "metadata"
  BY DEF PageRead
<1>5. conversation_items' = conversation_items
  BY DEF vars, tables
<1>6. \A row \in rows : row.position >= 0
  BY <1>2
<1> HIDE DEF rows, page, next, new
<1>7. /\ page \subseteq ahead
      /\ next \in Int /\ next >= NoCursor
      /\ next = NoCursor => page = ahead
      /\ next # NoCursor =>
           /\ \E row \in page : row.position = next
           /\ \A row \in page : row.position <= next
           /\ \A row \in ahead \ page : row.position > next
  BY <1>1, <1>2, <1>6, PageProperties DEF page, next
<1> HIDE DEF ahead
<1>8. ahead \subseteq rows /\ \A row \in ahead : row.position > w.cursor
  BY DEF ahead
<1>9. page \in SUBSET ListRow /\ IsFiniteSet(page) /\ OnePositionEach(page) /\ OneRowEach(page)
  <2>1. page \subseteq rows /\ rows \subseteq items
    BY <1>2, <1>7, <1>8
  <2> QED
    BY <1>2, <2>1, FS_Subset DEF OnePositionEach, OneRowEach
<1>10. /\ OrderBy(page) \in Seq(MessageIds)
       /\ Range(OrderBy(page)) = MessagesOf(page)
       /\ IsInjective(OrderBy(page))
  BY <1>9, OrderByProperties, OrderByRange, OrderByMessages
<1>11. /\ new.delivered \in Seq(MessageIds)
       /\ Range(new.delivered) = Range(w.delivered) \cup MessagesOf(page)
       /\ IsInjective(w.delivered) /\ Range(w.delivered) \cap MessagesOf(page) = {}
            => IsInjective(new.delivered)
  BY <1>3, <1>10, ConcatRange
<1>12. NothingMissed(r)'
  <2> SUFFICES ASSUME NEW m \in w.listed \cap w.filter, m \notin Range(new.delivered)
               PROVE  /\ stage'[r] # "done"
                      /\ \E row \in items : row.message = m /\ row.position > next
    BY <1>3, <1>5 DEF NothingMissed, new
  <2>1. PICK row \in items : row.message = m /\ row.position > w.cursor
    BY <1>1, <1>4, <1>11 DEF ConversationWalk, NothingMissed
  <2>2. row \in ahead
    BY <1>2, <2>1 DEF ahead
  <2>3. row \notin page
    BY <1>11, <2>1 DEF MessagesOf
  <2>4. next # NoCursor /\ row.position > next
    BY <1>7, <2>2, <2>3
  <2> QED
    BY <1>4, <2>1, <2>4
<1>13. DeliveredBehind(r)'
  <2> SUFFICES ASSUME ~w.rewritten
               PROVE  /\ IsInjective(new.delivered)
                      /\ \A m \in Range(new.delivered) : \E row \in items :
                           row.message = m /\ (stage'[r] # "done" => row.position <= next)
    BY <1>3, <1>5 DEF DeliveredBehind, new
  <2>1. /\ IsInjective(w.delivered)
        /\ \A m \in Range(w.delivered) :
             \E row \in items : row.message = m /\ row.position <= w.cursor
    BY <1>1, <1>4 DEF ConversationWalk, DeliveredBehind
  <2>2. \A q \in page : q \in items /\ q.position > w.cursor /\ q.position \in Int
    BY <1>2, <1>7, <1>8
  <2>3. Range(w.delivered) \cap MessagesOf(page) = {}
    <3> SUFFICES ASSUME NEW m \in Range(w.delivered), NEW q \in page, q.message = m
                 PROVE  FALSE
      BY DEF MessagesOf
    <3>1. PICK row \in items : row.message = m /\ row.position <= w.cursor
      BY <2>1
    <3>2. row = q
      BY <1>2, <2>2, <3>1 DEF OneRowEach
    <3> QED
      BY <1>1, <2>2, <3>1, <3>2
  <2>4. ASSUME NEW m \in Range(new.delivered)
        PROVE  \E row \in items : row.message = m /\ (stage'[r] # "done" => row.position <= next)
    <3>1. CASE m \in MessagesOf(page)
      <4>1. PICK q \in page : q.message = m
        BY <3>1 DEF MessagesOf
      <4> QED
        BY <1>4, <1>7, <2>2, <4>1
    <3>2. CASE m \in Range(w.delivered)
      <4>1. PICK row \in items : row.message = m /\ row.position <= w.cursor
        BY <2>1, <3>2
      <4>2. stage'[r] # "done" => row.position <= next
        <5> SUFFICES ASSUME next # NoCursor
                     PROVE  row.position <= next
          BY <1>4
        <5>1. PICK q \in page : q.position = next
          BY <1>7
        <5>2. row.position \in Int
          BY <1>2
        <5> QED
          BY <1>1, <1>7, <2>2, <4>1, <5>1, <5>2
      <4> QED
        BY <4>1, <4>2
    <3> QED
      BY <1>11, <3>1, <3>2
  <2> QED
    BY <1>11, <2>1, <2>3, <2>4
<1>14. CountAhead(r)'
  <2> SUFFICES ASSUME ~w.rewritten, w.filter = MessageIds
               PROVE  w.count <= Len(new.delivered) +
                        (IF stage'[r] = "done" THEN 0 ELSE Cardinality(Ahead(r)'))
    BY <1>3 DEF CountAhead, new
  <2> DEFINE left == {row \in items : row.position > next}
  <2>1. rows = items /\ ahead = Ahead(r) /\ Ahead(r)' = left
    BY <1>2, <1>3, <1>5 DEF Ahead, ahead, new
  <2>2. w.count <= Len(w.delivered) + Cardinality(ahead) /\ w.count \in Nat
    BY <1>1, <1>4, <2>1 DEF ConversationWalk, CountAhead, Walk
  <2>3. Len(new.delivered) = Len(w.delivered) + Cardinality(page)
        /\ Len(w.delivered) \in Nat /\ Cardinality(page) \in Nat
    <3>1. Len(OrderBy(page)) = Cardinality(page)
      BY <1>9, OrderByProperties
    <3>2. Len(w.delivered \o OrderBy(page)) = Len(w.delivered) + Len(OrderBy(page))
      BY <1>3, <1>10, ConcatProperties
    <3> QED
      BY <1>3, <1>9, <3>1, <3>2, LenProperties, FS_CardinalityType
  <2>4. CASE next = NoCursor
    BY <1>4, <1>7, <2>2, <2>3, <2>4
  <2>5. CASE next # NoCursor
    <3>1. ahead \subseteq page \cup left
      BY <1>2, <1>7, <1>8, <2>5
    <3>2. IsFiniteSet(items) /\ IsFiniteSet(left)
      BY <1>2, <2>1, FS_Subset
    <3>3. /\ IsFiniteSet(page \cup left)
          /\ Cardinality(page \cup left) <= Cardinality(page) + Cardinality(left)
      <4>1. /\ IsFiniteSet(page \cup left)
            /\ Cardinality(page \cup left) =
                 Cardinality(page) + Cardinality(left) - Cardinality(page \cap left)
        BY <1>9, <3>2, FS_Union
      <4>2. Cardinality(page \cap left) \in Nat /\ Cardinality(left) \in Nat
        BY <1>9, <3>2, FS_Subset, FS_CardinalityType
      <4> QED
        BY <2>3, <4>1, <4>2
    <3>4. Cardinality(ahead) <= Cardinality(page \cup left)
      BY <3>1, <3>3, FS_Subset
    <3>5. Cardinality(ahead) \in Nat /\ Cardinality(page \cup left) \in Nat
          /\ Cardinality(left) \in Nat
      BY <3>1, <3>2, <3>3, FS_Subset, FS_CardinalityType
    <3>6. stage'[r] # "done"
      BY <1>4, <2>5
    <3> HIDE DEF left
    <3> QED
      BY <2>1, <2>2, <2>3, <3>3, <3>4, <3>5, <3>6
  <2> QED
    BY <2>4, <2>5
<1>15. ConversationWalk(r)'
  BY <1>1, <1>3, <1>5, <1>12, <1>13, <1>14 DEF ConversationWalk, new
<1> QED
  BY <1>3, <1>7, <1>11, <1>15 DEF new

\* A page of a snapshot.
LEMMA SnapshotPageListed ==
  ASSUME Listed, NEW r \in Readers, NEW limit \in Nat \ {0}, UNCHANGED vars,
         PageRead(r, limit), walk[r].source \in SnapshotIds
  PROVE  /\ SnapshotWalk(r)'
         /\ walk'[r] \in Walk /\ walk'[r].cursor >= NoCursor
<1> DEFINE w    == walk[r]
           rows == Rows(w)
           page == PageOf(rows, w.cursor, limit)
           next == NextCursor(rows, w.cursor, limit)
           new  == walk'[r]
           k    == Len(w.delivered)
<1>1. w \in Walk /\ SnapshotWalk(r) /\ w.cursor \in Int /\ w.cursor >= NoCursor
  BY DEF Listed, ListInvariant, ListType, Walk
<1>2. stage[r] = "page" /\ stage'[r] = IF next = NoCursor THEN "done" ELSE "metadata"
  BY DEF PageRead
<1>3. PICK s \in snapshots : s.id = w.source
  BY <1>1, <1>2 DEF SnapshotWalk
<1> DEFINE items == s.items
           n     == Len(items)
<1>4. rows = RowsAfter(-1, items) /\ items \in Seq(MessageIds)
  BY <1>1, <1>3, SnapshotPages DEF Listed
<1>5. /\ n \in Nat /\ DOMAIN items = 1..n
      /\ k \in 0..n /\ w.cursor = k - 1 /\ w.delivered = SubSeq(items, 1, k)
  BY <1>1, <1>2, <1>3, <1>4, LenProperties DEF SnapshotWalk, Walk
<1>6. /\ new.source = w.source /\ new.cursor = next
      /\ new.delivered = w.delivered \o OrderBy(page)
      /\ new.delivered \in Seq(MessageIds) /\ next \in Int => new \in Walk
  BY <1>1, PageFields
<1>7. snapshots' = snapshots /\ \A t \in snapshots : t.id = w.source => t = s
  BY <1>3 DEF vars, tables, Listed, Intended, IntentInvariant, SnapshotsApart
<1> HIDE DEF rows, page, next, new, k, n, items
<1> DEFINE row(i) == [position |-> i - 1, message |-> items[i]]
           ahead  == {q \in rows : q.position > w.cursor}
<1>8. rows = {row(i) : i \in 1..n}
  <2>1. \A i \in 1..n : -1 + i = i - 1
    BY <1>5
  <2>2. rows = {[position |-> -1 + i, message |-> items[i]] : i \in 1..n}
    BY <1>4, <1>5 DEF RowsAfter
  <2> QED
    BY <2>1, <2>2
<1>9. ahead = {row(i) : i \in (k + 1)..n}
  BY <1>5, <1>8
<1>10. /\ rows \in SUBSET ListRow /\ IsFiniteSet(rows) /\ OnePositionEach(rows)
       /\ \A q \in rows : q.position >= 0
  <2>1. -1 \in Int
    OBVIOUS
  <2>2. \A q \in rows : q.position >= 0
    BY <1>5, <1>8
  <2> QED
    BY <1>4, <2>1, <2>2, RowsAfterProperties
<1> HIDE DEF ahead
<1>11. /\ page \subseteq ahead
       /\ next \in Int /\ next >= NoCursor
       /\ next = NoCursor => page = ahead
       /\ next # NoCursor =>
            /\ \E q \in page : q.position = next
            /\ \A q \in page : q.position <= next
            /\ \A q \in ahead \ page : q.position > next
  BY <1>1, <1>10, PageProperties DEF page, next, ahead
\* e: how many messages have been delivered after the page.
<1> DEFINE e == IF next = NoCursor THEN n ELSE next + 1
<1>12. e \in k..n /\ page = {row(i) : i \in (k + 1)..e}
  <2>1. CASE next = NoCursor
    BY <1>5, <1>9, <1>11, <2>1
  <2>2. CASE next # NoCursor
    <3>1. PICK i \in (k + 1)..n : next = i - 1
      BY <1>9, <1>11, <2>2
    <3>2. e = i
      BY <1>5, <2>2, <3>1
    <3>3. \A j \in (k + 1)..n : row(j) \in page <=> j <= i
      <4> SUFFICES ASSUME NEW j \in (k + 1)..n
                   PROVE  row(j) \in page <=> j <= i
        OBVIOUS
      <4>1. row(j) \in ahead /\ row(j).position = j - 1
        BY <1>9
      <4>2. row(j) \in page => j - 1 <= next
        BY <1>11, <2>2, <4>1
      <4>3. row(j) \notin page => j - 1 > next
        BY <1>11, <2>2, <4>1
      <4> QED
        BY <1>5, <3>1, <4>2, <4>3
    <3>4. \A q \in page : \E j \in (k + 1)..n : q = row(j)
      BY <1>9, <1>11
    <3>5. (k + 1)..i = {j \in (k + 1)..n : j <= i}
      BY <1>5, <3>1
    <3> HIDE DEF row
    <3>6. page = {row(j) : j \in (k + 1)..i}
      BY <3>3, <3>4, <3>5
    <3>7. e \in k..n
      BY <1>5, <3>1, <3>2
    <3> QED
      BY <3>2, <3>6, <3>7
  <2> QED
    BY <2>1, <2>2
<1> HIDE DEF e
<1> DEFINE piece == SubSeq(items, k + 1, e)
<1>13. /\ SubSeq(items, 1, k) \o piece = SubSeq(items, 1, e)
       /\ piece \in Seq(MessageIds) /\ Len(piece) = e - k
       /\ \A i \in 1..(e - k) : piece[i] = items[k + i]
       /\ SubSeq(items, 1, e) \in Seq(MessageIds) /\ Len(SubSeq(items, 1, e)) = e
  BY <1>4, <1>5, <1>12, BeginningGrows DEF n
<1> HIDE DEF piece
<1>14. page = RowsAfter(k - 1, piece)
  <2>1. DOMAIN piece = 1..(e - k)
    BY <1>13, LenProperties
  <2>2. RowsAfter(k - 1, piece) = {[position |-> k - 1 + i, message |-> piece[i]] : i \in 1..(e - k)}
    BY <2>1 DEF RowsAfter
  <2>3. \A i \in 1..(e - k) : [position |-> k - 1 + i, message |-> piece[i]] = row(k + i)
    <3> SUFFICES ASSUME NEW i \in 1..(e - k)
                 PROVE  [position |-> k - 1 + i, message |-> piece[i]] = row(k + i)
      OBVIOUS
    <3>1. k - 1 + i = (k + i) - 1
      BY <1>5, <1>12
    <3>2. piece[i] = items[k + i]
      BY <1>13
    <3> QED
      BY <3>1, <3>2
  <2>4. \A i \in 1..(e - k) : k + i \in (k + 1)..e
    BY <1>5, <1>12
  <2>5. \A j \in (k + 1)..e : j - k \in 1..(e - k) /\ k + (j - k) = j
    BY <1>5, <1>12
  <2> DEFINE at(i) == [position |-> k - 1 + i, message |-> piece[i]]
  <2>6. \A i \in 1..(e - k) : at(i) \in page
    BY <1>12, <2>3, <2>4
  <2>7. ASSUME NEW j \in (k + 1)..e
        PROVE  \E i \in 1..(e - k) : row(j) = at(i)
    <3>1. j - k \in 1..(e - k) /\ k + (j - k) = j
      BY <2>5
    <3>2. at(j - k) = row(k + (j - k))
      BY <2>3, <3>1
    <3>3. at(j - k) = row(j)
      BY <3>1, <3>2
    <3> QED
      BY <3>1, <3>3
  <2> HIDE DEF row
  <2>8. page = {at(i) : i \in 1..(e - k)}
    BY <1>12, <2>6, <2>7
  <2> QED
    BY <2>2, <2>8
<1>15. OrderBy(page) = piece
  <2>1. k - 1 \in Int
    BY <1>5
  <2> QED
    BY <1>13, <1>14, <2>1, OrderByRowsAfter
<1>16. new.delivered = SubSeq(items, 1, e) /\ Len(new.delivered) = e
  BY <1>5, <1>6, <1>13, <1>15
<1>17. new \in Walk /\ new.cursor >= NoCursor
  BY <1>6, <1>11, <1>13, <1>16
<1>18. stage'[r] # "done" => new.cursor = e - 1
  BY <1>2, <1>6, <1>11 DEF e
<1>19. stage'[r] = "done" => e = n
  BY <1>2 DEF e
<1>20. e <= n
  BY <1>5, <1>12
<1>21. SnapshotWalk(r)'
  BY <1>3, <1>6, <1>7, <1>16, <1>18, <1>19, <1>20 DEF SnapshotWalk, new, items, n
<1> QED
  BY <1>17, <1>21 DEF new

LEMMA PageListed ==
  ASSUME Listed, NEW r \in Readers, ReadPage(r)
  PROVE  ListInvariant'
<1> DEFINE w == walk[r]
<1>1. PICK size \in PageSizes :
        LET limit == normalizePageSize(size)
            next  == NextCursor(Rows(w), w.cursor, limit)
        IN  /\ walk' = [walk EXCEPT
                          ![r].delivered = @ \o OrderBy(PageOf(Rows(w), w.cursor, limit)),
                          ![r].cursor = next]
            /\ stage' = [stage EXCEPT ![r] = IF next = NoCursor THEN "done" ELSE "metadata"]
  BY DEF ReadPage
<1> DEFINE limit == normalizePageSize(size)
<1>2. limit \in Nat \ {0}
  BY PageSizeIsPositive, ListingAssumption
<1>3. UNCHANGED vars /\ stage[r] = "page"
  BY DEF ReadPage
<1> HIDE DEF limit
<1>4. /\ PageRead(r, limit)
      /\ \A q \in Readers \ {r} : walk'[q] = walk[q] /\ stage'[q] = stage[q]
  BY <1>1, <1>3 DEF PageRead, limit, Listed, ListInvariant, ListType
<1>5. w \in Walk /\ walk'[r].source = w.source
  <2>1. w \in Walk
    BY DEF Listed, ListInvariant, ListType
  <2> QED
    BY <1>4, <2>1, PageFields
<1>6. ASSUME walk'[r] \in Walk, walk'[r].cursor >= NoCursor
      PROVE  ListType'
  <2>1. /\ walk' = [q \in Readers |-> walk'[q]]
        /\ stage' = [q \in Readers |-> stage'[q]]
    BY <1>1 DEF Listed, ListInvariant, ListType
  <2>2. \A q \in Readers : walk'[q] \in Walk /\ walk'[q].cursor >= NoCursor
    BY <1>4, <1>6 DEF Listed, ListInvariant, ListType
  <2>3. \A q \in Readers : stage'[q] \in {"idle", "metadata", "page", "done"}
    BY <1>4 DEF PageRead, Listed, ListInvariant, ListType
  <2>4. \A q \in Readers : stage'[q] # "idle" =>
                             walk'[q].source \in ConversationIds \cup SnapshotIds
    BY <1>3, <1>4, <1>5 DEF Listed, ListInvariant, ListType
  <2> QED
    BY <2>1, <2>2, <2>3, <2>4 DEF ListType
<1>7. CASE w.source \in ConversationIds
  <2>1. ConversationWalk(r)' /\ ListType'
    BY <1>2, <1>3, <1>4, <1>6, <1>7, ConversationPageListed
  <2>2. SnapshotWalk(r)'
    BY <1>5, <1>7, ListingAssumption DEF SnapshotWalk
  <2> QED
    BY <1>3, <1>4, <2>1, <2>2, ReaderMoves
<1>8. CASE w.source \in SnapshotIds
  <2>1. SnapshotWalk(r)' /\ ListType'
    BY <1>2, <1>3, <1>4, <1>6, <1>8, SnapshotPageListed
  <2>2. ConversationWalk(r)'
    BY <1>5, <1>8, ListingAssumption DEF ConversationWalk
  <2> QED
    BY <1>3, <1>4, <2>1, <2>2, ReaderMoves
<1> QED
  BY <1>3, <1>7, <1>8 DEF Listed, ListInvariant, ListType

-----------------------------------------------------------------------------
(***************************************************************************)
(* Steps of the store under the readers.                                   *)
(***************************************************************************)

LEMMA SnapshotsStay == [Next]_vars => snapshots \subseteq snapshots'
BY DEF Next, Step, Call, Abort, Rollback, vars, tables, EnsureConversation, InsertMessage,
       LockConversation, ReadOrder, VerifyOrder, RewriteOrder, UpdateConversation,
       CheckConversation, LoadMessages, InsertSnapshot, Commit

\* A walk through a conversation loses from `listed' what is taken off the list.
LEMMA WalkUnderStep ==
  ASSUME Listed, StoreStep, NEW r \in Readers
  PROVE  /\ walk[r] \in Walk /\ walk'[r] \in Walk /\ stage'[r] = stage[r]
         /\ walk'[r].source = walk[r].source /\ walk'[r].filter = walk[r].filter
         /\ walk'[r].cursor = walk[r].cursor /\ walk'[r].delivered = walk[r].delivered
         /\ walk'[r].count = walk[r].count
         /\ walk[r].source \in ConversationIds =>
              LET cv == walk[r].source IN
              /\ walk'[r].listed = walk[r].listed \cap MessagesOf(conversation_items'[cv])
              /\ walk'[r].rewritten <=> \/ walk[r].rewritten
                                        \/ ~(conversation_items[cv] \subseteq conversation_items'[cv])
<1>1. walk[r] \in Walk /\ stage'[r] = stage[r]
  BY DEF StoreStep, Listed, ListInvariant, ListType
<1>2. CASE walk[r].source \notin ConversationIds
  <2>1. walk'[r] = walk[r]
    BY <1>2 DEF StoreStep
  <2> QED
    BY <1>1, <1>2, <2>1
<1>3. CASE walk[r].source \in ConversationIds
  <2> DEFINE w     == walk[r]
             cv    == w.source
             kept  == w.listed \cap MessagesOf(conversation_items'[cv])
             taken == w.rewritten \/ ~(conversation_items[cv] \subseteq conversation_items'[cv])
  <2>1. walk'[r] = [w EXCEPT !.listed = kept, !.rewritten = taken]
    BY <1>1, <1>3 DEF StoreStep, Walk
  <2>2. kept \in SUBSET MessageIds /\ taken \in BOOLEAN
    BY <1>1 DEF Walk
  <2> HIDE DEF kept, taken, w
  <2>3. w \in Walk
    BY <1>1 DEF w
  <2>4. walk'[r] = [source |-> w.source, filter |-> w.filter, cursor |-> w.cursor,
                    count |-> w.count, delivered |-> w.delivered,
                    listed |-> kept, rewritten |-> taken]
    BY <2>1, <2>3 DEF Walk
  <2>5. walk'[r] \in Walk
    BY <2>2, <2>3, <2>4 DEF Walk
  <2>6. /\ walk'[r].source = w.source /\ walk'[r].filter = w.filter
        /\ walk'[r].cursor = w.cursor /\ walk'[r].delivered = w.delivered
        /\ walk'[r].count = w.count
        /\ walk'[r].listed = kept /\ walk'[r].rewritten = taken
    BY <2>4
  <2>7. walk'[r].listed = walk[r].listed \cap MessagesOf(conversation_items'[walk[r].source])
    BY <2>6 DEF w, kept
  <2>8. walk'[r].rewritten <=>
          \/ walk[r].rewritten
          \/ ~(conversation_items[walk[r].source] \subseteq conversation_items'[walk[r].source])
    BY <2>6 DEF w, taken
  <2> QED
    BY <1>1, <2>5, <2>6, <2>7, <2>8 DEF w
<1> QED
  BY <1>2, <1>3

LEMMA ConversationUnderStep ==
  ASSUME Listed, Intended', StoreStep, NEW r \in Readers, walk[r].source \in ConversationIds
  PROVE  ConversationWalk(r)'
<1> DEFINE w      == walk[r]
           cv     == w.source
           items  == conversation_items[cv]
           after  == conversation_items'[cv]
           new    == walk'[r]
<1>1. /\ w \in Walk /\ new \in Walk /\ stage'[r] = stage[r]
      /\ new.source = cv /\ new.filter = w.filter /\ new.cursor = w.cursor
      /\ new.delivered = w.delivered /\ new.count = w.count
      /\ new.listed = w.listed \cap MessagesOf(after)
      /\ new.rewritten <=> w.rewritten \/ ~(items \subseteq after)
  BY WalkUnderStep
<1>2. ConversationWalk(r) /\ w.cursor \in Int
  BY <1>1 DEF Listed, ListInvariant, Walk
<1>3. OneRowEach(items) /\ \A row \in items : row.position \in Nat
  BY <1>1, ConversationPages DEF Listed, Intended
<1>4. \A row \in after : row.position \in Nat
  BY DEF Intended, Owned, Inductive, TypeOK, Row
<1>5. [Next]_vars /\ Inductive
  BY DEF StoreStep, Listed, Intended, Owned
<1>6. ASSUME ~(items \subseteq after), NEW p \in after \ items, NEW q \in items
      PROVE  q.position < p.position
  BY <1>5, <1>6, StepMovesPast
<1> HIDE DEF items, after, new
<1>7. new.listed \subseteq MessagesOf(after)
  BY <1>1
<1>8. ASSUME stage[r] # "idle"
      PROVE  NothingMissed(r)'
  <2> SUFFICES ASSUME NEW m \in new.listed \cap new.filter, m \notin Range(new.delivered)
               PROVE  /\ stage[r] # "done"
                      /\ \E row \in after : row.message = m /\ row.position > new.cursor
    BY <1>1 DEF NothingMissed, new, after
  <2>1. m \in w.listed \cap w.filter /\ m \notin Range(w.delivered)
    BY <1>1
  <2>2. NothingMissed(r)
    BY <1>2, <1>8 DEF ConversationWalk
  <2>3. stage[r] # "done" /\ \E row \in items : row.message = m /\ row.position > w.cursor
    BY <2>1, <2>2 DEF NothingMissed, items
  <2>4. PICK row \in items : row.message = m /\ row.position > w.cursor
    BY <2>3
  <2>5. PICK p \in after : p.message = m
    BY <1>1 DEF MessagesOf
  <2>6. CASE items \subseteq after
    BY <1>1, <2>3, <2>4, <2>6
  <2>7. CASE ~(items \subseteq after) /\ p \in items
    <3>1. p = row
      BY <1>3, <2>4, <2>5, <2>7 DEF OneRowEach
    <3> QED
      BY <1>1, <2>3, <2>4, <2>5, <3>1
  <2>8. CASE ~(items \subseteq after) /\ p \notin items
    <3>1. row.position < p.position
      BY <1>6, <2>8
    <3>2. p.position > w.cursor
      BY <1>2, <1>3, <1>4, <2>4, <3>1
    <3> QED
      BY <1>1, <2>3, <2>5, <3>2
  <2> QED
    BY <2>6, <2>7, <2>8
<1>9. DeliveredBehind(r)'
  <2> SUFFICES ASSUME ~new.rewritten
               PROVE  /\ IsInjective(new.delivered)
                      /\ \A m \in Range(new.delivered) : \E row \in after :
                           row.message = m /\ (stage[r] # "done" => row.position <= new.cursor)
    BY <1>1 DEF DeliveredBehind, new, after
  <2>1. items \subseteq after /\ ~w.rewritten
    BY <1>1
  <2>2. DeliveredBehind(r)
    BY <1>2 DEF ConversationWalk
  <2>3. /\ IsInjective(w.delivered)
        /\ \A m \in Range(w.delivered) : \E row \in items :
             row.message = m /\ (stage[r] # "done" => row.position <= w.cursor)
    BY <2>1, <2>2 DEF DeliveredBehind, items
  <2> QED
    BY <1>1, <2>1, <2>3
<1>10. CountAhead(r)'
  <2> SUFFICES ASSUME stage[r] # "idle", ~new.rewritten, new.filter = MessageIds
               PROVE  new.count <= Len(new.delivered) +
                        (IF stage[r] = "done" THEN 0 ELSE Cardinality(Ahead(r)'))
    BY <1>1 DEF CountAhead, new
  <2>1. items \subseteq after /\ ~w.rewritten /\ w.filter = MessageIds
    BY <1>1
  <2>2. w.count <= Len(w.delivered) +
          (IF stage[r] = "done" THEN 0 ELSE Cardinality(Ahead(r)))
    BY <1>2, <2>1 DEF ConversationWalk, CountAhead
  <2>3. Ahead(r) \subseteq Ahead(r)'
    BY <1>1, <2>1 DEF Ahead, items, after, new
  <2>4. IsFiniteSet(Ahead(r)')
    <3>1. IsFiniteSet(after)
      BY DEF after, Intended, Owned, Inductive, StoreInvariant, PositionsFresh, UpTo
    <3>2. Ahead(r)' \subseteq after
      BY <1>1 DEF Ahead, after, new
    <3> QED
      BY <3>1, <3>2, FS_Subset
  <2>5. Cardinality(Ahead(r)) <= Cardinality(Ahead(r)')
        /\ Cardinality(Ahead(r)) \in Nat /\ Cardinality(Ahead(r)') \in Nat
    BY <2>3, <2>4, FS_Subset, FS_CardinalityType
  <2>6. w.count \in Nat /\ Len(w.delivered) \in Nat
    BY <1>1, LenProperties DEF Walk
  <2>7. new.count = w.count /\ new.delivered = w.delivered
    BY <1>1
  <2> HIDE DEF w
  <2> QED
    BY <2>2, <2>5, <2>6, <2>7
<1> QED
  BY <1>1, <1>7, <1>8, <1>9, <1>10 DEF ConversationWalk, new, after

LEMMA SnapshotUnderStep ==
  ASSUME Listed, Intended', StoreStep, NEW r \in Readers, walk[r].source \in SnapshotIds
  PROVE  SnapshotWalk(r)'
<1> DEFINE w == walk[r]
<1>1. /\ stage'[r] = stage[r] /\ walk'[r].source = w.source
      /\ walk'[r].cursor = w.cursor /\ walk'[r].delivered = w.delivered
  BY WalkUnderStep
<1>2. SnapshotWalk(r)
  BY DEF Listed, ListInvariant
<1>3. snapshots \subseteq snapshots'
  BY SnapshotsStay DEF StoreStep
<1>4. ASSUME NEW s \in snapshots', s.id = w.source
      PROVE  /\ Len(w.delivered) <= Len(s.items)
             /\ w.delivered = SubSeq(s.items, 1, Len(w.delivered))
             /\ stage[r] = "done" => Len(w.delivered) = Len(s.items)
  <2>1. CASE \E t \in snapshots : t.id = w.source
    <3>1. PICK t \in snapshots : t.id = w.source
      BY <2>1
    <3>2. s = t
      BY <1>3, <1>4, <3>1 DEF Intended, IntentInvariant, SnapshotsApart
    <3> QED
      BY <1>2, <3>1, <3>2 DEF SnapshotWalk
  <2>2. CASE ~ \E t \in snapshots : t.id = w.source
    <3>1. w.delivered = <<>> /\ stage[r] # "done"
      BY <1>2, <2>2 DEF SnapshotWalk
    <3>2. s.items \in Seq(MessageIds)
      BY <1>4 DEF Intended, Owned, Inductive, TypeOK, Snapshot
    <3> QED
      BY <3>1, <3>2, EmptyList
  <2> QED
    BY <2>1, <2>2
<1>5. w.source \notin {s.id : s \in snapshots'} => w.source \notin {s.id : s \in snapshots}
  BY <1>3
<1> HIDE DEF w
<1> QED
  BY <1>1, <1>2, <1>4, <1>5 DEF SnapshotWalk, w

LEMMA StoreListed ==
  ASSUME Listed, Intended', StoreStep
  PROVE  ListInvariant'
<1>1. ASSUME NEW r \in Readers
      PROVE  ConversationWalk(r)' /\ SnapshotWalk(r)'
  <2>1. walk'[r].source = walk[r].source
    BY WalkUnderStep
  <2>2. walk[r].source \in ConversationIds => ConversationWalk(r)'
    BY ConversationUnderStep
  <2>3. walk[r].source \in SnapshotIds => SnapshotWalk(r)'
    BY SnapshotUnderStep
  <2> QED
    BY <2>1, <2>2, <2>3 DEF ConversationWalk, SnapshotWalk
<1>2. ListType'
  <2>1. walk' = [r \in Readers |-> walk'[r]] /\ stage' = stage
    BY DEF StoreStep
  <2>2. \A r \in Readers : walk'[r] \in Walk /\ walk'[r].source = walk[r].source
                           /\ walk'[r].cursor = walk[r].cursor
    BY WalkUnderStep
  <2>3. ListType
    BY DEF Listed, ListInvariant
  <2>4. walk' \in [Readers -> Walk] /\ stage' \in [Readers -> {"idle", "metadata", "page", "done"}]
    BY <2>1, <2>2, <2>3 DEF ListType
  <2>5. ASSUME NEW r \in Readers
        PROVE  /\ walk'[r].cursor >= NoCursor
               /\ stage'[r] # "idle" => walk'[r].source \in ConversationIds \cup SnapshotIds
    BY <2>1, <2>2, <2>3 DEF ListType
  <2> QED
    BY <2>4, <2>5 DEF ListType
<1> QED
  BY <1>1, <1>2 DEF ListInvariant

-----------------------------------------------------------------------------
(***************************************************************************)
(* The theorems.                                                           *)
(***************************************************************************)

LEMMA ListsStore == [ListNext]_listVars => [Next]_vars
BY DEF ListNext, listVars, vars, StoreStep, StartWalk, ListStep, LoadMetadata, ReadPage

LEMMA InitListed == ListInit => Listed
<1> SUFFICES ASSUME ListInit
             PROVE  Listed
  OBVIOUS
<1>1. Intended
  BY InitIntended DEF ListInit
<1>2. NoWalk \in Walk /\ NoWalk.cursor >= NoCursor
  BY EmptyList DEF NoWalk, Walk, NoCursor
<1>3. ListType
  BY <1>2 DEF ListInit, ListType
<1>4. \A r \in Readers : ConversationWalk(r)
  BY StoreAssumption DEF ListInit, ConversationWalk, NoWalk
<1>5. \A r \in Readers : SnapshotWalk(r)
  BY EmptyList DEF ListInit, Init, SnapshotWalk, NoWalk, NoCursor
<1> QED
  BY <1>1, <1>3, <1>4, <1>5 DEF Listed, ListInvariant

LEMMA NextListed == Listed /\ [ListNext]_listVars => Listed'
<1> SUFFICES ASSUME Listed, [ListNext]_listVars
             PROVE  Listed'
  OBVIOUS
<1>1. Intended'
  BY ListsStore, NextIntended DEF Listed
<1>2. CASE UNCHANGED listVars
  <2>1. UNCHANGED <<conversation_items, snapshots, stage, walk>>
    BY <1>2 DEF listVars, vars, tables
  <2>2. ListType'
    BY <2>1 DEF Listed, ListInvariant, ListType
  <2>3. ASSUME NEW r \in Readers
        PROVE  ConversationWalk(r)' /\ SnapshotWalk(r)'
    <3>1. ConversationWalk(r) /\ SnapshotWalk(r)
      BY DEF Listed, ListInvariant
    <3>2. ConversationWalk(r)'
      BY <2>1, <3>1 DEF ConversationWalk, NothingMissed, DeliveredBehind, CountAhead, Ahead
    <3>3. SnapshotWalk(r)'
      BY <2>1, <3>1 DEF SnapshotWalk
    <3> QED
      BY <3>2, <3>3
  <2> QED
    BY <1>1, <2>2, <2>3 DEF Listed, ListInvariant
<1>3. CASE ListNext
  <2>1. ListInvariant'
    BY <1>1, <1>3, StoreListed, StartListed, MetadataListed, PageListed DEF ListNext, ListStep
  <2> QED
    BY <1>1, <2>1 DEF Listed
<1> QED
  BY <1>2, <1>3

\* No page boundary, filter or rewrite hides a message that was listed all the
\* time since the walk began.
THEOREM NothingIsMissed == ListSpec => []WalksMissNothing
<1>1. Listed => WalksMissNothing
  <2> SUFFICES ASSUME Listed, NEW r \in Readers, Walking(r, ConversationIds),
                      NEW m \in walk[r].listed \cap walk[r].filter,
                      m \notin Range(walk[r].delivered)
               PROVE  /\ stage[r] # "done"
                      /\ \E row \in Rows(walk[r]) :
                           row.message = m /\ After(row.position, walk[r].cursor)
    BY DEF WalksMissNothing
  <2>1. /\ walk[r] \in Walk /\ walk[r].source \in ConversationIds /\ stage[r] # "idle"
        /\ ConversationWalk(r)
    BY DEF Listed, ListInvariant, ListType, Walking
  <2>2. NothingMissed(r)
    BY <2>1 DEF ConversationWalk
  <2>3. Rows(walk[r]) = {row \in conversation_items[walk[r].source] :
                           row.message \in walk[r].filter}
    BY <2>1, ConversationPages DEF Listed, Intended
  <2> QED
    BY <2>2, <2>3 DEF NothingMissed, After
<1> QED
  BY <1>1, InitListed, NextListed, PTL DEF ListSpec

\* Appends alone never make a walk deliver a message twice.
THEOREM OnlyRewritesRepeat == ListSpec => []WalksRepeatOnlyRewritten
<1>1. Listed => WalksRepeatOnlyRewritten
  BY DEF Listed, ListInvariant, ConversationWalk, DeliveredBehind, Walking,
         WalksRepeatOnlyRewritten
<1> QED
  BY <1>1, InitListed, NextListed, PTL DEF ListSpec

\* What the first answer counted is delivered, although the count and the pages
\* are read at different moments, unless something is taken off the list.
THEOREM CountIsDelivered == ListSpec => []WalksDeliverTheirCount
<1>1. Listed => WalksDeliverTheirCount
  <2> SUFFICES ASSUME Listed, NEW r \in Readers, Walking(r, ConversationIds),
                      stage[r] = "done", ~walk[r].rewritten, walk[r].filter = MessageIds
               PROVE  walk[r].count <= Len(walk[r].delivered)
    BY DEF WalksDeliverTheirCount
  <2>1. walk[r] \in Walk /\ walk[r].source \in ConversationIds /\ ConversationWalk(r)
    BY DEF Listed, ListInvariant, ListType, Walking
  <2>2. walk[r].count <= Len(walk[r].delivered) + 0
    BY <2>1 DEF ConversationWalk, CountAhead
  <2>3. Len(walk[r].delivered) \in Nat
    BY <2>1, LenProperties DEF Walk
  <2> QED
    BY <2>2, <2>3
<1> QED
  BY <1>1, InitListed, NextListed, PTL DEF ListSpec

\* A snapshot is read exactly, in pages of any sizes.
THEOREM SnapshotsReadExactly == ListSpec => []SnapshotWalksAreExact
<1>1. Listed => SnapshotWalksAreExact
  <2> SUFFICES ASSUME Listed, NEW r \in Readers, NEW s \in snapshots, walk[r].source = s.id
               PROVE  /\ Len(walk[r].delivered) <= Len(s.items)
                      /\ walk[r].delivered = SubSeq(s.items, 1, Len(walk[r].delivered))
                      /\ stage[r] = "done" => walk[r].delivered = s.items
    BY DEF SnapshotWalksAreExact
  <2>1. s.id \in SnapshotIds /\ s.items \in Seq(MessageIds)
    BY DEF Listed, Intended, Owned, Inductive, TypeOK, Snapshot
  <2>2. SnapshotWalk(r)
    BY DEF Listed, ListInvariant
  <2>3. /\ Len(walk[r].delivered) <= Len(s.items)
        /\ walk[r].delivered = SubSeq(s.items, 1, Len(walk[r].delivered))
        /\ stage[r] = "done" => Len(walk[r].delivered) = Len(s.items)
    BY <2>1, <2>2 DEF SnapshotWalk
  <2>4. SubSeq(s.items, 1, Len(s.items)) = s.items
    BY <2>1, WholeList
  <2> QED
    BY <2>3, <2>4
<1> QED
  BY <1>1, InitListed, NextListed, PTL DEF ListSpec

=============================================================================
