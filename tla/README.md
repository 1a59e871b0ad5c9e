# Verification of agent-state

TLA+ models of the agent-state service (`src/`), the TLC runs that check them
and TLAPS proofs about them.  The service stores the messages of agent
conversations in PostgreSQL behind a gRPC interface; several callers, and
several replicas of the service, may work on one conversation at the same time.
Everything that keeps a conversation consistent happens in short database
transactions, so these are at the centre of the models.

## 1. The system

| Part | Code | State | Operations |
| --- | --- | --- | --- |
| Store transactions | `internal/state/append.go`, `range_ops.go`, `snapshot.go`, `store.go` | the tables; per transaction the locals and the row lock | append, replace a range, delete a range, create a snapshot |
| Range operations in memory | `range_ops.go` 28-90, 131-162 | Go slices `order`, `working`, `replaced`, `deleted` | bounds, cut, insertion, uniqueness |
| Paged listings | `list.go`, `snapshot.go` 148-288, `pagination.go` | page tokens held by clients | list messages or ids of a conversation or a snapshot |
| Metadata read | `conversation.go` | - | get conversation |
| gRPC handlers | `internal/server/server.go` | none | parse, call the store, map errors to codes |
| Message codec | `convert.go`, `types.go`, `message_row.go`, `internal/server/converter.go` | none | protobuf to domain to columns, and back |
| Schema | `migrations/0001_init.sql` | - | keys, foreign keys, the `position` sequence |
| Migrations | `internal/db/migrate.go` | `schema_migrations` | apply what is missing, in one transaction |
| Life cycle | `cmd/agent-state-service/main.go`, `internal/config` | the process | start, serve, stop on a signal |
| End-to-end tests, packaging | `test/e2e`, `charts`, `Dockerfile`, ... | - | - |

**Interaction.**  A handler parses a request and calls one method of the
`Store`.  A mutating method runs one transaction (`runTx`); a listing runs two
statements outside any transaction.  Calls share nothing in the process but the
connection pool: they meet in the database, on the row of the conversation.

**What is hard.**  Transactions are READ COMMITTED (`pgx.TxOptions{}`), so every
statement sees what others have committed just before it.  An append *adds* to
`message_count`; a range operation *overwrites* it with the length of a list it
read statements earlier.  A range operation deletes and re-inserts every row of
the conversation, so every position changes under the page tokens that clients
hold.  An append locks the conversation row twice, in two modes.  A snapshot
reads without a lock and writes later.  Callers name messages that may be gone.
Any statement may fail, and the answer to a commit may be lost.  Dates are those
of the start of a transaction, not of its commit.  A message passes through four
forms, in which empty, zero, absent and NULL are not the same.  Replicas migrate
one database at the same time, and are killed while they do.  A process that
stops waits without a limit for calls that wait for each other, for the few
connections of its pool, and for rows that other processes have locked.

**What makes each part correct.**

- Store transactions: each operation takes effect at once, or not at all; the
  count is the number of listed messages; the version counts the changes; lists
  and snapshots hold messages of their own conversation only; the constraints of
  the schema never have to catch an error; no deadlock; every call ends; a change
  is dated after whatever its caller can have seen.
- Range operations: the new order is the old one with the named range replaced,
  whatever the bounds; the answer suffices to undo a replacement that inserted
  something (one that only cuts leaves nothing to name as bounds); a repeated
  request leaves the order alone; the in-place edits of shared slices do not
  disturb each other.
- Listings: a walk from page to page misses nothing that stays listed, repeats
  only what was rewritten, ends, and reads a snapshot exactly.
- Codec: what was accepted can be read back, and is what was sent; a snapshot
  reads the same as its messages; equal hashes are equal bodies.
- Migrations: a migration is applied once and in order, however many replicas
  start, and who serves has all of its own.
- Life cycle: a stop lets the calls in progress finish, and ends.

The lines where each of these can go wrong are the `hazards` of `PROJECT.json`.

## 2. The modules

| Module | What it is |
| --- | --- |
| `RangeOps` | The in-memory computation of both range operations, as operators on sequences. |
| `RangeSlices` | The same as the Go code does it: slices, backing arrays, `append` in place or into a copy. |
| `RangeOpsWalk`, `MCRangeOpsWalk` | The order of one conversation under any sequence of range operations; in each state the operators are compared with a reference that says who precedes whom, without indices. |
| `ConversationStore` | The four transactions, concurrently, one action per SQL statement. |
| `ConversationStoreInv` | The inductive invariants of `ConversationStore`. |
| `MCConversationStore` | Instances for TLC. |
| `ConversationLog` | The promise: indivisible operations on lists of messages. |
| `ConversationStoreRefinement`, `MCConversationStoreRefinement` | The refinement mapping and its instances. |
| `MessageListing`, `MCMessageListing` | Clients that walk through pages beside the transactions of `ConversationStore`. |
| `ConversationTimes`, `MCConversationTimes` | `ConversationStore` with the dates its transactions leave. |
| `MessageCodec` | The conversions between the forms of a message, as operators. |
| `MessageJourney`, `MCMessageJourney` | Messages that are appended, stored, copied into snapshots and answered through these conversions. |
| `Migrations`, `MCMigrations` | Replicas that bring the schema up to date at the same time. |
| `Lifecycle` | Processes that start, serve and stop, and the calls in them. |
| `RangeOpsProofs`, `RangeOpsWalkProofs` | Facts about the range operators; that they are right, can be undone, leave the order alone when repeated, and are what the edits of slices compute. |
| `ConversationStoreProofs` | Facts about rows, ranks and `ORDER BY position`; the invariants and action properties of the store; which messages lists and snapshots hold. |
| `ConversationStoreRefinementProofs` | That a transaction writes what it was asked for, and that the transactions implement `ConversationLog`. |
| `ConversationViewsProofs` | The dates, and what walks through pages deliver. |
| `MessageJourneyProofs`, `MigrationsProofs`, `LifecycleProofs` | The invariants of these three. |

### ConversationStore and the code

| Action | Code |
| --- | --- |
| `Call` | a request of a client, with what it may have learnt from earlier answers |
| `EnsureConversation` | `INSERT INTO conversations ... ON CONFLICT DO NOTHING` |
| `InsertMessage` | one turn of the loop of append: both INSERTs |
| `LockConversation` | `loadConversationMetadataForUpdate` |
| `ReadOrder` | `fetchConversationOrder` and the slicing after it |
| `VerifyOrder` | `ensureMessagesExist` and `ensureUnique` |
| `RewriteOrder` | `rewriteConversationOrder`, and `DELETE FROM messages` |
| `UpdateConversation` | `UPDATE conversations` of all three operations |
| `CheckConversation`, `LoadMessages`, `InsertSnapshot` | the statements of `CreateSnapshot` |
| `Commit`, `Abort` | `Commit`, and any error: the deferred `Rollback` |

A transaction keeps its uncommitted writes in `staged`; a `Commit` moves them to
the tables.  Each INSERT of a referring row takes PostgreSQL's `FOR KEY SHARE`
lock on the conversation, UPDATE takes `FOR NO KEY UPDATE`, the range operations
begin with `FOR UPDATE`; `Conflicts` is PostgreSQL's table of which of them
exclude each other.  Two groups of statements are one action because nobody else
can tell them apart: the two INSERTs of a message (the first is invisible before
the commit), and the rewriting statements of a range operation (its lock keeps
everybody else off the rows).  Drawing positions is visible to concurrent
appends, so it stays in the action that draws them, and positions of an aborted
transaction are lost as they are in PostgreSQL.

Left out here: message bodies, which never change once inserted (a message is
its id); the wording of errors.  Bodies are in `MessageJourney` and dates in
`ConversationTimes`.  The rules PostgreSQL follows (locks,
READ COMMITTED, the sequence) and those of Go slices are taken from their use in
this code and marked external in the map.

### MessageListing and the code

`StartWalk` is the first request of a client, `LoadMetadata` and `ReadPage` are
the two statements of a list call, and `ReadPage` also stands for the next
request with the token of the answer.  Page sizes are chosen anew for every
page.  A filter by roles and kinds is the set of messages it lets through.
`listed` and `rewritten` record what the properties need to know about the past,
and so does `count`, the metadata of the first answer; of the metadata only the
count and the times reach a client (`converter.go` 125-131; a listing of ids answers
none of it), so nothing tells a client that count and page are of different moments.
What it can rely on is `WalksDeliverTheirCount`: while nothing is taken off the list,
it receives at least as many messages as were counted.
A token that is not the client's own is refused before anything is read, which
changes no state, and is left out.

### ConversationTimes and the code

Each action of `ConversationStore` is taken together with what it does to dates.
`BeginTx` is `BEGIN`, where PostgreSQL fixes `NOW()` for the whole transaction;
`CommitDated` makes `updated_at`, `created_at` and the copied dates of a snapshot
visible with the rows they belong to.  The clock goes on with each commit: what
begins after a commit gets a later date, what begins between two commits may get
the same one, which is more than clocks of microseconds let happen.  A clock that
is set back is left out.  `seen` is no column: it keeps the `updated_at` that the
caller can have read before its call.

### MessageCodec, MessageJourney and the code

| Operator or action | Code |
| --- | --- |
| `WireInputAccepted`, `FromProtoBody` | `fromProtoAppendMessage`, `fromProtoMessageBody` |
| `Validate` | `MessageBody.Validate` |
| `EncodeMessageBody`, `StringPtr` | `encodeMessageBody`, `stringPtr` |
| `DecodeError`, `DecodeMessageBody` | `decodeMessageBody`: its errors and its result |
| `ToProtoBody` | `toProtoMessageBody` |
| `MarshalDeterministicJSON` | the text of which `body_sha256` is the hash |
| `AppendMessage` | one message of append: check, convert, insert, decode for the answer |
| `CopyMessage` | one item of a snapshot: decode, hash, encode, insert |
| `FilterRoles`, `Answer` | the role filter and the rows of a listing |

A text is a value with nothing to it except that one is empty; an enum of the wire
is any 32-bit integer, since enums of proto3 are open, and `Int16` narrows it.
`decodeMessageBody` tells the variant of a body by which columns are not NULL; that
is where empty and absent can be confused.  Metadata is a finite map, as a Go map
is.  SHA-256 is taken to tell texts apart, so a hash is the text that is hashed.
Left out: the kind of a message, which every conversion copies; strings with U+0000,
which PostgreSQL refuses; the cases in which the encoding of metadata as JSON fails,
which it does not for strings.  That an append of several messages fails as a whole
is in `ConversationStore`.

### Migrations and the code

| Action | Code |
| --- | --- |
| `Start` | `main` calls `ApplyMigrations`, which begins its transaction |
| `EnsureTable`, `CreateTable` | `CREATE TABLE IF NOT EXISTS schema_migrations`: the test, and the creation |
| `CheckApplied` | the head of the loop and `SELECT EXISTS` |
| `ApplyFile` | `tx.Exec` of the file |
| `RecordVersion` | `INSERT INTO schema_migrations` |
| `Commit` | the end of `pgx.BeginFunc`; `main` goes on to serve |
| `Fail`, `Crash` | an error, after which `main` exits; a process killed anywhere |

The repository has one file today; the model has `Files` of them, of two sorts: a
file that creates objects fails if it is run a second time, one that changes data
does not, and would be the one to do harm.  A replica's image may hold fewer
files than another's.  `CREATE TABLE IF NOT EXISTS` is two steps because
PostgreSQL's test does not see a table that is being created; that a transaction
waits for another that has inserted the same key, and then fails, is PostgreSQL's
rule and marked external.

### Lifecycle and the code

`phase` follows `run` in `main.go`, statement by statement; `stopper` is its
goroutine (`BeginStop` and `EndStop` are the beginning and the return of
`GracefulStop`); `Exit` is the deferred `pool.Close` and the end of the process.
A call is what it waits for: a transaction waits for a connection (`Begin`), for
the row (`LockRow`: one exclusive lock, for the modes that `ConversationStore` tells
apart) and commits; a listing takes a connection for each of its two
statements (`LoadMetadata`, `ReadPage`).  `"cut"` marks a call that lost its pool
or its process.  Which calls grpc-go lets in, and how pgxpool hands out
connections, is taken from how `main.go` and the store rely on it and marked
external.  A call that has failed and still holds its connection for a moment is
left out; so is a process that is killed before it has stopped, which cuts calls
off whatever the code does.

## 3. The runs

| Run | Question | Instance |
| --- | --- | --- |
| `range_ops` | Do index arithmetic and slice edits compute the right order, and does a repeated request leave the order alone? | every order over 5 messages, every request with up to 2 inserted, 0 to 2 spare elements |
| `store_safety` | Do count, version, positions, references and the three inductive invariants survive every interleaving, and is every operation atomic to its callers? | 2 clients, 4 calls, 1 conversation, 3 messages, batches and lists up to 2 |
| `store_conversations` | Do conversations stay apart, and what do dates say? | 2 clients, 4 calls, 2 conversations, 3 messages, batches of 1, lists up to 2 |
| `store_liveness` | Can transactions wait in a circle, and does every call end? | 3 clients, 4 calls, 1 conversation, 4 messages, batches of 1, one list of 1 |
| `listing` | What can a client that pages miss or see twice? | 2 writers, 3 calls, 1 reader, every filter, page sizes 0 to 3 with default 1 and maximum 2 |
| `listing_snapshots` | Is a snapshot read back exactly, and does a walk end? | 1 writer, 3 calls, 1 reader, 2 messages, snapshots up to 3 items, the first two different |
| `migrations` | Is every migration applied once and in order, and does every replica serve in the end? | 3 replicas of 2 releases, 3 files of both sorts, 2 kills |
| `lifecycle` | Does a stop finish, and finish the calls? | 2 processes with 1 connection each, 2 transactions on 1 conversation, 1 listing |
| `codec` | Is what is stored readable, and what was sent? | 1 message of every shape over 2 texts, 2 metadata keys, sizes -1, 0 and 640, enums on both sides of 16 bits |
| `codec_hash` | Does the hash tell bodies apart? | 2 messages and 2 copies, every order of metadata |
| `codec_role` | Is no message stored with an unspecified role? (no) | as `codec` |
| `codec_empty_text` | Does "missing variant" mean that? (no) | as `codec` |

**Findings.**  Two runs end in a counterexample, against what the code says of
itself.  `codec_role`: `converter.go` 17 refuses a message without a role, but
compares the 32-bit enum and narrows it to 16 bits only afterwards (line 24), so
an unknown value that is a multiple of 65536 is stored and answered as
`ROLE_UNSPECIFIED`.  `codec_empty_text`: a text body whose text is empty passes
`Validate`, is stored as NULL (`convert.go` 125) and fails to decode with
"message body missing variant" (line 122), although it has one; the append is
rolled back and answered as an internal error.  `StoredIsReadable` shows that
nothing worse comes of it: no row that cannot be decoded is ever committed.

**Why the bounds are enough.**  `MaxCalls` bounds the requests of a behaviour,
nothing else is cut off.  Every operation needs one append before it; two
appends and two range operations in any overlap are covered by four calls of two
clients, and only two transactions at a time can get past the row lock of a
conversation with different outcomes.  Three messages give lists with a first, a
middle and a last element, and a message that was replaced and can come back;
batches of two make appends interleave in the middle.  Three clients are what a
circle of waiting needs beyond two: one lock holder, one in the shared mode and
one that wants it all.  The fourth call is the append that must commit before a
range operation has anything to name, so that a range operation meets two open
appends; which message it names makes no difference to its locks, hence one list.
Locks of different conversations have nothing to do with each other, hence one
conversation.  Message ids are consumed by appends; `store_liveness`
has as many as its calls can use, so that no append stops for want of an id.
In the other runs an append may, which only prunes behaviours.  A walk of
`MessageListing` is not continued past `MaxDelivered` messages, which no walk of
these instances reaches: `WalksEnd` would fail if one did.  Three replicas let
one lose to each of two others, of either release, and two kills (`MaxCrashes`)
hit one replica twice or two once.  One connection per process is the smallest
pool, where waiting for one matters most.  `MaxCopies` in `MessageJourney` bounds
the copies; the hash needs two to compare.  The values of `MCMessageJourney` are
one of each class the conversions distinguish: empty or not, zero, positive or
negative, within 16 bits, beyond, and beyond with low bits zero.  The proofs of
section 4 need none of the bounds.

**Symmetry** of clients, messages, conversations and snapshots is used in
`store_safety`, `store_conversations` and `listing`, which check no liveness.
**Deadlock checking** is off where the system may really stop: the calls of a
behaviour are used up, the range walk ends in the empty list, every message is
appended, every process has exited.  In `migrations` it is off because a system
in which all replicas serve has nothing more to do.  That transactions do not
block each other is `NoDeadlock`.

**Fairness** is weak fairness throughout, of steps that the program or its
environment is bound to take once nothing holds them up.

- `FairSpec` of the store: the statements of each transaction.  A statement that
  is not waiting for a lock is executed, which PostgreSQL and the Go scheduler
  do.  Not of `Call` (clients need not call) or `Abort` (nothing has to fail, and
  nothing is rescued by a timeout: PostgreSQL's deadlock detector is not part of
  the model).
- `FairListSpec`: the statements of a walk, whose client asks for the next page
  as long as it has a token.  Nothing is assumed of the transactions beside it.
- `FairSpec` of `Migrations`: the steps of each replica, its start among them,
  because Kubernetes starts a container that has exited again.  Not of `Crash`.
- `FairSpec` of `Lifecycle`: `main`, the goroutine that stops, and the calls.  Not
  of signals, arrivals and failures.

The liveness results are about finitely many calls and kills: an endless stream
of appends could keep a range operation waiting for its lock, or a walk from its
last page.

## 4. The proofs

All theorems hold for every value of the constants that satisfies the named
assumption of the module: `StoreAssumption` (batch sizes are positive, lists are
lists of message ids, the absent bound is not an id), `WalkAssumption` (the same of
range operations alone; spare room is a number), `RefinementAssumption` (the promise
allows an append any messages, as it must: the ids are drawn by the database),
`ListingAssumption` (the default and the largest page size are positive, filters are
sets of messages), `CodecAssumption` and `JourneyAssumption` (numbers are integers,
NULL is not a value, inputs are messages of the wire), `MigrationsAssumption`,
`LifecycleAssumption` (a pool has at least one connection).

**Range operations.**  `OrderInvariant` says that an order lists each message once,
and everything else follows from the operators.  `SpliceProperties` says what is at
each place of a splice; the lemmas after it restate this without indices, which is
what the reference of `RangeOpsWalk` compares with.  A repeated request
(`ReplaceTwice`, `DeleteTwice`) either names a bound that its first execution has
removed, or would list an inserted message twice, or finds nothing left to do.  For
slices the argument is about arrays: `append` writes only past the elements of its
slice, or into a new array (`Appended`), and so each edit touches only the array of
`working`, while the ids that are reported lie in an array of their own.

**The store.**  Its properties are not inductive: that a count is right after a
commit depends on what the committing transaction counted several statements
before.  `StoreInvariant` adds what happens between:

- `LocksExclude`: locks held on one conversation are compatible;
- `PositionsFresh`: no two rows, committed or staged by anybody, share a
  position, and none is above the sequence;
- `StatementState`: before each statement, the lock the transaction holds and
  what it has staged.  A range operation at its UPDATE or COMMIT still removes
  exactly the rows that are there (`Rewritten`), because it holds the lock that
  excludes every other commit of rows; an append about to commit has added its
  batch to the count that is still stored.

`ConversationStoreProofs` has one lemma per action.  Frame lemmas take care of
steps that leave rows, locks or the other transactions alone; the weight is in
`CommitDisturbsNobody` (the lock argument), `CommitCounts` (the rows added by an
append are apart from those listed) and `CommitPositions`.  `DeadlockFree` follows
from the invariant by elimination: in a circle nobody holds the row for writing,
because who does waits for nobody; so nobody waits for a writer, so nobody holds
the shared lock and waits; what is left holds nothing, and nothing is waited for.

**Which messages.**  `OwnershipInvariant` adds what each transaction has computed
or checked in memory: the ids of a rewrite are messages of its conversation, each
once (`WorkingOwn`), and remain so until the rows are written, since only a
deletion removes messages and needs the lock that the transaction holds; what an
append inserts is new to everybody (`NewMessages`).  A snapshot has no lock; it
copies messages by their `origin`, which no deletion changes.

**One moment.**  `IntentInvariant` adds what the transaction was asked for: what it
has staged is what its request makes of the order and the messages as they are now,
not only as they were when they were read.  That is what lets a transaction be taken
to happen at its commit, and the refinement is proved from it step by step.  A
commit is the one operation of `ConversationLog` that its call stands for, and every
other statement leaves the tables alone.  A snapshot has two moments: loading its
messages is `CopyMessages`, all of them undeleted then, and its commit is
`TakeSnapshot` of the copies, when some may be gone.  Everything else stutters
(`ImplementsLog`).  The order of rows by position is a list with the right splice
because positions of a rewrite are drawn in the order of the list.

**Dates.**  `DatesInvariant` says that everything committed is older than the
clock, and that a transaction that has begun is younger than what its caller had
seen and than every message its request names.  It stays true when others commit,
because a commit dates only messages that were new, which no request can name.

**Pages.**  `ListInvariant` relates a walk to its cursor: what was listed when the
walk began, and still is, has been delivered or lies above the cursor; what has been
delivered and not rewritten since lies at or below it.  A commit of a transaction
keeps both because new rows, also those of a rewrite, get positions above any that a
reader can have seen.  `Ahead` is the part of a list a walk has still to deliver:
what is ahead together with what was delivered is never less than what was counted.
The rows of a snapshot do not change, so there the cursor is just one less than the
number of messages delivered.

**Messages.**  `JourneyInv` is short: a row was made from the input of its
message, and a copy from a row.  The work is in lemmas about the operators, each
conversion being undone by its opposite on what append lets through:
`BodyRoundTrip` (columns and back) and `AnswerIsInput` (wire to columns to wire).
That the hash tells bodies apart needs that the sorted keys of a map depend on its
keys only (`OrderOfMap`: a finite set has one ascending order) and that pairs in that
order determine the map (`PairsTellMap`).

**Migrations.**  `MigrationInvariant` says what an open transaction has staged: it
has run what it records, it sees all files before the one it has come to
(`ReplicaState`), and no two transactions, nor one and the table, record the same
version (`VersionsApart`), because the second waits for the first and then finds
it there.

**Life cycle.**  A process closes its pool without an error only after
`GracefulStop` has seen the last call leave, or before the first could come
(`ProcessState`).

| Theorem | Says |
| --- | --- |
| `StoreIsConsistent`, `TypeCorrect` | `StoreInvariant` and `TypeOK` of the store always hold |
| `CountCorrect` | the stored count is the number of listed messages |
| `VersionCorrect` | the version goes up by one with every change of the list, and with nothing else |
| `RewritesMovePastCursors` | a rewrite puts rows above all earlier positions |
| `DeadlockFree` | no set of transactions, of any size, waits for one another |
| `OwnershipHolds`, `OwnMessages` | lists and snapshots hold messages of their own conversation |
| `ConstraintsHold` | no write is ever refused by a constraint on the listed rows |
| `ChangesDated`, `SnapshotsYounger` | changes are dated after what their caller saw, snapshots after their messages |
| `IntentHolds` | what is staged is what was asked for, of the lists as they still are |
| `StoreImplementsLog` | the transactions implement the indivisible operations of `ConversationLog` |
| `NothingIsMissed`, `OnlyRewritesRepeat` | a walk misses no message that stays listed, and repeats only rewritten ones |
| `CountIsDelivered` | a walk receives what its first answer counted, while nothing is taken off the list |
| `SnapshotsReadExactly` | a walk through a snapshot delivers its messages in order, each once |
| `ReplaceIsRight`, `DeleteIsRight` | range operations change what lies between their bounds, and nothing else |
| `ReplaceReversible`, `ReplaceIsUndone` | a replacement that inserted something can be undone with what it reports |
| `RetriesAreHarmless` | a range operation that is repeated is refused or leaves the order as it is |
| `SlicesDoNotInterfere` | edits on shared backing arrays compute the plain splice |
| `EverythingStoredIsReadable`, `WhatIsReadWasSent`, `CopiesAreFaithful` | what the codec promises |
| `FilterIsExact` | a filter by roles finds what was appended with them |
| `HashesAreExact` | hashes are equal exactly if the bodies are |
| `TypesHold`, `EveryMigrationOnce`, `MigrationsInOrder`, `ServingMeansMigrated` | what migrations promise |
| `GracefulStopCutsNothing` | a stop lets every call finish |

**Only model-checked:** liveness, which is outside the prover's reach (`WalksEnd`,
`EveryCallEnds`, `EveryReplicaServes`, `StopCompletes`, `CallsEnd`), and the two
counterexamples of section 3.  Every invariant and action property of a passing run
is a theorem.  Liveness needs fairness, and with it `ENABLED`, which the backends
cannot reason about.

## 5. What is not modelled

- Configuration (two variables, read once), packaging, generated code.
- The end-to-end tests, which are a sequential client; they served as a reference.
- The parsing of ids and the mapping of errors to status codes in `server.go`, and
  the encoding of page tokens as base64 and JSON: no state, and nothing that two
  callers could disagree about.
- Bodies and indexes of the schema beyond what the codec needs; `ON DELETE
  CASCADE` of conversations, as nothing deletes one.
- A clock of the database that is set back, and whether `updated_at` alone orders
  changes: it does not (a transaction that began first may commit last), and no
  property claims it.
- A retried append or snapshot, which is done twice: requests carry nothing to
  tell a repetition by.  `RetryIsHarmless` is about range operations, and about the
  order only: a repetition that is accepted still raises the version, draws new
  positions and moves `updated_at`.
- A process killed before its stop is complete, and a backend of PostgreSQL that
  outlives its client for a while: to the store both are an `Abort` that comes
  later.

What could be added: liveness for calls without end, which the code would have to
earn with a fair order of waiting; the tokens of pages as a codec of their own.
