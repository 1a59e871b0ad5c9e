----------------------------- MODULE Lifecycle -----------------------------
(***************************************************************************)
(* The processes of the service (cmd/agent-state-service/main.go): they    *)
(* start, serve, and stop when they are asked to, beside one another and   *)
(* on one database.                                                        *)
(*                                                                         *)
(* main runs the start-up and then Serve; a goroutine waits for the signal *)
(* and calls GracefulStop; every call is a goroutine of its own, which     *)
(* takes connections from the pool of its process (internal/state).  What  *)
(* the calls write is the matter of ConversationStore; here a call is what *)
(* it waits for: a connection, and the row of its conversation.            *)
(***************************************************************************)
EXTENDS Integers, FiniteSets

CONSTANTS
  Replicas,         \* the processes
  Calls,            \* the calls clients make, each once
  Transactions,     \* those that run a transaction; the others list
  Conversations,
  MaxConns          \* the size of the connection pool of a process

ASSUME LifecycleAssumption ==
  /\ Transactions \subseteq Calls
  /\ MaxConns \in Nat \ {0}

VARIABLES
  phase,            \* where main is
  err,              \* whether run has failed with an error
  stopper,          \* the goroutine that waits for the signal
  signalled,        \* whether the context of the process is done
  at,               \* at[k]: the process call k is sent to
  conv,             \* conv[k]: its conversation
  stage             \* where call k is

vars == <<phase, err, stopper, signalled, at, conv, stage>>

processes == <<phase, err, stopper, signalled>>
addresses == <<at, conv>>

Phases == {"configure", "migrate", "listen", "serve", "serving", "closing", "exited"}

\* Waiting for a connection, and holding one.
Waiting == {"begin", "metadata", "page"}
Holding == {"lock", "write", "read_metadata", "read_page"}

InProgress(k) == stage[k] \in Waiting \cup Holding
CallsOf(r)    == {k \in Calls : at[k] = r /\ InProgress(k)}
Connected(r)  == {k \in Calls : at[k] = r /\ stage[k] \in Holding}

Init ==
  /\ phase = [r \in Replicas |-> "configure"]
  /\ err = [r \in Replicas |-> FALSE]
  /\ stopper = [r \in Replicas |-> "none"]
  /\ signalled = [r \in Replicas |-> FALSE]
  /\ at \in [Calls -> Replicas]
  /\ conv \in [Calls -> Conversations]
  /\ stage = [k \in Calls |-> "none"]

-----------------------------------------------------------------------------
(***************************************************************************)
(* main.                                                                   *)
(***************************************************************************)
Proceed(r, from, to) ==
  /\ phase[r] = from
  /\ phase' = [phase EXCEPT ![r] = to]

Quiet == UNCHANGED <<signalled, addresses, stage>>

\* run returns an error; the deferred pool.Close comes first once there is a pool.
FailAt(r, from, to) ==
  /\ Proceed(r, from, to)
  /\ err' = [err EXCEPT ![r] = TRUE]
  /\ UNCHANGED stopper
  /\ Quiet

\* FromEnv, ParseConfig and NewWithConfig.
Configure(r) ==
  \/ Proceed(r, "configure", "migrate") /\ UNCHANGED <<err, stopper>> /\ Quiet
  \/ FailAt(r, "configure", "exited")

\* ApplyMigrations; it fails when its context is done, too.
Migrate(r) ==
  \/ Proceed(r, "migrate", "listen") /\ UNCHANGED <<err, stopper>> /\ Quiet
  \/ FailAt(r, "migrate", "closing")

\* Mutant: the goroutine is started once Serve has returned.
ListenOnly(r) ==
  \/ Proceed(r, "listen", "serve") /\ UNCHANGED <<err, stopper>> /\ Quiet
  \/ FailAt(r, "listen", "closing")

\* net.Listen, and the goroutine that waits for the signal.
Listen(r) ==
  \/ /\ Proceed(r, "listen", "serve")
     /\ stopper' = [stopper EXCEPT ![r] = "waiting"]
     /\ UNCHANGED err
     /\ Quiet
  \/ FailAt(r, "listen", "closing")

\* Serve begins.  A server that was stopped before returns ErrServerStopped,
\* which run does not report.
Serve(r) ==
  /\ Proceed(r, "serve", IF stopper[r] \in {"stopping", "stopped"} THEN "closing" ELSE "serving")
  /\ UNCHANGED <<err, stopper>>
  /\ Quiet

\* Serve returns when GracefulStop has, ...
ServeReturns(r) ==
  /\ stopper[r] = "stopped"
  /\ Proceed(r, "serving", "closing")
  /\ UNCHANGED <<err, stopper>>
  /\ Quiet

\* ... or because it cannot accept.
ServeFails(r) == stopper[r] = "waiting" /\ FailAt(r, "serving", "closing")

\* pool.Close waits for the connections in use; then the process ends, and what
\* is still running in it is cut off.
Exit(r) ==
  /\ Connected(r) = {}
  /\ Proceed(r, "closing", "exited")
  /\ stage' = [k \in Calls |-> IF k \in CallsOf(r) THEN "cut" ELSE stage[k]]
  /\ UNCHANGED <<err, stopper, signalled, addresses>>

Main(r) ==
  \/ Configure(r) \/ Migrate(r) \/ Listen(r) \/ Serve(r) \/ ServeReturns(r) \/ Exit(r)

-----------------------------------------------------------------------------
(***************************************************************************)
(* The signal, and the goroutine that waits for it.                        *)
(***************************************************************************)
Signal(r) ==
  /\ phase[r] # "exited" /\ ~signalled[r]
  /\ signalled' = [signalled EXCEPT ![r] = TRUE]
  /\ UNCHANGED <<phase, err, stopper, addresses, stage>>

StopperGoes(r, from, to) ==
  /\ phase[r] # "exited"
  /\ stopper[r] = from
  /\ stopper' = [stopper EXCEPT ![r] = to]
  /\ UNCHANGED <<phase, err, signalled, addresses, stage>>

\* Mutant: Stop in the place of GracefulStop.
StopAtOnce(r) == signalled[r] /\ StopperGoes(r, "waiting", "stopped")

\* GracefulStop: from here on no call is let in ...
BeginStop(r) == signalled[r] /\ StopperGoes(r, "waiting", "stopping")

\* ... and it returns when those that were have been answered.
EndStop(r) == CallsOf(r) = {} /\ StopperGoes(r, "stopping", "stopped")

Stopper(r) == BeginStop(r) \/ EndStop(r)

-----------------------------------------------------------------------------
(***************************************************************************)
(* The calls.                                                              *)
(***************************************************************************)
Becomes(k, to) ==
  /\ stage' = [stage EXCEPT ![k] = to]
  /\ UNCHANGED <<processes, addresses>>

\* The server lets a call in: also after Serve has failed, on the client
\* connections that are open, until the process ends.
Admits(r) == phase[r] \in {"serving", "closing"} /\ stopper[r] = "waiting"

Arrive(k) ==
  /\ stage[k] = "none"
  /\ Admits(at[k])
  /\ Becomes(k, IF k \in Transactions THEN "begin" ELSE "metadata")

PoolClosed(r) == phase[r] = "closing"
FreeConn(r)   == Cardinality(Connected(r)) < MaxConns

\* pool.BeginTx or pool.Query waits for a connection; a closed pool has none.
Acquire(k, from, to) ==
  /\ stage[k] = from
  /\ \/ PoolClosed(at[k]) /\ Becomes(k, "cut")
     \/ ~PoolClosed(at[k]) /\ FreeConn(at[k]) /\ Becomes(k, to)

Begin(k) == Acquire(k, "begin", "lock")

RowFree(k) == \A j \in Calls : stage[j] = "write" => conv[j] # conv[k]

\* Mutant: the metadata is read through the pool while the transaction is open.
LockThroughPool(k) ==
  stage[k] = "lock" /\ FreeConn(at[k]) /\ RowFree(k) /\ Becomes(k, "write")

\* The transaction waits for the row of its conversation, whichever process the
\* transaction that has locked it belongs to.  One exclusive lock stands for the
\* modes an append, a range operation and a snapshot take, which ConversationStore
\* tells apart: here it can only make more transactions wait.
LockRow(k) == stage[k] = "lock" /\ RowFree(k) /\ Becomes(k, "write")

\* The commit frees the row and the connection.
CommitTx(k) == stage[k] = "write" /\ Becomes(k, "answered")

\* A list call takes two connections, one after the other.
LoadMetadata(k) ==
  \/ Acquire(k, "metadata", "read_metadata")
  \/ stage[k] = "read_metadata" /\ Becomes(k, "page")

ReadPage(k) ==
  \/ Acquire(k, "page", "read_page")
  \/ stage[k] = "read_page" /\ Becomes(k, "answered")

CallStep(k) == Begin(k) \/ LockRow(k) \/ CommitTx(k) \/ LoadMetadata(k) \/ ReadPage(k)

\* A statement fails, or the client gives up: rolled back, answered with an error.
Fail(k) == InProgress(k) /\ Becomes(k, "answered")

-----------------------------------------------------------------------------
Next ==
  \/ \E r \in Replicas : Main(r) \/ ServeFails(r) \/ Signal(r) \/ Stopper(r)
  \/ \E k \in Calls : Arrive(k) \/ CallStep(k) \/ Fail(k)

Spec == Init /\ [][Next]_vars

\* Goroutines that can run do, statements that wait for nobody are executed, and
\* each step of the start-up succeeds or fails; that signals or calls come, or that
\* Serve or a call fails, is not assumed.
FairSpec ==
  /\ Spec
  /\ \A r \in Replicas : WF_vars(Main(r)) /\ WF_vars(Stopper(r))
  /\ \A k \in Calls : WF_vars(CallStep(k))

-----------------------------------------------------------------------------
(***************************************************************************)
(* Properties.                                                             *)
(***************************************************************************)

\* The variables hold values of their types.
TypeOK ==
  /\ phase \in [Replicas -> Phases]
  /\ err \in [Replicas -> BOOLEAN]
  /\ stopper \in [Replicas -> {"none", "waiting", "stopping", "stopped"}]
  /\ signalled \in [Replicas -> BOOLEAN]
  /\ at \in [Calls -> Replicas]
  /\ conv \in [Calls -> Conversations]
  /\ stage \in [Calls -> Waiting \cup Holding \cup {"none", "answered", "cut"}]

\* A process that is asked to stop, wherever it is, ends with every call it has
\* let in answered: none finds the pool closed between its two statements or
\* loses its process.  Only a process whose Serve failed leaves calls behind.
NoCallCutOff == \A k \in Calls : stage[k] = "cut" => err[at[k]]

\* A process that is asked to stop ends: in the start-up, before Serve, or with
\* calls that wait for a connection of its pool or for a row that a call in
\* another process has locked.
StopCompletes == \A r \in Replicas : signalled[r] ~> phase[r] = "exited"

\* Every call comes to an end, even with one connection: who waits for a row
\* waits for a call that has its connection already.
CallsEnd == \A k \in Calls : InProgress(k) ~> ~InProgress(k)

=============================================================================
