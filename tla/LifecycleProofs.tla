--------------------------- MODULE LifecycleProofs ---------------------------
(***************************************************************************)
(* A process that stops because it was asked to cuts no call off, for any  *)
(* number of processes and calls, and pools of any size.                   *)
(*                                                                         *)
(* It is not enough to look at the end: main closes the pool when Serve    *)
(* has returned, so the argument is about what Serve and GracefulStop tell *)
(* each other.  Calls are let in only while nobody has begun to stop, and  *)
(* main comes to close the pool without an error only after GracefulStop   *)
(* has seen the last one leave, or before the first could come.            *)
(***************************************************************************)
EXTENDS Lifecycle, TLAPS

\* A process that serves no calls yet, has stopped serving them, or goes down
\* without an error, has none in progress.
Drained(r) == \A k \in Calls : at[k] = r => ~InProgress(k)

ProcessState(r) ==
  /\ phase[r] \in {"configure", "migrate", "listen"} => stopper[r] = "none"
  /\ phase[r] \in {"serve", "serving"} => stopper[r] # "none"
  /\ phase[r] \in {"configure", "migrate", "listen", "serve"} => Drained(r)
  /\ stopper[r] = "stopped" => Drained(r)
  /\ phase[r] \in {"closing", "exited"} /\ ~err[r] =>
       stopper[r] # "waiting" /\ Drained(r)

LifecycleInvariant ==
  /\ TypeOK
  /\ NoCallCutOff
  /\ \A r \in Replicas : ProcessState(r)

-----------------------------------------------------------------------------
\* The invariant holds when the processes start.
LEMMA InitInvariant == Init => LifecycleInvariant
  BY DEF Init, LifecycleInvariant, TypeOK, NoCallCutOff, ProcessState, Drained,
     InProgress, Waiting, Holding, Phases

\* What main does in process r, and what the stopper does there, up to the
\* calls: the other processes are not concerned.
LEMMA MainStep ==
  ASSUME LifecycleInvariant, NEW r \in Replicas, TypeOK',
         UNCHANGED <<addresses, stage>>,
         err[r] => err'[r],
         \A q \in Replicas \ {r} :
           phase'[q] = phase[q] /\ err'[q] = err[q] /\ stopper'[q] = stopper[q],
         ProcessState(r)'
  PROVE  LifecycleInvariant'
  <1>1. NoCallCutOff'
    <2> SUFFICES ASSUME NEW k \in Calls, stage[k] = "cut" PROVE err'[at[k]]
      BY DEF NoCallCutOff, addresses
    <2>1. err[at[k]] /\ at[k] \in Replicas
      BY DEF LifecycleInvariant, NoCallCutOff, TypeOK
    <2> QED
      BY <2>1
  <1>2. ASSUME NEW q \in Replicas, q # r PROVE ProcessState(q)'
    BY <1>2 DEF LifecycleInvariant, ProcessState, Drained, InProgress, addresses
  <1> QED
    BY <1>1, <1>2 DEF LifecycleInvariant

\* Start-up, Serve and its return.
LEMMA MainBeforeExit ==
  ASSUME LifecycleInvariant, NEW r \in Replicas,
         Configure(r) \/ Migrate(r) \/ Listen(r) \/ Serve(r) \/ ServeReturns(r)
           \/ ServeFails(r)
  PROVE  LifecycleInvariant'
  <1> USE DEF Proceed, FailAt, Quiet
  <1>1. TypeOK'
    <2>1. phase' \in [Replicas -> Phases]
      BY DEF LifecycleInvariant, TypeOK, Phases, Configure, Migrate, Listen, Serve,
         ServeReturns, ServeFails
    <2>2. err' \in [Replicas -> BOOLEAN]
      BY DEF LifecycleInvariant, TypeOK, Configure, Migrate, Listen, Serve,
         ServeReturns, ServeFails
    <2>3. stopper' \in [Replicas -> {"none", "waiting", "stopping", "stopped"}]
      BY DEF LifecycleInvariant, TypeOK, Configure, Migrate, Listen, Serve,
         ServeReturns, ServeFails
    <2>4. UNCHANGED <<signalled, at, conv, stage>>
      BY DEF Configure, Migrate, Listen, Serve, ServeReturns, ServeFails, addresses
    <2> QED
      BY <2>1, <2>2, <2>3, <2>4 DEF LifecycleInvariant, TypeOK
  <1>2. UNCHANGED <<addresses, stage>> /\ (err[r] => err'[r])
    BY DEF LifecycleInvariant, TypeOK, Configure, Migrate, Listen, Serve,
       ServeReturns, ServeFails
  <1>3. \A q \in Replicas \ {r} :
          phase'[q] = phase[q] /\ err'[q] = err[q] /\ stopper'[q] = stopper[q]
    BY DEF LifecycleInvariant, TypeOK, Configure, Migrate, Listen, Serve,
       ServeReturns, ServeFails
  <1>4. ProcessState(r) /\ (Drained(r) => Drained(r)')
    BY <1>2 DEF LifecycleInvariant, Drained, InProgress, addresses
  <1>5. ProcessState(r)'
    <2>1. CASE Configure(r)
      BY <1>4, <2>1 DEF LifecycleInvariant, TypeOK, ProcessState, Configure
    <2>2. CASE Migrate(r)
      BY <1>4, <2>2 DEF LifecycleInvariant, TypeOK, ProcessState, Migrate
    <2>3. CASE Listen(r)
      BY <1>4, <2>3 DEF LifecycleInvariant, TypeOK, ProcessState, Listen
    <2>4. CASE Serve(r)
      BY <1>4, <2>4 DEF LifecycleInvariant, TypeOK, ProcessState, Serve
    <2>5. CASE ServeReturns(r)
      BY <1>4, <2>5 DEF LifecycleInvariant, TypeOK, ProcessState, ServeReturns
    <2>6. CASE ServeFails(r)
      BY <1>4, <2>6 DEF LifecycleInvariant, TypeOK, ProcessState, ServeFails
    <2> QED
      BY <2>1, <2>2, <2>3, <2>4, <2>5, <2>6
  <1> QED
    BY <1>1, <1>2, <1>3, <1>5, MainStep

\* GracefulStop returns only when nothing is left to wait for.
LEMMA StopperStep ==
  ASSUME LifecycleInvariant, NEW r \in Replicas, Stopper(r)
  PROVE  LifecycleInvariant'
  <1> USE DEF StopperGoes
  <1>1. TypeOK'
    BY DEF LifecycleInvariant, TypeOK, Stopper, BeginStop, EndStop, addresses
  <1>2. UNCHANGED <<phase, err, addresses, stage>>
    BY DEF Stopper, BeginStop, EndStop
  <1>3. \A q \in Replicas \ {r} : stopper'[q] = stopper[q]
    BY DEF LifecycleInvariant, TypeOK, Stopper, BeginStop, EndStop
  <1>4. ProcessState(r) /\ (Drained(r) => Drained(r)')
    BY <1>2 DEF LifecycleInvariant, Drained, InProgress, addresses
  <1>5. ProcessState(r)'
    <2>1. CASE BeginStop(r)
      BY <1>2, <1>4, <2>1 DEF LifecycleInvariant, TypeOK, ProcessState, BeginStop
    <2>2. CASE EndStop(r)
      <3>1. Drained(r)
        BY <2>2 DEF EndStop, CallsOf, Drained
      <3> QED
        BY <1>2, <1>4, <2>2, <3>1 DEF LifecycleInvariant, TypeOK, ProcessState, EndStop
    <2> QED
      BY <2>1, <2>2 DEF Stopper
  <1> QED
    BY <1>1, <1>2, <1>3, <1>5, MainStep

\* The signal only ends the context.
LEMMA SignalStep ==
  ASSUME LifecycleInvariant, NEW r \in Replicas, Signal(r)
  PROVE  LifecycleInvariant'
  <1>1. TypeOK'
    BY DEF LifecycleInvariant, TypeOK, Signal, addresses
  <1>2. UNCHANGED <<phase, err, stopper, at, stage>>
    BY DEF Signal, addresses
  <1> QED
    BY <1>1, <1>2 DEF LifecycleInvariant, NoCallCutOff, ProcessState, Drained, InProgress

\* The end of a process cuts off what runs in it: nothing, unless it failed.
LEMMA ExitStep ==
  ASSUME LifecycleInvariant, NEW r \in Replicas, Exit(r)
  PROVE  LifecycleInvariant'
  <1>1. TypeOK'
    BY DEF LifecycleInvariant, TypeOK, Phases, Exit, Proceed, addresses
  <1>2. /\ phase[r] = "closing" /\ phase'[r] = "exited"
        /\ UNCHANGED <<err, stopper, at>>
        /\ \A q \in Replicas \ {r} : phase'[q] = phase[q]
    BY DEF LifecycleInvariant, TypeOK, Exit, Proceed, addresses
  <1>3. ASSUME NEW k \in Calls
        PROVE  stage'[k] = stage[k] \/ (stage'[k] = "cut" /\ at[k] = r /\ InProgress(k))
    BY DEF Exit, CallsOf
  <1>4. NoCallCutOff'
    <2> SUFFICES ASSUME NEW k \in Calls, stage'[k] = "cut" PROVE err[at[k]]
      BY <1>2 DEF NoCallCutOff
    <2>1. CASE stage[k] = "cut"
      BY <2>1 DEF LifecycleInvariant, NoCallCutOff
    <2>2. CASE at[k] = r /\ InProgress(k)
      BY <1>2, <2>2 DEF LifecycleInvariant, ProcessState, Drained
    <2> QED
      BY <1>3, <2>1, <2>2
  <1>5. ASSUME NEW q \in Replicas PROVE Drained(q) => Drained(q)'
    BY <1>2, <1>3 DEF Drained, InProgress, Waiting, Holding
  <1>6. ASSUME NEW q \in Replicas PROVE ProcessState(q)'
    <2>1. ProcessState(q)
      BY DEF LifecycleInvariant
    <2>2. CASE q = r
      BY <1>2, <1>5, <2>1, <2>2 DEF ProcessState
    <2>3. CASE q # r
      BY <1>2, <1>5, <2>1, <2>3 DEF ProcessState
    <2> QED
      BY <2>2, <2>3
  <1> QED
    BY <1>1, <1>4, <1>6 DEF LifecycleInvariant

\* A call that moves on within its process, and is not cut off unless that has
\* failed.
LEMMA CallMoves ==
  ASSUME LifecycleInvariant, NEW k \in Calls,
         NEW to \in Waiting \cup Holding \cup {"answered", "cut"},
         Becomes(k, to),
         InProgress(k) \/ Admits(at[k]),
         to = "cut" => phase[at[k]] = "closing"
  PROVE  LifecycleInvariant'
  <1>1. at[k] \in Replicas /\ ProcessState(at[k])
    BY DEF LifecycleInvariant, TypeOK
  <1>2. /\ UNCHANGED <<phase, err, stopper, signalled, at, conv>>
        /\ stage'[k] = to
        /\ \A j \in Calls \ {k} : stage'[j] = stage[j]
    BY DEF LifecycleInvariant, TypeOK, Becomes, processes, addresses
  <1>3. TypeOK'
    BY <1>2 DEF LifecycleInvariant, TypeOK, Becomes
  <1>4. to = "cut" => err[at[k]]
    <2>1. CASE InProgress(k)
      BY <1>1, <2>1 DEF ProcessState, Drained
    <2>2. CASE Admits(at[k])
      BY <1>1, <2>2 DEF ProcessState, Admits
    <2> QED
      BY <2>1, <2>2
  <1>5. NoCallCutOff'
    BY <1>2, <1>4 DEF LifecycleInvariant, NoCallCutOff
  <1>6. ASSUME NEW q \in Replicas, q # at[k] PROVE ProcessState(q)'
    <2>1. Drained(q) => Drained(q)'
      BY <1>2, <1>6 DEF Drained, InProgress
    <2> QED
      BY <1>2, <2>1 DEF LifecycleInvariant, ProcessState
  <1>7. ProcessState(at[k])'
    <2>1. CASE InProgress(k)
      BY <1>1, <1>2, <2>1 DEF ProcessState, Drained
    <2>2. CASE Admits(at[k])
      BY <1>1, <1>2, <2>2 DEF ProcessState, Admits
    <2> QED
      BY <2>1, <2>2
  <1> QED
    BY <1>2, <1>3, <1>5, <1>6, <1>7 DEF LifecycleInvariant

\* Every step of a call is such a move.
LEMMA CallsMove ==
  ASSUME LifecycleInvariant, NEW k \in Calls, Arrive(k) \/ CallStep(k) \/ Fail(k)
  PROVE  LifecycleInvariant'
  <1> USE DEF InProgress, Waiting, Holding
  <1>1. CASE Arrive(k)
    BY <1>1, CallMoves DEF Arrive
  <1>2. ASSUME NEW from \in Waiting, NEW to \in Holding, Acquire(k, from, to)
        PROVE  LifecycleInvariant'
    BY <1>2, CallMoves DEF Acquire, PoolClosed
  <1>3. CASE CallStep(k)
    <2>1. CASE Begin(k)
      BY <1>2, <2>1 DEF Begin
    <2>2. CASE LockRow(k) \/ CommitTx(k)
      BY <2>2, CallMoves DEF LockRow, CommitTx
    <2>3. CASE LoadMetadata(k)
      BY <1>2, <2>3, CallMoves DEF LoadMetadata
    <2>4. CASE ReadPage(k)
      BY <1>2, <2>4, CallMoves DEF ReadPage
    <2> QED
      BY <1>3, <2>1, <2>2, <2>3, <2>4 DEF CallStep
  <1>4. CASE Fail(k)
    BY <1>4, CallMoves DEF Fail
  <1> QED
    BY <1>1, <1>3, <1>4

\* The invariant holds at every step of every process, stopper and call.
THEOREM InvariantHolds == Spec => []LifecycleInvariant
  <1>1. LifecycleInvariant /\ [Next]_vars => LifecycleInvariant'
    <2> SUFFICES ASSUME LifecycleInvariant, [Next]_vars PROVE LifecycleInvariant'
      OBVIOUS
    <2>1. ASSUME NEW r \in Replicas, Main(r) \/ ServeFails(r) PROVE LifecycleInvariant'
      BY <2>1, MainBeforeExit, ExitStep DEF Main
    <2>2. ASSUME NEW r \in Replicas, Signal(r) \/ Stopper(r) PROVE LifecycleInvariant'
      BY <2>2, SignalStep, StopperStep
    <2>3. ASSUME NEW k \in Calls, Arrive(k) \/ CallStep(k) \/ Fail(k)
          PROVE  LifecycleInvariant'
      BY <2>3, CallsMove
    <2>4. CASE UNCHANGED vars
      BY <2>4 DEF vars, LifecycleInvariant, TypeOK, NoCallCutOff, ProcessState,
         Drained, InProgress
    <2> QED
      BY <2>1, <2>2, <2>3, <2>4 DEF Next
  <1> QED
    BY InitInvariant, <1>1, PTL DEF Spec

\* A process that is asked to stop answers every call it has let in; only one
\* whose Serve failed leaves calls behind.
THEOREM GracefulStopCutsNothing == Spec => []NoCallCutOff
  <1>1. LifecycleInvariant => NoCallCutOff
    BY DEF LifecycleInvariant
  <1> QED
    BY InvariantHolds, <1>1, PTL

=============================================================================
