---------------------------- MODULE Lifecycle_proofs ----------------------------
(***************************************************************************)
(* Safety of the in-flight tracker and of the shutdown around it, for any  *)
(* requests, workers and transports.  IInv is inductive for the tracker;   *)
(* a step of the application is a step of the tracker or leaves it alone,  *)
(* so the tracker's theorems hold in the application.                      *)
(***************************************************************************)
EXTENDS Lifecycle, FiniteSetTheorems, TLAPS

------------------------------------------------------------------------------
(* The in-flight tracker *)

\* The requests that the counter counts are finitely many.
LEMMA CountedFinite == IsFiniteSet(Counted) /\ Cardinality(Counted) \in Nat
PROOF
  <1>1. Counted \subseteq Request
    BY DEF Counted
  <1> QED BY <1>1, InFlightAssumption, FS_Subset, FS_CardinalityType

\* A counter of zero means that nobody is counted, so nobody runs.
LEMMA ZeroMeansIdle ==
  ASSUME CountIsExact, n = 0
  PROVE  Counted = {} /\ Running = {}
PROOF
  <1>1. Counted = {}
    BY CountedFinite, FS_EmptySet DEF CountIsExact
  <1> QED BY <1>1 DEF Counted, Running

\* How Add(1) and Add(-1) move the counted set.
LEMMA CountStep ==
  ASSUME NEW r \in Request
  PROVE  /\ r \notin Counted =>
              Cardinality(Counted \union {r}) = Cardinality(Counted) + 1
         /\ r \in Counted =>
              /\ Cardinality(Counted \ {r}) = Cardinality(Counted) - 1
              /\ Cardinality(Counted) >= 1
PROOF
  <1>1. r \in Counted => Cardinality(Counted) # 0
    BY CountedFinite, FS_EmptySet
  <1>2. r \notin Counted =>
          Cardinality(Counted \union {r}) = Cardinality(Counted) + 1
    BY CountedFinite, FS_AddElement
  <1>3. r \in Counted =>
          Cardinality(Counted \ {r}) = Cardinality(Counted) - 1
    BY CountedFinite, FS_RemoveElement
  <1>4. r \in Counted => Cardinality(Counted) >= 1
    BY <1>1, CountedFinite
  <1> QED BY <1>2, <1>3, <1>4

\* The tracker NewInFlight returns satisfies the invariant.
LEMMA InitInv == Init => IInv
PROOF
  <1> SUFFICES ASSUME Init PROVE IInv
    OBVIOUS
  <1>1. Counted = {}
    BY DEF Init, Counted
  <1>2. CountIsExact
    BY <1>1, FS_EmptySet DEF Init, CountIsExact
  <1>3. TypeOK /\ PhaseInv
    BY DEF Init, TypeOK, PhaseInv, ReqPCs, ShutdownPCs
  <1>4. SignalInv /\ SignalNotLost
    BY DEF Init, SignalInv, SignalNotLost
  <1> QED BY <1>2, <1>3, <1>4 DEF IInv

\* Steps that move the counter.
LEMMA CountedStepInv ==
  ASSUME IInv, NEW r \in Request, BeginAdd(r) \/ BeginUndo(r) \/ EndAdd(r)
  PROVE  IInv'
PROOF
  <1> USE DEF IInv, Goto
  <1>1. TypeOK
    OBVIOUS
  <1>2. CASE BeginAdd(r)
    <2>1. pc[r] = "add" /\ pc' = [pc EXCEPT ![r] = "recheck"] /\ n' = n + 1
          /\ UNCHANGED <<closed, closes, shutdown, endRaced, bounced>>
      BY <1>2 DEF BeginAdd
    <2>2. TypeOK'
      BY <1>1, <2>1 DEF TypeOK, ReqPCs
    <2>3. CountIsExact'
      <3>1. Counted' = Counted \union {r} /\ r \notin Counted
        BY <1>1, <2>1 DEF Counted, TypeOK
      <3>2. Cardinality(Counted') = Cardinality(Counted) + 1
        BY <3>1, CountStep
      <3> QED BY <2>1, <3>2 DEF CountIsExact
    <2>4. Running' = Running
      BY <1>1, <2>1 DEF Running, TypeOK
    <2>5. PhaseInv'
      BY <1>1, <2>1 DEF PhaseInv, TypeOK
    <2>6. SignalInv'
      BY <1>1, <2>1, <2>4 DEF SignalInv, Signalled, TypeOK
    <2>7. SignalNotLost'
      BY <1>1, <2>1 DEF SignalNotLost, TypeOK
    <2> QED BY <2>2, <2>3, <2>5, <2>6, <2>7
  <1>3. CASE BeginUndo(r)
    <2>1. pc[r] = "undo" /\ pc' = [pc EXCEPT ![r] = "idle"] /\ n' = n - 1
          /\ bounced' = TRUE /\ UNCHANGED <<closed, closes, shutdown, endRaced>>
      BY <1>3 DEF BeginUndo
    <2>2. r \in Counted
      BY <2>1 DEF Counted
    <2>3. TypeOK'
      <3>0. n >= 1
        BY <2>2, CountStep DEF CountIsExact
      <3>1. n' \in Nat
        BY <1>1, <2>1, <3>0 DEF TypeOK
      <3> QED BY <1>1, <2>1, <3>1 DEF TypeOK, ReqPCs
    <2>4. CountIsExact'
      <3>1. Counted' = Counted \ {r}
        BY <1>1, <2>1 DEF Counted, TypeOK
      <3>2. Cardinality(Counted') = Cardinality(Counted) - 1
        BY <3>1, <2>2, CountStep
      <3> QED BY <2>1, <3>2 DEF CountIsExact
    <2>5. Running' = Running
      BY <1>1, <2>1 DEF Running, TypeOK
    <2>6. closed
      BY <2>1 DEF PhaseInv
    <2>7. PhaseInv'
      BY <1>1, <2>1, <2>6 DEF PhaseInv, TypeOK
    <2>8. SignalInv'
      BY <1>1, <2>1, <2>5 DEF SignalInv, Signalled, TypeOK
    <2>9. SignalNotLost'
      BY <2>1 DEF SignalNotLost
    <2> QED BY <2>3, <2>4, <2>7, <2>8, <2>9
  <1>4. CASE EndAdd(r)
    <2>1. pc[r] = "running" /\ n' = n - 1
          /\ pc' = [pc EXCEPT ![r] = IF n' = 0 THEN "endload" ELSE "idle"]
          /\ UNCHANGED <<closed, closes, shutdown, endRaced, bounced>>
      BY <1>4 DEF EndAdd
    <2>2. r \in Counted
      BY <2>1 DEF Counted
    <2>3. TypeOK'
      <3>0. n >= 1
        BY <2>2, CountStep DEF CountIsExact
      <3>1. n' \in Nat
        BY <1>1, <2>1, <3>0 DEF TypeOK
      <3> QED BY <1>1, <2>1, <3>1 DEF TypeOK, ReqPCs
    <2>4. CountIsExact'
      <3>1. Counted' = Counted \ {r}
        BY <1>1, <2>1 DEF Counted, TypeOK
      <3>2. Cardinality(Counted') = Cardinality(Counted) - 1
        BY <3>1, <2>2, CountStep
      <3> QED BY <2>1, <3>2 DEF CountIsExact
    <2>5. PhaseInv'
      BY <1>1, <2>1 DEF PhaseInv, TypeOK
    \* A request that still ran contradicts any earlier signal; the new one
    \* comes with a counter of zero.
    <2>6. SignalInv'
      <3>1. CASE n' = 0
        <4>1. Running' = {}
          <5>1. Counted' = Counted \ {r}
            BY <1>1, <2>1 DEF Counted, TypeOK
          <5>2. IsFiniteSet(Counted') /\ Cardinality(Counted') = 0
            BY <5>1, <3>1, <2>4, CountedFinite, FS_RemoveElement DEF CountIsExact
          <5>3. Counted' = {}
            BY <5>2, FS_EmptySet
          <5> QED BY <5>3 DEF Counted, Running
        <4> QED BY <4>1 DEF SignalInv
      <3>2. CASE n' # 0
        <4>1. Running # {}
          BY <2>1 DEF Running
        <4>2. \A q \in Request : pc'[q] \in {"endload", "endclose"} =>
                pc[q] \in {"endload", "endclose"}
          BY <1>1, <2>1, <3>2 DEF TypeOK
        <4> QED BY <2>1, <4>1, <4>2 DEF SignalInv, Signalled
      <3> QED BY <3>1, <3>2
    <2>7. SignalNotLost'
      <3>1. n' = 0 => pc'[r] = "endload"
        BY <1>1, <2>1 DEF TypeOK
      <3> QED BY <3>1 DEF SignalNotLost
    <2> QED BY <2>3, <2>4, <2>5, <2>6, <2>7
  <1> QED BY <1>2, <1>3, <1>4

\* Steps of a request that leave the counter alone.
LEMMA QuietStepInv ==
  ASSUME IInv, NEW r \in Request,
         BeginCheck(r) \/ BeginRecheck(r) \/ EndLoad(r) \/ EndClose(r)
  PROVE  IInv'
PROOF
  <1> USE DEF IInv, Goto
  <1>1. TypeOK
    OBVIOUS
  <1>2. UNCHANGED <<n, closed, shutdown, endRaced, bounced>>
    BY DEF BeginCheck, BeginRecheck, EndLoad, EndClose
  <1>3. TypeOK'
    BY <1>1 DEF TypeOK, ReqPCs, BeginCheck, BeginRecheck, EndLoad, EndClose
  <1>4. CountIsExact'
    <2>1. Counted' = Counted
      BY <1>1 DEF Counted, TypeOK, BeginCheck, BeginRecheck, EndLoad, EndClose
    <2> QED BY <1>2, <2>1 DEF CountIsExact
  <1>5. PhaseInv'
    BY <1>1, <1>2 DEF PhaseInv, TypeOK, BeginCheck, BeginRecheck, EndLoad, EndClose
  <1>6. closed => Running' \subseteq Running
    BY <1>1 DEF Running, TypeOK, BeginCheck, BeginRecheck, EndLoad, EndClose
  <1>7. SignalInv'
    <2>1. SignalInv' \/
          (closed /\ ~endRaced /\ (\/ Signalled \/ shutdown = "close"
             \/ \E q \in Request : pc[q] \in {"endload", "endclose"}))
      BY <1>1, <1>2 DEF SignalInv, Signalled, TypeOK, BeginCheck, BeginRecheck,
                        EndLoad, EndClose
    <2> QED BY <2>1, <1>2, <1>6 DEF SignalInv
  <1>8. SignalNotLost'
    BY <1>1, <1>2 DEF SignalNotLost, Signalled, TypeOK, PhaseInv, BeginCheck,
                      BeginRecheck, EndLoad, EndClose
  <1> QED BY <1>3, <1>4, <1>5, <1>7, <1>8

\* Steps of Shutdown.
LEMMA ShutdownInv ==
  ASSUME IInv, CloseSwap \/ ShutdownStep \/ WaitTimeout
  PROVE  IInv'
PROOF
  <1> USE DEF IInv, ShutdownStep
  <1>1. TypeOK /\ UNCHANGED <<n, pc, bounced>>
    BY DEF CloseSwap, CloseLoad, CloseClose, WaitDrained, WaitTimeout
  <1>2. TypeOK'
    <2>1. closed' \in BOOLEAN /\ endRaced' \in BOOLEAN
      BY <1>1, Zenon DEF TypeOK, CloseSwap, CloseLoad, CloseClose, WaitDrained,
                         WaitTimeout
    <2>2. closes' = closes \/ closes' = closes + 1
      BY DEF CloseSwap, CloseLoad, CloseClose, WaitDrained, WaitTimeout
    <2>3. closes' \in Nat
      BY <1>1, <2>2 DEF TypeOK
    <2>4. shutdown' \in ShutdownPCs
      <3>1. shutdown' \in {"load", "close", "waiting", "drained", "timedout",
                            "panicked"}
        BY DEF CloseSwap, CloseLoad, CloseClose, WaitDrained, WaitTimeout
      <3> QED BY <3>1 DEF ShutdownPCs
    <2> QED BY <1>1, <2>1, <2>3, <2>4 DEF TypeOK
  <1>3. CountIsExact' /\ Running' = Running
    BY <1>1 DEF CountIsExact, Counted, Running
  <1>4. PhaseInv'
    BY <1>1 DEF PhaseInv, TypeOK, CloseSwap, CloseLoad, CloseClose, WaitDrained,
                WaitTimeout
  <1>5. SignalInv'
    <2>1. CASE CloseSwap
      BY <2>1, <1>1 DEF CloseSwap, SignalInv, Signalled, PhaseInv, TypeOK
    <2>2. CASE CloseLoad
      <3>1. n = 0 => Running = {}
        BY ZeroMeansIdle
      <3> QED BY <2>2, <3>1, <1>1, <1>3 DEF CloseLoad, SignalInv, Signalled
    <2>3. CASE CloseClose \/ WaitDrained \/ WaitTimeout
      BY <2>3, <1>1, <1>3 DEF CloseClose, WaitDrained, WaitTimeout, SignalInv,
                              Signalled
    <2> QED BY <2>1, <2>2, <2>3
  <1>6. SignalNotLost'
    <2>1. CASE CloseSwap
      BY <2>1 DEF CloseSwap, SignalNotLost
    <2>2. CASE CloseLoad
      BY <2>2 DEF CloseLoad, SignalNotLost
    <2>3. CASE CloseClose
      <3>1. closes' > 0
        BY <2>3, <1>1 DEF CloseClose, TypeOK
      <3> QED BY <3>1 DEF SignalNotLost, Signalled
    <2>4. CASE WaitDrained \/ WaitTimeout
      BY <2>4 DEF WaitDrained, WaitTimeout, SignalNotLost, Signalled
    <2> QED BY <2>1, <2>2, <2>3, <2>4
  <1> QED BY <1>2, <1>3, <1>4, <1>5, <1>6

\* IInv is inductive: the steps of Begin and End, of Close and Wait, and
\* stuttering.
LEMMA NextInv == IInv /\ [Next]_vars => IInv'
PROOF
  <1> SUFFICES ASSUME IInv, [Next]_vars PROVE IInv'
    OBVIOUS
  <1>1. CASE UNCHANGED vars
    BY <1>1 DEF vars, IInv, TypeOK, CountIsExact, Counted, PhaseInv, SignalInv,
                SignalNotLost, Signalled, Running
  <1>2. CASE Next
    BY <1>2, CountedStepInv, QuietStepInv, ShutdownInv DEF Next, RequestStep
  <1> QED BY <1>1, <1>2

\* IInv holds in every reachable state.
LEMMA InFlightInvariant == Spec => []IInv
PROOF
  <1> QED BY InitInv, NextInv, PTL DEF Spec

\* Every variable keeps its type: in particular the counter is never negative.
THEOREM InFlightTypeCorrect == Spec => []TypeOK
PROOF
  <1>1. IInv => TypeOK
    BY DEF IInv
  <1> QED BY <1>1, InFlightInvariant, PTL

\* The counter is exact (Begin, End).
THEOREM InFlightCountIsExact == Spec => []CountIsExact
PROOF
  <1>1. IInv => CountIsExact
    BY DEF IInv
  <1> QED BY <1>1, InFlightInvariant, PTL

\* Unless an End straddles Close, a closed drain channel means that no
\* admitted request runs (Begin, End, Close).
THEOREM InFlightSignalMeansIdle == Spec => []SignalMeansIdle
PROOF
  <1>1. IInv => SignalMeansIdle
    BY DEF IInv, SignalMeansIdle, SignalInv, PhaseInv, Signalled, TypeOK
  <1> QED BY <1>1, InFlightInvariant, PTL

\* Unless a Begin backs out after Close, the drain signal is not lost.
THEOREM InFlightSignalNotLost == Spec => []SignalNotLost
PROOF
  <1>1. IInv => SignalNotLost
    BY DEF IInv
  <1> QED BY <1>1, InFlightInvariant, PTL

------------------------------------------------------------------------------
(* The application *)

\* Nothing has been started.
LEMMA LifecycleInitInv ==
  ASSUME LifecycleInit
  PROVE  LifecycleIInv
PROOF
  <1> USE DEF LifecycleInit
  <1>1. IInv
    BY InitInv
  <1>2. LifecycleTypeOK
    BY DEF LifecycleTypeOK
  <1>3. DrainFirst /\ CleanReturn
    BY DEF Init, DrainFirst, CleanReturn
  <1> QED BY <1>1, <1>2, <1>3 DEF LifecycleIInv

\* Every step of the application is a step of the tracker or leaves it alone.
LEMMA StepRefinesTracker ==
  ASSUME [LifecycleNext]_allVars
  PROVE  [Next]_vars
PROOF
  <1>1. CASE UNCHANGED allVars
    BY <1>1 DEF allVars
  <1>2. CASE Drain
    BY <1>2 DEF Drain, Next
  <1>3. ASSUME NEW r \in Request, Arrive(r) \/ HandlerStep(r) PROVE Next
    BY <1>3 DEF Arrive, HandlerStep, Next
  <1>4. CASE \/ StartLoad \/ StartSpawn \/ StartReady \/ ShutdownBegin \/ DrainOver
             \/ StopTransport \/ TransportStopped \/ Cancel \/ SelectDone \/ SelectCtx
             \/ Signal \/ CtxExpires
    BY <1>4 DEF StartLoad, StartSpawn, StartReady, ShutdownBegin, DrainOver,
                StopTransport, TransportStopped, Cancel, SelectDone, SelectCtx,
                Signal, CtxExpires
  <1>5. ASSUME NEW w \in Worker, WorkerEnds(w) PROVE UNCHANGED vars
    BY <1>5 DEF WorkerEnds
  <1>6. ASSUME NEW t \in Transport, TransportStep(t) \/ AdminBegin(t) \/ AdminEnd(t)
        PROVE  UNCHANGED vars
    BY <1>6 DEF TransportStep, TransportStore, TransportListen, TransportServe,
                ServeReturns, AdminBegin, AdminEnd
  <1> QED BY <1>1, <1>2, <1>3, <1>4, <1>5, <1>6 DEF LifecycleNext, MainStep

\* The tracker keeps the signal, and after Wait it keeps what Wait returned.
LEMMA TrackerStep ==
  ASSUME LifecycleIInv, [LifecycleNext]_allVars
  PROVE  /\ Signalled => Signalled'
         /\ ~Drain => shutdown' = shutdown
PROOF
  <1>1. closes \in Nat
    BY DEF LifecycleIInv, IInv, TypeOK
  <1>2. closes' = closes \/ closes' = closes + 1
    BY StepRefinesTracker
       DEF Next, vars, RequestStep, BeginCheck, BeginAdd, BeginRecheck, BeginUndo,
           EndAdd, EndLoad, EndClose, CloseSwap, ShutdownStep, CloseLoad, CloseClose,
           WaitDrained, WaitTimeout
  <1>3. Signalled => Signalled'
    BY <1>1, <1>2 DEF Signalled
  <1>4. ASSUME ~Drain PROVE shutdown' = shutdown
    <2>1. CASE UNCHANGED vars
      BY <2>1 DEF vars
    <2>2. ASSUME NEW r \in Request, Arrive(r) \/ HandlerStep(r)
          PROVE  shutdown' = shutdown
      BY <2>2 DEF Arrive, HandlerStep, RequestStep, BeginCheck, BeginAdd, BeginRecheck,
                  BeginUndo, EndAdd, EndLoad, EndClose
    <2>3. ASSUME NEW w \in Worker, WorkerEnds(w) PROVE UNCHANGED vars
      BY <2>3 DEF WorkerEnds
    <2>4. ASSUME NEW t \in Transport, TransportStep(t) \/ AdminBegin(t) \/ AdminEnd(t)
          PROVE  UNCHANGED vars
      BY <2>4 DEF TransportStep, TransportStore, TransportListen, TransportServe,
                  ServeReturns, AdminBegin, AdminEnd
    <2>5. ASSUME \/ StartLoad \/ StartSpawn \/ StartReady \/ ShutdownBegin \/ DrainOver
                 \/ StopTransport \/ TransportStopped \/ Cancel \/ SelectDone
                 \/ SelectCtx \/ Signal \/ CtxExpires
          PROVE  UNCHANGED vars
      BY <2>5 DEF StartLoad, StartSpawn, StartReady, ShutdownBegin, DrainOver,
                  StopTransport, TransportStopped, Cancel, SelectDone, SelectCtx,
                  Signal, CtxExpires
    <2>6. CASE UNCHANGED allVars
      BY <2>1, <2>6 DEF allVars
    <2> QED BY <1>4, <2>1, <2>2, <2>3, <2>4, <2>5, <2>6 DEF LifecycleNext, MainStep
  <1> QED BY <1>3, <1>4

\* What a step does to the position of main and to the goroutines.
LEMMA MainAndGoroutines ==
  ASSUME LifecycleIInv, [LifecycleNext]_allVars
  PROVE  /\ LifecycleTypeOK'
         /\ main' \in {"stop", "stopping", "select", "nil", "error"} =>
              \/ main \in {"stop", "stopping", "select", "nil", "error"}
              \/ shutdown \in {"drained", "timedout"} /\ ~Drain
         /\ main' = "nil" =>
              \/ main = "nil"
              \/ main = "select" /\ GoroutinesEnded /\ shutdown # "timedout"
         /\ GoroutinesEnded /\ main # "spawn" => GoroutinesEnded'
PROOF
  <1> USE DEF LifecycleIInv, LifecycleTypeOK
  <1>1. CASE UNCHANGED <<main, worker, serve>>
    BY <1>1 DEF GoroutinesEnded
  <1>2. CASE \/ StartLoad \/ StartReady \/ ShutdownBegin \/ DrainOver \/ StopTransport
             \/ TransportStopped \/ Cancel \/ SelectDone \/ SelectCtx
    <2>1. UNCHANGED <<worker, serve>>
      BY <1>2 DEF StartLoad, StartReady, ShutdownBegin, DrainOver, StopTransport,
                  TransportStopped, Cancel, SelectDone, SelectCtx
    <2>2. GoroutinesEnded' <=> GoroutinesEnded
      BY <2>1 DEF GoroutinesEnded
    <2>3. CASE StartLoad \/ StartReady \/ ShutdownBegin
      BY <2>1, <2>2, <2>3 DEF StartLoad, StartReady, ShutdownBegin
    <2>4. CASE DrainOver
      BY <2>1, <2>2, <2>4 DEF DrainOver, Drain, CloseSwap, ShutdownStep, CloseLoad,
                              CloseClose, WaitDrained, WaitTimeout
    <2>5. CASE StopTransport \/ TransportStopped \/ Cancel \/ SelectCtx
      BY <2>1, <2>2, <2>5 DEF StopTransport, TransportStopped, Cancel, SelectCtx
    <2>6. CASE SelectDone
      BY <2>1, <2>2, <2>6 DEF SelectDone
    <2> QED BY <1>2, <2>3, <2>4, <2>5, <2>6
  <1>3. CASE StartSpawn
    BY <1>3 DEF StartSpawn
  <1>4. ASSUME NEW w \in Worker, WorkerEnds(w)
        PROVE  /\ main' = main /\ LifecycleTypeOK'
               /\ GoroutinesEnded => GoroutinesEnded'
    BY <1>4 DEF WorkerEnds, GoroutinesEnded
  <1>5. ASSUME NEW t \in Transport, TransportStep(t)
        PROVE  /\ main' = main /\ LifecycleTypeOK'
               /\ GoroutinesEnded => GoroutinesEnded'
    <2>1. serve[t] # "ended" /\ main' = main /\ worker' = worker
      BY <1>5 DEF TransportStep, TransportStore, TransportListen, TransportServe,
                  ServeReturns
    <2>2. \E to \in {"stored", "listening", "serving", "ended"} :
            serve' = [serve EXCEPT ![t] = to]
      BY <1>5 DEF TransportStep, TransportStore, TransportListen, TransportServe,
                  ServeReturns
    <2> QED BY <2>1, <2>2 DEF GoroutinesEnded
  <1>6. ASSUME NEW t \in Transport, AdminBegin(t) \/ AdminEnd(t)
        PROVE  UNCHANGED <<main, worker, serve>>
    BY <1>6 DEF AdminBegin, AdminEnd
  <1>7. ASSUME NEW r \in Request, Arrive(r) \/ HandlerStep(r)
        PROVE  UNCHANGED <<main, worker, serve>>
    BY <1>7 DEF Arrive, HandlerStep, lifecycleVars
  <1>8. ASSUME Drain \/ Signal \/ CtxExpires \/ UNCHANGED allVars
        PROVE  UNCHANGED <<main, worker, serve>>
    BY <1>8 DEF Drain, Signal, CtxExpires, allVars, lifecycleVars
  <1> QED BY <1>1, <1>2, <1>3, <1>4, <1>5, <1>6, <1>7, <1>8 DEF LifecycleNext, MainStep

\* Every step keeps the invariant.
LEMMA LifecycleNextInv ==
  ASSUME LifecycleIInv, [LifecycleNext]_allVars
  PROVE  LifecycleIInv'
PROOF
  <1> USE DEF LifecycleIInv
  <1>1. IInv'
    BY StepRefinesTracker, NextInv
  <1>2. LifecycleTypeOK'
    BY MainAndGoroutines
  <1>3. CASE Drain
    <2>1. main = "drain" /\ main' = "drain" /\ (shutdown' = "drained" => Signalled)
      BY <1>3 DEF Drain, lifecycleVars, CloseSwap, ShutdownStep, CloseLoad, CloseClose,
                  WaitDrained, WaitTimeout
    <2>2. DrainFirst' /\ CleanReturn'
      BY <2>1, TrackerStep DEF DrainFirst, CleanReturn
    <2> QED BY <1>1, <1>2, <2>2
  <1>4. CASE ~Drain
    <2>1. shutdown' = shutdown /\ (Signalled => Signalled')
      BY <1>4, TrackerStep
    <2>2. DrainFirst'
      BY <2>1, MainAndGoroutines DEF DrainFirst
    <2>3. CleanReturn'
      <3> SUFFICES ASSUME main' = "nil"
                   PROVE  /\ shutdown' = "drained" /\ GoroutinesEnded'
                          /\ ~endRaced' => Running' = {}
        BY DEF CleanReturn
      <3>1. shutdown = "drained" /\ GoroutinesEnded'
        BY MainAndGoroutines DEF CleanReturn, DrainFirst
      <3>2. Signalled'
        BY <2>1, <3>1 DEF DrainFirst
      <3>3. SignalMeansIdle'
        BY <1>1 DEF IInv, SignalMeansIdle, SignalInv, PhaseInv, Signalled, TypeOK
      <3> QED BY <2>1, <3>1, <3>2, <3>3 DEF SignalMeansIdle
    <2> QED BY <1>1, <1>2, <2>2, <2>3
  <1> QED BY <1>3, <1>4

\* Hence the invariant always holds.
LEMMA LifecycleInductive == LifecycleSpec => []LifecycleIInv
PROOF
  BY LifecycleInitInv, LifecycleNextInv, PTL DEF LifecycleSpec

\* Whatever main, the workers and the transports do, the tracker sees one run of
\* Begin, End, Close and Wait: all that is proved of it holds in the application.
THEOREM LifecycleUsesTracker == LifecycleSpec => Spec
PROOF
  <1>1. LifecycleInit => Init
    BY DEF LifecycleInit
  <1>2. [LifecycleNext]_allVars => [Next]_vars
    BY StepRefinesTracker
  <1> QED BY <1>1, <1>2, PTL DEF LifecycleSpec, Spec

\* In the application: the counter is exact.
THEOREM LifecycleCountIsExact == LifecycleSpec => []CountIsExact
PROOF
  BY LifecycleUsesTracker, InFlightCountIsExact, PTL

\* In the application: unless an End straddles Close, the signal means idle.
THEOREM LifecycleSignalMeansIdle == LifecycleSpec => []SignalMeansIdle
PROOF
  BY LifecycleUsesTracker, InFlightSignalMeansIdle, PTL

\* In the application: unless a Begin backs out, the signal is not lost.
THEOREM LifecycleSignalNotLost == LifecycleSpec => []SignalNotLost
PROOF
  BY LifecycleUsesTracker, InFlightSignalNotLost, PTL

\* A nil from Application.Shutdown means that the drain was signalled, that
\* every goroutine of Start has ended, and that no check runs unless an End
\* straddled Close.
THEOREM LifecycleCleanReturn == LifecycleSpec => []CleanReturn
PROOF
  <1>1. LifecycleIInv => CleanReturn
    BY DEF LifecycleIInv
  <1> QED BY <1>1, LifecycleInductive, PTL

==============================================================================
