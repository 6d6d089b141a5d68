------------------------------- MODULE Lifecycle -------------------------------
(***************************************************************************)
(* The application's start and shutdown: main (cmd/ratelimit/main.go),     *)
(* Application.Start and Shutdown (app/app.go), the background workers and *)
(* the two transports, which Start only spawns and Shutdown stops.         *)
(* Composed with the in-flight tracker of module InFlight, through which   *)
(* every check passes; admin calls pass it by.                             *)
(*                                                                         *)
(* The servers of net/http and grpc-go are external, and modelled by what  *)
(* the transports use: Serve accepts until the server is shut down and     *)
(* returns at once if it was before; Shutdown and GracefulStop stop        *)
(* accepting and wait for the calls in progress.  net/http recovers from a *)
(* panic of a handler and closes its connection, grpc-go does not: there,  *)
(* as in main, a panic ends the process.  After Shutdown returns the       *)
(* goroutines it left go on: main exits then, but tests do not.            *)
(***************************************************************************)
EXTENDS InFlight, Sequences

CONSTANTS
    Worker,      \* outbox publisher, invalidator, cache sync, health loop
    Transports,  \* in the order in which Shutdown stops them
    Via          \* the transport each request comes in by

ASSUME LifecycleAssumption ==
    /\ Transports \in Seq({"http", "grpc"})
    /\ Via \in [Request -> {Transports[i] : i \in 1..Len(Transports)}]

Transport == {Transports[i] : i \in 1..Len(Transports)}

VARIABLES
    main,        \* where main is in Start and Shutdown
    next,        \* the transport Shutdown is at
    loaded,      \* Start has filled the rule cache
    ready,       \* app.ready
    cancelled,   \* the context of the workers is done
    ctxDone,     \* the context given to Shutdown is done
    worker,      \* each worker's goroutine
    serve,       \* each transport's goroutine
    stored,      \* t.srv # nil
    stop,        \* the server's shutdown: no, begun, or returned
    missed,      \* history: Shutdown found no server to stop
    adminCall    \* an admin call is in progress on the transport

lifecycleVars == <<main, next, loaded, ready, cancelled, ctxDone, worker,
                   serve, stored, stop, missed, adminCall>>
allVars == <<vars, lifecycleVars>>

LifecycleInit ==
    /\ Init
    /\ main = "load" /\ next = 1
    /\ loaded = FALSE /\ ready = FALSE
    /\ cancelled = FALSE /\ ctxDone = FALSE
    /\ worker = [w \in Worker |-> "none"]
    /\ serve = [t \in Transport |-> "none"]
    /\ stored = [t \in Transport |-> FALSE]
    /\ stop = [t \in Transport |-> "no"]
    /\ missed = [t \in Transport |-> FALSE]
    /\ adminCall = [t \in Transport |-> FALSE]

\* A panic that nobody recovers from has ended the process.
Crashed ==
    \/ shutdown = "panicked"
    \/ \E r \in Request : pc[r] = "panicked" /\ Via[r] = "grpc"

------------------------------------------------------------------------------
(* Start *)

\* LoadAll and ReplaceAll; an error ends Start, and main with it.
StartLoad ==
    /\ main = "load"
    /\ \/ loaded' = TRUE /\ main' = "spawn"
       \/ loaded' = FALSE /\ main' = "failed"
    /\ UNCHANGED <<vars, next, ready, cancelled, ctxDone, worker, serve, stored,
                   stop, missed, adminCall>>

\* A goroutine for each worker and each transport; none has run yet.
StartSpawn ==
    /\ main = "spawn"
    /\ worker' = [w \in Worker |-> "running"]
    /\ serve' = [t \in Transport |-> "spawned"]
    /\ main' = "ready"
    /\ UNCHANGED <<vars, next, loaded, ready, cancelled, ctxDone, stored, stop,
                   missed, adminCall>>

StartReady ==
    /\ main = "ready"
    /\ ready' = TRUE
    /\ main' = "running"
    /\ UNCHANGED <<vars, next, loaded, cancelled, ctxDone, worker, serve, stored,
                   stop, missed, adminCall>>

\* SIGINT or SIGTERM.  The workers' context is derived from the one that ends
\* here, so they stop before the drain begins.
Signal ==
    /\ cancelled' = TRUE
    /\ UNCHANGED <<vars, main, next, loaded, ready, ctxDone, worker, serve, stored,
                   stop, missed, adminCall>>

WorkerEnds(w) ==
    /\ worker[w] = "running" /\ cancelled
    /\ worker' = [worker EXCEPT ![w] = "ended"]
    /\ UNCHANGED <<vars, main, next, loaded, ready, cancelled, ctxDone, serve, stored,
                   stop, missed, adminCall>>

------------------------------------------------------------------------------
(* A transport's Start, in its goroutine; its error is dropped *)

\* Under the transport's lock.  gRPC listens before it stores the server, HTTP
\* after it; whichever cannot listen ends.
TransportStore(t) ==
    /\ serve[t] = "spawned"
    /\ \/ /\ stored' = [stored EXCEPT ![t] = TRUE]
          /\ serve' = [serve EXCEPT ![t] = IF t = "http" THEN "stored" ELSE "listening"]
       \/ /\ t = "grpc"
          /\ serve' = [serve EXCEPT ![t] = "ended"]
          /\ UNCHANGED stored
    /\ UNCHANGED <<vars, main, next, loaded, ready, cancelled, ctxDone, worker,
                   stop, missed, adminCall>>

TransportListen(t) ==
    /\ serve[t] = "stored"
    /\ \E to \in {"listening", "ended"} : serve' = [serve EXCEPT ![t] = to]
    /\ UNCHANGED <<vars, main, next, loaded, ready, cancelled, ctxDone, worker, stored,
                   stop, missed, adminCall>>

TransportServe(t) ==
    /\ serve[t] = "listening"
    /\ serve' = [serve EXCEPT ![t] = IF stop[t] = "no" THEN "serving" ELSE "ended"]
    /\ UNCHANGED <<vars, main, next, loaded, ready, cancelled, ctxDone, worker, stored,
                   stop, missed, adminCall>>

\* No call is in progress on the transport.
Idle(t) ==
    /\ ~adminCall[t]
    /\ \A r \in Request : Via[r] = t => pc[r] \in {"idle", "panicked"}

\* Mutant: when the context is done, gRPC's Shutdown leaves GracefulStop to
\* itself and does not call Stop.
ServeReturns_NoStop(t) ==
    /\ serve[t] = "serving" /\ stop[t] # "no"
    /\ t = "http" \/ Idle(t)
    /\ serve' = [serve EXCEPT ![t] = "ended"]
    /\ UNCHANGED <<vars, main, next, loaded, ready, cancelled, ctxDone, worker, stored,
                   stop, missed, adminCall>>

\* Serve returns: for HTTP as soon as Shutdown is called, for gRPC when
\* GracefulStop or Stop is through.
ServeReturns(t) ==
    /\ serve[t] = "serving" /\ stop[t] # "no"
    /\ t = "http" \/ stop[t] = "done" \/ Idle(t)
    /\ serve' = [serve EXCEPT ![t] = "ended"]
    /\ UNCHANGED <<vars, main, next, loaded, ready, cancelled, ctxDone, worker, stored,
                   stop, missed, adminCall>>

------------------------------------------------------------------------------
(* Calls *)

Accepting(t) == serve[t] = "serving" /\ stop[t] = "no"

Arrive(r) ==
    /\ Accepting(Via[r]) /\ BeginCheck(r)
    /\ UNCHANGED lifecycleVars

HandlerStep(r) == RequestStep(r) /\ UNCHANGED lifecycleVars

AdminBegin(t) ==
    /\ Accepting(t) /\ ~adminCall[t]
    /\ adminCall' = [adminCall EXCEPT ![t] = TRUE]
    /\ UNCHANGED <<vars, main, next, loaded, ready, cancelled, ctxDone, worker, serve,
                   stored, stop, missed>>

AdminEnd(t) ==
    /\ adminCall[t]
    /\ adminCall' = [adminCall EXCEPT ![t] = FALSE]
    /\ UNCHANGED <<vars, main, next, loaded, ready, cancelled, ctxDone, worker, serve,
                   stored, stop, missed>>

------------------------------------------------------------------------------
(* Shutdown *)

\* main goes on to Shutdown after the signal.
ShutdownBegin ==
    /\ main = "running" /\ cancelled
    /\ ready' = FALSE
    /\ main' = "drain"
    /\ UNCHANGED <<vars, next, loaded, cancelled, ctxDone, worker, serve, stored,
                   stop, missed, adminCall>>

\* Close and Wait.
Drain ==
    /\ main = "drain"
    /\ CloseSwap \/ ShutdownStep \/ WaitTimeout
    /\ UNCHANGED lifecycleVars

DrainOver ==
    /\ main = "drain" /\ shutdown \in {"drained", "timedout"}
    /\ main' = "stop"
    /\ UNCHANGED <<vars, next, loaded, ready, cancelled, ctxDone, worker, serve, stored,
                   stop, missed, adminCall>>

\* A transport whose goroutine has not stored a server yet has none to stop.
StopTransport ==
    /\ main = "stop" /\ next <= Len(Transports)
    /\ LET t == Transports[next]
       IN \/ /\ ~stored[t]
             /\ missed' = [missed EXCEPT ![t] = TRUE]
             /\ next' = next + 1
             /\ UNCHANGED <<main, stop>>
          \/ /\ stored[t]
             /\ stop' = [stop EXCEPT ![t] = "begun"]
             /\ main' = "stopping"
             /\ UNCHANGED <<next, missed>>
    /\ UNCHANGED <<vars, loaded, ready, cancelled, ctxDone, worker, serve, stored, adminCall>>

\* Mutant: the transport is stopped without the caller's context.
TransportStopped_NoDeadline ==
    /\ main = "stopping" /\ Idle(Transports[next])
    /\ stop' = [stop EXCEPT ![Transports[next]] = "done"]
    /\ next' = next + 1
    /\ main' = "stop"
    /\ UNCHANGED <<vars, loaded, ready, cancelled, ctxDone, worker, serve, stored,
                   missed, adminCall>>

\* Its Shutdown returns when no call is left, or when the context is done, and
\* then with an error that nobody looks at.
TransportStopped ==
    /\ main = "stopping"
    /\ Idle(Transports[next]) \/ ctxDone
    /\ stop' = [stop EXCEPT ![Transports[next]] = "done"]
    /\ next' = next + 1
    /\ main' = "stop"
    /\ UNCHANGED <<vars, loaded, ready, cancelled, ctxDone, worker, serve, stored,
                   missed, adminCall>>

Cancel ==
    /\ main = "stop" /\ next > Len(Transports)
    /\ cancelled' = TRUE
    /\ main' = "select"
    /\ UNCHANGED <<vars, next, loaded, ready, ctxDone, worker, serve, stored,
                   stop, missed, adminCall>>

\* Every goroutine that Start counted in the wait group has ended.
GoroutinesEnded ==
    /\ \A w \in Worker : worker[w] = "ended"
    /\ \A t \in Transport : serve[t] = "ended"

\* Mutant: only the workers are waited for.
SelectDone_WorkersOnly ==
    /\ main = "select" /\ \A w \in Worker : worker[w] = "ended"
    /\ main' = IF shutdown = "timedout" THEN "error" ELSE "nil"
    /\ UNCHANGED <<vars, next, loaded, ready, cancelled, ctxDone, worker, serve, stored,
                   stop, missed, adminCall>>

\* The result is the drain's; if the context is done too, select may take
\* either case.
SelectDone ==
    /\ main = "select" /\ GoroutinesEnded
    /\ main' = IF shutdown = "timedout" THEN "error" ELSE "nil"
    /\ UNCHANGED <<vars, next, loaded, ready, cancelled, ctxDone, worker, serve, stored,
                   stop, missed, adminCall>>

SelectCtx ==
    /\ main = "select" /\ ctxDone
    /\ main' = "error"
    /\ UNCHANGED <<vars, next, loaded, ready, cancelled, ctxDone, worker, serve, stored,
                   stop, missed, adminCall>>

\* The deadline of the context that main gives to Shutdown.
CtxExpires ==
    /\ main \in {"drain", "stop", "stopping", "select"} /\ ~ctxDone
    /\ ctxDone' = TRUE
    /\ UNCHANGED <<vars, main, next, loaded, ready, cancelled, worker, serve, stored,
                   stop, missed, adminCall>>

------------------------------------------------------------------------------

MainStep ==
    \/ StartLoad \/ StartSpawn \/ StartReady
    \/ ShutdownBegin \/ Drain \/ DrainOver \/ StopTransport \/ TransportStopped
    \/ Cancel \/ SelectDone \/ SelectCtx

TransportStep(t) ==
    TransportStore(t) \/ TransportListen(t) \/ TransportServe(t) \/ ServeReturns(t)

LifecycleNext ==
    /\ ~Crashed
    /\ \/ MainStep \/ Signal \/ CtxExpires
       \/ \E w \in Worker : WorkerEnds(w)
       \/ \E t \in Transport : TransportStep(t) \/ AdminBegin(t) \/ AdminEnd(t)
       \/ \E r \in Request : Arrive(r) \/ HandlerStep(r)

\* While the process lives its goroutines are scheduled and the deadline passes.
\* No call has to end: neither a check nor an admin call.
LifecycleSpec ==
    /\ LifecycleInit /\ [][LifecycleNext]_allVars
    /\ WF_allVars(~Crashed /\ MainStep) /\ WF_allVars(~Crashed /\ CtxExpires)
    /\ \A w \in Worker : WF_allVars(~Crashed /\ WorkerEnds(w))
    /\ \A t \in Transport : WF_allVars(~Crashed /\ TransportStep(t))

------------------------------------------------------------------------------
(* Properties *)

\* What a nil from Shutdown means: the drain was signalled, every goroutine of
\* Start has ended, transports that stored their server too late included, and
\* unless an End straddled Close no check is running.
CleanReturn ==
    main = "nil" =>
        /\ shutdown = "drained" /\ GoroutinesEnded
        /\ ~endRaced => Running = {}

\* Shutdown returns unless Close and an End both close the drain channel and the
\* second of them ends the process: also when a drain signal was lost, a call
\* never ends, a transport was missed, or net/http has caught the panic of an End.
ShutdownReturns == main = "drain" ~> main \in {"nil", "error"} \/ Crashed

\* A server that Shutdown found is stopped for good, wherever its goroutine
\* was: storing, listening or serving.  One that it missed may serve on, and a
\* late End may still end the process.
ServersStop ==
    \A t \in Transport :
        main \in {"nil", "error"} ~> serve[t] = "ended" \/ missed[t] \/ Crashed

------------------------------------------------------------------------------
(* The inductive invariant of the proofs. *)

LifecycleTypeOK ==
    /\ main \in {"load", "spawn", "failed", "ready", "running", "drain", "stop",
                 "stopping", "select", "nil", "error"}
    /\ worker \in [Worker -> {"none", "running", "ended"}]
    /\ serve \in [Transport ->
                   {"none", "spawned", "stored", "listening", "serving", "ended"}]

\* Wait returns nil only on a signal, and Shutdown goes on to the transports
\* only when Wait has returned.
DrainFirst ==
    /\ shutdown = "drained" => Signalled
    /\ main \in {"stop", "stopping", "select", "nil", "error"} =>
         shutdown \in {"drained", "timedout"}

LifecycleIInv == IInv /\ LifecycleTypeOK /\ DrainFirst /\ CleanReturn

==============================================================================
