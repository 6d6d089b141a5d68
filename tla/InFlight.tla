------------------------------- MODULE InFlight -------------------------------
(***************************************************************************)
(* The in-flight request tracker (core/drain.go) with the two callers that *)
(* share it: request handlers, which bracket their work with Begin and End *)
(* (core/handler.go), and Application.Shutdown, which calls Close and then *)
(* Wait under the drain timeout (app/app.go).                              *)
(*                                                                         *)
(* Every access to n, closed and ch is a step of its own: the tracker has  *)
(* no lock, so handlers and Shutdown interleave between any two of them.   *)
(***************************************************************************)
EXTENDS Integers, FiniteSets

CONSTANT Request       \* request goroutines

ASSUME InFlightAssumption == IsFiniteSet(Request)

VARIABLES
    n,          \* f.n
    closed,     \* f.closed
    closes,     \* how often close(f.ch) has been called; the second call panics
    pc,         \* where each request is
    shutdown,   \* where Application.Shutdown is
    endRaced,   \* history: an End had counted down to 0 but not yet read
                \* closed when Close set it
    bounced     \* history: a Begin backed out after Close

vars == <<n, closed, closes, pc, shutdown, endRaced, bounced>>

ReqPCs == {"idle", "add", "recheck", "undo", "running", "endload", "endclose",
           "panicked"}
ShutdownPCs == {"serving", "load", "close", "waiting", "drained", "timedout",
                "panicked"}

\* Requests that the counter counts.
Counted == {r \in Request : pc[r] \in {"recheck", "undo", "running"}}
Running == {r \in Request : pc[r] = "running"}

\* The drain channel is readable.
Signalled == closes > 0

Init ==
    /\ n = 0 /\ closed = FALSE /\ closes = 0
    /\ pc = [r \in Request |-> "idle"]
    /\ shutdown = "serving"
    /\ endRaced = FALSE /\ bounced = FALSE

Goto(r, label) == pc' = [pc EXCEPT ![r] = label]

------------------------------------------------------------------------------
(* Begin *)

\* The first look at closed; a closed tracker turns the request away.
BeginCheck(r) ==
    /\ pc[r] = "idle" /\ ~closed
    /\ Goto(r, "add")
    /\ UNCHANGED <<n, closed, closes, shutdown, endRaced, bounced>>

BeginAdd(r) ==
    /\ pc[r] = "add"
    /\ n' = n + 1
    /\ Goto(r, "recheck")
    /\ UNCHANGED <<closed, closes, shutdown, endRaced, bounced>>

\* Mutant: Begin does not look at closed again after counting itself.
BeginRecheck_Skip(r) ==
    /\ pc[r] = "recheck"
    /\ Goto(r, "running")
    /\ UNCHANGED <<n, closed, closes, shutdown, endRaced, bounced>>

\* The second look: admitted, or counted for nothing.
BeginRecheck(r) ==
    /\ pc[r] = "recheck"
    /\ Goto(r, IF closed THEN "undo" ELSE "running")
    /\ UNCHANGED <<n, closed, closes, shutdown, endRaced, bounced>>

\* Mutant: the rejected Begin does not take its count back.
BeginUndo_KeepsCount(r) ==
    /\ pc[r] = "undo"
    /\ bounced' = TRUE
    /\ Goto(r, "idle")
    /\ UNCHANGED <<n, closed, closes, shutdown, endRaced>>

\* Back out.  Nothing here looks at the channel, even if n is now 0.
BeginUndo(r) ==
    /\ pc[r] = "undo"
    /\ n' = n - 1
    /\ bounced' = TRUE
    /\ Goto(r, "idle")
    /\ UNCHANGED <<closed, closes, shutdown, endRaced>>

------------------------------------------------------------------------------
(* End *)

EndAdd(r) ==
    /\ pc[r] = "running"
    /\ n' = n - 1
    /\ Goto(r, IF n' = 0 THEN "endload" ELSE "idle")
    /\ UNCHANGED <<closed, closes, shutdown, endRaced, bounced>>

\* Mutant: the last End never signals.
EndLoad_NoSignal(r) ==
    /\ pc[r] = "endload"
    /\ Goto(r, "idle")
    /\ UNCHANGED <<n, closed, closes, shutdown, endRaced, bounced>>

\* The one that counted down to 0 reads closed afterwards.
EndLoad(r) ==
    /\ pc[r] = "endload"
    /\ Goto(r, IF closed THEN "endclose" ELSE "idle")
    /\ UNCHANGED <<n, closed, closes, shutdown, endRaced, bounced>>

\* Closing a closed channel panics, and what that ends is for the caller to
\* say: here the goroutine alone, in module Lifecycle perhaps the process.
EndClose(r) ==
    /\ pc[r] = "endclose"
    /\ closes' = closes + 1
    /\ Goto(r, IF Signalled THEN "panicked" ELSE "idle")
    /\ UNCHANGED <<n, closed, shutdown, endRaced, bounced>>

------------------------------------------------------------------------------
(* Shutdown: Close, then Wait *)

CloseSwap ==
    /\ shutdown = "serving"
    /\ closed' = TRUE
    /\ endRaced' = \E r \in Request : pc[r] = "endload"
    /\ shutdown' = "load"
    /\ UNCHANGED <<n, closes, pc, bounced>>

CloseLoad ==
    /\ shutdown = "load"
    /\ shutdown' = IF n = 0 THEN "close" ELSE "waiting"
    /\ UNCHANGED <<n, closed, closes, pc, endRaced, bounced>>

CloseClose ==
    /\ shutdown = "close"
    /\ closes' = closes + 1
    /\ shutdown' = IF Signalled THEN "panicked" ELSE "waiting"
    /\ UNCHANGED <<n, closed, pc, endRaced, bounced>>

\* Wait returns nil once the channel is closed.
WaitDrained ==
    /\ shutdown = "waiting" /\ Signalled
    /\ shutdown' = "drained"
    /\ UNCHANGED <<n, closed, closes, pc, endRaced, bounced>>

\* Wait returns the context's error.
WaitTimeout ==
    /\ shutdown = "waiting"
    /\ shutdown' = "timedout"
    /\ UNCHANGED <<n, closed, closes, pc, endRaced, bounced>>

------------------------------------------------------------------------------

RequestStep(r) ==
    \/ BeginAdd(r) \/ BeginRecheck(r) \/ BeginUndo(r)
    \/ EndAdd(r) \/ EndLoad(r) \/ EndClose(r)

ShutdownStep == CloseLoad \/ CloseClose \/ WaitDrained

Next ==
    \/ \E r \in Request : BeginCheck(r) \/ RequestStep(r)
    \/ CloseSwap \/ ShutdownStep \/ WaitTimeout

Spec == Init /\ [][Next]_vars

------------------------------------------------------------------------------
(* Properties *)

\* Every variable has its type; n is never negative.
TypeOK ==
    /\ n \in Nat /\ closes \in Nat
    /\ closed \in BOOLEAN /\ endRaced \in BOOLEAN /\ bounced \in BOOLEAN
    /\ pc \in [Request -> ReqPCs]
    /\ shutdown \in ShutdownPCs

\* The counter counts exactly the requests between their Add(1) and Add(-1),
\* rejected Begins included.
CountIsExact == n = Cardinality(Counted)

\* If no End straddles Close, the drain signal means that no admitted request
\* is still running, and none will be: Begin's second look closes the gap.
SignalMeansIdle == Signalled /\ ~endRaced => Running = {}

\* If no Begin backs out after Close, a drained tracker has been signalled or
\* somebody is about to: the last End and Close cannot both leave it to the
\* other.
SignalNotLost ==
    closed /\ shutdown # "load" /\ n = 0 /\ ~bounced =>
        \/ Signalled
        \/ shutdown = "close"
        \/ \E r \in Request : pc[r] \in {"endload", "endclose"}

\* The drain channel is closed at most once: neither Close nor End panics.
ClosedOnce == closes <= 1

------------------------------------------------------------------------------
(* The inductive invariant of the proofs. *)

\* Until Close, no signal; Shutdown's own position says that much.
PhaseInv ==
    /\ closed <=> shutdown # "serving"
    /\ ~closed => closes = 0 /\ ~endRaced /\ ~bounced
    /\ ~closed => \A r \in Request : pc[r] \notin {"undo", "endclose"}

\* Once a signal is on its way after Close, nothing runs any more.
SignalInv ==
    /\ closed /\ ~endRaced
    /\ \/ Signalled
       \/ shutdown = "close"
       \/ \E r \in Request : pc[r] \in {"endload", "endclose"}
    => Running = {}

IInv ==
    /\ TypeOK /\ CountIsExact /\ PhaseInv /\ SignalInv /\ SignalNotLost

==============================================================================
