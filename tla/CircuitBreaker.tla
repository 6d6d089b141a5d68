---------------------------- MODULE CircuitBreaker ----------------------------
(***************************************************************************)
(* The circuit breaker in front of Redis (core/circuit.go) and the calls   *)
(* of redisLimiter.Allow / AllowBatch that go through it (core/limiter.go).*)
(*                                                                         *)
(* One breaker is shared by every limiter of the process and has no lock:  *)
(* each load, store and add of its atomics is a step of its own.           *)
(*                                                                         *)
(* openUntil is only ever compared with the clock, so it is kept as the    *)
(* one bit `cooled' (now >= openUntil).  lastFailure is never read and is  *)
(* left out.  A request that finds ModeEmergency, or none at all, is a     *)
(* caller that stays idle.                                                 *)
(***************************************************************************)
EXTENDS Integers, FiniteSets

CONSTANTS
    Caller,            \* request goroutines
    FailureThreshold,
    HalfOpenMaxCalls

\* NewCircuitBreaker replaces options that are not positive.
ASSUME BreakerAssumption ==
    /\ IsFiniteSet(Caller)
    /\ FailureThreshold \in Nat \ {0}
    /\ HalfOpenMaxCalls \in Nat \ {0}

VARIABLES
    state,      \* cb.state
    cooled,     \* the clock has reached cb.openUntil
    failures,   \* cb.failures, saturated at FailureThreshold (see AddFailure)
    half,       \* cb.halfOpenInFlight
    pc,         \* where each caller is
    healthy     \* environment: Redis answers

vars == <<state, cooled, failures, half, pc, healthy>>

States == {"closed", "open", "halfopen"}

\* Where a caller that entered through the half-open state still owes it an
\* outcome.
Owing == {"zero", "exec", "okload", "failload", "okdec", "okreset", "okclose",
          "faildec", "failset", "until", "trip"}

PCs == Owing \cup {"idle", "clock", "probe", "halfadd", "halfundo", "okzero",
                   "failadd"}

Goto(c, label) == pc' = [pc EXCEPT ![c] = label]

Init ==
    /\ state = "closed"
    /\ cooled = TRUE               \* openUntil is 0
    /\ failures = 0 /\ half = 0
    /\ pc = [c \in Caller |-> "idle"]
    /\ healthy \in BOOLEAN

------------------------------------------------------------------------------
(* Allow *)

\* The load of state that selects the branch.
AllowLoad(c) ==
    /\ pc[c] = "idle"
    /\ Goto(c, CASE state = "closed"   -> "exec"
                 [] state = "open"     -> "clock"
                 [] state = "halfopen" -> "halfadd")
    /\ UNCHANGED <<state, cooled, failures, half, healthy>>

\* Open: turned away until the clock reaches openUntil.
AllowClock(c) ==
    /\ pc[c] = "clock"
    /\ Goto(c, IF cooled THEN "probe" ELSE "idle")
    /\ UNCHANGED <<state, cooled, failures, half, healthy>>

\* state.Store(CircuitHalfOpen)
AllowProbe(c) ==
    /\ pc[c] = "probe"
    /\ state' = "halfopen"
    /\ Goto(c, "zero")
    /\ UNCHANGED <<cooled, failures, half, healthy>>

\* halfOpenInFlight.Store(0); this caller proceeds without counting itself.
AllowZero(c) ==
    /\ pc[c] = "zero"
    /\ half' = 0
    /\ Goto(c, "exec")
    /\ UNCHANGED <<state, cooled, failures, healthy>>

\* Half-open: count, then compare with the maximum.
AllowHalfAdd(c) ==
    /\ pc[c] = "halfadd"
    /\ half' = half + 1
    /\ Goto(c, IF half' <= HalfOpenMaxCalls THEN "exec" ELSE "halfundo")
    /\ UNCHANGED <<state, cooled, failures, healthy>>

\* Mutant: a caller turned away stays counted.
AllowHalfUndo_Leak(c) ==
    /\ pc[c] = "halfundo"
    /\ Goto(c, "idle")
    /\ UNCHANGED <<state, cooled, failures, half, healthy>>

\* Too many: take the count back and turn the caller away.
AllowHalfUndo(c) ==
    /\ pc[c] = "halfundo"
    /\ half' = half - 1
    /\ Goto(c, "idle")
    /\ UNCHANGED <<state, cooled, failures, healthy>>

------------------------------------------------------------------------------
(* The Redis call *)

\* It may fail only while Redis is unhealthy, and then need not.  `Unhealthy'
\* stands for whatever makes calls fail: Redis itself, or request contexts that
\* expire.  lim.redis is never nil here: LimiterFactory.Create refuses a nil one.
Exec(c) ==
    /\ pc[c] = "exec"
    /\ Goto(c, "okload") \/ (~healthy /\ Goto(c, "failload"))
    /\ UNCHANGED <<state, cooled, failures, half, healthy>>

------------------------------------------------------------------------------
(* OnSuccess *)

\* A success that finds the breaker open (it tripped meanwhile) is ignored.
OkLoad(c) ==
    /\ pc[c] = "okload"
    /\ Goto(c, CASE state = "halfopen" -> "okdec"
                 [] state = "closed"   -> "okzero"
                 [] state = "open"     -> "idle")
    /\ UNCHANGED <<state, cooled, failures, half, healthy>>

OkDec(c) ==
    /\ pc[c] = "okdec"
    /\ half' = half - 1
    /\ Goto(c, "okreset")
    /\ UNCHANGED <<state, cooled, failures, healthy>>

OkReset(c) ==
    /\ pc[c] \in {"okreset", "okzero"}
    /\ failures' = 0
    /\ Goto(c, IF pc[c] = "okreset" THEN "okclose" ELSE "idle")
    /\ UNCHANGED <<state, cooled, half, healthy>>

\* Mutant: the success of a trial does not close the breaker.
OkClose_Stays(c) ==
    /\ pc[c] = "okclose"
    /\ Goto(c, "idle")
    /\ UNCHANGED <<state, cooled, failures, half, healthy>>

OkClose(c) ==
    /\ pc[c] = "okclose"
    /\ state' = "closed"
    /\ Goto(c, "idle")
    /\ UNCHANGED <<cooled, failures, half, healthy>>

------------------------------------------------------------------------------
(* OnFailure *)

\* Mutant: the failure of a trial call returns before it re-opens the breaker.
FailLoad_TrialIgnored(c) ==
    /\ pc[c] = "failload"
    /\ Goto(c, IF state = "halfopen" THEN "idle" ELSE "failadd")
    /\ UNCHANGED <<state, cooled, failures, half, healthy>>

FailLoad(c) ==
    /\ pc[c] = "failload"
    /\ Goto(c, IF state = "halfopen" THEN "faildec" ELSE "failadd")
    /\ UNCHANGED <<state, cooled, failures, half, healthy>>

FailDec(c) ==
    /\ pc[c] = "faildec"
    /\ half' = half - 1
    /\ Goto(c, "failset")
    /\ UNCHANGED <<state, cooled, failures, healthy>>

FailSet(c) ==
    /\ pc[c] = "failset"
    /\ failures' = FailureThreshold
    /\ Goto(c, "until")
    /\ UNCHANGED <<state, cooled, half, healthy>>

\* failures is only compared with the threshold, so it may stop there.
AddFailure(f) == IF f < FailureThreshold THEN f + 1 ELSE f

FailAdd(c) ==
    /\ pc[c] = "failadd"
    /\ failures' = AddFailure(failures)
    /\ Goto(c, IF failures' >= FailureThreshold THEN "until" ELSE "idle")
    /\ UNCHANGED <<state, cooled, half, healthy>>

\* openUntil moves ahead of the clock.
FailUntil(c) ==
    /\ pc[c] = "until"
    /\ cooled' = FALSE
    /\ Goto(c, "trip")
    /\ UNCHANGED <<state, failures, half, healthy>>

FailTrip(c) ==
    /\ pc[c] = "trip"
    /\ state' = "open"
    /\ Goto(c, "idle")
    /\ UNCHANGED <<cooled, failures, half, healthy>>

------------------------------------------------------------------------------
(* The environment *)

\* OpenDuration elapses.
Cool ==
    /\ ~cooled
    /\ cooled' = TRUE
    /\ UNCHANGED <<state, failures, half, pc, healthy>>

\* Redis fails, or comes back.
HealthChanges ==
    /\ healthy' = ~healthy
    /\ UNCHANGED <<state, cooled, failures, half, pc>>

CallerStep(c) ==
    \/ AllowLoad(c) \/ AllowClock(c) \/ AllowProbe(c) \/ AllowZero(c)
    \/ AllowHalfAdd(c) \/ AllowHalfUndo(c)
    \/ Exec(c)
    \/ OkLoad(c) \/ OkDec(c) \/ OkReset(c) \/ OkClose(c)
    \/ FailLoad(c) \/ FailDec(c) \/ FailSet(c) \/ FailAdd(c)
    \/ FailUntil(c) \/ FailTrip(c)

Next == (\E c \in Caller : CallerStep(c)) \/ Cool \/ HealthChanges

Spec == Init /\ [][Next]_vars

\* The clock advances, calls that have begun go on, and requests keep coming.
\* The health of Redis is nobody's obligation.
LiveSpec ==
    Spec /\ WF_vars(Cool) /\ \A c \in Caller : WF_vars(CallerStep(c))

------------------------------------------------------------------------------
(* Properties *)

\* Every variable has its type.
TypeOK ==
    /\ state \in States
    /\ cooled \in BOOLEAN /\ healthy \in BOOLEAN
    /\ failures \in 0..FailureThreshold
    /\ half \in Int
    /\ pc \in [Caller -> PCs]

\* The half-open state is never stranded.  It has no timer of its own, so it
\* ends only if some call reports an outcome to it: whenever the breaker is
\* half-open, such a call is under way, whatever the counter of trial calls
\* says and however the stores of several callers interleave.
HalfOpenHasCaller ==
    state = "halfopen" => \E c \in Caller : pc[c] \in Owing

\* Calls that were turned away do not use up the half-open capacity: the
\* counter exceeds the maximum only by callers about to take their count back.
CounterBounded ==
    half <= HalfOpenMaxCalls
              + Cardinality({c \in Caller : pc[c] = "halfundo"})

\* Once Redis is healthy for good the breaker closes for good.
RecoversWhenHealthy == <>[]healthy => <>[](state = "closed")

==============================================================================
