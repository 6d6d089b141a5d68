---------------------------- MODULE RateAlgorithms ----------------------------
(***************************************************************************)
(* The three algorithms of the rate-limit store for one key                *)
(* (store/inmemory/redis_inmemory.go): fixed window, sliding window and    *)
(* token bucket.  Each call holds r.mu, so it is one step; what is hard is *)
(* the arithmetic at window boundaries, the state that outlives a change   *)
(* of the rule's parameters, and sums of counts and costs in an int64.     *)
(*                                                                         *)
(* The clock is a bounded number of ticks.  Counts are integers that wrap  *)
(* past MaxInt.  Tokens, a float64 in the code, are exact here: they are   *)
(* counted in units of 1/Scale, which divides every refill evenly.         *)
(***************************************************************************)
EXTENDS MachineInt, Sequences, FiniteSetsExt

CONSTANTS
    Params,         \* rule parameters: algorithm, limit, window, burst
    Cost,
    WindowDefault,  \* r.windowDefault
    Scale,          \* parts of a token; every window divides it
    MaxTime,        \* bound: ticks
    MaxChanges      \* bound: changes of the parameters

\* RuleParams.Window is 0 when the rule has none.
Window(p) == IF p.window <= 0 THEN WindowDefault ELSE p.window

\* Costs and limits that are not positive are refused before any state is
\* looked at.
ASSUME RateAssumption ==
    /\ {WindowDefault, MaxInt, Scale} \subseteq Nat \ {0}
    /\ {MaxTime, MaxChanges} \subseteq Nat
    /\ Cost \subseteq 1..MaxInt
    /\ \A p \in Params : /\ p.algo \in {"fixed", "sliding", "bucket"}
                         /\ p.limit \in 1..MaxInt
                         /\ p.window \in Int /\ p.burst \in Int
                         /\ \E n \in 1..Scale : Scale = n * Window(p)

VARIABLES
    now,         \* r.now()
    params,      \* what the limiter passes: the rule's parameters
    fixed,       \* r.fixedWindows[key]
    sliding,     \* r.slidingWindows[key]
    bucket,      \* r.tokenBuckets[key]
    last,        \* the last decision, until the clock or the rule changes
    log,         \* history: cost admitted under params before each tick
    surplus,     \* history: tokens in the bucket when params changed
    denial,      \* history: the last denial under params
    wrapped,     \* history: some sum has left the int64 range
    changes      \* history: number of changes of the parameters

history == <<log, denial, surplus, wrapped, changes>>
rateVars == <<now, params, fixed, sliding, bucket, last, history>>

None == [none |-> TRUE]

W == Window(params)
Capacity(p) == IF p.burst > p.limit THEN p.burst ELSE p.limit

Quiet == [t \in 0..(MaxTime + 1) |-> 0]

RateInit ==
    /\ now = 0
    /\ params \in Params
    /\ fixed = None /\ sliding = None /\ bucket = None
    /\ last = None /\ denial = None
    /\ log = Quiet /\ surplus = 0 /\ wrapped = FALSE /\ changes = 0

\* What every Exec reports, with the history of it.
Decide(cost, allowed, remaining, retryAfter) ==
    /\ last' = [remaining |-> remaining]
    /\ log' = IF allowed
              THEN [t \in DOMAIN log |-> IF t > now THEN log[t] + cost ELSE log[t]]
              ELSE log
    /\ denial' = IF allowed THEN denial
                 ELSE [cost |-> cost, until |-> now + retryAfter]

AtLeast0(x) == IF x < 0 THEN 0 ELSE x

------------------------------------------------------------------------------
(* execFixedWindowLocked *)

WindowStart == (now \div W) * W

FixedUsed == IF fixed # None /\ fixed.start = WindowStart THEN fixed.used ELSE 0
FixedAllows(cost) == Int64(FixedUsed + cost) <= params.limit

\* Mutant: what is left is computed before the cost is charged.
ExecFixed_RemainingBefore(cost) ==
    /\ params.algo = "fixed"
    /\ LET allowed == FixedAllows(cost)
           used == IF allowed THEN Int64(FixedUsed + cost) ELSE FixedUsed IN
         /\ fixed' = [start |-> WindowStart, used |-> used]
         /\ wrapped' = (wrapped \/ ~Fits(FixedUsed + cost))
         /\ Decide(cost, allowed, AtLeast0(Int64(params.limit - FixedUsed)),
                   WindowStart + W - now)
    /\ UNCHANGED <<now, params, sliding, bucket, surplus, changes>>

ExecFixed(cost) ==
    /\ params.algo = "fixed"
    /\ LET allowed == FixedAllows(cost)
           used == IF allowed THEN Int64(FixedUsed + cost) ELSE FixedUsed IN
         /\ fixed' = [start |-> WindowStart, used |-> used]
         /\ wrapped' = (wrapped \/ ~Fits(FixedUsed + cost))
         /\ Decide(cost, allowed, AtLeast0(Int64(params.limit - used)),
                   WindowStart + W - now)
    /\ UNCHANGED <<now, params, sliding, bucket, surplus, changes>>

------------------------------------------------------------------------------
(* execSlidingWindowLocked *)

\* The loop over the events.  total after each of them:
Sums(events) ==
    LET sum[n \in 0..Len(events)] ==
          IF n = 0 THEN 0 ELSE Int64(sum[n - 1] + events[n].cost)
    IN sum

Total(events) == Sums(events)[Len(events)]

\* filtered after each of them:
Filtered(events, cutoff) ==
    LET kept[n \in 0..Len(events)] ==
          IF n = 0 THEN << >>
          ELSE IF events[n].t >= cutoff THEN Append(kept[n - 1], events[n])
          ELSE kept[n - 1]
    IN kept

\* Mutant: an event exactly one window old no longer counts.
SlidingEvents_Exclusive ==
    IF sliding = None \/ sliding.window # W THEN << >>
    ELSE Filtered(sliding.events, now - W + 1)[Len(sliding.events)]

\* The events that still count; a change of the window forgets them all.
SlidingEvents ==
    IF sliding = None \/ sliding.window # W THEN << >>
    ELSE Filtered(sliding.events, now - W)[Len(sliding.events)]

SlidingAllows(cost) == Int64(Total(SlidingEvents) + cost) <= params.limit

ExecSliding(cost) ==
    /\ params.algo = "sliding"
    /\ LET events == SlidingEvents
           allowed == SlidingAllows(cost)
           kept == IF allowed THEN Append(events, [t |-> now, cost |-> cost])
                              ELSE events IN
         /\ sliding' = [window |-> W, events |-> kept]
         /\ wrapped' = (wrapped \/ ~Fits(Total(events) + cost))
         /\ Decide(cost, allowed, AtLeast0(Int64(params.limit - Total(kept))),
                   IF events = << >> THEN 0 ELSE AtLeast0(events[1].t + W - now))
    /\ UNCHANGED <<now, params, fixed, bucket, surplus, changes>>

------------------------------------------------------------------------------
(* execTokenBucketLocked *)

\* Tokens that one tick adds.
Rate == (params.limit * Scale) \div W

\* The tokens there are now: a new bucket is full, and only a refill by a
\* positive time is cut off at the capacity.
Tokens ==
    IF bucket = None THEN Capacity(params) * Scale
    ELSE IF now > bucket.last
      THEN Min({Capacity(params) * Scale,
                bucket.tokens + (now - bucket.last) * Rate})
    ELSE bucket.tokens

BucketAllows(cost) == cost * Scale <= Tokens

\* Mutant: the time to wait for the missing tokens is rounded up, and one more.
WaitFor_TooLong(cost) == (cost * Scale - Tokens) \div Rate + 2

\* Conversion to a time.Duration cuts the fraction off.
WaitFor(cost) == AtLeast0(cost * Scale - Tokens) \div Rate

ExecBucket(cost) ==
    /\ params.algo = "bucket"
    /\ LET allowed == BucketAllows(cost)
           left == IF allowed THEN Tokens - cost * Scale ELSE Tokens IN
         /\ bucket' = [tokens |-> left, last |-> now]
         /\ Decide(cost, allowed, left \div Scale, WaitFor(cost))
    /\ UNCHANGED <<now, params, fixed, sliding, surplus, wrapped, changes>>

------------------------------------------------------------------------------

Tick ==
    /\ now < MaxTime
    /\ now' = now + 1
    /\ last' = None
    /\ UNCHANGED <<params, fixed, sliding, bucket, history>>

\* A cutover brings a limiter with other parameters; the key's state stays.
\* A change to another algorithm starts afresh in that algorithm's own map.
ChangeParams(p) ==
    /\ p # params /\ p.algo = params.algo
    /\ changes < MaxChanges
    /\ changes' = changes + 1
    /\ params' = p
    /\ last' = None /\ denial' = None /\ log' = Quiet
    /\ surplus' = IF bucket = None THEN 0 ELSE bucket.tokens
    /\ UNCHANGED <<now, fixed, sliding, bucket, wrapped>>

\* A behaviour is followed up to the first sum that overflows.
RateNext ==
    \/ /\ ~wrapped
       /\ \E cost \in Cost : ExecFixed(cost) \/ ExecSliding(cost) \/ ExecBucket(cost)
    \/ Tick
    \/ \E p \in Params : ChangeParams(p)

RateSpec == RateInit /\ [][RateNext]_rateVars

------------------------------------------------------------------------------
(* Properties *)

Admitted(from, to) == log[to + 1] - log[from]

Allows(cost) ==
    CASE params.algo = "fixed"   -> FixedAllows(cost)
      [] params.algo = "sliding" -> SlidingAllows(cost)
      [] params.algo = "bucket"  -> BucketAllows(cost)

\* The tokens a bucket may hand out at once.
Budget == Max({Capacity(params) * Scale, surplus})

WithinLimit(s, t) ==
    CASE params.algo = "fixed"   -> s \div W = t \div W => Admitted(s, t) <= params.limit
      [] params.algo = "sliding" -> t - s <= W => Admitted(s, t) <= params.limit
      [] params.algo = "bucket"  -> Admitted(s, t) * Scale <= Budget + (t - s) * Rate

\* As long as no sum overflows, what an algorithm admits under one set of
\* parameters keeps its limit, whatever state the previous parameters left
\* behind: at most `limit' in each aligned window, at most `limit' in each
\* interval of one window's length, ends included, and in any interval at most
\* the bucket's capacity (or the surplus it started with) plus the refill.
NeverOverLimit ==
    ~wrapped => \A s, t \in 0..now : s <= t => WithinLimit(s, t)

\* Remaining tells the truth: at that moment a request is let in exactly if it
\* costs no more than the last decision said remains, if its cost added to a
\* limit is still an int64.
RemainingIsExact ==
    last # None /\ ~wrapped =>
        \A cost \in Cost :
            (\A p \in Params : Fits(p.limit + cost)) =>
                (Allows(cost) <=> cost <= last.remaining)

\* RetryAfter is never too long: until it has passed, a request that costs as
\* much as the denied one is denied again.
NoEarlyAdmission ==
    [][(log' # log /\ params' = params /\ denial # None /\ ~wrapped' /\
        log'[now + 1] - log[now + 1] >= denial.cost) => now >= denial.until]_rateVars

------------------------------------------------------------------------------
(* The inductive invariant of the proofs. *)

Event == [t : Nat, cost : Cost]

\* Every variable has its type.
RateTypeOK ==
    /\ now \in 0..MaxTime /\ params \in Params
    /\ fixed = None \/ fixed \in [start : Int, used : Int]
    /\ sliding = None \/ sliding \in [window : Nat, events : Seq(Event)]
    /\ bucket = None \/ bucket \in [tokens : Nat, last : 0..now]
    /\ last = None \/ last \in [remaining : Int]
    /\ denial = None \/ denial \in [cost : Cost, until : Int]
    /\ log \in [0..(MaxTime + 1) -> Nat]
    /\ surplus \in Nat /\ wrapped \in BOOLEAN

\* The log only grows, and ends with the present tick.
LogInv ==
    /\ \A s, t \in 0..(MaxTime + 1) : s <= t => log[s] <= log[t]
    /\ \A t \in (now + 1)..(MaxTime + 1) : log[t] = log[now + 1]

\* A count that some rule has let pass.
WithinSomeLimit(x) == x >= 0 /\ \E p \in Params : x <= p.limit

\* The counter of the window counts at least what was admitted in it.  A denial
\* stands until the window ends.
FixedInv ==
    /\ WithinSomeLimit(FixedUsed)
    /\ fixed # None => WithinSomeLimit(fixed.used)
    /\ Admitted(WindowStart, now) <= FixedUsed
    /\ last # None => last.remaining = AtLeast0(params.limit - FixedUsed)
    /\ denial # None /\ now < denial.until =>
         /\ denial.until = WindowStart + W
         /\ FixedUsed + denial.cost > params.limit

\* A list of events in the order of time whose sums have not wrapped.
EventsOK(events) ==
    /\ \A i, j \in DOMAIN events : i <= j => events[i].t <= events[j].t
    /\ Sums(events) \in [0..Len(events) -> 0..MaxInt] /\ Sums(events)[0] = 0
    /\ \A n \in 1..Len(events) : Sums(events)[n] = Sums(events)[n - 1] + events[n].cost
    /\ \A m, n \in 0..Len(events) : m <= n => Sums(events)[m] <= Sums(events)[n]
    /\ WithinSomeLimit(Total(events))

\* The events after the n-th cover what was admitted since a tick of the window
\* that is later than the n-th.
Covered(events) ==
    \A n \in 0..Len(events), s \in 0..now :
        s >= now - W /\ (\A i \in 1..n : events[i].t < s) =>
            Admitted(s, now) <= Total(events) - Sums(events)[n]

\* A denial stands until the oldest event leaves the window.
SlidingInv ==
    /\ sliding # None =>
         /\ EventsOK(sliding.events)
         /\ \A i \in DOMAIN sliding.events : sliding.events[i].t <= now
    /\ IF sliding # None /\ sliding.window = W
       THEN Covered(sliding.events) ELSE log[now + 1] = 0
    /\ last # None =>
         /\ sliding # None /\ sliding.window = W
         /\ \A i \in DOMAIN sliding.events : sliding.events[i].t >= now - W
         /\ last.remaining = AtLeast0(params.limit - Total(sliding.events))
    /\ denial # None /\ now < denial.until =>
         /\ sliding # None /\ sliding.window = W /\ denial.until <= now + W
         /\ \A i \in DOMAIN sliding.events : sliding.events[i].t + W >= denial.until
         /\ Total(sliding.events) + denial.cost > params.limit

\* Tokens are what the budget and the refills leave of what was admitted.  A
\* denial stands until the refills have brought the missing tokens.
BucketInv ==
    /\ \A s \in 0..now : Admitted(s, now) * Scale + Tokens <= Budget + (now - s) * Rate
    /\ last # None => last.remaining = Tokens \div Scale
    /\ denial # None /\ now < denial.until =>
         Tokens + (denial.until - now) * Rate <= denial.cost * Scale

RateIInv ==
    /\ RateTypeOK /\ LogInv /\ NeverOverLimit
    /\ ~wrapped =>
         CASE params.algo = "fixed"   -> FixedInv
           [] params.algo = "sliding" -> SlidingInv
           [] params.algo = "bucket"  -> BucketInv

==============================================================================
