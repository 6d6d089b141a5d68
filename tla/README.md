# A TLA+ verification of the distributed rate limiter

This directory holds TLA+ models of the rate limiter in `src/`, the TLC
configurations that model-check them on small instances, and TLAPS proofs of
their main safety properties for every instance. `PROJECT.json` is the index:
which definition models which lines, which run checks which property, which
mutant of the code each property catches, and which theorem proves it.

    tlc -workers 2 -config MCLimiterPool.cfg MCLimiterPool    # one run
    tlapm LimiterPool_proofs.tla                              # one set of proofs

## 1. The system

A process answers rate-limit checks. Rules (tenant and resource, algorithm,
limit, window) live in a rule database and are cached in every instance;
counters live in Redis; when Redis is not usable, a local fallback decides.

| Component | State | Operations | Talks to |
|---|---|---|---|
| Rule database (`store/inmemory/db_inmemory.go`) | rules by key, idempotency records, one mutex | Create, Update, Delete (optimistic versions), Get, List, LoadAll | admin handler, invalidator, sync worker |
| Admin handler (`core/admin_handler.go`) | none of its own | create, update, delete: database, then own cache, then an outbox row | database, cache, outbox |
| Outbox and publisher (`store/inmemory/outbox_inmemory.go`, `core/outbox_publisher.go`) | rows with a sent flag; the batch a publisher is working on | Insert, FetchPending, MarkSent; fetch, publish, mark on a ticker | pub/sub |
| Pub/sub (`store/inmemory/pubsub_inmemory.go`) | subscriptions | Subscribe, Publish (one goroutine per subscriber) | invalidators |
| Cache invalidator (`core/cache_invalidator.go`) | none; one goroutine per message | delete: drop from the cache, cut over; upsert: re-read, store if newer, cut over | database, cache, pool |
| Cache sync worker (`core/cache_sync_worker.go`) | the snapshot between load and store | LoadAll, ReplaceAll on a ticker | database, cache |
| Rule cache (`core/rulecache.go`) | a copy-on-write snapshot | Get, ReplaceAll, UpsertIfNewer, DeleteIfOlderOrEqual | everyone |
| Limiter pool (`core/limiterpool.go`, `core/lru.go`) | per shard: a map and an LRU list; per entry: state, reference count, mutex, condition variable | Acquire, Release, eviction, Cutover, the drain wait, Close | cache, handler, invalidator |
| Limiter (`core/limiter.go`) | parameters fixed at creation | Allow, AllowBatch: mode, breaker, Redis, fallback | breaker, Redis, fallback |
| Circuit breaker (`core/circuit.go`) | five atomics, no lock | Allow, OnSuccess, OnFailure | all limiters of the process share it |
| Degrade controller, health loop (`core/mode.go`, `core/health_loop.go`) | mode, health history | Update on a ticker, Mode | limiter, fallback |
| Fallback, ownership, membership (`core/fallback.go`, `core/ownership.go`) | local window counters | Allow, owner selection by weighted hash | limiter |
| Redis (`store/inmemory/redis_inmemory.go`) | buckets and windows by key | token bucket, fixed and sliding window, pipelines | limiter |
| Coalescer (`core/coalescer.go`) | calls in flight and their results for a short time | Do | handler |
| Rate-limit handler, batch planner (`core/handler.go`, `core/batchplanner.go`) | pooled buffers | CheckLimit, CheckLimitBatch | cache, pool, coalescer, in-flight tracker |
| In-flight tracker (`core/drain.go`) | a counter, a flag, a channel; no lock | Begin, End, Close, Wait | handler, Shutdown |
| Application (`app/app.go`), transports, configuration, observability | workers, cancel function, servers | Start, Shutdown | all |

What is hard here, and what makes each part correct:

* **Lock-free counters** (`InFlight`, `CircuitBreaker`, `LimiterEntry.refs`): a
  value is changed in one step and acted on in the next. Correct means: the
  drain signal is given once, when nothing runs, and is given at all; the
  half-open state always ends; no drain misses its wakeup.
* **Object lifetime** (`LimiterPool`): an entry leaves the map by eviction or
  cutover while requests still use it. Correct means: map and LRU list agree,
  no entry in service is closed before its deadline, every removed entry is
  closed in the end.
* **Result sharing and pooled memory** (coalescer, key buffers, plan slices): a
  request uses what another one computed, or memory another one used. Correct
  means: a shared decision comes from an overlapping call for the same key, a
  waiter is always answered, and nobody reads or is charged by somebody else's
  key, index or cost.
* **Propagation** (admin handler to limiter): six hand-overs without a common
  lock or transaction, on several instances, with duplicated, reordered and
  lost announcements, and versions that restart after a delete. Correct means:
  no announcement is lost by the publishers, a handled announcement is not
  undone, every cache converges to the database, and the limiters follow.
* **Optimistic concurrency and partial failure** (`RuleDB`, admin calls): versions
  and idempotency keys stand in for locks across an operator's read and write;
  a change can commit and its announcement fail. Correct means: what the caller
  is told is true.
* **Arithmetic** (Redis algorithms): windows, refills and what they report, on
  state that outlives a change of the rule.
* **Degradation** (modes, ownership, fallback): instances that cannot talk to each
  other share one limit by rules each applies alone.
* **Stopping** (`Application.Shutdown`): signal, drain, transports, workers and a
  deadline, with goroutines that may not even have started.

The list of hazards in `PROJECT.json` names each of these at its line, with the
properties that would catch it going wrong.

## 2. Modules

| Module | Models | Used by |
|---|---|---|
| `LRUKeys` | the LRU key list, as operators on sequences | `LimiterPool` |
| `LimiterPool` | one shard of the pool | `LimiterPoolRefinement` |
| `LimiterLease` | abstract: what the pool promises to requests | `LimiterPoolRefinement` |
| `LimiterPoolRefinement` | the mapping from pool to lease | `MCLimiterPool`, `LimiterPool_proofs` |
| `CircuitBreaker` | the breaker with the limiter calls that use it | `MCCircuitBreaker`, `Limiter_proofs` |
| `Coalescer` | `Do`: leaders, followers, ttl, contexts | `CheckPath` |
| `CheckPath` | one check from the transport to the reply, around `Coalescer` | `MCCheckPath`, `CheckPath_proofs` |
| `BatchCheck` | batched checks: validation, plan, groups, pipelines | `MCBatchCheck`, `BatchCheck_proofs` |
| `MachineInt` | int64 sums: a width and how a sum wraps | `RateAlgorithms`, `Fallback` |
| `RateAlgorithms` | fixed window, sliding window and token bucket of the store | `MCRateAlgorithms`, `Limiter_proofs` |
| `Fallback` | modes, membership, ownership and local windows of several instances | `MCFallback`, `Fallback_proofs` |
| `RuleDB` | the rule database | `AdminApi` |
| `AdminApi` | admin calls over HTTP and gRPC, around `RuleDB` | `MCAdminApi`, `AdminApi_proofs` |
| `RulePropagation` | one rule on its way from an admin write through outbox, publishers, handlers, sync and cache to the limiters of an instance | `MCRulePropagation`, `RulePropagation_proofs` |
| `InFlight` | the drain tracker with its handlers | `Lifecycle`, `MCInFlight` |
| `Lifecycle` | main, Start and Shutdown with transports and workers, around `InFlight` | `MCLifecycle`, `Lifecycle_proofs` |
| `LimiterPool_proofs`, `Limiter_proofs`, `CheckPath_proofs`, `BatchCheck_proofs`, `Fallback_proofs`, `AdminApi_proofs`, `RulePropagation_proofs`, `Lifecycle_proofs` | theorems | |

`CheckPath`, `AdminApi` and `Lifecycle` are compositions: they extend the module of
the component they surround and conjoin its actions with their own, so that the
component's invariants are checked again where it is really used. The inductive
invariants of the proofs stand at the end of the module they are about.

Definitions named `X_Something` directly before `X` and introduced by "Mutant:"
are plausible mistakes in the code that `X` models; they are no part of any
specification.

**LimiterPool.** `m`, `lru`, `state`, `refs` are the fields of the same names.
Code under `shard.mu` is one step, except `evictIfNeededLocked`, which reads an
atomic count that releases change without the lock: `EvictLoad` and `EvictMark`
are its two steps, and `victim` both names the entry and marks the lock as held.
`release` is `Release` (the decrement), `ReleaseLoad` (the test of the state)
and `ReleaseCast` (the broadcast under `entry.mu`). `waitForEntry` is split into
its lock, its loop condition, its deadline test, its sleep and its unlock;
`closer` is that goroutine's position and `expired` the clock relative to its
deadline. Entry identities are reused only when nothing refers to them, as the
garbage collector would. A limiter call may last for ever: nothing obliges a
request to release.

**LimiterLease** knows no reference counts, lists or timers: limiters are
current, held, overdue, closed. `LimiterPoolRefinement` reads "current" from the
map, "held" from the requests' positions and "overdue" from the deadline.
Evicting is `Make` with the keys that lose their limiter; an Acquire that still
holds the shard lock while it deals with its victim already holds its limiter.

**CircuitBreaker.** Every atomic access is a step. `openUntil` is compared with
the clock and nothing else, so one bit, `cooled`, replaces both; `failures`
saturates at the threshold for the same reason. `healthy` is the environment's:
a call may fail while it is false.

**Coalescer.** Each look at the map is one step under the shard lock; shards only
decide which lock. `fresh` holds the entries younger than the ttl. `Remove` also
returns, because nothing can happen to the leader in between. Entry identities
are reused as in the pool.

**CheckPath.** `CheckLimit` step by step: tracker, rule, `Acquire` (which looks the
rule up a second time), key buffer, coalescer, `Allow`, reply, and the deferred
calls in reverse order. The tracker, cache and pool appear as what `CheckLimit`
can see of them. The byte pool is state: `bufPool` says how often each buffer is
in it, `Get` takes one out, or a new one, without asking who else uses it, and
`Put` may put it in again. `Do` copies the coalescing key from the buffer, `Allow`
reads the buffer itself when it charges, and `charged` records the key it found.
`Allow` charges Redis or the fallback; the in-memory Redis fails only before it
charges. Requests that lack a field are turned away before they
touch anything. While draining, HTTP answers a check with status 500 and gRPC
with an OK reply that carries the error code; nothing else depends on that.

**BatchCheck.** A slab stands for the three slices (indexes, keys, costs) of one
group. `Free` says which slices a pool may hand out: those no plan holds. The
planner walks the batch and appends; the model says the same by rank (`Nth`):
group n is that of the n-th request that is the first of its group. A rule
or limiter that is missing fails a group as a whole. `Pipeline` holds the lock of
Redis but reads the health flag per operation, so it may charge a prefix and
then fail; `AllowFallback` then charges the group again.

**RateAlgorithms.** One key, one step per call (`r.mu`). Counts are integers that
wrap past `MaxInt`, and a behaviour is followed up to the first sum that wraps:
`used+cost` of two int64 values can overflow and is then taken for small, so the
limit is only kept for costs whose sum with the count fits. Tokens are float64
in the code and exact multiples of 1/`Scale` here, a common multiple of the
windows: rounding of floats is not modelled. The loop over the sliding window's
events is two recursive functions, the total (`Sums`) and the kept events
(`Filtered`) after each iteration. `ChangeParams` is a cutover: the key's counters
stay. `log` is history: what was admitted under the present parameters before each
tick, so that an interval's total is a difference of two entries.

**Fallback.** Time is ticks; only ages up to the thresholds and the position in
the window are kept. `View(i)` is the member list as instance `i` sees it:
`SetSelfWeight` changes an instance's own entry in its own list only, so views
can disagree, and then two instances may own a key or none; the sharing part of
`SharedCap` is about agreeing views, and TLC starts from all combinations. Hashes are `HashBits` wide
and wrap when multiplied by a weight. `counter.used+cost` is an int64 sum, and a
cost is only known to be positive: `used` wraps past `MaxInt`, and `wrapped` is
history that says so. The caps are those of the policy, as in the code;
`docs/overview.md:173` speaks of the rule's limit there. `NormalizeFallbackPolicy` always sets both
Boolean policies, so they are not parameters.

**RuleDB and AdminApi.** Each database call holds the mutex throughout and is one
step; `gen` numbers the lifetimes of a rule and is history. `held` is what a client
last got back, and the source of the versions it sends. `AdminApi` adds the two
wires with their codes (`statusForCode`, `grpcError`), refusals, and the outbox
insert as a step of its own that may fail. HTTP insists on an algorithm, gRPC
accepts an empty one. The in-memory outbox never fails; the interface allows it
and the handler treats it.

**RulePropagation.** One rule, followed on the instances of `Node`; admin calls
and publishers may belong to other instances of the same deployment, which meet
`Node` only in the database, the outbox and the channel. An admin call is three
steps (database, own cache, outbox row), the last of which may fail and leave a
change that nobody announces; a publisher round is fetch, publish and
mark per row; a handler is re-read, store and cut over; a sync is load and
replace, and the first sync of an instance is the one in `Application.Start`;
Acquire is the read of the rule and the locked rest. What `Cutover` does to the
entry it removes is `LimiterPool`'s subject. "No rule" has version 0, so the two
version guards of the cache need no special case.

**InFlight.** Every access to `n`, `closed` and the channel is a step. `closes`
counts `close(ch)`, and whoever closes a closed channel panics: Close inside
Shutdown, or End in a handler. `endRaced` and `bounced` are history variables that name the
two races under which the guarantees fail.

**Lifecycle.** main, its signal, the goroutines of workers and transports, and
Shutdown in its order: drain, stop each transport, cancel, select. The servers of
net/http and grpc-go are external and modelled by what the transports rely on.
A transport's goroutine stores its server, listens and serves; Shutdown finds a
server only if it has been stored. In main the signal cancels the workers'
context before Shutdown begins, so workers may stop before the drain. The drain
timeout and the context of Shutdown expire independently; main happens to give
both the same length, so the model allows a little more than the program.
`Crashed`: a panic in Shutdown or in a gRPC handler ends the process, and nothing
happens after it; net/http recovers a panic of its handler, which then is over.

## 3. Runs

| Run | Question | Result | Distinct states |
|---|---|---|---|
| `pool` | do evictions, cutovers, releases and drains keep the shard consistent, is every removed entry closed, and is all this a lease? | holds | 124,612 |
| `breaker` | does the half-open state always end, and does the breaker recover? | holds | 449,558 |
| `checkpath` | are shared decisions, pooled key buffers and deferred calls safe, and does every check return? | holds | 503,094 |
| `batch` | do answers match requests and charges match answers, with concurrent batches and failing pipelines? | holds | 26,410 |
| `algorithms` | do the algorithms keep their limits and tell the truth about what is left and when to retry? | holds | 696,013 |
| `fallback` | how much do instances without Redis admit together, and do modes follow Redis? | holds | 177,648 |
| `admin` | do idempotency keys, versions and replies mean what they say? | holds | 322,793 |
| `propagation` | is every announcement delivered to those who listen, and does a handled one reach cache and pool, whatever the order and however often? | holds | 2,942,652 |
| `propagation_live` | does every cache converge, also when changes are not announced? | holds | 379,185 |
| `lifecycle` | does Shutdown return, and what does a nil result mean? | holds | 171,042 |
| `inflight_double_close` | is the drain channel closed at most once? | violated | |
| `propagation_stale_pool` | is the limiter new once a cutover is done? | violated | |

The violations are disagreements between the code and a comment or document of
the repository; `findings` quotes the lines.

* *inflight_double_close.* `End` counts down to 0, `Close` sets `closed` and sees
  0, both close the channel. In Go the second close is a panic: in `Close` it ends
  the process in the middle of `Shutdown`, in `End` that of a gRPC handler does.
* *propagation_stale_pool.* A request reads version 1 from the cache; version 2 has
  been announced and is handled, Cutover included; the request takes the shard
  lock, finds no entry and maps a limiter built from version 1. `RuleVersion` is
  never compared with the cached rule. Eviction or the next event ends it. The
  property excludes every other way to a stale pool (a sync that went back in
  time, a deleted rule, an event that was not handled), so the trace is this one.

Other behaviour that the models made visible, and that the properties state their
conditions around:

* An `End` that counted to 0 before `Close` may signal the drain after it, with a
  request that began in between still running (`endRaced` in `SignalMeansIdle`
  and `CleanReturn`).
* A `Begin` that is refused after counting itself may hold the last count; taking
  it back signals nobody, and `Wait` runs into its timeout (`bounced` in
  `SignalNotLost`). `ShutdownReturns` holds nevertheless.
* The double close above is the one way in which Shutdown does not return: the
  process ends first (`Crashed` in `ShutdownReturns` and `ServersStop`).
* A cost so large that `used+cost` wraps is admitted by the fallback and leaves a
  negative counter, so the instance admits more than its cap until the window
  ends (`wrapped` in `SharedCap`); the algorithms of the store are in the same
  position (`wrapped` in `RateAlgorithms`). Instances whose views disagree may both
  own a key, and the sharing part of `SharedCap` does not speak of them.
* An instance that subscribes after an event was published has the new rule after
  the next full sync and keeps the limiter of the old one, because the sync does
  not touch the pool. `docs/admin_path_failure.md:1392` says "Stale limits until next
  full sync"; `PoolFollowsEvents` only speaks of events that were handled.
* A change whose outbox insert failed reaches the caches by the full sync alone.
* The caller that moves the breaker to half-open is not counted, so one more
  trial than `HalfOpenMaxCalls` is admitted.
* A rule created again after a delete restarts at version 1, so an update whose
  version was read in the earlier lifetime passes. `VersionIdentifiesRule`
  and `NoLostUpdate` are about one lifetime; within it, comparing versions alone
  keeps a client from overwriting or deleting contents that it never saw.
* A transport whose server is not stored when Shutdown comes by serves on; then
  Shutdown ends by its deadline, with an error (`missed` in `ServersStop`).
* Errors of the transports' own Shutdown are dropped: a nil result does not mean
  that their calls ended in time, only what `CleanReturn` says.
* A batch whose pipeline fails part way is charged in Redis for the prefix and
  again, completely, in the fallback (`ChargedAsAnswered` bounds this).

### Bounds

* `pool`: one entry per shard, two keys, three requests, two entry identities.
  With a capacity of 1 every miss on the other key evicts. The theorems of
  section 5 remove these bounds for safety and for the refinement.
* `breaker`: three callers, threshold 2, one half-open call. A caller holds no
  data but its position, and each of the races involves at most two callers and
  a third that reports late.
* `checkpath`: two requests, two users, two entries, two buffers. Two requests
  suffice for each hand-over (leader and follower, old and new leader, one that
  puts a buffer back and one that gets it); `CheckPath_proofs` covers any number of them.
* `batch`: two concurrent batches of up to three requests that mix two targets,
  one key twice, and every kind of invalid request; four slabs, as many as two
  plans can need.
* `algorithms`: five ticks over windows of 2 and 3, seven rules, up to two changes,
  a `MaxInt` of 7, so that a cost of 7 overflows.
* `fallback`: two instances of one region and a third listed in another, one key,
  weights 1 and 2 with wrapping 3-bit hashes, thresholds of 2 ticks, a `MaxInt` of 4,
  so that a cost of 4 wraps the counter.
* `admin`: two keys, two clients, one idempotency key, two lifetimes and two
  versions each: enough to delete, create and update again.
* `propagation`: two writes, enough for a handler that holds a stale rule, two
  publishers, which duplicate announcements, one request. `propagation_live`: three
  writes, so that a rule is created again after a delete, one publisher (duplicates
  are the other run's and the theorems'), no requests. The violation needs two
  writes and one publisher. `BatchLimit` is 1, which makes the batch border fall
  between any two rows.
* `lifecycle`: both transports with one check each, admin calls, two workers (they
  differ in nothing that matters here).
* `MaxWrites`, `MaxGen`, `MaxVer`, `MaxTime` and `MaxChanges` are the only guards
  that the code does not have.

`CHECK_DEADLOCK FALSE` is set for the tracker and the lifecycle, which end, and for
the algorithms, whose time is bounded.

### Fairness

* `LimiterPool`: the goroutine that drains an entry and an Acquire that holds the
  shard lock keep running; the drain timer fires. Requests need not release.
  The fairness of `LimiterLease` (deadlines pass, what may be closed is closed)
  is implied, not assumed.
* `CircuitBreaker`: the clock advances, calls under way continue and requests keep
  coming (the half-open state can only be left by a request). Health is free.
* `CheckPath`: a request that has begun is scheduled. No timeout has to strike and
  no request has to arrive: that followers return is the leaders' doing.
* `Lifecycle`: while the process lives, main, workers and transport goroutines are
  scheduled and the deadline passes. No check and no admin call has to end.
* `RulePropagation`: committed admin calls finish, handlers return, the sync
  ticker fires, subscriptions are made. Publishing is not assumed to succeed.

All of these are the Go scheduler running what is runnable, timers and tickers.

## 4. Properties worth knowing

* `ImplementsLease`: a user of the pool may forget how it works.
* `NoLostWakeup`: a waiter asleep on an entry that nobody pins has a releaser on
  its way. `release` decrements without the mutex, so this depends on the waiter
  testing the count under `entry.mu` and on the broadcast taking it.
* `NoOrphanEntry`, `OneFreshLeader`, `EveryCheckReturns`: followers share decisions
  with overlapping calls for their own key only, a leader that outlived its ttl
  does no harm when it comes back, and nobody depends on a timeout.
* `KeyIntact`, `AnswersMatch`: reuse of buffers and slices is never visible. For
  the key buffers this depends on when they are put back, and how often: the
  mutant puts one back when the coalescing key has been copied, another request
  gets and overwrites it, and `Allow` charges the wrong user.
* `InFlightCoversResources`: a drained tracker means that nothing is held. With
  `CleanReturn` this is what a clean stop rests on.
* `NeverOverLimit`, `RemainingIsExact`, `NoEarlyAdmission`: limit, Remaining and
  RetryAfter over any interval, also after the rule was changed under the key.
* `SharedCap`: in a window an instance admits at most one of its allowances, as long
  as its counter does not wrap, and of
  instances that agree on the members only one admits at all, whatever the modes.
* `AnnouncedOrReported`, `RefusalChangesNothing`: the last change of a rule is
  announced or somebody was told of a server error; a client error hides nothing.
* `HalfOpenHasCaller`: a half-open breaker has a call under way whose report will
  end the state, however wrong the counter is; with fairness this becomes
  `RecoversWhenHealthy`.
* `EventsSuffice`, `PoolFollowsEvents`: what announcements achieve by themselves
  and on which conditions (never deleted, no sync that went back in time, no
  request across a cutover).
* `CacheConverges`: the sync repairs everything announcements cannot.

## 5. Proofs

TLAPS proves every invariant and every action property that a passing run checks,
for all values of the constants. The assumptions are the named ASSUMEs of the
modules: identifiers that stand for "none" differ from real ones, thresholds,
caps, limits and costs are positive int64 values (validation and normalisation see
to that), every window divides `Scale`, callers and requests are finite where they
are counted.

* **LimiterPool_proofs.** All seven safety properties. They are not inductive
  alone; `IInv` adds: how state, closer and map go together (`LifeInv`),
  what a request inside Acquire or Release points to (`ReqInv`), that one Acquire
  evicts at a time and its victim is active and unmapped (`VictimInv`), and what a
  drain that sleeps or is over has seen (`DrainInv`). `NoLostWakeup` follows from
  the last one: the waiter passed a positive count, so if the count is now 0,
  the release that took it there has not finished. The first section has the
  lemmas on the LRU list; counting handles uses `FiniteSetTheorems`. Assumed: a
  finite set of requests, a capacity of at least 1.
  The last section shows that the pool implements the safety part of the lease:
  initial states map to initial states and, under `IInv`, each action maps to one
  action of the lease or to a stutter. `DrainInv` and the count of handles justify
  `Close`, `VictimInv` the eviction.
* **Limiter_proofs.** What a limiter asks, the breaker and the store, each alone.
  Of the breaker, `TypeOK`, `HalfOpenHasCaller` and `CounterBounded` together are
  inductive: a caller leaves the labels at which it owes an outcome only when the
  breaker is not half-open, and makes it half-open only by entering them.

  Of the algorithms, `NeverOverLimit`, `RemainingIsExact` and `NoEarlyAdmission`,
  for any rules, costs, `MaxInt` and number of ticks. `RateIInv` has, while no sum
  has wrapped, one invariant per algorithm, each of which relates the state of the
  key to the history:
  - `FixedInv`: the counter of the aligned window is at least what was admitted in
    it, and at most some rule's limit (not the present one's: the counter survives a
    change of the rule); a denial stands until the window ends.
  - `SlidingInv`: the events are in the order of time, their sums have not wrapped
    (`EventsOK`), and the events after the n-th cover what was admitted since any
    tick of the window later than the n-th (`Covered`). The last is what lets the
    filter drop events; a denial stands until the oldest event leaves, which must
    be at most one window ahead.
  - `BucketInv`: admitted tokens and tokens left are together at most the budget
    and the refills, for every interval that ends now. The budget is the capacity or, if
    larger, the tokens that earlier parameters left: `execTokenBucketLocked` cuts off
    only when time has passed. A denial stands until the refills have brought
    what was missing, because the wait is rounded down.

  What the loop over the events computes is shown by the least-number principle
  (`WFMin` on the naturals): two tables that start alike and follow the same
  recursion cannot differ first anywhere. From it `FilteredIs` (the filter of a list in
  the order of time drops a prefix), `SuffixOK` and `AppendOK` (what dropping a prefix
  and appending an event do to the totals). `NeverOverLimit` needs the invariant of the
  algorithm only for intervals that end at the present tick; older ones do not change.
* **CheckPath_proofs.** First the coalescer alone, for any callers, keys and
  entries: `CoalescerIInv` adds to `NoOrphanEntry` and `OneFreshLeader` who owns an
  entry and its result (`EntryOwned`) and that a leader whose entry is young finds
  it in the map (`FreshIsMapped`): a new leader replaces only an entry that is not
  young, and `Remove` takes out only the leader's own. Then every step of a check
  is shown to be a step of the coalescer or to leave it alone, so that a check path
  implements `CoalescerSpec` and inherits both. Last, `CheckIInv` adds what a
  request holds at each point of `CheckLimit` (`HoldsByPC`) and who may have
  charged (`ChargedByPC`), and of the buffers (`BufferInv`) that one is in the pool at
  most once and then in nobody's use, and that one in use is one request's and
  holds its user. That a release puts in what was not there keeps the first part,
  and makes the pool safe to draw from. `KeyIntact` follows for each step that reads a
  buffer; `InFlightCoversResources` and `PaidIsAnswered` are implied.
* **BatchCheck_proofs.** `AnswersMatch` and `ChargedAsAnswered` for any number of
  concurrent batches of any length. The planner comes first: ranks are a bijection
  from a finite set of numbers to its places, so each valid request has exactly
  one place in exactly one group, and an invalid one has none. `SlabsApart` says
  that no slice is in two groups, `PlanIntact` that the groups still to do are as
  planned, and `Standing` what each request has been answered and charged before,
  during and after its group's turn. When the loop is over every request is
  invalid or `Settled`, which is what the two properties say.
* **Fallback_proofs.** `ModeTracksRedis` from `ModeLags`, which relates an
  instance's mode to the ticks since its last sample: a normal mode means that the
  outage is younger than the threshold and the lateness of the sample together.
  `SharedCap` from `OwnerCounts` (what an instance has admitted in this window, it
  admitted as owner and, until the counter wraps, has counted exactly, up to one of its
  modes' caps) and from the fact that instances
  which agree on the members choose the same owner. That costs are positive is
  needed: the transports refuse any other.
* **AdminApi_proofs.** `OneCreationPerKey`, `VersionIdentifiesRule`,
  `RefusalChangesNothing`, `AnnouncedOrReported` and the action property
  `NoLostUpdate`, for any clients, keys, wires and bodies. `NoLostUpdate` follows
  from `VersionIdentifiesRule` before the step and from `WriterHoldsVersion`: only
  a client that holds the stored version changes a rule. `AdminIInv` adds that no two rules share a lifetime
  (`LifetimesDistinct`), that whatever was returned to a client is the stored rule
  or an older version of it as long as its lifetime lasts (`CopiesOK`; this covers
  what a client falls back to after an error), that a key without a record has
  created nothing, and that the last change is noted under its own key.
* **RulePropagation_proofs.** `AtLeastOnce` from `PublishedIsDelivered`: between
  publishing and marking, the head of a publisher's batch has reached all who were
  subscribed. `EventsSuffice` and `PoolFollowsEvents` from `LifetimeInv` (before the
  first rule there is nothing), `AnnouncedInv` (in the first lifetime no
  announcement is ahead of the database), `HandlerInv` (a handler past its re-read
  holds a rule no older than its row, one past its store has a cache no older) and
  `ReadInv` (a request that no cutover has crossed holds a rule no older than
  whatever has been handled).
* **Lifecycle_proofs.** First the tracker alone, for any finite set of requests:
  `CountIsExact`, `SignalMeansIdle` and `SignalNotLost`. `PhaseInv` ties flag,
  channel and Shutdown's position together; `SignalInv` says that from the moment
  a signal is on its way after Close, nothing runs, which needs that a running
  request keeps the count positive and that Begin looks at the flag again after
  counting itself. Then every step of the application is shown to be a step of the
  tracker or to leave it alone, so the same holds in the running system.
  `CleanReturn` needs `DrainFirst`: Shutdown gets past the drain only when Wait has
  returned, and Wait returns nil only on a signal.

Only model-checked: liveness, that is `RemovedIsClosed`, `RecoversWhenHealthy`,
`CacheConverges`, `ShutdownReturns`, `ServersStop`, `EveryCheckReturns` and the
fairness part of `ImplementsLease`. Fairness and ENABLED are outside this prover's
reach.

## 6. Not modelled

* Configuration: parsing, merging and printing of settings, without state
  afterwards. Observability: counters, spans and log lines that no decision
  depends on. The chaos runner: a test harness. Generated protobuf code.
* Of the transports: decoding and encoding, request ids, and the endpoints that
  only read (health, readiness, mode, region).
* Capacity limits of the buffer pools (they decide what is reallocated) and the
  response pool beyond its reset, since the transports never put responses back.
* An instance that stops while others go on, in `RulePropagation`; its
  subscription ends with the workers' context.
* Rounding of float64 tokens; clocks of instances that differ.

## 7. Plan

1. Done: every component with state of its own, its composition with the
   component that uses it, the lease refinement; proofs of all invariants and action
   properties of the runs; the steps of `CheckPath` and `Lifecycle` as steps of the
   coalescer and the tracker.
2. Action properties of the components that have only invariants so far: what no
   step of a cache may undo.
3. Rounding of the token bucket's float64 as a bounded error in `Tokens`, and what is
   left of `NeverOverLimit` and `RemainingIsExact` then.
