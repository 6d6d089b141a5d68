----------------------------- MODULE LimiterPool -----------------------------
(***************************************************************************)
(* One shard of the limiter pool (core/limiterpool.go): the map from rule  *)
(* keys to limiter entries with its LRU list, the reference-counted        *)
(* handles that requests pin entries with, and the goroutine that drains   *)
(* and closes an entry once it has left the map.  Shards share nothing, so *)
(* one shard stands for the pool.                                          *)
(*                                                                         *)
(* Sections under shard.mu are atomic except where an atomic field of an   *)
(* entry is read and then acted on (evictIfNeededLocked); the lock-free    *)
(* release and the wait loop are split at every access to shared memory.   *)
(*                                                                         *)
(* Not here: Acquire's early errors (no rule, factory.Create fails), which *)
(* change nothing, and which rule an entry is built from, which is module  *)
(* RulePropagation.                                                        *)
(***************************************************************************)
EXTENDS Integers, FiniteSets, LRUKeys

CONSTANTS
    Key,          \* tenant/resource keys that hash to the shard
    Req,          \* request goroutines; each pins at most one entry at a time
    Entry,        \* identities of *LimiterEntry objects
    NoEntry,      \* the nil entry
    MaxEntries    \* policy.MaxEntriesShard, at least 1 after NewLimiterPool

ASSUME PoolAssumption ==
    /\ IsFiniteSet(Req)
    /\ NoEntry \notin Entry
    /\ MaxEntries \in Nat \ {0}

VARIABLES
    m,         \* shard.m
    lru,       \* shard.lru, most recently used first
    state,     \* entry.state; "free" marks an identity not allocated yet
    refs,      \* entry.refs
    closer,    \* where the goroutine that will close the entry is
    expired,   \* the deadline of waitForEntry has passed
    timer,     \* the AfterFunc of waitForEntry is set and has not fired
    pc,        \* where each request is
    ent,       \* the entry a request works on
    victim     \* the entry evictIfNeededLocked is working on, under shard.mu

shardVars == <<m, lru, victim>>
entryVars == <<state, refs>>
waitVars == <<closer, expired, timer>>
reqVars == <<pc, ent>>
vars == <<m, lru, state, refs, closer, expired, timer, pc, ent, victim>>

States == {"free", "active", "quiescing", "closed"}
ReqPCs == {"idle", "evict", "mark", "using", "load", "cast"}
CloserPCs == {"none", "window", "lock", "check", "deadline", "waiting", "wake",
              "exit", "close", "done"}

\* A request holds a handle on e, or is still inside the Acquire that made it.
Holders(e) == {r \in Req : ent[r] = e /\ pc[r] \in {"evict", "mark", "using"}}

\* shard.mu is held across steps only by an Acquire that is evicting.
ShardFree == victim = NoEntry

\* Mutant: broadcasts do not take entry.mu.
MuFree_NoLock(e) == TRUE

\* entry.mu is held across steps only by the wait loop.
MuFree(e) == closer[e] \notin {"check", "deadline", "exit"}

\* An identity that no live pointer names: never used, or closed and dropped.
Fresh(e) ==
    \/ state[e] = "free"
    \/ state[e] = "closed" /\ \A r \in Req : ent[r] # e

Init ==
    /\ m = [k \in Key |-> NoEntry]
    /\ lru = <<>>
    /\ state = [e \in Entry |-> "free"]
    /\ refs = [e \in Entry |-> 0]
    /\ closer = [e \in Entry |-> "none"]
    /\ expired = [e \in Entry |-> FALSE]
    /\ timer = [e \in Entry |-> FALSE]
    /\ pc = [r \in Req |-> "idle"]
    /\ ent = [r \in Req |-> NoEntry]
    /\ victim = NoEntry

------------------------------------------------------------------------------
(* Acquire *)

\* Mutant: Acquire forgets refs.Add(1) on a hit.
AcquireHit_NoRef(r, k) ==
    /\ pc[r] = "idle" /\ ShardFree
    /\ m[k] # NoEntry /\ state[m[k]] = "active"
    /\ lru' = LruAdd(lru, k)
    /\ pc' = [pc EXCEPT ![r] = "using"]
    /\ ent' = [ent EXCEPT ![r] = m[k]]
    /\ UNCHANGED <<m, state, refs, closer, expired, timer, victim>>

\* The key has an active entry: pin it and touch the LRU list.
AcquireHit(r, k) ==
    /\ pc[r] = "idle" /\ ShardFree
    /\ m[k] # NoEntry /\ state[m[k]] = "active"
    /\ refs' = [refs EXCEPT ![m[k]] = @ + 1]
    /\ lru' = LruAdd(lru, k)
    /\ pc' = [pc EXCEPT ![r] = "using"]
    /\ ent' = [ent EXCEPT ![r] = m[k]]
    /\ UNCHANGED <<m, state, closer, expired, timer, victim>>

\* No active entry: build one with one reference, map it, and take the keys
\* the LRU list gives up out of the map.  The list outgrows MaxEntries by one
\* key at most, so there is at most one victim.
AcquireMiss(r, k, e) ==
    /\ pc[r] = "idle" /\ ShardFree
    /\ m[k] # NoEntry => state[m[k]] # "active"
    /\ Fresh(e)
    /\ LET list == LruAdd(lru, k)
           out  == LruEvicted(list, MaxEntries)
       IN  /\ lru' = LruKept(list, MaxEntries)
           /\ m' = [q \in Key |-> CASE q \in out -> NoEntry
                                    [] q = k /\ q \notin out -> e
                                    [] OTHER -> m[q]]
           /\ \/ /\ out = {}
                 /\ victim' = NoEntry
                 /\ pc' = [pc EXCEPT ![r] = "using"]
              \/ \E q \in out :
                 /\ victim' = m[q]
                 /\ pc' = [pc EXCEPT ![r] = "evict"]
    /\ state' = [state EXCEPT ![e] = "active"]
    /\ refs' = [refs EXCEPT ![e] = 1]
    /\ closer' = [closer EXCEPT ![e] = "none"]
    /\ expired' = [expired EXCEPT ![e] = FALSE]
    /\ timer' = [timer EXCEPT ![e] = FALSE]
    /\ ent' = [ent EXCEPT ![r] = e]

\* Mutant: the victim is closed without a look at its count.
EvictLoad_NoCheck(r) ==
    /\ pc[r] = "evict"
    /\ state' = [state EXCEPT ![victim] = "closed"]
    /\ closer' = [closer EXCEPT ![victim] = "done"]
    /\ victim' = NoEntry
    /\ pc' = [pc EXCEPT ![r] = "using"]
    /\ UNCHANGED <<m, lru, refs, expired, timer, ent>>

\* evictIfNeededLocked reads the victim's count: an idle entry is closed on
\* the spot, a pinned one is marked next.
EvictLoad(r) ==
    /\ pc[r] = "evict"
    /\ \/ /\ refs[victim] = 0
          /\ state' = [state EXCEPT ![victim] = "closed"]
          /\ closer' = [closer EXCEPT ![victim] = "done"]
          /\ victim' = NoEntry
          /\ pc' = [pc EXCEPT ![r] = "using"]
       \/ /\ refs[victim] # 0
          /\ pc' = [pc EXCEPT ![r] = "mark"]
          /\ UNCHANGED <<state, closer, victim>>
    /\ UNCHANGED <<m, lru, refs, expired, timer, ent>>

\* Mutant: a pinned victim quiesces but no goroutine is started for it.
EvictMark_NoWaiter(r) ==
    /\ pc[r] = "mark"
    /\ state' = [state EXCEPT ![victim] = "quiescing"]
    /\ victim' = NoEntry
    /\ pc' = [pc EXCEPT ![r] = "using"]
    /\ UNCHANGED <<m, lru, refs, closer, expired, timer, ent>>

\* A pinned victim quiesces and gets a goroutine that waits and closes it.
EvictMark(r) ==
    /\ pc[r] = "mark"
    /\ state' = [state EXCEPT ![victim] = "quiescing"]
    /\ closer' = [closer EXCEPT ![victim] = "lock"]
    /\ victim' = NoEntry
    /\ pc' = [pc EXCEPT ![r] = "using"]
    /\ UNCHANGED <<m, lru, refs, expired, timer, ent>>

------------------------------------------------------------------------------
(* Release: once per handle (sync.Once); the clamp of a negative count is   *)
(* dead code, because refs counts the handles.                              *)

\* Mutant: a handle can be released again and again (no sync.Once).
Release_NoOnce(r) ==
    /\ pc[r] = "using"
    /\ refs' = [refs EXCEPT ![ent[r]] = @ - 1]
    /\ UNCHANGED <<m, lru, state, closer, expired, timer, victim, reqVars>>

Release(r) ==
    /\ pc[r] = "using"
    /\ refs' = [refs EXCEPT ![ent[r]] = @ - 1]
    /\ \/ /\ refs'[ent[r]] = 0
          /\ pc' = [pc EXCEPT ![r] = "load"]
          /\ UNCHANGED ent
       \/ /\ refs'[ent[r]] # 0
          /\ pc' = [pc EXCEPT ![r] = "idle"]
          /\ ent' = [ent EXCEPT ![r] = NoEntry]
    /\ UNCHANGED <<m, lru, state, closer, expired, timer, victim>>

\* The last holder reads the state and wakes the waiter only if quiescing.
ReleaseLoad(r) ==
    /\ pc[r] = "load"
    /\ \/ /\ state[ent[r]] = "quiescing"
          /\ pc' = [pc EXCEPT ![r] = "cast"]
          /\ UNCHANGED ent
       \/ /\ state[ent[r]] # "quiescing"
          /\ pc' = [pc EXCEPT ![r] = "idle"]
          /\ ent' = [ent EXCEPT ![r] = NoEntry]
    /\ UNCHANGED <<shardVars, entryVars, waitVars>>

\* cond.Broadcast under entry.mu.
Broadcast(e) ==
    closer' = [closer EXCEPT ![e] = IF @ = "waiting" THEN "wake" ELSE @]

ReleaseCast(r) ==
    /\ pc[r] = "cast" /\ MuFree(ent[r])
    /\ Broadcast(ent[r])
    /\ pc' = [pc EXCEPT ![r] = "idle"]
    /\ ent' = [ent EXCEPT ![r] = NoEntry]
    /\ UNCHANGED <<shardVars, entryVars, expired, timer>>

------------------------------------------------------------------------------
(* Cutover, waitForEntry and closeLimiter *)

\* Mutant: Cutover forgets lru.Remove.
Cutover_KeepsLRU(k) ==
    /\ ShardFree /\ m[k] # NoEntry
    /\ state' = [state EXCEPT ![m[k]] = "quiescing"]
    /\ closer' = [closer EXCEPT ![m[k]] = "window"]
    /\ m' = [m EXCEPT ![k] = NoEntry]
    /\ UNCHANGED <<lru, refs, expired, timer, reqVars, victim>>

\* Mutant: Cutover leaves the quiescing entry in the map.
Cutover_KeepsMapped(k) ==
    /\ ShardFree /\ m[k] # NoEntry
    /\ state' = [state EXCEPT ![m[k]] = "quiescing"]
    /\ closer' = [closer EXCEPT ![m[k]] = "window"]
    /\ UNCHANGED <<m, lru, refs, expired, timer, reqVars, victim>>

\* Take the key's entry out of the map and start draining it.
Cutover(k) ==
    /\ ShardFree /\ m[k] # NoEntry
    /\ state' = [state EXCEPT ![m[k]] = "quiescing"]
    /\ closer' = [closer EXCEPT ![m[k]] = "window"]
    /\ m' = [m EXCEPT ![k] = NoEntry]
    /\ lru' = LruRemove(lru, k)
    /\ UNCHANGED <<refs, expired, timer, reqVars, victim>>

\* The quiesce window ends, by time or because the context is done.
QuiesceEnds(e) ==
    /\ closer[e] = "window"
    /\ closer' = [closer EXCEPT ![e] = "lock"]
    /\ UNCHANGED <<shardVars, entryVars, expired, timer, reqVars>>

\* Mutant: waitForEntry sets no timer.
WaitLock_NoTimer(e) ==
    /\ closer[e] = "lock"
    /\ closer' = [closer EXCEPT ![e] = "check"]
    /\ UNCHANGED <<shardVars, entryVars, expired, timer, reqVars>>

\* waitForEntry computes its deadline, locks entry.mu and sets the timer.
WaitLock(e) ==
    /\ closer[e] = "lock"
    /\ closer' = [closer EXCEPT ![e] = "check"]
    /\ timer' = [timer EXCEPT ![e] = TRUE]
    /\ UNCHANGED <<shardVars, entryVars, expired, reqVars>>

\* The clock passes the deadline.
DeadlinePasses(e) ==
    /\ closer[e] \in {"check", "deadline", "waiting", "wake"} /\ ~expired[e]
    /\ expired' = [expired EXCEPT ![e] = TRUE]
    /\ UNCHANGED <<shardVars, entryVars, closer, timer, reqVars>>

\* The timer, set after the deadline was computed, fires past it and
\* broadcasts under entry.mu.
TimerFires(e) ==
    /\ timer[e] /\ expired[e] /\ MuFree(e)
    /\ timer' = [timer EXCEPT ![e] = FALSE]
    /\ Broadcast(e)
    /\ UNCHANGED <<shardVars, entryVars, expired, reqVars>>

\* The loop condition: leave when nothing pins the entry.
CheckRefs(e) ==
    /\ closer[e] = "check"
    /\ closer' = [closer EXCEPT ![e] = IF refs[e] > 0 THEN "deadline" ELSE "exit"]
    /\ UNCHANGED <<shardVars, entryVars, expired, timer, reqVars>>

\* The loop body: give up past the deadline, otherwise cond.Wait, which
\* joins the waiters and unlocks entry.mu in one step.
CheckDeadline(e) ==
    /\ closer[e] = "deadline"
    /\ closer' = [closer EXCEPT ![e] = IF expired[e] THEN "exit" ELSE "waiting"]
    /\ UNCHANGED <<shardVars, entryVars, expired, timer, reqVars>>

\* A woken waiter takes entry.mu again and goes back to the loop condition.
Wake(e) ==
    /\ closer[e] = "wake"
    /\ closer' = [closer EXCEPT ![e] = "check"]
    /\ UNCHANGED <<shardVars, entryVars, expired, timer, reqVars>>

\* The loop is over: unlock entry.mu and stop the timer.
WaitUnlock(e) ==
    /\ closer[e] = "exit"
    /\ closer' = [closer EXCEPT ![e] = "close"]
    /\ timer' = [timer EXCEPT ![e] = FALSE]
    /\ UNCHANGED <<shardVars, entryVars, expired, reqVars>>

\* Swap the state to closed and close the limiter.
CloseLimiter(e) ==
    /\ closer[e] = "close"
    /\ state' = [state EXCEPT ![e] = "closed"]
    /\ closer' = [closer EXCEPT ![e] = "done"]
    /\ UNCHANGED <<shardVars, refs, expired, timer, reqVars>>

------------------------------------------------------------------------------

Acquire(r) ==
    \E k \in Key : AcquireHit(r, k) \/ \E e \in Entry : AcquireMiss(r, k, e)

EvictStep(r) == EvictLoad(r) \/ EvictMark(r)

ReleaseStep(r) == Release(r) \/ ReleaseLoad(r) \/ ReleaseCast(r)

CloserStep(e) ==
    \/ QuiesceEnds(e) \/ WaitLock(e) \/ DeadlinePasses(e) \/ TimerFires(e)
    \/ CheckRefs(e) \/ CheckDeadline(e) \/ Wake(e) \/ WaitUnlock(e)
    \/ CloseLimiter(e)

Next ==
    \/ \E r \in Req : Acquire(r) \/ EvictStep(r) \/ ReleaseStep(r)
    \/ \E k \in Key : Cutover(k)
    \/ \E e \in Entry : CloserStep(e)

Spec == Init /\ [][Next]_vars

\* The Go scheduler runs a runnable goroutine eventually, and timers fire.
\* Requests are not assumed to release: a limiter call may hang.
Fairness ==
    /\ \A r \in Req : WF_vars(EvictStep(r))
    /\ \A e \in Entry : WF_vars(CloserStep(e))

LiveSpec == Spec /\ Fairness

------------------------------------------------------------------------------
(* Properties *)

\* Every variable has its type.
TypeOK ==
    /\ m \in [Key -> Entry \union {NoEntry}]
    /\ lru \in Seq(Key)
    /\ state \in [Entry -> States]
    /\ refs \in [Entry -> Nat]
    /\ closer \in [Entry -> CloserPCs]
    /\ expired \in [Entry -> BOOLEAN]
    /\ timer \in [Entry -> BOOLEAN]
    /\ pc \in [Req -> ReqPCs]
    /\ ent \in [Req -> Entry \union {NoEntry}]
    /\ victim \in Entry \union {NoEntry}

\* An entry's reference count is the number of handles on it, whatever mix of
\* hits, misses, evictions, cutovers and releases led here (so release never
\* takes it below zero).
RefsCountHandles == \A e \in Entry : refs[e] = Cardinality(Holders(e))

\* The map and the LRU list name the same keys, once each, and never more
\* than MaxEntriesShard of them.
MapMirrorsLRU ==
    /\ \A k \in Key : (m[k] # NoEntry) <=> (k \in ToSet(lru))
    /\ \A i, j \in 1 .. Len(lru) : lru[i] = lru[j] => i = j
    /\ Len(lru) <= MaxEntries

\* What Acquire can find in the map is active, and an entry is mapped once:
\* a draining entry gets no new handle.
MappedAreActive ==
    \A k \in Key : m[k] # NoEntry =>
        /\ state[m[k]] = "active"
        /\ \A q \in Key : m[q] = m[k] => q = k

\* An entry that left the map is on its way to Close: an evicting Acquire or a
\* waiting goroutine still owns it.  No limiter is leaked.
RemovedHasCloser ==
    \A e \in Entry :
        /\ state[e] = "active" /\ (\A k \in Key : m[k] # e) => victim = e
        /\ state[e] = "quiescing" => closer[e] \notin {"none", "done"}

\* A limiter is closed under a request that still uses it only when the drain
\* deadline (CloseTimeout) has passed.
ClosedOnlyWhenDrained ==
    \A e \in Entry : state[e] = "closed" /\ Holders(e) # {} => expired[e]

\* A waiter that sleeps on an entry nobody pins any more has a releaser on the
\* way to wake it: release's lock-free decrement loses no wakeup.
NoLostWakeup ==
    \A e \in Entry : closer[e] = "waiting" /\ refs[e] = 0 =>
        \E r \in Req : ent[r] = e /\ pc[r] \in {"load", "cast"}

\* Every entry taken out of service is closed in the end, even when a request
\* never releases it.
RemovedIsClosed ==
    \A e \in Entry : (state[e] = "quiescing") ~> (state[e] = "closed")

------------------------------------------------------------------------------
(* The inductive invariant of the proofs. *)

Draining == {"window", "lock", "check", "deadline", "waiting", "wake", "exit",
             "close"}

\* How the state of an entry, its closer and the map go together.
LifeInv ==
    \A e \in Entry :
        /\ state[e] \in {"free", "active"} <=> closer[e] = "none"
        /\ state[e] = "quiescing" <=> closer[e] \in Draining
        /\ state[e] = "closed" <=> closer[e] = "done"
        /\ state[e] = "active" => victim = e \/ \E k \in Key : m[k] = e

\* What a request inside Acquire or Release works on.
ReqInv ==
    \A r \in Req :
        /\ pc[r] = "idle" <=> ent[r] = NoEntry
        /\ ent[r] # NoEntry => state[ent[r]] # "free"

\* The evicting Acquire is alone, and its victim is active and unmapped.
VictimInv ==
    /\ \A r \in Req : pc[r] \in {"evict", "mark"} => victim # NoEntry
    /\ \A r, q \in Req :
         pc[r] \in {"evict", "mark"} /\ pc[q] \in {"evict", "mark"} => r = q
    /\ victim # NoEntry => state[victim] = "active" /\ \A k \in Key : m[k] # victim

\* What a drain that is over, or asleep, has seen.
DrainInv ==
    \A e \in Entry :
        /\ closer[e] \in {"exit", "close", "done"} => refs[e] = 0 \/ expired[e]
        /\ closer[e] \in {"deadline", "waiting"} /\ refs[e] = 0 =>
             \E r \in Req : ent[r] = e /\ pc[r] \in {"load", "cast"}

IInv ==
    /\ TypeOK /\ RefsCountHandles /\ MapMirrorsLRU /\ MappedAreActive
    /\ LifeInv /\ ReqInv /\ VictimInv /\ DrainInv

==============================================================================
