--------------------------- MODULE RulePropagation ---------------------------
(***************************************************************************)
(* How one rule travels from an admin write to the limiters that enforce   *)
(* it, on several instances that share a rule database, an outbox and a    *)
(* pub/sub channel:                                                        *)
(*                                                                         *)
(*   AdminHandler      db write, then own cache, then outbox row           *)
(*   OutboxPublisher   fetch a batch, publish each row, mark it sent       *)
(*   InMemoryPubSub    one handler goroutine per subscriber per message    *)
(*   CacheInvalidator  re-read the rule, update the cache, cut the pool    *)
(*                     over                                                *)
(*   CacheSyncWorker   load everything, replace the cache                  *)
(*   LimiterPool       read the rule, then find or build the limiter       *)
(*                                                                         *)
(* Every arrow between two calls above is a place where other goroutines   *)
(* and other instances run.  Rules of different tenants or resources never *)
(* meet in this path, so one is enough.  A call that the database rejects  *)
(* changes nothing and is not a step.                                      *)
(***************************************************************************)
EXTENDS Integers, Sequences, FiniteSets

CONSTANTS
    Node,         \* application instances whose caches and pools are followed
    AdminNode,    \* instances that take admin calls, these or others
    Publisher,    \* OutboxPublisher loops: one per instance, these or others
    Admin,        \* admin requests
    Request,      \* rate-limit requests
    MaxWrites,    \* bound: admin calls that get past the database
    BatchLimit    \* FetchPending's limit (100 in the code)

ASSUME PropagationAssumption ==
    /\ IsFiniteSet(Node) /\ IsFiniteSet(Publisher)
    /\ MaxWrites \in Nat
    /\ BatchLimit \in Nat \ {0}

VARIABLES
    db,         \* the rule in RuleDB
    gens,       \* history: how often the rule has been created
    writes,     \* admin calls so far, capped by MaxWrites
    cache,      \* each instance's RuleCache
    up,         \* instances whose Start has filled the cache
    snap,       \* what LoadAll returned and ReplaceAll has not stored yet
    admin,      \* where each admin request is
    outbox,     \* InMemoryOutbox.entries
    batch,      \* rows each publisher has fetched and not dealt with
    marking,    \* publishers that have published their row, not marked it
    subs,       \* instances subscribed to the channel
    handlers,   \* CacheInvalidator.handle goroutines
    handled,    \* history: <<instance, row>> of handlers that have returned
    pool,       \* the rule that each pool's mapped limiter was built from
    late,       \* history: that limiter was built from a rule read before a
                \* Cutover and mapped after it
    req,        \* where each rate-limit request is
    regressed   \* history: instances where a full sync went back in time

store     == <<db, gens, writes>>
caches    == <<cache, up, snap, regressed>>
messages  == <<outbox, batch, marking, subs>>
consumers == <<handlers, handled>>
pools     == <<pool, late, req>>

vars == <<store, caches, messages, consumers, pools, admin>>

\* A version of the rule has two fields.  gen, the lifetime it belongs to, is
\* history: the code sees ver alone, which starts again at 1 after a delete.
\* No rule has version 0, which lets "absent" satisfy both version guards.
NoRule == [gen |-> 0, ver |-> 0]

NoSnapshot == [loaded |-> FALSE, rule |-> NoRule]

Idle == [pc |-> "idle"]

Init ==
    /\ db = NoRule /\ gens = 0 /\ writes = 0
    /\ cache = [n \in Node |-> NoRule]
    /\ up = {} /\ regressed = {}
    /\ snap = [n \in Node |-> NoSnapshot]
    /\ admin = [a \in Admin |-> Idle]
    /\ outbox = << >>
    /\ batch = [p \in Publisher |-> {}] /\ marking = {}
    /\ subs = {} /\ handlers = {} /\ handled = {}
    /\ pool = [n \in Node |-> NoRule] /\ late = {}
    /\ req = [r \in Request |-> Idle]

------------------------------------------------------------------------------
(* RuleCache *)

\* Mutant: the last writer wins, whatever its version.
UpsertIfNewer_Always(existing, rule) == rule

UpsertIfNewer(existing, rule) ==
    IF rule.ver > existing.ver THEN rule ELSE existing

DeleteIfOlderOrEqual(existing, version) ==
    IF existing.ver <= version THEN NoRule ELSE existing

------------------------------------------------------------------------------
(* AdminHandler.  The database call commits; the rest follows later. *)

Committed(a, n, act, rule) ==
    /\ n \in Node => n \in up
    /\ admin[a] = Idle
    /\ writes < MaxWrites
    /\ writes' = writes + 1
    /\ admin' = [admin EXCEPT ![a] =
                   [pc |-> "cache", node |-> n, act |-> act, rule |-> rule]]
    /\ UNCHANGED <<caches, messages, consumers, pools>>

CreateRule(a, n) ==
    /\ db = NoRule
    /\ db' = [gen |-> gens + 1, ver |-> 1]
    /\ gens' = gens + 1
    /\ Committed(a, n, "upsert", db')

\* A create repeated with its idempotency key: the database returns the rule
\* as it is now, and the handler announces it again.
ReplayCreate(a, n) ==
    /\ gens > 0 /\ db # NoRule
    /\ Committed(a, n, "upsert", db)
    /\ UNCHANGED <<db, gens>>

\* The caller's expected version is the current one.
UpdateRule(a, n) ==
    /\ db # NoRule
    /\ db' = [db EXCEPT !.ver = @ + 1]
    /\ Committed(a, n, "upsert", db')
    /\ UNCHANGED gens

DeleteRule(a, n) ==
    /\ db # NoRule
    /\ db' = NoRule
    /\ Committed(a, n, "delete", db)
    /\ UNCHANGED gens

\* The instance that took the call updates its own cache.
AdminCache(a) ==
    /\ admin[a].pc = "cache"
    /\ cache' = [n \in Node |->
         CASE n # admin[a].node -> cache[n]
           [] n = admin[a].node /\ admin[a].act = "upsert" ->
                UpsertIfNewer(cache[n], admin[a].rule)
           [] n = admin[a].node /\ admin[a].act = "delete" ->
                DeleteIfOlderOrEqual(cache[n], admin[a].rule.ver)]
    /\ admin' = [admin EXCEPT ![a].pc = "emit"]
    /\ UNCHANGED <<store, up, snap, regressed, messages, consumers, pools>>

\* emitInvalidation: append the row.  `to' is history: who is listening now.
AdminEmit(a) ==
    /\ admin[a].pc = "emit"
    /\ outbox' = Append(outbox, [act |-> admin[a].act, ver |-> admin[a].rule.ver,
                                 sent |-> FALSE, to |-> subs])
    /\ admin' = [admin EXCEPT ![a] = Idle]
    /\ UNCHANGED <<store, caches, batch, marking, subs, consumers, pools>>

\* The insert fails.  The caller gets the error, but the write stands and
\* nobody announces it.
AdminEmitFails(a) ==
    /\ admin[a].pc = "emit"
    /\ admin' = [admin EXCEPT ![a] = Idle]
    /\ UNCHANGED <<store, caches, messages, consumers, pools>>

------------------------------------------------------------------------------
(* OutboxPublisher and PubSub *)

Pending == {i \in DOMAIN outbox : ~outbox[i].sent}

\* The oldest unsent rows, at most BatchLimit of them.
FetchPending(p) ==
    /\ batch[p] = {} /\ Pending # {}
    /\ batch' = [batch EXCEPT ![p] =
         {i \in Pending : Cardinality({j \in Pending : j <= i}) <= BatchLimit}]
    /\ UNCHANGED <<store, caches, outbox, marking, subs, consumers, pools, admin>>

\* The row that publisher p is at.
IsHead(p, i) == i \in batch[p] /\ \A j \in batch[p] : i <= j

\* One goroutine per current subscriber.  `by' tells duplicates apart: each
\* publisher delivers a row once.
Publish(p, i) ==
    /\ IsHead(p, i) /\ p \notin marking
    /\ handlers' = handlers \cup
         {[node |-> m, by |-> p, row |-> i, rule |-> NoRule,
           pc |-> IF outbox[i].act = "delete" THEN "drop" ELSE "get"] : m \in subs}
    /\ marking' = marking \cup {p}
    /\ UNCHANGED <<store, caches, outbox, batch, subs, handled, pools, admin>>

\* Mutant: a row is marked sent even though Publish returned an error.
PublishFails_MarksSent(p, i) ==
    /\ IsHead(p, i) /\ p \notin marking
    /\ outbox' = [outbox EXCEPT ![i].sent = TRUE]
    /\ batch' = [batch EXCEPT ![p] = @ \ {i}]
    /\ UNCHANGED <<store, caches, marking, subs, consumers, pools, admin>>

\* Publish returned an error: the row stays pending for a later batch.
PublishFails(p, i) ==
    /\ IsHead(p, i) /\ p \notin marking
    /\ batch' = [batch EXCEPT ![p] = @ \ {i}]
    /\ UNCHANGED <<store, caches, outbox, marking, subs, consumers, pools, admin>>

MarkSent(p, i) ==
    /\ IsHead(p, i) /\ p \in marking
    /\ outbox' = [outbox EXCEPT ![i].sent = TRUE]
    /\ batch' = [batch EXCEPT ![p] = @ \ {i}]
    /\ marking' = marking \ {p}
    /\ UNCHANGED <<store, caches, subs, consumers, pools, admin>>

Subscribe(n) ==
    /\ n \in up \ subs
    /\ subs' = subs \cup {n}
    /\ UNCHANGED <<store, caches, outbox, batch, marking, consumers, pools, admin>>

------------------------------------------------------------------------------
(* CacheInvalidator.handle *)

Becomes(h, g) == handlers' = (handlers \ {h}) \cup {g}

\* delete: drop the cached rule unless it is newer.
HandleDrop(h) ==
    /\ h.pc = "drop"
    /\ cache' = [cache EXCEPT ![h.node] =
                   DeleteIfOlderOrEqual(@, outbox[h.row].ver)]
    /\ Becomes(h, [h EXCEPT !.pc = "cutover"])
    /\ UNCHANGED <<store, up, snap, regressed, messages, handled, pools, admin>>

\* upsert: re-read the rule.  If it is gone there is nothing to store.
HandleGet(h) ==
    /\ h.pc = "get"
    /\ Becomes(h, IF db = NoRule
                    THEN [h EXCEPT !.pc = "cutover"]
                    ELSE [h EXCEPT !.pc = "upsert", !.rule = db])
    /\ UNCHANGED <<store, caches, messages, handled, pools, admin>>

HandleUpsert(h) ==
    /\ h.pc = "upsert"
    /\ cache' = [cache EXCEPT ![h.node] = UpsertIfNewer(@, h.rule)]
    /\ Becomes(h, [h EXCEPT !.pc = "cutover"])
    /\ UNCHANGED <<store, up, snap, regressed, messages, handled, pools, admin>>

\* Mutant: the handler refreshes the cache and leaves the pool alone.
HandleCutover_NoCut(h) ==
    /\ h.pc = "cutover"
    /\ handlers' = handlers \ {h}
    /\ handled' = handled \cup {<<h.node, h.row>>}
    /\ UNCHANGED <<store, caches, messages, pools, admin>>

\* Cutover unmaps whatever limiter is there; LimiterPool has what follows.
HandleCutover(h) ==
    /\ h.pc = "cutover"
    /\ pool' = [pool EXCEPT ![h.node] = NoRule]
    /\ late' = late \ {h.node}
    /\ req' = [r \in Request |->
                 IF req[r].pc = "read" /\ req[r].node = h.node
                   THEN [req[r] EXCEPT !.crossed = TRUE] ELSE req[r]]
    /\ handlers' = handlers \ {h}
    /\ handled' = handled \cup {<<h.node, h.row>>}
    /\ UNCHANGED <<store, caches, messages, admin>>

------------------------------------------------------------------------------
(* CacheSyncWorker.  Start's own LoadAll and ReplaceAll are the first round. *)

SyncLoad(n) ==
    /\ ~snap[n].loaded
    /\ snap' = [snap EXCEPT ![n] = [loaded |-> TRUE, rule |-> db]]
    /\ UNCHANGED <<store, cache, up, regressed, messages, consumers, pools, admin>>

\* Mutant: the sync merges what it loaded instead of replacing the cache.
SyncReplace_Merges(n) ==
    /\ snap[n].loaded
    /\ cache' = [cache EXCEPT ![n] = UpsertIfNewer(@, snap[n].rule)]
    /\ up' = up \cup {n}
    /\ snap' = [snap EXCEPT ![n] = NoSnapshot]
    /\ UNCHANGED <<store, regressed, messages, consumers, pools, admin>>

SyncReplace(n) ==
    /\ snap[n].loaded
    /\ cache' = [cache EXCEPT ![n] = snap[n].rule]
    /\ regressed' = IF snap[n].rule.ver < cache[n].ver
                      THEN regressed \cup {n} ELSE regressed
    /\ up' = up \cup {n}
    /\ snap' = [snap EXCEPT ![n] = NoSnapshot]
    /\ UNCHANGED <<store, messages, consumers, pools, admin>>

------------------------------------------------------------------------------
(* LimiterPool.Acquire *)

\* The cached rule is read before the shard is locked.
AcquireRead(r, n) ==
    /\ req[r] = Idle
    /\ n \in up /\ cache[n] # NoRule
    /\ req' = [req EXCEPT ![r] =
                 [pc |-> "read", node |-> n, rule |-> cache[n], crossed |-> FALSE]]
    /\ UNCHANGED <<store, caches, messages, consumers, pool, late, admin>>

\* A mapped limiter is used as it is, else one is built from the rule read.
AcquireLock(r) ==
    /\ req[r].pc = "read"
    /\ LET n == req[r].node IN
         IF pool[n] # NoRule
           THEN UNCHANGED <<pool, late>>
           ELSE /\ pool' = [pool EXCEPT ![n] = req[r].rule]
                /\ late' = IF req[r].crossed THEN late \cup {n} ELSE late
    /\ req' = [req EXCEPT ![r] = Idle]
    /\ UNCHANGED <<store, caches, messages, consumers, admin>>

\* Other keys push the limiter out of its shard.
Evict(n) ==
    /\ pool[n] # NoRule
    /\ pool' = [pool EXCEPT ![n] = NoRule]
    /\ late' = late \ {n}
    /\ UNCHANGED <<store, caches, messages, consumers, req, admin>>

------------------------------------------------------------------------------

AdminCall(a, n) ==
    CreateRule(a, n) \/ ReplayCreate(a, n) \/ UpdateRule(a, n) \/ DeleteRule(a, n)

AdminStep(a) == AdminCache(a) \/ AdminEmit(a) \/ AdminEmitFails(a)

PublisherStep(p) ==
    \/ FetchPending(p)
    \/ \E i \in batch[p] : Publish(p, i) \/ MarkSent(p, i)

HandlerStep(h) == HandleDrop(h) \/ HandleGet(h) \/ HandleUpsert(h) \/ HandleCutover(h)

SyncStep(n) == SyncLoad(n) \/ SyncReplace(n)

Next ==
    \/ \E a \in Admin : AdminStep(a) \/ \E n \in AdminNode : AdminCall(a, n)
    \/ \E p \in Publisher :
         PublisherStep(p) \/ \E i \in batch[p] : PublishFails(p, i)
    \/ \E n \in Node : Subscribe(n) \/ SyncStep(n) \/ Evict(n)
    \/ \E h \in handlers : HandlerStep(h)
    \/ \E r \in Request : AcquireLock(r) \/ \E n \in Node : AcquireRead(r, n)

Spec == Init /\ [][Next]_vars

\* Goroutines that can run are scheduled: admin calls that have committed
\* finish, handlers return, tickers fire.  Nobody has to write or to send
\* requests, and nothing obliges Publish to succeed: a publisher may fail for
\* ever.
Fairness ==
    /\ \A a \in Admin : WF_vars(AdminStep(a))
    /\ \A n \in Node : WF_vars(SyncStep(n)) /\ WF_vars(Subscribe(n))
    /\ WF_vars(\E h \in handlers : HandlerStep(h))
    /\ \A r \in Request : WF_vars(AcquireLock(r))

LiveSpec == Spec /\ Fairness

------------------------------------------------------------------------------
(* Properties *)

\* At-least-once delivery: a row is marked sent only when every instance that
\* was subscribed when the write was announced has handled it or is handling
\* it, with any number of publishers working on the same outbox and any of
\* their publishes failing.
AtLeastOnce ==
    \A i \in DOMAIN outbox : outbox[i].sent =>
        \A n \in outbox[i].to :
            \/ <<n, i>> \in handled
            \/ \E h \in handlers : h.node = n /\ h.row = i

\* The rule is still in its first lifetime.
NeverDeleted == db.gen = 1

\* While the rule has not been deleted and no full sync has stored an older
\* snapshot, a handled announcement leaves the cache at least as new as the
\* write it announces, in whatever order announcements and their duplicates
\* are handled: the handler re-reads the rule, and versions only go up.
EventsSuffice ==
    NeverDeleted =>
        \A n \in Node \ regressed : \A i \in DOMAIN outbox :
            <<n, i>> \in handled => cache[n].ver >= outbox[i].ver

\* Under the same conditions the pool follows: its limiter is at least as new
\* as every handled announcement, unless a request read the rule before a
\* Cutover and mapped its limiter after it.  This is what updating the cache
\* before cutting over is for.
PoolFollowsEvents ==
    NeverDeleted =>
        \A n \in Node \ (regressed \cup late) : \A i \in DOMAIN outbox :
            <<n, i>> \in handled /\ pool[n] # NoRule =>
                pool[n].ver >= outbox[i].ver

\* Once writes stop every instance's cache becomes and stays equal to the
\* database, whatever was lost, reordered or overtaken on the way.
CacheConverges == <>[](\A n \in up : cache[n] = db)

\* What docs/overview.md says of the pool: once Cutover has taken the old
\* limiter out, requests build one from the rule that was announced.
NewLimiterAfterCutover ==
    NeverDeleted =>
        \A n \in Node \ regressed : \A i \in DOMAIN outbox :
            <<n, i>> \in handled /\ pool[n] # NoRule => pool[n].ver >= outbox[i].ver

------------------------------------------------------------------------------
(* The inductive invariant of the proofs. *)

Version == [gen : Nat, ver : Nat]
Call == [pc : {"cache", "emit"}, node : AdminNode, act : {"upsert", "delete"},
         rule : Version]
Row == [act : {"upsert", "delete"}, ver : Nat, sent : BOOLEAN, to : SUBSET Node]
Handler == [node : Node, by : Publisher, row : Nat, rule : Version,
            pc : {"drop", "get", "upsert", "cutover"}]
Read == [pc : {"read"}, node : Node, rule : Version, crossed : BOOLEAN]

TypeOK ==
    /\ db \in Version /\ gens \in Nat /\ writes \in Nat
    /\ cache \in [Node -> Version] /\ up \subseteq Node /\ regressed \subseteq Node
    /\ snap \in [Node -> [loaded : BOOLEAN, rule : Version]]
    /\ admin \in [Admin -> {Idle} \cup Call]
    /\ outbox \in Seq(Row)
    /\ batch \in [Publisher -> SUBSET (DOMAIN outbox)]
    /\ marking \subseteq Publisher /\ subs \subseteq Node
    /\ handlers \subseteq {h \in Handler : h.row \in DOMAIN outbox}
    /\ handled \subseteq Node \X DOMAIN outbox
    /\ pool \in [Node -> Version] /\ late \subseteq Node
    /\ req \in [Request -> {Idle} \cup Read]

\* Instance n has handled row i, or is handling it.
Delivered(n, i) ==
    \/ <<n, i>> \in handled
    \/ \E h \in handlers : h.node = n /\ h.row = i

\* A publisher about to mark a row sent has delivered it, to subscribers who
\* stay subscribed.
PublishedIsDelivered ==
    /\ \A i \in DOMAIN outbox : outbox[i].to \subseteq subs
    /\ \A p \in marking :
         \E i \in batch[p] : IsHead(p, i) /\ \A n \in outbox[i].to : Delivered(n, i)

\* Lifetimes are numbered: the first rule is number 1, and before it there is
\* nothing to announce, to handle or to cache.
LifetimeInv ==
    /\ db # NoRule => db.gen = gens /\ gens > 0
    /\ gens = 0 => /\ outbox = << >> /\ handlers = {} /\ handled = {}
                   /\ \A a \in Admin : admin[a] = Idle

\* In the first lifetime nothing announces a deletion, and no announcement is
\* ahead of the database.
AnnouncedInv ==
    NeverDeleted =>
        /\ \A a \in Admin : admin[a] # Idle =>
             admin[a].act = "upsert" /\ admin[a].rule.ver <= db.ver
        /\ \A i \in DOMAIN outbox : outbox[i].act = "upsert" /\ outbox[i].ver <= db.ver

\* A handler holds a rule no older than its row, and then so does the cache.
HandlerInv ==
    NeverDeleted =>
        \A h \in handlers :
            /\ h.pc # "drop"
            /\ h.pc = "upsert" => h.rule.ver >= outbox[h.row].ver
            /\ h.pc = "cutover" /\ h.node \notin regressed =>
                 cache[h.node].ver >= outbox[h.row].ver

\* So does a request that read the cache after the last Cutover.
ReadInv ==
    NeverDeleted =>
        \A r \in Request : req[r] # Idle =>
            (~req[r].crossed /\ req[r].node \notin regressed =>
               \A i \in DOMAIN outbox :
                   <<req[r].node, i>> \in handled => req[r].rule.ver >= outbox[i].ver)

IInv ==
    /\ TypeOK /\ PublishedIsDelivered /\ AtLeastOnce
    /\ LifetimeInv /\ AnnouncedInv /\ HandlerInv /\ EventsSuffice
    /\ ReadInv /\ PoolFollowsEvents

==============================================================================
