------------------------------ MODULE BatchCheck -------------------------------
(***************************************************************************)
(* Batched checks: the transports' batch handlers, the handler's           *)
(* CheckLimitBatch (core/handler.go), the planner with its slice pools     *)
(* (core/batchplanner.go), the limiter's AllowBatch (core/limiter.go) and  *)
(* the pipeline of the in-memory Redis.                                    *)
(*                                                                         *)
(* A slab stands for the three slices (indexes, keys, costs) of one group, *)
(* which come from three pools that are used alike.  The key buffers, the  *)
(* rule cache, the limiter pool and the algorithms have modules of their   *)
(* own: here a lookup or an Acquire may fail, and a decision is who made   *)
(* it and for which key and cost.                                          *)
(***************************************************************************)
EXTENDS Integers, Sequences, FiniteSets

CONSTANTS
    Batch,       \* concurrent callers
    Request,     \* requests: records with target (tenant and resource), user,
                 \* cost, and complete (no field is empty)
    NilRequest,  \* a missing item; only gRPC can deliver one
    Batches,     \* the batches callers send: sequences of requests
    Slab

ASSUME BatchAssumption ==
    /\ NilRequest \notin Request
    /\ Batches \subseteq Seq(Request \cup {NilRequest})

VARIABLES
    draining,    \* the in-flight tracker has been closed
    bpc,         \* where each caller is in CheckLimitBatch
    reqs,        \* its requests
    plan,        \* its plan: one slab per group, in the order of the groups
    slab,        \* what each slab holds
    group,       \* the group in work
    decisions,   \* what AllowBatch returned for it
    resp,        \* the responses so far
    ledger       \* history: what this batch has charged, in order

vars == <<draining, bpc, reqs, plan, slab, group, decisions, resp, ledger>>

Init ==
    /\ draining = FALSE
    /\ bpc = [b \in Batch |-> "idle"]
    /\ reqs = [b \in Batch |-> <<>>]
    /\ plan = [b \in Batch |-> <<>>]
    /\ slab = [s \in Slab |-> <<>>]
    /\ group = [b \in Batch |-> 0]
    /\ decisions = [b \in Batch |-> <<>>]
    /\ resp = [b \in Batch |-> <<>>]
    /\ ledger = [b \in Batch |-> <<>>]

Goto(b, label) == bpc' = [bpc EXCEPT ![b] = label]

\* The slab and the content of the group in work.
Work(b) == plan[b][group[b]]
Items(b) == slab[Work(b)]

\* The ErrorCode of a request in which nothing is wrong.
NoError == ""

\* A response: reset by the pool's Get and given an error code, or a decision.
Coded(code) == [code |-> code, by |-> "none", key |-> <<>>, cost |-> 0]
Decided(by, key, cost) == [code |-> NoError, by |-> by, key |-> key, cost |-> cost]

------------------------------------------------------------------------------
(* Planning *)

Validate(q) ==
    IF q = NilRequest \/ ~q.complete THEN "INVALID_REQUEST"
    ELSE IF q.cost <= 0 THEN "INVALID_COST" ELSE NoError

\* The n-th element of a set of numbers in increasing order.
Nth(S, n) == CHOOSE i \in S : Cardinality({j \in S : j <= i}) = n

\* Plan: valid requests grouped by tenant and resource; groups in the order
\* of their first request, requests of a group in the order of the batch.
\* Keys are filled in later.
Valid(rs) == {i \in DOMAIN rs : Validate(rs[i]) = NoError}
SameGroup(rs, i) == {j \in Valid(rs) : rs[j].target = rs[i].target}
First(rs) == {i \in Valid(rs) : \A j \in SameGroup(rs, i) : i <= j}
Grouped(rs) ==
    [n \in 1..Cardinality(First(rs)) |->
       LET same == SameGroup(rs, Nth(First(rs), n))
       IN [m \in 1..Cardinality(same) |->
             LET i == Nth(same, m) IN [idx |-> i, key |-> <<>>, cost |-> rs[i].cost]]]

Held == UNION {{plan[b][n] : n \in DOMAIN plan[b]} : b \in Batch}

\* Mutant: a slab is handed out while another plan still uses it, as when
\* Release was not deferred to the end.
Free_All == Slab

\* The slices Get may return: sync.Pool keeps or drops what was put, so any
\* slab that no plan holds, or a new one.
Free == Slab \ Held

\* CheckLimitBatch up to its loop: validation, plan, and the responses of
\* invalid requests.
Start(b, rs) ==
    /\ bpc[b] = "idle" /\ rs # <<>> /\ ~draining
    /\ reqs' = [reqs EXCEPT ![b] = rs]
    /\ resp' = [resp EXCEPT ![b] = [i \in DOMAIN rs |-> Coded(Validate(rs[i]))]]
    /\ \E p \in [1..Len(Grouped(rs)) -> Free] :
         /\ \A m, n \in DOMAIN p : m # n => p[m] # p[n]
         /\ plan' = [plan EXCEPT ![b] = p]
         /\ slab' = [s \in Slab |->
                       IF \E n \in DOMAIN p : p[n] = s
                       THEN Grouped(rs)[CHOOSE n \in DOMAIN p : p[n] = s]
                       ELSE slab[s]]
    /\ group' = [group EXCEPT ![b] = 1]
    /\ Goto(b, "group")
    /\ UNCHANGED <<draining, decisions, ledger>>

\* While draining a batch is refused with LIMITER_UNAVAILABLE, which both
\* transports report as an internal error; an empty batch never gets that far.
Refuse(b, rs) ==
    /\ bpc[b] = "idle" /\ draining /\ rs # <<>>
    /\ reqs' = [reqs EXCEPT ![b] = rs]
    /\ Goto(b, "refused")
    /\ UNCHANGED <<draining, plan, slab, group, decisions, resp, ledger>>

------------------------------------------------------------------------------
(* One group *)

NextGroup(b) ==
    /\ group' = [group EXCEPT ![b] = @ + 1]
    /\ Goto(b, "group")

\* No rule, no limiter: the whole group is answered with a code.
GroupFails(b) ==
    /\ bpc[b] = "group" /\ group[b] <= Len(plan[b])
    /\ \E code \in {"RULE_NOT_FOUND", "LIMITER_UNAVAILABLE"} :
         resp' = [resp EXCEPT ![b] =
           [i \in DOMAIN @ |->
              IF \E m \in DOMAIN Items(b) : Items(b)[m].idx = i
              THEN Coded(code) ELSE @[i]]]
    /\ NextGroup(b)
    /\ UNCHANGED <<draining, reqs, plan, slab, decisions, ledger>>

\* The keys of a group, skipping what is not a valid request.
WithKeys(rs, items) ==
    [m \in DOMAIN items |->
       LET q == rs[items[m].idx]
       IN IF Validate(q) # NoError THEN items[m]
          ELSE [items[m] EXCEPT !.key = <<q.target, q.user>>]]

\* With a handle from the pool.
BuildKeys(b) ==
    /\ bpc[b] = "group" /\ group[b] <= Len(plan[b])
    /\ slab' = [slab EXCEPT ![Work(b)] = WithKeys(reqs[b], @)]
    /\ Goto(b, "allow")
    /\ UNCHANGED <<draining, reqs, plan, group, decisions, resp, ledger>>

Charge(store, items) == [m \in DOMAIN items |-> [store |-> store, item |-> items[m]]]
DecisionsBy(store, items) ==
    [m \in DOMAIN items |-> Decided(store, items[m].key, items[m].cost)]

\* Mutant: a pipeline that failed is run again before the fallback is used.
Pipeline_Retried(b, n) ==
    /\ IF n = Len(Items(b))
       THEN /\ decisions' = [decisions EXCEPT ![b] = DecisionsBy("redis", Items(b))]
            /\ Goto(b, "respond")
       ELSE UNCHANGED <<decisions, bpc>>
    /\ ledger' = [ledger EXCEPT ![b] = @ \o Charge("redis", SubSeq(Items(b), 1, n))]

\* Pipeline and Exec, which holds the lock of Redis throughout.  The health
\* flag is read per operation: it may turn after n of them, and then the
\* caller gets an error and no decision for the n that were charged.
Pipeline(b, n) ==
    /\ IF n = Len(Items(b))
       THEN /\ decisions' = [decisions EXCEPT ![b] = DecisionsBy("redis", Items(b))]
            /\ Goto(b, "respond")
       ELSE UNCHANGED decisions /\ Goto(b, "fallback")
    /\ ledger' = [ledger EXCEPT ![b] = @ \o Charge("redis", SubSeq(Items(b), 1, n))]

\* AllowBatch in emergency mode, or when the breaker refuses.
SkipRedis(b) ==
    /\ bpc[b] = "allow"
    /\ Goto(b, "fallback")
    /\ UNCHANGED <<draining, reqs, plan, slab, group, decisions, resp, ledger>>

AllowRedis(b) ==
    /\ bpc[b] = "allow"
    /\ \E n \in 0..Len(Items(b)) : Pipeline(b, n)
    /\ UNCHANGED <<draining, reqs, plan, slab, group, resp>>

\* fallbackDecisions: every item again, also those Redis has charged.
AllowFallback(b) ==
    /\ bpc[b] = "fallback"
    /\ decisions' = [decisions EXCEPT ![b] = DecisionsBy("fallback", Items(b))]
    /\ ledger' = [ledger EXCEPT ![b] = @ \o Charge("fallback", Items(b))]
    /\ Goto(b, "respond")
    /\ UNCHANGED <<draining, reqs, plan, slab, group, resp>>

\* Decision m of the group goes to the response at the group's index m; then
\* the keys and the handle are released.
RespondGroup(b) ==
    /\ bpc[b] = "respond"
    /\ resp' = [resp EXCEPT ![b] =
         [i \in DOMAIN @ |->
            LET at == {m \in DOMAIN decisions[b] :
                         m \in DOMAIN Items(b) /\ Items(b)[m].idx = i}
            IN IF at = {} THEN @[i] ELSE decisions[b][CHOOSE m \in at : TRUE]]]
    /\ decisions' = [decisions EXCEPT ![b] = <<>>]
    /\ NextGroup(b)
    /\ UNCHANGED <<draining, reqs, plan, slab, ledger>>

------------------------------------------------------------------------------

\* Release(plan): the slices go back at length 0; the responses go to the
\* transport.
Finish(b) ==
    /\ bpc[b] = "group" /\ group[b] > Len(plan[b])
    /\ slab' = [s \in Slab |-> IF \E n \in DOMAIN plan[b] : plan[b][n] = s
                               THEN <<>> ELSE slab[s]]
    /\ plan' = [plan EXCEPT ![b] = <<>>]
    /\ Goto(b, "done")
    /\ UNCHANGED <<draining, reqs, group, decisions, resp, ledger>>

\* The transport has replied.
Reply(b) ==
    /\ bpc[b] \in {"done", "refused"}
    /\ reqs' = [reqs EXCEPT ![b] = <<>>]
    /\ group' = [group EXCEPT ![b] = 0]
    /\ resp' = [resp EXCEPT ![b] = <<>>]
    /\ ledger' = [ledger EXCEPT ![b] = <<>>]
    /\ Goto(b, "idle")
    /\ UNCHANGED <<draining, plan, slab, decisions>>

CloseInFlight == draining' = TRUE
              /\ UNCHANGED <<bpc, reqs, plan, slab, group, decisions, resp, ledger>>

Next ==
    \/ \E b \in Batch :
         \/ \E rs \in Batches : Start(b, rs) \/ Refuse(b, rs)
         \/ GroupFails(b) \/ BuildKeys(b) \/ SkipRedis(b) \/ AllowRedis(b)
         \/ AllowFallback(b) \/ RespondGroup(b) \/ Finish(b) \/ Reply(b)
    \/ CloseInFlight

Spec == Init /\ [][Next]_vars

------------------------------------------------------------------------------
(* Properties *)

\* The position of an answer: response i is about request i.  A request that
\* is invalid keeps its own code; a valid one gets a decision for its own key
\* and its own cost, or a code of its group, whatever the grouping, the other
\* batches in flight and the slices they reuse.
AnswersMatch ==
    \A b \in Batch : bpc[b] = "done" =>
        /\ Len(resp[b]) = Len(reqs[b])
        /\ \A i \in DOMAIN reqs[b] :
             LET q == reqs[b][i]
                 a == resp[b][i]
             IN \/ Validate(q) # NoError /\ a = Coded(Validate(q))
                \/ Validate(q) = NoError /\ a.code \in {"RULE_NOT_FOUND", "LIMITER_UNAVAILABLE"}
                \/ /\ Validate(q) = NoError /\ a.code = NoError
                   /\ a.key = <<q.target, q.user>> /\ a.cost = q.cost

Charges(b, store, i) ==
    {n \in DOMAIN ledger[b] : /\ ledger[b][n].store = store
                              /\ ledger[b][n].item.idx = i}

\* What a batch has charged when it replies: a request answered by Redis was
\* charged there once and nowhere else; one answered by the fallback once
\* there, and at most once more in Redis, by a pipeline that failed after it;
\* one that got a code was charged nothing.
ChargedAsAnswered ==
    \A b \in Batch : bpc[b] = "done" =>
        \A i \in DOMAIN reqs[b] :
            LET redis == Cardinality(Charges(b, "redis", i))
                fallback == Cardinality(Charges(b, "fallback", i))
            IN IF resp[b][i].code # NoError THEN redis = 0 /\ fallback = 0
               ELSE IF resp[b][i].by = "redis" THEN redis = 1 /\ fallback = 0
               ELSE redis <= 1 /\ fallback = 1

------------------------------------------------------------------------------
(* The inductive invariant of the proofs. *)

KeyType == {<<>>} \cup {<<q.target, q.user>> : q \in Request}
CostType == {0} \cup {q.cost : q \in Request}
Item == [idx : Nat, key : KeyType, cost : CostType]
Response ==
    [code : {NoError, "INVALID_REQUEST", "INVALID_COST", "RULE_NOT_FOUND", "LIMITER_UNAVAILABLE"},
     by : {"none", "redis", "fallback"}, key : KeyType, cost : CostType]

Charged == [store : {"redis", "fallback"}, item : Item]

BatchTypeOK ==
    /\ bpc \in [Batch -> {"idle", "group", "allow", "fallback", "respond", "done", "refused"}]
    /\ reqs \in [Batch -> Seq(Request \cup {NilRequest})]
    /\ plan \in [Batch -> Seq(Slab)]
    /\ slab \in [Slab -> Seq(Item)]
    /\ group \in [Batch -> Nat]
    /\ decisions \in [Batch -> Seq(Response)]
    /\ resp \in [Batch -> Seq(Response)]
    /\ ledger \in [Batch -> Seq(Charged)]

Working(b) == bpc[b] \in {"group", "allow", "fallback", "respond"}
Groups(b) == Grouped(reqs[b])
InWork(b) == WithKeys(reqs[b], Groups(b)[group[b]])

\* A slab belongs to one group of one plan.
SlabsApart ==
    /\ \A b \in Batch : ~Working(b) => plan[b] = <<>>
    /\ \A b \in Batch : \A m, n \in DOMAIN plan[b] : plan[b][m] = plan[b][n] => m = n
    /\ \A b, c \in Batch : b # c =>
         \A m \in DOMAIN plan[b], n \in DOMAIN plan[c] : plan[b][m] # plan[c][n]

\* The slabs of the groups still to do hold what the planner put there, and
\* that of the group in work its keys as well, once the limiter is there.
PlanIntact(b) ==
    Working(b) =>
        /\ Len(plan[b]) = Len(Groups(b))
        /\ group[b] \in 1..(Len(plan[b]) + 1)
        /\ bpc[b] # "group" => group[b] <= Len(plan[b]) /\ Items(b) = InWork(b)
        /\ \A n \in DOMAIN plan[b] :
             (n > group[b] \/ (n = group[b] /\ bpc[b] = "group")) =>
                 slab[plan[b][n]] = Groups(b)[n]

\* Request i is in group n.
InGroup(rs, i, n) == \E m \in DOMAIN Grouped(rs)[n] : Grouped(rs)[n][m].idx = i

\* What request i has been charged if its answer is by's.
Once(S) == \E x \in S : S = {x}
ChargedBy(b, i, by) ==
    /\ by # "fallback" => Charges(b, "fallback", i) = {}
    /\ by = "none" => Charges(b, "redis", i) = {}
    /\ by = "redis" => Once(Charges(b, "redis", i))
    /\ by = "failed" => Charges(b, "redis", i) = {} \/ Once(Charges(b, "redis", i))
    /\ by = "fallback" => /\ Charges(b, "redis", i) = {} \/ Once(Charges(b, "redis", i))
                          /\ Once(Charges(b, "fallback", i))

\* The answer of request i in a group that is done, with the charges for it.
Settled(b, i) ==
    LET q == reqs[b][i]
        a == resp[b][i]
    IN \/ /\ a.code \in {"RULE_NOT_FOUND", "LIMITER_UNAVAILABLE"}
          /\ ChargedBy(b, i, "none")
       \/ /\ a.code = NoError /\ a.by \in {"redis", "fallback"}
          /\ a.key = <<q.target, q.user>> /\ a.cost = q.cost
          /\ ChargedBy(b, i, a.by)

\* Where request i of a batch stands: invalid, settled, in work or still to do.
Standing(b, i) ==
    /\ Validate(reqs[b][i]) # NoError =>
         resp[b][i] = Coded(Validate(reqs[b][i])) /\ ChargedBy(b, i, "none")
    /\ \A n \in DOMAIN Groups(b) : InGroup(reqs[b], i, n) =>
         /\ n < group[b] => Settled(b, i)
         /\ n > group[b] => ChargedBy(b, i, "none")
         /\ n = group[b] =>
              /\ bpc[b] \in {"group", "allow"} => ChargedBy(b, i, "none")
              /\ bpc[b] = "fallback" => ChargedBy(b, i, "failed")
              /\ bpc[b] = "respond" =>
                   \A m \in DOMAIN decisions[b] : ChargedBy(b, i, decisions[b][m].by)

Progress(b) ==
    /\ bpc[b] = "idle" => ledger[b] = <<>>
    /\ bpc[b] = "done" => group[b] = Len(Groups(b)) + 1
    /\ bpc[b] = "respond" =>
         \E by \in {"redis", "fallback"} : decisions[b] = DecisionsBy(by, InWork(b))
    /\ Working(b) \/ bpc[b] = "done" =>
         /\ DOMAIN resp[b] = DOMAIN reqs[b]
         /\ \A i \in DOMAIN reqs[b] : Standing(b, i)

BatchIInv ==
    /\ BatchTypeOK /\ SlabsApart
    /\ \A b \in Batch : PlanIntact(b) /\ Progress(b)

==============================================================================
