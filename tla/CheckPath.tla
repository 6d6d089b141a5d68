------------------------------- MODULE CheckPath -------------------------------
(***************************************************************************)
(* One rate-limit check from the transport to the reply: the HTTP and gRPC *)
(* handlers, RateLimitHandler.CheckLimit (core/handler.go), the limiter's  *)
(* Allow (core/limiter.go), the key buffers (core/keybuilder.go and        *)
(* core/bytepool.go) and the coalescer, which is module Coalescer.         *)
(*                                                                         *)
(* Left to their own modules and reduced to what CheckLimit sees of them:  *)
(* the in-flight tracker (a set and a closed bit), the rule cache and the  *)
(* limiter pool (what they hold for the resource), the breaker and the     *)
(* mode (either may send a call to the fallback).  A request is for a user *)
(* of one tenant and resource at one cost: users are the coalescing keys.  *)
(***************************************************************************)
EXTENDS Coalescer, Naturals

CONSTANTS
    Buffer,      \* byte buffers of the key pool
    NoBuffer

ASSUME CheckPathAssumption ==
    /\ Decision = {"redis", "fallback"}    \* who decided
    /\ NoBuffer \notin Buffer

VARIABLES
    closed,      \* the in-flight tracker has been closed
    inflight,    \* requests it counts
    rule,        \* the rule in the cache: none, good, or one whose algorithm
                 \* the factory refuses
    pooled,      \* the pool has a limiter
    hpc,         \* where each request is in CheckLimit
    user,        \* the user it is for
    looked,      \* the rule it read in Acquire
    handle,      \* it holds a handle of a limiter
    buf,         \* its key buffer
    bytes,       \* what each buffer holds
    bufPool,     \* how often each buffer is in the byte pool
    charged,     \* history: the key its own Allow has charged a store for
    reply        \* what CheckLimit returns: a decision or an error code

keyVars == <<buf, bytes, bufPool>>
requestVars == <<hpc, user, looked, handle, keyVars, charged, reply>>
vars == <<coalescerVars, closed, inflight, rule, pooled, requestVars>>

RuleStates == {"none", "good", "bad"}

Init ==
    /\ CoalescerInit
    /\ closed = FALSE /\ inflight = {}
    /\ rule \in RuleStates /\ pooled = FALSE
    /\ hpc = [r \in Caller |-> "idle"]
    /\ user = [r \in Caller |-> NoKey]
    /\ looked = [r \in Caller |-> "none"]
    /\ handle = [r \in Caller |-> FALSE]
    /\ buf = [r \in Caller |-> NoBuffer]
    /\ bytes = [b \in Buffer |-> NoKey]
    /\ bufPool = [b \in Buffer |-> 0]
    /\ charged = [r \in Caller |-> NoKey]
    /\ reply = [r \in Caller |-> "none"]

Goto(r, label) == hpc' = [hpc EXCEPT ![r] = label]
Answer(r, a) == reply' = [reply EXCEPT ![r] = a]

------------------------------------------------------------------------------
(* Up to the coalescer *)

\* A request that lacks a field, has a cost that is not positive, or arrives
\* after the tracker was closed is turned away here and changes nothing.
Begin(r, u) ==
    /\ hpc[r] = "idle" /\ ~closed
    /\ inflight' = inflight \cup {r}
    /\ user' = [user EXCEPT ![r] = u]
    /\ Goto(r, "rule")
    /\ UNCHANGED <<coalescerVars, closed, rule, pooled, looked, handle, keyVars,
                   charged, reply>>

\* Either transport passes on what is complete; HTTP's handleCheck checks that
\* itself, gRPC leaves it to CheckLimit.
handleCheck(r) == \E u \in CKey : Begin(r, u)

\* The first look at the rule cache.
GetRule(r) ==
    /\ hpc[r] = "rule"
    /\ IF rule = "none" THEN Answer(r, "RULE_NOT_FOUND") /\ Goto(r, "end")
                   ELSE Goto(r, "acquire") /\ UNCHANGED reply
    /\ UNCHANGED <<coalescerVars, closed, inflight, rule, pooled,
                   user, looked, handle, keyVars, charged>>

\* pool.Acquire looks the rule up again; it may be gone by now.
AcquireLookup(r) ==
    /\ hpc[r] = "acquire"
    /\ looked' = [looked EXCEPT ![r] = rule]
    /\ IF rule = "none" THEN Answer(r, "LIMITER_UNAVAILABLE") /\ Goto(r, "end")
                        ELSE Goto(r, "pool") /\ UNCHANGED reply
    /\ UNCHANGED <<coalescerVars, closed, inflight, rule, pooled,
                   user, handle, keyVars, charged>>

\* Under the shard's lock: the limiter in the pool, or a new one for the rule
\* that was looked up, unless the factory refuses that.
AcquireEntry(r) ==
    /\ hpc[r] = "pool"
    /\ looked' = [looked EXCEPT ![r] = "none"]
    /\ \/ /\ pooled \/ looked[r] = "good"
          /\ pooled' = TRUE
          /\ handle' = [handle EXCEPT ![r] = TRUE]
          /\ Goto(r, "key") /\ UNCHANGED reply
       \/ /\ ~pooled /\ looked[r] = "bad"
          /\ Answer(r, "LIMITER_UNAVAILABLE") /\ Goto(r, "end")
          /\ UNCHANGED <<pooled, handle>>
    /\ UNCHANGED <<coalescerVars, closed, inflight, rule,
                   user, keyVars, charged>>

\* bufPool.Get: a buffer the pool has, whoever else may still use it, or a new
\* one, which nobody has.
Get(b) ==
    \/ /\ bufPool[b] > 0
       /\ bufPool' = [bufPool EXCEPT ![b] = @ - 1]
    \/ /\ bufPool[b] = 0 /\ \A q \in Caller : buf[q] # b
       /\ UNCHANGED bufPool

\* bufPool.Put: the pool takes the buffer, or drops one that is too large or
\* that sync.Pool does not keep.
Put(b) ==
    \/ bufPool' = [bufPool EXCEPT ![b] = @ + 1]
    \/ UNCHANGED bufPool

\* BuildKey overwrites what the buffer held.
BuildKey(r) ==
    /\ hpc[r] = "key"
    /\ \E b \in Buffer :
         /\ Get(b)
         /\ buf' = [buf EXCEPT ![r] = b]
         /\ bytes' = [bytes EXCEPT ![b] = user[r]]
    /\ Goto(r, "do")
    /\ UNCHANGED <<coalescerVars, closed, inflight, rule, pooled,
                   user, looked, handle, charged, reply>>

------------------------------------------------------------------------------
(* In the coalescer *)

\* Mutant: once the coalescing key, a copy, is made the buffer goes back.
Do_ReleasesKey(r) ==
    /\ hpc[r] = "do"
    /\ DoJoin(r, bytes[buf[r]]) \/ DoLead(r, bytes[buf[r]])
    /\ Put(buf[r])
    /\ UNCHANGED <<closed, inflight, rule, pooled,
                   hpc, user, looked, handle, buf, bytes, charged, reply>>

\* coalescer.Do: join or lead.  The coalescing key is copied from the buffer.
Do(r) ==
    /\ hpc[r] = "do"
    /\ DoJoin(r, bytes[buf[r]]) \/ DoLead(r, bytes[buf[r]])
    /\ UNCHANGED <<closed, inflight, rule, pooled, requestVars>>

\* Allow in normal operation: Redis charges the key, which is still the
\* buffer, and decides.
AllowRedis(r) ==
    /\ cpc[r] = "fn"
    /\ charged' = [charged EXCEPT ![r] = bytes[buf[r]]]
    /\ FnReturn(r, "redis")
    /\ UNCHANGED <<closed, inflight, rule, pooled,
                   hpc, user, looked, handle, keyVars, reply>>

\* Allow in emergency mode, when the breaker refuses, or after an error of
\* Redis, which is unhealthy before it charges anything: fallbackDecision.
\* The error it returns beside the decision only says that it was used.
AllowFallback(r) ==
    /\ cpc[r] = "fn"
    /\ charged' = [charged EXCEPT ![r] = bytes[buf[r]]]
    /\ FnReturn(r, "fallback")
    /\ UNCHANGED <<closed, inflight, rule, pooled,
                   hpc, user, looked, handle, keyVars, reply>>

\* The steps of Do that touch only the coalescer.
DoStep(r) ==
    /\ Remove(r) \/ WaitDone(r)
    /\ UNCHANGED <<closed, inflight, rule, pooled, requestVars>>

\* The request timeout, or a client that goes away, ends a follower's wait.
WaitExpires(r) ==
    /\ WaitCtx(r)
    /\ UNCHANGED <<closed, inflight, rule, pooled, requestVars>>

------------------------------------------------------------------------------
(* The reply, then the deferred calls in reverse order *)

\* Mutant: the marker that the fallback was used is taken for a failure.
Respond_FallbackIsError(r) ==
    /\ Leave(r)
    /\ Answer(r, IF got[r] = "redis" THEN "decision" ELSE "LIMITER_ERROR")
    /\ Goto(r, "unkey")
    /\ UNCHANGED <<closed, inflight, rule, pooled,
                   user, looked, handle, keyVars, charged>>

\* A decision is passed on, whoever made it; a context that ended while
\* waiting is LIMITER_ERROR.
Respond(r) ==
    /\ Leave(r)
    /\ Answer(r, IF got[r] = CtxErr THEN "LIMITER_ERROR" ELSE "decision")
    /\ Goto(r, "unkey")
    /\ UNCHANGED <<closed, inflight, rule, pooled,
                   user, looked, handle, keyVars, charged>>

\* The buffer goes back to the pool; its bytes stay as they are.
ReleaseKey(r) ==
    /\ hpc[r] = "unkey"
    /\ Put(buf[r])
    /\ buf' = [buf EXCEPT ![r] = NoBuffer]
    /\ Goto(r, "unhandle")
    /\ UNCHANGED <<coalescerVars, closed, inflight, rule, pooled,
                   user, looked, handle, bytes, charged, reply>>

\* Mutant: the deferred calls run in the order they were written.
ReleaseHandle_AfterEnd(r) ==
    /\ hpc[r] = "unhandle"
    /\ inflight' = inflight \ {r}
    /\ Goto(r, "end")
    /\ UNCHANGED <<coalescerVars, closed, rule, pooled,
                   user, looked, handle, keyVars, charged, reply>>

ReleaseHandle(r) ==
    /\ hpc[r] = "unhandle"
    /\ handle' = [handle EXCEPT ![r] = FALSE]
    /\ Goto(r, "end")
    /\ UNCHANGED <<coalescerVars, closed, inflight, rule, pooled,
                   user, looked, keyVars, charged, reply>>

End(r) ==
    /\ hpc[r] = "end"
    /\ inflight' = inflight \ {r}
    /\ user' = [user EXCEPT ![r] = NoKey]
    /\ looked' = [looked EXCEPT ![r] = "none"]
    /\ charged' = [charged EXCEPT ![r] = NoKey]
    /\ Answer(r, "none")
    /\ Goto(r, "idle")
    /\ UNCHANGED <<coalescerVars, closed, rule, pooled, handle, keyVars>>

------------------------------------------------------------------------------
(* The rest of the process *)

\* An event or a full load replaces the rule in the cache, or removes it.
RuleChanges ==
    /\ rule' \in RuleStates
    /\ UNCHANGED <<coalescerVars, closed, inflight, pooled, requestVars>>

\* A cutover or an eviction takes the limiter out of the pool.
DropLimiter ==
    /\ pooled' = FALSE
    /\ UNCHANGED <<coalescerVars, closed, inflight, rule, requestVars>>

CloseInFlight ==
    /\ closed' = TRUE
    /\ UNCHANGED <<coalescerVars, inflight, rule, pooled, requestVars>>

Tick ==
    /\ \E k \in CKey : Expire(k)
    /\ UNCHANGED <<closed, inflight, rule, pooled, requestVars>>

RequestStep(r) ==
    \/ GetRule(r) \/ AcquireLookup(r) \/ AcquireEntry(r) \/ BuildKey(r)
    \/ Do(r) \/ AllowRedis(r) \/ AllowFallback(r) \/ DoStep(r)
    \/ Respond(r) \/ ReleaseKey(r) \/ ReleaseHandle(r) \/ End(r)

Next ==
    \/ \E r \in Caller : handleCheck(r) \/ RequestStep(r) \/ WaitExpires(r)
    \/ RuleChanges \/ DropLimiter \/ CloseInFlight \/ Tick

Spec == Init /\ [][Next]_vars

\* A request that has begun is scheduled.  No timeout has to strike.
LiveSpec == Spec /\ \A r \in Caller : WF_vars(RequestStep(r))

------------------------------------------------------------------------------
(* Properties *)

\* Nobody is charged for, or answered with, the check of another user, however
\* buffers go round through the pool: the key a call of Do is made with, which
\* decides whose decision it shares, and the key that Allow, run long after the
\* key was built, finds in the buffer and charges, are those of the request's
\* own user.
KeyIntact ==
    \A r \in Caller :
        /\ ent[r] # NoEntry => ckey[r] = user[r]
        /\ charged[r] # NoKey => charged[r] = user[r]

\* What the in-flight tracker counts covers what requests hold: a drained
\* tracker means that no handle, key buffer or coalescer entry is in use, on
\* every return path of CheckLimit.
InFlightCoversResources ==
    \A r \in Caller \ inflight :
        ~handle[r] /\ buf[r] = NoBuffer /\ ent[r] = NoEntry /\ hpc[r] = "idle"

\* Whoever charged a store gets the decision it paid for, whether Redis or the
\* fallback made it; LIMITER_ERROR and the other codes only reach requests that
\* charged nothing.
PaidIsAnswered ==
    \A r \in Caller :
        reply[r] # "none" /\ charged[r] # NoKey => reply[r] = "decision"

\* Every check that was let in is answered and leaves, also one that waits for
\* another request's decision, and without the help of its timeout.
EveryCheckReturns == \A r \in Caller : r \in inflight ~> r \notin inflight

------------------------------------------------------------------------------
(* The inductive invariant of the proofs. *)

RequestPCs == {"idle", "rule", "acquire", "pool", "key", "do", "unkey", "unhandle", "end"}
Replies == {"none", "decision", "RULE_NOT_FOUND", "LIMITER_UNAVAILABLE", "LIMITER_ERROR"}

CheckTypeOK ==
    /\ hpc \in [Caller -> RequestPCs] /\ inflight \subseteq Caller
    /\ user \in [Caller -> CKey \cup {NoKey}]
    /\ handle \in [Caller -> BOOLEAN]
    /\ buf \in [Caller -> Buffer \cup {NoBuffer}]
    /\ bytes \in [Buffer -> CKey \cup {NoKey}]
    /\ bufPool \in [Buffer -> Nat]
    /\ charged \in [Caller -> CKey \cup {NoKey}]
    /\ reply \in [Caller -> Replies]

\* What a request holds at each point of CheckLimit.
HoldsByPC ==
    \A r \in Caller :
        /\ r \in inflight <=> hpc[r] # "idle"
        /\ hpc[r] # "idle" => user[r] \in CKey
        /\ handle[r] => hpc[r] \in {"key", "do", "unkey", "unhandle"}
        /\ buf[r] # NoBuffer <=> hpc[r] \in {"do", "unkey"}
        /\ hpc[r] # "do" => cpc[r] = "out"

\* Only a leader charges, and what it returns with is not its context's error.
ChargedByPC ==
    \A r \in Caller :
        /\ charged[r] # NoKey => \/ hpc[r] = "do" /\ cpc[r] \in {"remove", "returned"}
                                \/ hpc[r] \in {"unkey", "unhandle", "end"}
        /\ charged[r] # NoKey /\ cpc[r] = "returned" => got[r] # CtxErr
        /\ charged[r] # NoKey /\ hpc[r] \in {"unkey", "unhandle", "end"} =>
             reply[r] = "decision"
        /\ reply[r] # "none" => hpc[r] \in {"unkey", "unhandle", "end"}

\* A buffer is in the pool at most once, and then nobody uses it; one that is
\* used is used by one request, and holds the key of its user.
BufferInv ==
    /\ \A b \in Buffer :
         /\ bufPool[b] <= 1
         /\ bufPool[b] = 1 => \A r \in Caller : buf[r] # b
    /\ \A r \in Caller : buf[r] # NoBuffer =>
         /\ bytes[buf[r]] = user[r]
         /\ \A q \in Caller \ {r} : buf[q] # buf[r]

CheckIInv ==
    /\ CoalescerIInv /\ CheckTypeOK /\ HoldsByPC /\ ChargedByPC
    /\ BufferInv /\ KeyIntact

==============================================================================
