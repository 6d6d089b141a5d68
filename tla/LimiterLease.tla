------------------------------ MODULE LimiterLease -----------------------------
(***************************************************************************)
(* What the limiter pool promises to the requests that use it, whatever it *)
(* does with reference counts, LRU lists, timers and condition variables:  *)
(*   - at most one limiter is current for a key, and only a current one is *)
(*     handed out;                                                         *)
(*   - a limiter that is no longer current is closed, but not while a      *)
(*     request holds it, unless its deadline has passed.                   *)
(***************************************************************************)
CONSTANTS Key, Req, Entry, NoEntry

VARIABLES
    current,    \* the limiter of each key, or NoEntry
    life,       \* unborn, open or closed
    holders,    \* the requests that hold each limiter
    overdue     \* its deadline has passed

vars == <<current, life, holders, overdue>>

Holding(r) == \E e \in Entry : r \in holders[e]
Retired(e) == life[e] = "open" /\ \A k \in Key : current[k] # e

Init ==
    /\ current = [k \in Key |-> NoEntry]
    /\ life = [e \in Entry |-> "unborn"]
    /\ holders = [e \in Entry |-> {}]
    /\ overdue = [e \in Entry |-> FALSE]

\* A request gets the current limiter.
Get(r, k) ==
    /\ ~Holding(r) /\ current[k] # NoEntry
    /\ holders' = [holders EXCEPT ![current[k]] = @ \cup {r}]
    /\ UNCHANGED <<current, life, overdue>>

\* A request gets a new limiter, for which others may have to make room.
Make(r, k, e, out) ==
    /\ ~Holding(r) /\ current[k] = NoEntry
    /\ life[e] # "open" /\ holders[e] = {}
    /\ current' = [q \in Key |-> IF q = k THEN e
                                 ELSE IF q \in out THEN NoEntry ELSE current[q]]
    /\ life' = [life EXCEPT ![e] = "open"]
    /\ holders' = [holders EXCEPT ![e] = {r}]
    /\ overdue' = [overdue EXCEPT ![e] = FALSE]

Return(r, e) ==
    /\ r \in holders[e]
    /\ holders' = [holders EXCEPT ![e] = @ \ {r}]
    /\ UNCHANGED <<current, life, overdue>>

\* The rule changes: the next request gets a new limiter.
Retire(k) ==
    /\ current[k] # NoEntry
    /\ current' = [current EXCEPT ![k] = NoEntry]
    /\ UNCHANGED <<life, holders, overdue>>

Expire(e) ==
    /\ Retired(e) /\ ~overdue[e]
    /\ overdue' = [overdue EXCEPT ![e] = TRUE]
    /\ UNCHANGED <<current, life, holders>>

Close(e) ==
    /\ Retired(e) /\ (holders[e] = {} \/ overdue[e])
    /\ life' = [life EXCEPT ![e] = "closed"]
    /\ UNCHANGED <<current, holders, overdue>>

Next ==
    \/ \E r \in Req, k \in Key : Get(r, k)
    \/ \E r \in Req, k \in Key, e \in Entry, out \in SUBSET Key : Make(r, k, e, out)
    \/ \E r \in Req, e \in Entry : Return(r, e)
    \/ \E k \in Key : Retire(k)
    \/ \E e \in Entry : Expire(e) \/ Close(e)

SafeSpec == Init /\ [][Next]_vars

\* Requests may hold on for ever; deadlines pass and limiters are closed.
Spec == SafeSpec /\ \A e \in Entry : WF_vars(Expire(e)) /\ WF_vars(Close(e))

==============================================================================
