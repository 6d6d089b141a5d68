------------------------------- MODULE Coalescer -------------------------------
(***************************************************************************)
(* The request coalescer (core/coalescer.go).  A call of Do either leads:  *)
(* it puts an entry of its own into the map, runs fn, publishes the result *)
(* and removes the entry; or it follows: it waits for the entry it found.  *)
(*                                                                         *)
(* The shard locks make each look at the map one step.  Shards only decide *)
(* which lock that is, so one map stands for all of them.  Time is one bit *)
(* per entry: `fresh' while time.Since(created) <= ttl.  Entry identities  *)
(* are reused once nothing refers to them, as the allocator may.           *)
(***************************************************************************)
EXTENDS FiniteSets

CONSTANTS
    Caller,      \* goroutines that call Do
    CKey,        \* coalescing keys: request key and cost
    Entry,       \* identities of *coalesced values
    NoEntry,
    Decision,    \* what fn may return
    Nothing,     \* no result yet
    CtxErr,      \* the error of a follower whose context ended
    NoKey

ASSUME CoalescerAssumption ==
    /\ NoEntry \notin Entry /\ NoKey \notin CKey
    /\ {Nothing, CtxErr} \cap Decision = {}

VARIABLES
    m,           \* shard.m
    fresh,       \* entries younger than the ttl
    result,      \* entry.decision and entry.err once entry.done is closed
    cpc,         \* where each caller is in Do
    ckey,        \* the key of its call
    ent,         \* the entry it leads or waits for
    got          \* what Do returned to it

coalescerVars == <<m, fresh, result, cpc, ckey, ent, got>>

CoalescerPCs == {"out", "fn", "remove", "wait", "returned"}
Leading == {"fn", "remove"}

CoalescerInit ==
    /\ m = [k \in CKey |-> NoEntry]
    /\ fresh = {}
    /\ result = [e \in Entry |-> Nothing]
    /\ cpc = [c \in Caller |-> "out"]
    /\ ckey = [c \in Caller |-> NoKey]
    /\ ent = [c \in Caller |-> NoEntry]
    /\ got = [c \in Caller |-> Nothing]

\* Nothing points to e.
Unreferenced(e) == (\A k \in CKey : m[k] # e) /\ (\A c \in Caller : ent[c] # e)

Enter(c, k, e, label) ==
    /\ cpc' = [cpc EXCEPT ![c] = label]
    /\ ckey' = [ckey EXCEPT ![c] = k]
    /\ ent' = [ent EXCEPT ![c] = e]

\* Do returns d.  The entry is garbage once nobody else refers to it.
Return(c, d) ==
    /\ result' = IF \E q \in Caller \ {c} : ent[q] = ent[c]
                   THEN result ELSE [result EXCEPT ![ent[c]] = Nothing]
    /\ cpc' = [cpc EXCEPT ![c] = "returned"]
    /\ ckey' = [ckey EXCEPT ![c] = NoKey]
    /\ ent' = [ent EXCEPT ![c] = NoEntry]
    /\ got' = [got EXCEPT ![c] = d]

------------------------------------------------------------------------------

\* Do finds an entry that is young enough, and waits for it.
DoJoin(c, k) ==
    /\ cpc[c] = "out"
    /\ m[k] \in fresh
    /\ Enter(c, k, m[k], "wait")
    /\ UNCHANGED <<m, fresh, result, got>>

\* Do finds no entry, or replaces one that is too old, and runs fn.
DoLead(c, k) ==
    /\ cpc[c] = "out"
    /\ m[k] \notin fresh
    /\ \E e \in {f \in Entry : Unreferenced(f)} :
         /\ m' = [m EXCEPT ![k] = e]
         /\ fresh' = fresh \cup {e}
         /\ Enter(c, k, e, "fn")
    /\ UNCHANGED <<result, got>>

\* Mutant: the leader removes its entry without having closed done.
FnReturn_NotClosed(c, d) ==
    /\ cpc[c] = "fn"
    /\ cpc' = [cpc EXCEPT ![c] = "remove"]
    /\ UNCHANGED <<m, fresh, result, ckey, ent, got>>

\* fn returns d: store it, then close done, which publishes the store.
FnReturn(c, d) ==
    /\ cpc[c] = "fn"
    /\ result' = [result EXCEPT ![ent[c]] = d]
    /\ cpc' = [cpc EXCEPT ![c] = "remove"]
    /\ UNCHANGED <<m, fresh, ckey, ent, got>>

\* Mutant: the leader deletes whatever entry is in the map.
Remove_Any(c) ==
    /\ cpc[c] = "remove"
    /\ m' = [m EXCEPT ![ckey[c]] = NoEntry]
    /\ fresh' = fresh \ {ent[c]}
    /\ Return(c, result[ent[c]])

\* The leader deletes its entry, unless another one has replaced it.  Nobody
\* asks for the age of that entry again.
Remove(c) ==
    /\ cpc[c] = "remove"
    /\ m' = [m EXCEPT ![ckey[c]] = IF @ = ent[c] THEN NoEntry ELSE @]
    /\ fresh' = fresh \ {ent[c]}
    /\ Return(c, result[ent[c]])

\* A follower's done channel is closed.
WaitDone(c) ==
    /\ cpc[c] = "wait"
    /\ result[ent[c]] # Nothing
    /\ Return(c, result[ent[c]])
    /\ UNCHANGED <<m, fresh>>

\* A follower's context ends first.
WaitCtx(c) ==
    /\ cpc[c] = "wait"
    /\ Return(c, CtxErr)
    /\ UNCHANGED <<m, fresh>>

\* The caller of Do takes its result and is done.
Leave(c) ==
    /\ cpc[c] = "returned"
    /\ cpc' = [cpc EXCEPT ![c] = "out"]
    /\ got' = [got EXCEPT ![c] = Nothing]
    /\ UNCHANGED <<m, fresh, result, ckey, ent>>

\* The ttl of an entry in the map passes.
Expire(k) ==
    /\ m[k] \in fresh
    /\ fresh' = fresh \ {m[k]}
    /\ UNCHANGED <<m, result, cpc, ckey, ent, got>>

CoalescerNext ==
    \/ \E c \in Caller :
         \/ \E k \in CKey : DoJoin(c, k) \/ DoLead(c, k)
         \/ \E d \in Decision : FnReturn(c, d)
         \/ Remove(c) \/ WaitDone(c) \/ WaitCtx(c) \/ Leave(c)
    \/ \E k \in CKey : Expire(k)

CoalescerSpec == CoalescerInit /\ [][CoalescerNext]_coalescerVars

------------------------------------------------------------------------------
(* Properties *)

\* Every variable has its type.
CoalescerTypeOK ==
    /\ m \in [CKey -> Entry \cup {NoEntry}]
    /\ fresh \subseteq Entry
    /\ result \in [Entry -> Decision \cup {Nothing}]
    /\ cpc \in [Caller -> CoalescerPCs]
    /\ ckey \in [Caller -> CKey \cup {NoKey}]
    /\ ent \in [Caller -> Entry \cup {NoEntry}]
    /\ got \in [Caller -> Decision \cup {Nothing, CtxErr}]

\* Nobody joins or waits for a call that nobody is making: an entry in the map
\* belongs to a call of Do for that very key that is still under way, so a
\* follower only ever shares a decision with a call that overlaps its own; and
\* a follower's entry is closed or its leader is still in fn.
NoOrphanEntry ==
    /\ \A k \in CKey : m[k] # NoEntry =>
         \E c \in Caller : ent[c] = m[k] /\ ckey[c] = k /\ cpc[c] \in Leading
    /\ \A c \in Caller : cpc[c] = "wait" =>
         \/ result[ent[c]] # Nothing
         \/ \E l \in Caller : ent[l] = ent[c] /\ ckey[l] = ckey[c] /\ cpc[l] = "fn"

\* Of the calls for one key that are in fn, at most one is younger than the
\* ttl: a leader that outlived its ttl and was replaced does not take its
\* successor's entry out of the map, which would let in a second young leader.
OneFreshLeader ==
    \A c, d \in Caller :
        /\ cpc[c] = "fn" /\ cpc[d] = "fn" /\ ckey[c] = ckey[d]
        /\ ent[c] \in fresh /\ ent[d] \in fresh
        => c = d

------------------------------------------------------------------------------
(* The inductive invariant of the proofs. *)

\* Callers inside Do, and only they, have an entry, for a key, and no two
\* leaders share one; a result is kept only for callers.
EntryOwned ==
    /\ \A c \in Caller :
         /\ ent[c] # NoEntry <=> cpc[c] \in Leading \cup {"wait"}
         /\ ent[c] # NoEntry => ckey[c] \in CKey
    /\ \A c, d \in Caller :
         cpc[c] \in Leading /\ cpc[d] \in Leading /\ ent[c] = ent[d] => c = d
    /\ \A e \in Entry : result[e] # Nothing => \E c \in Caller : ent[c] = e

\* A leader whose entry is still young finds it in the map; its entry has a
\* result exactly when fn has returned.
FreshIsMapped ==
    \A c \in Caller :
        /\ cpc[c] = "fn" => result[ent[c]] = Nothing
        /\ cpc[c] = "remove" => result[ent[c]] # Nothing
        /\ cpc[c] \in Leading /\ ent[c] \in fresh => m[ckey[c]] = ent[c]

CoalescerIInv ==
    /\ CoalescerTypeOK /\ NoOrphanEntry /\ EntryOwned /\ FreshIsMapped

==============================================================================
