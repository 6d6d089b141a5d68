------------------------- MODULE LimiterPoolRefinement -------------------------
(***************************************************************************)
(* The limiter pool implements the lease of module LimiterLease: the map   *)
(* says which limiter is current, the handles who holds one.               *)
(***************************************************************************)
EXTENDS LimiterPool

lifeOf == [e \in Entry |-> IF state[e] = "free" THEN "unborn"
                           ELSE IF state[e] = "closed" THEN "closed" ELSE "open"]
holdersOf == [e \in Entry |-> Holders(e)]

Lease == INSTANCE LimiterLease WITH
    current <- m, life <- lifeOf, holders <- holdersOf, overdue <- expired

\* The pool with its reference counts, evictions, cutovers and drains is an
\* implementation of the lease, the promise included that every limiter taken
\* out of service is closed in the end.
ImplementsLease == Lease!Spec

==============================================================================
