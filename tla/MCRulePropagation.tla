-------------------------- MODULE MCRulePropagation --------------------------
(***************************************************************************)
(* One instance is followed, n1; admin calls arrive there and at n2, whose *)
(* cache nobody reads.  Whatever a second followed instance did, n1 could  *)
(* see only through the database and the outbox.  The safety run has two   *)
(* publishers, which duplicate announcements, and two writes, enough for a *)
(* stale handler; the live run has one publisher and three writes, enough  *)
(* for create, delete, create, where versions restart.  The run that ends  *)
(* in a violation writes at n2 only: n1 learns of a write from its events  *)
(* and syncs alone.                                                        *)
(***************************************************************************)
EXTENDS RulePropagation

==============================================================================
