---------------------------- MODULE MCLimiterPool ----------------------------
(***************************************************************************)
(* A shard that holds one entry, two keys that compete for it and three    *)
(* requests: every miss on the other key evicts, while a request may still *)
(* pin the victim, a second one releases it and a third asks for it again. *)
(* Two entry identities are enough for one mapped and one draining entry;  *)
(* an identity is used again once its entry is closed and unreferenced.    *)
(* Liveness is checked, so no symmetry is declared.                        *)
(***************************************************************************)
EXTENDS LimiterPoolRefinement

==============================================================================
