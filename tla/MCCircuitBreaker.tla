--------------------------- MODULE MCCircuitBreaker ---------------------------
(***************************************************************************)
(* Three callers: one that trips or probes, one that overlaps it, and one  *)
(* whose stale report arrives in between.  A threshold of 2 lets a success *)
(* fall between two failures; one half-open call makes the counter reach   *)
(* its limit.  Liveness is checked, so no symmetry is declared.            *)
(***************************************************************************)
EXTENDS CircuitBreaker

==============================================================================
