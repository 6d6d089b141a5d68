------------------------------ MODULE MCFallback ------------------------------
EXTENDS Fallback

\* Two regions: a1 and a2 run; b1 is only listed.
MCListed ==
    <<[id |-> "a1", region |-> "A", weight |-> 1],
      [id |-> "b1", region |-> "B", weight |-> 1],
      [id |-> "a2", region |-> "A", weight |-> 2]>>

\* Hashes of 3 bits: a2 doubles 3 and overtakes a1's 5, a1 doubles 5 into 2.
MCScore == [p \in Ids \X Key |-> CASE p[1] = "a1" -> 5 [] p[1] = "a2" -> 3 [] OTHER -> 7]

==============================================================================
