------------------------------ MODULE MCInFlight ------------------------------
EXTENDS InFlight, TLC

Symmetry == Permutations(Request)

==============================================================================
