------------------------------ MODULE MCAdminApi -------------------------------
EXTENDS AdminApi, TLC

Symmetry == Permutations(Key) \cup Permutations(IdemKey) \cup Permutations(Client)

==============================================================================
