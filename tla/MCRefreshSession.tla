-------------------------- MODULE MCRefreshSession --------------------------
EXTENDS RefreshSessionInv, TLC
Symmetry == Permutations(Handler) \cup Permutations(Token)
=============================================================================
