---------------------------- MODULE MCWebSession ----------------------------
EXTENDS WebSession, TLC
Symmetry == Permutations(Token) \cup Permutations(Request)
=============================================================================
