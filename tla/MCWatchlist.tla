----------------------------- MODULE MCWatchlist ----------------------------
EXTENDS Watchlist, TLC
CONSTANTS a, b, c, x
MCDefaults == <<x, a>>
NoDefaults == <<>>
Symmetry == Permutations(Request) \cup Permutations({b, c})
=============================================================================
