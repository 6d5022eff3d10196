------------------------------ MODULE Sorting -------------------------------
(***************************************************************************)
(* ORDER BY: the elements of a finite set in the order of their keys.       *)
(***************************************************************************)
EXTENDS Integers, Sequences, FiniteSets

\* An element comes after as many elements as have a smaller key.
SortedBy(S, key) ==
    [n \in 1 .. Cardinality(S) |->
        CHOOSE s \in S : Cardinality({u \in S : key[u] < key[s]}) = n - 1]

\* Positions in their order.
Ascending(S) == SortedBy(S, [n \in S |-> n])
=============================================================================
