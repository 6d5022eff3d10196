--------------------------- MODULE MCCandleHistory ---------------------------
(* A small calendar: weeks of two days, months of three and four, so that the *)
(* two kinds of bucket start on the same and on different days.               *)
EXTENDS CandleHistory

MCStarts == [i \in {"1week", "1month"} |->
                IF i = "1week" THEN {0, 2, 4, 6} ELSE {0, 3}]

MCPrices == {[open |-> 1, high |-> 3, low |-> 1, close |-> 2, volume |-> 1],
             [open |-> 3, high |-> 4, low |-> 0, close |-> 1, volume |-> 2]}
=============================================================================
