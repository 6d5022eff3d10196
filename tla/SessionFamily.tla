--------------------------- MODULE SessionFamily ----------------------------
(***************************************************************************)
(* What the refresh-session store promises, without transactions, locks or  *)
(* clocks: a login starts a family with one exchangeable token; exchanging  *)
(* it replaces it by a token never seen before; once a family has no        *)
(* exchangeable token (logout, detected reuse, expired and cleaned up) it   *)
(* never has one again.                                                     *)
(***************************************************************************)
CONSTANTS Token, Family

VARIABLES
    drawn,  \* tokens ever handed out
    born,   \* families ever started
    head    \* head[f]: the exchangeable tokens of f

vars == <<drawn, born, head>>

Init ==
    /\ drawn = {}
    /\ born = {}
    /\ head = [f \in Family |-> {}]

Login(f, t) ==
    /\ f \notin born
    /\ t \notin drawn
    /\ born' = born \cup {f}
    /\ drawn' = drawn \cup {t}
    /\ head' = [head EXCEPT ![f] = {t}]

Exchange(f, t) ==
    /\ head[f] # {}
    /\ t \notin drawn
    /\ drawn' = drawn \cup {t}
    /\ head' = [head EXCEPT ![f] = {t}]
    /\ UNCHANGED born

\* One logout ends one family; one cleanup may end several.
End(F) ==
    /\ head' = [f \in Family |-> IF f \in F THEN {} ELSE head[f]]
    /\ UNCHANGED <<drawn, born>>

Next ==
    \/ \E f \in Family, t \in Token : Login(f, t) \/ Exchange(f, t)
    \/ \E F \in SUBSET Family : End(F)

Spec == Init /\ [][Next]_vars
=============================================================================
