----------------------------- MODULE OrderedList -----------------------------
(***************************************************************************)
(* What a watchlist promises its user: one ordered list without repetitions *)
(* on which every request acts at one instant, or not at all.  Watchlist    *)
(* implements it with sort keys, locks and two-phase updates.               *)
(***************************************************************************)
EXTENDS Naturals, Sequences, SequencesExt, Sorting

CONSTANTS Symbol, Request, Defaults, Null

VARIABLES
    list,   \* the symbols in the order the user sees
    req,    \* [Request -> what it asks for, what was answered]
    gifts   \* the defaults that sign-up has still to add

\* A request: <<operation, symbol, order, reply>>
Nothing(reply) == <<"none", Null, <<>>, reply>>

Init == list = <<>> /\ req = [p \in Request |-> Nothing("none")] /\ gifts = Defaults

\* The list without some symbols: the others keep their order.
Place == [s \in ToSet(list) |-> CHOOSE n \in DOMAIN list : list[n] = s]
Rest(symbols) == SortedBy(ToSet(list) \ symbols, Place)

\* A reorder names exactly the symbols the user saw.
Ask(p) ==
    /\ req[p][1] = "none"
    /\ \/ \E s \in Symbol : req' = [req EXCEPT ![p] = <<"add", s, <<>>, "none">>]
       \/ \E order \in SetToSeqs(ToSet(list)) :
            req' = [req EXCEPT ![p] = <<"reorder", Null, order, "none">>]
    /\ UNCHANGED <<list, gifts>>

Answer(p, replies) ==
    \E reply \in replies : req' = [req EXCEPT ![p] = Nothing(reply)]

\* A new symbol goes last; the answer may be lost.
Add(p) ==
    LET symbol == req[p][2] IN
    /\ req[p][1] = "add" /\ symbol \notin ToSet(list)
    /\ list' = Append(list, symbol)
    /\ Answer(p, {"ok", "error"})
    /\ UNCHANGED gifts

\* The requested symbols come first, in the requested order; symbols added since
\* the user looked follow in their order.
Reorder(p) ==
    LET order == req[p][3] IN
    /\ req[p][1] = "reorder" /\ ToSet(order) \subseteq ToSet(list)
    /\ list' = order \o Rest(ToSet(order))
    /\ Answer(p, {"ok", "error"})
    /\ UNCHANGED gifts

\* A request that is declined changes nothing.
Decline(p) ==
    /\ \/ req[p][1] # "none" /\ Answer(p, {"error"})
       \/ req[p][1] = "add" /\ req[p][2] \in ToSet(list) /\ Answer(p, {"already"})
       \/ req[p][1] = "reorder" /\ Answer(p, {"mismatch"})
    /\ UNCHANGED <<list, gifts>>

Drop(s) ==
    /\ s \in ToSet(list) /\ list' = Rest({s})
    /\ UNCHANGED <<req, gifts>>

\* Sign-up adds each default once, somewhere, passes over the unlisted ones, and
\* may stop.
Give ==
    /\ gifts # <<>>
    /\ \/ /\ Head(gifts) \in Symbol \ ToSet(list)
          /\ \E i \in 1..(Len(list) + 1) : list' = InsertAt(list, i, Head(gifts))
          /\ gifts' = Tail(gifts)
       \/ /\ Head(gifts) \notin Symbol
          /\ UNCHANGED list
          /\ gifts' = Tail(gifts)
       \/ gifts' = <<>> /\ UNCHANGED list
    /\ UNCHANGED req

\* Either a request is made or answered, or the list or the defaults change.
Next ==
    \/ /\ req' # req
       /\ \E p \in Request : Ask(p) \/ Add(p) \/ Reorder(p) \/ Decline(p)
    \/ /\ gifts' # gifts /\ Give
    \/ /\ list' # list /\ \E s \in Symbol : Drop(s)

Spec == Init /\ [][Next]_<<list, req, gifts>>
=============================================================================
