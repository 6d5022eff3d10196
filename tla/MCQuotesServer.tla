--------------------------- MODULE MCQuotesServer ----------------------------
(* Three codes for two slots of the group; requests at and beyond the limits.  *)
EXTENDS QuotesServer

CONSTANTS A, B, C, Malformed

MCRequests ==
    {[codes |-> <<A, B, A, C>>, interval |-> "1day", bars |-> 3],
     [codes |-> <<B, B, A>>, interval |-> "1day", bars |-> 0],
     [codes |-> <<C, A>>, interval |-> "1day", bars |-> 1],
     [codes |-> <<A, B, C, A, B>>, interval |-> "1day", bars |-> 0],
     [codes |-> <<A, Malformed>>, interval |-> "1day", bars |-> 0],
     [codes |-> <<A>>, interval |-> "", bars |-> 0],
     [codes |-> <<A>>, interval |-> "1day", bars |-> 4]}

\* One, two and more bars than a sparkline asks for.
MCStocks ==
    {[x \in {A, B, C} |-> CASE x = A -> <<5, 4, 3, 2>>
                            [] x = B -> <<7, 8>>
                            [] x = C -> <<6>>]}
=============================================================================
