----------------------- MODULE RefreshSessionLiveness -----------------------
(***************************************************************************)
(* Progress of the refresh-session transactions.  PostgreSQL serves lock    *)
(* waiters in turn, so a step that becomes possible again and again is      *)
(* taken (strong fairness per process), and its deadlock detector aborts a  *)
(* member of every wait cycle.  No fairness is assumed of clients, of the   *)
(* clock, of failures or of the start of a cleanup.                         *)
(***************************************************************************)
EXTENDS RefreshSession

DeadlockVictim(p) ==
    /\ \E S \in SUBSET Proc : p \in S /\ WaitCycle(S)
    /\ Fail(p)

\* Token is finite in a model: with none left the factory call fails.
OutOfTokens(p) == tx[p].pc = "row" /\ Fresh = {} /\ Fail(p)

\* Bound: the clock moves only between transactions.  A transaction reads it once,
\* when it begins, so this only rules out overlapping transactions of different
\* ticks; MCRefreshSession checks the safety properties with those as well.
Paced == clock' # clock => \A p \in Proc : tx[p].pc = "idle"

FairSpec ==
    /\ Init /\ [][Next /\ Paced]_vars
    /\ \A p \in Proc : /\ SF_vars(Step(p))
                       /\ WF_vars(DeadlockVictim(p))
                       /\ WF_vars(OutOfTokens(p))

\* Every refresh, logout and cleanup that starts also ends: whatever path it
\* takes through Rotate, Revoke or DeleteExpired, it leaves no lock behind on
\* which another transaction would wait forever.
TransactionsEnd == \A p \in Proc : tx[p].pc # "idle" ~> tx[p].pc = "idle"
=============================================================================
