------------------------- MODULE RefreshSessionInv --------------------------
(***************************************************************************)
(* The inductive invariant behind AtMostOneLive, RevocationIsTotal and      *)
(* ChainIsIntact.  The safety properties speak about committed rows only;   *)
(* what makes them inductive is what every open transaction still holds:    *)
(* the family lock, its row locks, and a candidate set that covers every    *)
(* valid row of the family.                                                 *)
(***************************************************************************)
EXTENDS RefreshSession

\* p runs Rotate or Revoke and has passed lockRefreshSessionFamily.
InsideFamily(p) == \/ tx[p].pc = "row"
                   \/ tx[p].pc \in {"scan", "commit"} /\ tx[p].op # "cleanup"

\* p has inserted a successor, or is executing the family UPDATE.
Rotating(p) == tx[p].pc = "commit" /\ tx[p].op = "rotate" /\ tx[p].next # Null
Revoking(p) == /\ tx[p].pc \in {"scan", "commit"}
               /\ tx[p].op # "cleanup"
               /\ tx[p].next = Null
Cleaning(p) == tx[p].pc \in {"scan", "commit"} /\ tx[p].op = "cleanup"

\* Only a drawn token has columns; it expires at most TTL from now, and only
\* a spent one is replaced.
RowShape ==
    \A t \in Token :
        /\ sessions[t].state = "absent" => sessions[t] = AbsentRow
        /\ sessions[t].state # "absent" =>
              /\ sessions[t].family \in Family
              /\ sessions[t].expiresAt <= clock + TTL
        /\ sessions[t].replacedBy # Null => sessions[t].consumedAt # Null

\* Which fields are set at which pc; the presented token was drawn, and it
\* expires at most TTL after the captured time.
TxShape(p) ==
    /\ tx[p].now <= clock
    /\ tx[p].pc = "idle" => tx[p].op = "none"
    /\ tx[p].pc # "idle" => tx[p].op # "none"
    /\ tx[p].pc \in {"find", "family", "row"} =>
          tx[p].op \in {"rotate", "revoke"}
    /\ tx[p].op \in {"rotate", "revoke"} =>
          /\ tx[p].token \in Token
          /\ sessions[tx[p].token].state # "absent"
          /\ sessions[tx[p].token].expiresAt <= tx[p].now + TTL
    /\ tx[p].next # Null => Rotating(p) /\ tx[p].written = {}
    /\ tx[p].targets # {} => tx[p].pc = "scan"
    /\ tx[p].written # {} => tx[p].pc \in {"scan", "commit"}

\* Whoever is past lockRefreshSessionFamily holds the advisory lock.
FamilyWriterHoldsLock(p) == InsideFamily(p) => familyLock[Family_(p)] = p

\* Written rows are locked, and still in the state they were found in.
WrittenRowsLocked(p) ==
    \A u \in tx[p].written :
        /\ rowLock[u] = p
        /\ Stored(u)
        /\ Revoking(p) => sessions[u].state = "valid"

\* A rotation about to commit still holds an exchangeable session, and its
\* successor is not in the table.
RotationReady(p) ==
    Rotating(p) =>
        /\ rowLock[tx[p].token] = p
        /\ Live(tx[p].token)
        /\ sessions[tx[p].next].state = "absent"

\* A running revocation touches its own family only, and no valid row of
\* that family escapes it.
RevocationCovers(p) ==
    Revoking(p) =>
        /\ tx[p].targets \cup tx[p].written \subseteq InFamily(Family_(p))
        /\ \A u \in InFamily(Family_(p)) :
              sessions[u].state = "valid" =>
                  u \in tx[p].targets \cup tx[p].written

\* A cleanup that takes a session also takes its predecessor.
CleanupCovers(p) ==
    Cleaning(p) =>
        \A u \in tx[p].targets \cup tx[p].written :
            /\ sessions[u].state # "absent"
            /\ \A t \in Token :
                  Stored(t) /\ sessions[t].replacedBy = u =>
                      t \in tx[p].targets \cup tx[p].written

ProcInv(p) ==
    /\ TxShape(p)
    /\ FamilyWriterHoldsLock(p)
    /\ WrittenRowsLocked(p)
    /\ RotationReady(p)
    /\ RevocationCovers(p)
    /\ CleanupCovers(p)

\* No two open rotations have drawn the same successor.
SuccessorsDistinct ==
    \A p, q \in Proc : p # q /\ tx[p].next # Null => tx[q].next # tx[p].next

IInv ==
    /\ TypeOK
    /\ RowShape
    /\ \A p \in Proc : ProcInv(p)
    /\ SuccessorsDistinct
    /\ AtMostOneLive
    /\ RevocationIsTotal
    /\ ChainIsIntact

-----------------------------------------------------------------------------
(* What DenialIsFinal and RequestsNeverDeadlock need besides IInv.           *)

\* Only the cleanup job deletes, and what it deletes has expired: the rows that
\* are gone, and those its DELETE has still to visit or has locked.
DeletedAreExpired ==
    /\ \A t \in Token :
          sessions[t].state = "deleted" => sessions[t].expiresAt < clock
    /\ \A p \in Proc :
          Cleaning(p) => \A u \in tx[p].targets \cup tx[p].written :
                            sessions[u].expiresAt < clock

\* A request holds no lock before LockFamily, and no row lock outside the
\* family whose lock it holds.
RequestLocksNest ==
    \A p \in Handler :
        /\ tx[p].op # "cleanup"
        /\ \A f \in Family : familyLock[f] = p => InsideFamily(p)
        /\ \A u \in Token :
              rowLock[u] = p => InsideFamily(p) /\ sessions[u].family = Family_(p)

RequestInv == DeletedAreExpired /\ RequestLocksNest
=============================================================================
