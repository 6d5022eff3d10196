--------------------------- MODULE RefreshSession ---------------------------
(***************************************************************************)
(* The server-side refresh sessions of the auth feature: the sessionService *)
(* (session.go), the transactions of refreshSessionRepository on the table  *)
(* refresh_sessions (session_repository.go and its queries.sql), and the    *)
(* auth-session-cleanup job (session_cleanup.go).                           *)
(*                                                                          *)
(* Every SQL statement that can wait for a lock is a step of its own.  The  *)
(* database is PostgreSQL at READ COMMITTED: a statement sees what was      *)
(* committed when it started, an UPDATE or DELETE locks its rows one by one *)
(* and re-checks each after the wait, and the writes of a transaction       *)
(* become visible together when it commits.                                 *)
(*                                                                          *)
(* A session row is identified by its refresh token: id, raw token and hash *)
(* are drawn together from crypto/rand and never collide.                   *)
(***************************************************************************)
EXTENDS Naturals

CONSTANTS
    Token,      \* refresh tokens, one row of refresh_sessions each
    Family,     \* family_id values
    Handler,    \* concurrent request handlers (refresh and logout)
    Cleaner,    \* instances of the auth-session-cleanup job
    Null,       \* SQL NULL, and "no lock holder"
    TTL,        \* DefaultRefreshTokenTTL, in ticks
    Grace,      \* refreshTokenReuseGracePeriod, in ticks
    MaxClock    \* bound on the clock

Proc == Handler \cup Cleaner

ASSUME ConstantsAssumption ==
    /\ Handler \cap Cleaner = {}
    /\ Null \notin Token \cup Family \cup Proc \cup Nat
    /\ TTL \in Nat \ {0}
    /\ Grace \in Nat
    /\ MaxClock \in Nat

VARIABLES
    clock,      \* what time.Now returns
    sessions,   \* committed contents of refresh_sessions
    tx,         \* the request or job each process is running
    familyLock, \* holder of pg_advisory_xact_lock of each family
    rowLock     \* holder of the row lock (FOR UPDATE, UPDATE, DELETE)

vars == <<clock, sessions, tx, familyLock, rowLock>>

-----------------------------------------------------------------------------
(* Rows.  "valid" and "revoked" rows are in the table (revoked_at IS NULL   *)
(* or not); "absent" tokens were not drawn yet; the columns of a "deleted"  *)
(* row are kept only so that properties can speak about it.                 *)

RowState == {"absent", "valid", "revoked", "deleted"}

Row == [state      : RowState,
        family     : Family \cup {Null},
        expiresAt  : Nat,
        consumedAt : Nat \cup {Null},
        replacedBy : Token \cup {Null}]

AbsentRow == [state |-> "absent", family |-> Null, expiresAt |-> 0,
              consumedAt |-> Null, replacedBy |-> Null]

Stored(t) == sessions[t].state \in {"valid", "revoked"}

\* A session that can still be exchanged as far as its row is concerned.
Live(t) == sessions[t].state = "valid" /\ sessions[t].consumedAt = Null

InFamily(f) == {t \in Token : sessions[t].family = f}

\* Tokens nobody has drawn: neither committed nor in an open transaction.
Fresh == {t \in Token : /\ sessions[t].state = "absent"
                        /\ \A p \in Proc : tx[p].next # t}

-----------------------------------------------------------------------------
(* Transactions.  pc names the statement the process executes next.         *)

Op == {"none", "rotate", "revoke", "cleanup"}
PC == {"idle", "find", "family", "row", "next", "scan", "commit"}
Reply == {"none", "ok", "invalid", "conflict", "reused", "expired",
          "unavailable"}

Tx == [pc      : PC,
       op      : Op,
       token   : Token \cup {Null},  \* the presented token
       now     : Nat,                \* s.now(), read before the transaction
       targets : SUBSET Token,       \* rows the UPDATE/DELETE has yet to visit
       written : SUBSET Token,       \* rows it has locked and written
       next    : Token \cup {Null},  \* the inserted successor
       reply   : Reply]              \* how the last call ended

Idle(reply) == [pc |-> "idle", op |-> "none", token |-> Null, now |-> 0,
                targets |-> {}, written |-> {}, next |-> Null,
                reply |-> reply]

Family_(p) == sessions[tx[p].token].family

-----------------------------------------------------------------------------
Init ==
    /\ clock = 0
    /\ sessions = [t \in Token |-> AbsentRow]
    /\ tx = [p \in Proc |-> Idle("none")]
    /\ familyLock = [f \in Family |-> Null]
    /\ rowLock = [t \in Token |-> Null]

Tick ==
    /\ clock < MaxClock
    /\ clock' = clock + 1
    /\ UNCHANGED <<sessions, tx, familyLock, rowLock>>

\* Login, OAuth callback: Issue inserts the first session of a new family in
\* one statement.  A failed INSERT changes nothing.
NewSession(f, now) ==
    [state |-> "valid", family |-> f, expiresAt |-> now + TTL,
     consumedAt |-> Null, replacedBy |-> Null]

Issue(f, t) ==
    /\ InFamily(f) = {}
    /\ t \in Fresh
    /\ sessions' = [sessions EXCEPT ![t] = NewSession(f, clock)]
    /\ UNCHANGED <<clock, tx, familyLock, rowLock>>

\* Refresh and Revoke read the clock, then open the transaction.  Any token
\* that was ever stored may be presented: by its owner, by a second tab, from
\* a copy, long after it was spent.
Begin(p, op, t) ==
    /\ tx[p].pc = "idle"
    /\ sessions[t].state # "absent"
    /\ tx' = [tx EXCEPT ![p] =
                [Idle("none") EXCEPT !.pc = "find", !.op = op,
                                     !.token = t, !.now = clock]]
    /\ UNCHANGED <<clock, sessions, familyLock, rowLock>>

\* Ending a transaction releases every lock it holds.
ReleaseLocks(p) ==
    /\ familyLock' = [f \in Family |->
                        IF familyLock[f] = p THEN Null ELSE familyLock[f]]
    /\ rowLock' = [t \in Token |-> IF rowLock[t] = p THEN Null ELSE rowLock[t]]

\* Faulty variant: an early return that forgets tx.Rollback().
RollbackForgotten(p, reply) ==
    /\ tx' = [tx EXCEPT ![p] = Idle(reply)]
    /\ UNCHANGED <<clock, sessions, familyLock, rowLock>>

\* The deferred tx.Rollback(): nothing was written.
Rollback(p, reply) ==
    /\ tx' = [tx EXCEPT ![p] = Idle(reply)]
    /\ ReleaseLocks(p)
    /\ UNCHANGED <<clock, sessions>>

\* An unknown token is invalid for Rotate and a success for Revoke.
UnknownReply(op) == IF op = "rotate" THEN "invalid" ELSE "ok"

\* FindRefreshSessionFamilyByTokenHash.
FindFamily(p) ==
    /\ tx[p].pc = "find"
    /\ \/ /\ ~Stored(tx[p].token)
          /\ Rollback(p, UnknownReply(tx[p].op))
       \/ /\ Stored(tx[p].token)
          /\ tx' = [tx EXCEPT ![p].pc = "family"]
          /\ UNCHANGED <<clock, sessions, familyLock, rowLock>>

\* Faulty variant: the rows alone are locked.
NoFamilyLock(p) ==
    /\ tx[p].pc = "family"
    /\ tx' = [tx EXCEPT ![p].pc = "row"]
    /\ UNCHANGED <<clock, sessions, familyLock, rowLock>>

\* LockRefreshSessionFamily: waits for the advisory lock of the family.
LockFamily(p) ==
    /\ tx[p].pc = "family"
    /\ familyLock[Family_(p)] = Null
    /\ familyLock' = [familyLock EXCEPT ![Family_(p)] = p]
    /\ tx' = [tx EXCEPT ![p].pc = "row"]
    /\ UNCHANGED <<clock, sessions, rowLock>>

\* An UPDATE or DELETE statement first fixes its candidate rows from the
\* snapshot; with none left to visit the transaction is ready to commit.
ScanPC(targets) == IF targets = {} THEN "commit" ELSE "scan"

\* RevokeRefreshSessionFamily: UPDATE ... WHERE family_id = f AND revoked_at
\* IS NULL, started in the step that got the lock of the presented row (no
\* row of the family is written in between, see FamilyWriterHoldsLock).
StartRevocation(p) ==
    LET targets == {u \in InFamily(Family_(p)) : sessions[u].state = "valid"}
    IN  /\ tx' = [tx EXCEPT ![p] = [@ EXCEPT !.pc = ScanPC(targets),
                                             !.targets = targets]]
        /\ rowLock' = [rowLock EXCEPT ![tx[p].token] = p]
        /\ UNCHANGED <<clock, sessions, familyLock>>

\* The comparisons of Rotate, made with the time captured by Refresh.
WithinGrace(p) == tx[p].now <= sessions[tx[p].token].consumedAt + Grace
Expired(p) == tx[p].now >= sessions[tx[p].token].expiresAt

\* nextFactory draws the successor; CreateRefreshSession and
\* ConsumeRefreshSession write it and the presented row.
InsertSuccessor(p, next) ==
    /\ tx' = [tx EXCEPT ![p] = [@ EXCEPT !.pc = "commit", !.next = next]]
    /\ rowLock' = [rowLock EXCEPT ![tx[p].token] = p]
    /\ UNCHANGED <<clock, sessions, familyLock>>

\* Faulty variant: revoked_at is not looked at.
RotateRevokedRow(p) ==
    /\ Stored(tx[p].token)
    /\ \/ Expired(p) /\ Rollback(p, "expired")
       \/ ~Expired(p) /\ \E next \in Fresh : InsertSuccessor(p, next)

\* Rotate after LockRefreshSessionForRotation returned the row.
RotateRow(p) ==
    LET row == sessions[tx[p].token] IN
    \/ /\ row.state = "revoked"
       /\ Rollback(p, "invalid")
    \/ /\ row.state = "valid" /\ row.consumedAt # Null
       /\ \/ WithinGrace(p) /\ Rollback(p, "conflict")
          \/ ~WithinGrace(p) /\ StartRevocation(p)
    \/ /\ Live(tx[p].token)
       /\ \/ Expired(p) /\ Rollback(p, "expired")
          \/ ~Expired(p) /\ \E next \in Fresh : InsertSuccessor(p, next)

\* SELECT ... FOR UPDATE of the presented row waits for its lock and reads
\* the row as it is then: it may have been deleted during the wait.
LockRow(p) ==
    /\ tx[p].pc = "row"
    /\ rowLock[tx[p].token] = Null
    /\ \/ ~Stored(tx[p].token) /\ Rollback(p, UnknownReply(tx[p].op))
       \/ tx[p].op = "rotate" /\ RotateRow(p)
       \/ /\ tx[p].op = "revoke"
          /\ Stored(tx[p].token)
          /\ StartRevocation(p)

\* Faulty variant: spent sessions are left in the table.
CleanupOfUnspent(p) ==
    LET targets == {t \in Token : Live(t) /\ sessions[t].expiresAt < clock}
    IN  /\ tx[p].pc = "idle"
        /\ tx' = [tx EXCEPT ![p] =
                    [Idle("none") EXCEPT !.pc = ScanPC(targets),
                                         !.op = "cleanup", !.now = clock,
                                         !.targets = targets]]
        /\ UNCHANGED <<clock, sessions, familyLock, rowLock>>

\* DeleteExpiredRefreshSessions: DELETE ... WHERE expires_at < now.
BeginCleanup(p) ==
    LET targets == {t \in Token : Stored(t) /\ sessions[t].expiresAt < clock}
    IN  /\ tx[p].pc = "idle"
        /\ tx' = [tx EXCEPT ![p] =
                    [Idle("none") EXCEPT !.pc = ScanPC(targets),
                                         !.op = "cleanup", !.now = clock,
                                         !.targets = targets]]
        /\ UNCHANGED <<clock, sessions, familyLock, rowLock>>

\* The WHERE clause, re-evaluated on the current version of a locked row.
Matches(p, u) ==
    \/ tx[p].op = "cleanup" /\ Stored(u)
    \/ tx[p].op # "cleanup" /\ sessions[u].state = "valid"

\* The running UPDATE or DELETE waits for one candidate row, re-checks its
\* WHERE clause on the current version and writes it, in any physical order.
ScanRow(p, u) ==
    LET rest == tx[p].targets \ {u} IN
    /\ tx[p].pc = "scan"
    /\ u \in tx[p].targets
    /\ rowLock[u] \in {Null, p}
    /\ \/ /\ Matches(p, u)
          /\ rowLock' = [rowLock EXCEPT ![u] = p]
          /\ tx' = [tx EXCEPT ![p] = [@ EXCEPT !.pc = ScanPC(rest),
                                             !.targets = rest,
                                             !.written = tx[p].written \cup {u}]]
       \/ /\ ~Matches(p, u)
          /\ tx' = [tx EXCEPT ![p] = [@ EXCEPT !.pc = ScanPC(rest),
                                             !.targets = rest]]
          /\ UNCHANGED rowLock
    /\ UNCHANGED <<clock, sessions, familyLock>>

\* A commit may take effect although its acknowledgement is lost: the caller
\* then reports the session store as unavailable.
Committed(p, reply) ==
    /\ tx[p].pc = "commit"
    /\ \E r \in {reply, "unavailable"} : tx' = [tx EXCEPT ![p] = Idle(r)]
    /\ ReleaseLocks(p)
    /\ UNCHANGED clock

\* Faulty variant: the presented session is not consumed.
RotationWithoutConsume(p) ==
    /\ tx[p].op = "rotate" /\ tx[p].next # Null
    /\ sessions' = [sessions EXCEPT
                      ![tx[p].next] = NewSession(Family_(p), tx[p].now)]
    /\ Committed(p, "ok")

\* CreateRefreshSession and ConsumeRefreshSession become visible together.
CommitRotation(p) ==
    LET t == tx[p].token  next == tx[p].next IN
    /\ tx[p].op = "rotate" /\ next # Null
    /\ sessions' = [sessions EXCEPT
                      ![t] = [@ EXCEPT !.consumedAt = tx[p].now,
                                       !.replacedBy = next],
                      ![next] = NewSession(Family_(p), tx[p].now)]
    /\ Committed(p, "ok")

\* Faulty variant: a detected reuse is reported but not committed.
ReuseNotCommitted(p) ==
    /\ tx[p].op = "revoke" \/ (tx[p].op = "rotate" /\ tx[p].next = Null)
    /\ sessions' = [u \in Token |->
                      IF u \in tx[p].written /\ tx[p].op = "revoke"
                      THEN [sessions[u] EXCEPT !.state = "revoked"]
                      ELSE sessions[u]]
    /\ Committed(p, IF tx[p].op = "rotate" THEN "reused" ELSE "ok")

\* The family revocation of a logout, or of a detected reuse.
CommitRevocation(p) ==
    /\ tx[p].op = "revoke" \/ (tx[p].op = "rotate" /\ tx[p].next = Null)
    /\ sessions' = [u \in Token |->
                      IF u \in tx[p].written
                      THEN [sessions[u] EXCEPT !.state = "revoked"]
                      ELSE sessions[u]]
    /\ Committed(p, IF tx[p].op = "rotate" THEN "reused" ELSE "ok")

\* Deleted rows vanish; replaced_by is a foreign key ON DELETE SET NULL.
CommitCleanup(p) ==
    /\ tx[p].op = "cleanup"
    /\ sessions' = [u \in Token |->
                      IF u \in tx[p].written
                      THEN [sessions[u] EXCEPT !.state = "deleted"]
                      ELSE IF sessions[u].replacedBy \in tx[p].written
                           THEN [sessions[u] EXCEPT !.replacedBy = Null]
                           ELSE sessions[u]]
    /\ Committed(p, "ok")

\* Cancelled context, lost connection, failed statement or token factory,
\* victim of the deadlock detector, crash: the transaction is rolled back.
Fail(p) == tx[p].pc # "idle" /\ Rollback(p, "unavailable")

Step(p) ==
    \/ FindFamily(p)
    \/ LockFamily(p)
    \/ LockRow(p)
    \/ \E u \in Token : ScanRow(p, u)
    \/ CommitRotation(p)
    \/ CommitRevocation(p)
    \/ CommitCleanup(p)

Next ==
    \/ Tick
    \/ \E f \in Family, t \in Token : Issue(f, t)
    \/ \E p \in Handler, t \in Token, op \in {"rotate", "revoke"} :
            Begin(p, op, t)
    \/ \E p \in Cleaner : BeginCleanup(p)
    \/ \E p \in Proc : Step(p) \/ Fail(p)

Spec == Init /\ [][Next]_vars

-----------------------------------------------------------------------------
(* Properties.                                                              *)

\* Every variable has its type.
TypeOK ==
    /\ clock \in Nat
    /\ sessions \in [Token -> Row]
    /\ tx \in [Proc -> Tx]
    /\ familyLock \in [Family -> Proc \cup {Null}]
    /\ rowLock \in [Token -> Proc \cup {Null}]

\* A family has at most one exchangeable session: however refreshes, logouts
\* and cleanups of its tokens interleave, Rotate never hands out two
\* successors and never keeps the predecessor exchangeable.
AtMostOneLive ==
    \A t, u \in Token :
        Live(t) /\ Live(u) /\ sessions[t].family = sessions[u].family => t = u

\* Revocation is total: if one stored session of a family is revoked, all of
\* them are.  In particular the successor that a concurrent Rotate inserts
\* does not escape the UPDATE of Revoke (which cannot see uncommitted rows).
RevocationIsTotal ==
    \A t, u \in Token :
        /\ sessions[t].state = "revoked"
        /\ Stored(u)
        /\ sessions[u].family = sessions[t].family
        => sessions[u].state = "revoked"

\* The chain of a family is never cut in the middle: while a spent session is
\* in the table so is its successor, in the same family, expiring no earlier.
\* Hence ON DELETE SET NULL never fires for the cleanup's DELETE.
ChainIsIntact ==
    \A t \in Token :
        Stored(t) /\ sessions[t].consumedAt # Null =>
            LET s == sessions[t].replacedBy IN
            /\ s # Null
            /\ Stored(s)
            /\ sessions[s].family = sessions[t].family
            /\ sessions[s].expiresAt >= sessions[t].expiresAt

\* The replies on which the HTTP handler clears the cookies.
Final(p) ==
    \/ tx[p].op = "rotate" /\ tx'[p].reply \in {"invalid", "expired", "reused"}
    \/ tx[p].op = "revoke" /\ tx'[p].reply = "ok"

\* Those replies are final: when a refresh ends as invalid, expired or reused, or
\* a logout succeeds, no session of the token's family can be exchanged any more,
\* unless the presented token itself is past its expiry.
DenialIsFinal ==
    [][\A p \in Handler :
         tx[p].pc # "idle" /\ tx'[p].pc = "idle" /\ Final(p) =>
            \/ sessions[tx[p].token].expiresAt <= clock
            \/ \A u \in InFamily(Family_(p)) : ~Live(u)']_vars

\* Whoever p may be waiting for.
WaitsFor(p) ==
    LET held(q) == \/ tx[p].pc = "family" /\ familyLock[Family_(p)] = q
                   \/ tx[p].pc = "row" /\ rowLock[tx[p].token] = q
                   \/ tx[p].pc = "scan"
                      /\ \E u \in tx[p].targets : rowLock[u] = q
    IN  {q \in Proc \ {p} : held(q)}

\* A non-empty set of processes each of which may be waiting for another one.
WaitCycle(S) == S # {} /\ \A p \in S : WaitsFor(p) \cap S # {}

\* Requests alone never deadlock: the family lock is taken before any row
\* lock, so Rotate and Revoke of the same family cannot hold rows each other
\* needs.  (With the cleanup's DELETE a cycle exists; PostgreSQL breaks it.)
RequestsNeverDeadlock == \A S \in SUBSET Handler : ~WaitCycle(S)

\* The committed rows seen as the abstract store.
Store == INSTANCE SessionFamily WITH
    drawn <- {t \in Token : sessions[t].state # "absent"},
    born  <- {f \in Family : InFamily(f) # {}},
    head  <- [f \in Family |-> {t \in InFamily(f) : Live(t)}]

\* The store implements SessionFamily: every committed transaction of Create,
\* Rotate, Revoke and DeleteExpired is one atomic step of it, every other step is
\* invisible.
ImplementsSessionFamily == Store!Spec
=============================================================================
