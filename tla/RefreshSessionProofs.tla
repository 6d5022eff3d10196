------------------------ MODULE RefreshSessionProofs ------------------------
(***************************************************************************)
(* Proofs about RefreshSession, for any number of tokens, families,         *)
(* handlers and cleanup jobs, and any TTL, grace period and clock bound.    *)
(***************************************************************************)
EXTENDS RefreshSessionInv, TLAPS

USE ConstantsAssumption

LEMMA IdleType == \A r \in Reply : Idle(r) \in Tx
  BY DEF Idle, Tx, PC, Op

LEMMA ScanTxType ==
    ASSUME NEW r \in Tx, NEW pc \in PC, NEW S \in SUBSET Token
    PROVE  [r EXCEPT !.pc = pc, !.targets = S] \in Tx
  BY DEF Tx

LEMMA WriteTxType ==
    ASSUME NEW r \in Tx, NEW pc \in PC, NEW S \in SUBSET Token, NEW u \in Token
    PROVE  [r EXCEPT !.pc = pc, !.targets = S, !.written = r.written \cup {u}] \in Tx
  BY DEF Tx

LEMMA NextTxType ==
    ASSUME NEW r \in Tx, NEW u \in Token
    PROVE  [r EXCEPT !.pc = "commit", !.next = u] \in Tx
  BY DEF Tx, PC

LEMMA RollbackType ==
    ASSUME TypeOK, NEW p \in Proc, NEW r \in Reply, Rollback(p, r)
    PROVE  TypeOK'
  BY IdleType DEF TypeOK, Rollback, ReleaseLocks

LEMMA StartRevocationType ==
    ASSUME TypeOK, NEW p \in Proc, StartRevocation(p), tx[p].token \in Token
    PROVE  TypeOK'
  <1> DEFINE targets == {u \in InFamily(Family_(p)) : sessions[u].state = "valid"}
  <1>1. targets \in SUBSET Token /\ ScanPC(targets) \in PC
    BY DEF InFamily, ScanPC, PC
  <1>2. tx' = [tx EXCEPT ![p] = [@ EXCEPT !.pc = ScanPC(targets), !.targets = targets]]
    BY DEF StartRevocation
  <1>3. tx' \in [Proc -> Tx]
    <2> HIDE DEF targets
    <2> QED BY <1>1, <1>2, ScanTxType DEF TypeOK
  <1>4. rowLock' \in [Token -> Proc \cup {Null}]
    BY DEF TypeOK, StartRevocation
  <1> QED BY <1>3, <1>4 DEF TypeOK, StartRevocation

LEMMA TypeStep ==
    TypeOK /\ (\A p \in Proc : TxShape(p)) /\ [Next]_vars => TypeOK'
  <1> SUFFICES ASSUME TypeOK, \A p \in Proc : TxShape(p), [Next]_vars
               PROVE  TypeOK'
    OBVIOUS
  <1>1. CASE Tick
    BY <1>1 DEF TypeOK, Tick
  <1>2. ASSUME NEW f \in Family, NEW t \in Token, Issue(f, t) PROVE TypeOK'
    <2>1. NewSession(f, clock) \in Row
      BY DEF TypeOK, NewSession, Row, RowState
    <2> QED BY <1>2, <2>1 DEF TypeOK, Issue
  <1>3. ASSUME NEW p \in Handler, NEW t \in Token, NEW op \in {"rotate", "revoke"},
               Begin(p, op, t)
        PROVE  TypeOK'
    <2>1. [Idle("none") EXCEPT !.pc = "find", !.op = op, !.token = t, !.now = clock] \in Tx
      BY DEF TypeOK, Idle, Tx, PC, Op, Reply
    <2> QED BY <1>3, <2>1 DEF TypeOK, Begin, Proc
  <1>4. ASSUME NEW p \in Cleaner, BeginCleanup(p) PROVE TypeOK'
    <2> DEFINE targets == {t \in Token : Stored(t) /\ sessions[t].expiresAt < clock}
    <2>1. targets \in SUBSET Token /\ ScanPC(targets) \in PC
      BY DEF ScanPC, PC
    <2>2. tx' = [tx EXCEPT ![p] =
                    [Idle("none") EXCEPT !.pc = ScanPC(targets),
                                         !.op = "cleanup", !.now = clock,
                                         !.targets = targets]]
      BY <1>4 DEF BeginCleanup
    <2>3. tx' \in [Proc -> Tx]
      <3> HIDE DEF targets
      <3> QED BY <2>1, <2>2 DEF TypeOK, Idle, Tx, Op, Reply, Proc
    <2> QED BY <1>4, <2>3 DEF TypeOK, BeginCleanup
  <1>5. ASSUME NEW p \in Proc, FindFamily(p) PROVE TypeOK'
    <2>1. CASE Rollback(p, UnknownReply(tx[p].op))
      <3>1. UnknownReply(tx[p].op) \in Reply
        BY DEF UnknownReply, Reply
      <3> QED BY <2>1, <3>1, RollbackType
    <2>2. CASE /\ tx' = [tx EXCEPT ![p].pc = "family"]
               /\ UNCHANGED <<clock, sessions, familyLock, rowLock>>
      BY <2>2 DEF TypeOK, Tx, PC
    <2> QED BY <1>5, <2>1, <2>2 DEF FindFamily
  <1>6. ASSUME NEW p \in Proc, LockFamily(p) PROVE TypeOK'
    <2>1. tx' \in [Proc -> Tx]
      BY <1>6 DEF TypeOK, LockFamily, Tx, PC
    <2>2. familyLock' \in [Family -> Proc \cup {Null}]
      BY <1>6 DEF TypeOK, LockFamily
    <2> QED BY <1>6, <2>1, <2>2 DEF TypeOK, LockFamily
  <1>7. ASSUME NEW p \in Proc, LockRow(p) PROVE TypeOK'
    <2>0. tx[p].token \in Token
      BY <1>7 DEF LockRow, TxShape
    <2>1. CASE Rollback(p, UnknownReply(tx[p].op))
      <3>1. UnknownReply(tx[p].op) \in Reply
        BY DEF UnknownReply, Reply
      <3> QED BY <2>1, <3>1, RollbackType
    <2>2. CASE \E r \in {"invalid", "conflict", "expired"} : Rollback(p, r)
      BY <2>2, RollbackType DEF Reply
    <2>3. CASE StartRevocation(p)
      BY <2>0, <2>3, StartRevocationType
    <2>4. CASE \E next \in Fresh : InsertSuccessor(p, next)
      <3>0. PICK next \in Fresh : InsertSuccessor(p, next)
        BY <2>4
      <3>1. tx' \in [Proc -> Tx]
        <4>1. next \in Token /\ tx[p] \in Tx
          BY DEF Fresh, TypeOK
        <4>2. [tx[p] EXCEPT !.pc = "commit", !.next = next] \in Tx
          BY <4>1, NextTxType
        <4> QED BY <3>0, <4>2 DEF TypeOK, InsertSuccessor
      <3> QED BY <3>0, <3>1 DEF TypeOK, InsertSuccessor
    <2> QED BY <1>7, <2>1, <2>2, <2>3, <2>4 DEF LockRow, RotateRow
  <1>8. ASSUME NEW p \in Proc, NEW u \in Token, ScanRow(p, u) PROVE TypeOK'
    <2>1. ScanPC(tx[p].targets \ {u}) \in PC
      BY DEF ScanPC, PC
    <2>2. tx' \in [Proc -> Tx]
      <3> DEFINE rest == tx[p].targets \ {u}
      <3>1. tx[p] \in Tx /\ rest \in SUBSET Token
        BY DEF TypeOK, Tx
      <3>2. /\ [tx[p] EXCEPT !.pc = ScanPC(rest), !.targets = rest] \in Tx
            /\ [tx[p] EXCEPT !.pc = ScanPC(rest), !.targets = rest,
                             !.written = tx[p].written \cup {u}] \in Tx
        BY <2>1, <3>1, ScanTxType, WriteTxType
      <3>3. tx' = [tx EXCEPT ![p] = [tx[p] EXCEPT !.pc = ScanPC(rest), !.targets = rest]]
            \/ tx' = [tx EXCEPT ![p] = [tx[p] EXCEPT !.pc = ScanPC(rest), !.targets = rest,
                                                    !.written = tx[p].written \cup {u}]]
        BY <1>8, Zenon DEF ScanRow
      <3> HIDE DEF rest
      <3> QED BY <3>2, <3>3 DEF TypeOK
    <2> QED BY <1>8, <2>2 DEF TypeOK, ScanRow
  <1>9. ASSUME NEW p \in Proc, CommitRotation(p) PROVE TypeOK'
    <2>1. NewSession(Family_(p), tx[p].now) \in Row
      BY <1>9 DEF TypeOK, NewSession, Row, RowState, Tx, Family_, TxShape, CommitRotation
    <2>2. sessions' \in [Token -> Row]
      BY <1>9, <2>1 DEF TypeOK, CommitRotation, Row, Tx
    <2>3. tx' \in [Proc -> Tx]
      BY <1>9, IdleType DEF TypeOK, CommitRotation, Committed, Reply
    <2> QED BY <1>9, <2>2, <2>3 DEF TypeOK, CommitRotation, Committed, ReleaseLocks
  <1>10. ASSUME NEW p \in Proc, CommitRevocation(p) PROVE TypeOK'
    <2>2. sessions' \in [Token -> Row]
      BY <1>10 DEF TypeOK, CommitRevocation, Row, RowState
    <2>3. tx' \in [Proc -> Tx]
      BY <1>10, IdleType DEF TypeOK, CommitRevocation, Committed, Reply
    <2> QED BY <1>10, <2>2, <2>3 DEF TypeOK, CommitRevocation, Committed, ReleaseLocks
  <1>11. ASSUME NEW p \in Proc, CommitCleanup(p) PROVE TypeOK'
    <2>2. sessions' \in [Token -> Row]
      BY <1>11 DEF TypeOK, CommitCleanup, Row, RowState
    <2>3. tx' \in [Proc -> Tx]
      BY <1>11, IdleType DEF TypeOK, CommitCleanup, Committed, Reply
    <2> QED BY <1>11, <2>2, <2>3 DEF TypeOK, CommitCleanup, Committed, ReleaseLocks
  <1>12. ASSUME NEW p \in Proc, Fail(p) PROVE TypeOK'
    BY <1>12, RollbackType DEF Fail, Reply
  <1>13. CASE UNCHANGED vars
    BY <1>13 DEF TypeOK, vars
  <1> QED BY <1>1, <1>2, <1>3, <1>4, <1>5, <1>6, <1>7, <1>8, <1>9, <1>10,
             <1>11, <1>12, <1>13 DEF Next, Step

-----------------------------------------------------------------------------
(* Steps that write no row: it is enough to look at the process that moves. *)

LEMMA IdleProcInv ==
    ASSUME TypeOK, TypeOK', NEW p \in Proc, NEW r, tx'[p] = Idle(r)
    PROVE  ProcInv(p)' /\ tx'[p].next = Null
  BY DEF ProcInv, TxShape, FamilyWriterHoldsLock, WrittenRowsLocked,
         RotationReady, RevocationCovers, CleanupCovers, InsideFamily,
         Rotating, Revoking, Cleaning, Idle, TypeOK

LEMMA OtherProcQuiet ==
    ASSUME IInv, TypeOK', NEW q \in Proc, tx'[q] = tx[q],
           UNCHANGED <<clock, sessions>>,
           \A f \in Family : familyLock[f] = q => familyLock'[f] = q,
           \A t \in Token : rowLock[t] = q => rowLock'[t] = q
    PROVE  ProcInv(q)'
  <1>1. ProcInv(q) /\ tx[q] \in Tx
    BY DEF IInv, TypeOK
  <1>2. TxShape(q)'
    BY <1>1 DEF ProcInv, TxShape, Rotating
  <1>3. FamilyWriterHoldsLock(q)'
    <2> SUFFICES ASSUME InsideFamily(q)' PROVE (familyLock[Family_(q)] = q)'
      BY DEF FamilyWriterHoldsLock
    <2>1. InsideFamily(q) /\ familyLock[Family_(q)] = q
      BY <1>1 DEF ProcInv, FamilyWriterHoldsLock, InsideFamily
    <2>2. Family_(q) \in Family /\ Family_(q)' = Family_(q)
      BY <1>1, <2>1 DEF ProcInv, TxShape, InsideFamily, Family_, IInv, RowShape, Tx, Op
    <2> QED BY <2>1, <2>2
  <1>4. WrittenRowsLocked(q)'
    BY <1>1 DEF ProcInv, WrittenRowsLocked, Revoking, Family_, Stored, Tx
  <1>5. RotationReady(q)'
    BY <1>1 DEF ProcInv, RotationReady, Rotating, Live, Tx, TxShape
  <1>6. RevocationCovers(q)'
    BY <1>1 DEF ProcInv, RevocationCovers, Revoking, InFamily, Family_
  <1>7. CleanupCovers(q)'
    BY <1>1 DEF ProcInv, CleanupCovers, Cleaning, Stored
  <1> QED BY <1>2, <1>3, <1>4, <1>5, <1>6, <1>7 DEF ProcInv

LEMMA QuietStep ==
    ASSUME IInv, TypeOK', NEW p \in Proc, UNCHANGED <<clock, sessions>>,
           \A q \in Proc \ {p} :
              /\ tx'[q] = tx[q]
              /\ \A f \in Family : familyLock[f] = q => familyLock'[f] = q
              /\ \A t \in Token : rowLock[t] = q => rowLock'[t] = q,
           ProcInv(p)',
           tx'[p].next # Null =>
              \A q \in Proc \ {p} : tx[q].next # tx'[p].next
    PROVE  IInv'
  <1>1. \A q \in Proc : ProcInv(q)'
    BY OtherProcQuiet
  <1>2. RowShape'
    BY DEF IInv, RowShape
  <1>3. SuccessorsDistinct'
    BY DEF IInv, SuccessorsDistinct
  <1>4. AtMostOneLive' /\ RevocationIsTotal' /\ ChainIsIntact'
    BY DEF IInv, AtMostOneLive, RevocationIsTotal, ChainIsIntact, Live, Stored
  <1> QED BY <1>1, <1>2, <1>3, <1>4 DEF IInv

LEMMA RollbackStep ==
    ASSUME IInv, NEW p \in Proc, NEW r \in Reply, Rollback(p, r)
    PROVE  IInv'
  <1>1. TypeOK'
    BY RollbackType DEF IInv
  <1>2. tx'[p] = Idle(r) /\ \A q \in Proc \ {p} : tx'[q] = tx[q]
    BY DEF Rollback, IInv, TypeOK
  <1>3. ProcInv(p)' /\ tx'[p].next = Null
    BY <1>1, <1>2, IdleProcInv DEF IInv
  <1>4. \A q \in Proc \ {p} :
            /\ \A f \in Family : familyLock[f] = q => familyLock'[f] = q
            /\ \A t \in Token : rowLock[t] = q => rowLock'[t] = q
    BY DEF Rollback, ReleaseLocks
  <1> QED BY <1>1, <1>2, <1>3, <1>4, QuietStep DEF Rollback

LEMMA BeginStep ==
    ASSUME IInv, TypeOK', NEW p \in Proc, NEW t \in Token,
           NEW op \in {"rotate", "revoke"}, Begin(p, op, t)
    PROVE  IInv'
  <1>1. tx'[p] = [Idle("none") EXCEPT !.pc = "find", !.op = op,
                                      !.token = t, !.now = clock]
        /\ \A q \in Proc \ {p} : tx'[q] = tx[q]
    BY DEF Begin, IInv, TypeOK
  <1>2. /\ tx'[p].pc = "find" /\ tx'[p].op = op /\ tx'[p].token = t
        /\ tx'[p].now = clock /\ tx'[p].next = Null
        /\ tx'[p].targets = {} /\ tx'[p].written = {}
    BY <1>1 DEF Idle
  <1>3. ProcInv(p)'
    <2>1. TxShape(p)'
      BY <1>2 DEF TxShape, Begin, IInv, RowShape, TypeOK
    <2> QED BY <1>2, <2>1 DEF ProcInv, FamilyWriterHoldsLock, WrittenRowsLocked,
            RotationReady, RevocationCovers, CleanupCovers, InsideFamily,
            Rotating, Revoking, Cleaning
  <1> QED BY <1>1, <1>2, <1>3, QuietStep DEF Begin

LEMMA BeginCleanupStep ==
    ASSUME IInv, TypeOK', NEW p \in Proc, BeginCleanup(p)
    PROVE  IInv'
  <1> DEFINE targets == {t \in Token : Stored(t) /\ sessions[t].expiresAt < clock}
  <1>1. /\ tx'[p] = [Idle("none") EXCEPT !.pc = ScanPC(targets),
                                       !.op = "cleanup", !.now = clock,
                                       !.targets = targets]
        /\ \A q \in Proc \ {p} : tx'[q] = tx[q]
        /\ UNCHANGED <<clock, sessions, familyLock, rowLock>>
    BY DEF BeginCleanup, IInv, TypeOK
  <1>2. /\ tx'[p].pc = ScanPC(targets) /\ tx'[p].op = "cleanup"
        /\ tx'[p].now = clock /\ tx'[p].next = Null
        /\ tx'[p].targets = targets /\ tx'[p].written = {}
    BY <1>1 DEF Idle
  <1>3. /\ tx'[p].pc \in {"scan", "commit"}
        /\ tx'[p].targets # {} => tx'[p].pc = "scan"
    BY <1>2 DEF ScanPC
  <1>4. \A u \in targets : \A t \in Token :
            Stored(t) /\ sessions[t].replacedBy = u => t \in targets
    <2> SUFFICES ASSUME NEW u \in targets, NEW t \in Token, Stored(t),
                        sessions[t].replacedBy = u
                 PROVE  sessions[t].expiresAt < clock
      OBVIOUS
    <2>1. sessions[t] \in Row /\ sessions[u] \in Row /\ u \in Token
      BY DEF IInv, TypeOK
    <2>2. sessions[t].consumedAt # Null
      BY <2>1 DEF IInv, RowShape
    <2>3. sessions[u].expiresAt >= sessions[t].expiresAt
      BY <2>2 DEF IInv, ChainIsIntact
    <2> QED BY <2>1, <2>3 DEF IInv, TypeOK, Row
  <1>5. ProcInv(p)'
    <2> HIDE DEF targets
    <2>1. TxShape(p)'
      BY <1>1, <1>2, <1>3 DEF TxShape, IInv, TypeOK
    <2>2. FamilyWriterHoldsLock(p)' /\ WrittenRowsLocked(p)'
          /\ RotationReady(p)' /\ RevocationCovers(p)'
      BY <1>2, <1>3 DEF FamilyWriterHoldsLock, WrittenRowsLocked, RotationReady,
         RevocationCovers, InsideFamily, Rotating, Revoking
    <2>3. CleanupCovers(p)'
      <3>1. \A u \in targets : sessions[u].state # "absent"
        BY DEF targets, Stored
      <3> QED BY <1>1, <1>2, <1>4, <3>1 DEF CleanupCovers, Cleaning, Stored
    <2> QED BY <2>1, <2>2, <2>3 DEF ProcInv
  <1> QED BY <1>1, <1>2, <1>5, QuietStep

LEMMA UnknownReplyType == \A op : UnknownReply(op) \in Reply
  BY DEF UnknownReply, Reply

LEMMA FindFamilyStep ==
    ASSUME IInv, TypeOK', NEW p \in Proc, FindFamily(p)
    PROVE  IInv'
  <1>1. CASE Rollback(p, UnknownReply(tx[p].op))
    BY <1>1, UnknownReplyType, RollbackStep
  <1>2. CASE /\ tx' = [tx EXCEPT ![p].pc = "family"]
             /\ UNCHANGED <<clock, sessions, familyLock, rowLock>>
    <2>1. /\ tx'[p] = [tx[p] EXCEPT !.pc = "family"]
          /\ \A q \in Proc \ {p} : tx'[q] = tx[q]
      BY <1>2 DEF IInv, TypeOK
    <2>2. tx[p] \in Tx /\ tx[p].pc = "find" /\ ProcInv(p)
      BY DEF IInv, TypeOK, FindFamily
    <2>3. /\ tx'[p].pc = "family" /\ tx'[p].op = tx[p].op
          /\ tx'[p].token = tx[p].token /\ tx'[p].now = tx[p].now
          /\ tx'[p].next = Null /\ tx'[p].targets = {} /\ tx'[p].written = {}
      BY <2>1, <2>2 DEF Tx, ProcInv, TxShape, Rotating
    <2>4. ProcInv(p)'
      BY <1>2, <2>2, <2>3 DEF ProcInv, TxShape, FamilyWriterHoldsLock,
         WrittenRowsLocked, RotationReady, RevocationCovers, CleanupCovers,
         InsideFamily, Rotating, Revoking, Cleaning
    <2> QED BY <1>2, <2>1, <2>3, <2>4, QuietStep
  <1> QED BY <1>1, <1>2 DEF FindFamily

LEMMA LockFamilyStep ==
    ASSUME IInv, TypeOK', NEW p \in Proc, LockFamily(p)
    PROVE  IInv'
  <1>1. /\ tx'[p] = [tx[p] EXCEPT !.pc = "row"]
        /\ \A q \in Proc \ {p} : tx'[q] = tx[q]
        /\ UNCHANGED <<clock, sessions, rowLock>>
    BY DEF IInv, TypeOK, LockFamily
  <1>2. tx[p] \in Tx /\ tx[p].pc = "family" /\ ProcInv(p)
    BY DEF IInv, TypeOK, LockFamily
  <1>3. /\ tx'[p].pc = "row" /\ tx'[p].op = tx[p].op
        /\ tx'[p].token = tx[p].token /\ tx'[p].now = tx[p].now
        /\ tx'[p].next = Null /\ tx'[p].targets = {} /\ tx'[p].written = {}
    BY <1>1, <1>2 DEF Tx, ProcInv, TxShape, Rotating
  <1>4. Family_(p) \in Family /\ Family_(p)' = Family_(p)
    BY <1>1, <1>2, <1>3 DEF ProcInv, TxShape, Family_, IInv, RowShape
  <1>5. /\ familyLock'[Family_(p)] = p
        /\ \A q \in Proc \ {p} : \A f \in Family :
              familyLock[f] = q => familyLock'[f] = q
    BY <1>4 DEF LockFamily, IInv, TypeOK, Proc
  <1>6. ProcInv(p)'
    <2>1. TxShape(p)'
      BY <1>1, <1>2, <1>3 DEF ProcInv, TxShape, Rotating
    <2>2. FamilyWriterHoldsLock(p)'
      BY <1>4, <1>5 DEF FamilyWriterHoldsLock
    <2> QED BY <1>3, <2>1, <2>2 DEF ProcInv, WrittenRowsLocked, RotationReady,
            RevocationCovers, CleanupCovers, Rotating, Revoking, Cleaning
  <1> QED BY <1>1, <1>3, <1>5, <1>6, QuietStep

LEMMA StartRevocationStep ==
    ASSUME IInv, TypeOK', NEW p \in Proc, tx[p].pc = "row",
           rowLock[tx[p].token] = Null, StartRevocation(p)
    PROVE  IInv'
  <1> DEFINE targets == {u \in InFamily(Family_(p)) : sessions[u].state = "valid"}
  <1>1. /\ tx'[p] = [tx[p] EXCEPT !.pc = ScanPC(targets), !.targets = targets]
        /\ \A q \in Proc \ {p} : tx'[q] = tx[q]
        /\ UNCHANGED <<clock, sessions, familyLock>>
    BY DEF IInv, TypeOK, StartRevocation
  <1>2. tx[p] \in Tx /\ ProcInv(p)
    BY DEF IInv, TypeOK
  <1> HIDE DEF targets
  <1>3. /\ tx'[p].pc = ScanPC(targets) /\ tx'[p].op = tx[p].op
        /\ tx'[p].token = tx[p].token /\ tx'[p].now = tx[p].now
        /\ tx'[p].next = Null /\ tx'[p].targets = targets
        /\ tx'[p].written = {}
    BY <1>1, <1>2 DEF Tx, ProcInv, TxShape, Rotating
  <1>4. /\ tx'[p].pc \in {"scan", "commit"}
        /\ tx'[p].targets # {} => tx'[p].pc = "scan"
        /\ tx'[p].op \in {"rotate", "revoke"}
    BY <1>2, <1>3 DEF ScanPC, ProcInv, TxShape
  <1>5. Family_(p)' = Family_(p)
    BY <1>1, <1>3 DEF Family_
  <1>6. \A q \in Proc \ {p} : \A t \in Token :
            rowLock[t] = q => rowLock'[t] = q
    BY DEF StartRevocation, IInv, TypeOK
  <1>7. ProcInv(p)'
    <2>1. TxShape(p)'
      BY <1>1, <1>2, <1>3, <1>4 DEF ProcInv, TxShape, Rotating
    <2>2. FamilyWriterHoldsLock(p)'
      BY <1>1, <1>2, <1>5 DEF ProcInv, FamilyWriterHoldsLock, InsideFamily
    <2>3. RevocationCovers(p)'
      <3>1. InFamily(Family_(p))' = InFamily(Family_(p))
        BY <1>1, <1>5 DEF InFamily
      <3> QED BY <1>1, <1>3, <3>1 DEF RevocationCovers, targets
    <2> QED BY <1>3, <1>4, <2>1, <2>2, <2>3 DEF ProcInv, WrittenRowsLocked,
            RotationReady, CleanupCovers, Rotating, Cleaning
  <1> QED BY <1>1, <1>3, <1>6, <1>7, QuietStep

LEMMA InsertSuccessorStep ==
    ASSUME IInv, TypeOK', NEW p \in Proc, NEW succ \in Fresh,
           tx[p].pc = "row", tx[p].op = "rotate", Live(tx[p].token),
           rowLock[tx[p].token] = Null, InsertSuccessor(p, succ)
    PROVE  IInv'
  <1>1. /\ tx'[p] = [tx[p] EXCEPT !.pc = "commit", !.next = succ]
        /\ \A q \in Proc \ {p} : tx'[q] = tx[q]
        /\ UNCHANGED <<clock, sessions, familyLock>>
    BY DEF IInv, TypeOK, InsertSuccessor
  <1>2. tx[p] \in Tx /\ ProcInv(p) /\ succ \in Token
    BY DEF IInv, TypeOK, Fresh
  <1>3. /\ tx'[p].pc = "commit" /\ tx'[p].op = "rotate"
        /\ tx'[p].token = tx[p].token /\ tx'[p].now = tx[p].now
        /\ tx'[p].next = succ /\ tx'[p].targets = {}
        /\ tx'[p].written = {} /\ succ # Null
    <2>1. tx[p].targets = {} /\ tx[p].written = {}
      BY <1>2 DEF ProcInv, TxShape
    <2>2. succ # Null
      BY <1>2
    <2>3. /\ tx'[p].pc = "commit" /\ tx'[p].next = succ
          /\ tx'[p].op = tx[p].op /\ tx'[p].token = tx[p].token
          /\ tx'[p].now = tx[p].now /\ tx'[p].targets = tx[p].targets
          /\ tx'[p].written = tx[p].written
      <3>1. tx[p] \in Tx
        BY <1>2
      <3>2. tx'[p] = [tx[p] EXCEPT !.pc = "commit", !.next = succ]
        BY <1>1
      <3> QED BY ONLY <3>1, <3>2 DEF Tx
    <2> QED BY <2>1, <2>2, <2>3
  <1>4. tx[p].token \in Token /\ Family_(p)' = Family_(p)
    BY <1>1, <1>2, <1>3 DEF ProcInv, TxShape, Family_
  <1>5. /\ rowLock'[tx[p].token] = p
        /\ \A q \in Proc \ {p} : \A t \in Token :
              rowLock[t] = q => rowLock'[t] = q
    BY <1>4 DEF IInv, TypeOK, InsertSuccessor
  <1>6. /\ sessions[succ].state = "absent"
        /\ \A q \in Proc : tx[q].next # succ
    BY DEF Fresh
  <1>7. ProcInv(p)'
    <2>1. TxShape(p)'
      BY <1>1, <1>2, <1>3 DEF ProcInv, TxShape, Rotating
    <2>2. FamilyWriterHoldsLock(p)'
      BY <1>1, <1>2, <1>4 DEF ProcInv, FamilyWriterHoldsLock, InsideFamily
    <2>3. RotationReady(p)'
      BY <1>1, <1>3, <1>4, <1>5, <1>6 DEF RotationReady, Live
    <2> QED BY <1>3, <2>1, <2>2, <2>3 DEF ProcInv, WrittenRowsLocked,
            RevocationCovers, CleanupCovers, Revoking, Cleaning
  <1> QED BY <1>1, <1>3, <1>5, <1>6, <1>7, QuietStep

LEMMA LockRowStep ==
    ASSUME IInv, TypeOK', NEW p \in Proc, LockRow(p)
    PROVE  IInv'
  <1>0. tx[p].pc = "row" /\ rowLock[tx[p].token] = Null
    BY DEF LockRow
  <1>1. CASE Rollback(p, UnknownReply(tx[p].op))
    BY <1>1, UnknownReplyType, RollbackStep
  <1>2. CASE \E r \in {"invalid", "conflict", "expired"} : Rollback(p, r)
    BY <1>2, RollbackStep DEF Reply
  <1>3. CASE StartRevocation(p)
    BY <1>0, <1>3, StartRevocationStep
  <1>4. CASE /\ tx[p].op = "rotate"
             /\ Live(tx[p].token)
             /\ \E next \in Fresh : InsertSuccessor(p, next)
    BY <1>0, <1>4, InsertSuccessorStep
  <1> QED BY <1>1, <1>2, <1>3, <1>4 DEF LockRow, RotateRow

LEMMA ScanRowStep ==
    ASSUME IInv, TypeOK', NEW p \in Proc, NEW u \in Token, ScanRow(p, u)
    PROVE  IInv'
  <1> DEFINE rest == tx[p].targets \ {u}
             added == IF Matches(p, u) THEN {u} ELSE {}
  <1>1. tx[p] \in Tx /\ ProcInv(p) /\ tx[p].pc = "scan" /\ u \in tx[p].targets
    BY DEF IInv, TypeOK, ScanRow
  <1>2. /\ \A q \in Proc \ {p} : tx'[q] = tx[q]
        /\ UNCHANGED <<clock, sessions, familyLock>>
    BY DEF IInv, TypeOK, ScanRow
  <1>3. /\ tx'[p].pc = ScanPC(rest) /\ tx'[p].op = tx[p].op
        /\ tx'[p].token = tx[p].token /\ tx'[p].now = tx[p].now
        /\ tx'[p].next = tx[p].next /\ tx'[p].targets = rest
        /\ tx'[p].written = tx[p].written \cup added
    <2>1. CASE Matches(p, u)
      <3>1. tx'[p] = [tx[p] EXCEPT !.pc = ScanPC(rest), !.targets = rest,
                                   !.written = tx[p].written \cup {u}]
        BY <2>1 DEF ScanRow, IInv, TypeOK
      <3> HIDE DEF rest
      <3> QED BY <1>1, <2>1, <3>1 DEF Tx
    <2>2. CASE ~Matches(p, u)
      <3>1. tx'[p] = [tx[p] EXCEPT !.pc = ScanPC(rest), !.targets = rest]
        BY <2>2 DEF ScanRow, IInv, TypeOK
      <3> HIDE DEF rest
      <3> QED BY <1>1, <2>2, <3>1 DEF Tx
    <2> QED BY <2>1, <2>2
  <1>4. /\ tx'[p].pc \in {"scan", "commit"}
        /\ tx'[p].targets # {} => tx'[p].pc = "scan"
    BY <1>3 DEF ScanPC
  <1>5. tx[p].next = Null /\ tx[p].op \in {"rotate", "revoke", "cleanup"}
    BY <1>1 DEF ProcInv, TxShape, Rotating, Tx, Op
  <1>6. /\ \A w \in tx[p].written \cup added : rowLock'[w] = p
        /\ \A q \in Proc \ {p} : \A t \in Token :
              rowLock[t] = q => rowLock'[t] = q
    BY <1>1 DEF ProcInv, WrittenRowsLocked, ScanRow, IInv, TypeOK, Tx
  <1>7. Family_(p)' = Family_(p)
    BY <1>2, <1>3 DEF Family_
  <1>8. \A w \in added :
            /\ Stored(w)
            /\ tx[p].op # "cleanup" => sessions[w].state = "valid"
    BY DEF Matches, Stored
  <1>9. ProcInv(p)'
    <2> HIDE DEF rest, added
    <2>1. TxShape(p)'
      <3>1. TxShape(p)
        BY <1>1 DEF ProcInv
      <3> QED BY <1>1, <1>2, <1>3, <1>4, <1>5, <3>1 DEF TxShape
    <2>2. FamilyWriterHoldsLock(p)'
      <3>1. FamilyWriterHoldsLock(p)
        BY <1>1 DEF ProcInv
      <3>2. InsideFamily(p)' => InsideFamily(p)
        BY <1>1, <1>3, <1>4 DEF InsideFamily
      <3> QED BY <1>2, <1>7, <3>1, <3>2 DEF FamilyWriterHoldsLock
    <2>3. WrittenRowsLocked(p)'
      <3>1. Revoking(p)' => Revoking(p) /\ tx[p].op # "cleanup"
        BY <1>1, <1>3, <1>5 DEF Revoking
      <3>2. WrittenRowsLocked(p)
        BY <1>1 DEF ProcInv
      <3> SUFFICES ASSUME NEW w \in tx[p].written \cup added
                   PROVE  /\ rowLock'[w] = p
                          /\ Stored(w)'
                          /\ Revoking(p)' => sessions'[w].state = "valid"
        BY <1>3 DEF WrittenRowsLocked
      <3>3. (Stored(w)' <=> Stored(w)) /\ sessions'[w] = sessions[w]
        BY <1>2 DEF Stored
      <3>4. rowLock'[w] = p
        BY <1>6
      <3>5. Stored(w)
        BY <1>8, <3>2 DEF WrittenRowsLocked
      <3>6. Revoking(p)' => sessions[w].state = "valid"
        BY <1>8, <3>1, <3>2 DEF WrittenRowsLocked
      <3> QED BY <3>3, <3>4, <3>5, <3>6
    <2>4. RotationReady(p)'
      BY <1>3, <1>5 DEF RotationReady, Rotating
    <2>5. RevocationCovers(p)'
      <3>1. InFamily(Family_(p))' = InFamily(Family_(p))
        BY <1>2, <1>7 DEF InFamily
      <3>2. ASSUME tx[p].op # "cleanup", NEW w \in Token,
                   sessions[w].state = "valid",
                   w \in tx[p].targets \cup tx[p].written
            PROVE  w \in rest \cup tx[p].written \cup added
        BY <3>2 DEF rest, added, Matches
      <3>3. Revoking(p)' => Revoking(p) /\ tx[p].op # "cleanup"
        BY <1>1, <1>3, <1>5 DEF Revoking
      <3>4. rest \cup added \subseteq tx[p].targets
        BY <1>1 DEF rest, added
      <3> QED BY <1>1, <1>2, <1>3, <3>1, <3>2, <3>3, <3>4
              DEF ProcInv, RevocationCovers, InFamily
    <2>6. CleanupCovers(p)'
      <3>1. ASSUME tx[p].op = "cleanup", NEW w \in Token, Stored(w),
                   w \in tx[p].targets \cup tx[p].written
            PROVE  w \in rest \cup tx[p].written \cup added
        BY <3>1 DEF rest, added, Matches
      <3>2. rest \cup added \subseteq tx[p].targets
        BY <1>1 DEF rest, added
      <3> QED BY <1>1, <1>2, <1>3, <3>1, <3>2 DEF ProcInv, CleanupCovers, Cleaning, Stored
    <2> QED BY <2>1, <2>2, <2>3, <2>4, <2>5, <2>6 DEF ProcInv
  <1> QED BY <1>2, <1>3, <1>5, <1>6, <1>9, QuietStep

LEMMA TickStep == ASSUME IInv, TypeOK', Tick PROVE IInv'
  <1>1. clock \in Nat /\ clock' = clock + 1
        /\ UNCHANGED <<sessions, tx, familyLock, rowLock>>
    BY DEF IInv, TypeOK, Tick
  <1>2. RowShape'
    BY <1>1 DEF IInv, TypeOK, RowShape, Row
  <1>3. \A p \in Proc : ProcInv(p)'
    <2> SUFFICES ASSUME NEW p \in Proc PROVE ProcInv(p)'
      OBVIOUS
    <2>1. ProcInv(p) /\ tx[p].now \in Nat
      BY DEF IInv, TypeOK, Tx
    <2>2. TxShape(p)'
      BY <1>1, <2>1 DEF ProcInv, TxShape, Rotating
    <2>3. FamilyWriterHoldsLock(p)'
      BY <1>1, <2>1 DEF ProcInv, FamilyWriterHoldsLock, InsideFamily, Family_
    <2>4. WrittenRowsLocked(p)' /\ RotationReady(p)'
      BY <1>1, <2>1 DEF ProcInv, WrittenRowsLocked, RotationReady, Revoking,
         Rotating, Stored, Live
    <2>5. RevocationCovers(p)' /\ CleanupCovers(p)'
      BY <1>1, <2>1 DEF ProcInv, RevocationCovers, CleanupCovers, Revoking,
         Cleaning, InFamily, Family_, Stored
    <2> QED BY <2>2, <2>3, <2>4, <2>5 DEF ProcInv
  <1>4. SuccessorsDistinct' /\ AtMostOneLive' /\ RevocationIsTotal' /\ ChainIsIntact'
    BY <1>1 DEF IInv, SuccessorsDistinct, AtMostOneLive, RevocationIsTotal,
       ChainIsIntact, Live, Stored
  <1> QED BY <1>2, <1>3, <1>4 DEF IInv

-----------------------------------------------------------------------------
(* Steps that write rows: a login and the three kinds of commit.            *)

LEMMA IssueStep ==
    ASSUME IInv, TypeOK', NEW f \in Family, NEW t \in Token, Issue(f, t)
    PROVE  IInv'
  <1>1. /\ sessions'[t] = NewSession(f, clock)
        /\ \A u \in Token \ {t} : sessions'[u] = sessions[u]
        /\ UNCHANGED <<clock, tx, familyLock, rowLock>>
    BY DEF IInv, TypeOK, Issue
  <1>2. /\ sessions[t].state = "absent"
        /\ \A q \in Proc : tx[q].next # t
        /\ \A u \in Token : sessions[u].family # f
    BY DEF Issue, Fresh, InFamily
  <1>3. /\ sessions'[t].state = "valid" /\ sessions'[t].family = f
        /\ sessions'[t].expiresAt = clock + TTL
        /\ sessions'[t].consumedAt = Null /\ sessions'[t].replacedBy = Null
    BY <1>1 DEF NewSession
  <1>4. RowShape'
    BY <1>1, <1>3 DEF IInv, TypeOK, RowShape
  <1>5. \A q \in Proc : ProcInv(q)'
    <2> SUFFICES ASSUME NEW q \in Proc PROVE ProcInv(q)'
      OBVIOUS
    <2>1. ProcInv(q) /\ tx[q] \in Tx /\ tx'[q] = tx[q]
      BY <1>1 DEF IInv, TypeOK
    <2>2. tx[q].op \in {"rotate", "revoke"} =>
              /\ tx[q].token \in Token /\ tx[q].token # t
              /\ sessions'[tx[q].token] = sessions[tx[q].token]
              /\ Family_(q)' = Family_(q) /\ Family_(q) # f
      BY <1>1, <1>2, <2>1 DEF ProcInv, TxShape, Family_
    <2>3. TxShape(q)'
      BY <1>1, <2>1, <2>2 DEF ProcInv, TxShape, Rotating
    <2>4. FamilyWriterHoldsLock(q)'
      BY <1>1, <2>1, <2>2 DEF ProcInv, TxShape, FamilyWriterHoldsLock, InsideFamily, Tx, Op
    <2>5. WrittenRowsLocked(q)'
      BY <1>1, <1>2, <2>1 DEF ProcInv, WrittenRowsLocked, Revoking, Stored, Tx
    <2>6. RotationReady(q)'
      BY <1>1, <1>2, <2>1, <2>2 DEF ProcInv, RotationReady, Rotating, Live, Tx
    <2>7. RevocationCovers(q)'
      <3> SUFFICES ASSUME Revoking(q) PROVE RevocationCovers(q)'
        BY <2>1 DEF RevocationCovers, Revoking
      <3>1. tx[q].op \in {"rotate", "revoke"}
        BY <2>1 DEF Revoking, ProcInv, TxShape, Tx, Op
      <3>2. InFamily(Family_(q))' = InFamily(Family_(q))
        <4>1. \A u \in Token :
                  (sessions'[u].family = Family_(q)) <=> (sessions[u].family = Family_(q))
          <5>1. sessions[t].family = Null /\ Family_(q) \in Family
            BY <1>2, <2>1, <3>1 DEF IInv, RowShape, AbsentRow, ProcInv, TxShape, Family_
          <5> QED BY <1>1, <1>3, <2>2, <3>1, <5>1
        <4> QED BY <2>2, <3>1, <4>1 DEF InFamily
      <3>3. t \notin InFamily(Family_(q))
        BY <1>3, <2>2, <3>1, <3>2 DEF InFamily
      <3> QED BY <1>1, <2>1, <3>2, <3>3 DEF ProcInv, RevocationCovers, InFamily
    <2>8. CleanupCovers(q)'
      BY <1>1, <1>2, <1>3, <2>1 DEF ProcInv, CleanupCovers, Cleaning, Stored, Tx
    <2> QED BY <2>3, <2>4, <2>5, <2>6, <2>7, <2>8 DEF ProcInv
  <1>6. SuccessorsDistinct'
    BY <1>1 DEF IInv, SuccessorsDistinct
  <1>7. AtMostOneLive' /\ RevocationIsTotal'
    BY <1>1, <1>2, <1>3 DEF IInv, AtMostOneLive, RevocationIsTotal, Live, Stored
  <1>8. ChainIsIntact'
    BY <1>1, <1>2, <1>3 DEF IInv, ChainIsIntact, Stored, TypeOK, Row
  <1> QED BY <1>4, <1>5, <1>6, <1>7, <1>8 DEF IInv

\* What every commit does besides writing rows.
LEMMA CommittedEffect ==
    ASSUME IInv, TypeOK', NEW p \in Proc, NEW r \in Reply, Committed(p, r)
    PROVE  /\ clock' = clock
           /\ ProcInv(p)' /\ tx'[p].next = Null
           /\ \A q \in Proc \ {p} :
                /\ tx'[q] = tx[q]
                /\ \A f \in Family : familyLock[f] = q => familyLock'[f] = q
                /\ \A t \in Token : rowLock[t] = q => rowLock'[t] = q
           /\ SuccessorsDistinct'
  <1>1. PICK s \in {r, "unavailable"} : tx' = [tx EXCEPT ![p] = Idle(s)]
    BY DEF Committed
  <1>2. tx'[p] = Idle(s) /\ \A q \in Proc \ {p} : tx'[q] = tx[q]
    BY <1>1 DEF IInv, TypeOK
  <1>3. ProcInv(p)' /\ tx'[p].next = Null
    BY <1>2, IdleProcInv DEF IInv
  <1>4. \A q \in Proc \ {p} :
            /\ \A f \in Family : familyLock[f] = q => familyLock'[f] = q
            /\ \A t \in Token : rowLock[t] = q => rowLock'[t] = q
    BY DEF Committed, ReleaseLocks
  <1>5. SuccessorsDistinct'
    BY <1>2, <1>3 DEF IInv, SuccessorsDistinct
  <1> QED BY <1>2, <1>3, <1>4, <1>5 DEF Committed

\* The invariant of another process survives a step that keeps its locks,
\* the rows it has locked, the columns of its own token, and the part of the
\* table its running statement covers.
LEMMA OtherProcCommit ==
    ASSUME IInv, TypeOK', clock' = clock, NEW q \in Proc, tx'[q] = tx[q],
           \A f \in Family : familyLock[f] = q => familyLock'[f] = q,
           \A t \in Token : rowLock[t] = q => /\ rowLock'[t] = q
                                             /\ sessions'[t] = sessions[t],
           \A t \in Token : sessions[t].state # "absent" =>
                /\ sessions'[t].state # "absent"
                /\ sessions'[t].family = sessions[t].family
                /\ sessions'[t].expiresAt = sessions[t].expiresAt,
           tx[q].next # Null => sessions'[tx[q].next] = sessions[tx[q].next],
           RevocationCovers(q)', CleanupCovers(q)'
    PROVE  ProcInv(q)'
  <1>1. ProcInv(q) /\ tx[q] \in Tx
    BY DEF IInv, TypeOK
  <1>2. TxShape(q)'
    <2>1. TxShape(q)
      BY <1>1 DEF ProcInv
    <2> QED BY <2>1 DEF TxShape, Rotating
  <1>3. FamilyWriterHoldsLock(q)'
    <2> SUFFICES ASSUME InsideFamily(q)' PROVE (familyLock[Family_(q)] = q)'
      BY DEF FamilyWriterHoldsLock
    <2>1. InsideFamily(q) /\ familyLock[Family_(q)] = q
      BY <1>1 DEF ProcInv, FamilyWriterHoldsLock, InsideFamily
    <2>2. tx[q].token \in Token /\ sessions[tx[q].token].state # "absent"
      BY <1>1, <2>1 DEF ProcInv, TxShape, InsideFamily, Tx, Op
    <2>3. Family_(q) \in Family /\ Family_(q)' = Family_(q)
      BY <2>2 DEF Family_, IInv, RowShape
    <2> QED BY <2>1, <2>3
  <1>4. WrittenRowsLocked(q)'
    BY <1>1 DEF ProcInv, WrittenRowsLocked, Revoking, Stored, Tx
  <1>5. RotationReady(q)'
    BY <1>1 DEF ProcInv, RotationReady, Rotating, Live, Tx, TxShape
  <1> QED BY <1>2, <1>3, <1>4, <1>5 DEF ProcInv

LEMMA CommitRevocationStep ==
    ASSUME IInv, TypeOK', NEW p \in Proc, CommitRevocation(p)
    PROVE  IInv'
  <1> DEFINE W == tx[p].written
  <1>1. Committed(p, IF tx[p].op = "rotate" THEN "reused" ELSE "ok")
        /\ tx[p].pc = "commit" /\ tx[p].op # "cleanup"
        /\ tx[p].op \in {"rotate", "revoke"}
    BY DEF CommitRevocation, Committed
  <1>2. Revoking(p) /\ ProcInv(p) /\ W \subseteq Token /\ tx[p].targets = {}
    BY <1>1 DEF Revoking, CommitRevocation, IInv, TypeOK, ProcInv, TxShape, Tx, Rotating
  <1>3. \A u \in Token :
            /\ u \in W => /\ sessions[u].state = "valid"
                          /\ sessions'[u].state = "revoked"
                          /\ sessions'[u].family = sessions[u].family
                          /\ sessions'[u].expiresAt = sessions[u].expiresAt
                          /\ sessions'[u].consumedAt = sessions[u].consumedAt
                          /\ sessions'[u].replacedBy = sessions[u].replacedBy
            /\ u \notin W => sessions'[u] = sessions[u]
    <2>1. \A u \in Token : sessions[u] \in Row
      BY DEF IInv, TypeOK
    <2> QED BY <1>2, <2>1 DEF CommitRevocation, ProcInv, WrittenRowsLocked, Row
  <1>4. \A u \in W : rowLock[u] = p
    BY <1>2 DEF ProcInv, WrittenRowsLocked
  <1>5. \A u \in InFamily(Family_(p)) : sessions'[u].state # "valid"
    BY <1>2, <1>3 DEF ProcInv, RevocationCovers, InFamily
  <1>6. W \subseteq InFamily(Family_(p))
    BY <1>2 DEF ProcInv, RevocationCovers
  <1>7. /\ clock' = clock
        /\ ProcInv(p)' /\ tx'[p].next = Null
        /\ \A q \in Proc \ {p} :
             /\ tx'[q] = tx[q]
             /\ \A f \in Family : familyLock[f] = q => familyLock'[f] = q
             /\ \A t \in Token : rowLock[t] = q => rowLock'[t] = q
        /\ SuccessorsDistinct'
    BY <1>1, CommittedEffect DEF Reply
  <1> HIDE DEF W
  <1>8. RowShape'
    BY <1>3, <1>7 DEF IInv, RowShape
  <1>9. \A q \in Proc : ProcInv(q)'
    <2> SUFFICES ASSUME NEW q \in Proc \ {p} PROVE ProcInv(q)'
      BY <1>7
    <2>1. ProcInv(q) /\ tx[q] \in Tx /\ tx'[q] = tx[q]
      BY <1>7 DEF IInv, TypeOK
    <2>2. \A u \in Token : rowLock[u] = q => sessions'[u] = sessions[u]
      BY <1>3, <1>4
    <2>3. tx[q].next # Null => sessions'[tx[q].next] = sessions[tx[q].next]
      BY <1>3, <2>1 DEF ProcInv, TxShape, RotationReady, Tx
    <2>4. RevocationCovers(q)'
      <3> SUFFICES ASSUME Revoking(q) PROVE RevocationCovers(q)'
        BY <2>1 DEF RevocationCovers, Revoking
      <3>1. InFamily(Family_(q))' = InFamily(Family_(q))
        <4>1. tx[q].token \in Token
          BY <2>1 DEF Revoking, ProcInv, TxShape, Tx, Op
        <4> QED BY <1>3, <2>1, <4>1 DEF InFamily, Family_
      <3> QED BY <1>3, <2>1, <3>1 DEF ProcInv, RevocationCovers, InFamily
    <2>5. CleanupCovers(q)'
      BY <1>3, <2>1 DEF ProcInv, CleanupCovers, Cleaning, Stored, Tx
    <2> QED BY <1>3, <1>7, <2>1, <2>2, <2>3, <2>4, <2>5, OtherProcCommit
  <1>10. AtMostOneLive'
    BY <1>3 DEF IInv, AtMostOneLive, Live
  <1>11. RevocationIsTotal'
    <2> SUFFICES ASSUME NEW t \in Token, NEW u \in Token,
                        sessions'[t].state = "revoked", Stored(u)',
                        sessions'[u].family = sessions'[t].family
                 PROVE  sessions'[u].state # "valid"
      BY DEF RevocationIsTotal, Stored
    <2>1. CASE t \in W
      BY <1>3, <1>5, <1>6, <2>1 DEF InFamily
    <2>2. CASE t \notin W
      BY <1>3, <2>2 DEF IInv, RevocationIsTotal, Stored
    <2> QED BY <2>1, <2>2
  <1>12. ChainIsIntact'
    BY <1>3 DEF IInv, ChainIsIntact, Stored, TypeOK, Row
  <1> QED BY <1>7, <1>8, <1>9, <1>10, <1>11, <1>12 DEF IInv

LEMMA CommitCleanupStep ==
    ASSUME IInv, TypeOK', NEW p \in Proc, CommitCleanup(p)
    PROVE  IInv'
  <1> DEFINE W == tx[p].written
  <1>1. Committed(p, "ok") /\ tx[p].pc = "commit" /\ tx[p].op = "cleanup"
    BY DEF CommitCleanup, Committed
  <1>2. Cleaning(p) /\ ProcInv(p) /\ W \subseteq Token /\ tx[p].targets = {}
    BY <1>1 DEF Cleaning, IInv, TypeOK, ProcInv, TxShape, Tx
  <1>3. \A u \in W : rowLock[u] = p /\ Stored(u)
    BY <1>2 DEF ProcInv, WrittenRowsLocked
  \* ON DELETE SET NULL finds no row outside W.
  <1>4. \A u \in Token \ W : Stored(u) => sessions[u].replacedBy \notin W
    BY <1>2 DEF ProcInv, CleanupCovers
  <1>5. \A u \in Token :
            /\ sessions'[u].family = sessions[u].family
            /\ sessions'[u].expiresAt = sessions[u].expiresAt
            /\ sessions'[u].consumedAt = sessions[u].consumedAt
            /\ sessions'[u].replacedBy \in {sessions[u].replacedBy, Null}
            /\ u \in W => sessions'[u].state = "deleted"
            /\ u \notin W => sessions'[u].state = sessions[u].state
            /\ u \notin W /\ Stored(u) => sessions'[u] = sessions[u]
    <2>1. \A u \in Token : sessions[u] \in Row
      BY DEF IInv, TypeOK
    <2> QED BY <1>4, <2>1 DEF CommitCleanup, Row
  <1>6. /\ clock' = clock
        /\ ProcInv(p)' /\ tx'[p].next = Null
        /\ \A q \in Proc \ {p} :
             /\ tx'[q] = tx[q]
             /\ \A f \in Family : familyLock[f] = q => familyLock'[f] = q
             /\ \A t \in Token : rowLock[t] = q => rowLock'[t] = q
        /\ SuccessorsDistinct'
    BY <1>1, CommittedEffect DEF Reply
  <1> HIDE DEF W
  <1>7. \A u \in Token : sessions[u].state = "absent" => sessions'[u] = sessions[u]
    <2> SUFFICES ASSUME NEW u \in Token, sessions[u].state = "absent"
                 PROVE  sessions'[u] = sessions[u]
      OBVIOUS
    <2>1. sessions[u].replacedBy = Null /\ u \notin W /\ Null \notin W
      BY <1>2, <1>3 DEF IInv, RowShape, AbsentRow, Stored
    <2> QED BY <2>1 DEF CommitCleanup, W
  <1>8. RowShape'
    BY <1>3, <1>5, <1>6, <1>7 DEF IInv, RowShape, Stored
  <1>9. \A u \in Token : Stored(u)' => Stored(u) /\ u \notin W /\ sessions'[u] = sessions[u]
    BY <1>5 DEF Stored
  <1>10. \A q \in Proc : ProcInv(q)'
    <2> SUFFICES ASSUME NEW q \in Proc \ {p} PROVE ProcInv(q)'
      BY <1>6
    <2>1. ProcInv(q) /\ tx[q] \in Tx /\ tx'[q] = tx[q]
      BY <1>6 DEF IInv, TypeOK
    <2>2. \A u \in Token : rowLock[u] = q => u \notin W
      BY <1>3
    <2>3. tx[q].next # Null => sessions'[tx[q].next] = sessions[tx[q].next]
      BY <1>7, <2>1 DEF ProcInv, TxShape, RotationReady, Tx
    <2>4. RevocationCovers(q)'
      <3> SUFFICES ASSUME Revoking(q) PROVE RevocationCovers(q)'
        BY <2>1 DEF RevocationCovers, Revoking
      <3>1. InFamily(Family_(q))' = InFamily(Family_(q))
        <4>1. tx[q].token \in Token
          BY <2>1 DEF Revoking, ProcInv, TxShape, Tx, Op
        <4> QED BY <1>5, <2>1, <4>1 DEF InFamily, Family_
      <3> QED BY <1>5, <2>1, <3>1 DEF ProcInv, RevocationCovers, InFamily
    <2>5. CleanupCovers(q)'
      BY <1>5, <1>9, <2>1 DEF ProcInv, CleanupCovers, Cleaning, Tx
    <2>6. WrittenRowsLocked(q)'
      BY <1>5, <1>6, <2>1, <2>2 DEF ProcInv, WrittenRowsLocked, Revoking, Stored, Tx
    <2>7. RotationReady(q)'
      BY <1>5, <1>6, <2>1, <2>2, <2>3
         DEF ProcInv, RotationReady, Rotating, Live, Tx, TxShape
    <2>8. TxShape(q)'
      <3>1. TxShape(q)
        BY <2>1 DEF ProcInv
      <3> QED BY <1>5, <1>6, <2>1, <3>1 DEF TxShape, Rotating
    <2>9. FamilyWriterHoldsLock(q)'
      <3> SUFFICES ASSUME InsideFamily(q)' PROVE (familyLock[Family_(q)] = q)'
        BY DEF FamilyWriterHoldsLock
      <3>1. InsideFamily(q) /\ familyLock[Family_(q)] = q
        BY <2>1 DEF ProcInv, FamilyWriterHoldsLock, InsideFamily
      <3>2. tx[q].token \in Token /\ sessions[tx[q].token].state # "absent"
        BY <2>1, <3>1 DEF ProcInv, TxShape, InsideFamily, Tx, Op
      <3>3. Family_(q) \in Family /\ Family_(q)' = Family_(q)
        BY <1>5, <2>1, <3>2 DEF Family_, IInv, RowShape
      <3> QED BY <1>6, <3>1, <3>3
    <2> QED BY <2>4, <2>5, <2>6, <2>7, <2>8, <2>9 DEF ProcInv
  <1>11. AtMostOneLive' /\ RevocationIsTotal'
    BY <1>5 DEF IInv, AtMostOneLive, RevocationIsTotal, Live, Stored
  <1>12. ChainIsIntact'
    <2> SUFFICES ASSUME NEW t \in Token, Stored(t)', sessions'[t].consumedAt # Null
                 PROVE  LET s == sessions[t].replacedBy IN
                        /\ s # Null
                        /\ Stored(s)'
                        /\ sessions'[s].family = sessions[t].family
                        /\ sessions'[s].expiresAt >= sessions[t].expiresAt
      BY <1>9 DEF ChainIsIntact
    <2> DEFINE s == sessions[t].replacedBy
    <2>1. Stored(t) /\ t \notin W /\ sessions'[t] = sessions[t]
      BY <1>9
    <2>2. /\ s # Null /\ Stored(s) /\ sessions[s].family = sessions[t].family
          /\ sessions[s].expiresAt >= sessions[t].expiresAt
      BY <2>1 DEF IInv, ChainIsIntact
    <2>3. s \in Token /\ s \notin W
      BY <1>4, <2>1, <2>2 DEF IInv, TypeOK, Row
    <2> QED BY <1>5, <2>2, <2>3 DEF Stored
  <1> QED BY <1>6, <1>8, <1>10, <1>11, <1>12 DEF IInv

LEMMA CommitRotationStep ==
    ASSUME IInv, TypeOK', NEW p \in Proc, CommitRotation(p)
    PROVE  IInv'
  <1> DEFINE t == tx[p].token
             n == tx[p].next
  <1>1. Committed(p, "ok") /\ tx[p].pc = "commit" /\ tx[p].op = "rotate" /\ n # Null
    BY DEF CommitRotation, Committed
  <1>2. /\ Rotating(p) /\ ProcInv(p) /\ n \in Token /\ t \in Token
        /\ tx[p].now \in Nat
    BY <1>1 DEF Rotating, IInv, TypeOK, ProcInv, TxShape, Tx
  <1>3. /\ rowLock[t] = p /\ Live(t) /\ sessions[n].state = "absent" /\ t # n
        /\ familyLock[Family_(p)] = p
        /\ sessions[t].expiresAt <= tx[p].now + TTL
    BY <1>1, <1>2 DEF ProcInv, RotationReady, FamilyWriterHoldsLock, InsideFamily,
       TxShape, Live
  <1>4. \A u \in Token : u # t /\ u # n => sessions'[u] = sessions[u]
    BY <1>2, <1>3 DEF CommitRotation, IInv, TypeOK
  <1>5. /\ sessions'[t].state = "valid"
        /\ sessions'[t].family = sessions[t].family
        /\ sessions'[t].expiresAt = sessions[t].expiresAt
        /\ sessions'[t].consumedAt # Null /\ sessions'[t].replacedBy = n
    <2>1. sessions[t] \in Row /\ sessions[t].state = "valid" /\ tx[p].now # Null
      BY <1>2, <1>3 DEF IInv, TypeOK, Live
    <2>2. sessions'[t] = [sessions[t] EXCEPT !.consumedAt = tx[p].now, !.replacedBy = n]
      BY <1>2, <1>3 DEF CommitRotation, IInv, TypeOK
    <2> QED BY <2>1, <2>2 DEF Row
  <1>6. /\ sessions'[n].state = "valid" /\ sessions'[n].family = sessions[t].family
        /\ sessions'[n].expiresAt = tx[p].now + TTL
        /\ sessions'[n].consumedAt = Null /\ sessions'[n].replacedBy = Null
    <2>1. sessions'[n] = NewSession(Family_(p), tx[p].now)
      BY <1>2, <1>3 DEF CommitRotation, IInv, TypeOK
    <2> QED BY <2>1 DEF NewSession, Family_
  <1>7. /\ clock' = clock
        /\ ProcInv(p)' /\ tx'[p].next = Null
        /\ \A q \in Proc \ {p} :
             /\ tx'[q] = tx[q]
             /\ \A f \in Family : familyLock[f] = q => familyLock'[f] = q
             /\ \A u \in Token : rowLock[u] = q => rowLock'[u] = q
        /\ SuccessorsDistinct'
    BY <1>1, CommittedEffect DEF Reply
  <1>8. /\ sessions[t].family = Family_(p) /\ Family_(p) \in Family
        /\ sessions[t].state = "valid" /\ sessions[t].consumedAt = Null
        /\ sessions[n].family = Null /\ Null \notin Family
        /\ tx[p].now <= clock
    BY <1>2, <1>3 DEF IInv, RowShape, AbsentRow, Live, Family_, ProcInv, TxShape
  <1>9. \A q \in Proc \ {p} : tx[q].next # n
    BY <1>1 DEF IInv, SuccessorsDistinct
  <1> HIDE DEF t, n
  <1>10. RowShape'
    <2> SUFFICES ASSUME NEW u \in Token
                 PROVE  /\ sessions'[u].state = "absent" => sessions'[u] = AbsentRow
                        /\ sessions'[u].state # "absent" =>
                              /\ sessions'[u].family \in Family
                              /\ sessions'[u].expiresAt <= clock + TTL
                        /\ sessions'[u].replacedBy # Null =>
                              sessions'[u].consumedAt # Null
      BY <1>7 DEF RowShape
    <2>0. RowShape
      BY DEF IInv
    <2>1. CASE u = t
      BY <1>2, <1>5, <1>8, <2>0, <2>1 DEF RowShape
    <2>2. CASE u = n
      <3>1. tx[p].now + TTL <= clock + TTL
        BY <1>2, <1>8 DEF IInv, TypeOK
      <3> QED BY <1>6, <1>8, <2>2, <3>1
    <2>3. CASE u # t /\ u # n
      BY <1>4, <2>0, <2>3 DEF RowShape
    <2> QED BY <2>1, <2>2, <2>3
  <1>11. \A q \in Proc : ProcInv(q)'
    <2> SUFFICES ASSUME NEW q \in Proc \ {p} PROVE ProcInv(q)'
      BY <1>7
    <2>1. ProcInv(q) /\ tx[q] \in Tx /\ tx'[q] = tx[q]
      BY <1>7 DEF IInv, TypeOK
    <2>2. \A u \in tx[q].written : u \notin {t, n}
      BY <1>3, <2>1 DEF ProcInv, WrittenRowsLocked, Stored
    <2>3. Rotating(q) => tx[q].token \notin {t, n} /\ tx[q].next \notin {t, n}
      BY <1>3, <1>8, <1>9, <2>1 DEF ProcInv, RotationReady, Live
    <2>4. tx[q].op \in {"rotate", "revoke"} =>
              /\ tx[q].token \in Token
              /\ sessions'[tx[q].token].state # "absent"
              /\ sessions'[tx[q].token].expiresAt = sessions[tx[q].token].expiresAt
              /\ Family_(q)' = Family_(q) /\ Family_(q) \in Family
      <3> SUFFICES ASSUME tx[q].op \in {"rotate", "revoke"}
                   PROVE  /\ tx[q].token \in Token
                          /\ sessions'[tx[q].token].state # "absent"
                          /\ sessions'[tx[q].token].expiresAt = sessions[tx[q].token].expiresAt
                          /\ Family_(q)' = Family_(q) /\ Family_(q) \in Family
        OBVIOUS
      <3>1. tx[q].token \in Token /\ sessions[tx[q].token].state # "absent"
        BY <2>1 DEF ProcInv, TxShape
      <3>2. tx[q].token # n /\ Family_(q) \in Family
        BY <1>3, <3>1 DEF Family_, IInv, RowShape
      <3> QED BY <1>4, <1>5, <2>1, <3>1, <3>2 DEF Family_
    <2>5. TxShape(q)'
      BY <1>7, <2>1, <2>4 DEF ProcInv, TxShape, Rotating
    <2>6. FamilyWriterHoldsLock(q)'
      BY <1>7, <2>1, <2>4 DEF ProcInv, TxShape, FamilyWriterHoldsLock, InsideFamily, Tx, Op
    <2>7. WrittenRowsLocked(q)'
      BY <1>4, <1>7, <2>1, <2>2 DEF ProcInv, WrittenRowsLocked, Revoking, Stored, Tx
    <2>8. RotationReady(q)'
      BY <1>4, <1>7, <2>1, <2>3 DEF ProcInv, RotationReady, Rotating, Live, Tx, TxShape
    <2>9. RevocationCovers(q)'
      <3> SUFFICES ASSUME Revoking(q) PROVE RevocationCovers(q)'
        BY <2>1 DEF RevocationCovers, Revoking
      <3>1. tx[q].op \in {"rotate", "revoke"}
        BY <2>1 DEF Revoking, ProcInv, TxShape, Tx, Op
      <3>2. Family_(q) # Family_(p)
        BY <1>3, <2>1 DEF ProcInv, FamilyWriterHoldsLock, InsideFamily, Revoking
      <3>3. InFamily(Family_(q))' = InFamily(Family_(q))
        <4>1. \A u \in Token :
                  (sessions'[u].family = Family_(q)) <=> (sessions[u].family = Family_(q))
          <5> SUFFICES ASSUME NEW u \in Token
                       PROVE  (sessions'[u].family = Family_(q))
                                <=> (sessions[u].family = Family_(q))
            OBVIOUS
          <5>1. CASE u = t
            BY <1>5, <5>1
          <5>2. CASE u = n
            BY <1>6, <1>8, <2>4, <3>1, <3>2, <5>2
          <5>3. CASE u # t /\ u # n
            BY <1>4, <5>3
          <5> QED BY <5>1, <5>2, <5>3
        <4> QED BY <2>4, <3>1, <4>1 DEF InFamily
      <3>4. \A u \in InFamily(Family_(q)) : sessions'[u] = sessions[u]
        BY <1>4, <1>8, <2>4, <3>1, <3>2 DEF InFamily
      <3> QED BY <2>1, <3>3, <3>4 DEF ProcInv, RevocationCovers, InFamily
    <2>10. CleanupCovers(q)'
      <3> SUFFICES ASSUME Cleaning(q), NEW u \in tx[q].targets \cup tx[q].written
                   PROVE  /\ sessions'[u].state # "absent"
                          /\ \A v \in Token :
                                Stored(v)' /\ sessions'[v].replacedBy = u =>
                                    v \in tx[q].targets \cup tx[q].written
        BY <2>1 DEF CleanupCovers, Cleaning
      <3>1. /\ u \in Token /\ sessions[u].state # "absent"
            /\ \A v \in Token : Stored(v) /\ sessions[v].replacedBy = u =>
                                    v \in tx[q].targets \cup tx[q].written
        BY <2>1 DEF ProcInv, CleanupCovers, Tx
      <3>2. u # n /\ u # Null
        BY <1>3, <3>1
      <3> QED BY <1>4, <1>5, <1>6, <3>1, <3>2 DEF Stored
    <2> QED BY <2>5, <2>6, <2>7, <2>8, <2>9, <2>10 DEF ProcInv
  <1>12. AtMostOneLive'
    <2>1. \A u \in Token : Live(u)' /\ sessions'[u].family = sessions[t].family => u = n
      BY <1>2, <1>3, <1>4, <1>5 DEF IInv, AtMostOneLive, Live
    <2>2. \A u \in Token \ {n} : Live(u)' => Live(u) /\ sessions'[u] = sessions[u]
      BY <1>4, <1>5 DEF Live
    <2> QED BY <1>6, <2>1, <2>2 DEF IInv, AtMostOneLive
  <1>13. RevocationIsTotal'
    <2>1. \A u \in Token : Stored(u) /\ sessions[u].family = sessions[t].family =>
                            sessions[u].state # "revoked"
      BY <1>2, <1>8 DEF IInv, RevocationIsTotal, Stored
    <2> SUFFICES ASSUME NEW v \in Token, NEW u \in Token,
                        sessions'[v].state = "revoked", Stored(u)',
                        sessions'[u].family = sessions'[v].family
                 PROVE  sessions'[u].state = "revoked"
      BY DEF RevocationIsTotal
    <2>2. v # t /\ v # n /\ sessions'[v] = sessions[v]
      BY <1>4, <1>5, <1>6
    <2>3. sessions[v].family # sessions[t].family
      BY <2>1, <2>2 DEF Stored
    <2>4. u # t /\ u # n /\ sessions'[u] = sessions[u]
      BY <1>4, <1>5, <1>6, <2>2, <2>3
    <2> QED BY <2>2, <2>4 DEF IInv, RevocationIsTotal, Stored
  <1>14. ChainIsIntact'
    <2> SUFFICES ASSUME NEW u \in Token, Stored(u)', sessions'[u].consumedAt # Null
                 PROVE  LET s == sessions'[u].replacedBy IN
                        /\ s # Null
                        /\ sessions'[s].state \in {"valid", "revoked"}
                        /\ sessions'[s].family = sessions'[u].family
                        /\ sessions'[s].expiresAt >= sessions'[u].expiresAt
      BY DEF ChainIsIntact, Stored
    <2>0. u # n
      BY <1>6
    <2>1. CASE u = t
      <3>1. tx[p].now + TTL >= sessions[t].expiresAt
        BY <1>2, <1>3 DEF IInv, TypeOK, Row, t
      <3> QED BY <1>2, <1>5, <1>6, <2>1, <3>1 DEF Stored
    <2>2. CASE u # t
      <3> DEFINE s == sessions[u].replacedBy
      <3>1. sessions'[u] = sessions[u] /\ Stored(u)
        BY <1>4, <2>0, <2>2 DEF Stored
      <3>2. /\ s # Null /\ Stored(s) /\ sessions[s].family = sessions[u].family
            /\ sessions[s].expiresAt >= sessions[u].expiresAt
        BY <3>1 DEF IInv, ChainIsIntact
      <3>3. s \in Token /\ s # n
        BY <1>3, <3>2 DEF IInv, TypeOK, Row, Stored
      <3>4. /\ sessions'[s].state = sessions[s].state
            /\ sessions'[s].family = sessions[s].family
            /\ sessions'[s].expiresAt = sessions[s].expiresAt
        BY <1>4, <1>5, <1>8, <3>3
      <3> QED BY <3>1, <3>2, <3>4 DEF Stored
    <2> QED BY <2>1, <2>2
  <1> QED BY <1>7, <1>10, <1>11, <1>12, <1>13, <1>14 DEF IInv

-----------------------------------------------------------------------------
LEMMA InitIInv == Init => IInv
  <1> SUFFICES ASSUME Init PROVE IInv
    OBVIOUS
  <1>1. \A t \in Token : sessions[t] = AbsentRow /\ rowLock[t] = Null
    BY DEF Init
  <1>2. AbsentRow \in Row /\ AbsentRow.state = "absent" /\ AbsentRow.replacedBy = Null
    BY DEF AbsentRow, Row, RowState
  <1>3. \A p \in Proc : tx[p] = Idle("none")
    BY DEF Init
  <1>4. TypeOK
    BY <1>2, IdleType DEF TypeOK, Init, Reply
  <1>5. RowShape
    BY <1>1, <1>2 DEF RowShape
  <1>6. \A p \in Proc : ProcInv(p) /\ tx[p].next = Null
    BY <1>3, <1>4 DEF ProcInv, TxShape, FamilyWriterHoldsLock, WrittenRowsLocked,
       RotationReady, RevocationCovers, CleanupCovers, InsideFamily, Rotating,
       Revoking, Cleaning, Idle, TypeOK
  <1>7. SuccessorsDistinct
    BY <1>6 DEF SuccessorsDistinct
  <1>8. AtMostOneLive /\ RevocationIsTotal /\ ChainIsIntact
    BY <1>1, <1>2 DEF AtMostOneLive, RevocationIsTotal, ChainIsIntact, Live, Stored
  <1> QED BY <1>4, <1>5, <1>6, <1>7, <1>8 DEF IInv

LEMMA NextIInv == IInv /\ [Next]_vars => IInv'
  <1> SUFFICES ASSUME IInv, [Next]_vars PROVE IInv'
    OBVIOUS
  <1>1. TypeOK'
    BY TypeStep DEF IInv, ProcInv
  <1>2. CASE Tick
    BY <1>1, <1>2, TickStep
  <1>3. CASE \E f \in Family, t \in Token : Issue(f, t)
    BY <1>1, <1>3, IssueStep
  <1>4. CASE \E p \in Handler, t \in Token, op \in {"rotate", "revoke"} : Begin(p, op, t)
    BY <1>1, <1>4, BeginStep DEF Proc
  <1>5. CASE \E p \in Cleaner : BeginCleanup(p)
    BY <1>1, <1>5, BeginCleanupStep DEF Proc
  <1>6. ASSUME NEW p \in Proc, Step(p) PROVE IInv'
    BY <1>1, <1>6, FindFamilyStep, LockFamilyStep, LockRowStep, ScanRowStep,
       CommitRotationStep, CommitRevocationStep, CommitCleanupStep DEF Step
  <1>7. ASSUME NEW p \in Proc, Fail(p) PROVE IInv'
    BY <1>7, RollbackStep DEF Fail, Reply
  <1>8. CASE UNCHANGED vars
    <2>1. \A p \in Proc : ProcInv(p)'
      BY <1>1, <1>8, OtherProcQuiet DEF vars, IInv
    <2> QED BY <1>1, <1>8, <2>1 DEF vars, IInv, RowShape, SuccessorsDistinct,
            AtMostOneLive, RevocationIsTotal, ChainIsIntact, Live, Stored
  <1> QED BY <1>2, <1>3, <1>4, <1>5, <1>6, <1>7, <1>8 DEF Next

\* The inductive invariant: every open transaction of Rotate, Revoke and
\* DeleteExpired still has the locks and the candidate rows it relies on.
THEOREM Invariance == Spec => []IInv
  <1>1. Init => IInv
    BY InitIInv
  <1>2. IInv /\ [Next]_vars => IInv'
    BY NextIInv
  <1> QED BY <1>1, <1>2, PTL DEF Spec

\* Every variable keeps its type.
THEOREM TypeCorrect == Spec => []TypeOK
  <1>1. IInv => TypeOK
    BY DEF IInv
  <1> QED BY <1>1, Invariance, PTL

\* However many refreshes, logouts and cleanups run at once, a session family
\* never has two exchangeable tokens (Rotate, session_repository.go).
THEOREM OneLiveSession == Spec => []AtMostOneLive
  <1>1. IInv => AtMostOneLive
    BY DEF IInv
  <1> QED BY <1>1, Invariance, PTL

\* A logout or a detected reuse revokes the whole family: no session inserted
\* by a concurrent rotation survives it (RevokeRefreshSessionFamily).
THEOREM TotalRevocation == Spec => []RevocationIsTotal
  <1>1. IInv => RevocationIsTotal
    BY DEF IInv
  <1> QED BY <1>1, Invariance, PTL

\* The cleanup never deletes a session whose spent predecessor stays behind,
\* so the replaced_by chain of a family has no gap (DeleteExpired).
THEOREM IntactChain == Spec => []ChainIsIntact
  <1>1. IInv => ChainIsIntact
    BY DEF IInv
  <1> QED BY <1>1, Invariance, PTL

-----------------------------------------------------------------------------
(* Requests: what their replies mean, and why they never deadlock.           *)

\* A row that was drawn stays, in its family and with its expiry, and time
\* does not run backwards.
LEMMA RowsStay ==
    ASSUME IInv, [Next]_vars
    PROVE  /\ clock <= clock'
           /\ \A t \in Token : sessions[t].state # "absent" =>
                /\ sessions'[t].state # "absent"
                /\ sessions'[t].family = sessions[t].family
                /\ sessions'[t].expiresAt = sessions[t].expiresAt
  <1>0. clock \in Nat /\ \A t \in Token : sessions[t] \in Row
    BY DEF IInv, TypeOK
  <1>1. CASE Tick
    BY <1>0, <1>1 DEF Tick
  <1>2. ASSUME NEW f \in Family, NEW u \in Token, Issue(f, u)
        PROVE  clock' = clock /\ \A t \in Token : sessions[t].state # "absent" =>
                                     sessions'[t] = sessions[t]
    BY <1>2 DEF Issue, Fresh, IInv, TypeOK
  <1>3. ASSUME NEW p \in Proc, CommitRotation(p)
        PROVE  /\ clock' = clock
               /\ \A t \in Token : sessions[t].state # "absent" =>
                    /\ sessions'[t].state # "absent"
                    /\ sessions'[t].family = sessions[t].family
                    /\ sessions'[t].expiresAt = sessions[t].expiresAt
    <2>1. /\ tx[p].token \in Token /\ tx[p].next \in Token
          /\ sessions[tx[p].next].state = "absent" /\ clock' = clock
          /\ tx[p].token # tx[p].next
      BY <1>3 DEF CommitRotation, Committed, IInv, TypeOK, ProcInv, TxShape, Tx,
         RotationReady, Rotating, Live
    <2>2. sessions'[tx[p].token] = [sessions[tx[p].token] EXCEPT
                                        !.consumedAt = tx[p].now, !.replacedBy = tx[p].next]
          /\ \A t \in Token \ {tx[p].token, tx[p].next} : sessions'[t] = sessions[t]
      BY <1>3, <2>1 DEF CommitRotation, IInv, TypeOK
    <2> QED BY <1>0, <2>1, <2>2 DEF Row
  <1>4. ASSUME NEW p \in Proc, CommitRevocation(p) \/ CommitCleanup(p)
        PROVE  /\ clock' = clock
               /\ \A t \in Token : sessions[t].state # "absent" =>
                    /\ sessions'[t].state # "absent"
                    /\ sessions'[t].family = sessions[t].family
                    /\ sessions'[t].expiresAt = sessions[t].expiresAt
    BY <1>0, <1>4 DEF CommitRevocation, CommitCleanup, Committed, Row
  <1>5. ASSUME NEW p \in Proc,
               \/ FindFamily(p) \/ LockFamily(p) \/ LockRow(p) \/ Fail(p)
               \/ \E u \in Token : ScanRow(p, u)
        PROVE  UNCHANGED <<clock, sessions>>
    BY <1>5 DEF FindFamily, LockFamily, LockRow, Fail, ScanRow, Rollback,
       RotateRow, StartRevocation, InsertSuccessor
  <1>6. CASE \/ \E p \in Handler, t \in Token, op \in {"rotate", "revoke"} : Begin(p, op, t)
             \/ \E p \in Cleaner : BeginCleanup(p)
             \/ UNCHANGED vars
    <2>1. UNCHANGED <<clock, sessions>>
      BY <1>6 DEF Begin, BeginCleanup, vars
    <2> QED BY <1>0, <2>1
  <1>7. clock \in Nat => clock <= clock
    OBVIOUS
  <1> QED BY <1>0, <1>1, <1>2, <1>3, <1>4, <1>5, <1>6, <1>7 DEF Next, Step

\* How the record of a process changes: it stays, its call ends, it begins, or it
\* takes one step of the same call.
LEMMA TxMoves ==
    ASSUME IInv, [Next]_vars, NEW p \in Proc
    PROVE  \/ /\ tx'[p] = tx[p]
              /\ \A f \in Family : familyLock'[f] = p => familyLock[f] = p
              /\ \A u \in Token : rowLock'[u] = p => rowLock[u] = p
           \/ /\ \E r : tx'[p] = Idle(r)
              /\ \A f \in Family : familyLock'[f] # p
              /\ \A u \in Token : rowLock'[u] # p
           \/ p \in Handler /\ \E t \in Token, op \in {"rotate", "revoke"} : Begin(p, op, t)
           \/ p \in Cleaner /\ BeginCleanup(p)
           \/ FindFamily(p)
           \/ LockFamily(p)
           \/ tx[p].pc = "row" /\ StartRevocation(p)
           \/ tx[p].pc = "row" /\ \E next \in Fresh : InsertSuccessor(p, next)
           \/ \E u \in Token : ScanRow(p, u)
  <1>0. tx \in [Proc -> Tx] /\ tx[p] \in Tx
    BY DEF IInv, TypeOK
  <1>1. ASSUME NEW q \in Proc, NEW r, Rollback(q, r) \/ Committed(q, r)
        PROVE  \/ /\ tx'[p] = tx[p]
                  /\ \A f \in Family : familyLock'[f] = p => familyLock[f] = p
                  /\ \A u \in Token : rowLock'[u] = p => rowLock[u] = p
               \/ /\ \E s : tx'[p] = Idle(s)
                  /\ \A f \in Family : familyLock'[f] # p
                  /\ \A u \in Token : rowLock'[u] # p
    <2>1. PICK s : tx' = [tx EXCEPT ![q] = Idle(s)]
      BY <1>1 DEF Rollback, Committed
    <2>2. ReleaseLocks(q) /\ Null \notin Proc
      BY <1>1, ConstantsAssumption DEF Rollback, Committed
    <2>3. \A f \in Family : familyLock'[f] = IF familyLock[f] = q THEN Null ELSE familyLock[f]
      BY <2>2 DEF ReleaseLocks
    <2>4. \A u \in Token : rowLock'[u] = IF rowLock[u] = q THEN Null ELSE rowLock[u]
      BY <2>2 DEF ReleaseLocks
    <2>5. CASE p = q
      <3>1. tx'[p] = Idle(s)
        BY <1>0, <2>1, <2>5
      <3> QED BY <2>2, <2>3, <2>4, <2>5, <3>1
    <2>6. CASE p # q
      BY <1>0, <2>1, <2>2, <2>3, <2>4, <2>6
    <2> QED BY <2>5, <2>6
  <1>2. CASE Tick \/ (\E f \in Family, t \in Token : Issue(f, t)) \/ UNCHANGED vars
    BY <1>2 DEF Tick, Issue, vars
  <1>3. ASSUME NEW q \in Handler, NEW t \in Token, NEW op \in {"rotate", "revoke"},
               Begin(q, op, t), q # p
        PROVE  tx'[p] = tx[p] /\ UNCHANGED <<familyLock, rowLock>>
    BY <1>0, <1>3 DEF Begin
  <1>4. ASSUME NEW q \in Cleaner, BeginCleanup(q), q # p
        PROVE  tx'[p] = tx[p] /\ UNCHANGED <<familyLock, rowLock>>
    BY <1>0, <1>4 DEF BeginCleanup
  <1>5. ASSUME NEW q \in Proc, q # p,
               \/ LockFamily(q) \/ StartRevocation(q)
               \/ \E next \in Fresh : InsertSuccessor(q, next)
               \/ \E u \in Token : ScanRow(q, u)
        PROVE  /\ tx'[p] = tx[p]
               /\ \A f \in Family : familyLock'[f] = p => familyLock[f] = p
               /\ \A u \in Token : rowLock'[u] = p => rowLock[u] = p
    <2>0. familyLock \in [Family -> Proc \cup {Null}] /\ rowLock \in [Token -> Proc \cup {Null}]
      BY DEF IInv, TypeOK
    <2>1. CASE LockFamily(q)
      BY <1>0, <1>5, <2>0, <2>1 DEF LockFamily
    <2>2. CASE StartRevocation(q)
      BY <1>0, <1>5, <2>0, <2>2 DEF StartRevocation
    <2>3. CASE \E next \in Fresh : InsertSuccessor(q, next)
      BY <1>0, <1>5, <2>0, <2>3 DEF InsertSuccessor
    <2>4. CASE \E u \in Token : ScanRow(q, u)
      <3>1. PICK u \in Token : ScanRow(q, u)
        BY <2>4
      <3>2. \E rec : tx' = [tx EXCEPT ![q] = rec]
        BY <3>1, Zenon DEF ScanRow
      <3>3. familyLock' = familyLock /\ (rowLock' = rowLock \/ rowLock' = [rowLock EXCEPT ![u] = q])
        BY <3>1 DEF ScanRow
      <3> QED BY <1>0, <1>5, <2>0, <3>2, <3>3
    <2> QED BY <1>5, <2>1, <2>2, <2>3, <2>4
  <1>6. ASSUME NEW q \in Proc, q # p, FindFamily(q)
        PROVE  \/ \E r : Rollback(q, r)
               \/ tx'[p] = tx[p] /\ UNCHANGED <<familyLock, rowLock>>
    BY <1>0, <1>6 DEF FindFamily
  <1>7. ASSUME NEW q \in Proc, LockRow(q)
        PROVE  /\ tx[q].pc = "row"
               /\ \/ \E r : Rollback(q, r)
                  \/ StartRevocation(q)
                  \/ \E next \in Fresh : InsertSuccessor(q, next)
    BY <1>7 DEF LockRow, RotateRow
  <1>8. ASSUME NEW q \in Proc,
               CommitRotation(q) \/ CommitRevocation(q) \/ CommitCleanup(q) \/ Fail(q)
        PROVE  \E r : Rollback(q, r) \/ Committed(q, r)
    BY <1>8 DEF CommitRotation, CommitRevocation, CommitCleanup, Fail
  <1> QED BY <1>1, <1>2, <1>3, <1>4, <1>5, <1>6, <1>7, <1>8, Zenon DEF Next, Step

LEMMA InitRequestInv == Init => RequestInv
  <1> SUFFICES ASSUME Init PROVE RequestInv
    OBVIOUS
  <1>1. /\ \A t \in Token : sessions[t].state = "absent" /\ rowLock[t] = Null
        /\ \A f \in Family : familyLock[f] = Null
        /\ \A p \in Proc : tx[p].pc = "idle" /\ tx[p].op = "none"
    BY DEF Init, AbsentRow, Idle
  <1>2. Null \notin Handler /\ Handler \subseteq Proc
    BY ConstantsAssumption DEF Proc
  <1> QED BY <1>1, <1>2 DEF RequestInv, DeletedAreExpired, RequestLocksNest, Cleaning

LEMMA DeletedAreExpiredStep ==
    ASSUME IInv, DeletedAreExpired, [Next]_vars
    PROVE  DeletedAreExpired'
  <1>0. /\ clock \in Nat /\ clock' \in Nat
        /\ \A t \in Token : sessions[t] \in Row /\ sessions'[t] \in Row
        /\ \A p \in Proc : tx[p] \in Tx
    BY TypeStep DEF IInv, TypeOK, ProcInv
  <1>1. \A t \in Token : sessions[t].state # "absent" /\ sessions[t].expiresAt < clock
                            => sessions'[t].expiresAt < clock'
    BY <1>0, RowsStay DEF Row
  <1>2. ASSUME NEW t \in Token, sessions'[t].state = "deleted"
        PROVE  sessions'[t].expiresAt < clock'
    <2>1. CASE sessions[t].state = "deleted"
      BY <1>1, <2>1 DEF DeletedAreExpired
    <2>2. CASE \E p \in Proc : CommitCleanup(p) /\ t \in tx[p].written
      <3>1. PICK p \in Proc : CommitCleanup(p) /\ t \in tx[p].written
        BY <2>2
      <3>2. Cleaning(p) /\ Stored(t)
        BY <3>1 DEF CommitCleanup, Committed, Cleaning, IInv, ProcInv, WrittenRowsLocked
      <3> QED BY <1>1, <3>1, <3>2 DEF DeletedAreExpired, Stored
    <2>3. sessions[t].state = "deleted" \/ \E p \in Proc : CommitCleanup(p) /\ t \in tx[p].written
      <3>1. ASSUME NEW p \in Proc, CommitCleanup(p)
            PROVE  t \in tx[p].written \/ sessions[t].state = "deleted"
        BY <1>0, <1>2, <3>1 DEF CommitCleanup, Row
      <3>2. ASSUME NEW p \in Proc, CommitRevocation(p) PROVE sessions[t].state = "deleted"
        BY <1>0, <1>2, <3>2 DEF CommitRevocation, Row
      <3>3. ASSUME NEW p \in Proc, CommitRotation(p) PROVE sessions[t].state = "deleted"
        <4>1. tx[p].token \in Token /\ tx[p].next \in Token /\ tx[p].token # tx[p].next
          BY <3>3 DEF CommitRotation, Committed, IInv, TypeOK, ProcInv, TxShape, Tx,
             RotationReady, Rotating, Live
        <4>2. /\ sessions'[tx[p].token] = [sessions[tx[p].token] EXCEPT
                     !.consumedAt = tx[p].now, !.replacedBy = tx[p].next]
              /\ sessions'[tx[p].next] = NewSession(Family_(p), tx[p].now)
              /\ t \notin {tx[p].token, tx[p].next} => sessions'[t] = sessions[t]
          BY <3>3, <4>1 DEF CommitRotation, IInv, TypeOK
        <4>3. CASE t = tx[p].token
          <5>1. sessions'[t].state = sessions[t].state
            BY <1>0, <4>2, <4>3 DEF Row
          <5> QED BY <1>2, <5>1
        <4>4. CASE t = tx[p].next
          BY <1>2, <4>2, <4>4 DEF NewSession
        <4> QED BY <1>2, <4>2, <4>3, <4>4
      <3>4. ASSUME NEW f \in Family, NEW u \in Token, Issue(f, u)
            PROVE  sessions[t].state = "deleted"
        BY <1>2, <3>4 DEF Issue, NewSession, IInv, TypeOK
      <3>5. ASSUME NEW p \in Proc,
                   \/ FindFamily(p) \/ LockFamily(p) \/ LockRow(p) \/ Fail(p)
                   \/ \E u \in Token : ScanRow(p, u)
            PROVE  UNCHANGED sessions
        BY <3>5 DEF FindFamily, LockFamily, LockRow, Fail, ScanRow, Rollback,
           RotateRow, StartRevocation, InsertSuccessor
      <3>6. CASE \/ Tick
                 \/ \E p \in Handler, u \in Token, op \in {"rotate", "revoke"} : Begin(p, op, u)
                 \/ \E p \in Cleaner : BeginCleanup(p)
                 \/ UNCHANGED vars
        <4>1. UNCHANGED sessions
          BY <3>6 DEF Tick, Begin, BeginCleanup, vars
        <4> QED BY <1>2, <4>1
      <3> QED BY <1>2, <3>1, <3>2, <3>3, <3>4, <3>5, <3>6 DEF Next, Step
    <2> QED BY <2>1, <2>2, <2>3
  <1>3. ASSUME NEW p \in Proc, Cleaning(p)', NEW u \in tx'[p].targets \cup tx'[p].written
        PROVE  sessions'[u].expiresAt < clock'
    <2>1. ASSUME Cleaning(p), u \in tx[p].targets \cup tx[p].written
          PROVE  sessions'[u].expiresAt < clock'
      <3>1. u \in Token /\ sessions[u].state # "absent"
        BY <1>0, <2>1 DEF IInv, ProcInv, CleanupCovers, Tx
      <3> QED BY <1>1, <2>1, <3>1 DEF DeletedAreExpired
    <2>2. CASE tx'[p] = tx[p]
      BY <1>3, <2>1, <2>2 DEF Cleaning
    <2>7. ASSUME NEW r, tx'[p] = Idle(r) PROVE FALSE
      BY <1>3, <2>7 DEF Cleaning, Idle
    <2>3. ASSUME NEW t \in Token, NEW op \in {"rotate", "revoke"}, Begin(p, op, t) PROVE FALSE
      <3>1. tx'[p].pc = "find"
        BY <2>3 DEF Begin, Idle, IInv, TypeOK
      <3> QED BY <1>3, <3>1 DEF Cleaning
    <2>4. CASE BeginCleanup(p)
      <3> DEFINE targets == {t \in Token : Stored(t) /\ sessions[t].expiresAt < clock}
      <3>1. tx'[p] = [Idle("none") EXCEPT !.pc = ScanPC(targets), !.op = "cleanup",
                                          !.now = clock, !.targets = targets]
        BY <2>4 DEF BeginCleanup, IInv, TypeOK
      <3> HIDE DEF targets
      <3>2. u \in targets
        BY <1>3, <3>1 DEF Idle
      <3> QED BY <1>1, <3>2 DEF targets, Stored
    <2>5. CASE \/ FindFamily(p) \/ LockFamily(p)
               \/ tx[p].pc = "row" /\ StartRevocation(p)
               \/ tx[p].pc = "row" /\ \E next \in Fresh : InsertSuccessor(p, next)
      <3>1. tx[p].op # "cleanup"
        BY <2>5 DEF FindFamily, LockFamily, IInv, ProcInv, TxShape
      <3>2. tx'[p].op = tx[p].op \/ tx'[p].op = "none"
        <4>0. tx \in [Proc -> Tx] /\ tx[p] \in Tx
          BY DEF IInv, TypeOK
        <4>1. CASE FindFamily(p)
          BY <4>0, <4>1 DEF FindFamily, Rollback, Idle, Tx
        <4>2. CASE LockFamily(p)
          BY <4>0, <4>2 DEF LockFamily, Tx
        <4>3. CASE StartRevocation(p)
          BY <4>0, <4>3 DEF StartRevocation, Tx
        <4>4. CASE \E next \in Fresh : InsertSuccessor(p, next)
          BY <4>0, <4>4 DEF InsertSuccessor, Tx
        <4> QED BY <2>5, <4>1, <4>2, <4>3, <4>4
      <3> QED BY <1>3, <3>1, <3>2 DEF Cleaning
    <2>6. ASSUME NEW v \in Token, ScanRow(p, v)
          PROVE  sessions'[u].expiresAt < clock'
      <3> DEFINE rest == tx[p].targets \ {v}
      <3>1. \/ tx'[p] = [tx[p] EXCEPT !.pc = ScanPC(rest), !.targets = rest,
                                      !.written = tx[p].written \cup {v}]
            \/ tx'[p] = [tx[p] EXCEPT !.pc = ScanPC(rest), !.targets = rest]
        BY <2>6 DEF ScanRow, IInv, TypeOK
      <3>2. v \in tx[p].targets /\ tx[p].pc = "scan"
        BY <2>6 DEF ScanRow
      <3> HIDE DEF rest
      <3>3. /\ tx'[p].op = tx[p].op /\ tx'[p].targets = rest
            /\ tx'[p].written \subseteq tx[p].written \cup {v}
        BY <1>0, <3>1 DEF Tx
      <3>4. tx'[p].op = tx[p].op /\ u \in tx[p].targets \cup tx[p].written
        BY <1>3, <3>2, <3>3 DEF rest
      <3> QED BY <1>3, <2>1, <3>2, <3>4 DEF Cleaning
    <2> QED BY <2>2, <2>3, <2>4, <2>5, <2>6, <2>7, TxMoves
  <1> QED BY <1>2, <1>3 DEF DeletedAreExpired

LEMMA RequestLocksNestStep ==
    ASSUME IInv, RequestLocksNest, [Next]_vars
    PROVE  RequestLocksNest'
  <1> SUFFICES ASSUME NEW p \in Handler
               PROVE  /\ tx'[p].op # "cleanup"
                      /\ \A f \in Family : familyLock'[f] = p => InsideFamily(p)'
                      /\ \A u \in Token : rowLock'[u] = p =>
                            InsideFamily(p)' /\ sessions'[u].family = Family_(p)'
    BY DEF RequestLocksNest
  <1>0. /\ p \in Proc /\ p \notin Cleaner /\ p # Null
        /\ tx \in [Proc -> Tx] /\ tx[p] \in Tx /\ ProcInv(p)
        /\ familyLock \in [Family -> Proc \cup {Null}] /\ rowLock \in [Token -> Proc \cup {Null}]
    BY ConstantsAssumption DEF IInv, TypeOK, Proc
  <1>1. /\ tx[p].op # "cleanup"
        /\ \A f \in Family : familyLock[f] = p => InsideFamily(p)
        /\ \A u \in Token : rowLock[u] = p => InsideFamily(p) /\ sessions[u].family = Family_(p)
    BY DEF RequestLocksNest
  <1>2. InsideFamily(p) => /\ tx[p].token \in Token /\ Family_(p) \in Family
                           /\ sessions'[tx[p].token].family = Family_(p)
    BY <1>0, <1>1, RowsStay DEF InsideFamily, ProcInv, TxShape, Tx, Op, IInv, RowShape, Family_
  <1>3. InsideFamily(p) =>
            \A u \in Token : sessions[u].family = Family_(p) => sessions'[u].family = Family_(p)
    BY <1>0, <1>2, RowsStay, ConstantsAssumption DEF IInv, RowShape, AbsentRow
  <1>4. ~InsideFamily(p) => /\ \A f \in Family : familyLock[f] # p
                            /\ \A u \in Token : rowLock[u] # p
    BY <1>1
  <1>5. ASSUME tx'[p] = tx[p],
               \A f \in Family : familyLock'[f] = p => familyLock[f] = p,
               \A u \in Token : rowLock'[u] = p => rowLock[u] = p
        PROVE  /\ tx'[p].op # "cleanup"
               /\ \A f \in Family : familyLock'[f] = p => InsideFamily(p)'
               /\ \A u \in Token : rowLock'[u] = p =>
                     InsideFamily(p)' /\ sessions'[u].family = Family_(p)'
    <2>1. InsideFamily(p) => InsideFamily(p)' /\ Family_(p)' = Family_(p)
      BY <1>2, <1>5 DEF InsideFamily, Family_
    <2> QED BY <1>1, <1>3, <1>5, <2>1
  <1>6. ASSUME NEW r, tx'[p] = Idle(r) PROVE tx'[p].op # "cleanup"
    BY <1>6 DEF Idle
  <1>7. ASSUME NEW t \in Token, NEW op \in {"rotate", "revoke"}, Begin(p, op, t)
        PROVE  /\ tx'[p].op # "cleanup"
               /\ \A f \in Family : familyLock'[f] # p
               /\ \A u \in Token : rowLock'[u] # p
    <2>1. tx'[p].op = op /\ UNCHANGED <<familyLock, rowLock>> /\ tx[p].pc = "idle"
      BY <1>0, <1>7 DEF Begin, Idle
    <2> QED BY <1>4, <2>1 DEF InsideFamily
  <1>8. CASE FindFamily(p)
    <2>1. tx[p].pc = "find" /\ (tx'[p].op = tx[p].op \/ tx'[p].op = "none")
      BY <1>0, <1>8 DEF FindFamily, Rollback, Idle, Tx
    <2>2. /\ \A f \in Family : familyLock'[f] = familyLock[f] \/ familyLock'[f] = Null
          /\ \A u \in Token : rowLock'[u] = rowLock[u] \/ rowLock'[u] = Null
      BY <1>8 DEF FindFamily, Rollback, ReleaseLocks
    <2> QED BY <1>0, <1>1, <1>4, <2>1, <2>2 DEF InsideFamily
  <1>9. CASE LockFamily(p)
    <2>1. tx[p].pc = "family" /\ tx'[p].op = tx[p].op /\ tx'[p].pc = "row" /\ rowLock' = rowLock
      BY <1>0, <1>9 DEF LockFamily, Tx
    <2> QED BY <1>1, <1>4, <2>1 DEF InsideFamily
  <1>10. ASSUME tx[p].pc = "row", InsideFamily(p)', tx'[p].op = tx[p].op,
                tx'[p].token = tx[p].token, rowLock' = [rowLock EXCEPT ![tx[p].token] = p]
         PROVE  \A u \in Token : rowLock'[u] = p => sessions'[u].family = Family_(p)'
    <2>1. InsideFamily(p)
      BY <1>10 DEF InsideFamily
    <2>2. Family_(p)' = Family_(p)
      BY <1>2, <1>10, <2>1 DEF Family_
    <2>3. \A u \in Token : u # tx[p].token => rowLock'[u] = rowLock[u]
      BY <1>0, <1>10
    <2> QED BY <1>1, <1>2, <1>3, <2>1, <2>2, <2>3
  <1>11. CASE tx[p].pc = "row" /\ StartRevocation(p)
    <2> DEFINE targets == {u \in InFamily(Family_(p)) : sessions[u].state = "valid"}
    <2>1. tx'[p] = [tx[p] EXCEPT !.pc = ScanPC(targets), !.targets = targets]
          /\ rowLock' = [rowLock EXCEPT ![tx[p].token] = p]
      BY <1>0, <1>11 DEF StartRevocation
    <2> HIDE DEF targets
    <2>2. /\ tx'[p].op = tx[p].op /\ tx'[p].token = tx[p].token
          /\ tx'[p].pc \in {"scan", "commit"}
      BY <1>0, <2>1 DEF Tx, ScanPC
    <2>3. InsideFamily(p)'
      BY <1>1, <2>2 DEF InsideFamily
    <2> QED BY <1>1, <1>10, <1>11, <2>1, <2>2, <2>3
  <1>12. ASSUME tx[p].pc = "row", NEW next \in Fresh, InsertSuccessor(p, next)
         PROVE  /\ tx'[p].op # "cleanup" /\ InsideFamily(p)'
                /\ \A u \in Token : rowLock'[u] = p => sessions'[u].family = Family_(p)'
    <2>1. tx'[p] = [tx[p] EXCEPT !.pc = "commit", !.next = next]
          /\ rowLock' = [rowLock EXCEPT ![tx[p].token] = p]
      BY <1>0, <1>12 DEF InsertSuccessor
    <2>2. tx'[p].op = tx[p].op /\ tx'[p].token = tx[p].token /\ tx'[p].pc = "commit"
      BY <1>0, <2>1 DEF Tx
    <2>3. InsideFamily(p)'
      BY <1>1, <2>2 DEF InsideFamily
    <2> QED BY <1>1, <1>10, <1>12, <2>1, <2>2, <2>3
  <1>13. ASSUME NEW v \in Token, ScanRow(p, v)
         PROVE  /\ tx'[p].op # "cleanup" /\ InsideFamily(p)'
                /\ \A u \in Token : rowLock'[u] = p => sessions'[u].family = Family_(p)'
    <2> DEFINE rest == tx[p].targets \ {v}
    <2>1. \/ tx'[p] = [tx[p] EXCEPT !.pc = ScanPC(rest), !.targets = rest,
                                    !.written = tx[p].written \cup {v}]
          \/ tx'[p] = [tx[p] EXCEPT !.pc = ScanPC(rest), !.targets = rest]
      BY <1>0, <1>13 DEF ScanRow
    <2>2. v \in tx[p].targets /\ tx[p].pc = "scan"
          /\ (rowLock' = rowLock \/ rowLock' = [rowLock EXCEPT ![v] = p])
      BY <1>13 DEF ScanRow
    <2>3. /\ tx'[p].op = tx[p].op /\ tx'[p].token = tx[p].token
          /\ tx'[p].pc \in {"scan", "commit"}
      BY <1>0, <2>1 DEF Tx, ScanPC
    <2>4. InsideFamily(p) /\ InsideFamily(p)'
      BY <1>1, <2>2, <2>3 DEF InsideFamily
    <2>5. Family_(p)' = Family_(p) /\ sessions[v].family = Family_(p)
      <3>1. Revoking(p)
        BY <1>0, <1>1, <2>2 DEF Revoking, ProcInv, TxShape, Rotating
      <3> QED BY <1>0, <1>2, <2>2, <2>3, <2>4, <3>1 DEF Family_, ProcInv, RevocationCovers, InFamily
    <2>6. \A u \in Token : rowLock'[u] = p => u = v \/ rowLock[u] = p
      BY <1>0, <2>2
    <2> QED BY <1>1, <1>3, <2>3, <2>4, <2>5, <2>6
  <1> QED BY <1>0, <1>5, <1>6, <1>7, <1>8, <1>9, <1>11, <1>12, <1>13, TxMoves

\* Only expired sessions are ever deleted, and a request takes its family lock
\* before any row lock and keeps to the rows of that family (DeleteExpired,
\* Rotate and Revoke of session_repository.go).
THEOREM RequestInvariance == Spec => []RequestInv
  <1>1. IInv /\ RequestInv /\ [Next]_vars => RequestInv'
    BY DeletedAreExpiredStep, RequestLocksNestStep DEF RequestInv
  <1> QED BY <1>1, InitRequestInv, Invariance, PTL DEF Spec

\* Concurrent refreshes and logouts never wait for each other in a circle.
\* Whoever waits for a row holds the lock of its family, and so does the owner of
\* the row: they are one process.  All of a circle would wait for family locks,
\* whose holders do not.
THEOREM NoRequestDeadlock == Spec => []RequestsNeverDeadlock
  <1>1. ASSUME IInv, RequestInv, NEW S \in SUBSET Handler, WaitCycle(S) PROVE FALSE
    <2>0. \A p \in S : p \in Handler /\ p \in Proc /\ ProcInv(p) /\ tx[p] \in Tx
      BY <1>1 DEF IInv, TypeOK, Proc
    <2>1. ASSUME NEW p \in S, NEW q \in S, q # p, NEW u \in Token, InsideFamily(p),
                 rowLock[u] = q, sessions[u].family = Family_(p)
          PROVE  FALSE
      <3>1. InsideFamily(q) /\ Family_(q) = Family_(p)
        BY <2>0, <2>1, <1>1 DEF RequestInv, RequestLocksNest
      <3> QED BY <2>0, <2>1, <3>1 DEF ProcInv, FamilyWriterHoldsLock
    <2>2. ASSUME NEW p \in S, NEW q \in S, q \in WaitsFor(p)
          PROVE  tx[p].pc = "family" /\ InsideFamily(q)
      <3>0. q # p
        BY <2>2 DEF WaitsFor
      <3>1. CASE tx[p].pc = "family" /\ familyLock[Family_(p)] = q
        <4>1. Family_(p) \in Family
          BY <2>0, <3>1, <1>1 DEF ProcInv, TxShape, Family_, IInv, RowShape
        <4>2. \A f \in Family : familyLock[f] = q => InsideFamily(q)
          BY <2>0, <1>1 DEF RequestInv, RequestLocksNest
        <4> QED BY <3>1, <4>1, <4>2
      <3>2. CASE tx[p].pc = "row" /\ rowLock[tx[p].token] = q
        <4>1. tx[p].token \in Token /\ InsideFamily(p)
          BY <2>0, <3>2 DEF ProcInv, TxShape, InsideFamily
        <4> QED BY <2>1, <3>0, <3>2, <4>1 DEF Family_
      <3>3. CASE tx[p].pc = "scan" /\ \E u \in tx[p].targets : rowLock[u] = q
        <4>1. tx[p].op # "cleanup" /\ InsideFamily(p) /\ Revoking(p)
          BY <2>0, <3>3, <1>1 DEF RequestInv, RequestLocksNest, InsideFamily, Revoking,
             ProcInv, TxShape, Rotating
        <4>2. PICK u \in tx[p].targets : rowLock[u] = q
          BY <3>3
        <4>3. u \in Token /\ sessions[u].family = Family_(p)
          BY <2>0, <4>1, <4>2 DEF ProcInv, RevocationCovers, InFamily, Tx
        <4> QED BY <2>1, <3>0, <4>1, <4>2, <4>3
      <3> QED BY <2>2, <3>1, <3>2, <3>3 DEF WaitsFor
    <2>3. PICK p \in S : TRUE
      BY <1>1 DEF WaitCycle
    <2>4. PICK q \in S : q \in WaitsFor(p)
      BY <1>1, <2>3 DEF WaitCycle
    <2>5. PICK r \in S : r \in WaitsFor(q)
      BY <1>1, <2>4 DEF WaitCycle
    <2>6. InsideFamily(q) /\ tx[q].pc = "family"
      BY <2>2, <2>3, <2>4, <2>5
    <2> QED BY <2>6 DEF InsideFamily
  <1>2. IInv /\ RequestInv => RequestsNeverDeadlock
    BY <1>1 DEF RequestsNeverDeadlock
  <1> QED BY <1>2, Invariance, RequestInvariance, PTL

\* A denied refresh and a successful logout are final: an unknown token was
\* deleted, and only expired sessions are; a revoked one shares that fate with its
\* whole family; a reuse or a logout has covered every valid row of the family
\* when it commits (Rotate and Revoke of session_repository.go).
THEOREM FinalDenial == Spec => DenialIsFinal
  <1> DEFINE Fin(p) == tx[p].pc # "idle" /\ tx'[p].pc = "idle" /\ Final(p) =>
                         \/ sessions[tx[p].token].expiresAt <= clock
                         \/ \A u \in InFamily(Family_(p)) : ~Live(u)'
  <1>1. ASSUME IInv, RequestInv, [Next]_vars, NEW p \in Handler, tx[p].pc # "idle",
               tx'[p].pc = "idle", Final(p)
        PROVE  \/ sessions[tx[p].token].expiresAt <= clock
               \/ \A u \in InFamily(Family_(p)) : ~Live(u)'
    <2>0. /\ p \in Proc /\ tx \in [Proc -> Tx] /\ tx[p] \in Tx /\ ProcInv(p) /\ clock \in Nat
          /\ tx[p].op \in {"rotate", "revoke"} /\ tx[p].token \in Token
          /\ sessions[tx[p].token].state # "absent" /\ sessions[tx[p].token] \in Row
      <3>1. p \in Proc /\ tx \in [Proc -> Tx] /\ tx[p] \in Tx /\ ProcInv(p) /\ clock \in Nat
        BY <1>1 DEF IInv, TypeOK, Proc
      <3>2. tx[p].op \in {"rotate", "revoke"}
        BY <1>1 DEF Final
      <3> QED BY <1>1, <3>1, <3>2 DEF ProcInv, TxShape, IInv, TypeOK
    <2>1. CASE ~Stored(tx[p].token)
      <3>1. sessions[tx[p].token].state = "deleted"
        BY <2>0, <2>1 DEF Stored, Row, RowState
      <3> QED BY <1>1, <2>0, <3>1 DEF RequestInv, DeletedAreExpired, Row
    <2>2. CASE sessions[tx[p].token].state = "revoked" /\ UNCHANGED sessions
      BY <1>1, <2>0, <2>2 DEF IInv, RevocationIsTotal, Live, Stored, InFamily, Family_
    <2>3. CASE Expired(p)
      BY <2>0, <2>3 DEF Expired, ProcInv, TxShape, Row, Tx
    <2>4. CASE CommitRevocation(p)
      <3>1. Revoking(p) /\ tx[p].targets = {}
        BY <2>0, <2>4 DEF CommitRevocation, Committed, Revoking, ProcInv, TxShape, Rotating
      <3>2. \A u \in Token : sessions[u] \in Row
        BY <1>1 DEF IInv, TypeOK
      <3>3. \A u \in Token : Live(u)' => u \notin tx[p].written /\ sessions[u].state = "valid"
        BY <2>4, <3>2 DEF CommitRevocation, Live, Row
      <3>4. \A u \in InFamily(Family_(p)) : u \in Token /\
                (sessions[u].state = "valid" => u \in tx[p].written)
        BY <2>0, <3>1 DEF ProcInv, RevocationCovers, InFamily
      <3> QED BY <3>3, <3>4
    <2>5. ASSUME NEW r, tx' = [tx EXCEPT ![p] = Idle(r)]
          PROVE  tx'[p].reply = r
      BY <2>0, <2>5 DEF Idle
    <2>6. ASSUME Rollback(p, "conflict") \/ Fail(p) \/ CommitRotation(p) \/ CommitCleanup(p)
          PROVE  FALSE
      <3>1. CASE Rollback(p, "conflict") \/ Rollback(p, "unavailable")
        BY <1>1, <2>5, <3>1 DEF Rollback, Final
      <3>2. CASE CommitRotation(p)
        <4>1. tx[p].op = "rotate" /\ tx'[p].reply \in {"ok", "unavailable"}
          BY <2>5, <3>2 DEF CommitRotation, Committed
        <4> QED BY <1>1, <4>1 DEF Final
      <3> QED BY <2>0, <2>6, <3>1, <3>2 DEF Fail, CommitCleanup
    <2>7. CASE FindFamily(p)
      <3>1. tx' # [tx EXCEPT ![p].pc = "family"]
        BY <1>1, <2>0 DEF Tx
      <3> QED BY <2>1, <2>7, <3>1 DEF FindFamily
    <2>8. CASE LockRow(p)
      <3>1. ~StartRevocation(p)
        <4> DEFINE targets == {u \in InFamily(Family_(p)) : sessions[u].state = "valid"}
        <4>1. SUFFICES ASSUME StartRevocation(p) PROVE FALSE
          OBVIOUS
        <4>2. tx'[p] = [tx[p] EXCEPT !.pc = ScanPC(targets), !.targets = targets]
          BY <2>0, <4>1 DEF StartRevocation
        <4> HIDE DEF targets
        <4>3. tx'[p].pc = ScanPC(targets)
          BY <2>0, <4>2 DEF Tx
        <4> QED BY <1>1, <4>3 DEF ScanPC
      <3>2. ASSUME NEW next \in Fresh, InsertSuccessor(p, next) PROVE FALSE
        <4>1. tx'[p] = [tx[p] EXCEPT !.pc = "commit", !.next = next]
          BY <2>0, <3>2 DEF InsertSuccessor
        <4>2. tx'[p].pc = "commit"
          BY <2>0, <4>1 DEF Tx
        <4> QED BY <1>1, <4>2
      <3> QED BY <2>1, <2>2, <2>3, <2>6, <2>8, <3>1, <3>2 DEF LockRow, RotateRow, Rollback
    <2>9. ~LockFamily(p) /\ ~\E u \in Token : ScanRow(p, u)
      <3>1. ~LockFamily(p)
        BY <1>1, <2>0 DEF LockFamily, Tx
      <3>2. ASSUME NEW u \in Token, ScanRow(p, u) PROVE FALSE
        <4> DEFINE rest == tx[p].targets \ {u}
        <4>1. \/ tx'[p] = [tx[p] EXCEPT !.pc = ScanPC(rest), !.targets = rest,
                                        !.written = tx[p].written \cup {u}]
              \/ tx'[p] = [tx[p] EXCEPT !.pc = ScanPC(rest), !.targets = rest]
          BY <2>0, <3>2 DEF ScanRow
        <4> HIDE DEF rest
        <4>2. tx'[p].pc = ScanPC(rest)
          BY <2>0, <4>1 DEF Tx
        <4> QED BY <1>1, <4>2 DEF ScanPC
      <3> QED BY <3>1, <3>2
    <2>10. ASSUME NEW q \in Proc, q # p, Step(q) \/ Fail(q) PROVE FALSE
      <3>1. \E rec : tx' = [tx EXCEPT ![q] = rec]
        BY <2>10, Zenon DEF Step, Fail, FindFamily, LockFamily, LockRow, RotateRow, ScanRow,
           CommitRotation, CommitRevocation, CommitCleanup, Committed, Rollback,
           StartRevocation, InsertSuccessor
      <3> QED BY <1>1, <2>0, <2>10, <3>1
    <2>11. ASSUME \/ Tick \/ (\E f \in Family, t \in Token : Issue(f, t))
                  \/ (\E q \in Handler, t \in Token, op \in {"rotate", "revoke"} : Begin(q, op, t))
                  \/ (\E q \in Cleaner : BeginCleanup(q)) \/ UNCHANGED vars
           PROVE  FALSE
      <3>1. tx' = tx \/ \E q, rec : tx[q].pc = "idle" /\ tx' = [tx EXCEPT ![q] = rec]
        BY <2>11, Zenon DEF Tick, Issue, Begin, BeginCleanup, vars
      <3> QED BY <1>1, <2>0, <3>1
    <2> QED BY <1>1, <2>4, <2>6, <2>7, <2>8, <2>9, <2>10, <2>11 DEF Next, Step
  <1>2. IInv /\ RequestInv /\ [Next]_vars =>
            [\A p \in Handler : Fin(p)]_vars
    BY <1>1
  <1> QED BY <1>2, Invariance, RequestInvariance, PTL DEF Spec, DenialIsFinal

-----------------------------------------------------------------------------
(* Refinement: the committed rows behave like SessionFamily.                *)

Drawn == {t \in Token : sessions[t].state # "absent"}
Born == {f \in Family : InFamily(f) # {}}
Head == [f \in Family |-> {t \in InFamily(f) : Live(t)}]

LEMMA QuietRefines ==
    ASSUME UNCHANGED sessions
    PROVE  UNCHANGED <<Drawn, Born, Head>>
  BY DEF Drawn, Born, Head, InFamily, Live

LEMMA IssueRefines ==
    ASSUME IInv, NEW f \in Family, NEW t \in Token, Issue(f, t)
    PROVE  Store!Login(f, t)
  <1>1. /\ sessions'[t] = NewSession(f, clock)
        /\ \A u \in Token : u # t => sessions'[u] = sessions[u]
        /\ \A u \in Token : sessions[u].family # f
        /\ sessions[t].state = "absent" /\ sessions[t].family = Null
    BY DEF IInv, TypeOK, Issue, Fresh, InFamily, RowShape, AbsentRow
  <1>2. /\ sessions'[t].state = "valid" /\ sessions'[t].family = f
        /\ sessions'[t].consumedAt = Null
    BY <1>1 DEF NewSession
  <1>3. f \notin Born /\ t \notin Drawn
    BY <1>1 DEF Born, Drawn, InFamily
  <1>4. Drawn' = Drawn \cup {t}
    BY <1>1, <1>2 DEF Drawn
  <1>5. InFamily(f)' = {t} /\ \A g \in Family \ {f} : InFamily(g)' = InFamily(g)
    BY <1>1, <1>2 DEF InFamily
  <1>6. Born' = Born \cup {f}
    BY <1>5 DEF Born
  <1>7. Head' = [Head EXCEPT ![f] = {t}]
    <2>1. {u \in InFamily(f)' : Live(u)'} = {t}
      BY <1>2, <1>5 DEF Live
    <2>2. \A g \in Family \ {f} :
              {u \in InFamily(g)' : Live(u)'} = {u \in InFamily(g) : Live(u)}
      BY <1>1, <1>2, <1>5 DEF Live, InFamily
    <2> QED BY <2>1, <2>2 DEF Head
  <1> QED BY <1>3, <1>4, <1>6, <1>7 DEF Store!Login, Drawn, Born, Head

LEMMA RotationRefines ==
    ASSUME IInv, NEW p \in Proc, CommitRotation(p),
           NEW t, NEW n, NEW f, t = tx[p].token, n = tx[p].next, f = Family_(p)
    PROVE  f \in Family /\ n \in Token /\ Store!Exchange(f, n)
  <1>1. /\ tx[p].pc = "commit" /\ tx[p].op = "rotate" /\ n # Null /\ ProcInv(p)
        /\ n \in Token /\ t \in Token
    BY DEF CommitRotation, Committed, IInv, TypeOK, ProcInv, TxShape, Tx
  <1>2. /\ sessions[t].state = "valid" /\ sessions[t].consumedAt = Null
        /\ sessions[n].state = "absent" /\ t # n
        /\ sessions[t].family = f /\ f \in Family /\ sessions[n].family = Null
    BY <1>1 DEF ProcInv, RotationReady, Rotating, Live, IInv, RowShape, AbsentRow, Family_
  <1>3. \A u \in Token : u # t /\ u # n => sessions'[u] = sessions[u]
    BY <1>1, <1>2 DEF CommitRotation, IInv, TypeOK
  <1>4. /\ sessions'[t].state = "valid" /\ sessions'[t].family = f
        /\ sessions'[t].consumedAt # Null
    <2>1. sessions[t] \in Row /\ tx[p].now # Null
      BY <1>1 DEF IInv, TypeOK, Tx
    <2>2. sessions'[t] = [sessions[t] EXCEPT !.consumedAt = tx[p].now, !.replacedBy = n]
      BY <1>1, <1>2 DEF CommitRotation, IInv, TypeOK
    <2> QED BY <1>2, <2>1, <2>2 DEF Row
  <1>5. /\ sessions'[n].state = "valid" /\ sessions'[n].family = f
        /\ sessions'[n].consumedAt = Null
    <2>1. sessions'[n] = NewSession(f, tx[p].now)
      BY <1>1, <1>2 DEF CommitRotation, IInv, TypeOK
    <2> QED BY <2>1 DEF NewSession
  <1>6. InFamily(f)' = InFamily(f) \cup {n} /\ t \in InFamily(f)
        /\ \A g \in Family \ {f} : InFamily(g)' = InFamily(g)
    BY <1>1, <1>2, <1>3, <1>4, <1>5 DEF InFamily
  <1>7. Drawn' = Drawn \cup {n} /\ n \notin Drawn
    BY <1>1, <1>2, <1>3, <1>4, <1>5 DEF Drawn
  <1>8. Born' = Born
    BY <1>2, <1>6 DEF Born
  <1>9. t \in {u \in InFamily(f) : Live(u)}
    BY <1>2, <1>6 DEF Live
  <1>10. Head' = [Head EXCEPT ![f] = {n}]
    <2>1. {u \in InFamily(f)' : Live(u)'} = {n}
      <3>1. \A u \in Token : u # n /\ sessions'[u].family = f => ~Live(u)'
        BY <1>1, <1>2, <1>3, <1>4 DEF IInv, AtMostOneLive, Live
      <3>2. n \in InFamily(f)' /\ Live(n)'
        BY <1>5, <1>6 DEF Live
      <3> QED BY <3>1, <3>2 DEF InFamily
    <2>2. \A g \in Family \ {f} :
              {u \in InFamily(g)' : Live(u)'} = {u \in InFamily(g) : Live(u)}
      <3>1. \A g \in Family \ {f} : \A u \in InFamily(g) : sessions'[u] = sessions[u]
        BY <1>2, <1>3 DEF InFamily
      <3> QED BY <1>6, <3>1 DEF Live
    <2> QED BY <1>2, <2>1, <2>2 DEF Head
  <1> QED BY <1>1, <1>2, <1>7, <1>8, <1>9, <1>10 DEF Store!Exchange, Drawn, Born, Head

LEMMA RevocationRefines ==
    ASSUME IInv, NEW p \in Proc, CommitRevocation(p), NEW f, f = Family_(p)
    PROVE  f \in Family /\ Store!End({f})
  <1> DEFINE W == tx[p].written
  <1>1. /\ Revoking(p) /\ ProcInv(p) /\ W \subseteq Token /\ tx[p].targets = {}
        /\ tx[p].token \in Token /\ f \in Family
    BY DEF Revoking, CommitRevocation, Committed, IInv, TypeOK, ProcInv, TxShape,
       Tx, Rotating, RowShape, Family_
  <1>2. \A u \in Token :
            /\ u \in W => /\ sessions[u].state = "valid"
                          /\ sessions'[u].state = "revoked"
                          /\ sessions'[u].family = sessions[u].family
            /\ u \notin W => sessions'[u] = sessions[u]
    <2>1. \A u \in Token : sessions[u] \in Row
      BY DEF IInv, TypeOK
    <2> QED BY <1>1, <2>1 DEF CommitRevocation, ProcInv, WrittenRowsLocked, Row
  <1>3. \A u \in InFamily(f) : sessions'[u].state # "valid"
    BY <1>1, <1>2 DEF ProcInv, RevocationCovers, InFamily
  <1>4. W \subseteq InFamily(f)
    BY <1>1 DEF ProcInv, RevocationCovers
  <1> HIDE DEF W
  <1>5. \A g \in Family : InFamily(g)' = InFamily(g)
    BY <1>2 DEF InFamily
  <1>6. Drawn' = Drawn /\ Born' = Born
    BY <1>2, <1>5 DEF Drawn, Born
  <1>7. Head' = [g \in Family |-> IF g \in {f} THEN {} ELSE Head[g]]
    <2>1. {u \in InFamily(f)' : Live(u)'} = {}
      BY <1>1, <1>3, <1>5 DEF Live
    <2>2. \A g \in Family \ {f} :
              {u \in InFamily(g)' : Live(u)'} = {u \in InFamily(g) : Live(u)}
      <3>1. \A g \in Family \ {f} : \A u \in InFamily(g) : sessions'[u] = sessions[u]
        BY <1>2, <1>4 DEF InFamily
      <3> QED BY <1>5, <3>1 DEF Live
    <2> QED BY <1>1, <2>1, <2>2 DEF Head
  <1> QED BY <1>1, <1>6, <1>7 DEF Store!End, Drawn, Born, Head

LEMMA CleanupRefines ==
    ASSUME IInv, NEW p \in Proc, CommitCleanup(p)
    PROVE  \E F \in SUBSET Family : Store!End(F)
  <1> DEFINE W == tx[p].written
             F == {f \in Family : Head'[f] = {}}
  <1>1. W \subseteq Token /\ \A u \in W : Stored(u)
    BY DEF IInv, TypeOK, ProcInv, WrittenRowsLocked, Tx
  <1>2. \A u \in Token :
            /\ sessions'[u].family = sessions[u].family
            /\ sessions'[u].consumedAt = sessions[u].consumedAt
            /\ u \in W => sessions'[u].state = "deleted"
            /\ u \notin W => sessions'[u].state = sessions[u].state
    <2>1. \A u \in Token : sessions[u] \in Row
      BY DEF IInv, TypeOK
    <2> QED BY <2>1 DEF CommitCleanup, Row
  <1> HIDE DEF W
  <1>3. \A g \in Family : InFamily(g)' = InFamily(g)
    BY <1>2 DEF InFamily
  <1>4. Drawn' = Drawn /\ Born' = Born
    BY <1>1, <1>2, <1>3 DEF Drawn, Born, Stored
  <1>5. \A g \in Family : Head'[g] # {} => Head'[g] = Head[g]
    <2> SUFFICES ASSUME NEW g \in Family, NEW v \in InFamily(g), Live(v)'
                 PROVE  {u \in InFamily(g) : Live(u)'} = {u \in InFamily(g) : Live(u)}
      BY <1>3 DEF Head
    <2>1. \A u \in InFamily(g) : Live(u)' => Live(u)
      BY <1>2 DEF Live, InFamily
    <2>2. \A u \in InFamily(g) : Live(u) => u = v
      BY <2>1 DEF IInv, AtMostOneLive, InFamily
    <2> QED BY <2>1, <2>2
  <1>6. Head' = [g \in Family |-> IF g \in F THEN {} ELSE Head[g]]
    <2>1. \A g \in Family : Head'[g] = IF g \in F THEN {} ELSE Head[g]
      BY <1>5
    <2> HIDE DEF F
    <2> QED BY <2>1 DEF Head
  <1>7. Store!End(F)
    BY <1>4, <1>6 DEF Store!End, Drawn, Born, Head
  <1> QED BY <1>7

\* The store implements the abstract family protocol: each commit is one
\* Login, Exchange or End step and everything else stutters (Issue, Rotate,
\* Revoke, DeleteExpired).
THEOREM Refinement == Spec => ImplementsSessionFamily
  <1>1. Init => Store!Init
    <2> SUFFICES ASSUME Init PROVE Store!Init
      OBVIOUS
    <2>1. \A t \in Token : sessions[t].state = "absent" /\ sessions[t].family = Null
      BY DEF Init, AbsentRow
    <2>2. \A f \in Family : InFamily(f) = {}
      BY <2>1 DEF InFamily
    <2> QED BY <2>1, <2>2 DEF Store!Init
  <1>2. IInv /\ [Next]_vars => [Store!Next]_(Store!vars)
    <2> SUFFICES ASSUME IInv, [Next]_vars PROVE [Store!Next]_(Store!vars)
      OBVIOUS
    <2>0. ASSUME UNCHANGED sessions PROVE UNCHANGED Store!vars
      BY <2>0, QuietRefines DEF Store!vars, Drawn, Born, Head
    <2>1. CASE \E f \in Family, t \in Token : Issue(f, t)
      BY <2>1, IssueRefines DEF Store!Next
    <2>2. ASSUME NEW p \in Proc, CommitRotation(p) PROVE Store!Next
      BY <2>2, RotationRefines DEF Store!Next
    <2>3. ASSUME NEW p \in Proc, CommitRevocation(p) PROVE Store!Next
      BY <2>3, RevocationRefines DEF Store!Next
    <2>4. ASSUME NEW p \in Proc, CommitCleanup(p) PROVE Store!Next
      BY <2>4, CleanupRefines DEF Store!Next
    <2>5. ASSUME NEW p \in Proc,
                 \/ FindFamily(p) \/ LockFamily(p) \/ LockRow(p) \/ Fail(p)
                 \/ \E u \in Token : ScanRow(p, u)
          PROVE  UNCHANGED sessions
      BY <2>5 DEF FindFamily, LockFamily, LockRow, Fail, ScanRow, Rollback,
         RotateRow, StartRevocation, InsertSuccessor
    <2>6. CASE \/ Tick
               \/ \E p \in Handler, t \in Token, op \in {"rotate", "revoke"} : Begin(p, op, t)
               \/ \E p \in Cleaner : BeginCleanup(p)
               \/ UNCHANGED vars
      <3>1. UNCHANGED sessions
        BY <2>6 DEF Tick, Begin, BeginCleanup, vars
      <3> QED BY <2>0, <3>1
    <2> QED BY <2>0, <2>1, <2>2, <2>3, <2>4, <2>5, <2>6 DEF Next, Step
  <1> QED BY <1>1, <1>2, Invariance, PTL DEF Spec, Store!Spec, ImplementsSessionFamily
=============================================================================
