----------------------------- MODULE Watchlist ------------------------------
(***************************************************************************)
(* One user's watchlist: the rows of table watchlists with their sort keys, *)
(* and the requests and the sign-up hook that change them concurrently      *)
(* (watchlist/usecase.go, watchlist/repository.go and its queries).         *)
(*                                                                          *)
(* Each SQL statement is a step.  PostgreSQL at READ COMMITTED: a statement *)
(* sees the rows committed when it starts, row locks and the unique indexes *)
(* (user_id, symbol_code) and (user_id, sort_key) make it wait for open     *)
(* transactions.  An INSERT draws its BIGSERIAL id when it starts, before    *)
(* it waits for anything.  Requests for codes that are not in table symbols *)
(* are refused before any of this and do not appear.                        *)
(***************************************************************************)
EXTENDS Integers, Sequences, SequencesExt, FiniteSetsExt, Sorting

CONSTANTS
    Code,       \* symbol codes
    Symbol,     \* those that are listed in table symbols
    Defaults,   \* the default symbols, in their order
    Request,    \* concurrent requests of the user
    Hook,       \* the OnUserCreated hook of the user's sign-up
    Null,
    MaxKey      \* bound on the sort keys

ASSUME WatchlistConstants ==
    /\ IsFiniteSet(Symbol) /\ Symbol \subseteq Code
    /\ Defaults \in Seq(Code)
    /\ Hook \notin Request /\ Symbol \cap (Request \cup {Hook}) = {}
    /\ Null \notin Symbol \cup Request \cup {Hook} \cup Int
    /\ MaxKey \in Nat

VARIABLES
    key,       \* committed sort_key of each symbol's row, Null for no row
    byId,      \* the ids in use, in their order: the symbol of a committed row,
               \* the transaction that drew the id of a row to be
    tx,        \* what each request is doing
    rowLock,   \* holder of each committed row's lock
    userLock   \* holder of FOR UPDATE on the users row

vars == <<key, byId, tx, rowLock, userLock>>

Proc == Request \cup {Hook}

Listed == {s \in Symbol : key[s] # Null}

PC == {"idle", "user", "max", "draw", "insert", "fk", "snapshot", "lock",
       "shift", "place", "commit"}
Reply == {"none", "ok", "already", "mismatch", "error"}

Tx == [pc    : PC,
       op    : {"none", "add", "reorder", "defaults"},
       sym   : Symbol \cup {Null},      \* the symbol to add
       order : Seq(Symbol),             \* the requested order
       todo  : Seq(Symbol),             \* rows still to be locked, by id
       i     : Nat,                     \* next entry of order, or of Defaults
       k     : Int,                     \* the sort key of the row to add
       write : [Symbol -> Int \cup {Null}], \* uncommitted sort keys
       blind : BOOLEAN,                 \* its rows miss one of the hook's
       reply : Reply]

NoWrite == [s \in Symbol |-> Null]
Idle(reply) == [pc |-> "idle", op |-> "none", sym |-> Null, order |-> <<>>,
                todo |-> <<>>, i |-> 1, k |-> 0, write |-> NoWrite,
                blind |-> FALSE, reply |-> reply]

Held(p) == {s \in Symbol : rowLock[s] = p}

\* The hook starts with the committed user row: its symbols are added one
\* autocommitted INSERT at a time.
Init ==
    /\ key = [s \in Symbol |-> Null]
    /\ byId = <<>>
    /\ tx = [p \in Proc |->
               IF p = Hook
               THEN [Idle("none") EXCEPT !.pc = "draw", !.op = "defaults"]
               ELSE Idle("none")]
    /\ rowLock = [s \in Symbol |-> Null]
    /\ userLock = Null

-----------------------------------------------------------------------------
(* Transactions.                                                            *)

Release(p) ==
    /\ rowLock' = [s \in Symbol |-> IF rowLock[s] = p THEN Null ELSE rowLock[s]]
    /\ userLock' = IF userLock = p THEN Null ELSE userLock

Rollback(p, reply) ==
    /\ tx' = [tx EXCEPT ![p] = Idle(reply)]
    /\ byId' = RemoveFirst(byId, p)
    /\ Release(p)
    /\ UNCHANGED key

\* The rows as p sees them: its own writes over the committed ones.
Sees(p, s) == IF tx[p].write[s] # Null THEN tx[p].write[s] ELSE key[s]

\* The unique index on sort_key when p gives key k to s: the other rows that
\* hold k, and the open transactions whose outcome p has to wait for first.
Collides(p, s, k) == \E u \in Symbol \ {s} : Sees(p, u) = k
Undecided(p, s, k) ==
    {q \in Proc \ {p} : \E u \in Symbol :
        \/ tx[q].write[u] = k
        \/ u # s /\ key[u] = k /\ tx[q].write[u] # Null}

\* The unique index on symbol_code when p inserts a row for s.
Inserting(p, s) == {q \in Proc \ {p} : tx[q].write[s] # Null /\ key[s] = Null}

-----------------------------------------------------------------------------
(* AddSymbol.                                                               *)

BeginAdd(p, s) ==
    /\ tx[p].pc = "idle"
    /\ tx' = [tx EXCEPT ![p] = [Idle("none") EXCEPT !.pc = "user", !.op = "add",
                                                   !.sym = s]]
    /\ UNCHANGED <<key, byId, rowLock, userLock>>

\* Faulty variant: concurrent additions are not serialised.
NoUserLock(p) ==
    /\ tx[p].pc = "user"
    /\ tx' = [tx EXCEPT ![p].pc = "max"]
    /\ UNCHANGED <<key, byId, rowLock, userLock>>

LockWatchlistUser(p) ==
    /\ tx[p].pc = "user" /\ userLock = Null
    /\ userLock' = p
    /\ tx' = [tx EXCEPT ![p].pc = "max"]
    /\ UNCHANGED <<key, byId, rowLock>>

MaxWatchlistSortKey(p) ==
    LET max == IF Listed = {} THEN -1 ELSE Max({key[s] : s \in Listed})
    IN  /\ tx[p].pc = "max" /\ max < MaxKey
        /\ tx' = [tx EXCEPT ![p].pc = "draw", ![p].k = max + 1]
        /\ UNCHANGED <<key, byId, rowLock, userLock>>

\* An INSERT starts: nextval of the id sequence.
DrawId(p) ==
    /\ tx[p].pc = "draw"
    /\ tx[p].op = "defaults" =>
          tx[p].i <= Len(Defaults) /\ Defaults[tx[p].i] \in Symbol
    /\ byId' = Append(byId, p)
    /\ tx' = [tx EXCEPT ![p].pc = "insert"]
    /\ UNCHANGED <<key, rowLock, userLock>>

\* The row of p takes the place of the id that p has drawn.
Placed(p, s) == [n \in DOMAIN byId |-> IF byId[n] = p THEN s ELSE byId[n]]

\* InsertWatchlist with the error mapping of mapWatchlistPGErr.
InsertRow(p, s, k, pc) ==
    /\ Inserting(p, s) = {}
    /\ \/ key[s] # Null /\ Rollback(p, "already")
       \/ /\ key[s] = Null /\ Undecided(p, s, k) = {}
          /\ \/ Collides(p, s, k) /\ Rollback(p, "error")
             \/ /\ ~Collides(p, s, k)
                /\ tx' = [tx EXCEPT ![p].pc = pc, ![p].write[s] = k]
                /\ UNCHANGED <<key, byId, rowLock, userLock>>

InsertWatchlist(p) ==
    /\ tx[p].pc = "insert" /\ tx[p].op = "add"
    /\ InsertRow(p, tx[p].sym, tx[p].k, "commit")

-----------------------------------------------------------------------------
(* InitializeDefaults: one INSERT per listed default symbol with fixed sort  *)
(* keys, stopping at the first error.  The foreign key check of an INSERT needs    *)
(* the users row after the index entries exist, and waits for FOR UPDATE.    *)

DefaultsDone(p) ==
    /\ tx[p].pc = "draw" /\ tx[p].op = "defaults" /\ tx[p].i > Len(Defaults)
    /\ Rollback(p, "ok")

SkipDefault(p) ==
    /\ tx[p].pc = "draw" /\ tx[p].op = "defaults" /\ tx[p].i <= Len(Defaults)
    /\ Defaults[tx[p].i] \notin Symbol
    /\ tx' = [tx EXCEPT ![p].i = @ + 1]
    /\ UNCHANGED <<key, byId, rowLock, userLock>>

InsertDefault(p) ==
    /\ tx[p].pc = "insert" /\ tx[p].op = "defaults"
    /\ InsertRow(p, Defaults[tx[p].i], tx[p].i - 1, "fk")

CheckUserOfDefault(p) ==
    LET s == Defaults[tx[p].i] IN
    /\ tx[p].pc = "fk" /\ userLock = Null
    /\ key' = [key EXCEPT ![s] = tx[p].i - 1]
    /\ byId' = Placed(p, s)
    /\ tx' = [tx EXCEPT ![p].pc = "draw", ![p].i = @ + 1,
                        ![p].write = NoWrite]
    /\ UNCHANGED <<rowLock, userLock>>

-----------------------------------------------------------------------------
(* RemoveSymbol: one DELETE that waits for the row's lock.  A SELECT FOR     *)
(* UPDATE that is waiting for the deleted row will skip it.                  *)

RemoveSymbol(s) ==
    /\ key[s] # Null /\ rowLock[s] = Null
    /\ key' = [key EXCEPT ![s] = Null]
    /\ byId' = RemoveFirst(byId, s)
    /\ tx' = [p \in Proc |-> [tx[p] EXCEPT !.todo = RemoveFirst(@, s)]]
    /\ UNCHANGED <<rowLock, userLock>>

-----------------------------------------------------------------------------
(* ReorderSymbols: ListByUser and the comparison with the request, then the  *)
(* transaction of UpdateSortKeys.  Orders refused by the comparison change   *)
(* nothing.                                                                  *)

BeginReorder(p, order) ==
    /\ tx[p].pc = "idle"
    /\ IsInjective(order) /\ ToSet(order) = Listed
    /\ tx' = [tx EXCEPT ![p] = [Idle("none") EXCEPT !.pc = "snapshot",
                                  !.op = "reorder", !.order = order]]
    /\ UNCHANGED <<key, byId, rowLock, userLock>>

\* Faulty variant: rows are locked in the order of the request.
LockInRequestOrder(p) ==
    /\ tx[p].pc = "snapshot"
    /\ tx' = [tx EXCEPT ![p].pc = "lock",
                ![p].todo = SelectSeq(tx[p].order, LAMBDA s : s \in Listed)]
    /\ UNCHANGED <<key, byId, rowLock, userLock>>

\* LockWatchlistByUser: ORDER BY id FOR UPDATE, on the rows that are committed now.
\* A row that the hook is inserting already has its place in that order.
Id == [s \in Listed |-> CHOOSE n \in DOMAIN byId : byId[n] = s]

StartLocking(p) ==
    /\ tx[p].pc = "snapshot"
    /\ tx' = [tx EXCEPT ![p].pc = "lock", ![p].todo = SortedBy(Listed, Id),
                        ![p].blind = Hook \in ToSet(byId)]
    /\ UNCHANGED <<key, byId, rowLock, userLock>>

LockNextRow(p) ==
    /\ tx[p].pc = "lock" /\ tx[p].todo # <<>>
    /\ rowLock[Head(tx[p].todo)] = Null
    /\ rowLock' = [rowLock EXCEPT ![Head(tx[p].todo)] = p]
    /\ tx' = [tx EXCEPT ![p].todo = Tail(@)]
    /\ UNCHANGED <<key, byId, userLock>>

CheckCount(p) ==
    /\ tx[p].pc = "lock" /\ tx[p].todo = <<>>
    /\ \/ /\ Cardinality(Held(p)) # Len(tx[p].order)
          /\ Rollback(p, "mismatch")
       \/ /\ Cardinality(Held(p)) = Len(tx[p].order)
          /\ tx' = [tx EXCEPT ![p].pc =
                      IF tx[p].order = <<>> THEN "commit" ELSE "shift"]
          /\ UNCHANGED <<key, byId, rowLock, userLock>>

\* Faulty variant: the number of updated rows is not looked at.
UpdateIgnoringMissing(p, k, next) ==
    LET s == tx[p].order[tx[p].i]
        last == tx[p].i = Len(tx[p].order)
    IN  /\ key[s] # Null => rowLock[s] \in {Null, p}
        /\ Undecided(p, s, k) = {} /\ ~Collides(p, s, k)
        /\ tx' = [tx EXCEPT ![p].write[s] = IF key[s] = Null THEN Null ELSE k,
                            ![p].i = IF last THEN 1 ELSE @ + 1,
                            ![p].pc = IF last THEN next ELSE @]
        /\ UNCHANGED <<key, byId, rowLock, userLock>>

\* UpdateWatchlistSortKey for the i-th entry: no such row is a mismatch, a row
\* with that key a unique violation that is reported as an internal error.
UpdateEntry(p, k, next) ==
    LET s == tx[p].order[tx[p].i]
        last == tx[p].i = Len(tx[p].order)
    IN  \/ key[s] = Null /\ Rollback(p, "mismatch")
        \/ /\ key[s] # Null /\ rowLock[s] \in {Null, p}
           /\ Undecided(p, s, k) = {}
           /\ \/ Collides(p, s, k) /\ Rollback(p, "error")
              \/ /\ ~Collides(p, s, k)
                 /\ tx' = [tx EXCEPT ![p].write[s] = k,
                                     ![p].i = IF last THEN 1 ELSE @ + 1,
                                     ![p].pc = IF last THEN next ELSE @]
                 /\ rowLock' = [rowLock EXCEPT ![s] = p]
                 /\ UNCHANGED <<key, byId, userLock>>

\* Phase 1: out of the way, to -(i+1) for i counted from 0.
ShiftEntry(p) == tx[p].pc = "shift" /\ UpdateEntry(p, -tx[p].i, "place")

\* Phase 2: the final keys, counted from 0.
PlaceEntry(p) == tx[p].pc = "place" /\ UpdateEntry(p, tx[p].i - 1, "commit")

-----------------------------------------------------------------------------
\* Everything the transaction wrote, at once; the acknowledgement may be lost.
Commit(p) ==
    /\ tx[p].pc = "commit"
    /\ key' = [s \in Symbol |-> Sees(p, s)]
    /\ byId' = IF tx[p].op = "add" THEN Placed(p, tx[p].sym) ELSE byId
    /\ \E reply \in {"ok", "error"} : tx' = [tx EXCEPT ![p] = Idle(reply)]
    /\ Release(p)

\* Cancelled request, lost connection, victim of the deadlock detector.  The
\* hook runs on a context that is not cancelled with the request.
Fail(p) == tx[p].pc # "idle" /\ Rollback(p, "error")

Step(p) ==
    \/ LockWatchlistUser(p) \/ MaxWatchlistSortKey(p) \/ DrawId(p)
    \/ InsertWatchlist(p)
    \/ DefaultsDone(p) \/ SkipDefault(p) \/ InsertDefault(p) \/ CheckUserOfDefault(p)
    \/ StartLocking(p) \/ LockNextRow(p) \/ CheckCount(p)
    \/ ShiftEntry(p) \/ PlaceEntry(p)
    \/ Commit(p)

Next ==
    \/ \E p \in Request : \/ \E s \in Symbol : BeginAdd(p, s)
                          \/ \E order \in SeqOf(Symbol, Cardinality(Symbol)) :
                                BeginReorder(p, order)
    \/ \E s \in Symbol : RemoveSymbol(s)
    \/ \E p \in Proc : Step(p) \/ Fail(p)

Spec == Init /\ [][Next]_vars

-----------------------------------------------------------------------------
(* Properties.                                                              *)

\* Every variable has its type, and the ids are those of the rows of the table and
\* of the INSERTs that are under way.
TypeOK ==
    /\ key \in [Symbol -> Int \cup {Null}]
    /\ byId \in Seq(Symbol \cup Proc) /\ IsInjective(byId)
    /\ ToSet(byId) =
          Listed \cup {p \in Proc : tx[p].pc \in
                    IF tx[p].op = "add" THEN {"insert", "commit"} ELSE {"insert", "fk"}}
    /\ DOMAIN tx = Proc /\ \A p \in Proc : tx[p].pc \in PC /\ tx[p].reply \in Reply
    /\ rowLock \in [Symbol -> Proc \cup {Null}]
    /\ userLock \in Proc \cup {Null}

\* The list as ListByUser shows it: ORDER BY sort_key.
InOrder == SortedBy(Listed, key)

Asked(p) == <<tx[p].op, tx[p].sym, tx[p].order, tx[p].reply>>

PendingDefaults ==
    IF tx[Hook].op = "defaults" THEN SubSeq(Defaults, tx[Hook].i, Len(Defaults)) ELSE <<>>

Abstract == INSTANCE OrderedList WITH
    list <- InOrder, req <- [p \in Request |-> Asked(p)], gifts <- PendingDefaults

\* The statements, locks and shifted keys of concurrent requests add up to an
\* ordered list on which each request acts at one instant: additions go last
\* although Add and Reorder share no lock, a successful reorder is exactly as
\* requested whatever was added or removed since it was checked, negative keys
\* are never seen, and a request that reports a refusal has changed nothing.
ActsAsOrderedList == Abstract!Spec

\* Concurrent additions never collide on the sort key: with the sign-up hook
\* finished, an INSERT of AddSymbol meets no row with the key it computed.
AddNeverCollides ==
    \A p \in Request :
        /\ tx[p].op = "add" /\ tx[p].pc = "insert"
        /\ tx[Hook].pc = "idle" /\ tx[Hook].reply = "ok"
        => ~Collides(p, tx[p].sym, tx[p].k) /\ Undecided(p, tx[p].sym, tx[p].k) = {}

\* Whom the next statement of p may have to wait for.
WaitsFor(p) ==
    LET t == tx[p]
        rows(s, k) == Undecided(p, s, k) \cup ({rowLock[s]} \ {Null, p})
    IN  CASE t.pc \in {"user", "fk"} -> {userLock} \ {Null, p}
          [] t.pc = "insert" /\ t.op = "add" ->
                Inserting(p, t.sym) \cup Undecided(p, t.sym, t.k)
          [] t.pc = "lock" /\ t.todo # <<>> -> {rowLock[Head(t.todo)]} \ {Null, p}
          [] t.pc = "shift" -> rows(t.order[t.i], -t.i)
          [] t.pc = "place" -> rows(t.order[t.i], t.i - 1)
          [] OTHER -> {}

\* Requests do not deadlock: additions queue at the users row, reorders at the row
\* with the lowest id.  Excepted are the reorders that took their rows while the
\* sign-up hook was inserting one: it may appear below a row that they have locked,
\* and the next reorder then locks in the opposite order.  (The hook itself, which
\* takes no lock first, may deadlock with an addition.  PostgreSQL aborts one.)
RequestsNeverDeadlock ==
    \A S \in SUBSET {p \in Request : ~tx[p].blind} :
        S # {} => \E p \in S : WaitsFor(p) \cap S = {}

\* Comparing the request with the whole list "prevents the transaction from
\* failing (500)" on the unique sort keys (ReorderSymbols, usecase.go): the
\* updates of a reorder never meet another row with their key.
ReorderNeverCollides ==
    \A p \in Request :
        tx[p].pc = "place" => ~Collides(p, tx[p].order[tx[p].i], tx[p].i - 1)
=============================================================================
