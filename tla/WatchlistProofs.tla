--------------------------- MODULE WatchlistProofs --------------------------
(***************************************************************************)
(* Watchlist, for every set of symbols and of concurrent requests.          *)
(***************************************************************************)
EXTENDS Watchlist, FiniteSetTheorems, SequenceTheorems, WellFoundedInduction, TLAPS

-----------------------------------------------------------------------------
(* The inductive invariant *)

Adding(p) == tx[p].op = "add" /\ tx[p].pc \in {"draw", "insert", "commit"}
Moving(p) == tx[p].op = "reorder" /\ tx[p].pc \in {"shift", "place", "commit"}

\* The key a reorder has written for the j-th entry of its order so far.
Moved(t, j) == CASE t.pc = "shift"  -> IF j < t.i THEN -j ELSE Null
                 [] t.pc = "place"  -> IF j < t.i THEN j - 1 ELSE -j
                 [] t.pc = "commit" -> j - 1

\* What a transaction has written, by operation and statement.
AddShape(t) ==
    /\ t.sym \in Symbol
    /\ \/ t.pc \in {"user", "max"} /\ t.write = NoWrite
       \/ t.pc \in {"draw", "insert"} /\ t.write = NoWrite /\ t.k \in Nat
       \/ t.pc = "commit" /\ t.write = [NoWrite EXCEPT ![t.sym] = t.k] /\ t.k \in Nat

DefaultsShape(t) ==
    \/ t.pc = "draw" /\ t.write = NoWrite /\ t.i \in 1 .. (Len(Defaults) + 1)
    \/ /\ t.i \in 1 .. Len(Defaults) /\ Defaults[t.i] \in Symbol
       /\ \/ t.pc = "insert" /\ t.write = NoWrite
          \/ t.pc = "fk" /\ t.write = [NoWrite EXCEPT ![Defaults[t.i]] = t.i - 1]

ReorderShape(t) ==
    \/ t.pc \in {"snapshot", "lock"} /\ t.write = NoWrite /\ t.i = 1
    \/ /\ t.pc \in {"shift", "place", "commit"}
       /\ t.pc # "commit" => t.i \in 1 .. Len(t.order)
       /\ \A j \in 1 .. Len(t.order) : t.write[t.order[j]] = Moved(t, j)
       /\ \A s \in Symbol : s \notin ToSet(t.order) => t.write[s] = Null

Shape(p, t) ==
    /\ t \in Tx /\ IsInjective(t.order) /\ IsInjective(t.todo)
    /\ \/ t.op = "none" /\ t.pc = "idle" /\ t.write = NoWrite
       \/ t.op = "add" /\ p \in Request /\ AddShape(t)
       \/ t.op = "defaults" /\ p = Hook /\ DefaultsShape(t)
       \/ t.op = "reorder" /\ p \in Request /\ ReorderShape(t)

Shapes == DOMAIN tx = Proc /\ \A p \in Proc : Shape(p, tx[p])

\* Sort keys are natural numbers and distinct, also as any transaction sees them,
\* and no two transactions write the same one.
Keys ==
    /\ key \in [Symbol -> Nat \cup {Null}]
    /\ \A s, u \in Symbol : key[s] # Null /\ key[s] = key[u] => s = u
Views ==
    /\ \A p \in Proc : \A s, u \in Symbol :
          Sees(p, s) # Null /\ Sees(p, s) = Sees(p, u) => s = u
    /\ \A p, q \in Proc : \A s, u \in Symbol :
          p # q /\ tx[p].write[s] # Null => tx[p].write[s] # tx[q].write[u]

\* A reorder writes rows it has locked; the others insert, each its own symbol.
Writers ==
    /\ \A p \in Proc : \A s \in Symbol : tx[p].write[s] # Null =>
          IF tx[p].op = "reorder" THEN rowLock[s] = p ELSE key[s] = Null
    /\ \A p, q \in Proc : \A s \in Symbol :
          tx[p].write[s] # Null /\ tx[q].write[s] # Null => p = q

\* Locked rows exist; additions hold the users row, reorders the rows.
Locks ==
    /\ rowLock \in [Symbol -> Proc \cup {Null}] /\ userLock \in Proc \cup {Null}
    /\ \A s \in Symbol : rowLock[s] # Null => key[s] # Null
    /\ \A p \in Proc : userLock = p <=>
          tx[p].op = "add" /\ tx[p].pc \in {"max", "draw", "insert", "commit"}
    /\ \A s \in Symbol : rowLock[s] # Null =>
          tx[rowLock[s]].op = "reorder"
          /\ tx[rowLock[s]].pc \in {"lock", "shift", "place", "commit"}

\* The transactions that have drawn an id for a row which is not committed.
Drawn(p) == \/ tx[p].pc \in {"insert", "fk"}
            \/ tx[p].op = "add" /\ tx[p].pc = "commit"

\* The ids are those of the rows and of the open INSERTs; rows that wait to be
\* locked exist.
Ids ==
    /\ byId \in Seq(Symbol \cup Proc) /\ IsInjective(byId)
    /\ \A s \in Symbol : s \in ToSet(byId) <=> key[s] # Null
    /\ \A p \in Proc : p \in ToSet(byId) <=> Drawn(p)
    /\ \A p \in Proc : ToSet(tx[p].todo) \subseteq Listed

Comes(l, u, v) == \E i, j \in 1 .. Len(l) : i < j /\ l[i] = u /\ l[j] = v
Before(u, v) == Comes(byId, u, v)

\* Unless it took its rows blindly, a reorder that holds rows holds one that no
\* other row precedes by id, nor will the one that the hook is inserting; a reorder
\* that holds none has all that precede a row in front of it.
First(p) ==
    ~tx[p].blind =>
        /\ Held(p) # {} =>
              \E s \in Held(p) : \A u \in Symbol \cup {Hook} : ~Before(u, s)
        /\ tx[p].pc = "lock" /\ Held(p) = {} =>
              \A j \in 1 .. Len(tx[p].todo) : \A u \in Symbol \cup {Hook} :
                 Before(u, tx[p].todo[j]) =>
                    \E m \in 1 .. Len(tx[p].todo) : m < j /\ tx[p].todo[m] = u

\* The id of an addition is the last one, but for the hook's.
FirstRow ==
    /\ \A p \in Request : \A u \in Symbol \cup Proc : Before(p, u) => u = Hook
    /\ \A p \in Proc : First(p)

\* A reorder that has counted holds a row for each entry.
Counted == \A p \in Proc : Moving(p) => Len(tx[p].order) <= Cardinality(Held(p))

\* The key of an addition is above every row, and above every key a reorder will
\* give.
AddKeys ==
    \A p \in Proc : Adding(p) =>
        /\ \A s \in Symbol : key[s] # Null => key[s] < tx[p].k
        /\ \A q \in Proc : Moving(q) => Len(tx[q].order) <= tx[p].k

WatchlistInv ==
    /\ Shapes /\ Keys /\ Views /\ Writers /\ Locks /\ Ids /\ FirstRow
    /\ Counted /\ AddKeys

-----------------------------------------------------------------------------
(* Sequences *)

LEMMA NullIs ==
    /\ Null \notin Int /\ Null \notin Nat /\ Null \notin Symbol /\ Null \notin Proc
    /\ Hook \notin Request /\ Hook \in Proc /\ \A p \in Request : p \in Proc
    /\ \A p \in Proc : p \in Request \/ p = Hook
    /\ \A s \in Symbol : s \notin Proc
BY WatchlistConstants DEF Proc

LEMMA SeqFacts ==
    ASSUME NEW S, NEW l \in Seq(S)
    PROVE  /\ Len(l) \in Nat /\ l \in [1 .. Len(l) -> S] /\ DOMAIN l = 1 .. Len(l)
           /\ \A j \in 1 .. Len(l) : l[j] \in S
           /\ ToSet(l) = {l[j] : j \in 1 .. Len(l)}
           /\ ToSet(l) \subseteq S
           /\ \A s : s \in ToSet(l) <=> \E j \in 1 .. Len(l) : l[j] = s
           /\ l # <<>> <=> Len(l) > 0
           /\ IsInjective(l) <=> \A j, m \in 1 .. Len(l) : l[j] = l[m] => j = m
<1>1. Len(l) \in Nat /\ l \in [1 .. Len(l) -> S] /\ DOMAIN l = 1 .. Len(l)
  BY LenProperties
<1>2. \A j \in 1 .. Len(l) : l[j] \in S
  BY <1>1
<1>3. ToSet(l) = {l[j] : j \in 1 .. Len(l)}
  BY <1>1 DEF ToSet
<1>4. l # <<>> <=> Len(l) > 0
  BY <1>1
<1>5. IsInjective(l) <=> \A j, m \in 1 .. Len(l) : l[j] = l[m] => j = m
  BY <1>1 DEF IsInjective
<1> QED BY <1>1, <1>2, <1>3, <1>4, <1>5

LEMMA RemovedAt ==
    ASSUME NEW S, NEW l \in Seq(S), IsInjective(l), NEW i \in 1 .. Len(l)
    PROVE  LET m == RemoveFirst(l, l[i]) IN
           /\ m \in Seq(S) /\ Len(m) = Len(l) - 1
           /\ \A j \in 1 .. Len(m) : m[j] = IF j < i THEN l[j] ELSE l[j + 1]
<1>1. Len(l) \in Nat /\ \A j \in 1 .. Len(l) : l[j] \in S
  BY SeqFacts
<1>2. {j \in 1 .. Len(l) : l[j] = l[i]} = {i}
  BY SeqFacts
<1>3. Min({i}) = i
  BY DEF Min
<1>4. SelectInSeq(l, LAMBDA v : v = l[i]) = i
  BY <1>2, <1>3 DEF SelectInSeq
<1>5. RemoveFirst(l, l[i]) = RemoveAt(l, i)
  BY <1>4 DEF RemoveFirst
<1> DEFINE a == SubSeq(l, 1, i - 1)
           b == SubSeq(l, i + 1, Len(l))
<1>6. /\ a \in Seq(S) /\ Len(a) = i - 1
      /\ \A j \in 1 .. (i - 1) : a[j] = l[j]
  <2>1. \A j \in 1 .. (i - 1) : l[j] \in S
    BY <1>1
  <2> QED BY <2>1, <1>1, SubSeqProperties
<1>7. /\ b \in Seq(S) /\ Len(b) = Len(l) - i
      /\ \A j \in 1 .. (Len(l) - i) : b[j] = l[i + j]
  <2>1. \A j \in (i + 1) .. Len(l) : l[j] \in S
    BY <1>1
  <2>2. /\ b \in Seq(S) /\ Len(b) = IF i + 1 <= Len(l) THEN Len(l) - (i + 1) + 1 ELSE 0
        /\ \A j \in 1 .. (Len(l) - (i + 1) + 1) : b[j] = l[(i + 1) + j - 1]
    BY <2>1, <1>1, SubSeqProperties
  <2> HIDE DEF b
  <2> QED BY <2>2, <1>1
<1> HIDE DEF a, b
<1>8. /\ a \o b \in Seq(S) /\ Len(a \o b) = Len(a) + Len(b)
      /\ \A j \in 1 .. (Len(a) + Len(b)) :
            (a \o b)[j] = IF j <= Len(a) THEN a[j] ELSE b[j - Len(a)]
  BY <1>6, <1>7, ConcatProperties
<1>9. RemoveFirst(l, l[i]) = a \o b
  BY <1>5 DEF RemoveAt, a, b
<1>10. Len(a \o b) = Len(l) - 1
  BY <1>1, <1>6, <1>7, <1>8
<1>11. ASSUME NEW j \in 1 .. (Len(l) - 1)
       PROVE  (a \o b)[j] = IF j < i THEN l[j] ELSE l[j + 1]
  <2>1. (a \o b)[j] = IF j <= i - 1 THEN a[j] ELSE b[j - (i - 1)]
    BY <1>1, <1>6, <1>7, <1>8
  <2>2. CASE j < i
    BY <2>1, <2>2, <1>1, <1>6
  <2>3. CASE ~(j < i)
    <3>1. j - (i - 1) \in 1 .. (Len(l) - i)
      BY <2>3, <1>1
    <3>2. b[j - (i - 1)] = l[i + (j - (i - 1))]
      BY <3>1, <1>7
    <3>3. i + (j - (i - 1)) = j + 1
      BY <1>1
    <3> QED BY <2>1, <2>3, <3>2, <3>3, <1>1
  <2> QED BY <2>2, <2>3
<1> QED BY <1>8, <1>9, <1>10, <1>11

LEMMA ComesIs ==
    ASSUME NEW S, NEW l \in Seq(S), IsInjective(l), NEW u, NEW v
    PROVE  /\ Comes(l, u, v) => /\ u \in ToSet(l) /\ v \in ToSet(l) /\ u # v
                               /\ ~Comes(l, v, u)
           /\ u \in ToSet(l) /\ v \in ToSet(l) /\ u # v => Comes(l, u, v) \/ Comes(l, v, u)
<1>1. /\ Len(l) \in Nat /\ \A j, m \in 1 .. Len(l) : l[j] = l[m] => j = m
      /\ \A s : s \in ToSet(l) <=> \E j \in 1 .. Len(l) : l[j] = s
  BY SeqFacts
<1>2. ASSUME Comes(l, u, v)
      PROVE  u \in ToSet(l) /\ v \in ToSet(l) /\ u # v /\ ~Comes(l, v, u)
  <2>1. PICK i, j \in 1 .. Len(l) : i < j /\ l[i] = u /\ l[j] = v
    BY <1>2 DEF Comes
  <2>2. u \in ToSet(l) /\ v \in ToSet(l) /\ u # v
    BY <1>1, <2>1
  <2>3. ASSUME NEW m \in 1 .. Len(l), NEW n \in 1 .. Len(l), m < n, l[m] = v, l[n] = u
        PROVE  FALSE
    <3>1. m = j /\ n = i
      BY <1>1, <2>1, <2>3
    <3> QED BY <1>1, <2>1, <2>3, <3>1
  <2> QED BY <2>2, <2>3 DEF Comes
<1>3. ASSUME u \in ToSet(l), v \in ToSet(l), u # v PROVE Comes(l, u, v) \/ Comes(l, v, u)
  <2>1. PICK i, j \in 1 .. Len(l) : l[i] = u /\ l[j] = v
    BY <1>1, <1>3
  <2>2. i < j \/ j < i
    BY <1>1, <1>3, <2>1
  <2> QED BY <2>1, <2>2 DEF Comes
<1> QED BY <1>2, <1>3

LEMMA Appended ==
    ASSUME NEW S, NEW l \in Seq(S), IsInjective(l), NEW s \in S, s \notin ToSet(l)
    PROVE  LET m == Append(l, s) IN
           /\ m \in Seq(S) /\ IsInjective(m) /\ ToSet(m) = ToSet(l) \cup {s}
           /\ \A u, v : Comes(m, u, v) => v = s \/ Comes(l, u, v)
<1> DEFINE m == Append(l, s)
<1>1. /\ Len(l) \in Nat /\ \A j, n \in 1 .. Len(l) : l[j] = l[n] => j = n
      /\ \A j \in 1 .. Len(l) : l[j] # s
      /\ \A u : u \in ToSet(l) <=> \E j \in 1 .. Len(l) : l[j] = u
  BY SeqFacts
<1>2. /\ m \in Seq(S) /\ Len(m) = Len(l) + 1
      /\ (\A j \in 1 .. Len(l) : m[j] = l[j]) /\ m[Len(l) + 1] = s
  BY AppendProperties
<1> HIDE DEF m
<1>3. \A j \in 1 .. Len(m) : j \in 1 .. Len(l) \/ j = Len(l) + 1
  BY <1>1, <1>2
<1>4. \A j \in 1 .. Len(l) : j \in 1 .. Len(m)
  BY <1>1, <1>2
<1>5. Len(l) + 1 \in 1 .. Len(m)
  BY <1>1, <1>2
<1>6. \A j, n \in 1 .. Len(m) : m[j] = m[n] => j = n
  <2> SUFFICES ASSUME NEW j \in 1 .. Len(m), NEW n \in 1 .. Len(m), m[j] = m[n]
               PROVE  j = n
    OBVIOUS
  <2>1. CASE j = Len(l) + 1 \/ n = Len(l) + 1
    BY <1>1, <1>2, <1>3, <2>1
  <2>2. CASE j \in 1 .. Len(l) /\ n \in 1 .. Len(l)
    BY <1>1, <1>2, <2>2
  <2> QED BY <1>3, <2>1, <2>2
<1>7. \A u : u \in ToSet(m) <=> \E j \in 1 .. Len(m) : m[j] = u
  BY <1>2, SeqFacts
<1>8. ToSet(m) = ToSet(l) \cup {s}
  <2>1. \A u \in ToSet(m) : u \in ToSet(l) \cup {s}
    BY <1>1, <1>2, <1>3, <1>7
  <2>2. \A u \in ToSet(l) : u \in ToSet(m)
    BY <1>1, <1>2, <1>4, <1>7
  <2>3. s \in ToSet(m)
    BY <1>2, <1>5, <1>7
  <2> QED BY <2>1, <2>2, <2>3
<1>9. ASSUME NEW u, NEW v, Comes(m, u, v), v # s PROVE Comes(l, u, v)
  <2>1. PICK i, j \in 1 .. Len(m) : i < j /\ m[i] = u /\ m[j] = v
    BY <1>9 DEF Comes
  <2>2. j \in 1 .. Len(l) /\ i \in 1 .. Len(l)
    BY <1>1, <1>2, <1>3, <1>9, <2>1
  <2> QED BY <1>2, <2>1, <2>2 DEF Comes
<1> QED BY <1>2, <1>6, <1>8, <1>9, SeqFacts DEF m

\* s in the place of x.
LEMMA Replaced ==
    ASSUME NEW S, NEW l \in Seq(S), IsInjective(l), NEW x \in ToSet(l),
           NEW s \in S, s \notin ToSet(l)
    PROVE  LET m == [n \in DOMAIN l |-> IF l[n] = x THEN s ELSE l[n]] IN
           /\ m \in Seq(S) /\ IsInjective(m) /\ ToSet(m) = (ToSet(l) \ {x}) \cup {s}
           /\ \A u, v : Comes(m, u, v) =>
                 /\ u # x /\ v # x
                 /\ Comes(l, IF u = s THEN x ELSE u, IF v = s THEN x ELSE v)
<1> DEFINE m == [n \in DOMAIN l |-> IF l[n] = x THEN s ELSE l[n]]
<1>1. /\ Len(l) \in Nat /\ \A j, n \in 1 .. Len(l) : l[j] = l[n] => j = n
      /\ (\A j \in 1 .. Len(l) : l[j] # s /\ l[j] \in S) /\ DOMAIN l = 1 .. Len(l)
      /\ \A u : u \in ToSet(l) <=> \E j \in 1 .. Len(l) : l[j] = u
      /\ x # s
  BY SeqFacts
<1>2. m \in [1 .. Len(l) -> S]
  BY <1>1
<1>3. m \in Seq(S) /\ Len(m) = Len(l)
  BY <1>1, <1>2, SeqDef
<1>4. \A j \in 1 .. Len(l) : m[j] = IF l[j] = x THEN s ELSE l[j]
  BY <1>1
<1> HIDE DEF m
<1>5. \A j, n \in 1 .. Len(m) : m[j] = m[n] => j = n
  BY <1>1, <1>3, <1>4
<1>6. \A u : u \in ToSet(m) <=> \E j \in 1 .. Len(m) : m[j] = u
  BY <1>3, SeqFacts
<1>7. ToSet(m) = (ToSet(l) \ {x}) \cup {s}
  <2>1. \A u \in ToSet(m) : u \in (ToSet(l) \ {x}) \cup {s}
    BY <1>1, <1>3, <1>4, <1>6
  <2>2. \A u \in ToSet(l) \ {x} : u \in ToSet(m)
    BY <1>1, <1>3, <1>4, <1>6
  <2>3. s \in ToSet(m)
    BY <1>1, <1>3, <1>4, <1>6
  <2> QED BY <2>1, <2>2, <2>3
<1>8. ASSUME NEW u, NEW v, Comes(m, u, v)
      PROVE  /\ u # x /\ v # x
             /\ Comes(l, IF u = s THEN x ELSE u, IF v = s THEN x ELSE v)
  <2>1. PICK i, j \in 1 .. Len(l) : i < j /\ m[i] = u /\ m[j] = v
    BY <1>3, <1>8 DEF Comes
  <2>2. l[i] = (IF u = s THEN x ELSE u) /\ l[j] = (IF v = s THEN x ELSE v)
    BY <1>1, <1>4, <2>1
  <2>3. u # x /\ v # x
    BY <1>1, <1>4, <2>1
  <2> QED BY <2>1, <2>2, <2>3 DEF Comes
<1>9. IsInjective(m)
  BY <1>3, <1>5, SeqFacts
<1> QED BY <1>3, <1>7, <1>8, <1>9 DEF m

\* Without s: what RemoveFirst leaves of a sequence without repetitions.
LEMMA Removed ==
    ASSUME NEW S, NEW l \in Seq(S), IsInjective(l), NEW s
    PROVE  LET m == RemoveFirst(l, s) IN
           /\ m \in Seq(S) /\ IsInjective(m) /\ ToSet(m) = ToSet(l) \ {s}
           /\ s \notin ToSet(l) => m = l
           /\ \A u, v : Comes(m, u, v) => Comes(l, u, v)
<1> DEFINE m == RemoveFirst(l, s)
<1>1. CASE s \notin ToSet(l)
  <2>1. ~(\E i \in 1 .. Len(l) : l[i] = s)
    BY <1>1, SeqFacts
  <2>2. m = l
    BY <2>1 DEF RemoveFirst
  <2> QED BY <1>1, <2>2
<1>2. CASE s \in ToSet(l)
  <2>1. PICK i \in 1 .. Len(l) : l[i] = s
    BY <1>2, SeqFacts
  <2>2. /\ m \in Seq(S) /\ Len(m) = Len(l) - 1
        /\ \A j \in 1 .. Len(m) : m[j] = IF j < i THEN l[j] ELSE l[j + 1]
    BY <2>1, RemovedAt
  <2> HIDE DEF m
  <2>3. Len(l) \in Nat /\ \A j, n \in 1 .. Len(l) : l[j] = l[n] => j = n
    BY SeqFacts
  <2>4. \A j, n \in 1 .. Len(m) : m[j] = m[n] => j = n
    <3> SUFFICES ASSUME NEW j \in 1 .. Len(m), NEW n \in 1 .. Len(m), m[j] = m[n]
                 PROVE  j = n
      OBVIOUS
    <3> DEFINE x == IF j < i THEN j ELSE j + 1
               y == IF n < i THEN n ELSE n + 1
    <3>1. x \in 1 .. Len(l) /\ y \in 1 .. Len(l) /\ l[x] = m[j] /\ l[y] = m[n]
      BY <2>2, <2>3
    <3>2. x = y
      BY <3>1, <2>3
    <3> QED BY <3>2, <2>2, <2>3
  <2>5. IsInjective(m)
    BY <2>2, <2>4, SeqFacts
  <2>6. ASSUME NEW u \in ToSet(m) PROVE u \in ToSet(l) \ {s}
    <3>1. PICK j \in 1 .. Len(m) : m[j] = u
      BY <2>2, SeqFacts
    <3> DEFINE x == IF j < i THEN j ELSE j + 1
    <3>2. x \in 1 .. Len(l) /\ x # i /\ l[x] = u
      BY <2>2, <2>3, <3>1
    <3>3. u # s
      BY <3>2, <2>1, <2>3
    <3> QED BY <3>2, <3>3, SeqFacts
  <2>7. ASSUME NEW u \in ToSet(l), u # s PROVE u \in ToSet(m)
    <3>1. PICK x \in 1 .. Len(l) : l[x] = u
      BY SeqFacts
    <3> DEFINE j == IF x < i THEN x ELSE x - 1
    <3>2. x # i
      BY <3>1, <2>1, <2>7
    <3>3. j \in 1 .. Len(m) /\ m[j] = u
      BY <3>1, <3>2, <2>2, <2>3
    <3> QED BY <3>3, <2>2, SeqFacts
  <2>8. ASSUME NEW u, NEW v, Comes(m, u, v) PROVE Comes(l, u, v)
    <3>1. PICK a, b \in 1 .. Len(m) : a < b /\ m[a] = u /\ m[b] = v
      BY <2>8 DEF Comes
    <3> DEFINE c == IF a < i THEN a ELSE a + 1
               d == IF b < i THEN b ELSE b + 1
    <3>2. c \in 1 .. Len(l) /\ d \in 1 .. Len(l) /\ c < d /\ l[c] = u /\ l[d] = v
      BY <2>2, <2>3, <3>1
    <3> HIDE DEF c, d
    <3> QED BY <3>2 DEF Comes
  <2> QED BY <1>2, <2>2, <2>5, <2>6, <2>7, <2>8 DEF m
<1> QED BY <1>1, <1>2

-----------------------------------------------------------------------------
(* ORDER BY: what SortedBy lists, and that nothing else does *)

Below(S, K, s) == {u \in S : K[u] < K[s]}

LEMMA BelowCounts ==
    ASSUME NEW S, IsFiniteSet(S), NEW K, \A s \in S : K[s] \in Int, NEW s \in S
    PROVE  LET B == Below(S, K, s) IN
           /\ B \in SUBSET S /\ s \notin B
           /\ IsFiniteSet(B) /\ Cardinality(B) \in Nat
           /\ IsFiniteSet(B \cup {s}) /\ Cardinality(B \cup {s}) = Cardinality(B) + 1
<1> DEFINE B == Below(S, K, s)
<1>1. B \in SUBSET S /\ s \notin B
  BY DEF Below
<1> HIDE DEF B
<1>2. IsFiniteSet(B)
  BY <1>1, FS_Subset
<1>3. Cardinality(B) \in Nat
  BY <1>2, FS_CardinalityType
<1>4. IsFiniteSet(B \cup {s}) /\ Cardinality(B \cup {s}) = Cardinality(B) + 1
  BY <1>1, <1>2, FS_AddElement
<1> QED BY <1>1, <1>2, <1>3, <1>4 DEF B

LEMMA Ranks ==
    ASSUME NEW S, IsFiniteSet(S), NEW K, \A s \in S : K[s] \in Int,
           \A s, u \in S : K[s] = K[u] => s = u
    PROVE  /\ Cardinality(S) \in Nat
           /\ \A s \in S : Cardinality(Below(S, K, s)) \in 0 .. (Cardinality(S) - 1)
           /\ \A s, u \in S : K[s] < K[u] =>
                Cardinality(Below(S, K, s)) < Cardinality(Below(S, K, u))
           /\ \A m \in 0 .. (Cardinality(S) - 1) :
                \E s \in S : Cardinality(Below(S, K, s)) = m
<1> DEFINE r(s) == Cardinality(Below(S, K, s))
           n == Cardinality(S)
<1>0. n \in Nat
  BY FS_CardinalityType
<1>1. \A s \in S : r(s) \in Nat
  BY BelowCounts
<1>2. ASSUME NEW s \in S PROVE r(s) \in 0 .. (n - 1)
  <2> DEFINE U == Below(S, K, s) \cup {s}
  <2>1. U \in SUBSET S /\ Cardinality(U) = r(s) + 1
    BY BelowCounts
  <2> HIDE DEF U
  <2>2. Cardinality(U) <= n
    BY <2>1, FS_Subset
  <2> HIDE DEF r, n
  <2> QED BY <1>0, <1>1, <2>1, <2>2
<1>3. ASSUME NEW s \in S, NEW u \in S, K[s] < K[u] PROVE r(s) < r(u)
  <2> DEFINE U == Below(S, K, s) \cup {s}
             V == Below(S, K, u)
  <2>1. U \in SUBSET V
    <3>1. K[s] \in Int /\ K[u] \in Int
      OBVIOUS
    <3>2. \A x \in S : K[x] < K[s] => K[x] < K[u]
      BY <1>3, <3>1
    <3> QED BY <1>3, <3>2 DEF Below
  <2>2. IsFiniteSet(V) /\ Cardinality(U) = r(s) + 1
    BY BelowCounts
  <2> HIDE DEF U, V
  <2>3. Cardinality(U) <= Cardinality(V)
    BY <2>1, <2>2, FS_Subset
  <2>4. Cardinality(V) = r(u)
    BY DEF V
  <2> HIDE DEF r
  <2> QED BY <1>1, <2>2, <2>3, <2>4
<1>4. ASSUME NEW m \in 0 .. (n - 1) PROVE \E s \in S : r(s) = m
  <2> DEFINE f == [s \in S |-> r(s)]
  <2>1. f \in [S -> 0 .. (n - 1)]
    BY <1>2
  <2>2. \A s, u \in S : f[s] = f[u] => s = u
    <3> SUFFICES ASSUME NEW s \in S, NEW u \in S, r(s) = r(u) PROVE s = u
      OBVIOUS
    <3>1. ~(K[s] < K[u]) /\ ~(K[u] < K[s])
      <4> HIDE DEF r
      <4> QED BY <1>1, <1>3
    <3>2. K[s] \in Int /\ K[u] \in Int
      OBVIOUS
    <3>3. K[s] = K[u]
      BY <3>1, <3>2
    <3> QED BY <3>3
  <2> HIDE DEF r
  <2>3. DOMAIN f = S
    OBVIOUS
  <2> HIDE DEF f, n
  <2>4. f \in Injection(S, 0 .. (n - 1))
    BY <2>1, <2>2, <2>3 DEF Injection, IsInjective
  <2>5. IsFiniteSet(0 .. (n - 1)) /\ Cardinality(0 .. (n - 1)) = n
    BY <1>0, FS_Interval
  <2>6. f \in Surjection(S, 0 .. (n - 1))
    BY <2>4, <2>5, FS_Injection DEF n
  <2>7. \E s \in S : f[s] = m
    BY <2>6, <1>4 DEF Surjection
  <2> QED BY <2>7 DEF f
<1> HIDE DEF r, n
<1>5. /\ n \in Nat
      /\ \A s \in S : r(s) \in 0 .. (n - 1)
      /\ \A s, u \in S : K[s] < K[u] => r(s) < r(u)
      /\ \A m \in 0 .. (n - 1) : \E s \in S : r(s) = m
  BY <1>0, <1>2, <1>3, <1>4
<1> QED BY <1>5 DEF r, n

\* ORDER BY lists each element once, by ascending key.
LEMMA SortedByIs ==
    ASSUME NEW S, IsFiniteSet(S), NEW K, \A s \in S : K[s] \in Int,
           \A s, u \in S : K[s] = K[u] => s = u
    PROVE  LET l == SortedBy(S, K) IN
           /\ Cardinality(S) \in Nat
           /\ l \in [1 .. Cardinality(S) -> S]
           /\ \A m, n \in 1 .. Cardinality(S) : m < n => K[l[m]] < K[l[n]]
           /\ \A s \in S : \E n \in 1 .. Cardinality(S) : l[n] = s
<1> DEFINE r(s) == Cardinality(Below(S, K, s))
           k == Cardinality(S)
           l == SortedBy(S, K)
<1>1. l = [n \in 1 .. k |-> CHOOSE s \in S : r(s) = n - 1]
  BY DEF SortedBy, Below
<1>2. /\ k \in Nat
      /\ \A s \in S : r(s) \in 0 .. (k - 1)
      /\ \A s, u \in S : K[s] < K[u] => r(s) < r(u)
      /\ \A m \in 0 .. (k - 1) : \E s \in S : r(s) = m
  BY Ranks
<1> HIDE DEF r, k, l
<1>3. ASSUME NEW n \in 1 .. k PROVE l[n] \in S /\ r(l[n]) = n - 1
  <2>1. n - 1 \in 0 .. (k - 1)
    BY <1>2
  <2>2. \E s \in S : r(s) = n - 1
    BY <1>2, <2>1
  <2>3. l[n] = CHOOSE s \in S : r(s) = n - 1
    BY <1>1
  <2> QED BY <2>2, <2>3
<1>4. l \in [1 .. k -> S]
  BY <1>1, <1>3
<1>5. ASSUME NEW m \in 1 .. k, NEW n \in 1 .. k, m < n PROVE K[l[m]] < K[l[n]]
  <2>1. l[m] \in S /\ l[n] \in S /\ r(l[m]) = m - 1 /\ r(l[n]) = n - 1
    BY <1>3
  <2>2. ~(K[l[n]] < K[l[m]])
    BY <1>2, <1>5, <2>1
  <2>3. K[l[n]] # K[l[m]]
    BY <1>2, <1>5, <2>1
  <2>4. K[l[m]] \in Int /\ K[l[n]] \in Int
    BY <2>1
  <2> QED BY <2>2, <2>3, <2>4
<1>6. ASSUME NEW s \in S PROVE \E n \in 1 .. k : l[n] = s
  <2> DEFINE n == r(s) + 1
  <2>1. n \in 1 .. k
    BY <1>2
  <2>2. l[n] \in S /\ r(l[n]) = r(s)
    BY <1>2, <1>3, <2>1
  <2> HIDE DEF n
  <2>3. ~(K[l[n]] < K[s]) /\ ~(K[s] < K[l[n]])
    BY <1>2, <2>2
  <2>4. K[s] \in Int /\ K[l[n]] \in Int
    BY <2>2
  <2>5. K[s] = K[l[n]]
    BY <2>3, <2>4
  <2> QED BY <2>1, <2>2, <2>5
<1>7. /\ k \in Nat
      /\ l \in [1 .. k -> S]
      /\ \A m, n \in 1 .. k : m < n => K[l[m]] < K[l[n]]
      /\ \A s \in S : \E n \in 1 .. k : l[n] = s
  BY <1>2, <1>4, <1>5, <1>6
<1> QED BY <1>7 DEF k, l

\* There is one such list.
LEMMA SortedByUnique ==
    ASSUME NEW S, NEW K, \A s \in S : K[s] \in Int,
           NEW k \in Nat, NEW l \in [1 .. k -> S],
           \A m, n \in 1 .. k : m < n => K[l[m]] < K[l[n]],
           \A s \in S : \E n \in 1 .. k : l[n] = s
    PROVE  IsFiniteSet(S) /\ Cardinality(S) = k /\ l = SortedBy(S, K)
<1>0. \A m, n \in 1 .. k : l[m] = l[n] => m = n
  <2> SUFFICES ASSUME NEW m \in 1 .. k, NEW n \in 1 .. k, l[m] = l[n] PROVE m = n
    OBVIOUS
  <2>1. ~(m < n) /\ ~(n < m)
    <3>1. l[n] \in S
      OBVIOUS
    <3>2. K[l[n]] \in Int
      BY <3>1
    <3>3. ~(K[l[n]] < K[l[n]])
      BY <3>2
    <3> QED BY <3>3
  <2> QED BY <2>1
<1>1. l \in Bijection(1 .. k, S)
  BY <1>0 DEF Bijection, Injection, IsInjective, Surjection
<1>2. IsFiniteSet(1 .. k) /\ Cardinality(1 .. k) = k
  BY FS_Interval
<1>3. IsFiniteSet(S) /\ Cardinality(S) = k
  <2>1. ExistsBijection(1 .. k, S)
    BY <1>1 DEF ExistsBijection
  <2> QED BY <1>2, <2>1, FS_Bijection
<1>4. ASSUME NEW n \in 1 .. k PROVE Cardinality(Below(S, K, l[n])) = n - 1
  <2> DEFINE B == Below(S, K, l[n])
             g == [m \in 1 .. (n - 1) |-> l[m]]
  <2>1. \A m \in 1 .. (n - 1) : m \in 1 .. k /\ l[m] \in B
    BY DEF Below
  <2>2. ASSUME NEW s \in B PROVE \E m \in 1 .. (n - 1) : l[m] = s
    <3>1. s \in S /\ K[s] < K[l[n]]
      BY <2>2 DEF Below
    <3>2. PICK m \in 1 .. k : l[m] = s
      BY <3>1
    <3>3. n # m
      <4>1. K[l[n]] \in Int
        OBVIOUS
      <4> QED BY <3>1, <3>2, <4>1
    <3>4. ~(n < m)
      <4>1. n < m => K[l[n]] < K[l[m]]
        OBVIOUS
      <4>2. K[l[n]] \in Int /\ K[l[m]] \in Int
        OBVIOUS
      <4> QED BY <3>1, <3>2, <4>1, <4>2
    <3>5. m \in 1 .. (n - 1)
      BY <3>3, <3>4
    <3> QED BY <3>2, <3>5
  <2> HIDE DEF B
  <2>3. g \in [1 .. (n - 1) -> B] /\ DOMAIN g = 1 .. (n - 1)
    BY <2>1
  <2>4. \A x, y \in 1 .. (n - 1) : g[x] = g[y] => x = y
    BY <1>0, <2>1
  <2>5. \A s \in B : \E m \in 1 .. (n - 1) : g[m] = s
    BY <2>2
  <2> HIDE DEF g
  <2>6. g \in Bijection(1 .. (n - 1), B)
    BY <2>3, <2>4, <2>5 DEF Bijection, Injection, IsInjective, Surjection
  <2>7. ExistsBijection(1 .. (n - 1), B)
    BY <2>6 DEF ExistsBijection
  <2>8. IsFiniteSet(1 .. (n - 1)) /\ Cardinality(1 .. (n - 1)) = n - 1
    BY FS_Interval
  <2>9. Cardinality(B) = n - 1
    BY <2>7, <2>8, FS_Bijection
  <2> QED BY <2>9 DEF B
<1>5. ASSUME NEW n \in 1 .. k PROVE l[n] = SortedBy(S, K)[n]
  <2> DEFINE P(s) == Cardinality(Below(S, K, s)) = n - 1
  <2>1. SortedBy(S, K)[n] = CHOOSE s \in S : P(s)
    BY <1>3 DEF SortedBy, Below
  <2>2. P(l[n]) /\ l[n] \in S
    BY <1>4
  <2>3. ASSUME NEW s \in S, P(s) PROVE s = l[n]
    <3>1. PICK m \in 1 .. k : l[m] = s
      OBVIOUS
    <3>2. m - 1 = n - 1
      BY <1>4, <2>3, <3>1
    <3> QED BY <3>1, <3>2
  <2> HIDE DEF P
  <2>4. (CHOOSE s \in S : P(s)) = l[n]
    BY <2>2, <2>3
  <2> QED BY <2>1, <2>4
<1>6. SortedBy(S, K) = [n \in 1 .. k |-> SortedBy(S, K)[n]]
  <2> DEFINE e(n) == CHOOSE s \in S : Cardinality(Below(S, K, s)) = n - 1
  <2>1. SortedBy(S, K) = [n \in 1 .. k |-> e(n)]
    BY <1>3 DEF SortedBy, Below
  <2> HIDE DEF e
  <2> QED BY <2>1
<1>7. l = [n \in 1 .. k |-> l[n]]
  OBVIOUS
<1>8. l = SortedBy(S, K)
  BY <1>5, <1>6, <1>7
<1> QED BY <1>3, <1>8

-----------------------------------------------------------------------------
(* Transactions *)

LEMMA NoWriteIs ==
    NoWrite \in [Symbol -> Int \cup {Null}] /\ \A s \in Symbol : NoWrite[s] = Null
BY DEF NoWrite

LEMMA IdleIs ==
    ASSUME NEW reply \in Reply
    PROVE  /\ Idle(reply) \in Tx
           /\ Idle(reply).pc = "idle" /\ Idle(reply).op = "none"
           /\ Idle(reply).sym = Null /\ Idle(reply).order = <<>> /\ Idle(reply).todo = <<>>
           /\ Idle(reply).i = 1 /\ Idle(reply).k = 0
           /\ Idle(reply).write = NoWrite /\ Idle(reply).reply = reply
           /\ Idle(reply).blind = FALSE
           /\ \A p : Shape(p, Idle(reply))
<1>1. /\ Idle(reply).pc = "idle" /\ Idle(reply).op = "none"
      /\ Idle(reply).sym = Null /\ Idle(reply).order = <<>> /\ Idle(reply).todo = <<>>
      /\ Idle(reply).i = 1 /\ Idle(reply).k = 0
      /\ Idle(reply).write = NoWrite /\ Idle(reply).reply = reply
      /\ Idle(reply).blind = FALSE
  BY DEF Idle
<1>2. Idle(reply) \in Tx
  <2>1. <<>> \in Seq(Symbol) /\ "idle" \in PC /\ "none" \in {"none", "add", "reorder", "defaults"}
    BY DEF PC
  <2> QED BY <2>1, NoWriteIs DEF Idle, Tx
<1>3. IsInjective(<<>>)
  BY DEF IsInjective
<1>4. \A p : Shape(p, Idle(reply))
  BY <1>1, <1>2, <1>3 DEF Shape
<1> QED BY <1>1, <1>2, <1>4

LEMMA TxFields ==
    ASSUME NEW t \in Tx
    PROVE  /\ t.pc \in PC /\ t.op \in {"none", "add", "reorder", "defaults"}
           /\ t.sym \in Symbol \cup {Null}
           /\ t.order \in Seq(Symbol) /\ t.todo \in Seq(Symbol) /\ t.i \in Nat /\ t.k \in Int
           /\ t.write \in [Symbol -> Int \cup {Null}] /\ t.reply \in Reply
           /\ t.blind \in BOOLEAN
BY DEF Tx

\* Who writes a row, and with which key.
LEMMA WriteIs ==
    ASSUME NEW p \in Proc, NEW t, Shape(p, t), NEW s \in Symbol, t.write[s] # Null
    PROVE  /\ t.write[s] \in Int
           /\ \/ t.op = "add" /\ p \in Request /\ t.pc = "commit" /\ s = t.sym
                 /\ t.write[s] = t.k
              \/ t.op = "defaults" /\ p = Hook /\ t.pc = "fk" /\ s = Defaults[t.i]
                 /\ t.write[s] = t.i - 1
              \/ t.op = "reorder" /\ p \in Request /\ t.pc \in {"shift", "place", "commit"}
                 /\ (\E j \in 1 .. Len(t.order) : s = t.order[j] /\ t.write[s] = Moved(t, j))
                 /\ t.write[s] < Len(t.order)
<1>1. t.write \in [Symbol -> Int \cup {Null}] /\ t.order \in Seq(Symbol) /\ t.i \in Nat
  BY TxFields DEF Shape
<1>2. t.write[s] \in Int
  BY <1>1
<1>3. t.write # NoWrite
  BY NoWriteIs
<1>4. CASE t.op = "add"
  <2>1. p \in Request /\ t.pc = "commit" /\ t.write = [NoWrite EXCEPT ![t.sym] = t.k]
    BY <1>3, <1>4 DEF Shape, AddShape
  <2>2. s = t.sym /\ t.write[s] = t.k
    BY <2>1, NoWriteIs
  <2> QED BY <1>2, <1>4, <2>1, <2>2
<1>5. CASE t.op = "defaults"
  <2>1. p = Hook /\ t.pc = "fk" /\ t.write = [NoWrite EXCEPT ![Defaults[t.i]] = t.i - 1]
    BY <1>3, <1>5 DEF Shape, DefaultsShape
  <2>2. s = Defaults[t.i] /\ t.write[s] = t.i - 1
    BY <2>1, NoWriteIs
  <2> QED BY <1>2, <1>5, <2>1, <2>2
<1>6. CASE t.op = "reorder"
  <2>1. /\ p \in Request /\ t.pc \in {"shift", "place", "commit"}
        /\ \A j \in 1 .. Len(t.order) : t.write[t.order[j]] = Moved(t, j)
        /\ s \in ToSet(t.order)
    BY <1>3, <1>6 DEF Shape, ReorderShape
  <2>2. PICK j \in 1 .. Len(t.order) : s = t.order[j]
    BY <1>1, <2>1, SeqFacts
  <2>3. t.write[s] = Moved(t, j)
    BY <2>1, <2>2
  <2>4. Moved(t, j) \in {-j, j - 1, Null}
    BY <2>1 DEF Moved
  <2>5. Len(t.order) \in Nat
    BY <1>1, SeqFacts
  <2>6. t.write[s] < Len(t.order)
    BY <2>3, <2>4, <2>5, <1>2
  <2> QED BY <1>2, <1>6, <2>1, <2>2, <2>3, <2>6
<1> QED BY <1>3, <1>4, <1>5, <1>6 DEF Shape

\* Rows that go away, and writes that are undone, leave the keys distinct.
LEMMA Undone ==
    ASSUME Keys, Views, key' \in [Symbol -> Nat \cup {Null}],
           \A s \in Symbol : key'[s] = key[s] \/ key'[s] = Null,
           \A p \in Proc : tx'[p].write = tx[p].write \/ tx'[p].write = NoWrite
    PROVE  Keys' /\ Views'
<1>1. Keys'
  BY DEF Keys
<1>2. ASSUME NEW p \in Proc, NEW s \in Symbol, NEW u \in Symbol,
             Sees(p, s)' # Null, Sees(p, s)' = Sees(p, u)'
      PROVE  s = u
  <2>1. CASE tx'[p].write = tx[p].write
    <3>1. Sees(p, s)' = Sees(p, s) /\ Sees(p, u)' = Sees(p, u)
      BY <1>2, <2>1 DEF Sees
    <3>2. \A x, y \in Symbol : Sees(p, x) # Null /\ Sees(p, x) = Sees(p, y) => x = y
      BY DEF Views
    <3> QED BY <1>2, <3>1, <3>2
  <2>2. CASE tx'[p].write = NoWrite
    <3>1. Sees(p, s)' = key[s] /\ Sees(p, u)' = key[u]
      BY <1>2, <2>2, NoWriteIs DEF Sees
    <3> QED BY <1>2, <3>1 DEF Keys
  <2> QED BY <2>1, <2>2
<1>3. ASSUME NEW p \in Proc, NEW q \in Proc, NEW s \in Symbol, NEW u \in Symbol,
             p # q, tx'[p].write[s] # Null
      PROVE  tx'[p].write[s] # tx'[q].write[u]
  <2>1. tx'[p].write[s] = tx[p].write[s]
    BY <1>3, NoWriteIs
  <2>2. tx'[q].write[u] = tx[q].write[u] \/ tx'[q].write[u] = Null
    BY NoWriteIs
  <2> QED BY <1>3, <2>1, <2>2 DEF Views
<1> QED BY <1>1, <1>2, <1>3 DEF Views

\* A statement that meets no row with its key, and waits for nobody's outcome,
\* leaves the keys distinct.
LEMMA Wrote ==
    ASSUME Views, NEW p \in Proc, NEW s \in Symbol, NEW k \in Int,
           tx[p].write \in [Symbol -> Int \cup {Null}],
           Undecided(p, s, k) = {}, ~Collides(p, s, k),
           key' = key, tx'[p].write = [tx[p].write EXCEPT ![s] = k],
           \A q \in Proc : q # p => tx'[q].write = tx[q].write
    PROVE  Views'
<1>0. k # Null
  BY NullIs
<1>1. /\ \A u \in Symbol : u # s => Sees(p, u) # k
      /\ \A q \in Proc : q # p => \A u \in Symbol : tx[q].write[u] # k
  BY DEF Collides, Undecided
<1>2. tx'[p].write[s] = k /\ \A u \in Symbol : u # s => tx'[p].write[u] = tx[p].write[u]
  OBVIOUS
<1>3. Sees(p, s)' = k /\ \A u \in Symbol : u # s => Sees(p, u)' = Sees(p, u)
  BY <1>0, <1>2 DEF Sees
<1>4. \A q \in Proc : q # p => \A u \in Symbol : Sees(q, u)' = Sees(q, u)
  BY DEF Sees
<1>5. ASSUME NEW q \in Proc, NEW x \in Symbol, NEW u \in Symbol,
             Sees(q, x)' # Null, Sees(q, x)' = Sees(q, u)'
      PROVE  x = u
  <2>1. CASE q # p
    BY <1>4, <1>5, <2>1 DEF Views
  <2>2. CASE q = p
    BY <1>1, <1>3, <1>5, <2>2 DEF Views
  <2> QED BY <2>1, <2>2
<1>6. ASSUME NEW q \in Proc, NEW r \in Proc, NEW x \in Symbol, NEW u \in Symbol,
             q # r, tx'[q].write[x] # Null
      PROVE  tx'[q].write[x] # tx'[r].write[u]
  BY <1>1, <1>2, <1>6 DEF Views
<1> QED BY <1>5, <1>6 DEF Views

\* What a transaction commits is distinct for everybody.
LEMMA Published ==
    ASSUME Keys, Views, NEW p \in Proc,
           \A s \in Symbol : Sees(p, s) \in Nat \cup {Null},
           key' = [s \in Symbol |-> Sees(p, s)],
           tx'[p].write = NoWrite,
           \A q \in Proc : q # p => tx'[q].write = tx[q].write
    PROVE  Keys' /\ Views'
<1>1. Keys'
  BY DEF Keys, Views
<1>2. ASSUME NEW q \in Proc, NEW x \in Symbol, NEW u \in Symbol,
             Sees(q, x)' # Null, Sees(q, x)' = Sees(q, u)'
      PROVE  x = u
  <2>1. CASE q = p
    <3>1. Sees(q, x)' = key'[x] /\ Sees(q, u)' = key'[u]
      BY <2>1, NoWriteIs DEF Sees
    <3> QED BY <1>1, <1>2, <3>1 DEF Keys
  <2>2. CASE q # p
    <3> DEFINE w(s) == tx[q].write[s]
    <3>1. \A s \in Symbol : Sees(q, s)' = IF w(s) # Null THEN w(s) ELSE Sees(p, s)
      BY <2>2 DEF Sees
    <3>2. \A s \in Symbol : w(s) # Null => Sees(q, s) = w(s)
      BY DEF Sees
    <3>3. ASSUME NEW s \in Symbol, NEW v \in Symbol, w(s) # Null, w(v) = Null,
                 w(s) = Sees(p, v)
          PROVE  FALSE
      <4>1. CASE tx[p].write[v] # Null
        <5>1. Sees(p, v) = tx[p].write[v]
          BY <4>1 DEF Sees
        <5> QED BY <2>2, <3>3, <5>1 DEF Views
      <4>2. CASE tx[p].write[v] = Null
        <5>1. Sees(p, v) = key[v] /\ Sees(q, v) = key[v] /\ Sees(q, s) = w(s)
          BY <3>3, <4>2 DEF Sees
        <5>2. s = v
          BY <3>3, <5>1 DEF Views
        <5> QED BY <3>3, <5>2
      <4> QED BY <4>1, <4>2
    <3> HIDE DEF w
    <3>4. CASE w(x) # Null /\ w(u) # Null
      BY <1>2, <3>1, <3>2, <3>4 DEF Views
    <3>5. CASE w(x) = Null /\ w(u) = Null
      BY <1>2, <3>1, <3>5 DEF Views
    <3>6. CASE w(x) # Null /\ w(u) = Null
      BY <1>2, <3>1, <3>3, <3>6
    <3>7. CASE w(x) = Null /\ w(u) # Null
      BY <1>2, <3>1, <3>3, <3>7
    <3> QED BY <3>4, <3>5, <3>6, <3>7
  <2> QED BY <2>1, <2>2
<1>3. ASSUME NEW q \in Proc, NEW r \in Proc, NEW s \in Symbol, NEW u \in Symbol,
             q # r, tx'[q].write[s] # Null
      PROVE  tx'[q].write[s] # tx'[r].write[u]
  <2>1. q # p /\ tx'[q].write[s] = tx[q].write[s]
    BY <1>3, NoWriteIs
  <2>2. tx'[r].write[u] = tx[r].write[u] \/ tx'[r].write[u] = Null
    BY NoWriteIs
  <2> QED BY <1>3, <2>1, <2>2 DEF Views
<1> QED BY <1>1, <1>2, <1>3 DEF Views

-----------------------------------------------------------------------------
(* Every step keeps the invariant *)

\* What a step of p leaves alone.
Others(p) == DOMAIN tx' = Proc /\ \A q \in Proc : q # p => tx'[q] = tx[q]

LEMMA OthersAre ==
    ASSUME WatchlistInv, NEW p \in Proc, NEW t, tx' = [tx EXCEPT ![p] = t]
    PROVE  Others(p) /\ tx'[p] = t
BY DEF Others, WatchlistInv, Shapes

LEMMA ListedIs ==
    ASSUME Keys
    PROVE  /\ IsFiniteSet(Listed) /\ Listed \in SUBSET Symbol
           /\ \A s \in Listed : key[s] \in Nat
BY WatchlistConstants, FS_Subset DEF Listed, Keys

LEMMA HeldIs ==
    ASSUME WatchlistInv, NEW p \in Proc
    PROVE  /\ Held(p) \in SUBSET Listed /\ IsFiniteSet(Held(p))
           /\ Held(p) # {} => /\ tx[p].op = "reorder"
                              /\ tx[p].pc \in {"lock", "shift", "place", "commit"}
<1>1. Held(p) \in SUBSET Listed
  BY NullIs DEF Held, Listed, WatchlistInv, Locks
<1>2. IsFiniteSet(Held(p))
  BY <1>1, ListedIs, FS_Subset DEF WatchlistInv
<1>3. Held(p) # {} => /\ tx[p].op = "reorder"
                      /\ tx[p].pc \in {"lock", "shift", "place", "commit"}
  BY NullIs DEF Held, WatchlistInv, Locks
<1> QED BY <1>1, <1>2, <1>3

\* What a step may do to the order of the ids: nothing appears before a row, unless
\* the hook was before it, nor after the id of an addition, but for the hook.
InPlace ==
    /\ \A p \in Request : \A u \in Symbol \cup Proc : Comes(byId', p, u) => u = Hook
    /\ \A v \in Listed : \A u \in Symbol \cup {Hook} :
          Comes(byId', u, v) => Before(u, v) \/ Before(Hook, v)

LEMMA FirstKeeps ==
    ASSUME WatchlistInv, InPlace, NEW q \in Proc,
           tx'[q].blind = tx[q].blind, tx'[q].todo = tx[q].todo,
           tx'[q].pc = "lock" => tx[q].pc = "lock", Held(q)' = Held(q)
    PROVE  First(q)'
<1> SUFFICES ASSUME ~tx[q].blind
             PROVE  /\ Held(q) # {} =>
                          \E s \in Held(q) : \A u \in Symbol \cup {Hook} : ~Comes(byId', u, s)
                    /\ tx[q].pc = "lock" /\ Held(q) = {} =>
                          \A j \in 1 .. Len(tx[q].todo) : \A u \in Symbol \cup {Hook} :
                             Comes(byId', u, tx[q].todo[j]) =>
                                \E m \in 1 .. Len(tx[q].todo) : m < j /\ tx[q].todo[m] = u
  BY DEF First, Before
<1>1. /\ Held(q) # {} =>
            \E s \in Held(q) : \A u \in Symbol \cup {Hook} : ~Before(u, s)
      /\ tx[q].pc = "lock" /\ Held(q) = {} =>
            \A j \in 1 .. Len(tx[q].todo) : \A u \in Symbol \cup {Hook} :
               Before(u, tx[q].todo[j]) =>
                  \E m \in 1 .. Len(tx[q].todo) : m < j /\ tx[q].todo[m] = u
  BY DEF WatchlistInv, FirstRow, First
<1>2. ASSUME Held(q) # {}
      PROVE  \E s \in Held(q) : \A u \in Symbol \cup {Hook} : ~Comes(byId', u, s)
  <2>1. PICK s \in Held(q) : \A u \in Symbol \cup {Hook} : ~Before(u, s)
    BY <1>1, <1>2
  <2>2. s \in Listed
    BY HeldIs
  <2> QED BY <2>1, <2>2 DEF InPlace
<1>3. ASSUME tx[q].pc = "lock", Held(q) = {}, NEW j \in 1 .. Len(tx[q].todo),
             NEW u \in Symbol \cup {Hook}, Comes(byId', u, tx[q].todo[j])
      PROVE  \E m \in 1 .. Len(tx[q].todo) : m < j /\ tx[q].todo[m] = u
  <2>1. /\ tx[q].todo \in Seq(Symbol) /\ tx[q].todo[j] \in Listed
        /\ \A m \in 1 .. Len(tx[q].todo) : tx[q].todo[m] \in Symbol
    <3>1. tx[q].todo \in Seq(Symbol)
      BY TxFields DEF WatchlistInv, Shapes, Shape
    <3>2. tx[q].todo[j] \in ToSet(tx[q].todo)
      BY <3>1, SeqFacts
    <3> QED BY <3>1, <3>2, SeqFacts DEF WatchlistInv, Ids
  <2>2. Before(u, tx[q].todo[j]) \/ Before(Hook, tx[q].todo[j])
    BY <1>3, <2>1 DEF InPlace
  <2>3. CASE Before(u, tx[q].todo[j])
    BY <1>1, <1>3, <2>3
  <2>4. CASE Before(Hook, tx[q].todo[j])
    <3>1. \E m \in 1 .. Len(tx[q].todo) : tx[q].todo[m] = Hook
      BY <1>1, <1>3, <2>4
    <3> QED BY <2>1, <3>1, NullIs
  <2> QED BY <2>2, <2>3, <2>4
<1> QED BY <1>2, <1>3

LEMMA FirstRowKeeps ==
    ASSUME WatchlistInv, InPlace, NEW p \in Proc, Others(p),
           \A q \in Proc : q # p => Held(q)' = Held(q), First(p)'
    PROVE  FirstRow'
<1>1. ASSUME NEW q \in Proc PROVE First(q)'
  <2>1. CASE q = p
    BY <2>1
  <2>2. CASE q # p
    <3>1. tx'[q] = tx[q] /\ Held(q)' = Held(q)
      BY <2>2 DEF Others
    <3> QED BY <3>1, FirstKeeps
  <2> QED BY <2>1, <2>2
<1>2. \A r \in Request : \A u \in Symbol \cup Proc : Comes(byId', r, u) => u = Hook
  BY DEF InPlace
<1> QED BY <1>1, <1>2 DEF FirstRow, Before

\* A request that has drawn an id holds the users row, so there is one at a time.
LEMMA DrawnIs ==
    ASSUME WatchlistInv, NEW p \in Request, Drawn(p)
    PROVE  userLock = p
<1>1. p \in Proc /\ p # Hook
  BY NullIs
<1>2. tx[p].op = "add" /\ tx[p].pc \in {"insert", "commit"}
  BY <1>1 DEF Drawn, WatchlistInv, Shapes, Shape, AddShape, ReorderShape
<1> QED BY <1>1, <1>2 DEF WatchlistInv, Locks

LEMMA SameIds ==
    ASSUME WatchlistInv, byId' = byId
    PROVE  InPlace
BY DEF WatchlistInv, FirstRow, InPlace, Before

LEMMA FewerIds ==
    ASSUME WatchlistInv, NEW x, byId' = RemoveFirst(byId, x)
    PROVE  /\ InPlace /\ byId' \in Seq(Symbol \cup Proc) /\ IsInjective(byId')
           /\ ToSet(byId') = ToSet(byId) \ {x} /\ (x \notin ToSet(byId) => byId' = byId)
<1>1. byId \in Seq(Symbol \cup Proc) /\ IsInjective(byId)
  BY DEF WatchlistInv, Ids
<1> DEFINE l == byId'
<1>2. /\ l \in Seq(Symbol \cup Proc) /\ IsInjective(l) /\ ToSet(l) = ToSet(byId) \ {x}
      /\ (x \notin ToSet(byId) => l = byId)
      /\ \A u, v : Comes(l, u, v) => Comes(byId, u, v)
  BY <1>1, Removed
<1>3. InPlace
  BY <1>2 DEF WatchlistInv, FirstRow, InPlace, Before
<1> QED BY <1>2, <1>3

LEMMA NewId ==
    ASSUME WatchlistInv, NEW p \in Proc, ~Drawn(p), p \in Request => userLock = p,
           byId' = Append(byId, p)
    PROVE  /\ InPlace /\ byId' \in Seq(Symbol \cup Proc) /\ IsInjective(byId')
           /\ ToSet(byId') = ToSet(byId) \cup {p}
<1>1. /\ byId \in Seq(Symbol \cup Proc) /\ IsInjective(byId) /\ p \notin ToSet(byId)
      /\ p \in Symbol \cup Proc
  BY DEF WatchlistInv, Ids
<1> DEFINE l == byId'
<1>2. /\ l \in Seq(Symbol \cup Proc) /\ IsInjective(l) /\ ToSet(l) = ToSet(byId) \cup {p}
      /\ \A u, v : Comes(l, u, v) => v = p \/ Comes(byId, u, v)
  BY <1>1, Appended
<1>3. ASSUME NEW r \in Request, NEW u \in Symbol \cup Proc, Comes(l, r, u)
      PROVE  u = Hook
  <2>1. CASE Comes(byId, r, u)
    BY <2>1 DEF WatchlistInv, FirstRow, Before
  <2>2. CASE u = p /\ p # Hook
    <3>1. r \in ToSet(l) /\ r # u
      BY <1>2, <1>3, ComesIs
    <3>2. Drawn(r)
      BY <1>2, <2>2, <3>1, NullIs DEF WatchlistInv, Ids
    <3>3. userLock = r /\ userLock = p
      BY <2>2, <3>2, DrawnIs, NullIs
    <3> QED BY <2>2, <3>1, <3>3
  <2> QED BY <1>2, <1>3, <2>1, <2>2
<1>4. ASSUME NEW v \in Listed, NEW u \in Symbol \cup {Hook}, Comes(l, u, v)
      PROVE  Before(u, v)
  <2>1. v # p
    BY NullIs DEF Listed
  <2> QED BY <1>2, <1>4, <2>1 DEF Before
<1>5. InPlace
  BY <1>3, <1>4 DEF InPlace
<1> QED BY <1>2, <1>5

LEMMA PlacedId ==
    ASSUME WatchlistInv, NEW p \in Proc, Drawn(p), NEW s \in Symbol, key[s] = Null,
           p = Hook => userLock = Null, byId' = Placed(p, s)
    PROVE  /\ InPlace /\ byId' \in Seq(Symbol \cup Proc) /\ IsInjective(byId')
           /\ ToSet(byId') = (ToSet(byId) \ {p}) \cup {s}
<1>1. /\ byId \in Seq(Symbol \cup Proc) /\ IsInjective(byId)
      /\ p \in ToSet(byId) /\ s \notin ToSet(byId) /\ s \in Symbol \cup Proc
  BY DEF WatchlistInv, Ids
<1> DEFINE l == byId'
<1>2. /\ l \in Seq(Symbol \cup Proc) /\ IsInjective(l)
      /\ ToSet(l) = (ToSet(byId) \ {p}) \cup {s}
      /\ \A u, v : Comes(l, u, v) =>
            /\ u # p /\ v # p
            /\ Comes(byId, IF u = s THEN p ELSE u, IF v = s THEN p ELSE v)
  <2> DEFINE m == [n \in DOMAIN byId |-> IF byId[n] = p THEN s ELSE byId[n]]
  <2>1. l = m
    BY DEF Placed
  <2>2. /\ m \in Seq(Symbol \cup Proc) /\ IsInjective(m)
        /\ ToSet(m) = (ToSet(byId) \ {p}) \cup {s}
        /\ \A u, v : Comes(m, u, v) =>
              /\ u # p /\ v # p
              /\ Comes(byId, IF u = s THEN p ELSE u, IF v = s THEN p ELSE v)
    BY <1>1, Replaced
  <2> HIDE DEF m
  <2> QED BY <2>1, <2>2
<1>3. ASSUME NEW r \in Request, NEW u \in Symbol \cup Proc, Comes(l, r, u)
      PROVE  u = Hook
  <2>1. r # s /\ r \in Proc
    BY NullIs
  <2>2. Comes(byId, r, IF u = s THEN p ELSE u)
    BY <1>2, <1>3, <2>1
  <2>3. (IF u = s THEN p ELSE u) = Hook
    BY <2>2 DEF WatchlistInv, FirstRow, Before
  <2>4. CASE u = s
    <3>1. p = Hook
      BY <2>3, <2>4
    <3>2. r \in ToSet(byId)
      BY <1>1, <2>2, ComesIs
    <3>3. userLock = r
      BY <2>1, <3>2, DrawnIs DEF WatchlistInv, Ids
    <3> QED BY <2>1, <3>1, <3>3, NullIs
  <2>5. CASE u # s
    BY <2>3, <2>5
  <2> QED BY <2>4, <2>5
<1>4. ASSUME NEW v \in Listed, NEW u \in Symbol \cup {Hook}, Comes(l, u, v)
      PROVE  Before(u, v) \/ Before(Hook, v)
  <2>1. v # s /\ v \in Symbol /\ v # Hook
    BY NullIs DEF Listed
  <2>2. Comes(byId, IF u = s THEN p ELSE u, v)
    BY <1>2, <1>4, <2>1
  <2>3. CASE u = s
    <3>1. Before(p, v)
      BY <2>2, <2>3 DEF Before
    <3>2. CASE p \in Request
      BY <2>1, <3>1, <3>2 DEF WatchlistInv, FirstRow
    <3> QED BY <3>1, <3>2, NullIs
  <2>4. CASE u # s
    BY <2>2, <2>4 DEF Before
  <2> QED BY <2>3, <2>4
<1>5. InPlace
  BY <1>3, <1>4 DEF InPlace
<1> QED BY <1>2, <1>5

\* The end of a transaction that leaves the same rows: its locks are released.
Ends(p, reply) == tx' = [tx EXCEPT ![p] = Idle(reply)] /\ Release(p)

LEMMA EndKeeps ==
    ASSUME WatchlistInv, NEW p \in Proc, NEW reply \in Reply, Ends(p, reply),
           byId' = RemoveFirst(byId, p), Listed' = Listed, Keys', Views',
           \A s \in Symbol : key[s] # Null => key'[s] # Null,
           \A q \in Proc : \A s \in Symbol :
              q # p /\ tx[q].write[s] # Null /\ tx[q].op # "reorder" => key'[s] = Null,
           Others(p) /\ tx'[p] = Idle(reply) => AddKeys'
    PROVE  WatchlistInv'
<1>1. Others(p) /\ tx'[p] = Idle(reply)
  BY OthersAre DEF Ends
<1>2. /\ rowLock' = [s \in Symbol |-> IF rowLock[s] = p THEN Null ELSE rowLock[s]]
      /\ userLock' = IF userLock = p THEN Null ELSE userLock
  BY DEF Ends, Release
<1>3. /\ tx'[p].pc = "idle" /\ tx'[p].op = "none" /\ tx'[p].todo = <<>>
      /\ tx'[p].write = NoWrite /\ Shape(p, tx'[p])
  BY <1>1, IdleIs
<1>4. Shapes'
  BY <1>1, <1>3 DEF WatchlistInv, Shapes, Others
<1>6. Writers'
  <2>1. \A q \in Proc : \A s \in Symbol : tx'[q].write[s] # Null => q # p /\ tx'[q] = tx[q]
    BY <1>1, <1>3, NoWriteIs DEF Others
  <2>2. \A q \in Proc : \A s \in Symbol : q # p /\ rowLock[s] = q => rowLock'[s] = q
    BY <1>2
  <2> QED BY <2>1, <2>2 DEF WatchlistInv, Writers
<1>7. Locks'
  <2>1. rowLock' \in [Symbol -> Proc \cup {Null}] /\ userLock' \in Proc \cup {Null}
    BY <1>2 DEF WatchlistInv, Locks
  <2>2. \A s \in Symbol : rowLock'[s] # Null =>
            rowLock'[s] = rowLock[s] /\ rowLock[s] \in Proc /\ tx'[rowLock[s]] = tx[rowLock[s]]
    BY <1>1, <1>2 DEF WatchlistInv, Locks, Others
  <2>3. ASSUME NEW q \in Proc
        PROVE  userLock' = q <=>
                 tx'[q].op = "add" /\ tx'[q].pc \in {"max", "draw", "insert", "commit"}
    BY <1>1, <1>2, <1>3, NullIs DEF WatchlistInv, Locks, Others
  <2> QED BY <2>1, <2>2, <2>3 DEF WatchlistInv, Locks
<1>8. /\ InPlace /\ byId' \in Seq(Symbol \cup Proc) /\ IsInjective(byId')
      /\ ToSet(byId') = ToSet(byId) \ {p}
  BY FewerIds
<1>9. Ids'
  <2>1. \A s \in Symbol : s \in ToSet(byId') <=> key'[s] # Null
    BY <1>8, NullIs DEF WatchlistInv, Ids, Listed
  <2>2. ASSUME NEW q \in Proc PROVE q \in ToSet(byId') <=> Drawn(q)'
    <3>1. CASE q = p
      BY <1>3, <1>8, <3>1 DEF Drawn
    <3>2. CASE q # p
      <4>1. Drawn(q)' <=> Drawn(q)
        BY <1>1, <3>2 DEF Drawn, Others
      <4> QED BY <1>8, <3>2, <4>1 DEF WatchlistInv, Ids
    <3> QED BY <3>1, <3>2
  <2>3. ToSet(<<>>) = {}
    BY DEF ToSet
  <2>4. \A q \in Proc : ToSet(tx'[q].todo) \subseteq Listed'
    BY <1>1, <1>3, <2>3 DEF WatchlistInv, Ids, Others
  <2> QED BY <1>8, <2>1, <2>2, <2>4 DEF Ids
<1>12. \A q \in Proc : q # p => Held(q)' = Held(q)
  BY <1>2, NullIs DEF Held
<1>10. FirstRow'
  <2>1. Held(p)' = {}
    BY <1>2, NullIs DEF Held
  <2>2. First(p)'
    BY <1>3, <2>1 DEF First
  <2> QED BY <1>1, <1>8, <1>12, <2>2, FirstRowKeeps
<1>11. Counted'
  BY <1>1, <1>3, <1>12 DEF WatchlistInv, Counted, Moving, Others
<1> QED BY <1>1, <1>4, <1>6, <1>7, <1>9, <1>10, <1>11 DEF WatchlistInv

LEMMA RollbackKeeps ==
    ASSUME WatchlistInv, NEW p \in Proc, NEW reply \in Reply, Rollback(p, reply)
    PROVE  WatchlistInv'
<1>0. key' = key /\ byId' = RemoveFirst(byId, p) /\ Listed' = Listed /\ Ends(p, reply)
  BY DEF Rollback, Listed, Ends
<1>1. Others(p) /\ tx'[p] = Idle(reply)
  BY <1>0, OthersAre DEF Ends
<1>2. tx'[p].pc = "idle" /\ tx'[p].op = "none" /\ tx'[p].write = NoWrite
  BY <1>1, IdleIs
<1>3. Keys' /\ Views'
  <2>1. key' \in [Symbol -> Nat \cup {Null}] /\ \A s \in Symbol : key'[s] = key[s]
    BY <1>0 DEF WatchlistInv, Keys
  <2>2. \A q \in Proc : tx'[q].write = tx[q].write \/ tx'[q].write = NoWrite
    BY <1>1, <1>2 DEF Others
  <2> QED BY <2>1, <2>2, Undone DEF WatchlistInv
<1>4. \A q \in Proc : \A s \in Symbol :
              q # p /\ tx[q].write[s] # Null /\ tx[q].op # "reorder" => key'[s] = Null
  BY <1>0 DEF WatchlistInv, Writers
<1>5. AddKeys'
  BY <1>0, <1>1, <1>2 DEF WatchlistInv, AddKeys, Adding, Moving, Others
<1> QED BY <1>0, <1>3, <1>4, <1>5, EndKeeps

\* Rows with distinct keys below k are at most k rows.
LEMMA AtMost ==
    ASSUME Keys, NEW S \in SUBSET Symbol, NEW k \in Nat,
           \A s \in S : key[s] # Null /\ key[s] < k
    PROVE  Cardinality(S) <= k
<1> DEFINE f == [s \in S |-> key[s]]
<1>1. \A s \in S : f[s] = key[s] /\ key[s] \in 0 .. (k - 1)
  BY DEF Keys
<1>2. f \in [S -> 0 .. (k - 1)] /\ DOMAIN f = S
  BY <1>1
<1>3. \A s, u \in S : f[s] = f[u] => s = u
  BY <1>1, NullIs DEF Keys
<1> HIDE DEF f
<1>4. f \in Injection(S, 0 .. (k - 1))
  BY <1>2, <1>3 DEF Injection, IsInjective
<1>5. IsFiniteSet(0 .. (k - 1)) /\ Cardinality(0 .. (k - 1)) = k
  BY FS_Interval
<1> QED BY <1>4, <1>5, FS_Injection

\* A finite set of integers that is not empty has a largest element: a smallest
\* subset without one would get one from the largest of its other elements.
LEMMA FiniteMax ==
    ASSUME NEW S, S \subseteq Int, IsFiniteSet(S), S # {}
    PROVE  \E x \in S : \A y \in S : x >= y
<1> DEFINE Top(U, x) == x \in U /\ \A y \in U : x >= y
           Bad == {U \in SUBSET S : U # {} /\ ~(\E x \in U : Top(U, x))}
<1>1. SUFFICES ASSUME Bad # {} PROVE FALSE
  <2>1. S \in SUBSET S
    OBVIOUS
  <2>2. \E x \in S : Top(S, x)
    BY <1>1, <2>1
  <2> QED BY <2>2
<1>2. Bad \subseteq FiniteSubsetsOf(S)
  BY FS_FiniteSubsetsOfFinite
<1>3. PICK U \in Bad : \A V \in Bad : <<V, U>> \notin StrictSubsetOrdering(S)
  <2> HIDE DEF Bad
  <2> QED BY <1>1, <1>2, FS_StrictSubsetOrderingWellFounded, WFMin
<1>4. U \in SUBSET S /\ U # {} /\ ~(\E x \in U : Top(U, x))
  OBVIOUS
<1>5. PICK x \in U : TRUE
  BY <1>4
<1> DEFINE V == U \ {x}
<1>6. V # {}
  <2> SUFFICES ASSUME V = {} PROVE FALSE
    OBVIOUS
  <2>1. U = {x}
    BY <1>5
  <2>2. x \in Int
    BY <1>4, <1>5
  <2>3. Top(U, x)
    BY <2>1, <2>2
  <2> QED BY <1>4, <1>5, <2>3
<1>7. <<V, U>> \in StrictSubsetOrdering(S)
  BY <1>4, <1>5 DEF StrictSubsetOrdering
<1>8. V \notin Bad
  BY <1>3, <1>7
<1>9. PICK m \in V : Top(V, m)
  BY <1>4, <1>6, <1>8
<1>10. x \in Int /\ m \in Int /\ \A y \in V : y \in Int /\ m >= y
  BY <1>4, <1>5, <1>9
<1>11. CASE x >= m
  <2>1. Top(U, x)
    BY <1>5, <1>10, <1>11
  <2> QED BY <1>4, <1>5, <2>1
<1>12. CASE ~(x >= m)
  <2>1. Top(U, m)
    BY <1>5, <1>9, <1>10, <1>12
  <2> QED BY <1>4, <1>9, <2>1
<1> QED BY <1>11, <1>12

\* A step that writes no row and takes no row lock, but may draw an id.
LEMMA LocalKeeps ==
    ASSUME WatchlistInv, NEW p \in Proc, Others(p), key' = key,
           rowLock' = rowLock, userLock' \in Proc \cup {Null},
           \/ byId' = byId /\ (Drawn(p)' <=> Drawn(p))
           \/ /\ byId' = Append(byId, p) /\ ~Drawn(p) /\ Drawn(p)'
              /\ p \in Request => userLock = p,
           Shape(p, tx'[p]), tx'[p].write = NoWrite,
           \A q \in Proc : userLock' = q <=>
                tx'[q].op = "add" /\ tx'[q].pc \in {"max", "draw", "insert", "commit"},
           Held(p) # {} => /\ tx'[p].op = "reorder"
                           /\ tx'[p].pc \in {"lock", "shift", "place", "commit"},
           ToSet(tx'[p].todo) \subseteq Listed,
           tx'[p].pc = "lock" \/ Held(p) # {} => First(p)',
           Moving(p)' => Len(tx'[p].order) <= Cardinality(Held(p)),
           AddKeys'
    PROVE  WatchlistInv'
<1>0. Listed' = Listed /\ \A q \in Proc : Held(q)' = Held(q)
  BY DEF Listed, Held
<1>4. Shapes'
  BY DEF WatchlistInv, Shapes, Others
<1>5. Keys' /\ Views'
  <2>1. key' \in [Symbol -> Nat \cup {Null}] /\ \A s \in Symbol : key'[s] = key[s]
    BY DEF WatchlistInv, Keys
  <2>2. \A q \in Proc : tx'[q].write = tx[q].write \/ tx'[q].write = NoWrite
    BY DEF Others
  <2> QED BY <2>1, <2>2, Undone DEF WatchlistInv
<1>6. Writers'
  <2>1. \A q \in Proc : \A s \in Symbol : tx'[q].write[s] # Null => q # p /\ tx'[q] = tx[q]
    BY NoWriteIs DEF Others
  <2> QED BY <2>1 DEF WatchlistInv, Writers
<1>7. Locks'
  <2>1. ASSUME NEW s \in Symbol, rowLock[s] # Null
        PROVE  /\ tx'[rowLock[s]].op = "reorder"
               /\ tx'[rowLock[s]].pc \in {"lock", "shift", "place", "commit"}
    <3>1. CASE rowLock[s] = p
      BY <3>1 DEF Held
    <3>2. CASE rowLock[s] # p
      BY <2>1, <3>2 DEF WatchlistInv, Locks, Others
    <3> QED BY <3>1, <3>2
  <2> QED BY <2>1 DEF WatchlistInv, Locks
<1>8. /\ InPlace /\ byId' \in Seq(Symbol \cup Proc) /\ IsInjective(byId')
      /\ \A s \in Symbol : s \in ToSet(byId') <=> s \in ToSet(byId)
      /\ \A q \in Proc : q \in ToSet(byId') <=> Drawn(q)'
  <2>1. \A q \in Proc : q # p => (Drawn(q)' <=> Drawn(q))
    BY DEF Drawn, Others
  <2>2. CASE byId' = byId /\ (Drawn(p)' <=> Drawn(p))
    BY <2>1, <2>2, SameIds DEF WatchlistInv, Ids
  <2>3. CASE /\ byId' = Append(byId, p) /\ ~Drawn(p) /\ Drawn(p)'
             /\ p \in Request => userLock = p
    <3>1. /\ InPlace /\ byId' \in Seq(Symbol \cup Proc) /\ IsInjective(byId')
          /\ ToSet(byId') = ToSet(byId) \cup {p}
      BY <2>3, NewId
    <3>2. \A q \in Proc : q \in ToSet(byId') <=> Drawn(q)'
      BY <2>1, <2>3, <3>1 DEF WatchlistInv, Ids
    <3> QED BY <3>1, <3>2, NullIs
  <2> QED BY <2>2, <2>3
<1>9. Ids'
  <2>1. \A q \in Proc : ToSet(tx'[q].todo) \subseteq Listed'
    BY <1>0 DEF WatchlistInv, Ids, Others
  <2>2. \A s \in Symbol : s \in ToSet(byId') <=> key'[s] # Null
    BY <1>8 DEF WatchlistInv, Ids
  <2> QED BY <1>8, <2>1, <2>2 DEF Ids
<1>10. FirstRow'
  <2>1. First(p)'
    <3>1. CASE tx'[p].pc # "lock" /\ Held(p) = {}
      BY <1>0, <3>1 DEF First
    <3> QED BY <3>1
  <2> QED BY <1>0, <1>8, <2>1, FirstRowKeeps
<1>11. Counted'
  BY <1>0 DEF WatchlistInv, Counted, Moving, Others
<1> QED BY <1>4, <1>5, <1>6, <1>7, <1>9, <1>10, <1>11 DEF WatchlistInv

LEMMA BeginAddKeeps ==
    ASSUME WatchlistInv, NEW p \in Request, NEW s \in Symbol, BeginAdd(p, s)
    PROVE  WatchlistInv'
<1>0. p \in Proc /\ tx[p].pc = "idle" /\ Shape(p, tx[p])
  BY NullIs DEF BeginAdd, WatchlistInv, Shapes
<1>1. /\ key' = key /\ byId' = byId /\ rowLock' = rowLock /\ userLock' = userLock
      /\ tx' = [tx EXCEPT ![p] = [Idle("none") EXCEPT !.pc = "user", !.op = "add",
                                                      !.sym = s]]
  BY DEF BeginAdd
<1> DEFINE t == [Idle("none") EXCEPT !.pc = "user", !.op = "add", !.sym = s]
<1>2. Others(p) /\ tx'[p] = t
  BY <1>0, <1>1, OthersAre
<1>3. /\ t \in Tx /\ t.pc = "user" /\ t.op = "add" /\ t.sym = s /\ t.write = NoWrite
      /\ t.todo = <<>> /\ t.order = <<>>
  BY IdleIs DEF Tx, PC, Reply
<1> HIDE DEF t
<1>4. Shape(p, t)
  BY <1>3 DEF Shape, AddShape, IsInjective
<1>5. tx[p].op = "none" /\ Held(p) = {}
  BY <1>0, HeldIs DEF Shape, AddShape, DefaultsShape, ReorderShape
<1>6. ToSet(t.todo) \subseteq Listed
  BY <1>3 DEF ToSet
<1>7. ~Moving(p)' /\ ~Adding(p)'
  BY <1>2, <1>3 DEF Moving, Adding
<1>8. AddKeys'
  BY <1>1, <1>2, <1>7 DEF WatchlistInv, AddKeys, Adding, Moving, Others
<1>9. \A q \in Proc : userLock' = q <=>
                tx'[q].op = "add" /\ tx'[q].pc \in {"max", "draw", "insert", "commit"}
  BY <1>0, <1>1, <1>2, <1>3 DEF WatchlistInv, Locks, Others
<1>10. userLock' \in Proc \cup {Null}
  BY <1>1 DEF WatchlistInv, Locks
<1>11. ~Drawn(p) /\ ~Drawn(p)'
  BY <1>0, <1>2, <1>3 DEF Drawn
<1> QED
  BY <1>0, <1>1, <1>2, <1>3, <1>4, <1>5, <1>6, <1>7, <1>8, <1>9, <1>10, <1>11, LocalKeeps

\* A transaction that goes on to another statement.
LEMMA GoesOn ==
    ASSUME NEW t \in Tx, NEW c \in PC
    PROVE  LET u == [t EXCEPT !.pc = c] IN
           /\ u \in Tx /\ u.pc = c /\ u.op = t.op /\ u.sym = t.sym /\ u.order = t.order
           /\ u.todo = t.todo /\ u.i = t.i /\ u.k = t.k /\ u.write = t.write
           /\ u.reply = t.reply /\ u.blind = t.blind
BY DEF Tx

LEMMA LockWatchlistUserKeeps ==
    ASSUME WatchlistInv, NEW p \in Proc, LockWatchlistUser(p)
    PROVE  WatchlistInv'
<1>0. Shape(p, tx[p]) /\ tx[p].pc = "user" /\ userLock = Null /\ tx[p] \in Tx
  BY DEF LockWatchlistUser, WatchlistInv, Shapes, Shape
<1>1. /\ key' = key /\ byId' = byId /\ rowLock' = rowLock /\ userLock' = p
      /\ tx' = [tx EXCEPT ![p].pc = "max"]
  BY DEF LockWatchlistUser
<1> DEFINE t == [tx[p] EXCEPT !.pc = "max"]
<1>2. Others(p) /\ tx'[p] = t
  BY <1>1, OthersAre
<1>3. /\ t \in Tx /\ t.pc = "max" /\ t.op = tx[p].op /\ t.sym = tx[p].sym
      /\ t.write = tx[p].write /\ t.todo = tx[p].todo /\ t.order = tx[p].order
  BY <1>0, GoesOn DEF PC
<1> HIDE DEF t
<1>4. tx[p].op = "add" /\ p \in Request /\ tx[p].write = NoWrite /\ tx[p].sym \in Symbol
  BY <1>0 DEF Shape, AddShape, DefaultsShape, ReorderShape
<1>5. Shape(p, t)
  BY <1>0, <1>3, <1>4 DEF Shape, AddShape
<1>6. Held(p) = {} /\ ToSet(t.todo) \subseteq Listed
  BY <1>3, <1>4, HeldIs DEF WatchlistInv, Ids
<1>7. ~Moving(p)' /\ ~Adding(p)'
  BY <1>2, <1>3, <1>4 DEF Moving, Adding
<1>8. AddKeys'
  BY <1>1, <1>2, <1>7 DEF WatchlistInv, AddKeys, Adding, Moving, Others
<1>9. \A q \in Proc : userLock' = q <=>
                tx'[q].op = "add" /\ tx'[q].pc \in {"max", "draw", "insert", "commit"}
  BY <1>0, <1>1, <1>2, <1>3, <1>4, NullIs DEF WatchlistInv, Locks, Others
<1>10. ~Drawn(p) /\ ~Drawn(p)'
  BY <1>0, <1>2, <1>3 DEF Drawn
<1> QED BY <1>1, <1>2, <1>3, <1>4, <1>5, <1>6, <1>7, <1>8, <1>9, <1>10, LocalKeeps

LEMMA MaxWatchlistSortKeyKeeps ==
    ASSUME WatchlistInv, NEW p \in Proc, MaxWatchlistSortKey(p)
    PROVE  WatchlistInv'
<1> DEFINE max == IF Listed = {} THEN -1 ELSE Max({key[s] : s \in Listed})
           k == max + 1
           t == [tx[p] EXCEPT !.pc = "draw", !.k = k]
<1>0. Shape(p, tx[p]) /\ tx[p].pc = "max" /\ tx[p] \in Tx
  BY DEF MaxWatchlistSortKey, WatchlistInv, Shapes, Shape
<1>1. /\ key' = key /\ byId' = byId /\ rowLock' = rowLock /\ userLock' = userLock
      /\ tx' = [tx EXCEPT ![p].pc = "draw", ![p].k = k]
  BY DEF MaxWatchlistSortKey
<1>2. Others(p) /\ tx'[p] = t
  <2>1. tx' = [tx EXCEPT ![p] = t]
    BY <1>1 DEF WatchlistInv, Shapes
  <2> HIDE DEF t
  <2> QED BY <2>1, OthersAre
<1>3. max \in Int /\ max >= -1 /\ \A s \in Listed : key[s] <= max
  <2>1. CASE Listed = {}
    BY <2>1
  <2>2. CASE Listed # {}
    <3> DEFINE K == {key[s] : s \in Listed}
    <3>1. K \subseteq Nat /\ K # {}
      BY <2>2, ListedIs DEF WatchlistInv
    <3>2. IsFiniteSet(K)
      <4> DEFINE f == [s \in Listed |-> key[s]]
      <4>1. f \in Surjection(Listed, K)
        BY DEF Surjection
      <4> HIDE DEF f, K
      <4> QED BY <4>1, ListedIs, FS_Surjection DEF WatchlistInv
    <3>3. \A s \in Listed : key[s] \in K
      OBVIOUS
    <3> HIDE DEF K
    <3>4. \E x \in K : \A y \in K : x >= y
      <4>1. K \subseteq Int
        BY <3>1
      <4> QED BY <3>1, <3>2, <4>1, FiniteMax
    <3>5. Max(K) \in K /\ \A y \in K : Max(K) >= y
      BY <3>4 DEF Max
    <3>6. max = Max(K)
      BY <2>2 DEF K
    <3> HIDE DEF max
    <3>7. max \in Nat /\ \A s \in Listed : key[s] \in Nat /\ max >= key[s]
      BY <3>1, <3>3, <3>5, <3>6
    <3> QED BY <3>7
  <2> QED BY <2>1, <2>2
<1> HIDE DEF max
<1>4. k \in Nat /\ \A s \in Listed : key[s] < k
  <2>1. \A s \in Listed : key[s] \in Nat
    BY ListedIs DEF WatchlistInv
  <2> QED BY <1>3, <2>1
<1> HIDE DEF k
<1>5. /\ t \in Tx /\ t.pc = "draw" /\ t.op = tx[p].op /\ t.sym = tx[p].sym /\ t.k = k
      /\ t.write = tx[p].write /\ t.todo = tx[p].todo /\ t.order = tx[p].order
  <2>1. k \in Int
    BY <1>4
  <2> QED BY <1>0, <2>1 DEF Tx, PC
<1> HIDE DEF t
<1>6. tx[p].op = "add" /\ p \in Request /\ tx[p].write = NoWrite /\ tx[p].sym \in Symbol
  BY <1>0 DEF Shape, AddShape, DefaultsShape, ReorderShape
<1>7. Shape(p, t)
  BY <1>0, <1>4, <1>5, <1>6 DEF Shape, AddShape
<1>8. Held(p) = {} /\ ToSet(t.todo) \subseteq Listed
  BY <1>5, <1>6, HeldIs DEF WatchlistInv, Ids
<1>9. ~Moving(p)' /\ \A q \in Proc : q # p => Moving(q)' = Moving(q) /\ Adding(q)' = Adding(q)
  BY <1>2, <1>5, <1>6 DEF Moving, Adding, Others
<1>10. ASSUME NEW q \in Proc, Moving(q) PROVE Len(tx[q].order) <= k
  <2>1. Held(q) \in SUBSET Symbol /\ \A s \in Held(q) : key[s] # Null /\ key[s] < k
    BY <1>4, HeldIs DEF Listed
  <2>2. Cardinality(Held(q)) <= k
    BY <1>4, <2>1, AtMost DEF WatchlistInv
  <2>3. Len(tx[q].order) <= Cardinality(Held(q))
    BY <1>10 DEF WatchlistInv, Counted
  <2>4. Len(tx[q].order) \in Nat /\ Cardinality(Held(q)) \in Nat
    BY HeldIs, FS_CardinalityType, TxFields, SeqFacts DEF WatchlistInv, Shapes, Shape
  <2> QED BY <1>4, <2>2, <2>3, <2>4
<1>11. AddKeys'
  <2>1. ASSUME NEW q \in Proc, Adding(q)'
        PROVE  /\ \A s \in Symbol : key[s] # Null => key[s] < tx'[q].k
               /\ \A r \in Proc : Moving(r)' => Len(tx'[r].order) <= tx'[q].k
    <3>1. CASE q = p
      BY <1>2, <1>4, <1>5, <1>9, <1>10, <3>1 DEF Others, Listed
    <3>2. CASE q # p
      <4>1. Adding(q) /\ tx'[q] = tx[q]
        BY <1>2, <1>9, <2>1, <3>2 DEF Others
      <4> QED BY <1>2, <1>9, <4>1 DEF WatchlistInv, AddKeys, Others
    <3> QED BY <3>1, <3>2
  <2> QED BY <1>1, <2>1 DEF AddKeys
<1>12. \A q \in Proc : userLock' = q <=>
                tx'[q].op = "add" /\ tx'[q].pc \in {"max", "draw", "insert", "commit"}
  BY <1>0, <1>1, <1>2, <1>5, <1>6 DEF WatchlistInv, Locks, Others
<1>13. userLock' \in Proc \cup {Null}
  BY <1>1 DEF WatchlistInv, Locks
<1>14. ~Drawn(p) /\ ~Drawn(p)'
  BY <1>0, <1>2, <1>5 DEF Drawn
<1> QED
  BY <1>1, <1>2, <1>5, <1>6, <1>7, <1>8, <1>9, <1>11, <1>12, <1>13, <1>14, LocalKeeps

\* An INSERT starts.
LEMMA DrawIdKeeps ==
    ASSUME WatchlistInv, NEW p \in Proc, DrawId(p)
    PROVE  WatchlistInv'
<1> DEFINE t == [tx[p] EXCEPT !.pc = "insert"]
<1>0. /\ Shape(p, tx[p]) /\ tx[p].pc = "draw" /\ tx[p] \in Tx
      /\ tx[p].op = "defaults" => tx[p].i <= Len(Defaults) /\ Defaults[tx[p].i] \in Symbol
  BY DEF DrawId, WatchlistInv, Shapes, Shape
<1>1. /\ key' = key /\ byId' = Append(byId, p) /\ rowLock' = rowLock /\ userLock' = userLock
      /\ tx' = [tx EXCEPT ![p].pc = "insert"]
  BY DEF DrawId
<1>2. Others(p) /\ tx'[p] = t
  BY <1>1, OthersAre
<1>3. /\ t \in Tx /\ t.pc = "insert" /\ t.op = tx[p].op /\ t.sym = tx[p].sym
      /\ t.i = tx[p].i /\ t.k = tx[p].k
      /\ t.write = tx[p].write /\ t.todo = tx[p].todo /\ t.order = tx[p].order
  BY <1>0, GoesOn DEF PC
<1> HIDE DEF t
<1>4. /\ tx[p].op \in {"add", "defaults"} /\ tx[p].write = NoWrite
      /\ p \in Request => tx[p].op = "add"
  BY <1>0, NullIs DEF Shape, AddShape, DefaultsShape, ReorderShape
<1>5. Shape(p, t)
  <2>1. CASE tx[p].op = "add"
    <3>1. p \in Request /\ AddShape(t)
      BY <1>0, <1>3, <2>1 DEF Shape, AddShape
    <3> QED BY <1>0, <1>3, <2>1, <3>1 DEF Shape
  <2>2. CASE tx[p].op = "defaults"
    <3>1. p = Hook /\ tx[p].i \in 1 .. (Len(Defaults) + 1) /\ Len(Defaults) \in Nat
      BY <1>0, <2>2, WatchlistConstants, SeqFacts DEF Shape, DefaultsShape
    <3>2. tx[p].i \in 1 .. Len(Defaults)
      BY <1>0, <2>2, <3>1
    <3>3. DefaultsShape(t)
      BY <1>0, <1>3, <1>4, <2>2, <3>2 DEF DefaultsShape
    <3> QED BY <1>0, <1>3, <2>2, <3>1, <3>3 DEF Shape
  <2> QED BY <1>4, <2>1, <2>2
<1>6. Held(p) = {} /\ ToSet(t.todo) \subseteq Listed
  BY <1>3, <1>4, HeldIs DEF WatchlistInv, Ids
<1>7. ~Moving(p)' /\ (Adding(p)' <=> Adding(p)) /\ tx'[p].k = tx[p].k
  BY <1>0, <1>2, <1>3, <1>4 DEF Moving, Adding
<1>8. AddKeys'
  BY <1>1, <1>2, <1>7 DEF WatchlistInv, AddKeys, Adding, Moving, Others
<1>9. /\ userLock' \in Proc \cup {Null}
      /\ \A q \in Proc : userLock' = q <=>
                tx'[q].op = "add" /\ tx'[q].pc \in {"max", "draw", "insert", "commit"}
  BY <1>0, <1>1, <1>2, <1>3, <1>4 DEF WatchlistInv, Locks, Others
<1>10. ~Drawn(p) /\ Drawn(p)'
  BY <1>0, <1>2, <1>3 DEF Drawn
<1>11. p \in Request => userLock = p
  BY <1>0, <1>4 DEF WatchlistInv, Locks
<1> QED
  BY <1>1, <1>2, <1>3, <1>4, <1>5, <1>6, <1>7, <1>8, <1>9, <1>10, <1>11, LocalKeeps

\* A default that table symbols does not list.
LEMMA SkipDefaultKeeps ==
    ASSUME WatchlistInv, NEW p \in Proc, SkipDefault(p)
    PROVE  WatchlistInv'
<1> DEFINE t == [tx[p] EXCEPT !.i = tx[p].i + 1]
<1>0. /\ Shape(p, tx[p]) /\ tx[p].pc = "draw" /\ tx[p].op = "defaults" /\ tx[p] \in Tx
      /\ tx[p].i <= Len(Defaults) /\ tx[p].i \in Nat
  BY TxFields DEF SkipDefault, WatchlistInv, Shapes, Shape
<1>1. /\ key' = key /\ byId' = byId /\ rowLock' = rowLock /\ userLock' = userLock
      /\ tx' = [tx EXCEPT ![p].i = @ + 1]
  BY DEF SkipDefault
<1>2. Others(p) /\ tx'[p] = t
  <2>1. tx' = [tx EXCEPT ![p] = t]
    BY <1>1 DEF WatchlistInv, Shapes
  <2> HIDE DEF t
  <2> QED BY <2>1, OthersAre
<1>3. /\ t \in Tx /\ t.pc = tx[p].pc /\ t.op = tx[p].op /\ t.i = tx[p].i + 1
      /\ t.write = tx[p].write /\ t.todo = tx[p].todo /\ t.order = tx[p].order
  <2>1. tx[p].i + 1 \in Nat
    BY <1>0
  <2> QED BY <1>0, <2>1 DEF Tx
<1> HIDE DEF t
<1>4. /\ p = Hook /\ tx[p].write = NoWrite /\ tx[p].i \in 1 .. (Len(Defaults) + 1)
      /\ Len(Defaults) \in Nat
  BY <1>0, WatchlistConstants, SeqFacts DEF Shape, DefaultsShape
<1>5. Shape(p, t)
  <2>1. t.i \in 1 .. (Len(Defaults) + 1)
    BY <1>0, <1>3, <1>4
  <2>2. DefaultsShape(t)
    BY <1>0, <1>3, <1>4, <2>1 DEF DefaultsShape
  <2> QED BY <1>0, <1>3, <1>4, <2>2 DEF Shape
<1>6. Held(p) = {} /\ ToSet(t.todo) \subseteq Listed
  BY <1>0, <1>3, HeldIs DEF WatchlistInv, Ids
<1>7. ~Moving(p)' /\ ~Adding(p)'
  BY <1>0, <1>2, <1>3 DEF Moving, Adding
<1>8. AddKeys'
  BY <1>1, <1>2, <1>7 DEF WatchlistInv, AddKeys, Adding, Moving, Others
<1>9. /\ userLock' \in Proc \cup {Null}
      /\ \A q \in Proc : userLock' = q <=>
                tx'[q].op = "add" /\ tx'[q].pc \in {"max", "draw", "insert", "commit"}
  BY <1>0, <1>1, <1>2, <1>3 DEF WatchlistInv, Locks, Others
<1>10. ~Drawn(p) /\ ~Drawn(p)'
  BY <1>0, <1>2, <1>3 DEF Drawn
<1> QED BY <1>0, <1>1, <1>2, <1>3, <1>4, <1>5, <1>6, <1>7, <1>8, <1>9, <1>10, LocalKeeps

LEMMA BeginReorderKeeps ==
    ASSUME WatchlistInv, NEW p \in Request,
           NEW order \in SeqOf(Symbol, Cardinality(Symbol)), BeginReorder(p, order)
    PROVE  WatchlistInv' /\ order \in Seq(Symbol)
<1>0. p \in Proc /\ tx[p].pc = "idle" /\ Shape(p, tx[p])
  BY NullIs DEF BeginReorder, WatchlistInv, Shapes
<1> DEFINE t == [Idle("none") EXCEPT !.pc = "snapshot", !.op = "reorder", !.order = order]
<1>1. /\ key' = key /\ byId' = byId /\ rowLock' = rowLock /\ userLock' = userLock
      /\ tx' = [tx EXCEPT ![p] = t] /\ IsInjective(order)
  BY DEF BeginReorder
<1>2. Others(p) /\ tx'[p] = t
  BY <1>0, <1>1, OthersAre
<1>3. order \in Seq(Symbol)
  <2>1. PICK m \in 0 .. Cardinality(Symbol) : order \in [1 .. m -> Symbol]
    BY DEF SeqOf
  <2>2. m \in Nat
    BY FS_CardinalityType, WatchlistConstants
  <2> QED BY <2>1, <2>2, SeqDef
<1>4. /\ t \in Tx /\ t.pc = "snapshot" /\ t.op = "reorder" /\ t.write = NoWrite
      /\ t.todo = <<>> /\ t.order = order /\ t.i = 1
  BY <1>3, IdleIs DEF Tx, PC, Reply
<1> HIDE DEF t
<1>5. Shape(p, t)
  BY <1>1, <1>4 DEF Shape, ReorderShape, IsInjective
<1>6. tx[p].op = "none" /\ Held(p) = {}
  BY <1>0, HeldIs DEF Shape, AddShape, DefaultsShape, ReorderShape
<1>7. ToSet(t.todo) \subseteq Listed
  BY <1>4 DEF ToSet
<1>8. ~Moving(p)' /\ ~Adding(p)'
  BY <1>2, <1>4 DEF Moving, Adding
<1>9. AddKeys'
  BY <1>1, <1>2, <1>8 DEF WatchlistInv, AddKeys, Adding, Moving, Others
<1>10. \A q \in Proc : userLock' = q <=>
                tx'[q].op = "add" /\ tx'[q].pc \in {"max", "draw", "insert", "commit"}
  BY <1>0, <1>1, <1>2, <1>4 DEF WatchlistInv, Locks, Others
<1>11. userLock' \in Proc \cup {Null}
  BY <1>1 DEF WatchlistInv, Locks
<1>12. ~Drawn(p) /\ ~Drawn(p)'
  BY <1>0, <1>2, <1>4 DEF Drawn
<1>13. WatchlistInv'
  BY <1>0, <1>1, <1>2, <1>4, <1>5, <1>6, <1>7, <1>8, <1>9, <1>10, <1>11, <1>12, LocalKeeps
<1> QED BY <1>3, <1>13

\* LockWatchlistByUser names each row once, and every row before it first.
LEMMA LockOrder ==
    ASSUME WatchlistInv
    PROVE  LET l == SortedBy(Listed, Id) IN
           /\ l \in Seq(Symbol) /\ IsInjective(l) /\ ToSet(l) = Listed
           /\ \A j \in 1 .. Len(l) : \A u \in Symbol :
                 Before(u, l[j]) => \E m \in 1 .. Len(l) : m < j /\ l[m] = u
<1> DEFINE l == SortedBy(Listed, Id)
           n == Cardinality(Listed)
           P == Id
<1>1. /\ byId \in Seq(Symbol \cup Proc) /\ DOMAIN byId = 1 .. Len(byId) /\ Len(byId) \in Nat
      /\ \A i, j \in 1 .. Len(byId) : byId[i] = byId[j] => i = j
      /\ \A s \in Listed : \E i \in 1 .. Len(byId) : byId[i] = s
      /\ \A i \in 1 .. Len(byId) : byId[i] \in Symbol => byId[i] \in Listed
  <2>1. byId \in Seq(Symbol \cup Proc) /\ IsInjective(byId)
    BY DEF WatchlistInv, Ids
  <2>2. \A s \in Symbol : s \in ToSet(byId) <=> s \in Listed
    BY DEF WatchlistInv, Ids, Listed
  <2> QED BY <2>1, <2>2, SeqFacts DEF Listed
<1>2. P = [s \in Listed |-> CHOOSE i \in 1 .. Len(byId) : byId[i] = s]
  BY <1>1 DEF Id
<1> HIDE DEF P
<1>3. \A s \in Listed : P[s] \in 1 .. Len(byId) /\ byId[P[s]] = s
  <2> TAKE s \in Listed
  <2>1. P[s] = CHOOSE i \in 1 .. Len(byId) : byId[i] = s
    BY <1>2
  <2>2. \E i \in 1 .. Len(byId) : byId[i] = s
    BY <1>1
  <2> QED BY <2>1, <2>2
<1>4. /\ \A s \in Listed : P[s] \in Int
      /\ \A s, u \in Listed : P[s] = P[u] => s = u
  BY <1>1, <1>3
<1>5. IsFiniteSet(Listed) /\ Listed \in SUBSET Symbol
  BY ListedIs DEF WatchlistInv
<1>6. l = SortedBy(Listed, P)
  BY DEF P
<1> HIDE DEF l, n
<1>7. /\ n \in Nat /\ l \in [1 .. n -> Listed]
      /\ \A i, j \in 1 .. n : i < j => P[l[i]] < P[l[j]]
      /\ \A s \in Listed : \E i \in 1 .. n : l[i] = s
  BY <1>4, <1>5, <1>6, SortedByIs DEF n
<1>8. l \in Seq(Symbol) /\ Len(l) = n
  <2>1. l \in [1 .. n -> Symbol]
    BY <1>5, <1>7
  <2> QED BY <1>7, <2>1, SeqDef, LenProperties
<1>9. IsInjective(l)
  <2>1. ASSUME NEW i \in 1 .. n, NEW j \in 1 .. n, l[i] = l[j] PROVE i = j
    <3>1. P[l[i]] \in Int
      BY <1>4, <1>7
    <3>2. ~(P[l[i]] < P[l[j]]) /\ ~(P[l[j]] < P[l[i]])
      BY <2>1, <3>1
    <3>3. ~(i < j) /\ ~(j < i)
      BY <1>7, <3>2
    <3> QED BY <1>7, <3>3
  <2> QED BY <1>8, <2>1, SeqFacts
<1>10. ToSet(l) = Listed
  <2>1. ToSet(l) = {l[i] : i \in 1 .. n}
    BY <1>8, SeqFacts
  <2> QED BY <1>7, <2>1
<1>11. ASSUME NEW j \in 1 .. Len(l), NEW u \in Symbol, Before(u, l[j])
       PROVE  \E m \in 1 .. Len(l) : m < j /\ l[m] = u
  <2>1. PICK a, b \in 1 .. Len(byId) : a < b /\ byId[a] = u /\ byId[b] = l[j]
    BY <1>11 DEF Before, Comes
  <2>2. u \in Listed /\ l[j] \in Listed
    BY <1>1, <1>7, <1>8, <2>1
  <2>3. P[u] = a /\ P[l[j]] = b
    BY <1>1, <1>3, <2>1, <2>2
  <2>4. PICK m \in 1 .. n : l[m] = u
    BY <1>7, <2>2
  <2>5. m # j
    BY <2>1, <2>3, <2>4
  <2>6. ~(j < m)
    <3>1. ~(P[l[j]] < P[l[m]])
      BY <1>1, <2>1, <2>3, <2>4
    <3> QED BY <1>7, <1>8, <3>1
  <2> QED BY <1>7, <1>8, <2>4, <2>5, <2>6
<1> QED BY <1>8, <1>9, <1>10, <1>11 DEF l

LEMMA StartLockingKeeps ==
    ASSUME WatchlistInv, NEW p \in Proc, StartLocking(p)
    PROVE  WatchlistInv'
<1> DEFINE l == SortedBy(Listed, Id)
           x == Hook \in ToSet(byId)
           t == [tx[p] EXCEPT !.pc = "lock", !.todo = l, !.blind = x]
<1>0. Shape(p, tx[p]) /\ tx[p].pc = "snapshot" /\ tx[p] \in Tx
  BY DEF StartLocking, WatchlistInv, Shapes, Shape
<1>1. /\ key' = key /\ byId' = byId /\ rowLock' = rowLock /\ userLock' = userLock
      /\ tx' = [tx EXCEPT ![p].pc = "lock", ![p].todo = l, ![p].blind = x]
  BY DEF StartLocking
<1>3. /\ l \in Seq(Symbol) /\ IsInjective(l) /\ ToSet(l) = Listed
      /\ \A j \in 1 .. Len(l) : \A u \in Symbol :
            Before(u, l[j]) => \E m \in 1 .. Len(l) : m < j /\ l[m] = u
  BY LockOrder
<1>12. x \in BOOLEAN
  OBVIOUS
<1>13. ~x => \A v : ~Before(Hook, v)
  BY ComesIs DEF WatchlistInv, Ids, Before
<1> HIDE DEF l, x
<1>2. Others(p) /\ tx'[p] = t
  <2>1. tx' = [tx EXCEPT ![p] = t]
    BY <1>1 DEF WatchlistInv, Shapes
  <2> HIDE DEF t
  <2> QED BY <2>1, OthersAre
<1>4. /\ t \in Tx /\ t.pc = "lock" /\ t.op = tx[p].op /\ t.i = tx[p].i /\ t.blind = x
      /\ t.write = tx[p].write /\ t.todo = l /\ t.order = tx[p].order
  BY <1>0, <1>3, <1>12 DEF Tx, PC
<1> HIDE DEF t
<1>5. tx[p].op = "reorder" /\ p \in Request /\ tx[p].write = NoWrite /\ tx[p].i = 1
  BY <1>0 DEF Shape, AddShape, DefaultsShape, ReorderShape
<1>6. Shape(p, t)
  BY <1>0, <1>3, <1>4, <1>5 DEF Shape, ReorderShape
<1>7. ~Moving(p)' /\ ~Adding(p)'
  BY <1>2, <1>4, <1>5 DEF Moving, Adding
<1>8. AddKeys'
  BY <1>1, <1>2, <1>7 DEF WatchlistInv, AddKeys, Adding, Moving, Others
<1>9. \A q \in Proc : userLock' = q <=>
                tx'[q].op = "add" /\ tx'[q].pc \in {"max", "draw", "insert", "commit"}
  BY <1>0, <1>1, <1>2, <1>4, <1>5 DEF WatchlistInv, Locks, Others
<1>10. userLock' \in Proc \cup {Null}
  BY <1>1 DEF WatchlistInv, Locks
<1>11. Held(p) = {} /\ Held(p)' = {}
  <2>1. Held(p) = {}
    BY <1>0, HeldIs
  <2> QED BY <1>1, <2>1 DEF Held
<1>14. First(p)'
  <2>1. ASSUME ~x, NEW j \in 1 .. Len(l), NEW u \in Symbol \cup {Hook},
               Comes(byId', u, l[j])
        PROVE  \E m \in 1 .. Len(l) : m < j /\ l[m] = u
    BY <1>1, <1>3, <1>13, <2>1 DEF Before
  <2>2. tx'[p].blind = x /\ tx'[p].todo = l
    BY <1>2, <1>4
  <2> QED BY <1>11, <2>1, <2>2 DEF First, Before
<1>15. ~Drawn(p) /\ ~Drawn(p)'
  BY <1>0, <1>2, <1>4, <1>5 DEF Drawn
<1> QED
  BY <1>1, <1>2, <1>3, <1>4, <1>5, <1>6, <1>7, <1>8, <1>9, <1>10, <1>11, <1>14, <1>15,
     LocalKeeps

\* The second disjunct of CheckCount: as many rows are locked as were named.
LEMMA CountedKeeps ==
    ASSUME WatchlistInv, NEW p \in Proc, tx[p].pc = "lock",
           Cardinality(Held(p)) = Len(tx[p].order),
           tx' = [tx EXCEPT ![p].pc = IF tx[p].order = <<>> THEN "commit" ELSE "shift"],
           UNCHANGED <<key, byId, rowLock, userLock>>
    PROVE  WatchlistInv'
<1> DEFINE c == IF tx[p].order = <<>> THEN "commit" ELSE "shift"
           t == [tx[p] EXCEPT !.pc = c]
<1>0. Shape(p, tx[p]) /\ tx[p] \in Tx
  BY DEF WatchlistInv, Shapes, Shape
<1>1. key' = key /\ byId' = byId /\ rowLock' = rowLock /\ userLock' = userLock
  OBVIOUS
<1>2. Others(p) /\ tx'[p] = t
  BY OthersAre
<1>3. /\ t \in Tx /\ t.pc = c /\ t.op = tx[p].op /\ t.i = tx[p].i /\ t.blind = tx[p].blind
      /\ t.write = tx[p].write /\ t.todo = tx[p].todo /\ t.order = tx[p].order
  <2>1. c \in PC
    BY DEF PC
  <2> HIDE DEF c
  <2> QED BY <1>0, <2>1, GoesOn
<1> HIDE DEF t
<1>4. tx[p].op = "reorder" /\ p \in Request /\ tx[p].write = NoWrite /\ tx[p].i = 1
  BY <1>0 DEF Shape, AddShape, DefaultsShape, ReorderShape
<1>5. /\ tx[p].order \in Seq(Symbol) /\ Len(tx[p].order) \in Nat
      /\ (tx[p].order # <<>> <=> Len(tx[p].order) > 0)
      /\ \A j \in 1 .. Len(tx[p].order) : tx[p].order[j] \in Symbol
  BY <1>0, TxFields, SeqFacts
<1>6. Shape(p, t)
  <2>1. c # "commit" => t.i \in 1 .. Len(t.order)
    BY <1>3, <1>4, <1>5
  <2>2. ASSUME NEW j \in 1 .. Len(t.order) PROVE t.write[t.order[j]] = Moved(t, j)
    <3>1. t.pc = "shift" /\ ~(j < t.i)
      BY <1>3, <1>4, <1>5
    <3>2. Moved(t, j) = Null
      BY <3>1 DEF Moved
    <3> QED BY <1>3, <1>4, <1>5, <3>2, NoWriteIs
  <2>3. t.pc \in {"shift", "place", "commit"} /\ t.op = "reorder"
    BY <1>3, <1>4
  <2>4. \A s \in Symbol : t.write[s] = Null
    BY <1>3, <1>4, NoWriteIs
  <2>5. ReorderShape(t)
    BY <1>3, <2>1, <2>2, <2>3, <2>4 DEF ReorderShape
  <2> QED BY <1>0, <1>3, <1>4, <2>3, <2>5 DEF Shape
<1>7. /\ t.pc \in {"shift", "commit"} /\ ~Adding(p)'
      /\ \A q \in Proc : q # p => Moving(q)' = Moving(q) /\ Adding(q)' = Adding(q)
  BY <1>2, <1>3, <1>4 DEF Adding, Moving, Others
<1> HIDE DEF c
<1>8. AddKeys'
  <2>1. ASSUME NEW q \in Proc, Adding(q)'
        PROVE  /\ \A s \in Symbol : key[s] # Null => key[s] < tx'[q].k
               /\ \A r \in Proc : Moving(r)' => Len(tx'[r].order) <= tx'[q].k
    <3>1. q # p /\ tx'[q] = tx[q] /\ Adding(q)
      BY <1>2, <1>7, <2>1 DEF Others
    <3>2. /\ \A s \in Symbol : key[s] # Null => key[s] < tx[q].k
          /\ \A r \in Proc : Moving(r) => Len(tx[r].order) <= tx[q].k
      BY <3>1 DEF WatchlistInv, AddKeys
    <3>3. tx[q].k \in Nat
      BY <3>1 DEF WatchlistInv, Shapes, Shape, AddShape, Adding
    <3>4. Held(p) \in SUBSET Symbol /\ \A s \in Held(p) : key[s] # Null /\ key[s] < tx[q].k
      BY <3>2, HeldIs DEF Listed
    <3>5. Len(tx[p].order) <= tx[q].k
      BY <3>3, <3>4, AtMost DEF WatchlistInv
    <3>6. ASSUME NEW r \in Proc, Moving(r)' PROVE Len(tx'[r].order) <= tx'[q].k
      <4>1. CASE r = p
        BY <1>2, <1>3, <3>1, <3>5, <4>1
      <4>2. CASE r # p
        BY <1>2, <1>7, <3>1, <3>2, <3>6, <4>2 DEF Others
      <4> QED BY <4>1, <4>2
    <3> QED BY <3>1, <3>2, <3>6
  <2> QED BY <2>1 DEF AddKeys
<1>9. \A q \in Proc : userLock' = q <=>
                tx'[q].op = "add" /\ tx'[q].pc \in {"max", "draw", "insert", "commit"}
  BY <1>0, <1>1, <1>2, <1>3, <1>4 DEF WatchlistInv, Locks, Others
<1>10. userLock' \in Proc \cup {Null}
  BY <1>1 DEF WatchlistInv, Locks
<1>11. ToSet(t.todo) \subseteq Listed
  BY <1>3 DEF WatchlistInv, Ids
<1>12. Len(t.order) <= Cardinality(Held(p))
  BY <1>3, <1>5
<1>13. ~Drawn(p) /\ ~Drawn(p)'
  BY <1>2, <1>3, <1>4, <1>7 DEF Drawn
<1>14. First(p)'
  <2>1. Held(p)' = Held(p)
    BY <1>1 DEF Held
  <2>2. tx'[p].blind = tx[p].blind /\ tx'[p].todo = tx[p].todo
    BY <1>2, <1>3
  <2> QED BY <1>1, <2>1, <2>2, SameIds, FirstKeeps
<1> QED
  BY <1>1, <1>2, <1>3, <1>4, <1>6, <1>7, <1>8, <1>9, <1>10, <1>11, <1>12, <1>13, <1>14,
     LocalKeeps

LEMMA LockNextRowKeeps ==
    ASSUME WatchlistInv, NEW p \in Proc, LockNextRow(p)
    PROVE  WatchlistInv'
<1> DEFINE h == Head(tx[p].todo)
           t == [tx[p] EXCEPT !.todo = Tail(@)]
<1>0. /\ Shape(p, tx[p]) /\ tx[p].pc = "lock" /\ tx[p] \in Tx /\ tx[p].todo # <<>>
      /\ tx[p].todo \in Seq(Symbol) /\ IsInjective(tx[p].todo)
  BY TxFields DEF LockNextRow, WatchlistInv, Shapes, Shape
<1>1. /\ key' = key /\ byId' = byId /\ userLock' = userLock
      /\ rowLock' = [rowLock EXCEPT ![h] = p] /\ rowLock[h] = Null
      /\ tx' = [tx EXCEPT ![p].todo = Tail(@)] /\ Listed' = Listed
  BY DEF LockNextRow, Listed
<1>2. Others(p) /\ tx'[p] = t
  <2>1. tx' = [tx EXCEPT ![p] = t]
    BY <1>1 DEF WatchlistInv, Shapes
  <2> HIDE DEF t
  <2> QED BY <2>1, OthersAre
<1>3. /\ h \in Symbol /\ h = tx[p].todo[1] /\ Tail(tx[p].todo) \in Seq(Symbol)
      /\ Len(Tail(tx[p].todo)) = Len(tx[p].todo) - 1 /\ Len(tx[p].todo) \in Nat \ {0}
      /\ \A j \in 1 .. Len(Tail(tx[p].todo)) : Tail(tx[p].todo)[j] = tx[p].todo[j + 1]
  <2>1. Len(tx[p].todo) \in Nat \ {0}
    BY <1>0, EmptySeq
  <2> QED BY <1>0, <2>1, HeadTailProperties
<1>4. /\ t \in Tx /\ t.pc = "lock" /\ t.op = tx[p].op /\ t.i = tx[p].i
      /\ t.write = tx[p].write /\ t.todo = Tail(tx[p].todo) /\ t.order = tx[p].order
  BY <1>0, <1>3 DEF Tx
<1> HIDE DEF t
<1>5. IsInjective(t.todo) /\ ToSet(t.todo) \subseteq ToSet(tx[p].todo)
  <2>1. \A j, m \in 1 .. Len(tx[p].todo) : tx[p].todo[j] = tx[p].todo[m] => j = m
    BY <1>0, SeqFacts
  <2>2. \A j \in 1 .. Len(t.todo) : j + 1 \in 1 .. Len(tx[p].todo)
    BY <1>3, <1>4
  <2>3. \A j, m \in 1 .. Len(t.todo) : t.todo[j] = t.todo[m] => j = m
    <3> SUFFICES ASSUME NEW j \in 1 .. Len(t.todo), NEW m \in 1 .. Len(t.todo),
                        t.todo[j] = t.todo[m]
                 PROVE  j = m
      OBVIOUS
    <3>1. tx[p].todo[j + 1] = tx[p].todo[m + 1]
      BY <1>3, <1>4
    <3>2. j + 1 = m + 1
      BY <2>1, <2>2, <3>1
    <3> QED BY <3>2
  <2>4. t.todo \in Seq(Symbol)
    BY <1>3, <1>4
  <2>6. IsInjective(t.todo)
    BY <2>3, <2>4, SeqFacts
  <2>5. ASSUME NEW s \in ToSet(t.todo) PROVE s \in ToSet(tx[p].todo)
    <3>1. PICK j \in 1 .. Len(t.todo) : t.todo[j] = s
      BY <2>4, <2>5, SeqFacts
    <3>2. tx[p].todo[j + 1] = s /\ j + 1 \in 1 .. Len(tx[p].todo)
      BY <1>3, <1>4, <2>2, <3>1
    <3> QED BY <1>0, <3>2, SeqFacts
  <2> QED BY <2>5, <2>6
<1>6. tx[p].op = "reorder" /\ p \in Request /\ tx[p].write = NoWrite /\ tx[p].i = 1
  BY <1>0 DEF Shape, AddShape, DefaultsShape, ReorderShape
<1>7. h \in Listed
  <2>1. h \in ToSet(tx[p].todo)
    <3>1. 1 \in 1 .. Len(tx[p].todo)
      BY <1>3
    <3> QED BY <1>0, <1>3, <3>1, SeqFacts
  <2> QED BY <2>1 DEF WatchlistInv, Ids
<1> HIDE DEF h
<1>8. Shapes'
  <2>1. Shape(p, t)
    BY <1>0, <1>4, <1>5, <1>6 DEF Shape, ReorderShape
  <2> QED BY <1>2, <2>1 DEF WatchlistInv, Shapes, Others
<1>9. Keys' /\ Views'
  <2>1. key' \in [Symbol -> Nat \cup {Null}] /\ \A s \in Symbol : key'[s] = key[s]
    BY <1>1 DEF WatchlistInv, Keys
  <2>2. \A q \in Proc : tx'[q].write = tx[q].write \/ tx'[q].write = NoWrite
    BY <1>2, <1>4 DEF Others
  <2> QED BY <2>1, <2>2, Undone DEF WatchlistInv
<1>10. rowLock'[h] = p /\ \A s \in Symbol : s # h => rowLock'[s] = rowLock[s]
  BY <1>1, <1>3 DEF WatchlistInv, Locks
<1>11. Writers'
  <2>1. \A q \in Proc : \A s \in Symbol : tx'[q].write[s] # Null => q # p /\ tx'[q] = tx[q]
    BY <1>2, <1>4, <1>6, NoWriteIs DEF Others
  <2>2. \A q \in Proc : \A s \in Symbol : rowLock[s] = q => rowLock'[s] = q
    BY <1>1, <1>10, NullIs
  <2> QED BY <1>1, <2>1, <2>2 DEF WatchlistInv, Writers
<1>12. Locks'
  <2>1. rowLock' \in [Symbol -> Proc \cup {Null}] /\ userLock' \in Proc \cup {Null}
    BY <1>1 DEF WatchlistInv, Locks
  <2>2. \A s \in Symbol : rowLock'[s] # Null => key'[s] # Null
    BY <1>1, <1>7, <1>10 DEF WatchlistInv, Locks, Listed
  <2>3. \A q \in Proc : userLock' = q <=>
                tx'[q].op = "add" /\ tx'[q].pc \in {"max", "draw", "insert", "commit"}
    BY <1>0, <1>1, <1>2, <1>4, <1>6 DEF WatchlistInv, Locks, Others
  <2>4. ASSUME NEW s \in Symbol, rowLock'[s] # Null
        PROVE  /\ tx'[rowLock'[s]].op = "reorder"
               /\ tx'[rowLock'[s]].pc \in {"lock", "shift", "place", "commit"}
    <3>1. CASE rowLock'[s] = p
      BY <1>2, <1>4, <1>6, <3>1
    <3>2. CASE rowLock'[s] # p
      <4>1. rowLock'[s] = rowLock[s] /\ rowLock[s] \in Proc /\ tx'[rowLock[s]] = tx[rowLock[s]]
        BY <1>2, <1>10, <2>1, <2>4, <3>2 DEF Others
      <4> QED BY <2>4, <4>1 DEF WatchlistInv, Locks
    <3> QED BY <3>1, <3>2
  <2> QED BY <2>1, <2>2, <2>3, <2>4 DEF Locks
<1>13. Ids'
  <2>1. \A q \in Proc : Drawn(q)' <=> Drawn(q)
    BY <1>0, <1>2, <1>4, <1>6 DEF Drawn, Others
  <2> QED BY <1>1, <1>2, <1>4, <1>5, <2>1 DEF WatchlistInv, Ids, Others, Listed
<1>14. \A q \in Proc : q # p => Held(q)' = Held(q)
  BY <1>1, <1>10, NullIs DEF Held
<1>15. Held(p)' # {}
  BY <1>3, <1>10 DEF Held
<1>16. FirstRow'
  <2>1. ASSUME ~tx[p].blind
        PROVE  \E s \in Held(p)' : \A u \in Symbol \cup {Hook} : ~Before(u, s)
    <3>1. CASE Held(p) = {}
      <4>1. 1 \in 1 .. Len(tx[p].todo) /\ tx[p].todo[1] = h
        BY <1>3 DEF h
      <4>2. ASSUME NEW u \in Symbol \cup {Hook}, Before(u, h) PROVE FALSE
        <5>1. First(p)
          BY DEF WatchlistInv, FirstRow
        <5>2. \E m \in 1 .. Len(tx[p].todo) : m < 1 /\ tx[p].todo[m] = u
          BY <1>0, <2>1, <3>1, <4>1, <4>2, <5>1 DEF First
        <5> QED BY <1>3, <5>2
      <4> QED BY <1>3, <1>10, <4>2 DEF Held
    <3>2. CASE Held(p) # {}
      <4>1. PICK s \in Held(p) : \A u \in Symbol \cup {Hook} : ~Before(u, s)
        BY <2>1, <3>2 DEF WatchlistInv, FirstRow, First
      <4>2. s \in Held(p)'
        BY <1>1, <1>10, NullIs DEF Held
      <4> QED BY <4>1, <4>2
    <3> QED BY <3>1, <3>2
  <2>2. First(p)'
    BY <1>1, <1>2, <1>4, <1>15, <2>1 DEF First, Before
  <2> QED BY <1>1, <1>2, <1>14, <2>2, SameIds, FirstRowKeeps
<1>17. ~Moving(p)' /\ ~Adding(p)'
  BY <1>2, <1>4, <1>6 DEF Moving, Adding
<1>18. Counted'
  BY <1>2, <1>14, <1>17 DEF WatchlistInv, Counted, Moving, Others
<1>19. AddKeys'
  BY <1>1, <1>2, <1>17 DEF WatchlistInv, AddKeys, Adding, Moving, Others
<1> QED BY <1>8, <1>9, <1>11, <1>12, <1>13, <1>16, <1>18, <1>19 DEF WatchlistInv

\* An INSERT that meets no row with its key.
Inserts(p, s, k, c) ==
    /\ tx' = [tx EXCEPT ![p].pc = c, ![p].write[s] = k]
    /\ UNCHANGED <<key, byId, rowLock, userLock>>

LEMMA InsertKeeps ==
    ASSUME WatchlistInv, NEW p \in Proc, NEW s \in Symbol, NEW k \in Nat, NEW c,
           \/ /\ tx[p].op = "add" /\ c = "commit"
              /\ s = tx[p].sym /\ k = tx[p].k
           \/ /\ tx[p].op = "defaults" /\ c = "fk"
              /\ s = Defaults[tx[p].i] /\ k = tx[p].i - 1,
           tx[p].pc = "insert", Inserting(p, s) = {}, key[s] = Null,
           Undecided(p, s, k) = {}, ~Collides(p, s, k),
           Inserts(p, s, k, c)
    PROVE  WatchlistInv'
<1> DEFINE t == [tx[p] EXCEPT !.pc = c, !.write[s] = k]
<1>0. Shape(p, tx[p]) /\ tx[p] \in Tx /\ c \in PC
  BY DEF WatchlistInv, Shapes, Shape, PC
<1>1. key' = key /\ byId' = byId /\ rowLock' = rowLock /\ userLock' = userLock /\ Listed' = Listed
  BY DEF Listed, Inserts
<1>2. Others(p) /\ tx'[p] = t
  <2>1. tx' = [tx EXCEPT ![p] = t]
    BY DEF WatchlistInv, Shapes, Inserts
  <2> HIDE DEF t
  <2> QED BY <2>1, OthersAre
<1>3. tx[p].write = NoWrite
  BY <1>0 DEF Shape, AddShape, DefaultsShape, ReorderShape
<1>4. /\ t \in Tx /\ t.pc = c /\ t.op = tx[p].op /\ t.i = tx[p].i /\ t.k = tx[p].k
      /\ t.write = [NoWrite EXCEPT ![s] = k] /\ t.todo = tx[p].todo /\ t.order = tx[p].order
      /\ t.sym = tx[p].sym
  <2>1. [tx[p].write EXCEPT ![s] = k] \in [Symbol -> Int \cup {Null}]
    BY <1>0, TxFields
  <2>2. t = [tx[p] EXCEPT !.pc = c, !.write = [tx[p].write EXCEPT ![s] = k]]
    BY <1>0 DEF Tx
  <2> QED BY <1>0, <1>3, <2>1, <2>2 DEF Tx
<1> HIDE DEF t
<1>5. t.write[s] = k /\ \A u \in Symbol : u # s => t.write[u] = Null
  BY <1>4, NoWriteIs
<1>6. Shapes'
  <2>1. CASE tx[p].op = "add"
    <3>1. p \in Request /\ tx[p].sym \in Symbol
      BY <1>0, <2>1 DEF Shape, AddShape
    <3>2. AddShape(t)
      BY <1>4, <2>1, <3>1 DEF AddShape
    <3>3. Shape(p, t)
      BY <1>0, <1>4, <2>1, <3>1, <3>2 DEF Shape
    <3> QED BY <1>2, <3>3 DEF WatchlistInv, Shapes, Others
  <2>2. CASE tx[p].op = "defaults"
    <3>1. p = Hook /\ tx[p].i \in 1 .. Len(Defaults) /\ Defaults[tx[p].i] \in Symbol
      BY <1>0, <2>2 DEF Shape, DefaultsShape
    <3>2. DefaultsShape(t)
      BY <1>4, <2>2, <3>1 DEF DefaultsShape
    <3>3. Shape(p, t)
      BY <1>0, <1>4, <2>2, <3>1, <3>2 DEF Shape
    <3> QED BY <1>2, <3>3 DEF WatchlistInv, Shapes, Others
  <2> QED BY <2>1, <2>2
<1>7. Keys'
  BY <1>1 DEF WatchlistInv, Keys
<1>8. Views'
  <2>1. tx[p].write \in [Symbol -> Int \cup {Null}] /\ k \in Int
    BY <1>0, TxFields
  <2>2. tx'[p].write = [tx[p].write EXCEPT ![s] = k]
    BY <1>2, <1>3, <1>4
  <2>3. \A q \in Proc : q # p => tx'[q].write = tx[q].write
    BY <1>2 DEF Others
  <2> QED BY <1>1, <2>1, <2>2, <2>3, Wrote DEF WatchlistInv
<1>9. t.op # "reorder" /\ Held(p) = {}
  BY <1>4, HeldIs
<1>10. Writers'
  <2>1. \A u \in Symbol : tx'[p].write[u] # Null => u = s
    BY <1>2, <1>5
  <2>2. \A q \in Proc : q # p => tx[q].write[s] = Null
    BY DEF Inserting
  <2> QED BY <1>1, <1>2, <1>9, <2>1, <2>2 DEF WatchlistInv, Writers, Others
<1>11. Locks'
  <2>1. ASSUME NEW u \in Symbol, rowLock[u] # Null
        PROVE  tx'[rowLock[u]] = tx[rowLock[u]]
    BY <1>2, <1>9, <2>1 DEF WatchlistInv, Locks, Others, Held
  <2>2. \A q \in Proc : userLock = q <=>
                tx'[q].op = "add" /\ tx'[q].pc \in {"max", "draw", "insert", "commit"}
    BY <1>2, <1>4 DEF WatchlistInv, Locks, Others
  <2>3. /\ rowLock \in [Symbol -> Proc \cup {Null}] /\ userLock \in Proc \cup {Null}
        /\ \A u \in Symbol : rowLock[u] # Null => key[u] # Null
    BY DEF WatchlistInv, Locks
  <2>4. \A u \in Symbol : rowLock[u] # Null =>
          tx'[rowLock[u]].op = "reorder"
          /\ tx'[rowLock[u]].pc \in {"lock", "shift", "place", "commit"}
    BY <2>1 DEF WatchlistInv, Locks
  <2> QED BY <1>1, <2>2, <2>3, <2>4 DEF Locks
<1>12. Ids'
  <2>1. \A q \in Proc : Drawn(q)' <=> Drawn(q)
    BY <1>2, <1>4 DEF Drawn, Others
  <2> QED BY <1>1, <1>2, <1>4, <2>1 DEF WatchlistInv, Ids, Others
<1>13. \A q \in Proc : Held(q)' = Held(q)
  BY <1>1 DEF Held
<1>14. FirstRow'
  <2>1. tx'[p].pc # "lock" /\ Held(p)' = {}
    BY <1>2, <1>4, <1>9, <1>13
  <2>2. First(p)'
    BY <2>1 DEF First
  <2> QED BY <1>1, <1>2, <1>13, <2>2, SameIds, FirstRowKeeps
<1>15. ~Moving(p)' /\ (Adding(p)' => Adding(p)) /\ tx'[p].k = tx[p].k
  BY <1>2, <1>4, <1>9 DEF Moving, Adding
<1>16. Counted'
  BY <1>2, <1>13, <1>15 DEF WatchlistInv, Counted, Moving, Others
<1>17. AddKeys'
  BY <1>1, <1>2, <1>15 DEF WatchlistInv, AddKeys, Adding, Moving, Others
<1> QED BY <1>6, <1>7, <1>8, <1>10, <1>11, <1>12, <1>14, <1>16, <1>17 DEF WatchlistInv

\* One entry further.
Advanced(t, u, k, next) ==
    /\ \/ t.pc = "shift" /\ k = -t.i /\ next = "place"
       \/ t.pc = "place" /\ k = t.i - 1 /\ next = "commit"
    /\ u.order = t.order
    /\ u.i = IF t.i = Len(t.order) THEN 1 ELSE t.i + 1
    /\ u.pc = IF t.i = Len(t.order) THEN next ELSE t.pc
    /\ u.write = [t.write EXCEPT ![t.order[t.i]] = k]

LEMMA MovedOn ==
    ASSUME NEW t \in Tx, NEW u \in Tx, NEW k, NEW next, IsInjective(t.order),
           ReorderShape(t), Advanced(t, u, k, next)
    PROVE  ReorderShape(u)
<1> USE DEF Advanced
<1>1. /\ t.order \in Seq(Symbol) /\ Len(t.order) \in Nat /\ t.i \in 1 .. Len(t.order)
      /\ t.write \in [Symbol -> Int \cup {Null}]
      /\ \A j \in 1 .. Len(t.order) : t.order[j] \in Symbol
      /\ \A j, m \in 1 .. Len(t.order) : t.order[j] = t.order[m] => j = m
  BY TxFields, SeqFacts DEF ReorderShape
<1>2. /\ \A j \in 1 .. Len(t.order) : t.write[t.order[j]] = Moved(t, j)
      /\ \A s \in Symbol : s \notin ToSet(t.order) => t.write[s] = Null
  BY DEF ReorderShape
<1>3. u.pc \in {"shift", "place", "commit"} /\ (u.pc # "commit" => u.i \in 1 .. Len(u.order))
  BY <1>1
<1>4. ASSUME NEW j \in 1 .. Len(u.order) PROVE u.write[u.order[j]] = Moved(u, j)
  <2>1. u.write[u.order[j]] = IF j = t.i THEN k ELSE Moved(t, j)
    BY <1>1, <1>2
  <2>2. CASE t.pc = "shift"
    <3>1. Moved(t, j) = IF j < t.i THEN -j ELSE Null
      BY <2>2 DEF Moved
    <3>2. CASE t.i = Len(t.order)
      <4>1. u.pc = "place" /\ u.i = 1
        BY <2>2, <3>2
      <4>2. Moved(u, j) = -j
        BY <4>1 DEF Moved
      <4> QED BY <1>1, <2>1, <2>2, <3>1, <3>2, <4>2
    <3>3. CASE t.i # Len(t.order)
      <4>1. u.pc = "shift" /\ u.i = t.i + 1
        BY <2>2, <3>3
      <4>2. Moved(u, j) = IF j < t.i + 1 THEN -j ELSE Null
        BY <4>1 DEF Moved
      <4> QED BY <1>1, <2>1, <2>2, <3>1, <3>3, <4>2
    <3> QED BY <3>2, <3>3
  <2>3. CASE t.pc = "place"
    <3>1. Moved(t, j) = IF j < t.i THEN j - 1 ELSE -j
      BY <2>3 DEF Moved
    <3>2. CASE t.i = Len(t.order)
      <4>1. u.pc = "commit"
        BY <2>3, <3>2
      <4>2. Moved(u, j) = j - 1
        BY <4>1 DEF Moved
      <4> QED BY <1>1, <2>1, <2>3, <3>1, <3>2, <4>2
    <3>3. CASE t.i # Len(t.order)
      <4>1. u.pc = "place" /\ u.i = t.i + 1
        BY <2>3, <3>3
      <4>2. Moved(u, j) = IF j < t.i + 1 THEN j - 1 ELSE -j
        BY <4>1 DEF Moved
      <4> QED BY <1>1, <2>1, <2>3, <3>1, <3>3, <4>2
    <3> QED BY <3>2, <3>3
  <2> QED BY <2>2, <2>3
<1>5. ASSUME NEW s \in Symbol, s \notin ToSet(u.order) PROVE u.write[s] = Null
  <2>1. s # t.order[t.i]
    BY <1>1, <1>5, SeqFacts
  <2> QED BY <1>1, <1>2, <1>5, <2>1
<1> QED BY <1>3, <1>4, <1>5 DEF ReorderShape

\* An UPDATE that meets no row with its key.
Updates(p, s, k, next) ==
    /\ tx' = [tx EXCEPT ![p].write[s] = k,
                ![p].i = IF tx[p].i = Len(tx[p].order) THEN 1 ELSE @ + 1,
                ![p].pc = IF tx[p].i = Len(tx[p].order) THEN next ELSE @]
    /\ rowLock' = [rowLock EXCEPT ![s] = p]
    /\ UNCHANGED <<key, byId, userLock>>

LEMMA UpdateKeeps ==
    ASSUME WatchlistInv, NEW p \in Proc, NEW s, NEW k, NEW next,
           \/ tx[p].pc = "shift" /\ k = -tx[p].i /\ next = "place"
           \/ tx[p].pc = "place" /\ k = tx[p].i - 1 /\ next = "commit",
           s = tx[p].order[tx[p].i],
           key[s] # Null, rowLock[s] \in {Null, p},
           Undecided(p, s, k) = {}, ~Collides(p, s, k),
           Updates(p, s, k, next)
    PROVE  WatchlistInv' /\ s \in Symbol
<1> DEFINE i1 == IF tx[p].i = Len(tx[p].order) THEN 1 ELSE tx[p].i + 1
           c == IF tx[p].i = Len(tx[p].order) THEN next ELSE tx[p].pc
           w == [tx[p].write EXCEPT ![s] = k]
           t == [tx[p] EXCEPT !.write = w, !.i = i1, !.pc = c]
<1>0. Shape(p, tx[p]) /\ tx[p] \in Tx
  BY DEF WatchlistInv, Shapes, Shape, PC
<1>1. key' = key /\ byId' = byId /\ userLock' = userLock /\ Listed' = Listed
  BY DEF Listed, Updates
<1>2. Others(p) /\ tx'[p] = t
  <2>1. tx' = [tx EXCEPT ![p] = t]
    BY <1>0 DEF WatchlistInv, Shapes, Tx, Updates
  <2> HIDE DEF t
  <2> QED BY <2>1, OthersAre
<1>3. /\ tx[p].op = "reorder" /\ p \in Request /\ tx[p].pc \in {"shift", "place"}
      /\ ReorderShape(tx[p]) /\ tx[p].i \in 1 .. Len(tx[p].order)
  BY <1>0 DEF Shape, AddShape, DefaultsShape, ReorderShape
<1>4. /\ s \in Symbol /\ k \in Int /\ Len(tx[p].order) \in Nat
      /\ i1 \in Nat /\ c \in {"shift", "place", "commit"} /\ w \in [Symbol -> Int \cup {Null}]
  BY <1>0, <1>3, TxFields, SeqFacts
<1> HIDE DEF i1, c, w
<1>5. /\ t \in Tx /\ t.pc = c /\ t.op = tx[p].op /\ t.i = i1
      /\ t.write = w /\ t.todo = tx[p].todo /\ t.order = tx[p].order
  <2>1. c \in PC
    BY <1>4 DEF PC
  <2> QED BY <1>0, <1>4, <2>1 DEF Tx
<1>21. t.blind = tx[p].blind
  BY <1>0 DEF Tx
<1> HIDE DEF t
<1>6. Shapes'
  <2>1. IsInjective(tx[p].order)
    BY <1>0 DEF Shape
  <2>2. /\ t.i = IF tx[p].i = Len(tx[p].order) THEN 1 ELSE tx[p].i + 1
        /\ t.pc = IF tx[p].i = Len(tx[p].order) THEN next ELSE tx[p].pc
        /\ t.write = [tx[p].write EXCEPT ![tx[p].order[tx[p].i]] = k]
        /\ t.order = tx[p].order /\ t \in Tx
    BY <1>5 DEF i1, c, w
  <2>4. ReorderShape(t)
    <3>1. Advanced(tx[p], t, k, next)
      BY <2>2 DEF Advanced
    <3> QED BY <1>0, <1>3, <2>1, <2>2, <3>1, MovedOn
  <2>3. Shape(p, t)
    BY <1>0, <1>3, <1>5, <2>4 DEF Shape
  <2> QED BY <1>2, <2>3 DEF WatchlistInv, Shapes, Others
<1>7. Keys'
  BY <1>1 DEF WatchlistInv, Keys
<1>8. Views'
  <2>1. tx[p].write \in [Symbol -> Int \cup {Null}]
    BY <1>0, TxFields
  <2>2. tx'[p].write = [tx[p].write EXCEPT ![s] = k]
    BY <1>2, <1>5 DEF w
  <2>3. \A q \in Proc : q # p => tx'[q].write = tx[q].write
    BY <1>2 DEF Others
  <2> QED BY <1>1, <1>4, <2>1, <2>2, <2>3, Wrote DEF WatchlistInv
<1>9. /\ rowLock'[s] = p /\ rowLock' \in [Symbol -> Proc \cup {Null}]
      /\ \A u \in Symbol : u # s => rowLock'[u] = rowLock[u]
  BY <1>4 DEF WatchlistInv, Locks, Updates
<1>10. Writers'
  <2>1. \A u \in Symbol : u # s => tx'[p].write[u] = tx[p].write[u]
    BY <1>0, <1>2, <1>4, <1>5, TxFields DEF w
  <2>2. ASSUME NEW q \in Proc, q # p PROVE tx[q].write[s] = Null
    BY <1>4, <2>2, NullIs DEF WatchlistInv, Writers
  <2>3. ASSUME NEW q \in Proc, NEW u \in Symbol, tx'[q].write[u] # Null
        PROVE  IF tx'[q].op = "reorder" THEN rowLock'[u] = q ELSE key[u] = Null
    <3>1. CASE q = p
      BY <1>2, <1>3, <1>5, <1>9, <2>1, <2>3, <3>1 DEF WatchlistInv, Writers
    <3>2. CASE q # p
      BY <1>2, <1>9, <2>2, <2>3, <3>2 DEF WatchlistInv, Writers, Others
    <3> QED BY <3>1, <3>2
  <2>4. ASSUME NEW q \in Proc, NEW r \in Proc, NEW u \in Symbol,
               tx'[q].write[u] # Null, tx'[r].write[u] # Null
        PROVE  q = r
    BY <1>2, <2>1, <2>2, <2>4 DEF WatchlistInv, Writers, Others
  <2> QED BY <1>1, <2>3, <2>4 DEF Writers
<1>11. Locks'
  <2>1. rowLock' \in [Symbol -> Proc \cup {Null}] /\ userLock' \in Proc \cup {Null}
    BY <1>1, <1>9 DEF WatchlistInv, Locks
  <2>2. \A u \in Symbol : rowLock'[u] # Null => key'[u] # Null
    BY <1>1, <1>9 DEF WatchlistInv, Locks
  <2>3. \A q \in Proc : userLock' = q <=>
                tx'[q].op = "add" /\ tx'[q].pc \in {"max", "draw", "insert", "commit"}
    BY <1>1, <1>2, <1>3, <1>5 DEF WatchlistInv, Locks, Others
  <2>4. ASSUME NEW u \in Symbol, rowLock'[u] # Null
        PROVE  /\ tx'[rowLock'[u]].op = "reorder"
               /\ tx'[rowLock'[u]].pc \in {"lock", "shift", "place", "commit"}
    <3>1. CASE rowLock'[u] = p
      BY <1>2, <1>3, <1>4, <1>5, <3>1
    <3>2. CASE rowLock'[u] # p
      <4>1. rowLock'[u] = rowLock[u] /\ rowLock[u] \in Proc /\ tx'[rowLock[u]] = tx[rowLock[u]]
        BY <1>2, <1>9, <2>1, <2>4, <3>2 DEF Others
      <4> QED BY <2>4, <4>1 DEF WatchlistInv, Locks
    <3> QED BY <3>1, <3>2
  <2> QED BY <2>1, <2>2, <2>3, <2>4 DEF Locks
<1>12. Ids'
  <2>1. \A q \in Proc : Drawn(q)' <=> Drawn(q)
    BY <1>2, <1>3, <1>4, <1>5 DEF Drawn, Others
  <2> QED BY <1>1, <1>2, <1>5, <2>1 DEF WatchlistInv, Ids, Others
<1>13. \A q \in Proc : q # p => Held(q)' = Held(q)
  BY <1>9, NullIs DEF Held
<1>14. Held(p)' = Held(p) \cup {s}
  BY <1>4, <1>9 DEF Held
<1>15. Moving(p) /\ Moving(p)' /\ ~Adding(p)'
  BY <1>2, <1>3, <1>4, <1>5 DEF Moving, Adding
<1>16. /\ Len(tx[p].order) <= Cardinality(Held(p)) /\ Cardinality(Held(p)) \in Nat
       /\ IsFiniteSet(Held(p))
  BY <1>15, HeldIs, FS_CardinalityType DEF WatchlistInv, Counted
<1>17. Held(p) # {}
  BY <1>3, <1>4, <1>16, FS_EmptySet
<1>18. FirstRow'
  <2>1. ASSUME ~tx[p].blind
        PROVE  \E u \in Held(p)' : \A v \in Symbol \cup {Hook} : ~Before(v, u)
    <3>1. PICK u \in Held(p) : \A v \in Symbol \cup {Hook} : ~Before(v, u)
      BY <1>17, <2>1 DEF WatchlistInv, FirstRow, First
    <3> QED BY <1>14, <3>1
  <2>2. tx'[p].blind = tx[p].blind /\ tx'[p].pc # "lock"
    BY <1>2, <1>4, <1>5, <1>21
  <2>3. First(p)'
    BY <1>1, <2>1, <2>2 DEF First, Before
  <2> QED BY <1>1, <1>2, <1>13, <2>3, SameIds, FirstRowKeeps
<1>19. Counted'
  <2>1. Cardinality(Held(p)') >= Cardinality(Held(p)) /\ Cardinality(Held(p)') \in Nat
    <3>1. IsFiniteSet(Held(p) \cup {s}) /\ Cardinality(Held(p) \cup {s}) \in
              {Cardinality(Held(p)), Cardinality(Held(p)) + 1}
      BY <1>16, FS_AddElement
    <3> QED BY <1>14, <1>16, <3>1
  <2>2. Len(tx'[p].order) <= Cardinality(Held(p)')
    BY <1>2, <1>4, <1>5, <1>16, <2>1
  <2> QED BY <1>2, <1>13, <2>2 DEF WatchlistInv, Counted, Moving, Others
<1>20. AddKeys'
  <2>1. tx'[p].order = tx[p].order
    BY <1>2, <1>5
  <2> QED BY <1>1, <1>2, <1>15, <2>1 DEF WatchlistInv, AddKeys, Adding, Moving, Others
<1> QED BY <1>4, <1>6, <1>7, <1>8, <1>10, <1>11, <1>12, <1>18, <1>19, <1>20 DEF WatchlistInv

\* A committed reorder.
LEMMA ReorderCommitKeeps ==
    ASSUME WatchlistInv, NEW p \in Proc, tx[p].op = "reorder", Commit(p)
    PROVE  WatchlistInv'
<1>0. /\ Shape(p, tx[p]) /\ tx[p] \in Tx /\ tx[p].pc = "commit" /\ ReorderShape(tx[p])
      /\ tx[p].order \in Seq(Symbol) /\ Len(tx[p].order) \in Nat
  BY TxFields, SeqFacts DEF Commit, WatchlistInv, Shapes, Shape
<1>1. PICK reply \in {"ok", "error"} : Ends(p, reply)
  BY DEF Commit, Ends
<1>2. key' = [s \in Symbol |-> Sees(p, s)] /\ reply \in Reply
  BY <1>1 DEF Commit, Reply
<1>13. byId' = RemoveFirst(byId, p)
  <2>1. byId' = byId /\ ~Drawn(p)
    BY <1>0 DEF Commit, Drawn
  <2>2. p \notin ToSet(byId)
    BY <2>1 DEF WatchlistInv, Ids
  <2> QED BY <2>1, <2>2, Removed DEF WatchlistInv, Ids
<1>3. Others(p) /\ tx'[p] = Idle(reply)
  BY <1>1, OthersAre DEF Ends
<1>4. tx'[p].pc = "idle" /\ tx'[p].op = "none" /\ tx'[p].write = NoWrite
  BY <1>2, <1>3, IdleIs
<1>5. ASSUME NEW s \in Symbol, tx[p].write[s] # Null
      PROVE  /\ tx[p].write[s] \in 0 .. (Len(tx[p].order) - 1)
             /\ key[s] # Null /\ Sees(p, s) = tx[p].write[s]
  <2>1. PICK j \in 1 .. Len(tx[p].order) : tx[p].write[s] = Moved(tx[p], j)
    BY <1>0, <1>5, WriteIs
  <2>2. Moved(tx[p], j) = j - 1
    BY <1>0 DEF Moved
  <2>3. rowLock[s] = p
    BY <1>5 DEF WatchlistInv, Writers
  <2>4. key[s] # Null
    BY <2>3, NullIs DEF WatchlistInv, Locks
  <2> QED BY <1>0, <1>5, <2>1, <2>2, <2>4 DEF Sees
<1>6. \A s \in Symbol : tx[p].write[s] = Null => Sees(p, s) = key[s]
  BY DEF Sees
<1>7. \A s \in Symbol : Sees(p, s) \in Nat \cup {Null}
  BY <1>0, <1>5, <1>6 DEF WatchlistInv, Keys
<1>8. Keys' /\ Views'
  <2>1. \A q \in Proc : q # p => tx'[q].write = tx[q].write
    BY <1>3 DEF Others
  <2> QED BY <1>2, <1>4, <1>7, <2>1, Published DEF WatchlistInv
<1>9. \A s \in Symbol : key'[s] = Null <=> key[s] = Null
  BY <1>2, <1>5, <1>6, NullIs
<1>10. Listed' = Listed
  BY <1>9 DEF Listed
<1>11. \A q \in Proc : \A s \in Symbol :
              q # p /\ tx[q].write[s] # Null /\ tx[q].op # "reorder" => key'[s] = Null
  BY <1>9 DEF WatchlistInv, Writers
<1>12. AddKeys'
  <2>1. ASSUME NEW q \in Proc, Adding(q)'
        PROVE  /\ \A s \in Symbol : key'[s] # Null => key'[s] < tx'[q].k
               /\ \A r \in Proc : Moving(r)' => Len(tx'[r].order) <= tx'[q].k
    <3>1. q # p /\ tx'[q] = tx[q] /\ Adding(q)
      BY <1>3, <1>4, <2>1 DEF Others, Adding
    <3>2. /\ \A s \in Symbol : key[s] # Null => key[s] < tx[q].k
          /\ \A r \in Proc : Moving(r) => Len(tx[r].order) <= tx[q].k
      BY <3>1 DEF WatchlistInv, AddKeys
    <3>3. Len(tx[p].order) <= tx[q].k /\ tx[q].k \in Nat
      <4>1. Moving(p)
        BY <1>0 DEF Moving
      <4>2. tx[q].k \in Nat
        BY <3>1 DEF WatchlistInv, Shapes, Shape, AddShape, Adding
      <4> QED BY <3>2, <4>1, <4>2
    <3>4. ASSUME NEW s \in Symbol, key'[s] # Null PROVE key'[s] < tx[q].k
      <4>1. CASE tx[p].write[s] = Null
        BY <1>2, <1>6, <3>2, <3>4, <4>1
      <4>2. CASE tx[p].write[s] # Null
        BY <1>0, <1>2, <1>5, <3>3, <4>2
      <4> QED BY <4>1, <4>2
    <3>5. ASSUME NEW r \in Proc, Moving(r)' PROVE Len(tx'[r].order) <= tx[q].k
      <4>1. r # p /\ tx'[r] = tx[r] /\ Moving(r)
        BY <1>3, <1>4, <3>5 DEF Others, Moving
      <4> QED BY <3>2, <4>1
    <3> QED BY <3>1, <3>4, <3>5
  <2> QED BY <2>1 DEF AddKeys
<1> QED BY <1>1, <1>2, <1>8, <1>9, <1>10, <1>11, <1>12, <1>13, EndKeeps

\* A committed INSERT: the row of s appears, where its id was drawn.
Inserted(p, s) ==
    /\ key' = [key EXCEPT ![s] = tx[p].write[s]] /\ byId' = Placed(p, s)
    /\ userLock' = (IF userLock = p THEN Null ELSE userLock) /\ rowLock' = rowLock

LEMMA InsertCommitKeeps ==
    ASSUME WatchlistInv, NEW p \in Proc, NEW s \in Symbol, tx[p].op # "reorder",
           tx[p].write[s] \in Nat, \A u \in Symbol : u # s => tx[p].write[u] = Null,
           \A q \in Proc : Adding(q) => q = p,
           Inserted(p, s), Others(p), Shape(p, tx'[p]), tx'[p].write = NoWrite,
           tx'[p].op \in {"none", "defaults"}, ToSet(tx'[p].todo) \subseteq Listed,
           Drawn(p), ~Drawn(p)', p = Hook => userLock = Null
    PROVE  WatchlistInv' /\ key[s] = Null
<1>0. tx[p].write[s] # Null /\ key[s] = Null
  BY NullIs DEF WatchlistInv, Writers
<1>1. /\ byId' = Placed(p, s) /\ rowLock' = rowLock
      /\ userLock' = IF userLock = p THEN Null ELSE userLock
  BY DEF Inserted
<1>2. key'[s] = tx[p].write[s] /\ \A u \in Symbol : u # s => key'[u] = key[u]
  BY DEF Inserted, WatchlistInv, Keys
<1>3. /\ InPlace /\ byId' \in Seq(Symbol \cup Proc) /\ IsInjective(byId')
      /\ ToSet(byId') = (ToSet(byId) \ {p}) \cup {s}
  BY <1>0, <1>1, PlacedId
<1>4. Listed' = Listed \cup {s}
  BY <1>0, <1>2 DEF Listed
<1>5. Shapes'
  BY DEF WatchlistInv, Shapes, Others
<1>6. Keys' /\ Views'
  <2>1. \A u \in Symbol : Sees(p, u) = key'[u]
    BY <1>0, <1>2 DEF Sees
  <2>2. key' = [u \in Symbol |-> Sees(p, u)]
    <3>1. key' = [u \in Symbol |-> key'[u]]
      BY DEF Inserted, WatchlistInv, Keys
    <3> QED BY <2>1, <3>1
  <2>3. \A u \in Symbol : Sees(p, u) \in Nat \cup {Null}
    BY <1>2, <2>1 DEF WatchlistInv, Keys
  <2>4. \A q \in Proc : q # p => tx'[q].write = tx[q].write
    BY DEF Others
  <2> QED BY <2>2, <2>3, <2>4, Published DEF WatchlistInv
<1>7. Writers'
  <2>1. \A q \in Proc : \A u \in Symbol : tx'[q].write[u] # Null =>
            q # p /\ tx'[q] = tx[q] /\ u # s
    BY <1>0, NoWriteIs DEF Others, WatchlistInv, Writers
  <2> QED BY <1>1, <1>2, <2>1 DEF WatchlistInv, Writers
<1>8. \A q \in Proc : Held(q)' = Held(q)
  BY <1>1 DEF Held
<1>9. Held(p) = {}
  BY HeldIs
<1>10. Locks'
  <2>1. rowLock' \in [Symbol -> Proc \cup {Null}] /\ userLock' \in Proc \cup {Null}
    BY <1>1 DEF WatchlistInv, Locks
  <2>2. \A u \in Symbol : rowLock'[u] # Null => key'[u] # Null
    BY <1>0, <1>1, <1>2 DEF WatchlistInv, Locks
  <2>3. ASSUME NEW q \in Proc
        PROVE  userLock' = q <=>
                tx'[q].op = "add" /\ tx'[q].pc \in {"max", "draw", "insert", "commit"}
    BY <1>1, NullIs DEF WatchlistInv, Locks, Others
  <2>4. ASSUME NEW u \in Symbol, rowLock[u] # Null
        PROVE  rowLock[u] \in Proc /\ tx'[rowLock[u]] = tx[rowLock[u]]
    BY <1>9, <2>4 DEF WatchlistInv, Locks, Others, Held
  <2>5. \A u \in Symbol : rowLock'[u] # Null =>
          tx'[rowLock'[u]].op = "reorder"
          /\ tx'[rowLock'[u]].pc \in {"lock", "shift", "place", "commit"}
    BY <1>1, <2>4 DEF WatchlistInv, Locks
  <2> QED BY <2>1, <2>2, <2>3, <2>5 DEF Locks
<1>11. Ids'
  <2>1. \A u \in Symbol : u \in ToSet(byId') <=> key'[u] # Null
    BY <1>0, <1>2, <1>3, NullIs DEF WatchlistInv, Ids
  <2>2. \A q \in Proc : q \in ToSet(byId') <=> Drawn(q)'
    <3>1. \A q \in Proc : q # p => (Drawn(q)' <=> Drawn(q))
      BY DEF Drawn, Others
    <3> QED BY <1>3, <3>1, NullIs DEF WatchlistInv, Ids
  <2>3. \A q \in Proc : ToSet(tx'[q].todo) \subseteq Listed'
    BY <1>4 DEF WatchlistInv, Ids, Others
  <2> QED BY <1>3, <2>1, <2>2, <2>3 DEF Ids
<1>12. FirstRow'
  <2>1. tx'[p].pc # "lock" /\ Held(p)' = {}
    BY <1>8, <1>9 DEF Shape, AddShape, DefaultsShape
  <2>2. First(p)'
    BY <2>1 DEF First
  <2> QED BY <1>3, <1>8, <2>2, FirstRowKeeps
<1>13. ~Moving(p)' /\ ~Adding(p)'
  BY DEF Moving, Adding
<1>14. Counted'
  BY <1>8, <1>13 DEF WatchlistInv, Counted, Moving, Others
<1>15. AddKeys'
  <2>1. \A q \in Proc : ~Adding(q)'
    BY <1>13 DEF Adding, Others
  <2> QED BY <2>1 DEF AddKeys
<1> QED BY <1>0, <1>5, <1>6, <1>7, <1>10, <1>11, <1>12, <1>14, <1>15 DEF WatchlistInv

LEMMA AddCommitKeeps ==
    ASSUME WatchlistInv, NEW p \in Proc, tx[p].op = "add", Commit(p)
    PROVE  WatchlistInv' /\ tx[p].sym \in Symbol /\ key[tx[p].sym] = Null
           /\ key' = [key EXCEPT ![tx[p].sym] = tx[p].k]
<1> DEFINE s == tx[p].sym
<1>0. /\ Shape(p, tx[p]) /\ tx[p].pc = "commit" /\ s \in Symbol /\ tx[p].k \in Nat
      /\ tx[p].write = [NoWrite EXCEPT ![s] = tx[p].k]
  BY DEF Commit, WatchlistInv, Shapes, Shape, AddShape
<1>1. PICK reply \in {"ok", "error"} : tx' = [tx EXCEPT ![p] = Idle(reply)] /\ Release(p)
  BY DEF Commit
<1>2. key' = [u \in Symbol |-> Sees(p, u)] /\ byId' = Placed(p, s) /\ reply \in Reply
  BY <1>1 DEF Commit, Reply
<1>3. Others(p) /\ tx'[p] = Idle(reply)
  BY <1>1, OthersAre
<1>4. /\ tx'[p].pc = "idle" /\ tx'[p].op = "none" /\ tx'[p].write = NoWrite
      /\ tx'[p].todo = <<>> /\ Shape(p, tx'[p])
  BY <1>2, <1>3, IdleIs
<1>5. tx[p].write[s] = tx[p].k /\ \A u \in Symbol : u # s => tx[p].write[u] = Null
  BY <1>0, NoWriteIs
<1>6. key' = [key EXCEPT ![s] = tx[p].k]
  <2>1. \A u \in Symbol : Sees(p, u) = IF u = s THEN tx[p].k ELSE key[u]
    BY <1>0, <1>5, NullIs DEF Sees
  <2>2. key \in [Symbol -> Nat \cup {Null}]
    BY DEF WatchlistInv, Keys
  <2> HIDE DEF s
  <2> QED BY <1>2, <2>1, <2>2
<1>7. Held(p) = {}
  BY HeldIs
<1>8. /\ rowLock' = rowLock
      /\ userLock' = IF userLock = p THEN Null ELSE userLock
  <2>1. \A u \in Symbol : rowLock[u] # p
    BY <1>7 DEF Held
  <2>2. rowLock = [u \in Symbol |-> rowLock[u]]
    BY DEF WatchlistInv, Locks
  <2> QED BY <1>1, <2>1, <2>2 DEF Release
<1>9. Inserted(p, s)
  BY <1>2, <1>5, <1>6, <1>8 DEF Inserted
<1>10. ASSUME NEW q \in Proc, Adding(q) PROVE q = p
  <2>1. userLock = q /\ userLock = p
    BY <1>0, <1>10 DEF WatchlistInv, Locks, Adding
  <2> QED BY <2>1
<1>11. ToSet(tx'[p].todo) \subseteq Listed
  BY <1>4 DEF ToSet
<1>12. tx[p].op # "reorder" /\ tx[p].write[s] \in Nat /\ tx'[p].op \in {"none", "defaults"}
  BY <1>0, <1>4, <1>5
<1>14. Drawn(p) /\ ~Drawn(p)' /\ p # Hook
  BY <1>0, <1>4, NullIs DEF Drawn, Shape
<1> HIDE DEF s
<1>13. WatchlistInv' /\ key[s] = Null
  BY <1>0, <1>3, <1>4, <1>5, <1>9, <1>10, <1>11, <1>12, <1>14, InsertCommitKeeps
<1> QED BY <1>0, <1>6, <1>13 DEF s

LEMMA CheckUserOfDefaultKeeps ==
    ASSUME WatchlistInv, NEW p \in Proc, CheckUserOfDefault(p)
    PROVE  WatchlistInv' /\ p = Hook /\ tx[p].op = "defaults" /\ tx[p].i \in 1 .. Len(Defaults)
           /\ Defaults[tx[p].i] \in Symbol /\ key[Defaults[tx[p].i]] = Null
<1> DEFINE s == Defaults[tx[p].i]
           t == [tx[p] EXCEPT !.pc = "draw", !.i = tx[p].i + 1, !.write = NoWrite]
<1>0. /\ Shape(p, tx[p]) /\ tx[p] \in Tx /\ tx[p].pc = "fk" /\ p = Hook
      /\ tx[p].op = "defaults" /\ tx[p].i \in 1 .. Len(Defaults)
      /\ tx[p].write = [NoWrite EXCEPT ![s] = tx[p].i - 1] /\ s \in Symbol
  BY DEF CheckUserOfDefault, WatchlistInv, Shapes, Shape, AddShape, DefaultsShape, ReorderShape
<1>1. s \in Symbol /\ Len(Defaults) \in Nat /\ tx[p].i \in Nat
  BY <1>0, WatchlistConstants, SeqFacts, TxFields
<1>2. /\ key' = [key EXCEPT ![s] = tx[p].i - 1] /\ byId' = Placed(p, s)
      /\ rowLock' = rowLock /\ userLock' = userLock /\ userLock = Null
      /\ tx' = [tx EXCEPT ![p].pc = "draw", ![p].i = @ + 1, ![p].write = NoWrite]
  BY DEF CheckUserOfDefault
<1>3. Others(p) /\ tx'[p] = t
  <2>1. tx' = [tx EXCEPT ![p] = t]
    BY <1>0, <1>2 DEF WatchlistInv, Shapes, Tx
  <2> HIDE DEF t
  <2> QED BY <2>1, OthersAre
<1>4. /\ t \in Tx /\ t.pc = "draw" /\ t.op = tx[p].op /\ t.i = tx[p].i + 1
      /\ t.write = NoWrite /\ t.todo = tx[p].todo /\ t.order = tx[p].order
  <2>1. tx[p] \in Tx /\ tx[p].i + 1 \in Nat /\ "draw" \in PC
    BY <1>0, <1>1 DEF PC
  <2> QED BY <2>1, NoWriteIs DEF Tx
<1> HIDE DEF t, s
<1>5. Shape(p, t)
  <2>1. t.i \in 1 .. (Len(Defaults) + 1)
    BY <1>0, <1>1, <1>4
  <2>2. DefaultsShape(t)
    BY <1>4, <2>1 DEF DefaultsShape
  <2> QED BY <1>0, <1>4, <2>2 DEF Shape
<1>6. /\ tx[p].write[s] = tx[p].i - 1 /\ tx[p].write[s] \in Nat
      /\ \A u \in Symbol : u # s => tx[p].write[u] = Null
  BY <1>0, <1>1, NoWriteIs
<1>7. Inserted(p, s)
  BY <1>2, <1>6, NullIs DEF Inserted
<1>8. ASSUME NEW q \in Proc, Adding(q) PROVE q = p
  BY <1>2, <1>8, NullIs DEF WatchlistInv, Locks, Adding
<1>9. ToSet(tx'[p].todo) \subseteq Listed
  BY <1>3, <1>4 DEF WatchlistInv, Ids
<1>10. /\ tx'[p].op \in {"none", "defaults"} /\ tx[p].op # "reorder"
       /\ tx'[p].write = NoWrite /\ Shape(p, tx'[p])
  BY <1>0, <1>3, <1>4, <1>5
<1>11. Drawn(p) /\ ~Drawn(p)' /\ userLock = Null
  BY <1>0, <1>2, <1>3, <1>4 DEF Drawn
<1>12. WatchlistInv' /\ key[s] = Null
  BY <1>1, <1>3, <1>6, <1>7, <1>8, <1>9, <1>10, <1>11, InsertCommitKeeps
<1> QED BY <1>0, <1>12 DEF s

LEMMA RemoveSymbolKeeps ==
    ASSUME WatchlistInv, NEW s \in Symbol, RemoveSymbol(s)
    PROVE  WatchlistInv'
<1>0. /\ key[s] # Null /\ rowLock[s] = Null /\ rowLock' = rowLock /\ userLock' = userLock
      /\ key' = [key EXCEPT ![s] = Null] /\ byId' = RemoveFirst(byId, s)
      /\ tx' = [p \in Proc |-> [tx[p] EXCEPT !.todo = RemoveFirst(@, s)]]
  BY DEF RemoveSymbol
<1>1. key'[s] = Null /\ \A u \in Symbol : u # s => key'[u] = key[u]
  BY <1>0 DEF WatchlistInv, Keys
<1>2. Listed' = Listed \ {s} /\ s \in Listed
  BY <1>0, <1>1 DEF Listed
<1>3. /\ InPlace /\ byId' \in Seq(Symbol \cup Proc) /\ IsInjective(byId')
      /\ ToSet(byId') = ToSet(byId) \ {s}
  BY <1>0, FewerIds
<1>4. ASSUME NEW p \in Proc
      PROVE  /\ tx'[p].pc = tx[p].pc /\ tx'[p].op = tx[p].op /\ tx'[p].order = tx[p].order
             /\ tx'[p].write = tx[p].write /\ tx'[p].k = tx[p].k /\ tx'[p].i = tx[p].i
             /\ tx'[p].sym = tx[p].sym /\ tx'[p] \in Tx
             /\ tx'[p].blind = tx[p].blind
             /\ tx[p].todo \in Seq(Symbol) /\ IsInjective(tx[p].todo)
             /\ tx'[p].todo = RemoveFirst(tx[p].todo, s)
             /\ IsInjective(tx'[p].todo) /\ ToSet(tx'[p].todo) = ToSet(tx[p].todo) \ {s}
  <2>1. tx[p] \in Tx /\ tx[p].todo \in Seq(Symbol) /\ IsInjective(tx[p].todo)
    BY TxFields DEF WatchlistInv, Shapes, Shape
  <2> DEFINE l == RemoveFirst(tx[p].todo, s)
  <2>2. l \in Seq(Symbol) /\ IsInjective(l) /\ ToSet(l) = ToSet(tx[p].todo) \ {s}
    BY <2>1, Removed
  <2>3. tx'[p] = [tx[p] EXCEPT !.todo = l]
    BY <1>0, <2>1 DEF Tx
  <2> HIDE DEF l
  <2>4. /\ tx'[p].pc = tx[p].pc /\ tx'[p].op = tx[p].op /\ tx'[p].order = tx[p].order
        /\ tx'[p].write = tx[p].write /\ tx'[p].k = tx[p].k /\ tx'[p].i = tx[p].i
        /\ tx'[p].sym = tx[p].sym /\ tx'[p] \in Tx /\ tx'[p].todo = l
        /\ tx'[p].blind = tx[p].blind
    BY <2>1, <2>2, <2>3 DEF Tx
  <2> QED BY <2>1, <2>2, <2>4 DEF l
<1>5. Shapes'
  <2>1. ASSUME NEW p \in Proc PROVE Shape(p, tx'[p])
    <3>1. Shape(p, tx[p])
      BY DEF WatchlistInv, Shapes
    <3>2. \A j : Moved(tx'[p], j) = Moved(tx[p], j)
      BY <1>4 DEF Moved
    <3>3. /\ AddShape(tx'[p]) <=> AddShape(tx[p])
          /\ DefaultsShape(tx'[p]) <=> DefaultsShape(tx[p])
          /\ ReorderShape(tx'[p]) <=> ReorderShape(tx[p])
      BY <1>4, <3>2 DEF AddShape, DefaultsShape, ReorderShape
    <3> QED BY <1>4, <3>1, <3>3 DEF Shape
  <2>2. DOMAIN tx' = Proc
    BY <1>0
  <2> QED BY <2>1, <2>2 DEF Shapes
<1>6. Keys' /\ Views'
  <2>1. key' \in [Symbol -> Nat \cup {Null}] /\ \A u \in Symbol : key'[u] = key[u] \/ key'[u] = Null
    BY <1>0, <1>1 DEF WatchlistInv, Keys
  <2>2. \A q \in Proc : tx'[q].write = tx[q].write \/ tx'[q].write = NoWrite
    BY <1>4
  <2> QED BY <2>1, <2>2, Undone DEF WatchlistInv
<1>7. Writers'
  BY <1>0, <1>1, <1>4 DEF WatchlistInv, Writers
<1>8. Locks'
  <2>1. rowLock' \in [Symbol -> Proc \cup {Null}] /\ userLock' \in Proc \cup {Null}
    BY <1>0 DEF WatchlistInv, Locks
  <2>2. \A u \in Symbol : rowLock'[u] # Null => key'[u] # Null
    BY <1>0, <1>1 DEF WatchlistInv, Locks
  <2>3. ASSUME NEW q \in Proc
        PROVE  userLock' = q <=>
                tx'[q].op = "add" /\ tx'[q].pc \in {"max", "draw", "insert", "commit"}
    BY <1>0, <1>4 DEF WatchlistInv, Locks
  <2>4. ASSUME NEW u \in Symbol, rowLock'[u] # Null
        PROVE  /\ tx'[rowLock'[u]].op = "reorder"
               /\ tx'[rowLock'[u]].pc \in {"lock", "shift", "place", "commit"}
    <3>1. rowLock[u] \in Proc /\ rowLock'[u] = rowLock[u] /\ rowLock[u] # Null
      BY <1>0, <2>4 DEF WatchlistInv, Locks
    <3> QED BY <1>4, <3>1 DEF WatchlistInv, Locks
  <2> QED BY <2>1, <2>2, <2>3, <2>4 DEF Locks
<1>9. Ids'
  <2>1. \A u \in Symbol : u \in ToSet(byId') <=> key'[u] # Null
    BY <1>1, <1>3 DEF WatchlistInv, Ids
  <2>2. \A q \in Proc : q \in ToSet(byId') <=> Drawn(q)'
    BY <1>3, <1>4, NullIs DEF WatchlistInv, Ids, Drawn
  <2>3. \A q \in Proc : ToSet(tx'[q].todo) \subseteq Listed'
    BY <1>2, <1>4 DEF WatchlistInv, Ids
  <2> QED BY <1>3, <2>1, <2>2, <2>3 DEF Ids
<1>10. \A q \in Proc : Held(q)' = Held(q) /\ Moving(q)' = Moving(q) /\ Adding(q)' = Adding(q)
  BY <1>0, <1>4 DEF Held, Moving, Adding
<1>13. FirstRow'
  <2>1. ASSUME NEW q \in Proc PROVE First(q)'
    <3> DEFINE l == tx[q].todo
               m == tx'[q].todo
    <3>1. /\ tx'[q].pc = tx[q].pc /\ tx'[q].blind = tx[q].blind /\ Held(q)' = Held(q)
          /\ l \in Seq(Symbol) /\ IsInjective(l) /\ m = RemoveFirst(l, s)
          /\ m \in Seq(Symbol) /\ ToSet(m) = ToSet(l) \ {s}
          /\ \A u, v : Comes(m, u, v) => Comes(l, u, v)
      BY <1>4, <1>10, Removed
    <3> HIDE DEF l, m
    <3>2. ASSUME ~tx[q].blind, Held(q) # {}
          PROVE  \E v \in Held(q) : \A u \in Symbol \cup {Hook} : ~Comes(byId', u, v)
      <4>1. PICK v \in Held(q) : \A u \in Symbol \cup {Hook} : ~Before(u, v)
        BY <3>2 DEF WatchlistInv, FirstRow, First
      <4>2. v \in Listed
        BY HeldIs
      <4> QED BY <1>3, <4>1, <4>2 DEF InPlace
    <3>3. ASSUME ~tx[q].blind, Held(q) = {}, tx[q].pc = "lock", NEW j \in 1 .. Len(m),
                 NEW u \in Symbol \cup {Hook}, Comes(byId', u, m[j])
          PROVE  \E n \in 1 .. Len(m) : n < j /\ m[n] = u
      <4>1. m[j] \in ToSet(m) /\ IsInjective(m)
        BY <1>4, <3>1, SeqFacts DEF m
      <4>2. PICK a \in 1 .. Len(l) : l[a] = m[j]
        BY <3>1, <4>1, SeqFacts
      <4>3. l[a] \in Listed
        <5>1. l[a] \in ToSet(l)
          BY <3>1, SeqFacts
        <5> QED BY <5>1 DEF WatchlistInv, Ids, l
      <4>4. Before(u, l[a]) \/ Before(Hook, l[a])
        BY <1>3, <3>3, <4>2, <4>3 DEF InPlace
      <4>5. \A v \in Symbol \cup {Hook} :
               Before(v, l[a]) => \E n \in 1 .. Len(l) : n < a /\ l[n] = v
        BY <3>3 DEF WatchlistInv, FirstRow, First, l
      <4>6. PICK b \in 1 .. Len(l) : b < a /\ l[b] = u
        <5>1. \A n \in 1 .. Len(l) : l[n] # Hook
          BY <3>1, SeqFacts, NullIs
        <5> QED BY <4>4, <4>5, <5>1
      <4>7. u # s
        <5>1. u \in ToSet(byId')
          BY <1>3, <3>3, ComesIs
        <5> QED BY <1>3, <5>1
      <4>8. u \in ToSet(m)
        <5>1. u \in ToSet(l)
          BY <3>1, <4>6, SeqFacts
        <5> QED BY <3>1, <4>7, <5>1
      <4>9. Comes(l, u, m[j])
        BY <4>2, <4>6 DEF Comes
      <4>10. ~Comes(m, m[j], u) /\ u # m[j]
        BY <3>1, <4>9, ComesIs
      <4>11. PICK n \in 1 .. Len(m) : m[n] = u
        BY <3>1, <4>8, SeqFacts
      <4>12. Len(m) \in Nat
        BY <3>1, SeqFacts
      <4>13. ~(j < n) /\ n # j
        BY <4>10, <4>11 DEF Comes
      <4> QED BY <4>11, <4>12, <4>13
    <3> QED BY <3>1, <3>2, <3>3 DEF First, Before, m
  <2>2. \A r \in Request : \A u \in Symbol \cup Proc : Comes(byId', r, u) => u = Hook
    BY <1>3 DEF InPlace
  <2> QED BY <2>1, <2>2 DEF FirstRow, Before
<1>14. Counted'
  BY <1>4, <1>10 DEF WatchlistInv, Counted
<1>15. AddKeys'
  <2>1. \A u \in Symbol : key'[u] # Null => key[u] = key'[u]
    BY <1>1
  <2> QED BY <1>4, <1>10, <2>1 DEF WatchlistInv, AddKeys
<1> QED BY <1>5, <1>6, <1>7, <1>8, <1>9, <1>13, <1>14, <1>15 DEF WatchlistInv

LEMMA InitKeeps == Init => WatchlistInv
<1> SUFFICES ASSUME Init PROVE WatchlistInv
  OBVIOUS
<1>1. /\ \A s \in Symbol : key[s] = Null /\ rowLock[s] = Null
      /\ byId = <<>> /\ userLock = Null /\ DOMAIN tx = Proc
      /\ \A p \in Request : tx[p] = Idle("none")
      /\ tx[Hook] = [Idle("none") EXCEPT !.pc = "draw", !.op = "defaults"]
  BY NullIs DEF Init
<1>2. "none" \in Reply
  BY DEF Reply
<1>3. \A p \in Request : /\ Shape(p, tx[p]) /\ tx[p].pc = "idle" /\ tx[p].op = "none"
                         /\ tx[p].write = NoWrite /\ tx[p].todo = <<>>
  <2> DEFINE old == Idle("none")
  <2>1. /\ \A p : Shape(p, old)
        /\ old.pc = "idle" /\ old.op = "none" /\ old.write = NoWrite /\ old.todo = <<>>
    BY <1>2, IdleIs
  <2>2. \A p \in Request : tx[p] = old
    BY <1>1
  <2> HIDE DEF old
  <2> QED BY <2>1, <2>2
<1> DEFINE t == [Idle("none") EXCEPT !.pc = "draw", !.op = "defaults"]
<1>4. /\ t \in Tx /\ t.pc = "draw" /\ t.op = "defaults" /\ t.i = 1 /\ t.order = <<>>
      /\ t.write = NoWrite /\ t.todo = <<>>
  <2> DEFINE old == Idle("none")
  <2>1. /\ old \in Tx /\ old.i = 1 /\ old.order = <<>> /\ old.write = NoWrite
        /\ old.todo = <<>>
    BY <1>2, IdleIs
  <2>2. "draw" \in PC
    BY DEF PC
  <2>3. t = [old EXCEPT !.pc = "draw", !.op = "defaults"]
    OBVIOUS
  <2> HIDE DEF old, t
  <2>4. t \in Tx
    BY <2>1, <2>2, <2>3 DEF Tx
  <2>5. t.pc = "draw" /\ t.op = "defaults"
    BY <2>1, <2>3 DEF Tx
  <2>6. t.i = old.i /\ t.order = old.order /\ t.write = old.write /\ t.todo = old.todo
    BY <2>1, <2>3 DEF Tx
  <2> QED BY <2>1, <2>4, <2>5, <2>6
<1> HIDE DEF t
<1>5. Shape(Hook, t)
  <2>1. Len(Defaults) \in Nat
    BY WatchlistConstants, SeqFacts
  <2>2. DefaultsShape(t)
    BY <1>4, <2>1 DEF DefaultsShape
  <2> QED BY <1>4, <2>2 DEF Shape, IsInjective
<1>6. \A p \in Proc : /\ Shape(p, tx[p]) /\ tx[p].pc \in {"idle", "draw"}
                      /\ tx[p].op \in {"none", "defaults"}
                      /\ tx[p].write = NoWrite /\ tx[p].todo = <<>>
  BY <1>1, <1>3, <1>4, <1>5 DEF t, Proc
<1>7. Listed = {} /\ ToSet(<<>>) = {}
  BY <1>1 DEF Listed, ToSet
<1>8. Shapes
  BY <1>1, <1>6 DEF Shapes
<1>9. Keys
  BY <1>1 DEF Init, Keys
<1>10. Views
  BY <1>1, <1>6, NoWriteIs DEF Views, Sees
<1>11. Writers
  BY <1>6, NoWriteIs DEF Writers
<1>12. Locks
  BY <1>1, <1>6, NullIs DEF Init, Locks
<1>13. Ids
  <2>1. byId \in Seq(Symbol \cup Proc) /\ IsInjective(byId) /\ ToSet(byId) = {}
    BY <1>1, <1>7 DEF IsInjective
  <2>2. \A p \in Proc : ~Drawn(p) /\ ToSet(tx[p].todo) = {}
    BY <1>6, <1>7 DEF Drawn
  <2> QED BY <1>1, <2>1, <2>2 DEF Ids
<1>14. FirstRow
  <2>1. \A u, v : ~Before(u, v)
    BY <1>1 DEF Before, Comes
  <2>2. \A p \in Proc : Held(p) = {} /\ tx[p].pc # "lock"
    BY <1>1, <1>6, NullIs DEF Held
  <2> QED BY <2>1, <2>2 DEF FirstRow, First
<1>15. Counted /\ AddKeys
  BY <1>6 DEF Counted, Moving, AddKeys, Adding
<1> QED BY <1>8, <1>9, <1>10, <1>11, <1>12, <1>13, <1>14, <1>15 DEF WatchlistInv

LEMMA InsertRowKeeps ==
    ASSUME WatchlistInv, NEW p \in Proc, InsertWatchlist(p) \/ InsertDefault(p)
    PROVE  WatchlistInv'
<1>0. Shape(p, tx[p]) /\ tx[p].pc = "insert"
  BY DEF InsertWatchlist, InsertDefault, WatchlistInv, Shapes
<1>1. "already" \in Reply /\ "error" \in Reply
  BY DEF Reply
<1>2. CASE InsertWatchlist(p)
  <2> DEFINE s == tx[p].sym
             k == tx[p].k
  <2>1. tx[p].op = "add" /\ InsertRow(p, s, k, "commit")
    BY <1>2 DEF InsertWatchlist
  <2>2. s \in Symbol /\ k \in Nat
    BY <1>0, <2>1 DEF Shape, AddShape
  <2>3. \/ Rollback(p, "already") \/ Rollback(p, "error")
        \/ /\ Inserting(p, s) = {} /\ key[s] = Null /\ Undecided(p, s, k) = {}
           /\ ~Collides(p, s, k) /\ Inserts(p, s, k, "commit")
    BY <2>1 DEF InsertRow, Inserts
  <2> QED BY <1>0, <1>1, <2>1, <2>2, <2>3, RollbackKeeps, InsertKeeps
<1>3. CASE InsertDefault(p)
  <2> DEFINE s == Defaults[tx[p].i]
             k == tx[p].i - 1
  <2>1. tx[p].op = "defaults" /\ InsertRow(p, s, k, "fk")
    BY <1>3 DEF InsertDefault
  <2>2. s \in Symbol /\ k \in Nat
    <3>1. tx[p].i \in 1 .. Len(Defaults) /\ Defaults[tx[p].i] \in Symbol
      BY <1>0, <2>1 DEF Shape, DefaultsShape
    <3>2. Len(Defaults) \in Nat
      BY WatchlistConstants, SeqFacts
    <3> QED BY <3>1, <3>2
  <2>3. \/ Rollback(p, "already") \/ Rollback(p, "error")
        \/ /\ Inserting(p, s) = {} /\ key[s] = Null /\ Undecided(p, s, k) = {}
           /\ ~Collides(p, s, k) /\ Inserts(p, s, k, "fk")
    BY <2>1 DEF InsertRow, Inserts
  <2> QED BY <1>0, <1>1, <2>1, <2>2, <2>3, RollbackKeeps, InsertKeeps
<1> QED BY <1>2, <1>3

LEMMA UpdateEntryKeeps ==
    ASSUME WatchlistInv, NEW p \in Proc, ShiftEntry(p) \/ PlaceEntry(p)
    PROVE  WatchlistInv'
<1>1. "mismatch" \in Reply /\ "error" \in Reply
  BY DEF Reply
<1>2. PICK k, next :
        /\ \/ tx[p].pc = "shift" /\ k = -tx[p].i /\ next = "place"
           \/ tx[p].pc = "place" /\ k = tx[p].i - 1 /\ next = "commit"
        /\ UpdateEntry(p, k, next)
  BY DEF ShiftEntry, PlaceEntry
<1> DEFINE s == tx[p].order[tx[p].i]
<1>3. \/ Rollback(p, "mismatch") \/ Rollback(p, "error")
      \/ /\ key[s] # Null /\ rowLock[s] \in {Null, p} /\ Undecided(p, s, k) = {}
         /\ ~Collides(p, s, k) /\ Updates(p, s, k, next)
  BY <1>2 DEF UpdateEntry, Updates
<1> QED BY <1>1, <1>2, <1>3, RollbackKeeps, UpdateKeeps

LEMMA CommitKeeps ==
    ASSUME WatchlistInv, NEW p \in Proc, Commit(p)
    PROVE  WatchlistInv'
<1>1. tx[p].op \in {"add", "reorder"}
  BY DEF Commit, WatchlistInv, Shapes, Shape, DefaultsShape
<1> QED BY <1>1, AddCommitKeeps, ReorderCommitKeeps

LEMMA StepKeeps ==
    ASSUME WatchlistInv, NEW p \in Proc, Step(p) \/ Fail(p)
    PROVE  WatchlistInv'
<1>1. "ok" \in Reply /\ "mismatch" \in Reply /\ "error" \in Reply
  BY DEF Reply
<1>2. CASE DefaultsDone(p) \/ Fail(p)
  BY <1>1, <1>2, RollbackKeeps DEF DefaultsDone, Fail
<1>3. CASE CheckCount(p)
  BY <1>1, <1>3, RollbackKeeps, CountedKeeps DEF CheckCount
<1> QED
  BY <1>2, <1>3, LockWatchlistUserKeeps, MaxWatchlistSortKeyKeeps, DrawIdKeeps,
     InsertRowKeeps, SkipDefaultKeeps, CheckUserOfDefaultKeeps, StartLockingKeeps, LockNextRowKeeps, UpdateEntryKeeps,
     CommitKeeps DEF Step

LEMMA NextKeeps ==
    ASSUME WatchlistInv, [Next]_vars
    PROVE  WatchlistInv'
<1>1. CASE \E p \in Request : \E s \in Symbol : BeginAdd(p, s)
  BY <1>1, BeginAddKeeps
<1>2. CASE \E p \in Request : \E order \in SeqOf(Symbol, Cardinality(Symbol)) :
              BeginReorder(p, order)
  BY <1>2, BeginReorderKeeps
<1>3. CASE \E s \in Symbol : RemoveSymbol(s)
  BY <1>3, RemoveSymbolKeeps
<1>4. CASE \E p \in Proc : Step(p) \/ Fail(p)
  BY <1>4, StepKeeps
<1>5. CASE UNCHANGED vars
  <2>1. /\ key' = key /\ byId' = byId /\ tx' = tx /\ rowLock' = rowLock
        /\ userLock' = userLock
    BY <1>5 DEF vars
  <2>2. (Shapes /\ Keys /\ Views)'
    BY <2>1 DEF WatchlistInv, Shapes, Keys, Views, Sees
  <2>5. Writers'
    BY <2>1 DEF WatchlistInv, Writers
  <2>6. Locks'
    BY <2>1 DEF WatchlistInv, Locks
  <2>3. (Ids /\ Counted /\ AddKeys)'
    BY <2>1 DEF WatchlistInv, Ids, Counted, AddKeys, Listed, Held, Moving, Adding, Drawn
  <2>4. FirstRow'
    <3>1. Hook \in Proc /\ Others(Hook)
      BY <2>1 DEF Proc, Others, WatchlistInv, Shapes
    <3>2. \A q \in Proc : Held(q)' = Held(q) /\ tx'[q] = tx[q]
      BY <2>1 DEF Held
    <3> QED BY <2>1, <3>1, <3>2, SameIds, FirstKeeps, FirstRowKeeps
  <2> QED BY <2>2, <2>3, <2>4, <2>5, <2>6 DEF WatchlistInv
<1> QED BY <1>1, <1>2, <1>3, <1>4, <1>5 DEF Next

\* The invariant holds of every reachable state: sort keys are distinct natural
\* numbers whatever transactions are open, rows are locked by one reorder at a time,
\* and the key of an addition is free (repository.go).
THEOREM WatchlistIsConsistent == Spec => []WatchlistInv
BY InitKeeps, NextKeeps, PTL DEF Spec

-----------------------------------------------------------------------------
(* Additions and locks *)

\* An INSERT of AddSymbol finds its key free, and waits only for the hook.
LEMMA AddMeets ==
    ASSUME WatchlistInv, NEW p \in Request, tx[p].op = "add", tx[p].pc = "insert"
    PROVE  /\ userLock = p /\ ~Collides(p, tx[p].sym, tx[p].k)
           /\ \A q \in Undecided(p, tx[p].sym, tx[p].k) \cup Inserting(p, tx[p].sym) :
                 q = Hook /\ tx[q].pc = "fk"
<1> DEFINE s == tx[p].sym
           k == tx[p].k
<1>1. p \in Proc /\ Adding(p)
  BY NullIs DEF Adding
<1>2. /\ s \in Symbol /\ k \in Nat /\ tx[p].write = NoWrite
  BY <1>1 DEF WatchlistInv, Shapes, Shape, AddShape
<1>3. userLock = p
  BY <1>1 DEF WatchlistInv, Locks
<1>4. \A u \in Symbol : key[u] # k
  <2> SUFFICES ASSUME NEW u \in Symbol, key[u] = k PROVE FALSE
    OBVIOUS
  <2>1. key[u] # Null
    BY <1>2, NullIs
  <2>2. key[u] < k
    BY <1>1, <2>1 DEF WatchlistInv, AddKeys
  <2> QED BY <1>2, <2>2
<1>5. \A u \in Symbol : Sees(p, u) = key[u]
  BY <1>2, NoWriteIs DEF Sees
<1>6. ~Collides(p, s, k)
  BY <1>4, <1>5 DEF Collides
<1>7. ASSUME NEW q \in Undecided(p, s, k) \cup Inserting(p, s)
      PROVE  q = Hook /\ tx[q].pc = "fk"
  <2>1. PICK u \in Symbol : /\ q \in Proc /\ q # p
                            /\ tx[q].write[u] = k \/ (tx[q].write[u] # Null /\ key[u] = Null)
    BY <1>2, <1>4 DEF Undecided, Inserting
  <2>2. tx[q].write[u] # Null
    BY <1>2, <2>1, NullIs
  <2>3. Shape(q, tx[q])
    BY <2>1 DEF WatchlistInv, Shapes
  <2>4. CASE tx[q].op = "add"
    <3>1. tx[q].pc = "commit"
      BY <2>1, <2>2, <2>3, <2>4, WriteIs
    <3>2. userLock = q
      BY <2>1, <2>4, <3>1 DEF WatchlistInv, Locks
    <3> QED BY <1>3, <2>1, <3>2
  <2>5. CASE tx[q].op = "reorder"
    <3>1. tx[q].pc \in {"shift", "place", "commit"} /\ tx[q].write[u] < Len(tx[q].order)
      BY <2>1, <2>2, <2>3, <2>5, WriteIs
    <3>2. Len(tx[q].order) <= k
      BY <1>1, <2>1, <2>5, <3>1 DEF WatchlistInv, AddKeys, Moving
    <3>3. rowLock[u] = q
      BY <2>1, <2>2, <2>5 DEF WatchlistInv, Writers
    <3>4. key[u] # Null
      BY <2>1, <3>3, NullIs DEF WatchlistInv, Locks
    <3>5. tx[q].write[u] = k
      BY <2>1, <3>4
    <3>6. Len(tx[q].order) \in Nat
      BY <2>3, TxFields, SeqFacts DEF Shape
    <3> QED BY <1>2, <3>1, <3>2, <3>5, <3>6
  <2>6. CASE tx[q].op = "defaults"
    BY <2>1, <2>2, <2>3, <2>6, WriteIs
  <2> QED BY <2>1, <2>2, <2>3, <2>4, <2>5, <2>6, WriteIs
<1> QED BY <1>3, <1>6, <1>7

\* A statement of a request waits for another request only when that one holds the
\* users row or a row of the list; the holder of the users row waits for none.
LEMMA WaitsForHolder ==
    ASSUME WatchlistInv, NEW p \in Request, NEW q \in Request, q \in WaitsFor(p)
    PROVE  q # p /\ userLock # p /\ (userLock = q \/ Held(q) # {})
<1>1. p \in Proc /\ q \in Proc /\ q # Null /\ q # Hook
  BY NullIs
<1>2. Shape(p, tx[p]) /\ Shape(q, tx[q])
  BY <1>1 DEF WatchlistInv, Shapes
<1>3. userLock = p => tx[p].op = "add" /\ tx[p].pc \in {"max", "draw", "insert", "commit"}
  BY <1>1 DEF WatchlistInv, Locks
<1>4. CASE tx[p].pc \in {"user", "fk"}
  <2>1. WaitsFor(p) = {userLock} \ {Null, p}
    BY <1>4 DEF WaitsFor
  <2> QED BY <1>3, <1>4, <2>1
<1>5. CASE tx[p].pc = "insert"
  <2>1. tx[p].op = "add"
    BY <1>2, <1>5, NullIs DEF Shape, ReorderShape
  <2>2. WaitsFor(p) = Inserting(p, tx[p].sym) \cup Undecided(p, tx[p].sym, tx[p].k)
    BY <1>5, <2>1 DEF WaitsFor
  <2> QED BY <1>1, <1>5, <2>1, <2>2, AddMeets
<1>6. CASE tx[p].pc = "lock"
  <2>1. tx[p].todo # <<>>
    BY <1>6 DEF WaitsFor
  <2>2. WaitsFor(p) = {rowLock[Head(tx[p].todo)]} \ {Null, p}
    BY <1>6, <2>1 DEF WaitsFor
  <2>3. Head(tx[p].todo) \in Symbol
    BY <1>2, <2>1, TxFields DEF Shape
  <2> QED BY <1>3, <1>6, <2>2, <2>3 DEF Held
<1>7. CASE tx[p].pc \in {"shift", "place"}
  <2>1. tx[p].op = "reorder"
    BY <1>2, <1>7 DEF Shape, AddShape, DefaultsShape
  <2>2. tx[p].i \in 1 .. Len(tx[p].order) /\ tx[p].order \in Seq(Symbol)
    BY <1>2, <1>7, <2>1, TxFields DEF Shape, ReorderShape
  <2> DEFINE s == tx[p].order[tx[p].i]
  <2>3. s \in Symbol /\ Len(tx[p].order) \in Nat
    BY <2>2, SeqFacts
  <2>4. PICK k \in Int : WaitsFor(p) = Undecided(p, s, k) \cup ({rowLock[s]} \ {Null, p})
    <3>1. CASE tx[p].pc = "shift"
      <4>1. -tx[p].i \in Int
        BY <2>2, <2>3
      <4>2. WaitsFor(p) = Undecided(p, s, -tx[p].i) \cup ({rowLock[s]} \ {Null, p})
        BY <3>1 DEF WaitsFor
      <4> QED BY <4>1, <4>2
    <3>2. CASE tx[p].pc = "place"
      <4>1. tx[p].i - 1 \in Int
        BY <2>2, <2>3
      <4>2. WaitsFor(p) = Undecided(p, s, tx[p].i - 1) \cup ({rowLock[s]} \ {Null, p})
        BY <3>2 DEF WaitsFor
      <4> QED BY <4>1, <4>2
    <3> QED BY <1>7, <3>1, <3>2
  <2>5. CASE q \in Undecided(p, s, k)
    <3>1. q # p /\ \E u \in Symbol : tx[q].write[u] # Null
      BY <2>4, <2>5, NullIs DEF Undecided
    <3>2. PICK u \in Symbol : tx[q].write[u] # Null
      BY <3>1
    <3>3. CASE tx[q].op = "reorder"
      BY <1>1, <1>3, <2>1, <3>1, <3>2, <3>3 DEF WatchlistInv, Writers, Held
    <3>4. CASE tx[q].op = "add"
      <4>1. tx[q].pc = "commit"
        BY <1>1, <1>2, <3>2, <3>4, WriteIs
      <4>2. userLock = q
        BY <1>1, <3>4, <4>1 DEF WatchlistInv, Locks
      <4> QED BY <1>3, <2>1, <3>1, <4>2
    <3> QED BY <1>1, <1>2, <3>2, <3>3, <3>4, WriteIs
  <2>6. CASE q \notin Undecided(p, s, k)
    <3>1. q = rowLock[s] /\ q # p
      BY <2>4, <2>6
    <3> QED BY <1>3, <2>1, <2>3, <3>1 DEF Held
  <2> QED BY <2>5, <2>6
<1>8. CASE tx[p].pc \in {"idle", "max", "draw", "snapshot", "commit"}
  <2>1. WaitsFor(p) = {}
    BY <1>8 DEF WaitsFor
  <2> QED BY <2>1
<1>9. tx[p].pc \in PC
  BY <1>2, TxFields DEF Shape
<1> QED BY <1>4, <1>5, <1>6, <1>7, <1>8, <1>9 DEF PC

\* Of two reorders that hold rows, one took them while the hook was inserting.
LEMMA OneHolder ==
    ASSUME WatchlistInv, NEW p \in Proc, NEW q \in Proc, ~tx[p].blind, ~tx[q].blind,
           Held(p) # {}, Held(q) # {}
    PROVE  p = q
<1>1. PICK s \in Held(p) : \A v \in Symbol \cup {Hook} : ~Before(v, s)
  BY DEF WatchlistInv, FirstRow, First
<1>2. PICK u \in Held(q) : \A v \in Symbol \cup {Hook} : ~Before(v, u)
  BY DEF WatchlistInv, FirstRow, First
<1>3. s \in Symbol /\ u \in Symbol /\ rowLock[s] = p /\ rowLock[u] = q
  BY <1>1, <1>2 DEF Held
<1>4. /\ byId \in Seq(Symbol \cup Proc) /\ IsInjective(byId)
      /\ s \in ToSet(byId) /\ u \in ToSet(byId)
  BY <1>3, NullIs DEF WatchlistInv, Ids, Locks
<1>5. s = u
  BY <1>1, <1>2, <1>3, <1>4, ComesIs DEF Before
<1> QED BY <1>3, <1>5

LEMMA NobodyWaits == WatchlistInv => RequestsNeverDeadlock
<1> SUFFICES ASSUME WatchlistInv, NEW S \in SUBSET Request, S # {},
                    \A p \in S : ~tx[p].blind
             PROVE  \E p \in S : WaitsFor(p) \cap S = {}
  BY DEF RequestsNeverDeadlock
<1>1. CASE \E p \in S : userLock = p
  BY <1>1, WaitsForHolder
<1>2. CASE (\A p \in S : userLock # p) /\ \E p \in S : Held(p) # {}
  <2>1. PICK p \in S : Held(p) # {}
    BY <1>2
  <2>2. ASSUME NEW q \in S, q \in WaitsFor(p) PROVE FALSE
    <3>1. q # p /\ Held(q) # {}
      BY <1>2, <2>2, WaitsForHolder
    <3>2. p \in Proc /\ q \in Proc
      BY DEF Proc
    <3> QED BY <2>1, <3>1, <3>2, OneHolder
  <2> QED BY <2>2
<1>3. CASE \A p \in S : userLock # p /\ Held(p) = {}
  BY <1>3, WaitsForHolder
<1> QED BY <1>1, <1>2, <1>3

\* With the sign-up hook finished, the key AddSymbol computed under the lock of the
\* users row is free when it inserts: no row has it, and no open transaction, not
\* even a reorder that shares no lock with it, is about to (AddSymbol, repository.go).
THEOREM AdditionsNeverCollide == Spec => []AddNeverCollides
<1>1. WatchlistInv => AddNeverCollides
  <2> SUFFICES ASSUME WatchlistInv, NEW p \in Request, tx[p].op = "add",
                      tx[p].pc = "insert", tx[Hook].pc = "idle"
               PROVE  /\ ~Collides(p, tx[p].sym, tx[p].k)
                      /\ Undecided(p, tx[p].sym, tx[p].k) = {}
    BY DEF AddNeverCollides
  <2> QED BY AddMeets
<1> QED BY <1>1, WatchlistIsConsistent, PTL

\* Requests never wait for each other in a circle, however many of them add and
\* reorder at once: additions queue at the users row (LockWatchlistUser), and
\* reorders, which lock by id (LockWatchlistByUser), at the first row of the list.
\* Reorders that took their rows while InitializeDefaults was inserting one are
\* excepted: that row may get an id below a row they hold.
THEOREM RequestsAreFreeOfDeadlock == Spec => []RequestsNeverDeadlock
BY WatchlistIsConsistent, NobodyWaits, PTL

-----------------------------------------------------------------------------
(* The list as users see it *)

\* What is proved of InOrder is what ORDER BY promises.
LEMMA InOrderIs ==
    ASSUME Keys
    PROVE  /\ InOrder \in [1 .. Cardinality(Listed) -> Listed] /\ InOrder \in Seq(Symbol)
           /\ Len(InOrder) = Cardinality(Listed) /\ Cardinality(Listed) \in Nat
           /\ ToSet(InOrder) = Listed
           /\ \A m, n \in 1 .. Len(InOrder) : m < n => key[InOrder[m]] < key[InOrder[n]]
           /\ \A m, n \in 1 .. Len(InOrder) : InOrder[m] = InOrder[n] => m = n
           /\ \A s \in Listed : \E n \in 1 .. Len(InOrder) : InOrder[n] = s
<1> DEFINE l == SortedBy(Listed, key)
           k == Cardinality(Listed)
<1>1. /\ IsFiniteSet(Listed) /\ Listed \in SUBSET Symbol
      /\ \A s \in Listed : key[s] \in Int
      /\ \A s, u \in Listed : key[s] = key[u] => s = u
  <2>1. \A s \in Listed : key[s] \in Int
    BY ListedIs
  <2> QED BY <2>1, ListedIs DEF Keys, Listed
<1>2. /\ k \in Nat /\ l \in [1 .. k -> Listed]
      /\ \A m, n \in 1 .. k : m < n => key[l[m]] < key[l[n]]
      /\ \A s \in Listed : \E n \in 1 .. k : l[n] = s
  BY <1>1, SortedByIs
<1> HIDE DEF l, k
<1>3. l \in Seq(Listed) /\ l \in Seq(Symbol) /\ Len(l) = k
  <2>1. l \in [1 .. k -> Symbol]
    BY <1>1, <1>2
  <2> QED BY <1>2, <2>1, SeqDef, LenProperties
<1>4. ToSet(l) = Listed
  <2>1. ToSet(l) = {l[j] : j \in 1 .. k}
    BY <1>3, SeqFacts
  <2> QED BY <1>2, <2>1
<1>5. \A m, n \in 1 .. k : l[m] = l[n] => m = n
  <2> SUFFICES ASSUME NEW m \in 1 .. k, NEW n \in 1 .. k, l[m] = l[n] PROVE m = n
    OBVIOUS
  <2>1. l[m] \in Listed /\ l[n] \in Listed
    BY <1>2
  <2>2. key[l[m]] \in Int /\ key[l[n]] \in Int
    BY <1>1, <2>1
  <2>3. ~(m < n) /\ ~(n < m)
    <3>1. ~(key[l[m]] < key[l[n]]) /\ ~(key[l[n]] < key[l[m]])
      BY <2>2
    <3> QED BY <1>2, <3>1
  <2> QED BY <1>2, <2>3
<1> QED BY <1>2, <1>3, <1>4, <1>5 DEF l, k, InOrder

\* A sequence of the listed symbols by ascending key is the list.
LEMMA InOrderUnique ==
    ASSUME Keys, NEW l \in Seq(Symbol), ToSet(l) = Listed,
           \A m, n \in 1 .. Len(l) : m < n => key[l[m]] < key[l[n]]
    PROVE  l = InOrder
<1>1. /\ Len(l) \in Nat /\ l \in [1 .. Len(l) -> Listed]
      /\ \A s \in Listed : \E n \in 1 .. Len(l) : l[n] = s
  <2>1. /\ Len(l) \in Nat /\ l \in [1 .. Len(l) -> Symbol]
        /\ ToSet(l) = {l[j] : j \in 1 .. Len(l)}
        /\ \A s : s \in ToSet(l) <=> \E j \in 1 .. Len(l) : l[j] = s
    BY SeqFacts
  <2>2. \A j \in 1 .. Len(l) : l[j] \in Listed
    BY <2>1
  <2> QED BY <2>1, <2>2
<1>2. \A s \in Listed : key[s] \in Int
  BY ListedIs
<1> QED BY <1>1, <1>2, SortedByUnique DEF InOrder

-----------------------------------------------------------------------------
(* The abstract specification in the terms of the concrete one *)

LEMMA AbstractNames ==
    /\ \A l : Abstract!ToSet(l) = ToSet(l)
    /\ \A S, k : Abstract!SortedBy(S, k) = SortedBy(S, k)
    /\ \A l, i, e : Abstract!InsertAt(l, i, e) = InsertAt(l, i, e)
    /\ \A S : Abstract!SetToSeqs(S) = SetToSeqs(S)
<1>1. \A l : Abstract!ToSet(l) = ToSet(l)
  BY DEF Abstract!ToSet, ToSet
<1>2. \A S : Abstract!Cardinality(S) = Cardinality(S)
  BY DEF Abstract!Cardinality, Cardinality
<1>3. \A S, k : Abstract!SortedBy(S, k) = SortedBy(S, k)
  BY DEF Abstract!SortedBy, SortedBy, Abstract!Cardinality, Cardinality
<1>4. \A l, i, e : Abstract!InsertAt(l, i, e) = InsertAt(l, i, e)
  BY DEF Abstract!InsertAt, InsertAt
<1>5. \A S : Abstract!SetToSeqs(S) = SetToSeqs(S)
  BY <1>2 DEF Abstract!SetToSeqs, SetToSeqs
<1> QED BY <1>1, <1>3, <1>4, <1>5

\* What the requests ask for, and the state the abstract specification sees.
View == [p \in Request |-> Asked(p)]
Shown == <<InOrder, View, PendingDefaults>>

LEMMA AbstractNextIs ==
    /\ \A p \in Request : View' # View =>
          (Abstract!Ask(p) \/ Abstract!Add(p) \/ Abstract!Reorder(p) \/ Abstract!Decline(p)
              => Abstract!Next)
    /\ PendingDefaults' # PendingDefaults /\ Abstract!Give => Abstract!Next
    /\ \A s \in Symbol : InOrder' # InOrder /\ Abstract!Drop(s) => Abstract!Next
BY DEF Abstract!Next, View

LEMMA Fields ==
    ASSUME NEW p \in Request
    PROVE  /\ View[p][1] = tx[p].op /\ View[p][2] = tx[p].sym /\ View[p][3] = tx[p].order
           /\ View[p] = Asked(p)
BY DEF View, Asked

LEMMA AsksIs ==
    ASSUME NEW p \in Request, Others(p), NEW x, Asked(p)' = x
    PROVE  View' = [View EXCEPT ![p] = x] /\ PendingDefaults' = PendingDefaults
<1>1. \A q \in Request : q # p => Asked(q)' = Asked(q)
  BY NullIs DEF Others, Asked
<1>2. View' = [q \in Request |-> Asked(q)']
  BY DEF View
<1> DEFINE new == [View EXCEPT ![p] = x]
<1>3. new = [q \in Request |-> IF q = p THEN x ELSE Asked(q)]
  BY DEF View
<1>4. View' = new
  BY <1>1, <1>2, <1>3
<1>5. tx'[Hook] = tx[Hook]
  BY NullIs DEF Others
<1>6. PendingDefaults' = PendingDefaults
  BY <1>5 DEF PendingDefaults
<1> QED BY <1>4, <1>6

\* A request is answered when its transaction ends.
LEMMA AnswerIs ==
    ASSUME NEW p \in Request, NEW reply \in Reply, Others(p), tx'[p] = Idle(reply)
    PROVE  /\ View' = [View EXCEPT ![p] = <<"none", Null, <<>>, reply>>]
           /\ \A replies : reply \in replies => Abstract!Answer(p, replies)
           /\ tx[p].op # "none" => View' # View
           /\ PendingDefaults' = PendingDefaults
<1>1. Asked(p)' = <<"none", Null, <<>>, reply>>
  BY IdleIs DEF Asked
<1>2. View' = [View EXCEPT ![p] = <<"none", Null, <<>>, reply>>] /\ PendingDefaults' = PendingDefaults
  BY <1>1, AsksIs
<1>3. ASSUME NEW replies, reply \in replies PROVE Abstract!Answer(p, replies)
  BY <1>2, <1>3 DEF Abstract!Answer, Abstract!Nothing, View
<1>4. ASSUME tx[p].op # "none" PROVE View' # View
  <2>1. View'[p] = <<"none", Null, <<>>, reply>> /\ View[p] = Asked(p)
    BY <1>2 DEF View
  <2>2. View'[p][1] = "none" /\ View[p][1] = tx[p].op
    BY <2>1 DEF Asked
  <2> QED BY <1>4, <2>2
<1> QED BY <1>2, <1>3, <1>4

LEMMA SameRows ==
    ASSUME key' = key
    PROVE  InOrder' = InOrder /\ Listed' = Listed
<1>1. Listed' = Listed
  BY DEF Listed
<1> QED BY <1>1 DEF InOrder

LEMMA DeclineIs ==
    ASSUME WatchlistInv, NEW p \in Request, NEW reply \in Reply, tx[p].op # "none",
           Others(p), tx'[p] = Idle(reply), key' = key,
           \/ reply = "error"
           \/ reply = "already" /\ tx[p].op = "add" /\ tx[p].sym \in Listed
           \/ reply = "mismatch" /\ tx[p].op = "reorder"
    PROVE  Abstract!Next
<1>1. /\ View' # View /\ PendingDefaults' = PendingDefaults
      /\ \A replies : reply \in replies => Abstract!Answer(p, replies)
  BY AnswerIs
<1>2. InOrder' = InOrder
  BY SameRows
<1>3. Listed = Abstract!ToSet(InOrder)
  BY InOrderIs, AbstractNames DEF WatchlistInv
<1>4. /\ View[p][1] = tx[p].op /\ View[p][2] = tx[p].sym
  BY Fields
<1>5. /\ \/ View[p][1] # "none" /\ Abstract!Answer(p, {"error"})
         \/ /\ View[p][1] = "add" /\ View[p][2] \in Abstract!ToSet(InOrder)
            /\ Abstract!Answer(p, {"already"})
         \/ View[p][1] = "reorder" /\ Abstract!Answer(p, {"mismatch"})
  BY <1>1, <1>3, <1>4
<1>6. Abstract!Decline(p)
  BY <1>1, <1>2, <1>5 DEF Abstract!Decline, View
<1> QED BY <1>1, <1>6, AbstractNextIs

\* The list, the requests and the defaults to come are as they were.
LEMMA Quiet ==
    ASSUME WatchlistInv, NEW p \in Proc, Others(p), key' = key,
           tx'[p].op = tx[p].op, tx'[p].sym = tx[p].sym, tx'[p].order = tx[p].order,
           tx'[p].reply = tx[p].reply, p = Hook => tx'[p].i = tx[p].i
    PROVE  UNCHANGED Shown
<1>1. \A q \in Request : Asked(q)' = Asked(q)
  BY NullIs DEF Others, Asked
<1>2. View' = View
  BY <1>1 DEF View
<1>3. tx'[Hook].op = tx[Hook].op /\ tx'[Hook].i = tx[Hook].i
  BY NullIs DEF Others
<1>4. PendingDefaults' = PendingDefaults
  BY <1>3 DEF PendingDefaults
<1> QED BY <1>2, <1>4, SameRows DEF Shown

\* The hook ends: the defaults it has not added yet are given up.
LEMMA HookEnds ==
    ASSUME WatchlistInv, NEW reply \in Reply, Others(Hook), tx'[Hook] = Idle(reply), key' = key
    PROVE  Abstract!Next \/ UNCHANGED Shown
<1>1. \A q \in Request : Asked(q)' = Asked(q)
  BY NullIs DEF Others, Asked
<1>2. View' = View
  BY <1>1 DEF View
<1>3. PendingDefaults' = <<>>
  BY IdleIs DEF PendingDefaults
<1>4. InOrder' = InOrder
  BY SameRows
<1>5. CASE PendingDefaults = <<>>
  BY <1>2, <1>3, <1>4, <1>5 DEF Shown
<1>6. CASE PendingDefaults # <<>>
  <2>1. Abstract!Give
    BY <1>2, <1>3, <1>4, <1>6 DEF Abstract!Give, View
  <2>2. PendingDefaults' # PendingDefaults
    BY <1>3, <1>6
  <2> QED BY <2>1, <2>2, AbstractNextIs
<1> QED BY <1>5, <1>6

-----------------------------------------------------------------------------
(* Requests begin *)

LEMMA AskAdd ==
    ASSUME WatchlistInv, NEW p \in Request, NEW s \in Symbol, BeginAdd(p, s)
    PROVE  Abstract!Next
<1> DEFINE t == [Idle("none") EXCEPT !.pc = "user", !.op = "add", !.sym = s]
<1>0. p \in Proc /\ tx' = [tx EXCEPT ![p] = t] /\ key' = key /\ tx[p].pc = "idle"
  BY NullIs DEF BeginAdd
<1>1. Others(p) /\ tx'[p] = t
  BY <1>0, OthersAre
<1>2. t.op = "add" /\ t.sym = s /\ t.order = <<>> /\ t.reply = "none"
  BY IdleIs DEF Tx, Reply
<1> HIDE DEF t
<1>3. View' = [View EXCEPT ![p] = <<"add", s, <<>>, "none">>] /\ PendingDefaults' = PendingDefaults
  <2>1. Asked(p)' = <<"add", s, <<>>, "none">>
    BY <1>1, <1>2 DEF Asked
  <2> QED BY <1>1, <2>1, AsksIs
<1>4. tx[p].op = "none"
  BY <1>0 DEF WatchlistInv, Shapes, Shape, AddShape, DefaultsShape, ReorderShape
<1>5. View[p][1] = "none" /\ View'[p][1] = "add"
  <2>1. View'[p] = <<"add", s, <<>>, "none">>
    BY <1>3 DEF View
  <2> QED BY <1>4, <2>1, Fields
<1>6. InOrder' = InOrder
  BY <1>0, SameRows
<1>7. Abstract!Ask(p)
  BY <1>3, <1>5, <1>6 DEF Abstract!Ask, View
<1>8. View' # View
  BY <1>5
<1> QED BY <1>7, <1>8, AbstractNextIs

LEMMA AskReorder ==
    ASSUME WatchlistInv, NEW p \in Request,
           NEW order \in SeqOf(Symbol, Cardinality(Symbol)), BeginReorder(p, order)
    PROVE  Abstract!Next
<1> DEFINE t == [Idle("none") EXCEPT !.pc = "snapshot", !.op = "reorder", !.order = order]
<1>0. /\ p \in Proc /\ tx' = [tx EXCEPT ![p] = t] /\ key' = key /\ tx[p].pc = "idle"
      /\ IsInjective(order) /\ ToSet(order) = Listed /\ order \in Seq(Symbol)
  <2>1. order \in Seq(Symbol)
    BY BeginReorderKeeps
  <2> QED BY <2>1, NullIs DEF BeginReorder
<1>1. Others(p) /\ tx'[p] = t
  BY <1>0, OthersAre
<1>2. t.op = "reorder" /\ t.sym = Null /\ t.order = order /\ t.reply = "none"
  BY IdleIs DEF Tx, Reply
<1> HIDE DEF t
<1>3. View' = [View EXCEPT ![p] = <<"reorder", Null, order, "none">>]
      /\ PendingDefaults' = PendingDefaults
  <2>1. Asked(p)' = <<"reorder", Null, order, "none">>
    BY <1>1, <1>2 DEF Asked
  <2> QED BY <1>1, <2>1, AsksIs
<1>4. tx[p].op = "none"
  BY <1>0 DEF WatchlistInv, Shapes, Shape, AddShape, DefaultsShape, ReorderShape
<1>5. View[p][1] = "none" /\ View'[p][1] = "reorder"
  <2>1. View'[p] = <<"reorder", Null, order, "none">>
    BY <1>3 DEF View
  <2> QED BY <1>4, <2>1, Fields
<1>6. InOrder' = InOrder
  BY <1>0, SameRows
<1>7. order \in Abstract!SetToSeqs(Abstract!ToSet(InOrder))
  <2>1. /\ Len(order) \in Nat /\ order \in [1 .. Len(order) -> Listed]
        /\ \A j, m \in 1 .. Len(order) : order[j] = order[m] => j = m
        /\ \A s \in Listed : \E j \in 1 .. Len(order) : order[j] = s
    <3>1. /\ Len(order) \in Nat /\ order \in [1 .. Len(order) -> Symbol]
          /\ ToSet(order) = {order[j] : j \in 1 .. Len(order)}
          /\ \A j, m \in 1 .. Len(order) : order[j] = order[m] => j = m
      BY <1>0, SeqFacts
    <3>2. \A j \in 1 .. Len(order) : order[j] \in Listed
      BY <1>0, <3>1
    <3>3. \A s \in Listed : \E j \in 1 .. Len(order) : order[j] = s
      BY <1>0, <3>1
    <3> QED BY <3>1, <3>2, <3>3
  <2>2. order \in Bijection(1 .. Len(order), Listed)
    BY <2>1 DEF Bijection, Injection, IsInjective, Surjection
  <2>3. ExistsBijection(1 .. Len(order), Listed)
    BY <2>2 DEF ExistsBijection
  <2>4. Cardinality(Listed) = Len(order)
    <3> DEFINE n == Len(order)
    <3>1. n \in Nat /\ ExistsBijection(1 .. n, Listed)
      BY <2>1, <2>3
    <3> HIDE DEF n
    <3>2. IsFiniteSet(1 .. n) /\ Cardinality(1 .. n) = n
      BY <3>1, FS_Interval
    <3>3. Cardinality(Listed) = n
      BY <3>1, <3>2, FS_Bijection
    <3> QED BY <3>3 DEF n
  <2>5. order \in SetToSeqs(Listed)
    BY <2>1, <2>4 DEF SetToSeqs
  <2>6. Abstract!ToSet(InOrder) = Listed
    BY InOrderIs, AbstractNames DEF WatchlistInv
  <2> QED BY <2>5, <2>6, AbstractNames
<1>8. Abstract!Ask(p)
  BY <1>3, <1>5, <1>6, <1>7 DEF Abstract!Ask, View
<1>9. View' # View
  BY <1>5
<1> QED BY <1>8, <1>9, AbstractNextIs

-----------------------------------------------------------------------------
(* Requests act *)

\* Without some symbols the others keep their order, which is that of their keys.
LEMMA RestIs ==
    ASSUME Keys, NEW T \in SUBSET Listed
    PROVE  LET l == Abstract!SortedBy(T, Abstract!Place) IN
           /\ l \in Seq(Symbol) /\ ToSet(l) = T
           /\ \A m, n \in 1 .. Len(l) : m < n => key[l[m]] < key[l[n]]
<1> DEFINE P == Abstract!Place
           l == SortedBy(T, P)
           k == Cardinality(T)
<1>1. /\ InOrder \in [1 .. Len(InOrder) -> Listed] /\ Len(InOrder) \in Nat
      /\ ToSet(InOrder) = Listed /\ DOMAIN InOrder = 1 .. Len(InOrder)
      /\ \A m, n \in 1 .. Len(InOrder) : m < n => key[InOrder[m]] < key[InOrder[n]]
      /\ \A m, n \in 1 .. Len(InOrder) : InOrder[m] = InOrder[n] => m = n
      /\ \A s \in Listed : \E n \in 1 .. Len(InOrder) : InOrder[n] = s
  BY InOrderIs
<1>2. /\ IsFiniteSet(T) /\ \A s \in T : s \in Symbol
  BY ListedIs, FS_Subset
<1>3. P = [s \in Listed |-> CHOOSE n \in 1 .. Len(InOrder) : InOrder[n] = s]
  BY <1>1, AbstractNames DEF Abstract!Place
<1> HIDE DEF P, l, k
<1>4. \A s \in Listed : P[s] \in 1 .. Len(InOrder) /\ InOrder[P[s]] = s
  <2> TAKE s \in Listed
  <2>1. P[s] = CHOOSE n \in 1 .. Len(InOrder) : InOrder[n] = s
    BY <1>3
  <2>2. \E n \in 1 .. Len(InOrder) : InOrder[n] = s
    BY <1>1
  <2> QED BY <2>1, <2>2
<1>5. /\ \A s \in T : P[s] \in Int
      /\ \A s, u \in T : P[s] = P[u] => s = u
  <2>1. \A s \in T : P[s] \in Int
    BY <1>4
  <2>2. \A s, u \in T : P[s] = P[u] => s = u
    BY <1>4
  <2> QED BY <2>1, <2>2
<1>6. /\ k \in Nat /\ l \in [1 .. k -> T]
      /\ \A m, n \in 1 .. k : m < n => P[l[m]] < P[l[n]]
      /\ \A s \in T : \E n \in 1 .. k : l[n] = s
  BY <1>2, <1>5, SortedByIs DEF l, k
<1>7. l \in Seq(Symbol) /\ Len(l) = k
  <2>1. l \in [1 .. k -> Symbol]
    BY <1>2, <1>6
  <2> QED BY <1>6, <2>1, SeqDef, LenProperties
<1>8. ToSet(l) = T
  <2>1. ToSet(l) = {l[j] : j \in 1 .. k}
    BY <1>7, SeqFacts
  <2> QED BY <1>6, <2>1
<1>9. ASSUME NEW m \in 1 .. Len(l), NEW n \in 1 .. Len(l), m < n
      PROVE  key[l[m]] < key[l[n]]
  <2>1. l[m] \in Listed /\ l[n] \in Listed /\ P[l[m]] < P[l[n]]
    BY <1>6, <1>7, <1>9
  <2> DEFINE x == P[l[m]]
             y == P[l[n]]
  <2>2. /\ x \in 1 .. Len(InOrder) /\ y \in 1 .. Len(InOrder) /\ x < y
        /\ InOrder[x] = l[m] /\ InOrder[y] = l[n]
    BY <1>4, <2>1
  <2> HIDE DEF x, y
  <2>3. key[InOrder[x]] < key[InOrder[y]]
    BY <1>1, <2>2
  <2> QED BY <2>2, <2>3
<1>10. l = Abstract!SortedBy(T, Abstract!Place)
  BY AbstractNames DEF l, P
<1> QED BY <1>7, <1>8, <1>9, <1>10

\* The rows of the table change: the new list.
LEMMA NewInOrder ==
    ASSUME Keys', NEW l \in Seq(Symbol), ToSet(l) = Listed',
           \A m, n \in 1 .. Len(l) : m < n => key'[l[m]] < key'[l[n]]
    PROVE  l = InOrder'
<1>1. /\ Len(l) \in Nat /\ l \in [1 .. Len(l) -> Listed']
      /\ \A s \in Listed' : \E n \in 1 .. Len(l) : l[n] = s
  <2>1. /\ Len(l) \in Nat /\ l \in [1 .. Len(l) -> Symbol]
        /\ ToSet(l) = {l[j] : j \in 1 .. Len(l)}
        /\ \A s : s \in ToSet(l) <=> \E j \in 1 .. Len(l) : l[j] = s
    BY SeqFacts
  <2>2. \A j \in 1 .. Len(l) : l[j] \in Listed'
    BY <2>1
  <2> QED BY <2>1, <2>2
<1>2. \A s \in Listed' : key'[s] \in Int
  BY DEF Keys, Listed
<1> QED BY <1>1, <1>2, SortedByUnique DEF InOrder

LEMMA DropIs ==
    ASSUME WatchlistInv, NEW s \in Symbol, RemoveSymbol(s)
    PROVE  Abstract!Next
<1>1. /\ key[s] # Null /\ key' = [key EXCEPT ![s] = Null]
      /\ tx' = [p \in Proc |-> [tx[p] EXCEPT !.todo = RemoveFirst(@, s)]]
  BY DEF RemoveSymbol
<1>2. Keys /\ Keys'
  BY RemoveSymbolKeeps DEF WatchlistInv
<1>3. /\ key'[s] = Null /\ \A u \in Symbol : u # s => key'[u] = key[u]
  BY <1>1, <1>2 DEF Keys
<1>4. Listed' = Listed \ {s} /\ s \in Listed
  BY <1>1, <1>3 DEF Listed
<1>5. ToSet(InOrder) = Listed /\ Abstract!ToSet(InOrder) = Listed
  BY <1>2, InOrderIs, AbstractNames
<1> DEFINE l == Abstract!SortedBy(Listed \ {s}, Abstract!Place)
<1>6. /\ l \in Seq(Symbol) /\ ToSet(l) = Listed \ {s}
      /\ \A m, n \in 1 .. Len(l) : m < n => key[l[m]] < key[l[n]]
  BY <1>2, RestIs
<1> HIDE DEF l
<1>7. ASSUME NEW m \in 1 .. Len(l), NEW n \in 1 .. Len(l), m < n
      PROVE  key'[l[m]] < key'[l[n]]
  <2>1. l[m] \in Listed \ {s} /\ l[n] \in Listed \ {s}
    BY <1>6, SeqFacts
  <2>2. key'[l[m]] = key[l[m]] /\ key'[l[n]] = key[l[n]]
    BY <1>3, <2>1 DEF Listed
  <2> QED BY <1>6, <1>7, <2>2
<1>8. InOrder' = l
  BY <1>2, <1>4, <1>6, <1>7, NewInOrder
<1>9. \A p \in Proc : /\ tx'[p].op = tx[p].op /\ tx'[p].sym = tx[p].sym
                      /\ tx'[p].order = tx[p].order /\ tx'[p].reply = tx[p].reply
                      /\ tx'[p].i = tx[p].i
  BY <1>1 DEF WatchlistInv, Shapes, Shape, Tx
<1>10. View' = View
  <2>1. \A q \in Request : Asked(q)' = Asked(q)
    BY <1>9, NullIs DEF Asked
  <2> QED BY <2>1 DEF View
<1>11. PendingDefaults' = PendingDefaults
  BY <1>9, NullIs DEF PendingDefaults
<1>12. Abstract!Drop(s)
  BY <1>4, <1>5, <1>8, <1>10, <1>11 DEF Abstract!Drop, Abstract!Rest, View, l
<1>13. InOrder' # InOrder
  BY <1>4, <1>5, <1>6, <1>8
<1> QED BY <1>12, <1>13, AbstractNextIs

LEMMA AddIs ==
    ASSUME WatchlistInv, NEW p \in Request, tx[p].op = "add", Commit(p)
    PROVE  Abstract!Next
<1> DEFINE s == tx[p].sym
           k == tx[p].k
           l == Append(InOrder, s)
<1>0. p \in Proc
  BY NullIs
<1>1. /\ WatchlistInv' /\ s \in Symbol /\ key[s] = Null /\ key' = [key EXCEPT ![s] = k]
  BY <1>0, AddCommitKeeps
<1>2. Keys /\ Keys' /\ tx[p].pc = "commit" /\ Shape(p, tx[p])
  BY <1>0, <1>1 DEF WatchlistInv, Commit, Shapes
<1>3. k \in Nat /\ \A u \in Symbol : key[u] # Null => key[u] < k
  <2>1. Adding(p)
    BY <1>2 DEF Adding
  <2>2. k \in Nat
    BY <1>2 DEF Shape, AddShape
  <2> QED BY <1>0, <2>1, <2>2 DEF WatchlistInv, AddKeys
<1>4. PICK reply \in {"ok", "error"} : tx' = [tx EXCEPT ![p] = Idle(reply)]
  BY DEF Commit
<1>5. reply \in Reply /\ Others(p) /\ tx'[p] = Idle(reply)
  BY <1>0, <1>4, OthersAre DEF Reply
<1>6. /\ View' # View /\ PendingDefaults' = PendingDefaults
      /\ Abstract!Answer(p, {"ok", "error"})
  BY <1>4, <1>5, AnswerIs
<1> HIDE DEF s, k
<1>7. /\ key'[s] = k /\ \A u \in Symbol : u # s => key'[u] = key[u]
  BY <1>1, <1>2 DEF Keys
<1>8. Listed' = Listed \cup {s} /\ s \notin Listed
  BY <1>1, <1>3, <1>7, NullIs DEF Listed
<1>9. /\ InOrder \in Seq(Symbol) /\ ToSet(InOrder) = Listed /\ Len(InOrder) \in Nat
      /\ \A m, n \in 1 .. Len(InOrder) : m < n => key[InOrder[m]] < key[InOrder[n]]
      /\ \A m \in 1 .. Len(InOrder) : InOrder[m] \in Listed
  <2>1. InOrder \in [1 .. Len(InOrder) -> Listed]
    BY <1>2, InOrderIs
  <2> QED BY <1>2, <2>1, InOrderIs
<1>10. /\ l \in Seq(Symbol) /\ Len(l) = Len(InOrder) + 1
       /\ \A m \in 1 .. Len(InOrder) : l[m] = InOrder[m]
       /\ l[Len(InOrder) + 1] = s
  BY <1>1, <1>9, AppendProperties
<1> HIDE DEF l
<1>11. ToSet(l) = Listed'
  <2>1. ToSet(l) = {l[j] : j \in 1 .. Len(l)}
    BY <1>10, SeqFacts
  <2>2. \A j \in 1 .. Len(l) : l[j] \in Listed \cup {s}
    BY <1>9, <1>10
  <2>3. ASSUME NEW u \in Listed \cup {s} PROVE \E j \in 1 .. Len(l) : l[j] = u
    <3>1. CASE u = s
      BY <1>9, <1>10, <3>1
    <3>2. CASE u \in Listed
      <4>1. PICK j \in 1 .. Len(InOrder) : InOrder[j] = u
        BY <1>2, <3>2, InOrderIs
      <4>2. j \in 1 .. Len(l) /\ l[j] = u
        BY <1>9, <1>10, <4>1
      <4> QED BY <4>2
    <3> QED BY <3>1, <3>2
  <2> QED BY <1>8, <2>1, <2>2, <2>3
<1>12. ASSUME NEW m \in 1 .. Len(l), NEW n \in 1 .. Len(l), m < n
       PROVE  key'[l[m]] < key'[l[n]]
  <2>1. m \in 1 .. Len(InOrder) /\ l[m] = InOrder[m] /\ l[m] \in Listed
    BY <1>9, <1>10, <1>12
  <2>2. key'[l[m]] = key[l[m]]
    BY <1>7, <1>8, <2>1 DEF Listed
  <2>3. CASE n = Len(InOrder) + 1
    BY <1>3, <1>7, <1>10, <2>1, <2>2, <2>3 DEF Listed
  <2>4. CASE n # Len(InOrder) + 1
    <3>1. n \in 1 .. Len(InOrder) /\ l[n] = InOrder[n] /\ l[n] \in Listed
      BY <1>9, <1>10, <2>4
    <3>2. key'[l[n]] = key[l[n]]
      BY <1>7, <1>8, <3>1 DEF Listed
    <3> QED BY <1>9, <1>12, <2>1, <2>2, <3>1, <3>2
  <2> QED BY <2>3, <2>4
<1>13. InOrder' = l
  BY <1>2, <1>10, <1>11, <1>12, NewInOrder
<1>14. View[p][1] = "add" /\ View[p][2] = s /\ Abstract!ToSet(InOrder) = Listed
  BY <1>9, Fields, AbstractNames DEF s
<1>15. Abstract!Add(p)
  BY <1>6, <1>8, <1>13, <1>14 DEF Abstract!Add, View, l
<1> QED BY <1>6, <1>15, AbstractNextIs

\* A reorder commits: the requested symbols first, then the rest as it was.
LEMMA ReorderIs ==
    ASSUME WatchlistInv, NEW p \in Request, tx[p].op = "reorder", Commit(p)
    PROVE  Abstract!Next
<1> DEFINE order == tx[p].order
           n == Len(order)
           T == Listed \ ToSet(order)
           r == Abstract!SortedBy(T, Abstract!Place)
           l == order \o r
<1>0. p \in Proc
  BY NullIs
<1>1. /\ Shape(p, tx[p]) /\ tx[p].pc = "commit" /\ ReorderShape(tx[p])
      /\ order \in Seq(Symbol) /\ IsInjective(order)
      /\ tx[p].write \in [Symbol -> Int \cup {Null}]
      /\ Keys /\ Keys'
  BY <1>0, ReorderCommitKeeps, TxFields DEF Commit, WatchlistInv, Shapes, Shape
<1>2. PICK reply \in {"ok", "error"} : tx' = [tx EXCEPT ![p] = Idle(reply)]
  BY DEF Commit
<1>3. reply \in Reply /\ Others(p) /\ tx'[p] = Idle(reply)
  BY <1>0, <1>2, OthersAre DEF Reply
<1>4. /\ View' # View /\ PendingDefaults' = PendingDefaults
      /\ Abstract!Answer(p, {"ok", "error"})
  BY <1>2, <1>3, AnswerIs
<1>5. key' = [s \in Symbol |-> Sees(p, s)]
  BY DEF Commit
<1>6. /\ n \in Nat /\ \A j \in 1 .. n : order[j] \in Symbol
      /\ ToSet(order) = {order[j] : j \in 1 .. n} /\ ToSet(order) \subseteq Symbol
      /\ \A s : s \in ToSet(order) <=> \E j \in 1 .. n : order[j] = s
      /\ \A j, m \in 1 .. n : order[j] = order[m] => j = m
  BY <1>1, SeqFacts
<1>7. ASSUME NEW j \in 1 .. n PROVE key'[order[j]] = j - 1 /\ order[j] \in Listed
  <2>1. tx[p].write[order[j]] = j - 1
    <3>1. tx[p].write[order[j]] = Moved(tx[p], j)
      BY <1>1 DEF ReorderShape
    <3>2. Moved(tx[p], j) = j - 1
      BY <1>1 DEF Moved
    <3> QED BY <3>1, <3>2
  <2>2. j - 1 \in Int /\ j - 1 # Null /\ order[j] \in Symbol
    BY <1>6, NullIs
  <2>3. rowLock[order[j]] = p
    BY <1>0, <2>1, <2>2 DEF WatchlistInv, Writers
  <2>4. key[order[j]] # Null
    BY <1>0, <2>2, <2>3, NullIs DEF WatchlistInv, Locks
  <2>5. Sees(p, order[j]) = j - 1
    BY <2>1, <2>2 DEF Sees
  <2> QED BY <1>5, <2>2, <2>4, <2>5 DEF Listed
<1>8. ASSUME NEW s \in Symbol, s \notin ToSet(order) PROVE key'[s] = key[s]
  <2>1. tx[p].write[s] = Null
    BY <1>1, <1>8 DEF ReorderShape
  <2> QED BY <1>5, <2>1 DEF Sees
<1> HIDE DEF order, n
<1>9. Listed' = Listed /\ ToSet(order) \subseteq Listed
  <2>1. \A s \in ToSet(order) : s \in Listed /\ s \in Symbol /\ key'[s] # Null
    <3> TAKE s \in ToSet(order)
    <3>1. PICK j \in 1 .. n : order[j] = s
      BY <1>6
    <3>2. j - 1 \in Int
      BY <1>6
    <3> QED BY <1>6, <1>7, <3>1, <3>2, NullIs
  <2> QED BY <1>8, <2>1 DEF Listed
<1>10. /\ r \in Seq(Symbol) /\ ToSet(r) = T
       /\ \A m, j \in 1 .. Len(r) : m < j => key[r[m]] < key[r[j]]
  BY <1>1, RestIs
<1> HIDE DEF r
<1>11. /\ Len(r) \in Nat /\ \A j \in 1 .. Len(r) : r[j] \in T
       /\ ToSet(r) = {r[j] : j \in 1 .. Len(r)}
  BY <1>10, SeqFacts
<1>12. ASSUME NEW s \in T
       PROVE  s \in Symbol /\ key'[s] = key[s] /\ key[s] \in Nat /\ key[s] >= n
  <2>1. s \in Symbol /\ s \notin ToSet(order) /\ key'[s] = key[s] /\ key[s] \in Nat
    BY <1>1, <1>8, ListedIs DEF Listed
  <2>2. ASSUME key[s] < n PROVE FALSE
    <3> DEFINE j == key[s] + 1
    <3>1. j \in 1 .. n /\ j - 1 = key[s]
      BY <1>6, <2>1, <2>2
    <3> HIDE DEF j
    <3>2. key'[order[j]] = key'[s] /\ order[j] \in ToSet(order) /\ order[j] \in Symbol
      BY <1>6, <1>7, <2>1, <3>1
    <3>3. key'[s] # Null
      BY <2>1, NullIs
    <3>4. order[j] = s
      BY <1>1, <2>1, <3>2, <3>3 DEF Keys
    <3> QED BY <2>1, <3>2, <3>4
  <2> QED BY <1>6, <2>1, <2>2
<1>13. /\ l \in Seq(Symbol) /\ Len(l) = n + Len(r)
       /\ \A j \in 1 .. Len(l) : l[j] = IF j <= n THEN order[j] ELSE r[j - n]
  BY <1>1, <1>10, ConcatProperties DEF n
<1> HIDE DEF l
<1>14. ToSet(l) = Listed'
  <2>1. ToSet(l) = {l[j] : j \in 1 .. Len(l)}
    BY <1>13, SeqFacts
  <2>2. ASSUME NEW j \in 1 .. Len(l) PROVE l[j] \in Listed
    <3>1. CASE j <= n
      <4>1. j \in 1 .. n /\ l[j] = order[j]
        BY <1>6, <1>13, <3>1
      <4> QED BY <1>7, <4>1
    <3>2. CASE ~(j <= n)
      <4>1. j - n \in 1 .. Len(r) /\ l[j] = r[j - n]
        BY <1>6, <1>11, <1>13, <3>2
      <4> QED BY <1>11, <4>1
    <3> QED BY <3>1, <3>2
  <2>3. ASSUME NEW s \in Listed PROVE \E j \in 1 .. Len(l) : l[j] = s
    <3>1. CASE s \in ToSet(order)
      <4>1. PICK j \in 1 .. n : order[j] = s
        BY <1>6, <3>1
      <4>2. j \in 1 .. Len(l) /\ l[j] = s
        BY <1>6, <1>11, <1>13, <4>1
      <4> QED BY <4>2
    <3>2. CASE s \notin ToSet(order)
      <4>1. PICK j \in 1 .. Len(r) : r[j] = s
        BY <1>10, <1>11, <3>2
      <4>2. j + n \in 1 .. Len(l) /\ ~(j + n <= n) /\ (j + n) - n = j
        BY <1>6, <1>11, <1>13
      <4>3. l[j + n] = s
        BY <1>13, <4>1, <4>2
      <4> QED BY <4>2, <4>3
    <3> QED BY <3>1, <3>2
  <2> QED BY <1>9, <2>1, <2>2, <2>3
<1>15. ASSUME NEW m \in 1 .. Len(l), NEW j \in 1 .. Len(l), m < j
       PROVE  key'[l[m]] < key'[l[j]]
  <2>1. CASE j <= n
    <3>1. m \in 1 .. n /\ j \in 1 .. n /\ l[m] = order[m] /\ l[j] = order[j]
      BY <1>6, <1>13, <1>15, <2>1
    <3>2. key'[l[m]] = m - 1 /\ key'[l[j]] = j - 1
      BY <1>7, <3>1
    <3> QED BY <1>6, <1>15, <3>1, <3>2
  <2>2. CASE m <= n /\ ~(j <= n)
    <3>1. m \in 1 .. n /\ l[m] = order[m] /\ j - n \in 1 .. Len(r) /\ l[j] = r[j - n]
      BY <1>6, <1>11, <1>13, <1>15, <2>2
    <3>2. key'[l[m]] = m - 1
      BY <1>7, <3>1
    <3>3. l[j] \in T
      BY <1>11, <3>1
    <3>4. key'[l[j]] \in Nat /\ key'[l[j]] >= n
      BY <1>12, <3>3
    <3> QED BY <1>6, <3>1, <3>2, <3>4
  <2>3. CASE ~(m <= n)
    <3>1. /\ m - n \in 1 .. Len(r) /\ l[m] = r[m - n]
          /\ j - n \in 1 .. Len(r) /\ l[j] = r[j - n] /\ m - n < j - n
      BY <1>6, <1>11, <1>13, <1>15, <2>3
    <3>2. key[r[m - n]] < key[r[j - n]] /\ r[m - n] \in T /\ r[j - n] \in T
      BY <1>10, <1>11, <3>1
    <3>3. key'[r[m - n]] = key[r[m - n]] /\ key'[r[j - n]] = key[r[j - n]]
      BY <1>12, <3>2
    <3> QED BY <3>1, <3>2, <3>3
  <2> QED BY <1>6, <1>15, <2>1, <2>2, <2>3
<1>16. InOrder' = l
  BY <1>1, <1>13, <1>14, <1>15, NewInOrder
<1>17. View[p][1] = "reorder" /\ View[p][3] = order
  BY Fields DEF order
<1>18. Abstract!ToSet(InOrder) = Listed /\ Abstract!ToSet(order) = ToSet(order)
  BY <1>1, InOrderIs, AbstractNames
<1>19. InOrder' = order \o Abstract!Rest(Abstract!ToSet(order))
  BY <1>16, <1>18 DEF Abstract!Rest, l, r
<1>20. Abstract!Reorder(p)
  BY <1>4, <1>9, <1>17, <1>18, <1>19 DEF Abstract!Reorder, View
<1> QED BY <1>4, <1>20, AbstractNextIs

\* A sequence with one more element at some place.
LEMMA InsertedAt ==
    ASSUME NEW S, NEW l \in Seq(S), NEW m \in Seq(S), Len(m) = Len(l) + 1,
           NEW i \in 1 .. Len(m),
           \A j \in 1 .. Len(l) : m[IF j < i THEN j ELSE j + 1] = l[j]
    PROVE  m = InsertAt(l, i, m[i])
<1>1. /\ Len(l) \in Nat /\ Len(m) \in Nat /\ i \in Nat
      /\ (\A j \in 1 .. Len(l) : l[j] \in S) /\ (\A j \in 1 .. Len(m) : m[j] \in S)
  BY SeqFacts
<1> DEFINE a == SubSeq(l, 1, i - 1)
           b == SubSeq(l, i, Len(l))
           e == <<m[i]>>
<1>2. /\ a \in Seq(S) /\ Len(a) = i - 1
      /\ \A j \in 1 .. (i - 1) : a[j] = l[j]
  <2>1. \A j \in 1 .. (i - 1) : l[j] \in S
    BY <1>1
  <2> QED BY <2>1, <1>1, SubSeqProperties
<1>3. /\ b \in Seq(S) /\ Len(b) = Len(l) - i + 1
      /\ \A j \in 1 .. (Len(l) - i + 1) : b[j] = l[i + j - 1]
  <2>1. \A j \in i .. Len(l) : l[j] \in S
    BY <1>1
  <2>2. /\ b \in Seq(S) /\ Len(b) = IF i <= Len(l) THEN Len(l) - i + 1 ELSE 0
        /\ \A j \in 1 .. (Len(l) - i + 1) : b[j] = l[i + j - 1]
    BY <2>1, <1>1, SubSeqProperties
  <2> HIDE DEF b
  <2> QED BY <2>2, <1>1
<1>4. e \in Seq(S) /\ Len(e) = 1 /\ e[1] = m[i]
  BY <1>1
<1> HIDE DEF a, b, e
<1>5. /\ a \o e \in Seq(S) /\ Len(a \o e) = i
      /\ \A j \in 1 .. i : (a \o e)[j] = IF j <= i - 1 THEN a[j] ELSE e[j - (i - 1)]
  <2>1. /\ a \o e \in Seq(S) /\ Len(a \o e) = Len(a) + Len(e)
        /\ \A j \in 1 .. (Len(a) + Len(e)) :
              (a \o e)[j] = IF j <= Len(a) THEN a[j] ELSE e[j - Len(a)]
    BY <1>2, <1>4, ConcatProperties
  <2>2. Len(a) + Len(e) = i
    BY <1>1, <1>2, <1>4
  <2> QED BY <1>2, <2>1, <2>2
<1> DEFINE c == a \o e
<1> HIDE DEF c
<1>6. /\ c \in Seq(S) /\ Len(c) = i
      /\ \A j \in 1 .. i : c[j] = m[j]
  <2>1. ASSUME NEW j \in 1 .. i PROVE c[j] = m[j]
    <3>1. CASE j <= i - 1
      <4>1. j \in 1 .. (i - 1) /\ j \in 1 .. Len(l) /\ j < i
        BY <1>1, <3>1
      <4>2. c[j] = a[j] /\ a[j] = l[j]
        BY <1>2, <1>5, <3>1, <4>1 DEF c
      <4>3. m[j] = l[j]
        BY <4>1
      <4> QED BY <4>2, <4>3
    <3>2. CASE ~(j <= i - 1)
      <4>1. j = i /\ j - (i - 1) = 1
        BY <1>1, <3>2
      <4> QED BY <1>4, <1>5, <3>2, <4>1 DEF c
    <3> QED BY <3>1, <3>2
  <2> QED BY <1>5, <2>1 DEF c
<1>7. /\ c \o b \in Seq(S) /\ Len(c \o b) = Len(m)
      /\ \A j \in 1 .. Len(m) : (c \o b)[j] = IF j <= i THEN c[j] ELSE b[j - i]
  <2>1. /\ c \o b \in Seq(S) /\ Len(c \o b) = Len(c) + Len(b)
        /\ \A j \in 1 .. (Len(c) + Len(b)) :
              (c \o b)[j] = IF j <= Len(c) THEN c[j] ELSE b[j - Len(c)]
    BY <1>3, <1>6, ConcatProperties
  <2>2. Len(c) + Len(b) = Len(m)
    BY <1>1, <1>3, <1>6
  <2> QED BY <1>6, <2>1, <2>2
<1>8. ASSUME NEW j \in 1 .. Len(m) PROVE (c \o b)[j] = m[j]
  <2>1. CASE j <= i
    BY <1>1, <1>6, <1>7, <2>1
  <2>2. CASE ~(j <= i)
    <3> DEFINE n == j - 1
    <3>1. /\ j - i \in 1 .. (Len(l) - i + 1) /\ i + (j - i) - 1 = n
          /\ n \in 1 .. Len(l) /\ ~(n < i) /\ n + 1 = j
      BY <1>1, <2>2
    <3> HIDE DEF n
    <3>2. b[j - i] = l[n]
      BY <1>3, <3>1
    <3>3. m[j] = l[n]
      BY <3>1
    <3> QED BY <1>7, <2>2, <3>2, <3>3
  <2> QED BY <2>1, <2>2
<1>9. c \o b = m
  BY <1>7, <1>8, SeqEqual
<1> QED BY <1>9 DEF InsertAt, a, b, c, e

-----------------------------------------------------------------------------
(* Sign-up gives *)

\* The defaults that are still to be added, from the i-th on.
LEMMA PendingIs ==
    ASSUME NEW i \in 1 .. Len(Defaults)
    PROVE  /\ SubSeq(Defaults, i, Len(Defaults)) # <<>>
           /\ Head(SubSeq(Defaults, i, Len(Defaults))) = Defaults[i]
           /\ Tail(SubSeq(Defaults, i, Len(Defaults))) = SubSeq(Defaults, i + 1, Len(Defaults))
           /\ SubSeq(Defaults, i, Len(Defaults)) # SubSeq(Defaults, i + 1, Len(Defaults))
<1> DEFINE n == Len(Defaults)
           a == SubSeq(Defaults, i, n)
           b == SubSeq(Defaults, i + 1, n)
<1>1. Defaults \in Seq(Code) /\ n \in Nat /\ \A j \in 1 .. n : Defaults[j] \in Code
  BY WatchlistConstants, SeqFacts
<1>2. /\ a \in Seq(Code) /\ Len(a) = n - i + 1
      /\ \A j \in 1 .. (n - i + 1) : a[j] = Defaults[i + j - 1]
  <2>1. \A j \in i .. n : Defaults[j] \in Code
    BY <1>1
  <2> HIDE DEF n
  <2>2. /\ a \in Seq(Code) /\ Len(a) = IF i <= n THEN n - i + 1 ELSE 0
        /\ \A j \in 1 .. (n - i + 1) : a[j] = Defaults[i + j - 1]
    BY <2>1, <1>1, SubSeqProperties
  <2>3. i <= n
    BY DEF n
  <2> HIDE DEF a
  <2> QED BY <2>2, <2>3
<1>3. /\ b \in Seq(Code) /\ Len(b) = n - i
      /\ \A j \in 1 .. (n - i) : b[j] = Defaults[i + j]
  <2>1. \A j \in (i + 1) .. n : Defaults[j] \in Code
    BY <1>1
  <2> HIDE DEF n
  <2>2. /\ b \in Seq(Code) /\ Len(b) = IF i + 1 <= n THEN n - (i + 1) + 1 ELSE 0
        /\ \A j \in 1 .. (n - (i + 1) + 1) : b[j] = Defaults[(i + 1) + j - 1]
    BY <2>1, <1>1, SubSeqProperties
  <2>3. i <= n
    BY DEF n
  <2> HIDE DEF b
  <2> QED BY <1>1, <2>2, <2>3
<1>4. i <= n
  BY DEF n
<1> HIDE DEF a, b, n
<1>5. a # <<>> /\ a # b
  BY <1>1, <1>2, <1>3, <1>4
<1>6. Head(a) = Defaults[i]
  <2>1. Head(a) = a[1]
    BY <1>2, <1>5, HeadTailProperties
  <2>2. 1 \in 1 .. (n - i + 1) /\ i + 1 - 1 = i
    BY <1>1, <1>4
  <2> QED BY <1>2, <2>1, <2>2
<1>7. Tail(a) = b
  <2>1. /\ Tail(a) \in Seq(Code) /\ Len(Tail(a)) = Len(a) - 1
        /\ \A j \in 1 .. Len(Tail(a)) : Tail(a)[j] = a[j + 1]
    BY <1>2, <1>5, HeadTailProperties
  <2> DEFINE c == Tail(a)
  <2> HIDE DEF c
  <2>2. c \in Seq(Code) /\ Len(c) = n - i /\ \A j \in 1 .. (n - i) : c[j] = a[j + 1]
    <3>1. Len(c) = n - i
      BY <1>1, <1>2, <1>4, <2>1 DEF c
    <3> QED BY <2>1, <3>1 DEF c
  <2>3. ASSUME NEW j \in 1 .. (n - i) PROVE c[j] = b[j]
    <3>1. j + 1 \in 1 .. (n - i + 1) /\ i + (j + 1) - 1 = i + j
      BY <1>1
    <3>2. a[j + 1] = Defaults[i + j]
      BY <1>2, <3>1
    <3> QED BY <1>3, <2>2, <3>2
  <2>4. c = b
    BY <1>3, <2>2, <2>3, SeqEqual
  <2> QED BY <2>4 DEF c
<1> QED BY <1>5, <1>6, <1>7 DEF a, b, n

\* ... and again after a step.
Ordered ==
    /\ InOrder \in Seq(Symbol) /\ Len(InOrder) \in Nat /\ ToSet(InOrder) = Listed
    /\ \A m, n \in 1 .. Len(InOrder) : m < n => key[InOrder[m]] < key[InOrder[n]]
    /\ \A m, n \in 1 .. Len(InOrder) : InOrder[m] = InOrder[n] => m = n
    /\ \A n \in 1 .. Len(InOrder) : InOrder[n] \in Listed
    /\ \A s \in Listed : \E n \in 1 .. Len(InOrder) : InOrder[n] = s

LEMMA IsOrdered == Keys => Ordered
<1> SUFFICES ASSUME Keys PROVE Ordered
  OBVIOUS
<1>1. InOrder \in [1 .. Len(InOrder) -> Listed]
  BY InOrderIs
<1> QED BY <1>1, InOrderIs DEF Ordered

LEMMA StaysOrdered == Keys' => Ordered'
BY IsOrdered, PTL

\* The hook adds a default: at the place its fixed sort key gives it.
LEMMA GiveIs ==
    ASSUME WatchlistInv, NEW p \in Proc, CheckUserOfDefault(p)
    PROVE  Abstract!Next
<1> DEFINE i == tx[Hook].i
           s == Defaults[i]
           k == i - 1
<1>1. /\ WatchlistInv' /\ p = Hook /\ tx[Hook].op = "defaults" /\ i \in 1 .. Len(Defaults)
      /\ s \in Symbol /\ key[s] = Null
  BY CheckUserOfDefaultKeeps
<1>2. s \in Symbol /\ Len(Defaults) \in Nat /\ i \in Nat /\ k \in Nat
  BY <1>1, WatchlistConstants, SeqFacts
<1>3. /\ key' = [key EXCEPT ![s] = k]
      /\ tx' = [tx EXCEPT ![Hook].pc = "draw", ![Hook].i = @ + 1, ![Hook].write = NoWrite]
  BY <1>1 DEF CheckUserOfDefault
<1>4. Keys /\ Keys'
  BY <1>1 DEF WatchlistInv
<1>5. /\ tx'[Hook].op = "defaults" /\ tx'[Hook].i = i + 1
      /\ \A q \in Request : tx'[q] = tx[q]
  <2> DEFINE t == [tx[Hook] EXCEPT !.pc = "draw", !.i = tx[Hook].i + 1, !.write = NoWrite]
  <2>0. tx[Hook] \in Tx
    BY <1>1, NullIs DEF WatchlistInv, Shapes, Shape
  <2>1. tx' = [tx EXCEPT ![Hook] = t]
    BY <1>3, <2>0, NullIs DEF WatchlistInv, Shapes, Tx
  <2>2. t.op = tx[Hook].op /\ t.i = i + 1
    BY <2>0 DEF Tx
  <2> HIDE DEF t
  <2> QED BY <1>1, <2>1, <2>2, NullIs DEF WatchlistInv, Shapes
<1>6. View' = View
  <2>1. \A q \in Request : Asked(q)' = Asked(q)
    BY <1>5 DEF Asked
  <2> QED BY <2>1 DEF View
<1>7. /\ PendingDefaults = SubSeq(Defaults, i, Len(Defaults))
      /\ PendingDefaults' = SubSeq(Defaults, i + 1, Len(Defaults))
  BY <1>1, <1>5 DEF PendingDefaults
<1>8. /\ PendingDefaults # <<>> /\ Head(PendingDefaults) = s
      /\ PendingDefaults' = Tail(PendingDefaults) /\ PendingDefaults' # PendingDefaults
  <2>1. i \in 1 .. Len(Defaults)
    BY <1>1
  <2> QED BY <1>7, <2>1, PendingIs
<1> HIDE DEF s, k
<1>9. /\ key'[s] = k /\ \A u \in Symbol : u # s => key'[u] = key[u]
  BY <1>2, <1>3, <1>4 DEF Keys
<1>10. Listed' = Listed \cup {s} /\ s \notin Listed
  BY <1>1, <1>2, <1>9, NullIs DEF Listed, s
<1> DEFINE l == InOrder
           m == InOrder'
<1>11. /\ l \in Seq(Symbol) /\ ToSet(l) = Listed /\ Len(l) \in Nat
  BY <1>4, InOrderIs
<1>12. /\ m \in Seq(Symbol) /\ ToSet(m) = Listed' /\ Len(m) \in Nat
       /\ \A x, y \in 1 .. Len(m) : x < y => key'[m[x]] < key'[m[y]]
       /\ \A x, y \in 1 .. Len(m) : m[x] = m[y] => x = y
       /\ \A x \in 1 .. Len(m) : m[x] \in Listed'
       /\ \A u \in Listed' : \E x \in 1 .. Len(m) : m[x] = u
  BY <1>4, StaysOrdered DEF Ordered
<1> HIDE DEF l, m
<1>13. PICK n \in 1 .. Len(m) : m[n] = s
  BY <1>10, <1>12
<1> DEFINE at(j) == IF j < n THEN j ELSE j + 1
           r == [j \in 1 .. (Len(m) - 1) |-> m[at(j)]]
<1>14. \A j \in 1 .. (Len(m) - 1) : at(j) \in 1 .. Len(m) /\ at(j) # n
  BY <1>12
<1>15. /\ r \in Seq(Symbol) /\ Len(r) = Len(m) - 1
       /\ \A j \in 1 .. Len(r) : r[j] = m[at(j)] /\ r[j] \in Listed
  <2>0. Len(m) - 1 \in Nat
    BY <1>12, <1>13
  <2>1. \A j \in 1 .. (Len(m) - 1) : m[at(j)] \in Listed /\ m[at(j)] \in Symbol
    <3> TAKE j \in 1 .. (Len(m) - 1)
    <3>1. m[at(j)] \in Listed' /\ m[at(j)] # s
      BY <1>12, <1>13, <1>14
    <3> QED BY <1>10, <3>1 DEF Listed
  <2> HIDE DEF at
  <2>2. r \in [1 .. (Len(m) - 1) -> Symbol]
    BY <2>1
  <2>3. r \in Seq(Symbol) /\ Len(r) = Len(m) - 1
    BY <2>0, <2>2, SeqDef, LenProperties
  <2> QED BY <2>1, <2>3
<1>16. ToSet(r) = Listed
  <2>1. ASSUME NEW u \in Listed PROVE \E j \in 1 .. Len(r) : r[j] = u
    <3>1. PICK x \in 1 .. Len(m) : m[x] = u
      BY <1>10, <1>12
    <3>2. x # n
      BY <1>10, <1>13, <3>1
    <3> DEFINE j == IF x < n THEN x ELSE x - 1
    <3>3. j \in 1 .. Len(r) /\ at(j) = x
      BY <1>12, <1>15, <3>2
    <3> HIDE DEF j, at, r
    <3> QED BY <1>15, <3>1, <3>3
  <2> HIDE DEF r
  <2>2. ToSet(r) = {r[j] : j \in 1 .. Len(r)}
    BY <1>15, SeqFacts
  <2> QED BY <1>15, <2>1, <2>2
<1>17. ASSUME NEW x \in 1 .. Len(r), NEW y \in 1 .. Len(r), x < y
       PROVE  key[r[x]] < key[r[y]]
  <2>1. at(x) \in 1 .. Len(m) /\ at(y) \in 1 .. Len(m) /\ at(x) < at(y)
    BY <1>12, <1>13, <1>15, <1>17
  <2> HIDE DEF at, r
  <2>2. key'[r[x]] < key'[r[y]]
    <3>1. key'[m[at(x)]] < key'[m[at(y)]]
      BY <1>12, <2>1
    <3>2. r[x] = m[at(x)] /\ r[y] = m[at(y)]
      BY <1>15
    <3> QED BY <3>1, <3>2
  <2>3. r[x] # s /\ r[x] \in Symbol /\ r[y] # s /\ r[y] \in Symbol
    <3>1. r[x] \in Listed /\ r[y] \in Listed
      BY <1>15
    <3> QED BY <1>10, <3>1 DEF Listed
  <2> QED BY <1>9, <2>2, <2>3
<1>18. r = l
  <2> HIDE DEF r
  <2>1. r = InOrder
    BY <1>4, <1>15, <1>16, <1>17, InOrderUnique
  <2> QED BY <2>1 DEF l
<1>19. Len(m) = Len(l) + 1 /\ n \in 1 .. (Len(l) + 1)
       /\ \A j \in 1 .. Len(l) : m[IF j < n THEN j ELSE j + 1] = l[j]
  <2>1. \A j \in 1 .. Len(r) : r[j] = m[IF j < n THEN j ELSE j + 1]
    BY <1>15
  <2>2. Len(l) = Len(m) - 1
    BY <1>15, <1>18
  <2> HIDE DEF r, at
  <2>3. Len(m) = Len(l) + 1
    BY <1>11, <1>12, <2>2
  <2> QED BY <1>18, <2>1, <2>3
<1> HIDE DEF at, r
<1>20. m = InsertAt(l, n, s)
  <2>1. m = InsertAt(l, n, m[n])
    BY <1>11, <1>12, <1>13, <1>19, InsertedAt
  <2> QED BY <1>13, <2>1
<1>21. /\ InOrder' = Abstract!InsertAt(InOrder, n, Head(PendingDefaults))
       /\ n \in 1 .. (Len(InOrder) + 1)
  BY <1>8, <1>19, <1>20, AbstractNames DEF l, m
<1>22. Head(PendingDefaults) \in Symbol \ Abstract!ToSet(InOrder)
  BY <1>2, <1>8, <1>10, <1>11, AbstractNames DEF l
<1>23. Abstract!Give
  BY <1>6, <1>8, <1>21, <1>22 DEF Abstract!Give, View
<1> QED BY <1>8, <1>23, AbstractNextIs

\* The hook passes over a default that table symbols does not list.
LEMMA SkipIs ==
    ASSUME WatchlistInv, NEW p \in Proc, SkipDefault(p)
    PROVE  Abstract!Next
<1> DEFINE i == tx[Hook].i
           t == [tx[Hook] EXCEPT !.i = i + 1]
<1>1. /\ Shape(p, tx[p]) /\ tx[p].op = "defaults" /\ tx[p].i <= Len(Defaults)
      /\ Defaults[tx[p].i] \notin Symbol /\ key' = key /\ tx' = [tx EXCEPT ![p].i = @ + 1]
  BY DEF SkipDefault, WatchlistInv, Shapes
<1>2. p = Hook /\ tx[Hook] \in Tx /\ i \in 1 .. (Len(Defaults) + 1)
  BY <1>1 DEF Shape, DefaultsShape
<1>3. Len(Defaults) \in Nat
  BY WatchlistConstants, SeqFacts
<1>4. i \in 1 .. Len(Defaults)
  BY <1>1, <1>2, <1>3
<1>5. Others(Hook) /\ tx'[Hook] = t
  <2>1. tx' = [tx EXCEPT ![Hook] = t]
    BY <1>1, <1>2 DEF WatchlistInv, Shapes
  <2> HIDE DEF t
  <2> QED BY <1>2, <2>1, OthersAre
<1>6. t.op = "defaults" /\ t.i = i + 1
  BY <1>1, <1>2 DEF Tx
<1> HIDE DEF t
<1>7. /\ PendingDefaults = SubSeq(Defaults, i, Len(Defaults))
      /\ PendingDefaults' = SubSeq(Defaults, i + 1, Len(Defaults))
  BY <1>1, <1>2, <1>5, <1>6 DEF PendingDefaults
<1>8. /\ PendingDefaults # <<>> /\ Head(PendingDefaults) = Defaults[i]
      /\ PendingDefaults' = Tail(PendingDefaults) /\ PendingDefaults' # PendingDefaults
  BY <1>4, <1>7, PendingIs
<1>9. View' = View
  <2>1. \A q \in Request : Asked(q)' = Asked(q)
    BY <1>5, NullIs DEF Others, Asked
  <2> QED BY <2>1 DEF View
<1>10. InOrder' = InOrder
  BY <1>1, SameRows
<1>11. Abstract!Give
  BY <1>1, <1>2, <1>8, <1>9, <1>10 DEF Abstract!Give, View
<1> QED BY <1>8, <1>11, AbstractNextIs

-----------------------------------------------------------------------------
(* Watchlist implements OrderedList *)

LEMMA InitIs == Init => Abstract!Init
<1> SUFFICES ASSUME Init PROVE Abstract!Init
  OBVIOUS
<1>1. /\ \A s \in Symbol : key[s] = Null
      /\ \A p \in Request : tx[p] = Idle("none")
      /\ tx[Hook] = [Idle("none") EXCEPT !.pc = "draw", !.op = "defaults"]
  BY NullIs DEF Init
<1>2. InOrder = <<>>
  <2>1. Listed = {}
    BY <1>1 DEF Listed
  <2>2. Keys
    BY InitKeeps DEF WatchlistInv
  <2>3. InOrder \in Seq(Symbol) /\ Len(InOrder) = 0
    BY <2>1, <2>2, InOrderIs, FS_EmptySet
  <2> QED BY <2>3, SeqFacts
<1>3. View = [p \in Request |-> <<"none", Null, <<>>, "none">>]
  <2>1. "none" \in Reply
    BY DEF Reply
  <2>2. \A p \in Request : Asked(p) = <<"none", Null, <<>>, "none">>
    BY <1>1, <2>1, IdleIs DEF Asked
  <2> QED BY <2>2 DEF View
<1>4. PendingDefaults = Defaults
  <2>1. tx[Hook].op = "defaults" /\ tx[Hook].i = 1
    BY <1>1 DEF Idle
  <2>2. PendingDefaults = SubSeq(Defaults, 1, Len(Defaults))
    BY <2>1 DEF PendingDefaults
  <2>3. Defaults \in Seq(Code)
    BY WatchlistConstants
  <2> QED BY <2>2, <2>3
<1> QED BY <1>2, <1>3, <1>4 DEF Abstract!Init, Abstract!Nothing, View

\* The end of a transaction that has changed nothing.
LEMMA RollbackIs ==
    ASSUME WatchlistInv, NEW p \in Proc, NEW reply \in Reply, tx[p].pc # "idle",
           Rollback(p, reply),
           \/ p = Hook \/ reply = "error"
           \/ reply = "already" /\ tx[p].op = "add" /\ tx[p].sym \in Listed
           \/ reply = "mismatch" /\ tx[p].op = "reorder"
    PROVE  Abstract!Next \/ UNCHANGED Shown
<1>1. Others(p) /\ tx'[p] = Idle(reply) /\ key' = key
  BY OthersAre DEF Rollback
<1>2. tx[p].op # "none"
  BY DEF WatchlistInv, Shapes, Shape
<1>3. CASE p = Hook
  BY <1>1, <1>3, HookEnds
<1>4. CASE p # Hook
  <2>1. p \in Request
    BY <1>4 DEF Proc
  <2> QED BY <1>1, <1>2, <1>4, <2>1, DeclineIs
<1> QED BY <1>3, <1>4

\* A statement of a transaction that goes on: nothing is seen of it.
LEMMA GoesOnUnseen ==
    ASSUME WatchlistInv, NEW p \in Proc, NEW t, tx' = [tx EXCEPT ![p] = t], key' = key,
           t.op = tx[p].op, t.sym = tx[p].sym, t.order = tx[p].order,
           t.reply = tx[p].reply, p = Hook => t.i = tx[p].i
    PROVE  UNCHANGED Shown
BY OthersAre, Quiet

LEMMA InsertIs ==
    ASSUME WatchlistInv, NEW p \in Proc, NEW s \in Symbol, NEW k, NEW pc,
           tx[p].pc # "idle", InsertRow(p, s, k, pc),
           p = Hook \/ (tx[p].op = "add" /\ tx[p].sym = s)
    PROVE  Abstract!Next \/ UNCHANGED Shown
<1>0. tx[p] \in Tx /\ "already" \in Reply /\ "error" \in Reply
  BY DEF WatchlistInv, Shapes, Shape, Reply
<1>1. CASE key[s] # Null /\ Rollback(p, "already")
  <2>1. s \in Listed
    BY <1>1 DEF Listed
  <2> QED BY <1>0, <1>1, <2>1, RollbackIs
<1>2. CASE Rollback(p, "error")
  BY <1>0, <1>2, RollbackIs
<1>3. CASE /\ tx' = [tx EXCEPT ![p].pc = pc, ![p].write[s] = k]
           /\ UNCHANGED <<key, byId, rowLock, userLock>>
  <2> DEFINE t == [tx[p] EXCEPT !.pc = pc, !.write[s] = k]
  <2>1. tx' = [tx EXCEPT ![p] = t]
    BY <1>3, <1>0 DEF Tx, WatchlistInv, Shapes
  <2>2. /\ t.op = tx[p].op /\ t.sym = tx[p].sym /\ t.order = tx[p].order
        /\ t.reply = tx[p].reply /\ t.i = tx[p].i
    BY <1>0 DEF Tx
  <2> HIDE DEF t
  <2> QED BY <1>3, <2>1, <2>2, GoesOnUnseen
<1> QED BY <1>1, <1>2, <1>3 DEF InsertRow

LEMMA UpdateIs ==
    ASSUME WatchlistInv, NEW p \in Proc, NEW k, NEW next,
           tx[p].op = "reorder", p \in Request, UpdateEntry(p, k, next)
    PROVE  Abstract!Next \/ UNCHANGED Shown
<1> DEFINE s == tx[p].order[tx[p].i]
           last == tx[p].i = Len(tx[p].order)
<1>0. tx[p] \in Tx /\ tx[p].pc # "idle" /\ "mismatch" \in Reply /\ "error" \in Reply
      /\ p # Hook
  BY NullIs DEF WatchlistInv, Shapes, Shape, ReorderShape, Reply
<1>1. CASE Rollback(p, "mismatch") \/ Rollback(p, "error")
  BY <1>0, <1>1, RollbackIs
<1>2. CASE /\ tx' = [tx EXCEPT ![p].write[s] = k, ![p].i = IF last THEN 1 ELSE @ + 1,
                               ![p].pc = IF last THEN next ELSE @]
           /\ UNCHANGED <<key, byId, userLock>>
  <2> DEFINE t == [tx[p] EXCEPT !.write[s] = k, !.i = IF last THEN 1 ELSE @ + 1,
                                !.pc = IF last THEN next ELSE @]
  <2>1. tx' = [tx EXCEPT ![p] = t]
    <3> HIDE DEF s, last
    <3> QED BY <1>0, <1>2 DEF Tx, WatchlistInv, Shapes
  <2>2. /\ t.op = tx[p].op /\ t.sym = tx[p].sym /\ t.order = tx[p].order
        /\ t.reply = tx[p].reply
    <3> HIDE DEF s, last
    <3> QED BY <1>0 DEF Tx
  <2> HIDE DEF t
  <2> QED BY <1>0, <1>2, <2>1, <2>2, GoesOnUnseen
<1> QED BY <1>1, <1>2 DEF UpdateEntry

LEMMA CommitIs ==
    ASSUME WatchlistInv, NEW p \in Proc, Commit(p)
    PROVE  Abstract!Next
<1>1. p \in Request /\ tx[p].op \in {"add", "reorder"}
  BY DEF Commit, WatchlistInv, Shapes, Shape, DefaultsShape
<1> QED BY <1>1, AddIs, ReorderIs

\* Statements that only lock or read.
LEMMA ReadIs ==
    ASSUME WatchlistInv, NEW p \in Proc,
           \/ LockWatchlistUser(p) \/ MaxWatchlistSortKey(p)
           \/ DrawId(p) \/ StartLocking(p) \/ LockNextRow(p)
    PROVE  UNCHANGED Shown
<1>0. tx[p] \in Tx /\ DOMAIN tx = Proc
  BY DEF WatchlistInv, Shapes, Shape
<1> DEFINE same(t) == /\ tx' = [tx EXCEPT ![p] = t]
                      /\ t.op = tx[p].op /\ t.sym = tx[p].sym /\ t.order = tx[p].order
                      /\ t.reply = tx[p].reply /\ t.i = tx[p].i
<1>1. CASE LockWatchlistUser(p)
  <2>1. key' = key /\ same([tx[p] EXCEPT !.pc = "max"])
    BY <1>0, <1>1 DEF LockWatchlistUser, Tx
  <2> QED BY <2>1, GoesOnUnseen
<1>2. CASE MaxWatchlistSortKey(p)
  <2>1. PICK k : key' = key /\ tx' = [tx EXCEPT ![p].pc = "draw", ![p].k = k]
    BY <1>2 DEF MaxWatchlistSortKey
  <2>2. same([tx[p] EXCEPT !.pc = "draw", !.k = k])
    BY <1>0, <2>1 DEF Tx
  <2> QED BY <2>1, <2>2, GoesOnUnseen
<1>3. CASE StartLocking(p)
  <2> DEFINE l == SortedBy(Listed, Id)
             b == Hook \in ToSet(byId)
  <2>1. key' = key /\ tx' = [tx EXCEPT ![p].pc = "lock", ![p].todo = l, ![p].blind = b]
    BY <1>3 DEF StartLocking
  <2> HIDE DEF l, b
  <2>2. same([tx[p] EXCEPT !.pc = "lock", !.todo = l, !.blind = b])
    BY <1>0, <2>1 DEF Tx
  <2> QED BY <2>1, <2>2, GoesOnUnseen
<1>4. CASE LockNextRow(p)
  <2>1. key' = key /\ same([tx[p] EXCEPT !.todo = Tail(@)])
    BY <1>0, <1>4 DEF LockNextRow, Tx
  <2> QED BY <2>1, GoesOnUnseen
<1>5. CASE DrawId(p)
  <2>1. key' = key /\ same([tx[p] EXCEPT !.pc = "insert"])
    BY <1>0, <1>5 DEF DrawId, Tx
  <2> QED BY <2>1, GoesOnUnseen
<1> QED BY <1>1, <1>2, <1>3, <1>4, <1>5

LEMMA CountIs ==
    ASSUME WatchlistInv, NEW p \in Proc, CheckCount(p)
    PROVE  Abstract!Next \/ UNCHANGED Shown
<1>0. tx[p] \in Tx /\ DOMAIN tx = Proc /\ tx[p].op = "reorder" /\ tx[p].pc = "lock"
      /\ "mismatch" \in Reply
  BY DEF WatchlistInv, Shapes, Shape, AddShape, DefaultsShape, CheckCount, Reply
<1>1. CASE Rollback(p, "mismatch")
  BY <1>0, <1>1, RollbackIs
<1>2. CASE /\ tx' = [tx EXCEPT ![p].pc = IF tx[p].order = <<>> THEN "commit" ELSE "shift"]
           /\ key' = key
  <2> DEFINE t == [tx[p] EXCEPT !.pc = IF tx[p].order = <<>> THEN "commit" ELSE "shift"]
  <2>1. /\ tx' = [tx EXCEPT ![p] = t]
        /\ t.op = tx[p].op /\ t.sym = tx[p].sym /\ t.order = tx[p].order
        /\ t.reply = tx[p].reply /\ t.i = tx[p].i
    BY <1>0, <1>2 DEF Tx
  <2> HIDE DEF t
  <2> QED BY <1>2, <2>1, GoesOnUnseen
<1> QED BY <1>1, <1>2 DEF CheckCount

LEMMA StepIs ==
    ASSUME WatchlistInv, NEW p \in Proc, Step(p) \/ Fail(p)
    PROVE  Abstract!Next \/ UNCHANGED Shown
<1>0. Shape(p, tx[p]) /\ "ok" \in Reply /\ "error" \in Reply
  BY DEF WatchlistInv, Shapes, Reply
<1>1. CASE InsertWatchlist(p)
  <2>1. tx[p].sym \in Symbol
    BY <1>0, <1>1 DEF Shape, AddShape, InsertWatchlist
  <2> QED BY <1>1, <2>1, InsertIs DEF InsertWatchlist
<1>2. CASE InsertDefault(p)
  <2>1. p = Hook /\ Defaults[tx[p].i] \in Symbol
    BY <1>0, <1>2 DEF Shape, DefaultsShape, InsertDefault
  <2>4. InsertRow(p, Defaults[tx[p].i], tx[p].i - 1, "fk") /\ tx[p].pc # "idle"
    BY <1>2 DEF InsertDefault
  <2> DEFINE s == Defaults[tx[p].i]
             k == tx[p].i - 1
  <2> HIDE DEF s, k
  <2>5. s \in Symbol /\ InsertRow(p, s, k, "fk")
    BY <2>1, <2>4 DEF s, k
  <2> QED BY <2>1, <2>4, <2>5, InsertIs
<1>3. CASE DefaultsDone(p)
  <2>1. p = Hook
    BY <1>0, <1>3 DEF Shape, DefaultsDone
  <2> QED BY <1>0, <1>3, <2>1, RollbackIs DEF DefaultsDone
<1>4. CASE Fail(p)
  BY <1>0, <1>4, RollbackIs DEF Fail
<1>5. CASE ShiftEntry(p) \/ PlaceEntry(p)
  <2>1. tx[p].op = "reorder" /\ p \in Request
    BY <1>0, <1>5 DEF Shape, AddShape, DefaultsShape, ShiftEntry, PlaceEntry
  <2> QED BY <1>5, <2>1, UpdateIs DEF ShiftEntry, PlaceEntry
<1> QED
  BY <1>1, <1>2, <1>3, <1>4, <1>5, ReadIs, CountIs, CommitIs, GiveIs, SkipIs DEF Step

LEMMA NextIs ==
    ASSUME WatchlistInv, [Next]_vars
    PROVE  [Abstract!Next]_Shown
<1>1. CASE \E p \in Request : \E s \in Symbol : BeginAdd(p, s)
  BY <1>1, AskAdd
<1>2. CASE \E p \in Request : \E order \in SeqOf(Symbol, Cardinality(Symbol)) :
              BeginReorder(p, order)
  BY <1>2, AskReorder
<1>3. CASE \E s \in Symbol : RemoveSymbol(s)
  BY <1>3, DropIs
<1>4. CASE \E p \in Proc : Step(p) \/ Fail(p)
  BY <1>4, StepIs
<1>5. CASE UNCHANGED vars
  BY <1>5 DEF vars, Shown, InOrder, Listed, View, Asked, PendingDefaults
<1> QED BY <1>1, <1>2, <1>3, <1>4, <1>5 DEF Next

\* The statements of concurrent requests and of the sign-up hook add up to one
\* ordered list on which each of them acts at one instant, or not at all
\* (AddSymbol, RemoveSymbol, ReorderSymbols and InitializeDefaults of usecase.go on
\* the transactions of repository.go).
THEOREM WatchlistIsAnOrderedList == Spec => ActsAsOrderedList
<1>1. WatchlistInv /\ [Next]_vars
          => [Abstract!Next]_<<InOrder, [p \in Request |-> Asked(p)], PendingDefaults>>
  BY NextIs DEF Shown, View
<1> QED BY <1>1, InitIs, WatchlistIsConsistent, PTL DEF Spec, ActsAsOrderedList, Abstract!Spec
=============================================================================
