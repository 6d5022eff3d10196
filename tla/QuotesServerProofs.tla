------------------------- MODULE QuotesServerProofs -------------------------
(***************************************************************************)
(* QuotesServer, for every set of requests, codes and limits: clients stay  *)
(* open under running requests, failures are told apart, and an answer has  *)
(* each requested code once, in order, with the closes that belong to it.   *)
(***************************************************************************)
EXTENDS QuotesServer, FiniteSetTheorems, SequenceTheorems, WellFoundedInduction, TLAPS

Deferrable == Resource \union {"signals"}

-----------------------------------------------------------------------------
(* The process *)

ProcessType ==
    /\ mode \in {"starting", "serving", "draining", "returning", "exited", "killed"}
    /\ step \in 1..5 /\ open \subseteq Resource /\ deferred \in Seq(Deferrable)
    /\ listener \in {"none", "open", "closed"}
    /\ req \in [Request -> {"new", "running", "answered", "cut"}]
    /\ code \in {-1, 0, 1}

\* Run opens one client after the other, and nothing is served before all are open.
Opened ==
    /\ mode = "starting" =>
          /\ step > 1 => "redis" \in open
          /\ step > 2 => "db" \in open
          /\ step > 3 => "vision" \in open
          /\ \A q \in Request : req[q] = "new"
    /\ mode \in {"serving", "draining"} => open = Resource /\ "signals" \in ToSet(deferred)

\* What is open will be closed.
Closes == mode # "killed" => open \subseteq ToSet(deferred)

\* Requests are accepted in one mode alone.
Accepting ==
    /\ mode = "starting" => listener = "none"
    /\ listener = "open" => mode = "serving"
    /\ serverErr => listener = "closed"

\* Run reports 0 only if no request was running, and nothing runs after the end.
Reported ==
    /\ mode \in {"starting", "serving", "draining"} => code = -1
    /\ mode = "returning" => code \in {0, 1}
    /\ mode = "returning" /\ code = 0 => \A q \in Request : req[q] # "running"
    /\ mode \in {"exited", "killed"} => \A q \in Request : req[q] # "running"
    /\ \A q \in Request : req[q] = "cut" => code = 1
    /\ mode = "exited" => deferred = <<>>

ProcessInv == ProcessType /\ Opened /\ Closes /\ Accepting /\ Reported

LEMMA StepNames ==
    /\ Steps[1] = "redis" /\ Steps[2] = "db" /\ Steps[3] = "vision"
    /\ Steps[4] = "wiring" /\ Steps[5] = "signals"
BY DEF Steps

LEMMA StepIs ==
    ASSUME step \in 1..5
    PROVE  /\ Steps[step] = "redis" <=> step = 1
           /\ Steps[step] = "db" <=> step = 2
           /\ Steps[step] = "vision" <=> step = 3
           /\ Steps[step] = "wiring" <=> step = 4
           /\ Steps[step] = "signals" <=> step = 5
<1>1. step = 1 \/ step = 2 \/ step = 3 \/ step = 4 \/ step = 5
    OBVIOUS
<1>2. CASE step = 1
    BY <1>2, StepNames
<1>3. CASE step = 2
    BY <1>3, StepNames
<1>4. CASE step = 3
    BY <1>4, StepNames
<1>5. CASE step = 4
    BY <1>5, StepNames
<1>6. CASE step = 5
    BY <1>6, StepNames
<1> QED
    BY <1>1, <1>2, <1>3, <1>4, <1>5, <1>6

\* A deferred call is registered, or run.
LEMMA Registered ==
    ASSUME NEW s \in Seq(Deferrable), NEW d \in Deferrable
    PROVE  Append(s, d) \in Seq(Deferrable) /\ ToSet(Append(s, d)) = ToSet(s) \union {d}
<1>1. Append(s, d) \in Seq(Deferrable) /\ Len(Append(s, d)) = Len(s) + 1
    OBVIOUS
<1>2. /\ \A i \in 1..Len(s) : Append(s, d)[i] = s[i]
      /\ Append(s, d)[Len(s) + 1] = d
    OBVIOUS
<1>3. DOMAIN s = 1..Len(s) /\ DOMAIN Append(s, d) = 1..(Len(s) + 1) /\ Len(s) \in Nat
    BY <1>1
<1>4. ToSet(Append(s, d)) \subseteq ToSet(s) \union {d}
    BY <1>2, <1>3 DEF ToSet
<1>5. ToSet(s) \subseteq ToSet(Append(s, d)) /\ d \in ToSet(Append(s, d))
    BY <1>2, <1>3 DEF ToSet
<1> QED
    BY <1>1, <1>4, <1>5

LEMMA Unregistered ==
    ASSUME NEW s \in Seq(Deferrable), s # <<>>
    PROVE  Front(s) \in Seq(Deferrable) /\ ToSet(s) \ {Last(s)} \subseteq ToSet(Front(s))
<1>1. Len(s) \in Nat \ {0}
    OBVIOUS
<1>2. Front(s) = SubSeq(s, 1, Len(s) - 1) /\ Last(s) = s[Len(s)]
    BY DEF Front, Last
<1>3. /\ Front(s) \in Seq(Deferrable) /\ Len(Front(s)) = Len(s) - 1
      /\ \A i \in 1..(Len(s) - 1) : Front(s)[i] = s[i]
    <2> DEFINE n == Len(s) - 1
    <2>1. n \in Nat /\ \A i \in 1..n : s[i] \in Deferrable
        BY <1>1
    <2> HIDE DEF n
    <2>2. /\ SubSeq(s, 1, n) \in Seq(Deferrable)
          /\ Len(SubSeq(s, 1, n)) = IF 1 <= n THEN n - 1 + 1 ELSE 0
          /\ \A i \in 1..(n - 1 + 1) : SubSeq(s, 1, n)[i] = s[1 + i - 1]
        BY <2>1, SubSeqProperties
    <2>3. Len(SubSeq(s, 1, n)) = n /\ \A i \in 1..n : SubSeq(s, 1, n)[i] = s[i]
        BY <2>1, <2>2
    <2> QED
        BY <1>2, <2>2, <2>3 DEF n
<1>4. DOMAIN s = 1..Len(s) /\ DOMAIN Front(s) = 1..(Len(s) - 1)
    BY <1>1, <1>3
<1>5. ToSet(s) \ {Last(s)} \subseteq ToSet(Front(s))
    <2> SUFFICES ASSUME NEW x \in ToSet(s), x # Last(s) PROVE x \in ToSet(Front(s))
        OBVIOUS
    <2>1. PICK i \in 1..Len(s) : x = s[i]
        BY <1>4 DEF ToSet
    <2>2. i \in 1..(Len(s) - 1)
        BY <1>1, <1>2, <2>1
    <2>3. x = Front(s)[i] /\ i \in DOMAIN Front(s)
        BY <1>3, <1>4, <2>1, <2>2
    <2> QED
        BY <2>3 DEF ToSet
<1> QED
    BY <1>3, <1>5

LEMMA CutIs ==
    ASSUME ProcessType
    PROVE  /\ CutRunning \in [Request -> {"new", "running", "answered", "cut"}]
           /\ \A q \in Request : CutRunning[q] # "running"
           /\ \A q \in Request : CutRunning[q] = "cut" => req[q] \in {"running", "cut"}
BY DEF ProcessType, CutRunning

LEMMA InitProcess == Init => ProcessInv
<1> SUFFICES ASSUME Init PROVE ProcessInv
    OBVIOUS
<1> USE DEF Init
<1>1. ProcessType
    BY DEF ProcessType
<1>2. Opened /\ Closes /\ Accepting /\ Reported
    BY DEF Opened, Closes, Accepting, Reported
<1> QED
    BY <1>1, <1>2 DEF ProcessInv

LEMMA NextProcess == ProcessInv /\ [Next]_vars => ProcessInv'
<1> SUFFICES ASSUME ProcessInv, [Next]_vars PROVE ProcessInv'
    OBVIOUS
<1>0. ProcessType /\ Opened /\ Closes /\ Accepting /\ Reported
    BY DEF ProcessInv
<1> USE DEF ProcessInv, Resource
<1>1. CASE \E r \in Resource : Open(r)
    <2>1. PICK r \in Resource : Open(r)
        BY <1>1
    <2> USE DEF Open
    <2>2. /\ deferred' \in Seq(Deferrable) /\ ToSet(deferred') = ToSet(deferred) \union {r}
        BY <1>0, <2>1, Registered DEF Deferrable, ProcessType
    <2>3. step \in 1..3 /\ step' = step + 1 /\ r = Steps[step] /\ open' = open \union {r}
        BY <1>0, <2>1, StepIs DEF ProcessType
    <2>4. ProcessType'
        BY <1>0, <2>1, <2>2, <2>3 DEF ProcessType
    <2>5. Opened'
        <3>1. step = 1 \/ step = 2 \/ step = 3
            BY <2>3
        <3> QED
            BY <1>0, <2>1, <2>3, <3>1, StepNames DEF Opened
    <2>6. Closes' /\ Accepting' /\ Reported'
        BY <1>0, <2>1, <2>2 DEF Closes, Accepting, Reported
    <2> QED
        BY <2>4, <2>5, <2>6
<1>2. CASE Wire
    <2>1. step = 4 /\ step' = 5
        BY <1>0, <1>2, StepIs DEF ProcessType, Wire
    <2>2. ProcessType'
        BY <1>0, <1>2, <2>1 DEF ProcessType, Wire
    <2>3. Opened' /\ Closes'
        BY <1>0, <1>2, <2>1 DEF Opened, Closes, Wire
    <2>4. Accepting' /\ Reported'
        BY <1>0, <1>2 DEF Accepting, Reported, Wire
    <2> QED
        BY <2>2, <2>3, <2>4
<1>3. CASE Serve
    <2>1. step = 5
        BY <1>0, <1>3, StepIs DEF ProcessType, Serve
    <2>2. deferred' \in Seq(Deferrable) /\ ToSet(deferred') = ToSet(deferred) \union {"signals"}
        BY <1>0, <1>3, Registered DEF Deferrable, ProcessType, Serve
    <2>3. ProcessType'
        BY <1>0, <1>3, <2>2 DEF ProcessType, Serve
    <2>4. Opened' /\ Closes'
        <3>1. open = Resource
            <4>1. "redis" \in open /\ "db" \in open /\ "vision" \in open /\ open \subseteq Resource
                BY <1>0, <1>3, <2>1 DEF Opened, Serve, ProcessType
            <4> QED
                BY <4>1
        <3> QED
            BY <1>0, <1>3, <2>2, <3>1 DEF Opened, Closes, Serve
    <2>5. Accepting' /\ Reported'
        BY <1>0, <1>3 DEF Accepting, Reported, Serve
    <2> QED
        BY <2>3, <2>4, <2>5
<1>4. CASE StepFails
    <2>1. ProcessType' /\ Opened' /\ Closes'
        BY <1>0, <1>4 DEF ProcessType, Opened, Closes, StepFails, Return
    <2>2. Accepting' /\ Reported'
        BY <1>0, <1>4 DEF Accepting, Reported, StepFails, Return, Opened
    <2> QED
        BY <2>1, <2>2
<1>18. CASE InvalidConfig
    <2>1. ProcessType' /\ Opened' /\ Closes'
        BY <1>0, <1>18 DEF ProcessType, Opened, Closes, InvalidConfig, Return
    <2>2. Accepting' /\ Reported'
        BY <1>0, <1>18 DEF Accepting, Reported, InvalidConfig, Return, Opened
    <2> QED
        BY <2>1, <2>2
<1>5. CASE DeadlinePasses
    BY <1>0, <1>5 DEF ProcessType, Opened, Closes, Accepting, Reported, DeadlinePasses
<1>6. CASE Listen
    BY <1>0, <1>6 DEF ProcessType, Opened, Closes, Accepting, Reported, Listen
<1>7. CASE ListenFails
    BY <1>0, <1>7 DEF ProcessType, Opened, Closes, Accepting, Reported, ListenFails
<1>8. ASSUME NEW q \in Request, Accept(q) PROVE ProcessInv'
    <2>1. mode = "serving"
        BY <1>0, <1>8 DEF Accepting, Accept
    <2>2. ProcessType' /\ Opened' /\ Closes' /\ Accepting'
        BY <1>0, <1>8, <2>1 DEF ProcessType, Opened, Closes, Accepting, Accept
    <2>3. Reported'
        BY <1>0, <1>8, <2>1 DEF ProcessType, Reported, Accept
    <2> QED
        BY <2>2, <2>3
<1>9. ASSUME NEW q \in Request, Answer(q) PROVE ProcessInv'
    <2>1. ProcessType' /\ Closes' /\ Accepting'
        BY <1>0, <1>9 DEF ProcessType, Closes, Accepting, Answer
    <2>2. Opened' /\ Reported'
        BY <1>0, <1>9 DEF ProcessType, Opened, Reported, Answer
    <2> QED
        BY <2>1, <2>2
<1>10. CASE Signal
    <2>1. CASE "signals" \in ToSet(deferred)
        BY <1>0, <1>10, <2>1 DEF ProcessType, Opened, Closes, Accepting, Reported, Signal
    <2>2. CASE "signals" \notin ToSet(deferred)
        <3>1. /\ mode' = "killed" /\ open' = {} /\ req' = CutRunning
              /\ UNCHANGED <<step, deferred, listener, serverErr, code>>
            BY <1>10, <2>2 DEF Signal
        <3>2. mode \in {"starting", "returning"}
            BY <1>0, <1>10, <2>2 DEF ProcessType, Opened, Signal, Alive
        <3>3. ProcessType' /\ Opened' /\ Closes'
            BY <1>0, <3>1, CutIs DEF ProcessType, Opened, Closes
        <3>4. Accepting'
            BY <1>0, <3>1, <3>2 DEF Accepting
        <3>5. \A q \in Request : req'[q] = "cut" => code' = 1
            BY <1>0, <3>1, <3>2, CutIs DEF Reported, Opened
        <3> QED
            BY <1>0, <3>1, <3>3, <3>4, <3>5, CutIs DEF Reported
    <2> QED
        BY <2>1, <2>2
<1>11. CASE SelectError
    BY <1>0, <1>11 DEF ProcessType, Opened, Closes, Accepting, Reported, SelectError, Return
<1>12. CASE SelectSignal
    BY <1>0, <1>12 DEF ProcessType, Opened, Closes, Accepting, Reported, SelectSignal
<1>13. CASE RunDeferred
    <2>1. /\ deferred' \in Seq(Deferrable)
          /\ ToSet(deferred) \ {Last(deferred)} \subseteq ToSet(deferred')
        BY <1>0, <1>13, Unregistered DEF ProcessType, RunDeferred
    <2>2. ProcessType' /\ Opened'
        BY <1>0, <1>13, <2>1 DEF ProcessType, Opened, RunDeferred
    <2>3. Closes'
        BY <1>0, <1>13, <2>1 DEF Closes, RunDeferred
    <2>4. Accepting' /\ Reported'
        BY <1>0, <1>13 DEF Accepting, Reported, RunDeferred
    <2> QED
        BY <2>2, <2>3, <2>4
<1>14. CASE Exit
    <2>1. /\ mode = "returning" /\ deferred = <<>> /\ mode' = "exited" /\ req' = CutRunning
          /\ UNCHANGED <<step, open, deferred, listener, serverErr, code>>
        BY <1>14 DEF Exit
    <2>2. ProcessType' /\ Opened' /\ Closes' /\ Accepting'
        BY <1>0, <2>1, CutIs DEF ProcessType, Opened, Closes, Accepting
    <2>3. \A q \in Request : req'[q] = "cut" => code' = 1
        BY <1>0, <2>1, CutIs DEF Reported
    <2> QED
        BY <1>0, <2>1, <2>2, <2>3, CutIs DEF Reported
<1>15. CASE Drained
    BY <1>0, <1>15 DEF ProcessType, Opened, Closes, Accepting, Reported, Drained, Return, Running
<1>16. CASE DrainTimesOut
    BY <1>0, <1>16 DEF ProcessType, Opened, Closes, Accepting, Reported, DrainTimesOut, Return
<1>17. CASE UNCHANGED vars
    BY <1>0, <1>17 DEF ProcessType, Opened, Closes, Accepting, Reported, vars
<1> QED
    BY <1>1, <1>2, <1>3, <1>4, <1>5, <1>6, <1>7, <1>8, <1>9, <1>10, <1>11, <1>12, <1>13, <1>14,
       <1>15, <1>16, <1>17, <1>18 DEF Next, SetUp, End

-----------------------------------------------------------------------------
(* The handler *)

\* The group has an error only after the request's context has ended, so it is the
\* end of that context that interrupts a lookup.
HandlerInv ==
    /\ DOMAIN task = DOMAIN codes /\ DOMAIN attempts = DOMAIN codes
    /\ gerr => cancelled
    /\ response.status = 500 => gerr
    /\ \A i \in DOMAIN codes : task[i] = "interrupted" => cancelled
    /\ Handler!InterruptionIsNoFailure

LEMMA InitHandler == Handler!Init => HandlerInv
BY DEF Handler!Init, HandlerInv, Handler!InterruptionIsNoFailure, Handler!Slots, Handler!NoResponse

LEMMA NextHandler == HandlerInv /\ [Handler!Next]_handlerVars => HandlerInv'
<1> SUFFICES ASSUME HandlerInv, [Handler!Next]_handlerVars PROVE HandlerInv'
    OBVIOUS
<1> USE DEF HandlerInv, Handler!InterruptionIsNoFailure, Handler!Slots
<1>1. CASE Handler!Begin
    BY <1>1 DEF Handler!Begin, Handler!Unwritten, Handler!NoResponse
<1>2. CASE Handler!Go
    BY <1>2 DEF Handler!Go
<1>3. CASE Handler!Collect
    BY <1>3 DEF Handler!Collect, Handler!Result, Handler!NoResponse
<1>4. CASE Handler!Cancel
    BY <1>4 DEF Handler!Cancel
<1>5. ASSUME NEW i \in DOMAIN codes, Handler!Found(i) PROVE HandlerInv'
    BY <1>5 DEF Handler!Found
<1>6. ASSUME NEW i \in DOMAIN codes, Handler!FindFails(i) PROVE HandlerInv'
    BY <1>6 DEF Handler!FindFails, Handler!GroupDone
<1>7. ASSUME NEW i \in DOMAIN codes, Handler!Judge(i) PROVE HandlerInv'
    BY <1>7 DEF Handler!Judge, Handler!GroupDone, Handler!FetchFailed
<1>8. CASE UNCHANGED handlerVars
    BY <1>8 DEF handlerVars
<1> QED
    BY <1>1, <1>2, <1>3, <1>4, <1>5, <1>6, <1>7, <1>8 DEF Handler!Next, Handler!Goroutine

-----------------------------------------------------------------------------
(* Lists of positions *)

\* A set of numbers that is not empty has a smallest one.
LEMMA Smallest ==
    ASSUME NEW S \in SUBSET Nat, S # {}
    PROVE  \E x \in S : \A y \in S : x <= y
<1>1. PICK x \in S : \A y \in S : <<y, x>> \notin OpToRel(<, Nat)
    BY NatLessThanWellFounded, WFMin, Zenon
<1>2. ASSUME NEW y \in S PROVE x <= y
    <2>1. x \in Nat /\ y \in Nat /\ ~(y < x)
        BY <1>1 DEF OpToRel
    <2> QED
        BY <2>1
<1> QED
    BY <1>2

LEMMA MinIs ==
    ASSUME NEW S \in SUBSET Nat, S # {}
    PROVE  Handler!Min(S) \in S /\ \A y \in S : Handler!Min(S) <= y
<1>1. \E x \in S : \A y \in S : x <= y
    BY Smallest
<1>2. Handler!Min(S) = CHOOSE x \in S : \A y \in S : x <= y
    BY DEF Handler!Min
<1> QED
    BY <1>1, <1>2, Zenon

LEMMA Lesser ==
    ASSUME NEW a \in Nat, NEW b \in Nat
    PROVE  Handler!Min({a, b}) = IF a <= b THEN a ELSE b
<1>1. /\ Handler!Min({a, b}) \in {a, b}
      /\ Handler!Min({a, b}) <= a /\ Handler!Min({a, b}) <= b
    BY MinIs
<1> QED
    BY <1>1

LEMMA Greater ==
    ASSUME NEW a \in Nat, NEW b \in Nat
    PROVE  Handler!Max({a, b}) = IF a <= b THEN b ELSE a
<1>1. \E x \in {a, b} : \A y \in {a, b} : x >= y
    OBVIOUS
<1>2. Handler!Max({a, b}) = CHOOSE x \in {a, b} : \A y \in {a, b} : x >= y
    BY DEF Handler!Max
<1>3. Handler!Max({a, b}) \in {a, b} /\ \A y \in {a, b} : Handler!Max({a, b}) >= y
    BY <1>1, <1>2, Zenon
<1> QED
    BY <1>3

LEMMA SameCount == ASSUME NEW S PROVE Handler!Cardinality(S) = Cardinality(S)
    BY DEF Handler!Cardinality, Cardinality

\* Ranks: how many positions come before.
Before(S, s) == {u \in S : u < s}

LEMMA BeforeCounts ==
    ASSUME NEW S \in SUBSET Nat, IsFiniteSet(S), NEW s \in S
    PROVE  LET B == Before(S, s) IN
           /\ B \in SUBSET S /\ s \notin B
           /\ IsFiniteSet(B) /\ Cardinality(B) \in Nat
           /\ IsFiniteSet(B \cup {s}) /\ Cardinality(B \cup {s}) = Cardinality(B) + 1
<1> DEFINE B == Before(S, s)
<1>1. B \in SUBSET S /\ s \notin B
    BY DEF Before
<1> HIDE DEF B
<1>2. IsFiniteSet(B)
    BY <1>1, FS_Subset
<1>3. Cardinality(B) \in Nat
    BY <1>2, FS_CardinalityType
<1>4. IsFiniteSet(B \cup {s}) /\ Cardinality(B \cup {s}) = Cardinality(B) + 1
    BY <1>1, <1>2, FS_AddElement
<1> QED
    BY <1>1, <1>2, <1>3, <1>4 DEF B

LEMMA Ranked ==
    ASSUME NEW S \in SUBSET Nat, IsFiniteSet(S)
    PROVE  /\ Cardinality(S) \in Nat
           /\ \A s \in S : Cardinality(Before(S, s)) \in 0 .. (Cardinality(S) - 1)
           /\ \A s, u \in S : s < u => Cardinality(Before(S, s)) < Cardinality(Before(S, u))
           /\ \A m \in 0 .. (Cardinality(S) - 1) : \E s \in S : Cardinality(Before(S, s)) = m
<1> DEFINE r(s) == Cardinality(Before(S, s))
           n == Cardinality(S)
<1>0. n \in Nat
    BY FS_CardinalityType
<1>1. \A s \in S : r(s) \in Nat
    BY BeforeCounts
<1>2. ASSUME NEW s \in S PROVE r(s) \in 0 .. (n - 1)
    <2> DEFINE U == Before(S, s) \cup {s}
    <2>1. U \in SUBSET S /\ Cardinality(U) = r(s) + 1
        BY BeforeCounts
    <2> HIDE DEF U
    <2>2. Cardinality(U) <= n
        BY <2>1, FS_Subset
    <2> HIDE DEF r, n
    <2> QED
        BY <1>0, <1>1, <2>1, <2>2
<1>3. ASSUME NEW s \in S, NEW u \in S, s < u PROVE r(s) < r(u)
    <2> DEFINE U == Before(S, s) \cup {s}
               V == Before(S, u)
    <2>1. U \in SUBSET V
        <3>1. \A x \in S : x < s => x < u
            BY <1>3
        <3> QED
            BY <1>3, <3>1 DEF Before
    <2>2. IsFiniteSet(V) /\ Cardinality(U) = r(s) + 1
        BY BeforeCounts
    <2> HIDE DEF U, V
    <2>3. Cardinality(U) <= Cardinality(V)
        BY <2>1, <2>2, FS_Subset
    <2>4. Cardinality(V) = r(u)
        BY DEF V
    <2> HIDE DEF r
    <2> QED
        BY <1>1, <2>2, <2>3, <2>4
<1>4. ASSUME NEW m \in 0 .. (n - 1) PROVE \E s \in S : r(s) = m
    <2> DEFINE f == [s \in S |-> r(s)]
    <2>1. f \in [S -> 0 .. (n - 1)]
        BY <1>2
    <2>2. \A s, u \in S : f[s] = f[u] => s = u
        <3> SUFFICES ASSUME NEW s \in S, NEW u \in S, r(s) = r(u) PROVE s = u
            OBVIOUS
        <3>1. ~(s < u) /\ ~(u < s)
            <4> HIDE DEF r
            <4> QED
                BY <1>1, <1>3
        <3>2. s \in Nat /\ u \in Nat
            OBVIOUS
        <3> QED
            BY <3>1, <3>2
    <2> HIDE DEF r
    <2>3. DOMAIN f = S
        OBVIOUS
    <2> HIDE DEF f, n
    <2>4. f \in Injection(S, 0 .. (n - 1))
        BY <2>1, <2>2, <2>3 DEF Injection, IsInjective
    <2>5. IsFiniteSet(0 .. (n - 1)) /\ Cardinality(0 .. (n - 1)) = n
        BY <1>0, FS_Interval
    <2>6. f \in Surjection(S, 0 .. (n - 1))
        BY <2>4, <2>5, FS_Injection DEF n
    <2>7. \E s \in S : f[s] = m
        BY <2>6, <1>4 DEF Surjection
    <2> QED
        BY <2>7 DEF f
<1> HIDE DEF r, n
<1>5. /\ n \in Nat
      /\ \A s \in S : r(s) \in 0 .. (n - 1)
      /\ \A s, u \in S : s < u => r(s) < r(u)
      /\ \A m \in 0 .. (n - 1) : \E s \in S : r(s) = m
    BY <1>0, <1>2, <1>3, <1>4
<1> QED
    BY <1>5 DEF r, n

\* Ascending lists each position once, in order.
LEMMA AscendingIs ==
    ASSUME NEW S \in SUBSET Nat, IsFiniteSet(S)
    PROVE  LET l == Handler!Ascending(S) IN
           \E k \in Nat :
              /\ l \in [1 .. k -> S]
              /\ \A m, n \in 1 .. k : m < n => l[m] < l[n]
              /\ \A s \in S : \E n \in 1 .. k : l[n] = s
<1> DEFINE r(s) == Cardinality(Before(S, s))
           k == Cardinality(S)
           l == Handler!Ascending(S)
           K == [n \in S |-> n]
           c(s) == Cardinality({u \in S : K[u] < K[s]})
<1>0. \A s \in S : c(s) = r(s)
    <2>1. \A s \in S : {u \in S : K[u] < K[s]} = Before(S, s)
        BY DEF Before
    <2> QED
        BY <2>1
<1>1. l = [n \in 1 .. k |-> CHOOSE s \in S : c(s) = n - 1]
    <2>1. l = Handler!SortedBy(S, K)
        BY DEF Handler!Ascending
    <2>2. l = [n \in 1 .. Handler!Cardinality(S) |->
                 CHOOSE s \in S : Handler!Cardinality({u \in S : K[u] < K[s]}) = n - 1]
        BY <2>1 DEF Handler!SortedBy
    <2> QED
        BY <2>2, SameCount
<1>2. /\ k \in Nat
      /\ \A s \in S : r(s) \in 0 .. (k - 1)
      /\ \A s, u \in S : s < u => r(s) < r(u)
      /\ \A m \in 0 .. (k - 1) : \E s \in S : r(s) = m
    BY Ranked
<1> HIDE DEF r, c, k, l
<1>3. ASSUME NEW n \in 1 .. k PROVE l[n] \in S /\ r(l[n]) = n - 1
    <2>1. n - 1 \in 0 .. (k - 1)
        BY <1>2
    <2>2. \E s \in S : c(s) = n - 1
        BY <1>0, <1>2, <2>1
    <2>3. l[n] = CHOOSE s \in S : c(s) = n - 1
        BY <1>1
    <2>4. l[n] \in S /\ c(l[n]) = n - 1
        BY <2>2, <2>3
    <2> QED
        BY <1>0, <2>4
<1>4. l \in [1 .. k -> S]
    BY <1>1, <1>3
<1>5. ASSUME NEW m \in 1 .. k, NEW n \in 1 .. k, m < n PROVE l[m] < l[n]
    <2>1. l[m] \in S /\ l[n] \in S /\ r(l[m]) = m - 1 /\ r(l[n]) = n - 1
        BY <1>3
    <2>2. ~(l[n] < l[m])
        <3>1. l[n] < l[m] => r(l[n]) < r(l[m])
            BY <1>2, <2>1
        <3>2. r(l[m]) = m - 1 /\ r(l[n]) = n - 1
            BY <2>1
        <3> QED
            BY <1>5, <3>1, <3>2
    <2>3. l[n] # l[m]
        BY <1>2, <1>5, <2>1
    <2>4. l[m] \in Nat /\ l[n] \in Nat
        BY <2>1
    <2> QED
        BY <2>2, <2>3, <2>4
<1>6. ASSUME NEW s \in S PROVE \E n \in 1 .. k : l[n] = s
    <2> DEFINE n == r(s) + 1
    <2>1. n \in 1 .. k
        BY <1>2
    <2>2. l[n] \in S /\ r(l[n]) = r(s)
        BY <1>2, <1>3, <2>1
    <2> HIDE DEF n
    <2>3. ~(l[n] < s) /\ ~(s < l[n])
        <3>1. /\ l[n] < s => r(l[n]) < r(s)
              /\ s < l[n] => r(s) < r(l[n])
            BY <1>2, <2>2
        <3>2. r(l[n]) = r(s) /\ r(s) \in Nat
            BY <1>2, <2>2
        <3> QED
            BY <3>1, <3>2
    <2>4. l[n] \in Nat /\ s \in Nat
        BY <2>2
    <2>5. s = l[n]
        BY <2>3, <2>4
    <2> QED
        BY <2>1, <2>2, <2>5
<1>7. /\ k \in Nat /\ l \in [1 .. k -> S]
      /\ \A m, n \in 1 .. k : m < n => l[m] < l[n]
      /\ \A s \in S : \E n \in 1 .. k : l[n] = s
    BY <1>2, <1>4, <1>5, <1>6
<1> QED
    BY <1>7 DEF l

\* Positions of a list, in order.
LEMMA PositionsInOrder ==
    ASSUME NEW N \in Nat, NEW S \in SUBSET (1 .. N)
    PROVE  \E k \in Nat :
              /\ Handler!Ascending(S) \in [1 .. k -> S]
              /\ \A m, n \in 1 .. k : m < n => Handler!Ascending(S)[m] < Handler!Ascending(S)[n]
              /\ \A s \in S : \E n \in 1 .. k : Handler!Ascending(S)[n] = s
<1>1. IsFiniteSet(1 .. N)
    BY FS_Interval
<1>2. IsFiniteSet(S)
    <2> DEFINE I == 1 .. N
    <2> HIDE DEF I
    <2>1. S \in SUBSET I /\ IsFiniteSet(I)
        BY <1>1 DEF I
    <2> QED
        BY <2>1, FS_Subset
<1>3. S \in SUBSET Nat
    OBVIOUS
<1> QED
    BY <1>2, <1>3, AscendingIs

-----------------------------------------------------------------------------
(* dedupCodes *)

\* Where a code is first asked for.
Place(cs, c) == Handler!Min({n \in DOMAIN cs : cs[n] = c})
First(cs, n) == \A m \in 1 .. (n - 1) : cs[m] # cs[n]

LEMMA FirstPlace ==
    ASSUME NEW C, NEW cs \in Seq(C), NEW n \in DOMAIN cs, First(cs, n)
    PROVE  Place(cs, cs[n]) = n
<1> DEFINE S == {m \in DOMAIN cs : cs[m] = cs[n]}
<1>1. DOMAIN cs \in SUBSET Nat /\ n \in S
    OBVIOUS
<1>2. Handler!Min(S) \in S /\ \A y \in S : Handler!Min(S) <= y
    BY <1>1, MinIs
<1>3. \A m \in S : m \in Nat /\ m \notin 1 .. (n - 1) /\ m >= 1
    BY DEF First
<1>4. Handler!Min(S) \in Nat /\ Handler!Min(S) <= n /\ ~(Handler!Min(S) < n)
    BY <1>1, <1>2, <1>3
<1> QED
    BY <1>1, <1>4 DEF Place

LEMMA HasFirst ==
    ASSUME NEW C, NEW cs \in Seq(C), NEW k \in DOMAIN cs
    PROVE  \E n \in DOMAIN cs : cs[n] = cs[k] /\ First(cs, n)
<1> DEFINE S == {m \in DOMAIN cs : cs[m] = cs[k]}
<1>1. S \in SUBSET Nat /\ S # {}
    OBVIOUS
<1>2. PICK n \in S : \A y \in S : n <= y
    BY <1>1, Smallest
<1>3. n \in DOMAIN cs /\ cs[n] = cs[k] /\ n \in Nat /\ DOMAIN cs = 1 .. Len(cs)
    BY <1>1
<1>4. ASSUME NEW m \in 1 .. (n - 1) PROVE cs[m] # cs[n]
    <2>1. m \in DOMAIN cs /\ ~(n <= m)
        BY <1>3
    <2> QED
        BY <1>2, <1>3, <2>1
<1> QED
    BY <1>3, <1>4 DEF First

\* dedupCodes keeps each code once, in the order of its first occurrence.
LEMMA DedupIs ==
    ASSUME NEW C, NEW cs \in Seq(C)
    PROVE  LET d == Handler!DedupCodes(cs) IN
           /\ d \in Seq(C) /\ Len(d) \in Nat /\ DOMAIN d = 1 .. Len(d)
           /\ Handler!ToSet(d) = Handler!ToSet(cs)
           /\ \A i \in DOMAIN d : Place(cs, d[i]) \in Nat
           /\ \A i, j \in DOMAIN d : i < j => Place(cs, d[i]) < Place(cs, d[j])
<1> DEFINE S == {n \in DOMAIN cs : First(cs, n)}
           l == Handler!Ascending(S)
           d == Handler!DedupCodes(cs)
<1>1. d = [i \in DOMAIN l |-> cs[l[i]]]
    BY DEF Handler!DedupCodes, First
<1>2. S \in SUBSET (1 .. Len(cs)) /\ Len(cs) \in Nat /\ DOMAIN cs = 1 .. Len(cs)
    OBVIOUS
<1>3. PICK k \in Nat :
         /\ l \in [1 .. k -> S]
         /\ \A m, n \in 1 .. k : m < n => l[m] < l[n]
         /\ \A s \in S : \E n \in 1 .. k : l[n] = s
    <2> HIDE DEF S
    <2> QED
        BY <1>2, PositionsInOrder
<1> HIDE DEF l, d
<1>4. DOMAIN d = 1 .. k /\ \A i \in 1 .. k : d[i] = cs[l[i]] /\ l[i] \in DOMAIN cs /\ First(cs, l[i])
    BY <1>1, <1>3
<1>5. d \in Seq(C) /\ Len(d) = k
    <2>1. \A i \in 1 .. k : cs[l[i]] \in C
        BY <1>2, <1>4
    <2>2. d = [i \in 1 .. k |-> cs[l[i]]]
        BY <1>1, <1>3
    <2> QED
        BY <2>1, <2>2
<1>6. \A i \in 1 .. k : Place(cs, d[i]) = l[i]
    BY <1>4, FirstPlace
<1>7. Handler!ToSet(d) \subseteq Handler!ToSet(cs)
    BY <1>4 DEF Handler!ToSet
<1>8. ASSUME NEW m \in DOMAIN cs PROVE cs[m] \in Handler!ToSet(d)
    <2>1. PICK n \in DOMAIN cs : cs[n] = cs[m] /\ First(cs, n)
        BY HasFirst
    <2>2. PICK i \in 1 .. k : l[i] = n
        BY <1>3, <2>1
    <2>3. d[i] = cs[m] /\ i \in DOMAIN d
        BY <1>4, <2>1, <2>2
    <2> QED
        BY <2>3 DEF Handler!ToSet
<1>9. Handler!ToSet(d) = Handler!ToSet(cs)
    BY <1>7, <1>8 DEF Handler!ToSet
<1>10. \A i \in 1 .. k : l[i] \in Nat
    BY <1>2, <1>4
<1>11. /\ d \in Seq(C) /\ Len(d) \in Nat /\ DOMAIN d = 1 .. Len(d)
       /\ Handler!ToSet(d) = Handler!ToSet(cs)
       /\ \A i \in DOMAIN d : Place(cs, d[i]) \in Nat
       /\ \A i, j \in DOMAIN d : i < j => Place(cs, d[i]) < Place(cs, d[j])
    BY <1>3, <1>4, <1>5, <1>6, <1>9, <1>10
<1> QED
    BY <1>11 DEF d

-----------------------------------------------------------------------------
(* buildQuote *)

\* What a quote says of the closes of its code, the newest first.
Tells(q, bars, s) ==
    LET n == Len(q.closes)
    IN  /\ n = Handler!Min({bars, Len(s)})
        /\ n >= 1 => q.closes[n] = q.close
        /\ n >= 2 => q.closes[n - 1] = q.prev

\* The first closes of a list.
LEMMA Newest ==
    ASSUME NEW s \in Seq(Int), NEW k \in 0 .. Len(s)
    PROVE  /\ SubSeq(s, 1, k) \in Seq(Int) /\ Len(SubSeq(s, 1, k)) = k
           /\ \A i \in 1 .. k : SubSeq(s, 1, k)[i] = s[i]
<1>1. \A i \in 1 .. k : s[i] \in Int
    OBVIOUS
<1>2. k \in Nat /\ Len(s) \in Nat
    OBVIOUS
<1>3. /\ SubSeq(s, 1, k) \in Seq(Int)
      /\ Len(SubSeq(s, 1, k)) = IF 1 <= k THEN k - 1 + 1 ELSE 0
      /\ \A i \in 1 .. (k - 1 + 1) : SubSeq(s, 1, k)[i] = s[1 + i - 1]
    BY <1>1, <1>2, SubSeqProperties
<1>4. \A i \in 1 .. k : i \in 1 .. (k - 1 + 1) /\ 1 + i - 1 = i
    BY <1>2
<1> QED
    BY <1>2, <1>3, <1>4

LEMMA QuoteIs ==
    ASSUME NEW s \in Seq(Int), NEW bars \in Nat, NEW c, NEW answer,
           answer = SubSeq(s, 1, Handler!Min({Handler!Max({bars, 2}), Len(s)})),
           ~(Len(answer) < 2)
    PROVE  /\ Handler!BuildQuote(c, answer, bars).code = c
           /\ Tells(Handler!BuildQuote(c, answer, bars), bars, s)
<1> DEFINE q == Handler!BuildQuote(c, answer, bars)
           k == Handler!Min({Handler!Max({bars, 2}), Len(s)})
           b == Handler!Min({bars, k})
<1>1. /\ Len(s) \in Nat
      /\ Handler!Max({bars, 2}) = IF bars <= 2 THEN 2 ELSE bars
    BY Greater
<1>2. k = IF Handler!Max({bars, 2}) <= Len(s) THEN Handler!Max({bars, 2}) ELSE Len(s)
    <2>1. Handler!Max({bars, 2}) \in Nat
        BY <1>1
    <2> QED
        BY <1>1, <2>1, Lesser
<1> HIDE DEF k
<1>3. k \in 0 .. Len(s) /\ k \in Nat
    BY <1>1, <1>2
<1>4. /\ answer \in Seq(Int) /\ Len(answer) = k
      /\ \A i \in 1 .. k : answer[i] = s[i]
    BY <1>3, Newest DEF k
<1>5. b = IF bars <= k THEN bars ELSE k
    BY <1>3, Lesser
<1>6. Handler!Min({bars, Len(s)}) = IF bars <= Len(s) THEN bars ELSE Len(s)
    BY <1>1, Lesser
<1> DEFINE M == Handler!Max({bars, 2})
           e == Handler!Min({bars, Len(s)})
<1> HIDE DEF b, M, e
<1>7. k >= 2 /\ b \in 0 .. k /\ b = e
    <2>1. k >= 2
        BY <1>3, <1>4
    <2>2. M \in Nat /\ M = IF bars <= 2 THEN 2 ELSE bars
        BY <1>1 DEF M
    <2>3. k = IF M <= Len(s) THEN M ELSE Len(s)
        BY <1>2 DEF M
    <2>4. e = IF bars <= Len(s) THEN bars ELSE Len(s)
        BY <1>6 DEF e
    <2> QED
        BY <1>1, <1>3, <1>5, <2>1, <2>2, <2>3, <2>4
<1> DEFINE t == SubSeq(answer, 1, b)
<1>8. /\ t \in Seq(Int) /\ Len(t) = b
      /\ \A i \in 1 .. b : t[i] = answer[i]
    BY <1>4, <1>7, Newest
<1> HIDE DEF t
<1>9. /\ q.code = c /\ q.close = answer[1] /\ q.prev = answer[2]
      /\ q.closes = [i \in 1 .. b |-> t[(b - i) + 1]]
    <2>1. q.code = c /\ q.close = answer[1] /\ q.prev = answer[2] /\ q.closes = Handler!Reverse(t)
        BY <1>4 DEF Handler!BuildQuote, t, b
    <2> QED
        BY <1>8, <2>1 DEF Handler!Reverse
<1> HIDE DEF q
<1>10. Len(q.closes) = b
    BY <1>7, <1>8, <1>9
<1>11. b >= 1 => q.closes[b] = q.close
    <2> SUFFICES ASSUME b >= 1 PROVE q.closes[b] = q.close
        OBVIOUS
    <2> DEFINE f == [i \in 1 .. b |-> t[(b - i) + 1]]
    <2>1. b \in 1 .. b /\ (b - b) + 1 = 1 /\ 1 \in 1 .. b
        BY <1>3, <1>7
    <2>2. f[b] = t[1]
        BY <2>1
    <2> QED
        BY <1>8, <1>9, <2>1, <2>2
<1>12. b >= 2 => q.closes[b - 1] = q.prev
    <2> SUFFICES ASSUME b >= 2 PROVE q.closes[b - 1] = q.prev
        OBVIOUS
    <2> DEFINE f == [i \in 1 .. b |-> t[(b - i) + 1]]
    <2>1. (b - 1) \in 1 .. b /\ (b - (b - 1)) + 1 = 2 /\ 2 \in 1 .. b
        BY <1>3, <1>7
    <2>2. f[b - 1] = t[2]
        BY <2>1
    <2> QED
        BY <1>8, <1>9, <2>1, <2>2
<1>13. q.code = c /\ Tells(q, bars, s)
    BY <1>7, <1>9, <1>10, <1>11, <1>12 DEF Tells, e
<1> QED
    BY <1>13 DEF q

-----------------------------------------------------------------------------
(* The slots *)

\* What the goroutine of a slot has left behind: once it is done, an outcome or an
\* error of the group, and a quote that is the one of the slot's code.
Slot(i) ==
    /\ task[i] \in {"idle", "find", "failed", "interrupted", "done"}
    /\ i <= spawned => task[i] # "idle"
    /\ task[i] = "done" => gerr \/ attempts[i].kind \in {"quote", "failure"}
    /\ attempts[i].kind = "quote" =>
          /\ attempts[i].quote.code = codes[i]
          /\ Tells(attempts[i].quote, request.bars, stock[codes[i]])

SlotsInv ==
    /\ DOMAIN task = DOMAIN codes /\ DOMAIN attempts = DOMAIN codes
    /\ request \in Requests /\ stock \in Stocks
    /\ codes # <<>> =>
          Handler!Valid(request) /\ codes = Handler!DedupCodes(request.codes)
    /\ spawned \in 0 .. Len(codes)
    /\ \A i \in DOMAIN codes : Slot(i)
    /\ AnswerIsExact

LEMMA ValidCodes ==
    ASSUME request \in Requests, Handler!Valid(request)
    PROVE  /\ request.codes \in Seq(Code) /\ request.codes \in Seq(Handler!ToSet(request.codes))
           /\ request.bars \in Nat
<1>1. request.codes \in Seq(Handler!ToSet(request.codes)) /\ MaxBars \in Nat
    BY QuotesAssumption DEF Handler!BoundsAssumption
<1>2. Handler!ToSet(request.codes) \subseteq Code /\ request.bars \in 0 .. MaxBars
    BY DEF Handler!Valid
<1> DEFINE T == Handler!ToSet(request.codes)
           s == request.codes
<1> HIDE DEF T, s
<1>3. s \in Seq(T) /\ T \subseteq Code
    BY <1>1, <1>2 DEF T, s
<1>4. s \in Seq(Code)
    BY <1>3
<1>5. request.bars \in Nat
    BY <1>1, <1>2
<1> QED
    BY <1>1, <1>4, <1>5 DEF s

\* The codes of a request that is being served.
Distinct ==
    /\ codes \in Seq(Code) /\ Len(codes) \in Nat /\ DOMAIN codes = 1 .. Len(codes)
    /\ codes # <<>> =>
          /\ request.bars \in Nat
          /\ Handler!ToSet(codes) = Handler!ToSet(request.codes)
          /\ \A i \in DOMAIN codes : Place(request.codes, codes[i]) \in Nat
          /\ \A i, j \in DOMAIN codes :
                i < j => Place(request.codes, codes[i]) < Place(request.codes, codes[j])

LEMMA CodesAreDistinct == SlotsInv => Distinct
<1> SUFFICES ASSUME SlotsInv PROVE Distinct
    OBVIOUS
<1>1. CASE codes = <<>>
    BY <1>1 DEF Distinct
<1>2. CASE codes # <<>>
    <2>1. /\ request \in Requests /\ Handler!Valid(request)
          /\ codes = Handler!DedupCodes(request.codes)
        BY <1>2 DEF SlotsInv
    <2>2. request.codes \in Seq(Code) /\ request.bars \in Nat
        BY <2>1, ValidCodes
    <2>3. /\ codes \in Seq(Code) /\ Len(codes) \in Nat /\ DOMAIN codes = 1 .. Len(codes)
          /\ Handler!ToSet(codes) = Handler!ToSet(request.codes)
          /\ \A i \in DOMAIN codes : Place(request.codes, codes[i]) \in Nat
          /\ \A i, j \in DOMAIN codes :
                i < j => Place(request.codes, codes[i]) < Place(request.codes, codes[j])
        BY <2>1, <2>2, DedupIs
    <2> QED
        BY <2>2, <2>3 DEF Distinct
<1> QED
    BY <1>1, <1>2

LEMMA InitSlots == Handler!Init => SlotsInv
<1> SUFFICES ASSUME Handler!Init PROVE SlotsInv
    OBVIOUS
<1>1. AnswerIsExact
    BY DEF Handler!Init, Handler!NoResponse, AnswerIsExact, Handler!EachCodeOnce,
           Handler!SparklineEndsNow
<1> QED
    BY <1>1 DEF Handler!Init, SlotsInv

\* An answer is not taken back, and neither is what it is judged by.
LEMMA AnswerKept ==
    ASSUME AnswerIsExact, UNCHANGED <<request, stock>>,
           UNCHANGED response \/ response'.status # 200
    PROVE  AnswerIsExact'
BY DEF AnswerIsExact, Handler!EachCodeOnce, Handler!SparklineEndsNow

LEMMA BeginSlots == ASSUME SlotsInv, Handler!Begin PROVE SlotsInv'
<1>1. /\ codes = <<>> /\ UNCHANGED <<request, stock, spawned, cancelled, gerr>>
      /\ request \in Requests /\ stock \in Stocks /\ spawned = 0
    BY DEF Handler!Begin, SlotsInv
<1>2. CASE Handler!Valid(request)
    <2>1. /\ codes' = Handler!DedupCodes(request.codes) /\ UNCHANGED response
          /\ task' = [i \in DOMAIN codes' |-> "idle"]
          /\ attempts' = [i \in DOMAIN codes' |-> Handler!Unwritten]
        BY <1>2 DEF Handler!Begin
    <2>2. request.codes \in Seq(Code)
        BY <1>1, <1>2, ValidCodes
    <2>3. Len(codes') \in Nat /\ DOMAIN codes' = 1 .. Len(codes')
        BY <2>1, <2>2, DedupIs
    <2>4. Handler!Valid(request)'
        BY <1>1, <1>2 DEF Handler!Valid
    <2>5. \A i \in DOMAIN codes' : Slot(i)'
        BY <1>1, <2>1, <2>3 DEF Slot, Handler!Unwritten
    <2>6. AnswerIsExact'
        BY <1>1, <2>1, AnswerKept DEF SlotsInv
    <2>7. (codes = Handler!DedupCodes(request.codes))'
        BY <1>1, <2>1
    <2> QED
        BY <1>1, <2>1, <2>3, <2>4, <2>5, <2>6, <2>7 DEF SlotsInv
<1>3. CASE ~Handler!Valid(request)
    <2>1. response' = [status |-> 400] /\ UNCHANGED <<codes, task, attempts>>
        BY <1>3 DEF Handler!Begin
    <2>2. AnswerIsExact'
        BY <1>1, <2>1, AnswerKept DEF SlotsInv
    <2> QED
        BY <1>1, <2>1, <2>2 DEF SlotsInv
<1> QED
    BY <1>2, <1>3

\* A step that leaves the answer and the codes alone.
LEMMA SlotSteps ==
    ASSUME SlotsInv, UNCHANGED <<request, stock, codes, response>>,
           DOMAIN task' = DOMAIN task, DOMAIN attempts' = DOMAIN attempts,
           spawned' \in 0 .. Len(codes),
           \A i \in DOMAIN codes : Slot(i)'
    PROVE  SlotsInv'
<1>1. AnswerIsExact'
    BY AnswerKept DEF SlotsInv
<1>2. codes # <<>> => (Handler!Valid(request) /\ codes = Handler!DedupCodes(request.codes))'
    <2> SUFFICES ASSUME codes # <<>>
                 PROVE  Handler!Valid(request)' /\ (codes = Handler!DedupCodes(request.codes))'
        OBVIOUS
    <2>1. Handler!Valid(request) /\ codes = Handler!DedupCodes(request.codes)
        BY DEF SlotsInv
    <2>2. Handler!Valid(request)'
        BY <2>1 DEF Handler!Valid
    <2> QED
        BY <2>1, <2>2
<1> QED
    BY <1>1, <1>2 DEF SlotsInv

LEMMA GoSlots == ASSUME SlotsInv, Handler!Go PROVE SlotsInv'
<1>1. /\ spawned < Len(codes) /\ spawned' = spawned + 1
      /\ task' = [task EXCEPT ![spawned'] = "find"]
      /\ UNCHANGED <<request, stock, codes, attempts, cancelled, gerr, response>>
    BY DEF Handler!Go
<1>2. /\ Len(codes) \in Nat /\ DOMAIN codes = 1 .. Len(codes) /\ spawned \in 0 .. Len(codes)
      /\ DOMAIN task = DOMAIN codes
    BY CodesAreDistinct DEF Distinct, SlotsInv
<1>3. spawned' \in 0 .. Len(codes) /\ DOMAIN task' = DOMAIN task
    BY <1>1, <1>2
<1>4. ASSUME NEW i \in DOMAIN codes PROVE Slot(i)'
    <2>1. Slot(i)
        BY DEF SlotsInv
    <2>2. CASE i = spawned'
        BY <1>1, <1>2, <2>1, <2>2 DEF Slot
    <2>3. CASE i # spawned'
        <3>1. task'[i] = task[i] /\ (i <= spawned' => i <= spawned)
            BY <1>1, <1>2, <2>3
        <3> QED
            BY <1>1, <2>1, <3>1 DEF Slot
    <2> QED
        BY <2>2, <2>3
<1> QED
    BY <1>1, <1>3, <1>4, SlotSteps

\* A goroutine changes its own slot.
LEMMA OwnSlot ==
    ASSUME SlotsInv, NEW i \in DOMAIN codes, NEW t, NEW a,
           task' = [task EXCEPT ![i] = t],
           UNCHANGED attempts \/ attempts' = [attempts EXCEPT ![i] = a],
           UNCHANGED <<request, stock, codes, spawned, response>>, gerr => gerr',
           Slot(i)'
    PROVE  SlotsInv'
<1>1. DOMAIN task' = DOMAIN task /\ DOMAIN attempts' = DOMAIN attempts /\ spawned' \in 0 .. Len(codes)
    BY DEF SlotsInv
<1>2. ASSUME NEW j \in DOMAIN codes, j # i PROVE Slot(j)'
    <2>1. Slot(j) /\ task'[j] = task[j] /\ attempts'[j] = attempts[j]
        BY <1>2 DEF SlotsInv
    <2> QED
        BY <2>1 DEF Slot
<1>3. \A j \in DOMAIN codes : Slot(j)'
    BY <1>2
<1> QED
    BY <1>1, <1>3, SlotSteps

LEMMA FoundSlots == ASSUME SlotsInv, NEW i \in DOMAIN codes, Handler!Found(i) PROVE SlotsInv'
<1> DEFINE cs == stock[codes[i]]
           answer == SubSeq(cs, 1, Handler!Min({Handler!Max({request.bars, 2}), Len(cs)}))
           q == Handler!BuildQuote(codes[i], answer, request.bars)
           a == IF Len(answer) < 2
                THEN [kind |-> "failure", reason |-> "insufficient_data"]
                ELSE [kind |-> "quote", quote |-> q]
<1>1. /\ task[i] = "find"
      /\ attempts' = [attempts EXCEPT ![i] = a] /\ task' = [task EXCEPT ![i] = "done"]
      /\ UNCHANGED <<request, stock, codes, spawned, cancelled, gerr, response>>
    BY DEF Handler!Found
<1>2. cs \in Seq(Int) /\ request.bars \in Nat
    <2>1. codes # <<>>
        OBVIOUS
    <2>2. codes[i] \in Code /\ request.bars \in Nat
        BY <2>1, CodesAreDistinct DEF Distinct
    <2>3. stock \in [Code -> Seq(Int)]
        BY QuotesAssumption DEF Handler!BoundsAssumption, SlotsInv
    <2> QED
        BY <2>2, <2>3
<1>3. ~(Len(answer) < 2) => q.code = codes[i] /\ Tells(q, request.bars, cs)
    <2> HIDE DEF cs
    <2> QED
        BY <1>2, QuoteIs
<1> HIDE DEF q, answer
<1>4. /\ a.kind \in {"quote", "failure"}
      /\ a.kind = "quote" => a.quote.code = codes[i] /\ Tells(a.quote, request.bars, cs)
    BY <1>3
<1> HIDE DEF a
<1>5. task'[i] = "done" /\ attempts'[i] = a
    BY <1>1 DEF SlotsInv
<1>6. Slot(i)'
    BY <1>1, <1>4, <1>5 DEF Slot
<1> QED
    BY <1>1, <1>6, OwnSlot

LEMMA FindFailsSlots ==
    ASSUME SlotsInv, NEW i \in DOMAIN codes, Handler!FindFails(i) PROVE SlotsInv'
<1>1. /\ UNCHANGED <<request, stock, codes, spawned, attempts, cancelled, gerr, response>>
      /\ task[i] = "find"
    BY DEF Handler!FindFails
<1>2. PICK why \in {"failed", "interrupted"} : task' = [task EXCEPT ![i] = why]
    BY DEF Handler!FindFails
<1>3. task'[i] = why /\ Slot(i)
    BY <1>2 DEF SlotsInv
<1>4. Slot(i)'
    BY <1>1, <1>2, <1>3 DEF Slot
<1> QED
    BY <1>1, <1>2, <1>4, OwnSlot

LEMMA JudgeSlots == ASSUME SlotsInv, NEW i \in DOMAIN codes, Handler!Judge(i) PROVE SlotsInv'
<1>1. /\ UNCHANGED <<request, stock, codes, spawned, cancelled, response>>
      /\ task' = [task EXCEPT ![i] = "done"] /\ task[i] \in {"failed", "interrupted"}
    BY DEF Handler!Judge
<1>2. Slot(i) /\ task'[i] = "done"
    BY <1>1 DEF SlotsInv
<1>3. CASE Handler!GroupDone
    <2>1. gerr' = TRUE /\ UNCHANGED attempts
        BY <1>3 DEF Handler!Judge
    <2>2. Slot(i)'
        BY <1>1, <1>2, <2>1 DEF Slot
    <2> QED
        BY <1>1, <2>1, <2>2, OwnSlot
<1>4. CASE ~Handler!GroupDone
    <2>1. attempts' = [attempts EXCEPT ![i] = Handler!FetchFailed(i)] /\ UNCHANGED gerr
        BY <1>4 DEF Handler!Judge
    <2>2. attempts'[i].kind = "failure"
        BY <2>1 DEF SlotsInv, Handler!FetchFailed
    <2>3. Slot(i)'
        BY <1>1, <1>2, <2>1, <2>2 DEF Slot
    <2> QED
        BY <1>1, <2>1, <2>3, OwnSlot
<1> QED
    BY <1>3, <1>4

\* A list of slots, in order, lists their codes in the order of the request.
LEMMA InRequestOrder ==
    ASSUME Distinct, codes # <<>>, NEW k \in Nat, NEW l \in [1 .. k -> DOMAIN codes],
           \A m, n \in 1 .. k : m < n => l[m] < l[n],
           NEW s, DOMAIN s = 1 .. k, \A n \in 1 .. k : s[n] = codes[l[n]]
    PROVE  \A m, n \in DOMAIN s : m < n => Place(request.codes, s[m]) < Place(request.codes, s[n])
<1> SUFFICES ASSUME NEW m \in 1 .. k, NEW n \in 1 .. k, m < n
             PROVE  Place(request.codes, s[m]) < Place(request.codes, s[n])
    OBVIOUS
<1>1. l[m] \in DOMAIN codes /\ l[n] \in DOMAIN codes /\ l[m] < l[n]
    OBVIOUS
<1> QED
    BY <1>1 DEF Distinct

LEMMA CollectSlots == ASSUME SlotsInv, Handler!Collect PROVE SlotsInv'
<1>1. /\ codes # <<>> /\ spawned = Len(codes) /\ Handler!InFlight = {}
      /\ response' = Handler!Result
      /\ UNCHANGED <<request, stock, codes, spawned, task, attempts, cancelled, gerr>>
    BY DEF Handler!Collect
<1>2. Distinct /\ DOMAIN codes = 1 .. Len(codes) /\ Len(codes) \in Nat
    BY CodesAreDistinct DEF Distinct
<1>3. AnswerIsExact'
    <2>1. CASE gerr
        <3>1. response' = [status |-> 500]
            BY <1>1, <2>1 DEF Handler!Result
        <3> QED
            BY <1>1, <3>1, AnswerKept DEF SlotsInv
    <2>2. CASE ~gerr
        <3> DEFINE Q == {i \in DOMAIN codes : attempts[i].kind = "quote"}
                   F == {i \in DOMAIN codes : attempts[i].kind = "failure"}
                   ql == Handler!Ascending(Q)
                   fl == Handler!Ascending(F)
                   quoted == [n \in DOMAIN response'.quotes |-> response'.quotes[n].code]
                   failed == response'.failures
        <3>1. Q \in SUBSET (1 .. Len(codes)) /\ F \in SUBSET (1 .. Len(codes))
            BY <1>2
        <3>2. PICK qk \in Nat :
                 /\ ql \in [1 .. qk -> Q]
                 /\ \A m, n \in 1 .. qk : m < n => ql[m] < ql[n]
                 /\ \A s \in Q : \E n \in 1 .. qk : ql[n] = s
            <4> HIDE DEF Q
            <4> QED
                BY <1>2, <3>1, PositionsInOrder
        <3>3. PICK fk \in Nat :
                 /\ fl \in [1 .. fk -> F]
                 /\ \A m, n \in 1 .. fk : m < n => fl[m] < fl[n]
                 /\ \A s \in F : \E n \in 1 .. fk : fl[n] = s
            <4> HIDE DEF F
            <4> QED
                BY <1>2, <3>1, PositionsInOrder
        <3>4. /\ response'.status = 200
              /\ response'.quotes = [n \in DOMAIN ql |-> attempts[ql[n]].quote]
              /\ response'.failures = [n \in DOMAIN fl |-> codes[fl[n]]]
            BY <1>1, <2>2 DEF Handler!Result, Handler!Slots
        <3> HIDE DEF ql, fl
        <3>5. /\ DOMAIN response'.quotes = 1 .. qk
              /\ \A n \in 1 .. qk : response'.quotes[n] = attempts[ql[n]].quote /\ ql[n] \in Q
            BY <3>2, <3>4
        <3>6. /\ DOMAIN failed = 1 .. fk
              /\ \A n \in 1 .. fk : failed[n] = codes[fl[n]] /\ fl[n] \in F
            BY <3>3, <3>4
        <3>7. \A i \in Q : /\ attempts[i].quote.code = codes[i]
                           /\ Tells(attempts[i].quote, request.bars, stock[codes[i]])
            BY DEF SlotsInv, Slot
        <3>8. DOMAIN quoted = 1 .. qk /\ \A n \in 1 .. qk : quoted[n] = codes[ql[n]]
            BY <3>5, <3>7
        <3>9. \A i \in DOMAIN codes : i \in Q \/ i \in F
            <4> SUFFICES ASSUME NEW i \in DOMAIN codes PROVE i \in Q \/ i \in F
                OBVIOUS
            <4>1. Slot(i) /\ i <= spawned
                BY <1>1, <1>2 DEF SlotsInv
            <4>2. task[i] \notin {"find", "failed", "interrupted"}
                BY <1>1 DEF Handler!InFlight, Handler!Slots
            <4> QED
                BY <2>2, <4>1, <4>2 DEF Slot
        <3>10. Q \cap F = {} /\ Q \subseteq DOMAIN codes /\ F \subseteq DOMAIN codes
            OBVIOUS
        <3> HIDE DEF Q, F, quoted, failed
        <3>11. Handler!ToSet(quoted) = {codes[i] : i \in Q}
            <4>1. \A i \in Q : \E n \in DOMAIN quoted : quoted[n] = codes[i]
                BY <3>2, <3>8
            <4> QED
                BY <3>2, <3>8, <4>1 DEF Handler!ToSet
        <3>12. Handler!ToSet(failed) = {codes[i] : i \in F}
            <4>1. \A i \in F : \E n \in DOMAIN failed : failed[n] = codes[i]
                BY <3>3, <3>6
            <4> QED
                BY <3>3, <3>6, <4>1 DEF Handler!ToSet
        <3>13. Handler!ToSet(quoted) \union Handler!ToSet(failed) = Handler!ToSet(request.codes)
            <4>1. Handler!ToSet(request.codes) = {codes[i] : i \in DOMAIN codes}
                BY <1>1, <1>2 DEF Distinct, Handler!ToSet
            <4> QED
                BY <3>9, <3>10, <3>11, <3>12, <4>1
        <3>14. \A i, j \in DOMAIN codes : codes[i] = codes[j] => i = j
            <4> SUFFICES ASSUME NEW i \in DOMAIN codes, NEW j \in DOMAIN codes, codes[i] = codes[j]
                         PROVE  i = j
                OBVIOUS
            <4> DEFINE x == Place(request.codes, codes[i])
            <4>1. x \in Nat /\ (i < j => x < x) /\ (j < i => x < x)
                BY <1>1, <1>2 DEF Distinct
            <4>2. i \in Nat /\ j \in Nat
                BY <1>2
            <4> QED
                BY <4>1, <4>2
        <3>15. Handler!ToSet(quoted) \cap Handler!ToSet(failed) = {}
            BY <3>10, <3>11, <3>12, <3>14
        <3>16. \A m, n \in DOMAIN quoted :
                  m < n => Place(request.codes, quoted[m]) < Place(request.codes, quoted[n])
            <4>1. ql \in [1 .. qk -> DOMAIN codes]
                BY <3>2, <3>10
            <4> QED
                BY <1>1, <1>2, <3>2, <3>8, <4>1, InRequestOrder
        <3>17. \A m, n \in DOMAIN failed :
                  m < n => Place(request.codes, failed[m]) < Place(request.codes, failed[n])
            <4>1. fl \in [1 .. fk -> DOMAIN codes]
                BY <3>3, <3>10
            <4> QED
                BY <1>1, <1>2, <3>3, <3>6, <4>1, InRequestOrder
        <3>18. Handler!EachCodeOnce'
            BY <1>1, <3>13, <3>15, <3>16, <3>17 DEF Handler!EachCodeOnce, Place, quoted, failed
        <3>19. Handler!SparklineEndsNow'
            <4>1. \A q \in Handler!ToSet(response'.quotes) : Tells(q, request.bars, stock[q.code])
                BY <3>5, <3>7 DEF Handler!ToSet
            <4> QED
                BY <1>1, <4>1 DEF Handler!SparklineEndsNow, Tells
        <3> QED
            BY <3>18, <3>19 DEF AnswerIsExact
    <2> QED
        BY <2>1, <2>2
<1>4. /\ Handler!Valid(request)' /\ (codes = Handler!DedupCodes(request.codes))'
    <2>1. Handler!Valid(request) /\ codes = Handler!DedupCodes(request.codes)
        BY <1>1 DEF SlotsInv
    <2>2. Handler!Valid(request)'
        BY <1>1, <2>1 DEF Handler!Valid
    <2> QED
        BY <1>1, <2>1, <2>2
<1>5. \A i \in DOMAIN codes : Slot(i)'
    BY <1>1 DEF SlotsInv, Slot
<1> QED
    BY <1>1, <1>3, <1>4, <1>5 DEF SlotsInv

LEMMA NextSlots == SlotsInv /\ [Handler!Next]_handlerVars => SlotsInv'
<1> SUFFICES ASSUME SlotsInv, [Handler!Next]_handlerVars PROVE SlotsInv'
    OBVIOUS
<1>1. CASE Handler!Begin
    BY <1>1, BeginSlots
<1>2. CASE Handler!Go
    BY <1>2, GoSlots
<1>3. CASE Handler!Collect
    BY <1>3, CollectSlots
<1>4. CASE Handler!Cancel \/ UNCHANGED handlerVars
    <2>1. UNCHANGED <<request, stock, codes, spawned, task, attempts, gerr, response>>
        BY <1>4 DEF Handler!Cancel, handlerVars
    <2>2. \A i \in DOMAIN codes : Slot(i)'
        BY <2>1 DEF SlotsInv, Slot
    <2>3. spawned' \in 0 .. Len(codes)
        BY <2>1 DEF SlotsInv
    <2> QED
        BY <2>1, <2>2, <2>3, SlotSteps
<1>5. ASSUME NEW i \in DOMAIN codes, Handler!Goroutine(i) PROVE SlotsInv'
    BY <1>5, FoundSlots, FindFailsSlots, JudgeSlots DEF Handler!Goroutine
<1> QED
    BY <1>1, <1>2, <1>3, <1>4, <1>5 DEF Handler!Next, Handler!Slots

-----------------------------------------------------------------------------
(* Together *)

\* Each step is one of the process, of the handler, or of neither.
LEMMA Parts == [ServeNext]_allVars => [Next]_vars /\ [Handler!Next]_handlerVars
<1> SUFFICES ASSUME [ServeNext]_allVars PROVE [Next]_vars /\ [Handler!Next]_handlerVars
    OBVIOUS
<1>1. CASE ByProcess(\/ SetUp \/ DeadlinePasses
                     \/ Listen \/ ListenFails \/ Signal
                     \/ \E q \in Request : Accept(q) \/ AnswerRequest(q)
                     \/ End \/ Drained \/ DrainTimesOut)
    BY <1>1 DEF ByProcess, AnswerRequest, Next
<1>2. CASE \/ ByHandler(Handler!Begin) \/ ByHandler(Handler!Go)
           \/ ByHandler(Handler!Collect) \/ ByHandler(Handler!Cancel)
    BY <1>2 DEF ByHandler, Handler!Next
<1>3. CASE \E i \in DOMAIN codes : ByHandler(Goroutine(i))
    BY <1>3 DEF ByHandler, Goroutine, Lookup, Handler!Next, Handler!Goroutine, Handler!Slots
<1>4. CASE UNCHANGED allVars
    BY <1>4 DEF allVars
<1> QED
    BY <1>1, <1>2, <1>3, <1>4 DEF ServeNext

\* The process and the handler keep their invariants while they run together.
THEOREM ServeInvariance == ServeSpec => [](ProcessInv /\ HandlerInv)
<1>1. ServeInit => ProcessInv /\ HandlerInv
    BY InitProcess, InitHandler DEF ServeInit
<1>2. ProcessInv /\ HandlerInv /\ [ServeNext]_allVars => (ProcessInv /\ HandlerInv)'
    BY Parts, NextProcess, NextHandler
<1> QED
    BY <1>1, <1>2, PTL DEF ServeSpec

\* However signals, the listener's failure and the drain's timeout interleave with
\* requests, Run closes no client under a request it goes on to report as served,
\* and closes all of them before it exits.
THEOREM ClientsOutlive == ServeSpec => []ClientsOutliveRequests
<1>1. ProcessInv => ClientsOutliveRequests
    <2> SUFFICES ASSUME ProcessInv PROVE ClientsOutliveRequests
        OBVIOUS
    <2> USE TracedAssumption DEF ProcessInv
    <2>1. ASSUME req[Traced] = "running", open # Resource PROVE code = 1
        <3>1. mode = "returning"
            BY <2>1 DEF ProcessType, Opened, Reported
        <3> QED
            BY <2>1, <3>1 DEF Reported
    <2>2. \A q \in Request : req[q] = "cut" => code = 1
        BY DEF Reported
    <2>3. mode = "exited" => open = {}
        BY DEF Closes, Reported, ToSet
    <2> QED
        BY <2>1, <2>2, <2>3 DEF ClientsOutliveRequests
<1> QED
    BY <1>1, ServeInvariance, PTL

\* GetQuotes fails as a whole only when its context has ended, and blames a symbol
\* only for a failure of its own, in every interleaving of its goroutines.
THEOREM FailuresApart == ServeSpec => []FailuresToldApart
<1>1. HandlerInv => FailuresToldApart
    BY DEF HandlerInv, FailuresToldApart, Handler!OneFailureIsContained
<1> QED
    BY <1>1, ServeInvariance, PTL

\* Whatever the goroutines' order and whatever the process goes through, GetQuotes
\* answers with each requested code in exactly one list, once and in the order of
\* the request (dedupCodes and the slots of attempts), and with closes that end in
\* the two that buildQuote computes the change from.
THEOREM AnswersAreExact == ServeSpec => []AnswerIsExact
<1>1. ServeInit => SlotsInv
    BY InitSlots DEF ServeInit
<1>2. SlotsInv /\ [ServeNext]_allVars => SlotsInv'
    BY Parts, NextSlots
<1>3. SlotsInv => AnswerIsExact
    BY DEF SlotsInv
<1> QED
    BY <1>1, <1>2, <1>3, PTL DEF ServeSpec
=============================================================================
