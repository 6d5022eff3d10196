----------------------- MODULE IngestExecutionProofs ------------------------
(***************************************************************************)
(* Proofs about a batch process: BatchJob for any number of executions,     *)
(* MarketIngest for any number of symbols and any limits, and their         *)
(* composition.  The composition implements both of its parts, so that each *)
(* invariant is proved where it belongs; the exit code then follows from    *)
(* what links the two.  Then the Redis cache that the job invalidates.      *)
(***************************************************************************)
EXTENDS IngestExecution, CandleCache, FiniteSetTheorems, TLAPS

-----------------------------------------------------------------------------
(* The invariants.                                                          *)

\* The lock is held from TryLock to Unlock as long as the connection lives, which
\* exists until the execution ends.
LockIsHeld ==
    \A i \in Execution :
        /\ exec[i].pc \in {"lock", "locked", "running", "unlock"} => exec[i].link # "none"
        /\ exec[i].pc \in {"locked", "running", "unlock"} /\ exec[i].link = "up" => holder = i

\* An execution that cannot end with exit code 0 any more.
Doomed(i) ==
    \/ exec[i].pc \in {"running", "unlock"} /\ exec[i].link = "cut"
    \/ exec[i].pc = "crashed"
    \/ exec[i].pc = "exited" /\ exec[i].code # 0

OverlapDooms ==
    \A i, j \in Execution : i # j /\ {i, j} \in overlap => Doomed(i) \/ Doomed(j)

BatchInv == TypeOK /\ LockIsHeld /\ OverlapDooms

\* Between Loop and NextSymbol a symbol is in hand.
InHand == {"wait", "sleep", "check", "request", "inflight", "backoff", "answered", "store"}

IngestInv ==
    /\ pc \in InHand \cup {"list", "loop", "exited"}
    /\ live \in BOOLEAN /\ todo \in Nat /\ stored \in Nat /\ blank \in Nat
    /\ result \in [succeeded : Nat, failed : Nat]
    /\ exit \in [err : BOOLEAN, code : {0, 1}]
    /\ pc \in InHand => todo > 0
    /\ pc = "exited" => exit.code = Ingest!ExitCode(result, exit.err)
    /\ Accounting

\* The limiter's window began elapsed ticks ago: what it has let through since, and
\* before.
Window == {a \in admitted : a.age <= limiter.elapsed}
Before == {a \in admitted : a.age > limiter.elapsed}

\* The window holds no more calls than are counted, and neither does the one before
\* it; when the counter may be reset, a tick has passed since the last call.
LimiterInv ==
    /\ admitted \subseteq [call : Nat, age : 0..(Interval - 1)] /\ IsFiniteSet(admitted)
    /\ limiter \in [count : Nat, elapsed : 0..Interval] /\ timer \in Nat
    /\ Cardinality(Window) <= limiter.count /\ Cardinality(Window) <= Limit
    /\ Cardinality(Before) <= Limit
    /\ limiter.elapsed = Interval => \A a \in admitted : a.age >= 1
    /\ pc = "sleep" => limiter.elapsed + timer >= Interval /\ limiter.count > Limit

\* The ingest begins with the job and is over, or was given up, when it returns.
ExitCodeLink ==
    /\ exec[Traced].pc \in {"new", "lock", "locked"} => pc = "list"
    /\ exec[Traced].pc \in {"unlock", "exited"} /\ exec[Traced].code = 0 =>
          pc = "list" \/ (pc = "exited" /\ exit.code = 0)

-----------------------------------------------------------------------------
(* The parts.                                                               *)

LEMMA NextIsBatchJob == [BatchNext]_allVars => [Next]_vars
  BY DEF BatchNext, allVars, AroundJob, Ingesting, ReturnJob, ProcessStep, Next, Step, vars

LEMMA NextIsIngest == [BatchNext]_allVars => [Ingest!Next]_ingestVars
  BY DEF BatchNext, allVars, AroundJob, Ingesting, Ingest!Next

\* The process is a batch job in the sense of BatchJob: the detail of the ingest
\* takes nothing from the locking protocol (batch.run around the job function).
THEOREM ProcessIsBatchJob == BatchSpec => Spec
  <1>1. BatchInit => Init
    BY DEF BatchInit
  <1> QED BY <1>1, NextIsBatchJob, PTL DEF BatchSpec, Spec

\* ... and its job is the ingest of MarketIngest, which the runner only delays.
THEOREM JobIsIngest == BatchSpec => Ingest!Spec
  <1>1. BatchInit => Ingest!Init
    BY DEF BatchInit
  <1>2. [BatchNext]_allVars => [Ingest!Next]_(Ingest!vars)
    BY NextIsIngest DEF ingestVars, Ingest!vars
  <1> QED BY <1>1, <1>2, PTL DEF BatchSpec, Ingest!Spec

-----------------------------------------------------------------------------
(* The lock.                                                                *)

LEMMA SetEffect ==
    ASSUME TypeOK, NEW i \in Execution, NEW l \in {"none", "up", "cut"}, NEW c \in {0, 1, 2},
           NEW p \in {"lock", "locked", "running", "unlock", "exited", "crashed"},
           Set(i, p, l, c)
    PROVE  /\ exec' \in [Execution -> ExecState]
           /\ exec'[i].pc = p /\ exec'[i].link = l /\ exec'[i].code = c
           /\ \A j \in Execution \ {i} : exec'[j] = exec[j]
  <1> DEFINE new == [pc |-> p, link |-> l, code |-> c]
  <1>1. new \in ExecState /\ new.pc = p /\ new.link = l /\ new.code = c
    BY DEF ExecState
  <1>2. exec' = [exec EXCEPT ![i] = new]
    BY DEF Set
  <1> HIDE DEF new
  <1> QED BY <1>1, <1>2 DEF TypeOK

\* A step of i that adds no overlap: i stays doomed, and the lock stays with
\* the others that have it.
LEMMA ExecutionStep ==
    ASSUME BatchInv, NEW i \in Execution, exec' \in [Execution -> ExecState],
           \A j \in Execution \ {i} : exec'[j] = exec[j],
           UNCHANGED overlap, holder' \in Execution \cup {None},
           \A j \in Execution \ {i} : holder = j => holder' = j,
           Doomed(i) => Doomed(i)',
           exec'[i].pc \in {"lock", "locked", "running", "unlock"} => exec'[i].link # "none",
           exec'[i].pc \in {"locked", "running", "unlock"} /\ exec'[i].link = "up" => holder' = i
    PROVE  BatchInv'
  <1>1. TypeOK'
    BY DEF BatchInv, TypeOK
  <1>2. LockIsHeld'
    BY DEF BatchInv, LockIsHeld
  <1>3. \A j \in Execution : Doomed(j) => Doomed(j)'
    BY DEF Doomed
  <1>4. OverlapDooms'
    BY <1>3 DEF BatchInv, OverlapDooms
  <1> QED BY <1>1, <1>2, <1>4 DEF BatchInv

LEMMA InitBatchInv == Init => BatchInv
  <1> SUFFICES ASSUME Init PROVE BatchInv
    OBVIOUS
  <1>1. \A i \in Execution : exec[i].pc = "new"
    BY DEF Init
  <1>2. TypeOK
    BY DEF Init, TypeOK, ExecState
  <1>3. LockIsHeld /\ OverlapDooms
    BY <1>1 DEF Init, LockIsHeld, OverlapDooms
  <1> QED BY <1>2, <1>3 DEF BatchInv

LEMMA OpenJobDBStep == ASSUME BatchInv, NEW i \in Execution, OpenJobDB(i) PROVE BatchInv'
  <1>0. /\ TypeOK /\ exec[i].pc = "locked" /\ exec[i].link \in {"up", "cut"} /\ UNCHANGED holder
        /\ exec[i].link = "up" => holder = i
        /\ holder \in Execution \cup {None}
    BY DEF BatchInv, TypeOK, ExecState, LockIsHeld, OpenJobDB
  <1>1. CASE Set(i, "unlock", exec[i].link, 1) /\ UNCHANGED overlap
    <2>1. /\ exec' \in [Execution -> ExecState]
          /\ exec'[i].pc = "unlock" /\ exec'[i].link = exec[i].link
          /\ \A j \in Execution \ {i} : exec'[j] = exec[j]
      BY <1>0, <1>1, SetEffect
    <2>2. ~Doomed(i)
      BY <1>0 DEF Doomed
    <2> QED BY <1>0, <1>1, <2>1, <2>2, ExecutionStep
  <1>2. CASE /\ Set(i, "running", exec[i].link, 0)
             /\ overlap' = overlap \cup {{i, j} : j \in {k \in Execution : Running(k)}}
    <2>1. /\ exec' \in [Execution -> ExecState]
          /\ exec'[i].pc = "running" /\ exec'[i].link = exec[i].link
          /\ \A j \in Execution \ {i} : exec'[j] = exec[j]
      BY <1>0, <1>2, SetEffect
    <2>2. TypeOK'
      BY <1>0, <1>2, <2>1 DEF TypeOK
    <2>3. LockIsHeld'
      BY <1>0, <2>1 DEF BatchInv, LockIsHeld
    <2>4. \A j \in Execution : Doomed(j) => Doomed(j)'
      BY <1>0, <2>1 DEF Doomed
    <2>5. ASSUME NEW j \in Execution, Running(j) PROVE Doomed(i)' \/ Doomed(j)'
      <3>1. i # j /\ exec'[j] = exec[j]
        BY <1>0, <2>1, <2>5 DEF Running
      <3>2. exec[j].link \in {"up", "cut"} /\ (exec[j].link = "up" => holder = j)
        BY <2>5 DEF BatchInv, TypeOK, ExecState, LockIsHeld, Running
      <3> QED BY <1>0, <2>1, <2>5, <3>1, <3>2 DEF Doomed, Running
    <2>6. ASSUME NEW a \in Execution, NEW b \in Execution, a # b, {a, b} \in overlap'
          PROVE  Doomed(a)' \/ Doomed(b)'
      <3>1. CASE {a, b} \in overlap
        BY <2>4, <2>6, <3>1 DEF BatchInv, OverlapDooms
      <3>2. CASE \E j \in Execution : Running(j) /\ {a, b} = {i, j}
        <4>1. PICK j \in Execution : Running(j) /\ {a, b} = {i, j}
          BY <3>2
        <4>2. (a = i /\ b = j) \/ (a = j /\ b = i)
          BY <2>6, <4>1
        <4> QED BY <2>5, <4>1, <4>2
      <3> QED BY <1>2, <2>6, <3>1, <3>2
    <2>7. OverlapDooms'
      BY <2>6 DEF OverlapDooms
    <2> QED BY <2>2, <2>3, <2>7 DEF BatchInv
  <1> QED BY <1>1, <1>2 DEF OpenJobDB

LEMMA NextBatchInv == BatchInv /\ [Next]_vars => BatchInv'
  <1> SUFFICES ASSUME BatchInv, [Next]_vars PROVE BatchInv'
    OBVIOUS
  <1>0. TypeOK /\ holder \in Execution \cup {None}
        /\ \A i \in Execution : /\ exec[i] \in ExecState /\ i # None
                                /\ exec[i].link \in {"none", "up", "cut"}
                                /\ exec[i].code \in {0, 1, 2}
    BY BatchConstants DEF BatchInv, TypeOK, ExecState
  <1>1. ASSUME NEW i \in Execution, Refuse(i) PROVE BatchInv'
    <2>1. PICK c \in {1, 2} : Set(i, "exited", "none", c)
      BY <1>1 DEF Refuse
    <2>2. /\ exec' \in [Execution -> ExecState] /\ exec'[i].pc = "exited"
          /\ \A j \in Execution \ {i} : exec'[j] = exec[j]
      BY <1>0, <2>1, SetEffect
    <2>3. UNCHANGED <<holder, overlap>> /\ ~Doomed(i)
      BY <1>1 DEF Refuse, Doomed
    <2> QED BY <1>0, <2>2, <2>3, ExecutionStep
  <1>2. ASSUME NEW i \in Execution, OpenLockDB(i) PROVE BatchInv'
    <2>1. /\ exec' \in [Execution -> ExecState] /\ exec'[i].pc = "lock" /\ exec'[i].link = "up"
          /\ \A j \in Execution \ {i} : exec'[j] = exec[j]
      BY <1>0, <1>2, SetEffect DEF OpenLockDB
    <2>2. UNCHANGED <<holder, overlap>> /\ ~Doomed(i)
      BY <1>2 DEF OpenLockDB, Doomed
    <2> QED BY <1>0, <2>1, <2>2, ExecutionStep
  <1>3. ASSUME NEW i \in Execution, TryLock(i) PROVE BatchInv'
    <2>0. UNCHANGED overlap /\ ~Doomed(i)
      BY <1>3 DEF TryLock, Doomed
    <2>1. CASE holder = None /\ Acquire(i) /\ Set(i, "locked", "up", 0)
      <3>1. /\ exec' \in [Execution -> ExecState] /\ exec'[i].pc = "locked"
            /\ exec'[i].link = "up" /\ \A j \in Execution \ {i} : exec'[j] = exec[j]
        BY <1>0, <2>1, SetEffect
      <3>2. holder' = i
        BY <2>1 DEF Acquire
      <3> QED BY <1>0, <2>0, <2>1, <3>1, <3>2, ExecutionStep
    <2>2. CASE \E l \in {"none", "cut"}, c \in {0, 1} : Set(i, "exited", l, c)
      <3>1. /\ exec' \in [Execution -> ExecState] /\ exec'[i].pc = "exited"
            /\ \A j \in Execution \ {i} : exec'[j] = exec[j]
        BY <1>0, <2>2, SetEffect
      <3>2. /\ holder' \in Execution \cup {None}
            /\ \A j \in Execution \ {i} : holder = j => holder' = j
        BY <1>0, <1>3 DEF TryLock, Acquire
      <3> QED BY <2>0, <3>1, <3>2, ExecutionStep
    <2> QED BY <1>3, <2>1, <2>2 DEF TryLock
  <1>4. ASSUME NEW i \in Execution, RunJob(i) PROVE BatchInv'
    <2>1. PICK c \in {0, 1} : Set(i, "unlock", exec[i].link, c)
      BY <1>4 DEF RunJob
    <2>2. /\ exec' \in [Execution -> ExecState]
          /\ exec'[i].pc = "unlock" /\ exec'[i].link = exec[i].link
          /\ \A j \in Execution \ {i} : exec'[j] = exec[j]
      BY <1>0, <2>1, SetEffect
    <2>3. UNCHANGED <<holder, overlap>> /\ exec[i].pc = "running"
      BY <1>4 DEF RunJob, Running
    <2>4. exec[i].link # "none" /\ (exec[i].link = "up" => holder = i)
      BY <2>3 DEF BatchInv, LockIsHeld
    <2>5. Doomed(i) => Doomed(i)'
      BY <2>2, <2>3 DEF Doomed
    <2> QED BY <1>0, <2>2, <2>3, <2>4, <2>5, ExecutionStep
  <1>5. ASSUME NEW i \in Execution, Unlock(i) PROVE BatchInv'
    <2>1. /\ exec' \in [Execution -> ExecState] /\ exec'[i].pc = "exited"
          /\ \A j \in Execution \ {i} : exec'[j] = exec[j]
          /\ exec[i].link # "up" => exec'[i].code = 1
      <3>1. CASE Set(i, "exited", "cut", 1)
        BY <1>0, <3>1, SetEffect
      <3>2. CASE exec[i].link = "up" /\ Set(i, "exited", "none", exec[i].code)
        BY <1>0, <3>2, SetEffect
      <3> QED BY <1>5, <3>1, <3>2 DEF Unlock
    <2>2. /\ UNCHANGED overlap /\ exec[i].pc = "unlock"
          /\ holder' \in Execution \cup {None}
          /\ \A j \in Execution \ {i} : holder = j => holder' = j
      BY <1>0, <1>5 DEF Unlock, Release
    <2>3. Doomed(i) => Doomed(i)'
      BY <2>1, <2>2 DEF Doomed
    <2> QED BY <2>1, <2>2, <2>3, ExecutionStep
  <1>6. ASSUME NEW i \in Execution, CutLink(i) PROVE BatchInv'
    <2> DEFINE new == [exec[i] EXCEPT !.link = "cut"]
    <2>1. /\ new \in ExecState /\ new.pc = exec[i].pc /\ new.link = "cut"
          /\ new.code = exec[i].code
      BY <1>0 DEF ExecState
    <2>2. exec' = [exec EXCEPT ![i] = new] /\ UNCHANGED <<holder, overlap>>
      BY <1>6 DEF CutLink
    <2> HIDE DEF new
    <2>3. /\ exec' \in [Execution -> ExecState] /\ exec'[i] = new
          /\ \A j \in Execution \ {i} : exec'[j] = exec[j]
      BY <1>0, <2>1, <2>2 DEF TypeOK
    <2>4. Doomed(i) => Doomed(i)'
      BY <2>1, <2>3 DEF Doomed
    <2> QED BY <1>0, <2>1, <2>2, <2>3, <2>4, ExecutionStep
  <1>7. ASSUME NEW i \in Execution, Crash(i) PROVE BatchInv'
    <2>1. /\ exec' \in [Execution -> ExecState] /\ exec'[i].pc = "crashed"
          /\ \A j \in Execution \ {i} : exec'[j] = exec[j]
          /\ UNCHANGED <<holder, overlap>>
      BY <1>0, <1>7, SetEffect DEF Crash
    <2>2. Doomed(i)'
      BY <2>1 DEF Doomed
    <2> QED BY <1>0, <2>1, <2>2, ExecutionStep
  <1>8. ASSUME NEW i \in Execution, EndSession(i) PROVE BatchInv'
    <2>1. UNCHANGED <<exec, overlap>> /\ holder = i /\ exec[i].link # "up" /\ holder' = None
      BY <1>8 DEF EndSession
    <2>2. exec' \in [Execution -> ExecState] /\ (Doomed(i) => Doomed(i)')
      BY <1>0, <2>1 DEF TypeOK, Doomed
    <2>3. exec'[i].pc \in {"lock", "locked", "running", "unlock"} => exec'[i].link # "none"
      BY <2>1 DEF BatchInv, LockIsHeld
    <2> QED BY <1>0, <2>1, <2>2, <2>3, ExecutionStep
  <1>9. CASE UNCHANGED vars
    BY <1>9 DEF vars, BatchInv, TypeOK, LockIsHeld, OverlapDooms, Doomed
  <1> QED BY <1>1, <1>2, <1>3, <1>4, <1>5, <1>6, <1>7, <1>8, <1>9, OpenJobDBStep DEF Next, Step

\* An execution with a live lock connection holds the lock from TryLock to Unlock,
\* and whoever overlaps with another one is on the way to a failure
\* (advisory_lock.go, releaseJobLock).
THEOREM BatchInvariance == Spec => []BatchInv
  BY InitBatchInv, NextBatchInv, PTL DEF Spec

\* Two executions of a job overlap only after a lock connection broke, and then
\* they do not both report success: for any number of executions, in BatchJob and
\* in the process around the ingest.
THEOREM OverlapReported == (Spec => []OverlapIsReported) /\ (BatchSpec => []OverlapIsReported)
  <1>1. ASSUME BatchInv PROVE OverlapIsReported
    <2> SUFFICES ASSUME NEW i \in Execution, NEW j \in Execution, i # j
                 PROVE  /\ Running(i) /\ Running(j) => "cut" \in {exec[i].link, exec[j].link}
                        /\ {i, j} \in overlap =>
                              ~(/\ exec[i].pc = "exited" /\ exec[i].code = 0
                                /\ exec[j].pc = "exited" /\ exec[j].code = 0)
      BY DEF OverlapIsReported
    <2>1. Running(i) /\ Running(j) => "cut" \in {exec[i].link, exec[j].link}
      BY <1>1 DEF BatchInv, TypeOK, ExecState, LockIsHeld, Running
    <2>2. {i, j} \in overlap => Doomed(i) \/ Doomed(j)
      BY <1>1 DEF BatchInv, OverlapDooms
    <2> QED BY <2>1, <2>2 DEF Doomed
  <1> QED BY <1>1, BatchInvariance, ProcessIsBatchJob, PTL

-----------------------------------------------------------------------------
(* The ingest.                                                              *)

LEMMA TotalType == Total \in Nat /\ Threshold \in Nat
  BY IngestAssumption DEF Ingest!IngestConstants

LEMMA InitIngestInv == Ingest!Init => IngestInv
  BY TotalType DEF Ingest!Init, IngestInv, InHand, Accounting, Ingest!Accounting

\* A step inside the work on a symbol, or of the environment.
LEMMA InHandStep ==
    ASSUME IngestInv, UNCHANGED <<todo, result, stored, blank, exit>>, live' \in BOOLEAN,
           \/ pc' = pc
           \/ pc # "exited" /\ pc' \in {"list", "loop"}
           \/ pc' \in InHand /\ todo > 0
    PROVE  IngestInv'
  BY DEF IngestInv, InHand, Accounting, Ingest!Accounting, Ingest!ExitCode, Ingest!TooManyFailures

LEMMA ReturnStep ==
    ASSUME IngestInv, UNCHANGED <<todo, result, stored, blank, live>>, NEW err \in BOOLEAN,
           Ingest!Return(err), err \/ todo = 0
    PROVE  IngestInv'
  <1>1. /\ pc' = "exited" /\ exit'.err = err
        /\ exit' = [err |-> err, code |-> Ingest!ExitCode(result, err)]
        /\ exit'.code = Ingest!ExitCode(result, err)
    BY DEF Ingest!Return, Ingest!ExitCode, Ingest!TooManyFailures
  <1>2. exit' \in [err : BOOLEAN, code : {0, 1}]
    BY <1>1 DEF Ingest!ExitCode
  <1>3. exit'.code = Ingest!ExitCode(result', exit'.err)
    BY <1>1 DEF Ingest!ExitCode, Ingest!TooManyFailures
  <1>4. Accounting'
    BY <1>1 DEF IngestInv, Accounting, Ingest!Accounting
  <1> QED BY <1>1, <1>2, <1>3, <1>4 DEF IngestInv, InHand

\* A symbol is finished: counted once, taken from todo, and stored or found blank if
\* it is counted as a success.
LEMMA SymbolStep ==
    ASSUME IngestInv, pc \in InHand, UNCHANGED live, Ingest!NextSymbol,
           \/ /\ result' = [result EXCEPT !.failed = result.failed + 1]
              /\ stored' \in {stored, stored + 1} /\ blank' = blank
           \/ /\ result' = [result EXCEPT !.succeeded = result.succeeded + 1]
              /\ \/ stored' = stored + 1 /\ blank' = blank
                 \/ stored' = stored /\ blank' = blank + 1
    PROVE  IngestInv'
  <1>0. /\ todo \in Nat /\ todo > 0 /\ todo' = todo - 1 /\ stored \in Nat /\ blank \in Nat
        /\ result.succeeded \in Nat /\ result.failed \in Nat
        /\ result \in [succeeded : Nat, failed : Nat]
        /\ result.succeeded + result.failed + todo = Total
        /\ result.succeeded <= stored + blank
        /\ stored + blank <= result.succeeded + result.failed
        /\ live \in BOOLEAN /\ exit \in [err : BOOLEAN, code : {0, 1}]
    BY DEF IngestInv, Ingest!NextSymbol, Accounting, Ingest!Accounting
  <1>1. /\ result' \in [succeeded : Nat, failed : Nat] /\ stored' \in Nat /\ blank' \in Nat
        /\ result'.succeeded + result'.failed = result.succeeded + result.failed + 1
        /\ result'.succeeded <= stored' + blank'
        /\ stored' + blank' <= result'.succeeded + result'.failed
    BY <1>0
  <1>2. todo' \in Nat /\ result'.succeeded + result'.failed + todo' = Total
    BY <1>0, <1>1
  <1>3. CASE pc' = "loop" /\ UNCHANGED exit
    BY <1>0, <1>1, <1>2, <1>3 DEF IngestInv, InHand, Accounting, Ingest!Accounting
  <1>4. CASE Ingest!Return(TRUE)
    <2>1. /\ pc' = "exited" /\ exit' = [err |-> TRUE, code |-> Ingest!ExitCode(result', TRUE)]
      BY <1>4 DEF Ingest!Return
    <2>2. exit'.err = TRUE /\ exit'.code = 1 /\ exit' \in [err : BOOLEAN, code : {0, 1}]
          /\ exit'.code = Ingest!ExitCode(result', exit'.err)
      BY <2>1 DEF Ingest!ExitCode
    <2> QED BY <1>0, <1>1, <1>2, <2>1, <2>2 DEF IngestInv, InHand, Accounting, Ingest!Accounting
  <1> QED BY <1>3, <1>4 DEF Ingest!NextSymbol

LEMMA NextIngestInv == IngestInv /\ [Ingest!Next]_(Ingest!vars) => IngestInv'
  <1> SUFFICES ASSUME IngestInv, [Ingest!Next]_(Ingest!vars) PROVE IngestInv'
    OBVIOUS
  <1>0. live \in BOOLEAN
    BY DEF IngestInv
  <1>1. CASE Ingest!Tick \/ Ingest!Cancel \/ UNCHANGED Ingest!vars
    <2>1. UNCHANGED <<pc, todo, result, stored, blank, exit>> /\ live' \in BOOLEAN
      BY <1>0, <1>1 DEF Ingest!Tick, Ingest!Cancel, Ingest!vars
    <2> QED BY <2>1, InHandStep
  <1>2. CASE Ingest!ListSymbols
    <2>1. CASE pc' = "loop" /\ UNCHANGED exit
      BY <1>0, <1>2, <2>1, InHandStep DEF Ingest!ListSymbols
    <2>2. CASE Ingest!Return(TRUE)
      BY <1>2, <2>2, ReturnStep DEF Ingest!ListSymbols
    <2> QED BY <1>2, <2>1, <2>2 DEF Ingest!ListSymbols
  <1>3. CASE Ingest!Loop
    <2>1. CASE todo > 0 /\ pc' = "wait" /\ UNCHANGED exit
      BY <1>0, <1>3, <2>1, InHandStep DEF Ingest!Loop, InHand
    <2>2. CASE Ingest!Return(TRUE)
      BY <1>3, <2>2, ReturnStep DEF Ingest!Loop
    <2>3. CASE todo = 0 /\ Ingest!Return(FALSE)
      BY <1>3, <2>3, ReturnStep DEF Ingest!Loop
    <2> QED BY <1>3, <2>1, <2>2, <2>3 DEF Ingest!Loop
  <1>4. CASE Ingest!Wait \/ Ingest!Wake \/ Ingest!Answer
    <2>1. /\ UNCHANGED <<live, todo, result, stored, blank, exit>>
          /\ pc \in InHand /\ pc' \in InHand
      BY <1>4 DEF Ingest!Wait, Ingest!Wake, Ingest!Answer, InHand
    <2>2. todo > 0
      BY <2>1 DEF IngestInv
    <2> QED BY <1>0, <2>1, <2>2, InHandStep
  <1>5. CASE Ingest!WakeCancelled
    BY <1>5, ReturnStep DEF Ingest!WakeCancelled
  <1>6. CASE Ingest!CheckContext
    <2>0. pc \in InHand /\ todo > 0 /\ UNCHANGED <<live, todo, result, stored, blank>>
      BY <1>6 DEF Ingest!CheckContext, IngestInv, InHand
    <2>1. CASE pc' = "request" /\ UNCHANGED exit
      BY <1>0, <2>0, <2>1, InHandStep DEF InHand
    <2>2. CASE Ingest!Return(TRUE)
      BY <2>0, <2>2, ReturnStep
    <2> QED BY <1>6, <2>1, <2>2 DEF Ingest!CheckContext
  <1>7. CASE \/ Ingest!Request \/ Ingest!Refused \/ Ingest!Retry
             \/ Ingest!Backoff \/ Ingest!BeforeStore
    <2>0. pc \in InHand /\ todo > 0 /\ UNCHANGED <<live, stored, blank>>
      BY <1>7 DEF Ingest!Request, Ingest!Refused, Ingest!Retry, Ingest!Backoff,
         Ingest!BeforeStore, IngestInv, InHand
    <2>1. CASE pc' \in InHand /\ UNCHANGED <<todo, result, exit>>
      BY <1>0, <2>0, <2>1, InHandStep
    <2>2. CASE Ingest!FailSymbol
      BY <2>0, <2>2, SymbolStep DEF Ingest!FailSymbol
    <2> QED BY <1>7, <2>1, <2>2 DEF Ingest!Request, Ingest!Refused, Ingest!Retry,
           Ingest!Backoff, Ingest!BeforeStore, InHand
  <1>8. CASE Ingest!Store
    <2>0. pc \in InHand /\ UNCHANGED live
      BY <1>8 DEF Ingest!Store, InHand
    <2> QED BY <1>8, <2>0, SymbolStep DEF Ingest!Store, Ingest!FailSymbol
  <1>9. CASE Ingest!StoreNothing
    <2>0. pc \in InHand /\ UNCHANGED live
      BY <1>9 DEF Ingest!StoreNothing, InHand
    <2> QED BY <1>9, <2>0, SymbolStep DEF Ingest!StoreNothing
  <1> QED BY <1>1, <1>2, <1>3, <1>4, <1>5, <1>6, <1>7, <1>8, <1>9 DEF Ingest!Next, Ingest!Step

\* The ingest counts every symbol once, as a success only when its data was written
\* or there was none to write, and computes its exit code from what it counted
\* (IngestAll, UpsertBatch, UpdateLogoURL, ingestExitCode).
THEOREM IngestInvariance == Ingest!Spec => []IngestInv
  BY InitIngestInv, NextIngestInv, PTL DEF Ingest!Spec

\* Wherever the context ends, a request fails or a write is cut off, the summary
\* of the ingest adds up and calls only written symbols succeeded.
THEOREM ExactAccounting == BatchSpec => []Accounting
  <1>1. IngestInv => Accounting
    BY DEF IngestInv
  <1> QED BY <1>1, JobIsIngest, IngestInvariance, PTL

-----------------------------------------------------------------------------
(* The exit code of the process.                                            *)

LEMMA InitLink == BatchInit => ExitCodeLink
  BY TracedAssumption DEF BatchInit, Init, Ingest!Init, ExitCodeLink

LEMMA NextLink == BatchInv /\ ExitCodeLink /\ [BatchNext]_allVars => ExitCodeLink'
  <1> SUFFICES ASSUME BatchInv, ExitCodeLink, [BatchNext]_allVars PROVE ExitCodeLink'
    OBVIOUS
  <1>0. TypeOK /\ Traced \in Execution /\ exec[Traced] \in ExecState
    BY TracedAssumption DEF BatchInv, TypeOK
  <1>1. ASSUME UNCHANGED <<pc, exit>>, exec'[Traced] = exec[Traced] PROVE ExitCodeLink'
    BY <1>1 DEF ExitCodeLink
  <1>2. CASE Ingesting(Ingest!Tick) \/ Ingesting(Ingest!Cancel) \/ Ingesting(Ingest!Step)
    <2>1. exec[Traced].pc = "running" /\ exec' = exec
      BY <1>2 DEF Ingesting, Running, vars
    <2> QED BY <2>1 DEF ExitCodeLink
  <1>3. ASSUME NEW i \in Execution, i # Traced, UNCHANGED ingestVars,
               \/ Refuse(i) \/ ProcessStep(i) \/ ReturnJob(i) \/ CutLink(i) \/ Crash(i)
               \/ EndSession(i)
        PROVE  ExitCodeLink'
    <2>1. exec' = exec \/ \E e : exec' = [exec EXCEPT ![i] = e]
      BY <1>3, Zenon DEF Refuse, ProcessStep, OpenLockDB, TryLock, OpenJobDB, Unlock,
         ReturnJob, RunJob, CutLink, Crash, EndSession, Set
    <2>2. exec'[Traced] = exec[Traced]
      BY <1>0, <1>3, <2>1 DEF TypeOK
    <2> QED BY <1>1, <1>3, <2>2 DEF ingestVars
  <1>4. ASSUME NEW p \in {"lock", "locked", "running", "unlock", "exited", "crashed"},
               NEW l \in {"none", "up", "cut"}, NEW c \in {0, 1, 2}, Set(Traced, p, l, c)
        PROVE  exec'[Traced].pc = p /\ exec'[Traced].link = l /\ exec'[Traced].code = c
    BY <1>0, <1>4, SetEffect
  <1>5. ASSUME UNCHANGED ingestVars,
               \/ Refuse(Traced) \/ OpenLockDB(Traced) \/ TryLock(Traced) \/ OpenJobDB(Traced)
        PROVE  ExitCodeLink'
    <2>1. pc = "list" /\ pc' = "list"
      BY <1>5 DEF ExitCodeLink, ingestVars, Refuse, OpenLockDB, TryLock, OpenJobDB
    <2> QED BY <2>1 DEF ExitCodeLink
  <1>6. ASSUME UNCHANGED ingestVars, ReturnJob(Traced) PROVE ExitCodeLink'
    <2>1. PICK c \in {0, 1} : Set(Traced, "unlock", exec[Traced].link, c)
      BY <1>6 DEF ReturnJob, RunJob
    <2>2. exec'[Traced].pc = "unlock" /\ exec'[Traced].code = c
      BY <1>0, <1>4, <2>1 DEF ExecState
    <2>3. c = 1 \/ (pc = "exited" /\ c = exit.code)
      BY <1>6, <2>2, TracedAssumption DEF ReturnJob
    <2> QED BY <1>6, <2>2, <2>3 DEF ExitCodeLink, ingestVars
  <1>7. ASSUME UNCHANGED ingestVars, Unlock(Traced) PROVE ExitCodeLink'
    <2>1. CASE \E l \in {"none", "up", "cut"} : Set(Traced, "exited", l, exec[Traced].code)
      <3>1. exec'[Traced].pc = "exited" /\ exec'[Traced].code = exec[Traced].code
        BY <1>0, <1>4, <2>1 DEF ExecState
      <3>2. exec[Traced].pc = "unlock"
        BY <1>7 DEF Unlock
      <3> QED BY <1>7, <3>1, <3>2 DEF ExitCodeLink, ingestVars
    <2>2. CASE Set(Traced, "exited", "cut", 1)
      <3>1. exec'[Traced].pc = "exited" /\ exec'[Traced].code = 1
        BY <1>4, <2>2
      <3> QED BY <3>1 DEF ExitCodeLink
    <2> QED BY <1>7, <2>1, <2>2 DEF Unlock
  <1>8. ASSUME UNCHANGED ingestVars, CutLink(Traced) PROVE ExitCodeLink'
    <2>1. exec'[Traced] = [exec[Traced] EXCEPT !.link = "cut"]
      BY <1>0, <1>8 DEF CutLink, TypeOK
    <2>2. exec'[Traced].pc = exec[Traced].pc /\ exec'[Traced].code = exec[Traced].code
      BY <1>0, <2>1 DEF ExecState
    <2> QED BY <1>8, <2>2 DEF ExitCodeLink, ingestVars
  <1>9. ASSUME UNCHANGED ingestVars, Crash(Traced) PROVE ExitCodeLink'
    <2>1. exec'[Traced].pc = "crashed"
      BY <1>4, <1>9 DEF Crash
    <2> QED BY <2>1 DEF ExitCodeLink
  <1>10. ASSUME UNCHANGED ingestVars, EndSession(Traced) \/ UNCHANGED vars PROVE ExitCodeLink'
    BY <1>1, <1>10 DEF EndSession, ingestVars, vars
  <1>11. CASE UNCHANGED allVars
    BY <1>10, <1>11 DEF allVars
  <1>12. CASE \E i \in Execution :
                AroundJob(\/ Refuse(i) \/ ProcessStep(i) \/ ReturnJob(i)
                          \/ CutLink(i) \/ Crash(i) \/ EndSession(i))
    BY <1>3, <1>5, <1>6, <1>7, <1>8, <1>9, <1>10, <1>12 DEF AroundJob, ProcessStep
  <1> QED BY <1>2, <1>11, <1>12 DEF BatchNext

\* Exit code 0 is earned: the process was skipped, or the share of symbols that the
\* threshold asks for was answered, and written as far as there was anything to
\* write, whatever broke, panicked or was cut short on the way (run, IngestAll,
\* ingestExitCode, releaseJobLock).
THEOREM EarnedExitZero == BatchSpec => []ExitZeroIsEarned
  <1>1. BatchSpec => []ExitCodeLink
    BY InitLink, NextLink, BatchInvariance, ProcessIsBatchJob, PTL DEF BatchSpec
  <1>2. ASSUME IngestInv, ExitCodeLink PROVE ExitZeroIsEarned
    <2> SUFFICES ASSUME pc = "exited", exit.code = 0
                 PROVE  (stored + blank) * 100 >= (100 - Threshold) * Total
      BY <1>2 DEF ExitZeroIsEarned, ExitCodeLink
    <2> DEFINE s == result.succeeded
               f == result.failed
    <2>1. /\ s \in Nat /\ f \in Nat /\ stored + blank \in Nat /\ todo \in Nat
          /\ Total \in Nat /\ Threshold \in Nat
      BY <1>2, TotalType DEF IngestInv
    <2>2. ~exit.err /\ ~(f * 100 > Threshold * Total)
      BY <1>2 DEF IngestInv, Ingest!ExitCode, Ingest!TooManyFailures
    <2>3. s + f = Total /\ s <= stored + blank
      BY <1>2, <2>1, <2>2 DEF IngestInv, Accounting, Ingest!Accounting
    <2> DEFINE d == stored + blank
    <2> HIDE DEF s, f, d
    <2>4. (100 - Threshold) * Total = 100 * Total - Threshold * Total
      BY <2>1
    <2>5. d * 100 >= s * 100 /\ s * 100 + f * 100 = 100 * Total
      <3>1. d \in Nat /\ s <= d
        BY <2>1, <2>3 DEF d
      <3> QED BY <2>1, <2>3, <3>1
    <2>6. Threshold * Total \in Nat
      BY <2>1
    <2>7. d * 100 >= (100 - Threshold) * Total
      <3>1. d \in Nat
        BY <2>1 DEF d
      <3> QED BY <2>1, <2>2, <2>4, <2>5, <2>6, <3>1
    <2> QED BY <2>7 DEF d
  <1> QED BY <1>1, <1>2, JobIsIngest, IngestInvariance, PTL

-----------------------------------------------------------------------------
(* The rate limiter.                                                        *)

LEMMA LimiterTypes ==
    /\ Limit \in Nat \ {0} /\ Interval \in Nat \ {0} /\ MaxDelay \in Nat
  BY IngestAssumption DEF Ingest!IngestConstants

\* A set of calls that is covered by some others and one more.
LEMMA OneMore ==
    ASSUME NEW A, NEW B, NEW x, IsFiniteSet(A), B \subseteq A \cup {x}
    PROVE  IsFiniteSet(B) /\ Cardinality(B) <= Cardinality(A) + 1
  <1>1. IsFiniteSet(A \cup {x}) /\ Cardinality(A \cup {x}) \in {Cardinality(A), Cardinality(A) + 1}
    BY FS_AddElement
  <1>2. IsFiniteSet(B) /\ Cardinality(B) <= Cardinality(A \cup {x})
    BY <1>1, FS_Subset
  <1>3. Cardinality(A) \in Nat /\ Cardinality(B) \in Nat
    BY <1>2, FS_CardinalityType
  <1> QED BY <1>1, <1>2, <1>3

LEMMA Parts ==
    ASSUME LimiterInv
    PROVE  /\ IsFiniteSet(Window) /\ IsFiniteSet(Before)
           /\ Cardinality(Window) \in Nat /\ Cardinality(Before) \in Nat
           /\ admitted = Window \cup Before
  <1>1. Window \subseteq admitted /\ Before \subseteq admitted /\ IsFiniteSet(admitted)
    BY DEF Window, Before, LimiterInv
  <1>2. IsFiniteSet(Window) /\ IsFiniteSet(Before)
    BY <1>1, FS_Subset
  <1>3. \A a \in admitted : a.age \in Int /\ limiter.elapsed \in Int
    BY LimiterTypes DEF LimiterInv
  <1>4. admitted = Window \cup Before
    BY <1>3 DEF Window, Before
  <1> QED BY <1>2, <1>4, FS_CardinalityType

LEMMA InitLimiter == Ingest!Init => LimiterInv
  <1> SUFFICES ASSUME Ingest!Init PROVE LimiterInv
    OBVIOUS
  <1>1. /\ admitted = {} /\ limiter = [count |-> 0, elapsed |-> 0] /\ timer = 0 /\ pc = "list"
    BY DEF Ingest!Init
  <1>2. Window = {} /\ Before = {} /\ IsFiniteSet({}) /\ Cardinality({}) = 0
    BY <1>1, FS_EmptySet DEF Window, Before
  <1> QED BY <1>1, <1>2, LimiterTypes DEF LimiterInv

\* A call that is let through in the same window, which has room for it.
LEMMA AdmitInWindow ==
    ASSUME LimiterInv, todo \in Nat, limiter.elapsed < Interval, limiter.count < Limit,
           limiter' = [limiter EXCEPT !.count = limiter.count + 1],
           admitted' = Ingest!Admit, UNCHANGED timer, pc' # "sleep"
    PROVE  LimiterInv'
  <1> DEFINE x == [call |-> todo, age |-> 0]
  <1>1. admitted' = admitted \cup {x} /\ x.age = 0 /\ x \in [call : Nat, age : 0..(Interval - 1)]
    BY LimiterTypes DEF Ingest!Admit
  <1>2. /\ limiter \in [count : Nat, elapsed : 0..Interval]
        /\ limiter' \in [count : Nat, elapsed : 0..Interval]
        /\ limiter'.count = limiter.count + 1 /\ limiter'.elapsed = limiter.elapsed
    BY DEF LimiterInv
  <1> HIDE DEF x
  <1>3. Window' \subseteq Window \cup {x} /\ Before' \subseteq Before
    BY <1>1, <1>2 DEF Window, Before
  <1>4. IsFiniteSet(admitted')
    BY <1>1, FS_AddElement DEF LimiterInv
  <1>5. Cardinality(Window') <= Cardinality(Window) + 1 /\ IsFiniteSet(Window')
    BY <1>3, Parts, OneMore
  <1>6. Cardinality(Before') <= Cardinality(Before) /\ IsFiniteSet(Before')
    BY <1>3, Parts, FS_Subset
  <1>7. Cardinality(Window') \in Nat /\ Cardinality(Before') \in Nat
    BY <1>5, <1>6, FS_CardinalityType
  <1>8. /\ Cardinality(Window) <= limiter.count /\ Cardinality(Before) <= Limit
        /\ timer \in Nat /\ admitted \subseteq [call : Nat, age : 0..(Interval - 1)]
    BY DEF LimiterInv
  <1>9. /\ Cardinality(Window') <= limiter'.count /\ Cardinality(Window') <= Limit
        /\ Cardinality(Before') <= Limit
    BY <1>2, <1>5, <1>6, <1>7, <1>8, Parts, LimiterTypes
  <1>10. limiter'.elapsed # Interval
    BY <1>2, LimiterTypes
  <1> QED BY <1>1, <1>2, <1>4, <1>8, <1>9, <1>10 DEF LimiterInv

\* A call that opens a new window: the last one is what came before.
LEMMA AdmitAfterReset ==
    ASSUME LimiterInv, todo \in Nat, limiter.elapsed = Interval,
           limiter' = [count |-> 1, elapsed |-> 0],
           admitted' = Ingest!Admit, UNCHANGED timer, pc' # "sleep"
    PROVE  LimiterInv'
  <1> DEFINE x == [call |-> todo, age |-> 0]
  <1>1. admitted' = admitted \cup {x} /\ x.age = 0 /\ x \in [call : Nat, age : 0..(Interval - 1)]
    BY LimiterTypes DEF Ingest!Admit
  <1>2. /\ limiter' \in [count : Nat, elapsed : 0..Interval] /\ limiter'.count = 1
        /\ limiter'.elapsed = 0
    BY LimiterTypes
  <1> HIDE DEF x
  <1>3. \A a \in admitted : a.age \in 0..(Interval - 1) /\ a.age >= 1
    BY DEF LimiterInv
  <1>4. Window = admitted
    BY <1>3, LimiterTypes DEF Window
  <1>5. Window' \subseteq {} \cup {x} /\ Before' \subseteq Window
    BY <1>1, <1>2, <1>3, <1>4 DEF Window, Before
  <1>6. IsFiniteSet({}) /\ Cardinality({}) = 0
    BY FS_EmptySet
  <1>7. Cardinality(Window') <= Cardinality({}) + 1 /\ IsFiniteSet(Window')
    BY <1>5, <1>6, OneMore
  <1>8. Cardinality(Before') <= Cardinality(Window) /\ IsFiniteSet(Before')
    BY <1>5, Parts, FS_Subset
  <1>9. Cardinality(Window') \in Nat /\ Cardinality(Before') \in Nat
    BY <1>7, <1>8, FS_CardinalityType
  <1>10. /\ Cardinality(Window) <= Limit
         /\ timer \in Nat /\ admitted \subseteq [call : Nat, age : 0..(Interval - 1)]
    BY DEF LimiterInv
  <1>11. Cardinality(Window') <= 1 /\ Cardinality(Before') <= Limit /\ 1 <= Limit
    BY <1>6, <1>7, <1>8, <1>9, <1>10, Parts, LimiterTypes
  <1>12. IsFiniteSet(admitted')
    BY <1>1, FS_AddElement DEF LimiterInv
  <1> QED BY <1>1, <1>2, <1>9, <1>10, <1>11, <1>12, LimiterTypes DEF LimiterInv

LEMMA LimiterTick == ASSUME LimiterInv, Ingest!Tick PROVE LimiterInv'
  <1> DEFINE aged(a) == [a EXCEPT !.age = a.age + 1]
  <1>1. /\ limiter' = [limiter EXCEPT !.elapsed = IF limiter.elapsed < Interval
                                                 THEN limiter.elapsed + 1 ELSE limiter.elapsed]
        /\ timer' = IF timer > 0 THEN timer - 1 ELSE 0
        /\ admitted' = {aged(a) : a \in {c \in admitted : c.age < Interval - 1}}
        /\ pc' = pc
    BY DEF Ingest!Tick, Ingest!Older
  <1>2. /\ limiter \in [count : Nat, elapsed : 0..Interval] /\ timer \in Nat
        /\ admitted \subseteq [call : Nat, age : 0..(Interval - 1)] /\ IsFiniteSet(admitted)
    BY DEF LimiterInv
  <1>3. /\ limiter' \in [count : Nat, elapsed : 0..Interval] /\ timer' \in Nat
        /\ limiter'.count = limiter.count
        /\ limiter'.elapsed = IF limiter.elapsed < Interval THEN limiter.elapsed + 1
                              ELSE limiter.elapsed
    BY <1>1, <1>2, LimiterTypes
  <1>4. ASSUME NEW b \in admitted'
        PROVE  /\ b \in [call : Nat, age : 0..(Interval - 1)] /\ b.age >= 1
               /\ \E a \in admitted : b = aged(a) /\ b.age = a.age + 1
    <2>1. PICK a \in admitted : a.age < Interval - 1 /\ b = aged(a)
      BY <1>1
    <2>2. a \in [call : Nat, age : 0..(Interval - 1)]
      BY <1>2
    <2>3. b.age = a.age + 1 /\ b \in [call : Nat, age : 0..(Interval - 1)] /\ b.age >= 1
      BY <2>1, <2>2, LimiterTypes
    <2> QED BY <2>1, <2>3
  <1> HIDE DEF aged
  <1>5. Window' \subseteq {aged(a) : a \in Window}
    <2> SUFFICES ASSUME NEW b \in Window' PROVE \E a \in Window : b = aged(a)
      OBVIOUS
    <2>1. b \in admitted' /\ b.age <= limiter'.elapsed
      BY DEF Window
    <2>2. PICK a \in admitted : b = aged(a) /\ b.age = a.age + 1
      BY <1>4, <2>1
    <2>3. a.age \in 0..(Interval - 1)
      BY <1>2
    <2>4. a.age <= limiter.elapsed
      BY <1>2, <1>3, <2>1, <2>2, <2>3, LimiterTypes
    <2> QED BY <2>2, <2>4 DEF Window
  <1>6. Before' \subseteq {aged(a) : a \in Before}
    <2> SUFFICES ASSUME NEW b \in Before' PROVE \E a \in Before : b = aged(a)
      OBVIOUS
    <2>1. b \in admitted' /\ b.age > limiter'.elapsed
      BY DEF Before
    <2>2. PICK a \in admitted : b = aged(a) /\ b.age = a.age + 1
      BY <1>4, <2>1
    <2>3. a.age \in 0..(Interval - 1) /\ b.age \in 0..(Interval - 1)
      BY <1>2, <1>4, <2>1
    <2>4. a.age > limiter.elapsed
      BY <1>2, <1>3, <2>1, <2>2, <2>3, LimiterTypes
    <2> QED BY <2>2, <2>4 DEF Before
  <1>7. ASSUME NEW A, NEW B, IsFiniteSet(A), B \subseteq {aged(a) : a \in A}
        PROVE  IsFiniteSet(B) /\ Cardinality(B) <= Cardinality(A) /\ Cardinality(B) \in Nat
    <2>1. /\ IsFiniteSet({aged(a) : a \in A}) /\ Cardinality({aged(a) : a \in A}) \in Nat
          /\ Cardinality({aged(a) : a \in A}) <= Cardinality(A)
      <3> DEFINE f == [a \in A |-> aged(a)]
      <3>1. f \in Surjection(A, {aged(a) : a \in A})
        BY DEF Surjection
      <3> HIDE DEF f
      <3> QED BY <1>7, <3>1, FS_Surjection, FS_CardinalityType
    <2>2. IsFiniteSet(B) /\ Cardinality(B) <= Cardinality({aged(a) : a \in A})
      BY <1>7, <2>1, FS_Subset
    <2>3. Cardinality(A) \in Nat /\ Cardinality(B) \in Nat
      BY <1>7, <2>2, FS_CardinalityType
    <2> QED BY <2>1, <2>2, <2>3
  <1>8. IsFiniteSet(admitted')
    <2>1. admitted' \subseteq {aged(a) : a \in admitted}
      BY <1>1
    <2> QED BY <1>2, <1>7, <2>1
  <1>9. Cardinality(Window') <= Cardinality(Window) /\ Cardinality(Window') \in Nat
    BY <1>5, <1>7, Parts
  <1>10. Cardinality(Before') <= Cardinality(Before) /\ Cardinality(Before') \in Nat
    BY <1>6, <1>7, Parts
  <1>11. /\ Cardinality(Window) <= limiter.count /\ Cardinality(Window) <= Limit
         /\ Cardinality(Before) <= Limit
         /\ pc = "sleep" => limiter.elapsed + timer >= Interval /\ limiter.count > Limit
    BY DEF LimiterInv
  <1>12. /\ Cardinality(Window') <= limiter'.count /\ Cardinality(Window') <= Limit
         /\ Cardinality(Before') <= Limit
    BY <1>2, <1>3, <1>9, <1>10, <1>11, Parts, LimiterTypes
  <1>13. pc' = "sleep" => limiter'.elapsed + timer' >= Interval /\ limiter'.count > Limit
    BY <1>1, <1>2, <1>3, <1>11, LimiterTypes
  <1> QED BY <1>3, <1>4, <1>8, <1>12, <1>13 DEF LimiterInv

\* What changes neither the counter nor the history; sleeps may begin.
LEMMA LimiterAlone ==
    ASSUME LimiterInv, UNCHANGED <<limiter, admitted>>, timer' \in Nat,
           pc' = "sleep" => pc = "sleep" /\ timer' = timer
    PROVE  LimiterInv'
  BY DEF LimiterInv, Window, Before

LEMMA WaitStep == ASSUME LimiterInv, todo \in Nat, Ingest!Wait PROVE LimiterInv'
  <1> DEFINE l == Ingest!Reset
  <1>1. /\ limiter \in [count : Nat, elapsed : 0..Interval] /\ timer \in Nat
        /\ pc = "wait"
    BY DEF LimiterInv, Ingest!Wait
  <1>2. limiter' = [l EXCEPT !.count = l.count + 1]
    BY DEF Ingest!Wait
  <1>3. CASE limiter.elapsed >= Interval
    <2>1. l = [count |-> 0, elapsed |-> 0]
      BY <1>3 DEF Ingest!Reset
    <2>2. limiter' = [count |-> 1, elapsed |-> 0] /\ limiter'.count = 1
      BY <1>2, <2>1
    <2>3. ~(limiter'.count > Limit) /\ limiter.elapsed = Interval
      BY <1>1, <1>3, <2>2, LimiterTypes
    <2>4. admitted' = Ingest!Admit /\ pc' = "check" /\ UNCHANGED timer
      BY <2>3 DEF Ingest!Wait
    <2> QED BY <2>2, <2>3, <2>4, AdmitAfterReset
  <1>4. CASE ~(limiter.elapsed >= Interval)
    <2>1. limiter' = [limiter EXCEPT !.count = limiter.count + 1]
      BY <1>2, <1>4 DEF Ingest!Reset
    <2>2. /\ limiter' \in [count : Nat, elapsed : 0..Interval]
          /\ limiter'.count = limiter.count + 1 /\ limiter'.elapsed = limiter.elapsed
      BY <1>1, <2>1
    <2>3. CASE /\ limiter'.count <= Limit /\ admitted' = Ingest!Admit
               /\ pc' = "check" /\ UNCHANGED timer
      <3>1. limiter.elapsed < Interval /\ limiter.count < Limit
        BY <1>1, <1>4, <2>2, <2>3, LimiterTypes
      <3> QED BY <2>1, <2>3, <3>1, AdmitInWindow
    <2>4. CASE /\ limiter'.count > Limit /\ timer' = Interval - limiter'.elapsed
               /\ pc' = "sleep" /\ UNCHANGED admitted
      <3>1. timer' \in Nat /\ limiter'.elapsed + timer' = Interval
        BY <1>1, <2>2, <2>4, LimiterTypes
      <3>2. Window' = Window /\ Before' = Before
        BY <2>2, <2>4 DEF Window, Before
      <3>3. Cardinality(Window) <= limiter'.count
        BY <1>1, <2>2, Parts DEF LimiterInv
      <3> QED BY <2>2, <2>4, <3>1, <3>2, <3>3, LimiterTypes DEF LimiterInv
    <2> QED BY <2>3, <2>4 DEF Ingest!Wait
  <1> QED BY <1>3, <1>4

LEMMA WakeStep == ASSUME LimiterInv, todo \in Nat, Ingest!Wake PROVE LimiterInv'
  <1>1. /\ limiter.elapsed \in 0..Interval /\ limiter.elapsed + timer >= Interval /\ timer = 0
    BY DEF LimiterInv, Ingest!Wake
  <1>2. limiter.elapsed = Interval
    BY <1>1, LimiterTypes
  <1> QED BY <1>2, AdmitAfterReset DEF Ingest!Wake

LEMMA WakeCancelledStep == ASSUME LimiterInv, Ingest!WakeCancelled PROVE LimiterInv'
  <1>1. /\ limiter' = [limiter EXCEPT !.count = limiter.count - 1] /\ pc = "sleep"
        /\ timer' = 0 /\ UNCHANGED admitted /\ pc' = "exited"
    BY DEF Ingest!WakeCancelled, Ingest!Return
  <1>2. limiter \in [count : Nat, elapsed : 0..Interval] /\ limiter.count > Limit
    BY <1>1 DEF LimiterInv
  <1>3. /\ limiter' \in [count : Nat, elapsed : 0..Interval] /\ limiter'.count >= Limit
        /\ limiter'.elapsed = limiter.elapsed
    BY <1>1, <1>2, LimiterTypes
  <1>4. Window' = Window /\ Before' = Before
    BY <1>1, <1>3 DEF Window, Before
  <1>5. Cardinality(Window) <= limiter'.count
    BY <1>3, Parts, LimiterTypes DEF LimiterInv
  <1> QED BY <1>1, <1>3, <1>4, <1>5 DEF LimiterInv

LEMMA NextLimiter ==
    IngestInv /\ LimiterInv /\ [Ingest!Next]_(Ingest!vars) => LimiterInv'
  <1> SUFFICES ASSUME IngestInv, LimiterInv, [Ingest!Next]_(Ingest!vars) PROVE LimiterInv'
    OBVIOUS
  <1>1. todo \in Nat /\ timer \in Nat /\ \A d \in 0..MaxDelay : d \in Nat
    BY LimiterTypes DEF IngestInv, LimiterInv
  <1>2. CASE Ingest!Cancel \/ UNCHANGED Ingest!vars
    BY <1>1, <1>2, LimiterAlone DEF Ingest!Cancel, Ingest!vars
  <1>3. CASE Ingest!ListSymbols \/ Ingest!Loop \/ Ingest!CheckContext
    BY <1>1, <1>3, LimiterAlone
       DEF Ingest!ListSymbols, Ingest!Loop, Ingest!CheckContext, Ingest!Return
  <1>4. CASE \/ Ingest!Request \/ Ingest!Answer \/ Ingest!Refused
             \/ Ingest!BeforeStore \/ Ingest!Store \/ Ingest!StoreNothing
    BY <1>1, <1>4, LimiterAlone
       DEF Ingest!Request, Ingest!Answer, Ingest!Refused, Ingest!BeforeStore, Ingest!Store,
           Ingest!StoreNothing, Ingest!FailSymbol, Ingest!NextSymbol, Ingest!Return
  <1>5. CASE Ingest!Retry \/ Ingest!Backoff
    <2>1. UNCHANGED <<limiter, admitted>> /\ timer' \in Nat
      BY <1>1, <1>5 DEF Ingest!Retry, Ingest!Backoff
    <2>2. pc' # "sleep"
      BY <1>5 DEF Ingest!Retry, Ingest!Backoff, Ingest!FailSymbol, Ingest!NextSymbol, Ingest!Return
    <2> QED BY <2>1, <2>2, LimiterAlone
  <1> QED BY <1>1, <1>2, <1>3, <1>4, <1>5, LimiterTick, WaitStep, WakeStep, WakeCancelledStep
             DEF Ingest!Next, Ingest!Step

\* However the calls fall into the limiter's fixed windows, and whether a waiting
\* call is let through or gives up, no interval sees more than twice the limit
\* (RateLimiter.WaitIfNeeded).
THEOREM AtMostTwiceTheLimit == BatchSpec => []TwiceTheLimit
  <1>1. Ingest!Spec => []LimiterInv
    BY InitLimiter, NextLimiter, IngestInvariance, PTL DEF Ingest!Spec
  <1>2. LimiterInv => TwiceTheLimit
    <2>0. Ingest!Cardinality(admitted) = Cardinality(admitted)
      BY DEF Ingest!Cardinality, Cardinality
    <2> SUFFICES ASSUME LimiterInv PROVE Cardinality(admitted) <= 2 * Limit
      BY <2>0 DEF TwiceTheLimit, Ingest!TwiceTheLimit
    <2>1. /\ Cardinality(Window \cup Before)
               = Cardinality(Window) + Cardinality(Before) - Cardinality(Window \cap Before)
      BY Parts, FS_Union
    <2>2. Cardinality(Window \cap Before) \in Nat
      BY Parts, FS_Intersection, FS_CardinalityType
    <2>3. Cardinality(Window) <= Limit /\ Cardinality(Before) <= Limit
      BY DEF LimiterInv
    <2>4. Cardinality(Window \cup Before) <= 2 * Limit
      BY <2>1, <2>2, <2>3, Parts, LimiterTypes
    <2> QED BY <2>4, Parts
  <1> QED BY <1>1, <1>2, JobIsIngest, PTL

-----------------------------------------------------------------------------
(* The cache that a candle ingest invalidates (CandleCache), for every set  *)
(* of keys and readers, every TTL and any number of upserts.  Neither the   *)
(* fairness of its specification nor the order of the readers is used.      *)

\* No entry and no reader is ahead of the table: what a Find stores, it has
\* read from committed rows.
NotAhead ==
    /\ \A k \in Key : cache[k].version <= db[k]
    /\ \A r \in Reader : reader[r].version <= db[reader[r].key]

CacheInv == CacheTypeOK /\ NotAhead /\ StaleHasExcuse

LEMMA NoEntryType == NoEntry \in Entry /\ NoEntry.state = "none" /\ NoEntry.version = 0
  BY CacheConstants DEF NoEntry, Entry

LEMMA InitCacheInv == CacheInit => CacheInv
  <1> SUFFICES ASSUME CacheInit PROVE CacheInv
    OBVIOUS
  <1>1. \A k \in Key : cache[k] \in Entry /\ cache[k].version = 0
    <2>1. \A e \in Inherited : e \in Entry /\ e.version = 0
      BY CacheConstants, NoEntryType DEF Inherited, Entry
    <2>2. \A k \in Key : cache[k] \in Inherited
      BY DEF CacheInit
    <2> QED BY <2>1, <2>2
  <1>2. \A r \in Reader : reader[r] \in ReaderState /\ reader[r].version = 0
    BY CacheConstants DEF CacheInit, ReaderState
  <1>3. CacheTypeOK
    BY <1>1, <1>2, CacheConstants DEF CacheInit, CacheTypeOK
  <1>4. NotAhead
    BY <1>1, <1>2 DEF CacheInit, NotAhead, ReaderState
  <1>5. StaleHasExcuse
    BY <1>1 DEF StaleHasExcuse, Stale, CacheInit
  <1> QED BY <1>3, <1>4, <1>5 DEF CacheInv

\* What one step may do to a reader: begin, go on with the key and the version it
\* has, read the table, or end.
LEMMA DoneEffect ==
    ASSUME CacheTypeOK, NEW r \in Reader, Done(r)
    PROVE  /\ reader' \in [Reader -> ReaderState]
           /\ reader'[r].version = 0
           /\ \A s \in Reader \ {r} : reader'[s] = reader[s]
  <1>1. reader[r] \in ReaderState /\ 0 \in 0..MaxVersion
    BY CacheConstants DEF CacheTypeOK
  <1>2. [reader[r] EXCEPT !.pc = "idle", !.version = 0] \in ReaderState
        /\ [reader[r] EXCEPT !.pc = "idle", !.version = 0].version = 0
    BY <1>1 DEF ReaderState
  <1>3. reader' = [reader EXCEPT ![r] = [reader[r] EXCEPT !.pc = "idle", !.version = 0]]
    BY DEF Done
  <1> QED BY <1>2, <1>3 DEF CacheTypeOK

LEMMA GotoEffect ==
    ASSUME CacheTypeOK, NEW r \in Reader, NEW to \in {"drop", "read"}, Goto(r, to)
    PROVE  /\ reader' \in [Reader -> ReaderState]
           /\ reader'[r].version = reader[r].version /\ reader'[r].key = reader[r].key
           /\ \A s \in Reader \ {r} : reader'[s] = reader[s]
  <1>1. reader[r] \in ReaderState
    BY DEF CacheTypeOK
  <1> DEFINE new == [reader[r] EXCEPT !.pc = to]
  <1>2. new \in ReaderState /\ new.version = reader[r].version /\ new.key = reader[r].key
    BY <1>1 DEF ReaderState
  <1>3. reader' = [reader EXCEPT ![r] = new]
    BY DEF Goto
  <1> QED BY <1>2, <1>3 DEF CacheTypeOK

\* What one tick does to an entry.
Aged(k) ==
    /\ cache[k].left = 0 => cache'[k] = cache[k]
    /\ cache[k].left = 1 => cache'[k] = NoEntry
    /\ cache[k].left \notin {0, 1} => cache'[k] = [cache[k] EXCEPT !.left = cache[k].left - 1]

LEMMA TickEffect == ASSUME Tick PROVE \A k \in Key : Aged(k)
  <1> SUFFICES ASSUME NEW k \in Key PROVE Aged(k)
    OBVIOUS
  <1>1. cache'[k] = CASE cache[k].left = 0 -> cache[k]
                      [] cache[k].left = 1 -> NoEntry
                      [] OTHER -> [cache[k] EXCEPT !.left = cache[k].left - 1]
    BY DEF Tick
  <1>2. CASE cache[k].left = 0
    BY <1>1, <1>2 DEF Aged
  <1>3. CASE cache[k].left = 1
    BY <1>1, <1>3 DEF Aged
  <1>4. CASE cache[k].left \notin {0, 1}
    BY <1>1, <1>4 DEF Aged
  <1> QED BY <1>2, <1>3, <1>4

LEMMA TickStep == ASSUME CacheInv, Tick PROVE CacheInv'
  <1>1. \A k \in Key : cache[k] \in Entry /\ Aged(k)
    BY TickEffect DEF CacheInv, CacheTypeOK
  <1>2. ASSUME NEW k \in Key
        PROVE  /\ cache'[k] \in Entry
               /\ \/ cache'[k].state = "none" /\ cache'[k].version = 0
                  \/ /\ cache[k].left # 1
                     /\ cache'[k].state = cache[k].state
                     /\ cache'[k].version = cache[k].version
    <2>1. CASE cache[k].left = 0
      <3>1. cache'[k] = cache[k]
        BY <1>1, <2>1 DEF Aged
      <3> QED BY <1>1, <2>1, <3>1
    <2>2. CASE cache[k].left = 1
      BY <1>1, <2>2, NoEntryType DEF Aged
    <2>3. CASE cache[k].left \notin {0, 1}
      <3>1. cache'[k] = [cache[k] EXCEPT !.left = cache[k].left - 1]
        BY <1>1, <2>3 DEF Aged
      <3>2. cache[k].left \in 0..TTL /\ cache[k].left - 1 \in 0..TTL
        BY <1>1, <2>3, CacheConstants DEF Entry
      <3> QED BY <1>1, <2>3, <3>1, <3>2 DEF Entry
    <2> QED BY <2>1, <2>2, <2>3
  <1>3. UNCHANGED <<db, redisUp, reader, writer>> /\ excused' = {k \in excused : cache[k].left # 1}
    BY DEF Tick
  <1>4. CacheTypeOK'
    <2>1. cache' = [k \in Key |-> cache'[k]]
      BY DEF Tick
    <2> QED BY <1>2, <1>3, <2>1 DEF CacheInv, CacheTypeOK
  <1>5. NotAhead'
    BY <1>2, <1>3 DEF CacheInv, NotAhead, CacheTypeOK
  <1>6. StaleHasExcuse'
    BY <1>2, <1>3 DEF CacheInv, StaleHasExcuse, Stale
  <1> QED BY <1>4, <1>5, <1>6 DEF CacheInv

LEMMA UpsertStep ==
    ASSUME CacheInv, NEW K \in SUBSET Key, Upsert(K)
    PROVE  CacheInv'
  <1>1. /\ UNCHANGED <<cache, redisUp, reader, excused>> /\ writer = {} /\ writer' = K
        /\ \A k \in Key : /\ db[k] \in 0..MaxVersion /\ db'[k] \in 0..MaxVersion
                          /\ db'[k] = IF k \in K THEN db[k] + 1 ELSE db[k]
    BY CacheConstants DEF Upsert, CacheInv, CacheTypeOK
  <1>2. CacheTypeOK'
    BY <1>1 DEF CacheInv, CacheTypeOK, Upsert
  <1>3. NotAhead'
    <2>1. \A k \in Key : db[k] <= db'[k] /\ cache[k].version \in 0..MaxVersion
      BY <1>1 DEF CacheInv, CacheTypeOK, Entry
    <2>2. \A r \in Reader : reader[r].key \in Key /\ reader[r].version \in 0..MaxVersion
      BY DEF CacheInv, CacheTypeOK, ReaderState
    <2>3. \A k \in Key : db[k] \in Nat /\ db'[k] \in Nat
      BY <1>1
    <2> QED BY <1>1, <2>1, <2>2, <2>3 DEF CacheInv, NotAhead
  <1>4. StaleHasExcuse'
    BY <1>1 DEF CacheInv, StaleHasExcuse, Stale
  <1> QED BY <1>2, <1>3, <1>4 DEF CacheInv

LEMMA InvalidateStep ==
    ASSUME CacheInv, NEW k \in Key, Invalidate(k) \/ InvalidateFails(k)
    PROVE  CacheInv'
  <1>0. \A j \in Key : db[j] \in 0..MaxVersion
    BY DEF CacheInv, CacheTypeOK
  <1>1. /\ UNCHANGED <<db, redisUp, reader>> /\ writer' = writer \ {k}
        /\ \/ cache' = [cache EXCEPT ![k] = NoEntry] /\ excused' = excused \ {k}
           \/ cache' = cache /\ excused' = excused \cup {k}
    BY DEF Invalidate, InvalidateFails
  <1>2. CacheTypeOK'
    BY <1>1, NoEntryType DEF CacheInv, CacheTypeOK
  <1>3. NotAhead'
    BY <1>0, <1>1, NoEntryType DEF CacheInv, CacheTypeOK, NotAhead
  <1>4. StaleHasExcuse'
    BY <1>1, NoEntryType DEF CacheInv, CacheTypeOK, StaleHasExcuse, Stale
  <1> QED BY <1>2, <1>3, <1>4 DEF CacheInv

\* A step of a reader that leaves every entry as it is or drops one.
LEMMA ReaderMoves ==
    ASSUME CacheInv, NEW r \in Reader, UNCHANGED <<db, redisUp, writer, excused>>,
           reader' \in [Reader -> ReaderState],
           reader'[r].version <= db[reader'[r].key],
           \A s \in Reader \ {r} : reader'[s] = reader[s],
           cache' \in [Key -> Entry],
           \A k \in Key : cache'[k] = cache[k] \/ cache'[k] = NoEntry
    PROVE  CacheInv'
  <1>1. CacheTypeOK'
    BY DEF CacheInv, CacheTypeOK
  <1>2. NotAhead'
    BY NoEntryType DEF CacheInv, NotAhead, CacheTypeOK
  <1>3. StaleHasExcuse'
    BY NoEntryType DEF CacheInv, StaleHasExcuse, Stale
  <1> QED BY <1>1, <1>2, <1>3 DEF CacheInv

LEMMA BeginFindStep ==
    ASSUME CacheInv, NEW r \in Reader, NEW k \in Key, BeginFind(r, k)
    PROVE  CacheInv'
  <1>1. [pc |-> "get", key |-> k, version |-> 0] \in ReaderState
    BY CacheConstants DEF ReaderState
  <1>2. /\ reader' = [reader EXCEPT ![r] = [pc |-> "get", key |-> k, version |-> 0]]
        /\ UNCHANGED <<db, cache, redisUp, writer, excused>>
        /\ db[k] \in 0..MaxVersion /\ cache \in [Key -> Entry]
    BY DEF BeginFind, CacheInv, CacheTypeOK
  <1>3. reader' \in [Reader -> ReaderState] /\ reader'[r].version <= db[reader'[r].key]
        /\ \A s \in Reader \ {r} : reader'[s] = reader[s]
    BY <1>1, <1>2 DEF CacheInv, CacheTypeOK
  <1> QED BY <1>2, <1>3, ReaderMoves

LEMMA GetEntryStep == ASSUME CacheInv, NEW r \in Reader, GetEntry(r) PROVE CacheInv'
  <1>0. /\ UNCHANGED <<db, cache, redisUp, writer, excused>> /\ cache \in [Key -> Entry]
        /\ \A k \in Key : db[k] \in 0..MaxVersion
    BY DEF GetEntry, CacheInv, CacheTypeOK
  <1>1. CASE Done(r)
    BY <1>0, <1>1, DoneEffect, ReaderMoves DEF CacheInv, ReaderState
  <1>2. CASE \E to \in {"drop", "read"} : Goto(r, to)
    BY <1>0, <1>2, GotoEffect, ReaderMoves DEF CacheInv, NotAhead
  <1> QED BY <1>1, <1>2 DEF GetEntry

LEMMA DropCorruptStep == ASSUME CacheInv, NEW r \in Reader, DropCorrupt(r) PROVE CacheInv'
  <1>1. /\ UNCHANGED <<db, redisUp, writer, excused>> /\ Goto(r, "read")
        /\ cache' \in [Key -> Entry]
        /\ \A k \in Key : cache'[k] = cache[k] \/ cache'[k] = NoEntry
    BY NoEntryType DEF DropCorrupt, CacheInv, CacheTypeOK
  <1> QED BY <1>1, GotoEffect, ReaderMoves DEF CacheInv, NotAhead

LEMMA ReadTableStep == ASSUME CacheInv, NEW r \in Reader, ReadTable(r) PROVE CacheInv'
  <1>0. /\ UNCHANGED <<db, cache, redisUp, writer, excused>> /\ cache \in [Key -> Entry]
        /\ reader[r] \in ReaderState /\ reader[r].key \in Key
        /\ \A k \in Key : db[k] \in 0..MaxVersion
    BY DEF ReadTable, CacheInv, CacheTypeOK, ReaderState
  <1>1. CASE Done(r)
    BY <1>0, <1>1, DoneEffect, ReaderMoves DEF CacheInv, ReaderState
  <1>2. CASE reader' = [reader EXCEPT ![r].pc = "set", ![r].version = db[reader[r].key]]
    <2> DEFINE new == [reader[r] EXCEPT !.pc = "set", !.version = db[reader[r].key]]
    <2>1. new \in ReaderState /\ new.version = db[reader[r].key] /\ new.key = reader[r].key
      BY <1>0 DEF ReaderState
    <2>2. reader' = [reader EXCEPT ![r] = new]
      BY <1>2
    <2>3. /\ reader' \in [Reader -> ReaderState] /\ reader'[r].version = db[reader'[r].key]
          /\ \A s \in Reader \ {r} : reader'[s] = reader[s]
      BY <2>1, <2>2 DEF CacheInv, CacheTypeOK
    <2> QED BY <1>0, <2>3, ReaderMoves DEF ReaderState
  <1> QED BY <1>1, <1>2 DEF ReadTable

LEMMA SetNXStep == ASSUME CacheInv, NEW r \in Reader, SetNX(r) PROVE CacheInv'
  <1> DEFINE k == reader[r].key
             v == reader[r].version
             e == [state |-> "good", version |-> v, left |-> TTL]
  <1>0. /\ UNCHANGED <<db, redisUp, writer>> /\ cache \in [Key -> Entry]
        /\ k \in Key /\ v \in 0..MaxVersion /\ v <= db[k]
        /\ \A j \in Key : db[j] \in 0..MaxVersion
        /\ Done(r)
    BY DEF SetNX, CacheInv, CacheTypeOK, ReaderState, NotAhead
  <1>1. CASE UNCHANGED <<cache, excused>>
    BY <1>0, <1>1, DoneEffect, ReaderMoves DEF CacheInv, ReaderState
  <1>2. CASE /\ cache' = [cache EXCEPT ![k] = e]
             /\ excused' = IF v < db[k] THEN excused \cup {k} ELSE excused \ {k}
    <2>1. e \in Entry /\ e.version = v
      BY <1>0, CacheConstants DEF Entry
    <2>2. cache' \in [Key -> Entry] /\ cache'[k] = e
          /\ \A j \in Key \ {k} : cache'[j] = cache[j] /\ (j \in excused' <=> j \in excused)
      BY <1>0, <1>2, <2>1
    <2>3. /\ reader' \in [Reader -> ReaderState]
          /\ reader'[r].version = 0
          /\ \A s \in Reader \ {r} : reader'[s] = reader[s]
      BY <1>0, DoneEffect DEF CacheInv
    <2> HIDE DEF e, k, v
    <2>4. CacheTypeOK'
      BY <1>0, <1>2, <2>2, <2>3 DEF CacheInv, CacheTypeOK
    <2>5. NotAhead'
      <3>1. \A j \in Key : cache'[j].version <= db[j]
        BY <1>0, <2>1, <2>2 DEF CacheInv, NotAhead
      <3>2. \A s \in Reader : reader'[s].version <= db[reader'[s].key]
        BY <1>0, <2>3 DEF CacheInv, NotAhead, ReaderState
      <3> QED BY <1>0, <3>1, <3>2 DEF NotAhead
    <2>6. StaleHasExcuse'
      BY <1>0, <1>2, <2>1, <2>2 DEF CacheInv, StaleHasExcuse, Stale
    <2> QED BY <2>4, <2>5, <2>6 DEF CacheInv
  <1> QED BY <1>1, <1>2 DEF SetNX

LEMMA NextCacheInv == CacheInv /\ [CacheNext]_cacheVars => CacheInv'
  <1> SUFFICES ASSUME CacheInv, [CacheNext]_cacheVars PROVE CacheInv'
    OBVIOUS
  <1>1. CASE RedisFailsOrRecovers
    BY <1>1 DEF RedisFailsOrRecovers, CacheInv, CacheTypeOK, NotAhead, StaleHasExcuse, Stale
  <1>2. CASE UNCHANGED cacheVars
    BY <1>2 DEF cacheVars, CacheInv, CacheTypeOK, NotAhead, StaleHasExcuse, Stale
  <1> QED BY <1>1, <1>2, TickStep, UpsertStep, InvalidateStep, BeginFindStep, GetEntryStep,
             DropCorruptStep, ReadTableStep, SetNXStep DEF CacheNext, ReaderStep

\* Every variable keeps its type, no entry has more than the configured TTL left
\* (SET with EX), and neither an entry nor a Find in progress is ever ahead of the
\* committed rows.
THEOREM CacheInvariance == CacheSpec => []CacheInv
  BY InitCacheInv, NextCacheInv, PTL DEF CacheSpec

\* A stale entry is always one the ingest job has still to delete, failed to
\* delete, or one that a Find stored after the DEL (UpsertBatch and Find of
\* caching_repository.go): no other way leads to stale data.
THEOREM StalenessExplained == CacheSpec => []StaleHasExcuse
  <1>1. CacheInv => StaleHasExcuse
    BY DEF CacheInv
  <1> QED BY <1>1, CacheInvariance, PTL

\* A Find never overwrites an entry: good data gives way to older data only
\* through a deletion or an expiry (SET NX in Find).
THEOREM NoRegress == CacheSpec => NoDirectRegress
  <1>1. ASSUME CacheInv, [CacheNext]_cacheVars, NEW k \in Key, cache[k].state = "good",
               cache'[k].state = "good"
        PROVE  cache'[k].version = cache[k].version
    <2>0. cache \in [Key -> Entry] /\ cache[k] \in Entry
      BY <1>1 DEF CacheInv, CacheTypeOK
    <2>1. CASE Tick
      <3>1. Aged(k)
        BY <2>1, TickEffect
      <3>2. cache'[k] # NoEntry
        BY <1>1, NoEntryType
      <3> QED BY <2>0, <3>1, <3>2 DEF Aged, Entry
    <2>2. ASSUME NEW j, cache' = [cache EXCEPT ![j] = NoEntry]
          PROVE  cache'[k] = cache[k]
      BY <1>1, <2>0, <2>2, NoEntryType
    <2>3. ASSUME NEW r \in Reader, SetNX(r)
          PROVE  cache'[k] = cache[k]
      BY <1>1, <2>0, <2>3 DEF SetNX
    <2>4. \/ Tick \/ UNCHANGED cache \/ (\E r \in Reader : SetNX(r))
          \/ \E j : cache' = [cache EXCEPT ![j] = NoEntry]
      BY <1>1, Zenon DEF CacheNext, cacheVars, RedisFailsOrRecovers, Upsert, Invalidate, InvalidateFails,
         BeginFind, ReaderStep, GetEntry, DropCorrupt, ReadTable
    <2> QED BY <2>1, <2>2, <2>3, <2>4
  <1>2. CacheInv => \A k \in Key : cache[k].version >= cache[k].version
    BY DEF CacheInv, CacheTypeOK, Entry
  <1>3. CacheInv /\ [CacheNext]_cacheVars =>
            [\A k \in Key : cache[k].state = "good" /\ cache'[k].state = "good"
                           => cache'[k].version >= cache[k].version]_cacheVars
    BY <1>1, <1>2
  <1> QED BY <1>3, CacheInvariance, PTL DEF CacheSpec, NoDirectRegress
=============================================================================
