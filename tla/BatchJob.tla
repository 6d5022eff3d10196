------------------------------ MODULE BatchJob ------------------------------
(***************************************************************************)
(* Executions of one batch job (app/batch/batch.go), which exclude each     *)
(* other with a session-level advisory lock of PostgreSQL                   *)
(* (infra/db/advisory_lock.go).  The lock belongs to the server's session,  *)
(* which ends when the server notices that its client is gone.  Jobs with   *)
(* different ids use different keys and do not meet.                        *)
(***************************************************************************)
CONSTANTS
    Execution,  \* executions of the job: scheduled, retried, started by hand
    None

ASSUME BatchConstants == None \notin Execution

VARIABLES
    exec,     \* each execution
    holder,   \* the session (named after its execution) that holds the lock
    overlap   \* history: pairs of executions whose job ran at the same time

vars == <<exec, holder, overlap>>

\* pc: what run does next; link: the lock connection ("cut": broken, or closed
\* by a client the server has not heard of); code: exitCode so far.
ExecState == [pc   : {"new", "lock", "locked", "running", "unlock", "exited", "crashed"},
              link : {"none", "up", "cut"},
              code : {0, 1, 2}]

Init ==
    /\ exec = [i \in Execution |-> [pc |-> "new", link |-> "none", code |-> 0]]
    /\ holder = None
    /\ overlap = {}

Set(i, pc, link, code) ==
    exec' = [exec EXCEPT ![i] = [pc |-> pc, link |-> link, code |-> code]]

\* A missing or unknown job id, or a database that cannot be opened.
Refuse(i) ==
    /\ exec[i].pc = "new"
    /\ \E code \in {1, 2} : Set(i, "exited", "none", code)
    /\ UNCHANGED <<holder, overlap>>

OpenLockDB(i) ==
    /\ exec[i].pc = "new"
    /\ Set(i, "lock", "up", 0)
    /\ UNCHANGED <<holder, overlap>>

\* What pg_try_advisory_lock does in the server.
Acquire(i) == holder' = IF holder = None THEN i ELSE holder

\* TryAdvisoryLock: acquired; held by another (the execution is skipped with
\* exit code 0); or no answer, and the connection is discarded.
TryLock(i) ==
    /\ exec[i].pc = "lock"
    /\ \/ exec[i].link = "up" /\ holder = None /\ Acquire(i) /\ Set(i, "locked", "up", 0)
       \/ exec[i].link = "up" /\ holder # None /\ UNCHANGED holder /\ Set(i, "exited", "none", 0)
       \/ exec[i].link = "up" /\ Acquire(i) /\ Set(i, "exited", "cut", 1)
       \/ UNCHANGED holder /\ Set(i, "exited", "cut", 1)
    /\ UNCHANGED overlap

Running(i) == exec[i].pc = "running"

\* The job's own database pool; an error leads to the deferred unlock.
OpenJobDB(i) ==
    /\ exec[i].pc = "locked"
    /\ \/ /\ Set(i, "running", exec[i].link, 0)
          /\ overlap' = overlap \cup {{i, j} : j \in {k \in Execution : Running(k)}}
       \/ /\ Set(i, "unlock", exec[i].link, 1)
          /\ UNCHANGED overlap
    /\ UNCHANGED holder

\* The job returns its exit code; a panic is recovered as 1 after the deferred
\* calls.
RunJob(i) ==
    /\ Running(i)
    /\ \E code \in {0, 1} : Set(i, "unlock", exec[i].link, code)
    /\ UNCHANGED <<holder, overlap>>

Release(i) == holder' = IF holder = i THEN None ELSE holder

\* Faulty variant: an unlock that fails is only logged.
UnlockErrorIgnored(i) ==
    /\ exec[i].pc = "unlock"
    /\ \/ /\ exec[i].link = "up" /\ Release(i)
          /\ \E link \in {"none", "cut"} : Set(i, "exited", link, exec[i].code)
       \/ UNCHANGED holder /\ Set(i, "exited", "cut", exec[i].code)
    /\ UNCHANGED overlap

\* releaseJobLock, then both pools are closed.  An unlock that fails, or whose
\* answer is lost, turns exit code 0 into 1.
Unlock(i) ==
    /\ exec[i].pc = "unlock"
    /\ \/ exec[i].link = "up" /\ Release(i) /\ Set(i, "exited", "none", exec[i].code)
       \/ exec[i].link = "up" /\ Release(i) /\ Set(i, "exited", "cut", 1)
       \/ UNCHANGED holder /\ Set(i, "exited", "cut", 1)
    /\ UNCHANGED overlap

-----------------------------------------------------------------------------
(* The environment.                                                         *)

\* The lock connection breaks; nothing tells the job.
CutLink(i) ==
    /\ exec[i].link = "up"
    /\ exec' = [exec EXCEPT ![i].link = "cut"]
    /\ UNCHANGED <<holder, overlap>>

Crash(i) ==
    /\ exec[i].pc \in {"lock", "locked", "running", "unlock"}
    /\ Set(i, "crashed", "cut", 1)
    /\ UNCHANGED <<holder, overlap>>

\* The server ends a session whose client is gone, and frees its locks.
EndSession(i) ==
    /\ holder = i
    /\ exec[i].link # "up"
    /\ holder' = None
    /\ UNCHANGED <<exec, overlap>>

Step(i) == OpenLockDB(i) \/ TryLock(i) \/ OpenJobDB(i) \/ RunJob(i) \/ Unlock(i)

Next ==
    \E i \in Execution : Refuse(i) \/ Step(i) \/ CutLink(i) \/ Crash(i) \/ EndSession(i)

Spec == Init /\ [][Next]_vars

-----------------------------------------------------------------------------
(* Properties.                                                              *)

\* Every variable has its type; the lock belongs to one execution.
TypeOK ==
    /\ exec \in [Execution -> ExecState]
    /\ holder \in Execution \cup {None}
    /\ overlap \subseteq SUBSET Execution

\* The lock is held for the whole job and given up by nobody else, so jobs run at
\* the same time only once a lock connection is lost; and that is noticed, because
\* the execution that lost it fails to unlock: of two executions that overlapped
\* never both end with exit code 0.
OverlapIsReported ==
    \A i, j \in Execution :
        i # j =>
          /\ Running(i) /\ Running(j) => "cut" \in {exec[i].link, exec[j].link}
          /\ {i, j} \in overlap =>
                ~(/\ exec[i].pc = "exited" /\ exec[i].code = 0
                  /\ exec[j].pc = "exited" /\ exec[j].code = 0)
=============================================================================
