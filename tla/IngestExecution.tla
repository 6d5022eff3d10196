-------------------------- MODULE IngestExecution ---------------------------
(***************************************************************************)
(* A batch process from its start to its exit code: batch.run (BatchJob)    *)
(* around the ingest job (MarketIngest).  One execution, Traced, runs the   *)
(* ingest in detail; the others are executions of the same job that compete *)
(* for its lock, and their job is a step.  The lock connection may break    *)
(* and the process may crash at any point of the ingest, of which the       *)
(* ingest learns nothing.                                                   *)
(***************************************************************************)
EXTENDS Naturals, BatchJob

CONSTANTS
    Traced,      \* the execution whose job is followed
    Total, Limit, Interval, MaxRetries, MaxDelay, Threshold   \* see MarketIngest

VARIABLES live, pc, todo, result, stored, blank, limiter, timer, attempt, exit, admitted

Ingest == INSTANCE MarketIngest

ASSUME TracedAssumption == Traced \in Execution
ASSUME IngestAssumption == Ingest!IngestConstants

ingestVars == <<live, pc, todo, result, stored, blank, limiter, timer, attempt, exit, admitted>>
allVars == <<vars, ingestVars>>

\* What a step of the process around the job, or of its environment, leaves alone.
AroundJob(A) == A /\ UNCHANGED ingestVars

\* IngestAll runs while the process is inside the job.
Ingesting(A) == Running(Traced) /\ A /\ UNCHANGED vars

\* run returns what the job returned; a panic may end it anywhere.
ReturnJob(i) ==
    /\ RunJob(i)
    /\ i = Traced => exec'[i].code = 1 \/ (pc = "exited" /\ exec'[i].code = exit.code)

\* Everything the process does on its own, the job excepted.
ProcessStep(i) == OpenLockDB(i) \/ TryLock(i) \/ OpenJobDB(i) \/ Unlock(i)

BatchInit == Init /\ Ingest!Init

BatchNext ==
    \/ \E i \in Execution :
          AroundJob(\/ Refuse(i) \/ ProcessStep(i) \/ ReturnJob(i)
                    \/ CutLink(i) \/ Crash(i) \/ EndSession(i))
    \/ Ingesting(Ingest!Tick) \/ Ingesting(Ingest!Cancel) \/ Ingesting(Ingest!Step)

\* The process runs, time passes, requests and statements return, and the server
\* notices a dead client in the end.  The job need not panic nor its context end.
BatchFairness ==
    /\ \A i \in Execution : /\ WF_allVars(AroundJob(ProcessStep(i)))
                            /\ WF_allVars(AroundJob(EndSession(i)))
    /\ \A i \in Execution \ {Traced} : WF_allVars(AroundJob(ReturnJob(i)))
    /\ WF_allVars(pc = "exited" /\ AroundJob(ReturnJob(Traced)))
    /\ WF_allVars(Ingesting(Ingest!Tick)) /\ WF_allVars(Ingesting(Ingest!Step))

BatchSpec == BatchInit /\ [][BatchNext]_allVars /\ BatchFairness

-----------------------------------------------------------------------------
(* Properties.                                                              *)

\* IngestAll's summary is exact wherever the context ends.
Accounting == Ingest!Accounting

\* The limiter's real guarantee (see MarketIngest).
TwiceTheLimit == Ingest!TwiceTheLimit

\* The exit code of the process can be believed as far as it goes: 0 means that it
\* was skipped before it began, or that the share of symbols which the threshold
\* asks for was answered and its data written, if there was any to write; no
\* failed write, lost connection, panic or interruption turns into a 0.
ExitZeroIsEarned ==
    exec[Traced].pc = "exited" /\ exec[Traced].code = 0 =>
        pc = "list" \/ (stored + blank) * 100 >= (100 - Threshold) * Total

Ended(i) == exec[i].pc \in {"exited", "crashed"}

\* An execution that was given the lock comes to its end, though TwelveData answers
\* 429 for ever and the context never ends; and the lock of an execution that has
\* ended, by exit, panic or crash, is freed, whether or not it knew that it had it.
ExecutionEnds ==
    /\ exec[Traced].pc = "locked" ~> Ended(Traced)
    /\ \A i \in Execution : Ended(i) ~> holder # i
=============================================================================
