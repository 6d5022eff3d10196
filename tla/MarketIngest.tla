---------------------------- MODULE MarketIngest ----------------------------
(***************************************************************************)
(* The two ingest jobs: IngestAll of the candles (candles/ingest.go) and of  *)
(* the logos (symbollist/ingest.go) have the same control.  For each active *)
(* symbol the job waits for the client-side rate limiter                    *)
(* (clientratelimit), asks TwelveData with retries (twelvedata/             *)
(* repository.go) and stores the answer; then it computes its exit code     *)
(* (app/batch).  The job's context may end at any moment.                   *)
(*                                                                          *)
(* Time is relative: timers count down and ages saturate, so that no bound  *)
(* on the length of a run is needed.                                        *)
(***************************************************************************)
EXTENDS Naturals, FiniteSets

CONSTANTS
    Total,       \* number of active symbols
    Limit,       \* rateLimitPerMinute
    Interval,    \* the limiter's interval, in ticks
    MaxRetries,  \* cfg.MaxRetries
    MaxDelay,    \* longest backoff or Retry-After delay, in ticks
    Threshold    \* accepted failure rate, in percent

IngestConstants ==
    /\ {Total, Limit, MaxRetries, MaxDelay, Threshold} \subseteq Nat
    /\ Limit > 0 /\ Interval \in Nat \ {0}

VARIABLES
    live,      \* the job's context has not ended
    pc,
    todo,      \* symbols not finished
    result,    \* IngestResult
    stored,    \* history: symbols whose data was really written
    blank,     \* history: symbols that succeeded with nothing to write
    limiter,   \* count, and the time since lastReset
    timer,     \* what is left of the current sleep
    attempt,   \* retries of the current request
    exit,      \* the returned error and the exit code
    admitted   \* history: calls the limiter let through in the last Interval

vars == <<live, pc, todo, result, stored, blank, limiter, timer, attempt, exit, admitted>>

\* A call, named by the symbol it is for, and the ticks since.
Admission == [call : 1..Total, age : 0..(Interval - 1)]
Admit == admitted \cup {[call |-> todo, age |-> 0]}
Older == {[a EXCEPT !.age = @ + 1] : a \in {c \in admitted : c.age < Interval - 1}}

Init ==
    /\ live = TRUE /\ pc = "list" /\ todo = Total
    /\ result = [succeeded |-> 0, failed |-> 0]
    /\ stored = 0 /\ blank = 0
    /\ limiter = [count |-> 0, elapsed |-> 0]
    /\ timer = 0 /\ attempt = 0
    /\ exit = [err |-> FALSE, code |-> 0]
    /\ admitted = {}

Tick ==
    /\ pc # "exited"
    /\ limiter' = [limiter EXCEPT !.elapsed = IF @ < Interval THEN @ + 1 ELSE @]
    /\ timer' = IF timer > 0 THEN timer - 1 ELSE 0
    /\ admitted' = Older
    /\ UNCHANGED <<live, pc, todo, result, stored, blank, attempt, exit>>

\* The deadline of the job's context.
Cancel ==
    /\ live /\ pc # "exited"
    /\ live' = FALSE
    /\ UNCHANGED <<pc, todo, result, stored, blank, limiter, timer, attempt, exit, admitted>>

-----------------------------------------------------------------------------
(* Ends of the job and of a symbol.                                         *)

TooManyFailures(r) == r.failed * 100 > Threshold * Total

\* Faulty variant: only the failure rate decides.
ExitCodeOfRate(r, err) == IF TooManyFailures(r) THEN 1 ELSE 0

\* ingestExitCode.
ExitCode(r, err) == IF err \/ TooManyFailures(r) THEN 1 ELSE 0

Return(err) ==
    /\ pc' = "exited"
    /\ exit' = [err |-> err, code |-> ExitCode(result', err)]

\* A finished symbol: the loop ends with an error if the context has ended.
NextSymbol ==
    /\ todo' = todo - 1
    /\ \/ live /\ pc' = "loop" /\ UNCHANGED exit
       \/ ~live /\ Return(TRUE)

\* Faulty variant: a symbol that the context interrupted is not counted.
FailSymbolUncounted ==
    /\ result' = [result EXCEPT !.failed = IF live THEN @ + 1 ELSE @]
    /\ NextSymbol

FailSymbol ==
    /\ result' = [result EXCEPT !.failed = @ + 1]
    /\ NextSymbol

-----------------------------------------------------------------------------
(* IngestAll.                                                               *)

ListSymbols ==
    /\ pc = "list"
    /\ UNCHANGED result
    /\ \/ pc' = "loop" /\ UNCHANGED exit
       \/ Return(TRUE)
    /\ UNCHANGED <<live, todo, stored, blank, limiter, timer, attempt, admitted>>

Loop ==
    /\ pc = "loop"
    /\ UNCHANGED result
    /\ \/ todo = 0 /\ Return(FALSE)
       \/ todo > 0 /\ ~live /\ Return(TRUE)
       \/ todo > 0 /\ live /\ pc' = "wait" /\ UNCHANGED exit
    /\ UNCHANGED <<live, todo, stored, blank, limiter, timer, attempt, admitted>>

\* WaitIfNeeded: the counter after a possible reset.
Reset == IF limiter.elapsed >= Interval THEN [count |-> 0, elapsed |-> 0] ELSE limiter

Wait ==
    /\ pc = "wait"
    /\ limiter' = [Reset EXCEPT !.count = @ + 1]
    /\ \/ /\ limiter'.count <= Limit
          /\ admitted' = Admit
          /\ pc' = "check"
          /\ UNCHANGED timer
       \/ /\ limiter'.count > Limit
          /\ timer' = Interval - limiter'.elapsed
          /\ pc' = "sleep"
          /\ UNCHANGED admitted
    /\ UNCHANGED <<live, todo, result, stored, blank, attempt, exit>>

\* Faulty variant: the waiting call itself is not counted.
WakeUncounted ==
    /\ pc = "sleep" /\ timer = 0
    /\ limiter' = [count |-> 0, elapsed |-> 0]
    /\ admitted' = Admit
    /\ pc' = "check"
    /\ UNCHANGED <<live, todo, result, stored, blank, timer, attempt, exit>>

Wake ==
    /\ pc = "sleep" /\ timer = 0
    /\ limiter' = [count |-> 1, elapsed |-> 0]
    /\ admitted' = Admit
    /\ pc' = "check"
    /\ UNCHANGED <<live, todo, result, stored, blank, timer, attempt, exit>>

\* The context ends during the wait: the count is taken back.
WakeCancelled ==
    /\ pc = "sleep" /\ ~live
    /\ limiter' = [limiter EXCEPT !.count = @ - 1]
    /\ timer' = 0
    /\ UNCHANGED result
    /\ Return(TRUE)
    /\ UNCHANGED <<live, todo, stored, blank, attempt, admitted>>

CheckContext ==
    /\ pc = "check"
    /\ UNCHANGED result
    /\ \/ live /\ pc' = "request" /\ UNCHANGED exit
       \/ ~live /\ Return(TRUE)
    /\ attempt' = 0
    /\ UNCHANGED <<live, todo, stored, blank, limiter, timer, admitted>>

-----------------------------------------------------------------------------
(* doRequestWithRetry.                                                      *)

Request ==
    /\ pc = "request"
    /\ \/ /\ live
          /\ pc' = "inflight"
          /\ UNCHANGED <<todo, result, exit>>
       \/ ~live /\ FailSymbol
    /\ UNCHANGED <<live, stored, blank, limiter, timer, attempt, admitted>>

\* A usable answer.
Answer ==
    /\ pc = "inflight"
    /\ pc' = "answered"
    /\ UNCHANGED <<live, todo, result, stored, blank, limiter, timer, attempt, exit, admitted>>

\* An error that is not retried: a 4xx, a body that says error or cannot be
\* decoded, an unknown time zone, the end of the context.
Refused ==
    /\ pc = "inflight"
    /\ FailSymbol
    /\ UNCHANGED <<live, stored, blank, limiter, timer, attempt, admitted>>

\* Faulty variant: attempts are not counted.
RetryForever ==
    /\ pc = "inflight" /\ live
    /\ timer' \in 0..MaxDelay
    /\ pc' = "backoff"
    /\ UNCHANGED <<live, todo, result, stored, blank, limiter, attempt, exit, admitted>>

\* A network error, 429 or 5xx: sleep and try again, or give up.
Retry ==
    /\ pc = "inflight" /\ live
    /\ \/ /\ attempt < MaxRetries
          /\ attempt' = attempt + 1
          /\ timer' \in 0..MaxDelay
          /\ pc' = "backoff"
          /\ UNCHANGED <<todo, result, exit>>
       \/ attempt = MaxRetries /\ FailSymbol /\ UNCHANGED <<attempt, timer>>
    /\ UNCHANGED <<live, stored, blank, limiter, admitted>>

\* sleepBeforeRetry.
Backoff ==
    /\ pc = "backoff"
    /\ \/ timer = 0 /\ pc' = "request" /\ UNCHANGED <<todo, result, exit, timer>>
       \/ ~live /\ timer' = 0 /\ FailSymbol
    /\ UNCHANGED <<live, stored, blank, limiter, attempt, admitted>>

-----------------------------------------------------------------------------
(* UpsertBatch, UpdateLogoURL.                                              *)

\* The context is looked at again before anything is written.
BeforeStore ==
    /\ pc = "answered"
    /\ \/ live /\ pc' = "store" /\ UNCHANGED <<todo, result, exit>>
       \/ ~live /\ FailSymbol
    /\ UNCHANGED <<live, stored, blank, limiter, timer, attempt, admitted>>

\* The statement may fail, be cut off by the context, or be reported as failed
\* although it took effect.
Store ==
    /\ pc = "store"
    /\ \/ /\ stored' = stored + 1
          /\ result' = [result EXCEPT !.succeeded = @ + 1]
          /\ NextSymbol
       \/ stored' \in {stored, stored + 1} /\ FailSymbol
    /\ UNCHANGED <<live, blank, limiter, timer, attempt, admitted>>

\* An answer without candles, or a symbol whose row is gone when its logo is to be
\* updated: nothing is written, and that is a success.
StoreNothing ==
    /\ pc = "store"
    /\ blank' = blank + 1
    /\ result' = [result EXCEPT !.succeeded = @ + 1]
    /\ NextSymbol
    /\ UNCHANGED <<live, stored, limiter, timer, attempt, admitted>>

Step ==
    \/ ListSymbols \/ Loop \/ Wait \/ Wake \/ WakeCancelled \/ CheckContext
    \/ Request \/ Answer \/ Refused \/ Retry \/ Backoff
    \/ BeforeStore \/ Store \/ StoreNothing

Next == Tick \/ Cancel \/ Step

Spec == Init /\ [][Next]_vars

-----------------------------------------------------------------------------
(* Properties.                                                              *)

\* Every variable has its type; the limiter never counts past its limit by
\* more than the call that waits.
TypeOK ==
    /\ live \in BOOLEAN
    /\ pc \in {"list", "loop", "wait", "sleep", "check", "request", "inflight",
               "backoff", "answered", "store", "exited"}
    /\ {todo, stored, blank} \subseteq 0..Total
    /\ result \in [succeeded : 0..Total, failed : 0..Total]
    /\ limiter \in [count : 0..(Limit + 1), elapsed : 0..Interval]
    /\ timer \in Nat /\ attempt \in 0..MaxRetries
    /\ exit \in [err : BOOLEAN, code : {0, 1}]
    /\ admitted \subseteq Admission

\* The summary is exact wherever the context ends: symbols that were begun are
\* counted once, as succeeded or failed, symbols that were not are counted as
\* neither, a job without an error has counted them all, and each that it calls
\* succeeded was written or had nothing to write.
Accounting ==
    /\ result.succeeded + result.failed + todo = Total
    /\ pc = "exited" /\ ~exit.err => todo = 0
    /\ result.succeeded <= stored + blank
    /\ stored + blank <= result.succeeded + result.failed

\* What the fixed window does guarantee: no interval sees more than twice the
\* limit of calls.
TwiceTheLimit == Cardinality(admitted) <= 2 * Limit
=============================================================================
