--------------------------- MODULE ServerLifecycle ---------------------------
(***************************************************************************)
(* The life of an API server process: server.Run from the first connection *)
(* to the exit code.                                                       *)
(*                                                                         *)
(* Run opens Redis, the database (with retries) and the Vision client,     *)
(* each followed by a deferred Close, wires the rest, installs a signal    *)
(* handler, serves in a goroutine of its own and then waits for that       *)
(* goroutine's error or for a signal, on which it drains the requests for  *)
(* at most ten seconds.  Signals, the listener's failure, requests and the *)
(* timers are independent of one another.                                  *)
(***************************************************************************)
EXTENDS Integers, Sequences, SequencesExt

CONSTANT Request   \* requests that reach this process

Resource == {"redis", "db", "vision"}

\* The order of Run's set-up; "wiring" stands for the Gemini client, OAuth and
\* the OpenAPI validator, which leave nothing to close.
Steps == <<"redis", "db", "vision", "wiring", "signals">>

VARIABLES
    mode,       \* where Run is
    step,       \* the step of the set-up that is next
    open,       \* resources that are open
    deferred,   \* the deferred calls, in the order they were registered
    deadline,   \* ConnectSQLWithRetry's deadline has passed
    listener,   \* "none", "open" or "closed"
    serverErr,  \* the listener's goroutine has failed
    signalled,  \* the context of signal.NotifyContext is done
    req,        \* [Request -> its state]
    code        \* Run's result, -1 before it returns

vars == <<mode, step, open, deferred, deadline, listener, serverErr, signalled,
          req, code>>

Alive == mode \notin {"exited", "killed"}
Running == {q \in Request : req[q] = "running"}

\* A process that ends takes the handlers that still run with it.
CutRunning == [q \in Request |-> IF req[q] = "running" THEN "cut" ELSE req[q]]

Return(c) == mode' = "returning" /\ code' = c

-----------------------------------------------------------------------------
(* Set-up *)

\* A client is created and checked, and its Close is deferred.
Open(r) ==
    /\ mode = "starting" /\ Steps[step] = r
    /\ open' = open \union {r}
    /\ deferred' = Append(deferred, r)
    /\ step' = step + 1
    /\ UNCHANGED <<mode, deadline, listener, serverErr, signalled, req, code>>

Wire ==
    /\ mode = "starting" /\ Steps[step] = "wiring"
    /\ step' = step + 1
    /\ UNCHANGED <<mode, open, deferred, deadline, listener, serverErr, signalled,
                   req, code>>

\* Validate refuses the database's configuration, before any attempt to connect.
InvalidConfig ==
    /\ mode = "starting" /\ Steps[step] = "db" /\ ~deadline
    /\ Return(1)
    /\ UNCHANGED <<step, open, deferred, deadline, listener, serverErr, signalled, req>>

\* A step fails for good.  The database is tried again every three seconds, the
\* failures before the deadline being stuttering steps.
StepFails ==
    /\ mode = "starting" /\ Steps[step] \in {"redis", "db", "vision", "wiring"}
    /\ Steps[step] = "db" => deadline
    /\ Return(1)
    /\ UNCHANGED <<step, open, deferred, deadline, listener, serverErr, signalled, req>>

DeadlinePasses ==
    /\ mode = "starting" /\ Steps[step] = "db" /\ ~deadline
    /\ deadline' = TRUE
    /\ UNCHANGED <<mode, step, open, deferred, listener, serverErr, signalled, req, code>>

\* signal.NotifyContext, then the goroutine that listens is started.
Serve ==
    /\ mode = "starting" /\ Steps[step] = "signals"
    /\ deferred' = Append(deferred, "signals")
    /\ mode' = "serving"
    /\ UNCHANGED <<step, open, deadline, listener, serverErr, signalled, req, code>>

-----------------------------------------------------------------------------
(* The goroutine of ListenAndServe *)

Listen ==
    /\ mode = "serving" /\ listener = "none"
    /\ listener' = "open"
    /\ UNCHANGED <<mode, step, open, deferred, deadline, serverErr, signalled, req, code>>

\* The port cannot be bound, or Accept fails for good.
ListenFails ==
    /\ mode = "serving" /\ listener \in {"none", "open"}
    /\ listener' = "closed" /\ serverErr' = TRUE
    /\ UNCHANGED <<mode, step, open, deferred, deadline, signalled, req, code>>

Accept(q) ==
    /\ Alive /\ listener = "open" /\ req[q] = "new"
    /\ req' = [req EXCEPT ![q] = "running"]
    /\ UNCHANGED <<mode, step, open, deferred, deadline, listener, serverErr, signalled,
                   code>>

Answer(q) ==
    /\ Alive /\ req[q] = "running"
    /\ req' = [req EXCEPT ![q] = "answered"]
    /\ UNCHANGED <<mode, step, open, deferred, deadline, listener, serverErr, signalled,
                   code>>

-----------------------------------------------------------------------------
(* The end *)

\* SIGINT or SIGTERM: cancels the context while the handler is installed, and
\* otherwise ends the process at once, deferred calls and all.
Signal ==
    /\ Alive
    /\ IF "signals" \in ToSet(deferred)
       THEN ~signalled /\ signalled' = TRUE /\ UNCHANGED <<mode, open, req>>
       ELSE mode' = "killed" /\ open' = {} /\ req' = CutRunning /\ UNCHANGED signalled
    /\ UNCHANGED <<step, deferred, deadline, listener, serverErr, code>>

\* The two cases of the select; Go takes either when both are ready.
SelectError ==
    /\ mode = "serving" /\ serverErr
    /\ Return(1)
    /\ UNCHANGED <<step, open, deferred, deadline, listener, serverErr, signalled, req>>

SelectSignal ==
    /\ mode = "serving" /\ signalled
    /\ mode' = "draining" /\ listener' = "closed"
    /\ UNCHANGED <<step, open, deferred, deadline, serverErr, signalled, req, code>>

\* Faulty variant: Close instead of Shutdown, running handlers are not waited for.
DrainNothing ==
    /\ mode = "draining"
    /\ Return(0)
    /\ UNCHANGED <<step, open, deferred, deadline, listener, serverErr, signalled, req>>

\* srv.Shutdown returns nil: no request is being handled.
Drained ==
    /\ mode = "draining" /\ Running = {}
    /\ Return(0)
    /\ UNCHANGED <<step, open, deferred, deadline, listener, serverErr, signalled, req>>

\* Faulty variant: the drain has no limit of its own.
DrainForever ==
    /\ mode = "draining" /\ Running = {}
    /\ Return(1)
    /\ UNCHANGED <<step, open, deferred, deadline, listener, serverErr, signalled, req>>

\* The ten seconds of shutdownCtx are over.
DrainTimesOut ==
    /\ mode = "draining"
    /\ Return(1)
    /\ UNCHANGED <<step, open, deferred, deadline, listener, serverErr, signalled, req>>

\* One deferred call, the last registered first; after stop() signals have their
\* default effect again.
RunDeferred ==
    /\ mode = "returning" /\ deferred # <<>>
    /\ deferred' = Front(deferred)
    /\ open' = open \ {Last(deferred)}
    /\ UNCHANGED <<mode, step, deadline, listener, serverErr, signalled, req, code>>

\* os.Exit(server.Run(cfg))
Exit ==
    /\ mode = "returning" /\ deferred = <<>>
    /\ mode' = "exited" /\ req' = CutRunning
    /\ UNCHANGED <<step, open, deferred, deadline, listener, serverErr, signalled, code>>

-----------------------------------------------------------------------------

Init ==
    /\ mode = "starting" /\ step = 1 /\ open = {} /\ deferred = <<>>
    /\ deadline = FALSE /\ listener = "none" /\ serverErr = FALSE /\ signalled = FALSE
    /\ req = [q \in Request |-> "new"]
    /\ code = -1

SetUp == (\E r \in Resource : Open(r)) \/ Wire \/ Serve \/ InvalidConfig \/ StepFails

End == SelectError \/ SelectSignal \/ RunDeferred \/ Exit

Next ==
    \/ SetUp \/ DeadlinePasses
    \/ Listen \/ ListenFails \/ Signal
    \/ \E q \in Request : Accept(q) \/ Answer(q)
    \/ End \/ Drained \/ DrainTimesOut

\* Connection attempts return (five seconds per ping), but none before the
\* deadline need succeed.
LastAttempt == Steps[step] = "db" => deadline

Spec == Init /\ [][Next]_vars

-----------------------------------------------------------------------------
(* Properties *)

\* The state is well-formed, and a deferred close is for something that is open.
TypeOK ==
    /\ mode \in {"starting", "serving", "draining", "returning", "exited", "killed"}
    /\ step \in 1 .. Len(Steps)
    /\ open \subseteq Resource
    /\ mode # "killed" => ToSet(deferred) \ {"signals"} = open
    /\ listener \in {"none", "open", "closed"}
    /\ req \in [Request -> {"new", "running", "answered", "cut"}]
    /\ code \in {-1, 0, 1}
    /\ {deadline, serverErr, signalled} \subseteq BOOLEAN

\* Run hangs nowhere: its set-up ends though the database never comes up, and a
\* process that was told to stop does stop though a handler hangs.
NeverHangs == <>(mode # "starting") /\ (signalled ~> ~Alive)
=============================================================================
