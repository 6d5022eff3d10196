---------------------------- MODULE QuotesServer ----------------------------
(***************************************************************************)
(* A quotes request inside the life of the process that serves it: the      *)
(* handler and its goroutines (Quotes) run while the process accepts,       *)
(* drains, closes its clients and exits (ServerLifecycle).  One request,    *)
(* Traced, is followed in detail; the others may take any time.  Shutdown   *)
(* does not end the contexts of running requests, so the goroutines learn   *)
(* of the end only through clients that are closed under them.              *)
(***************************************************************************)
EXTENDS ServerLifecycle

CONSTANTS
    Traced,   \* the request whose handler is followed
    Code, Requests, Stocks, MaxCodes, MaxBars, Concurrency   \* see Quotes

VARIABLES request, stock, codes, spawned, task, attempts, cancelled, gerr, response

Handler == INSTANCE Quotes

ASSUME TracedAssumption == Traced \in Request
ASSUME QuotesAssumption == Handler!BoundsAssumption

handlerVars ==
    <<request, stock, codes, spawned, task, attempts, cancelled, gerr, response>>
allVars == <<vars, handlerVars>>

\* What the process does leaves the handler's variables alone, and a step of the
\* handler those of the process.
ByProcess(A) == A /\ UNCHANGED handlerVars
ByHandler(A) == Alive /\ req[Traced] = "running" /\ A /\ UNCHANGED vars

\* A lookup needs Redis (a hit) or the database.
Lookup(i) == Handler!Found(i) /\ open \cap {"redis", "db"} # {}

Goroutine(i) == Lookup(i) \/ Handler!FindFails(i) \/ Handler!Judge(i)

\* The traced request is answered when its handler has answered.
AnswerRequest(q) == Answer(q) /\ (q = Traced => response # Handler!NoResponse)

ServeInit == Init /\ Handler!Init

ServeNext ==
    \/ ByProcess(\/ SetUp \/ DeadlinePasses
                 \/ Listen \/ ListenFails \/ Signal
                 \/ \E q \in Request : Accept(q) \/ AnswerRequest(q)
                 \/ End \/ Drained \/ DrainTimesOut)
    \/ ByHandler(Handler!Begin) \/ ByHandler(Handler!Go)
    \/ ByHandler(Handler!Collect) \/ ByHandler(Handler!Cancel)
    \/ \E i \in DOMAIN codes : ByHandler(Goroutine(i))

\* Run keeps running and its timers fire (see ServerLifecycle); the handler of the
\* traced request and its goroutines run too, and their lookups return.  Other
\* handlers need not return, signals and clients that go away need not come.
ServeFairness ==
    /\ WF_allVars(ByProcess(LastAttempt /\ SetUp)) /\ WF_allVars(ByProcess(DeadlinePasses))
    /\ WF_allVars(ByProcess(End)) /\ WF_allVars(ByProcess(DrainTimesOut))
    /\ WF_allVars(ByProcess(AnswerRequest(Traced)))
    /\ WF_allVars(ByHandler(Handler!Begin)) /\ WF_allVars(ByHandler(Handler!Go))
    /\ WF_allVars(ByHandler(Handler!Collect))
    /\ \A i \in 1 .. MaxCodes : WF_allVars(i \in DOMAIN codes /\ ByHandler(Goroutine(i)))

ServeSpec == ServeInit /\ [][ServeNext]_allVars /\ ServeFairness

-----------------------------------------------------------------------------
(* Properties *)

\* GetQuotes answers with each requested code once, in order, and with the bars the
\* change is computed from, whatever the process goes through (see Quotes).
AnswerIsExact == Handler!EachCodeOnce /\ Handler!SparklineEndsNow

\* Failures are told apart, in a process that is closing its clients too: a failed
\* lookup costs its own code and not the request, and the end of a request is never
\* reported as a failure of a symbol (GetQuotes, see Quotes).
FailuresToldApart == Handler!OneFailureIsContained /\ Handler!InterruptionIsNoFailure

\* No client is closed under a running request, unless the process has failed and
\* will say so: an orderly stop lets every lookup reach the database and Redis, so
\* no answer blames a symbol for the end of the process.  Nor is a request cut short
\* by a process that ends with 0 (the comment in Run: requests in progress are
\* finished).  A process that exits has closed its clients, whichever step of its
\* set-up or of its end failed.
ClientsOutliveRequests ==
    /\ req[Traced] = "running" /\ open # Resource => code = 1
    /\ \A q \in Request : req[q] = "cut" => code = 1
    /\ mode = "exited" => open = {}

\* Every accepted request is answered, with more codes than slots and with its
\* context ended anywhere, unless the process ends first.
AcceptedIsAnswered == req[Traced] = "running" ~> req[Traced] = "answered" \/ ~Alive
=============================================================================
