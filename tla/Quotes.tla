------------------------------- MODULE Quotes -------------------------------
(***************************************************************************)
(* GET /v1/quotes: one request for the price summaries of several symbols. *)
(*                                                                         *)
(* The handler (candleshttp.GetQuotesHandler) validates the codes and      *)
(* removes repeated ones; the usecase (candles.GetQuotes) looks each code  *)
(* up in a goroutine of an errgroup with a limit, writes the outcome into  *)
(* the slot of that code, waits for all of them and collects the slots.    *)
(* The request's context may end at any moment.                            *)
(***************************************************************************)
EXTENDS Integers, FiniteSets, Sequences, SequencesExt, Sorting

CONSTANTS
    Code,         \* the well-formed symbol codes
    Requests,     \* the requests: [codes, interval, bars]
    Stocks,       \* contents of the table: [Code -> closes, the newest first]
    MaxCodes,     \* MaxQuoteCodes
    MaxBars,      \* MaxQuoteBars
    Concurrency   \* quoteConcurrency

BoundsAssumption ==
    /\ Concurrency \in Nat \ {0}
    /\ MaxCodes \in Nat /\ MaxBars \in Nat
    /\ \A r \in Requests : r.codes \in Seq(ToSet(r.codes))
    /\ Stocks \subseteq [Code -> Seq(Int)]

\* No answer yet; a slot nobody has written.
NoResponse == [status |-> 0]
Unwritten == [kind |-> "none"]

VARIABLES
    request,    \* the request being served
    stock,      \* the rows Repository.Find reads
    codes,      \* the codes handed to GetQuotes
    spawned,    \* how many goroutines g.Go has started
    task,       \* [slot -> state of its goroutine]
    attempts,   \* [slot -> outcome written by the goroutine]
    cancelled,  \* the request's context has ended
    gerr,       \* the errgroup holds an error
    response    \* NoResponse until the handler answers

vars == <<request, stock, codes, spawned, task, attempts, cancelled, gerr, response>>

Slots == DOMAIN codes
InFlight == {i \in Slots : task[i] \in {"find", "failed", "interrupted"}}

\* errgroup.WithContext: the group's context ends with the request's or with
\* the first error of a goroutine.
GroupDone == cancelled \/ gerr

-----------------------------------------------------------------------------
(* The handler, before the usecase *)

\* Faulty variant: repeated codes are kept.
KeepCodes(cs) == cs

\* dedupCodes: the first of each code, in order.
DedupCodes(cs) ==
    LET firsts == Ascending({n \in DOMAIN cs : \A m \in 1 .. (n - 1) : cs[m] # cs[n]})
    IN  [i \in DOMAIN firsts |-> cs[firsts[i]]]

Valid(r) ==
    /\ r.codes # <<>>
    /\ Len(r.codes) <= MaxCodes
    /\ ToSet(r.codes) \subseteq Code
    /\ r.interval \in {"1day", "1week", "1month"}
    /\ r.bars \in 0 .. MaxBars

\* Validation, then attempts := make([]quoteAttempt, len(codes)).
Begin ==
    /\ codes = <<>> /\ response = NoResponse
    /\ IF Valid(request)
       THEN /\ codes' = DedupCodes(request.codes)
            /\ task' = [i \in DOMAIN codes' |-> "idle"]
            /\ attempts' = [i \in DOMAIN codes' |-> Unwritten]
            /\ UNCHANGED response
       ELSE /\ response' = [status |-> 400]
            /\ UNCHANGED <<codes, task, attempts>>
    /\ UNCHANGED <<request, stock, spawned, cancelled, gerr>>

-----------------------------------------------------------------------------
(* GetQuotes *)

\* Faulty variant: a slot of the group is never given back.
GoOnce ==
    /\ response = NoResponse
    /\ spawned < Len(codes) /\ spawned < Concurrency
    /\ spawned' = spawned + 1
    /\ task' = [task EXCEPT ![spawned'] = "find"]
    /\ UNCHANGED <<request, stock, codes, attempts, cancelled, gerr, response>>

\* g.Go: blocks while the group is full, and starts the next code's goroutine
\* whether or not the context has ended.
Go ==
    /\ response = NoResponse
    /\ spawned < Len(codes) /\ Cardinality(InFlight) < Concurrency
    /\ spawned' = spawned + 1
    /\ task' = [task EXCEPT ![spawned'] = "find"]
    /\ UNCHANGED <<request, stock, codes, attempts, cancelled, gerr, response>>

\* buildQuote for at least two candles, the newest first.  Change and its
\* percentage are functions of the two closes.
BuildQuote(code, cs, bars) ==
    [code |-> code, close |-> cs[1], prev |-> cs[2],
     closes |-> Reverse(SubSeq(cs, 1, Min({bars, Len(cs)})))]

\* Find(gctx, code, interval, max(bars, 2)) returns candles.
Found(i) ==
    LET cs == stock[codes[i]]
        answer == SubSeq(cs, 1, Min({Max({request.bars, 2}), Len(cs)}))
    IN  /\ task[i] = "find"
        /\ attempts' = [attempts EXCEPT ![i] =
               IF Len(answer) < 2
               THEN [kind |-> "failure", reason |-> "insufficient_data"]
               ELSE [kind |-> "quote",
                     quote |-> BuildQuote(codes[i], answer, request.bars)]]
        /\ task' = [task EXCEPT ![i] = "done"]
        /\ UNCHANGED <<request, stock, codes, spawned, cancelled, gerr, response>>

\* Find returns an error: of its own, or because the context has ended.
FindFails(i) ==
    /\ task[i] = "find"
    /\ \E why \in {"failed"} \union (IF GroupDone THEN {"interrupted"} ELSE {}) :
          task' = [task EXCEPT ![i] = why]
    /\ UNCHANGED <<request, stock, codes, spawned, attempts, cancelled, gerr, response>>

\* The failure recorded for a slot, with its cause.
FetchFailed(i) == [kind |-> "failure", reason |-> "fetch_failed", why |-> task[i]]

\* Faulty variant: the context is not consulted.
BlameTheCode(i) ==
    /\ task[i] \in {"failed", "interrupted"}
    /\ attempts' = [attempts EXCEPT ![i] = FetchFailed(i)]
    /\ task' = [task EXCEPT ![i] = "done"]
    /\ UNCHANGED <<request, stock, codes, spawned, cancelled, gerr, response>>

\* The check of gctx.Err() that follows; the context may have ended since.
Judge(i) ==
    /\ task[i] \in {"failed", "interrupted"}
    /\ IF GroupDone
       THEN gerr' = TRUE /\ UNCHANGED attempts
       ELSE /\ attempts' = [attempts EXCEPT ![i] = FetchFailed(i)]
            /\ UNCHANGED gerr
    /\ task' = [task EXCEPT ![i] = "done"]
    /\ UNCHANGED <<request, stock, codes, spawned, cancelled, response>>

\* The result of GetQuotes: an error of the group, or the slots in order, each in
\* the list it belongs to.
Result ==
    LET slots(k) == Ascending({i \in Slots : attempts[i].kind = k})
        quotes == slots("quote")
        failures == slots("failure")
    IN  IF gerr
        THEN [status |-> 500]
        ELSE [status |-> 200,
              quotes |-> [n \in DOMAIN quotes |-> attempts[quotes[n]].quote],
              failures |-> [n \in DOMAIN failures |-> codes[failures[n]]]]

\* g.Wait returns and the handler answers.
Collect ==
    /\ response = NoResponse /\ codes # <<>>
    /\ spawned = Len(codes) /\ InFlight = {}
    /\ response' = Result
    /\ UNCHANGED <<request, stock, codes, spawned, task, attempts, cancelled, gerr>>

\* The client goes away (external).
Cancel ==
    /\ response = NoResponse /\ ~cancelled
    /\ cancelled' = TRUE
    /\ UNCHANGED <<request, stock, codes, spawned, task, attempts, gerr, response>>

Init ==
    /\ request \in Requests
    /\ stock \in Stocks
    /\ codes = <<>> /\ spawned = 0 /\ task = <<>> /\ attempts = <<>>
    /\ cancelled = FALSE /\ gerr = FALSE
    /\ response = NoResponse

Goroutine(i) == Found(i) \/ FindFails(i) \/ Judge(i)

Next ==
    \/ Begin \/ Go \/ Collect \/ Cancel
    \/ \E i \in Slots : Goroutine(i)

Spec == Init /\ [][Next]_vars

-----------------------------------------------------------------------------
(* Properties *)

\* Slots are in step with the codes and at most Concurrency lookups are open.
TypeOK ==
    /\ codes \in Seq(Code) /\ Len(codes) <= MaxCodes
    /\ spawned \in 0 .. Len(codes)
    /\ DOMAIN task = Slots /\ DOMAIN attempts = Slots
    /\ \A i \in Slots :
          task[i] \in {"idle", "find", "failed", "interrupted", "done"}
    /\ Cardinality(InFlight) <= Concurrency
    /\ cancelled \in BOOLEAN /\ gerr \in BOOLEAN

\* QuoteBatchResult's promise: in an answer each requested code is in exactly one
\* of the two lists, once, and both keep the order of the request, however the
\* goroutines were scheduled.
EachCodeOnce ==
    response.status = 200 =>
        LET asked == request.codes
            quoted == [n \in DOMAIN response.quotes |-> response.quotes[n].code]
            failed == response.failures
            place(c) == Min({n \in DOMAIN asked : asked[n] = c})
            ordered(s) == \A m, n \in DOMAIN s : m < n => place(s[m]) < place(s[n])
        IN  /\ ToSet(quoted) \union ToSet(failed) = ToSet(asked)
            /\ ToSet(quoted) \cap ToSet(failed) = {}
            /\ ordered(quoted) /\ ordered(failed)

\* The request fails as a whole only if its context has ended (the comment of
\* GetQuotes): a lookup that fails costs that code alone.
OneFailureIsContained ==
    response.status = 500 => cancelled

\* A lookup broken off by the end of the request is never reported, nor logged,
\* as a failure of its symbol.
InterruptionIsNoFailure ==
    \A i \in Slots :
        (attempts[i].kind = "failure" /\ attempts[i].reason = "fetch_failed")
          => attempts[i].why = "failed"

\* The sparkline runs from old to new and ends with the two closes that the
\* change is computed from; it has as many bars as asked for, if there are.
SparklineEndsNow ==
    response.status = 200 =>
        \A q \in ToSet(response.quotes) :
            LET n == Len(q.closes)
            IN  /\ n = Min({request.bars, Len(stock[q.code])})
                /\ n >= 1 => q.closes[n] = q.close
                /\ n >= 2 => q.closes[n - 1] = q.prev
=============================================================================
