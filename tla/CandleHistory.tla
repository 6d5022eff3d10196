---------------------------- MODULE CandleHistory ----------------------------
(***************************************************************************)
(* What the daily ingest of one symbol builds up in the candles table.     *)
(*                                                                         *)
(* Each run of the job fetches the latest OutputSize daily bars, derives   *)
(* weekly and monthly bars from them and upserts all three in one          *)
(* statement (candles.IngestUsecase.ingestOne, aggregation.go and          *)
(* repository.go).  The window of daily bars slides, so its first week and *)
(* its first month are usually cut, and the last ones are still open: the  *)
(* table is right only because later runs complete the open bars and never *)
(* overwrite a complete one by a cut one.                                  *)
(*                                                                         *)
(* A day is a number, a bucket (a week or a month) is known by the day it  *)
(* starts on.  Prices and volumes are small numbers.                       *)
(***************************************************************************)
EXTENDS Integers, FiniteSets, Sequences, SequencesExt

CONSTANTS
    Starts,      \* [aggregated interval -> the days its buckets start on]
    MaxDay,      \* bound: the last day of a behaviour
    OutputSize,  \* ingestOutputSize: daily bars of one answer
    Prices       \* the daily bars that occur, without their day

Aggregated == DOMAIN Starts

\* Buckets partition the days: day 0 starts one of each kind.
ASSUME StartsAssumption == \A i \in Aggregated : 0 \in Starts[i]

VARIABLES
    today,    \* the current day
    market,   \* [traded days -> bar]: what the provider would answer today
    db,       \* the candles table: [<<interval, day>> -> bar]
    first,    \* history: the oldest day the first run stored, -1 before it
    last,     \* history: the day of the last run, -1 before it
    rejected  \* a statement has named one row twice (SQLSTATE 21000)

vars == <<today, market, db, first, last, rejected>>

-----------------------------------------------------------------------------
(* Buckets *)

\* weekStartFn, monthStartFn: the first day of the week or month of t.
BucketStart(i, t) == Max({s \in Starts[i] : s <= t})

\* The day after the bucket that starts on s, if it is within the bound.
BucketEnd(i, s) == Min({t \in Starts[i] : t > s} \union {MaxDay + 1})

Candle(i, t, p) == [interval |-> i, time |-> t, open |-> p.open, high |-> p.high,
                    low |-> p.low, close |-> p.close, volume |-> p.volume]

Bar(c) == [open |-> c.open, high |-> c.high, low |-> c.low,
           close |-> c.close, volume |-> c.volume]

-----------------------------------------------------------------------------
(* aggregation.go *)

\* The loop of aggregate: bars in order of the appearance of their bucket.
AddToBucket(i, out, c) ==
    LET k == BucketStart(i, c.time)
        at == {n \in DOMAIN out : out[n].time = k}
        n == CHOOSE m \in at : TRUE
    IN  IF at = {}
        THEN Append(out, Candle(i, k, Bar(c)))
        ELSE [out EXCEPT ![n].high = Max({@, c.high}),
                         ![n].low = Min({@, c.low}),
                         ![n].close = c.close,
                         ![n].volume = @ + c.volume]

Aggregate(i, daily) ==
    LET sorted == SortSeq(daily, LAMBDA a, b : a.time < b.time)
        step(out, c) == AddToBucket(i, out, c)
    IN  FoldLeft(step, <<>>, sorted)

\* Faulty variant: the first bucket is kept even when it is cut.
KeepFirstBucket(i, result, daily) == result

\* The first bucket is dropped unless the oldest day starts one.
TrimIncompleteFirstBucket(i, result, daily) ==
    IF \/ result = <<>>
       \/ Min({c.time : c \in ToSet(daily)}) \in Starts[i]
    THEN result
    ELSE Tail(result)

\* The first candle of each (interval, time) stays.
DedupCandles(candles) ==
    LET keep(out, c) ==
            IF \E e \in ToSet(out) : e.interval = c.interval /\ e.time = c.time
            THEN out
            ELSE Append(out, c)
    IN  FoldLeft(keep, <<>>, candles)

\* Faulty variant: the bars are derived before the twins are removed.
BatchOfTwins(answer) ==
    LET derived(all, i) ==
            all \o TrimIncompleteFirstBucket(i, Aggregate(i, answer), answer)
    IN  DedupCandles(FoldLeft(derived, answer, SetToSeq(Aggregated)))

\* ingestOne, after the answer: daily bars without twins, then the bars
\* derived from them, as one batch.
Batch(answer) ==
    LET daily == DedupCandles(answer)
        derived(all, i) ==
            all \o TrimIncompleteFirstBucket(i, Aggregate(i, daily), daily)
    IN  DedupCandles(FoldLeft(derived, daily, SetToSeq(Aggregated)))

-----------------------------------------------------------------------------
(* The provider (external) *)

Traded == DOMAIN market

\* The latest OutputSize days, the newest first.
Newest ==
    LET days == {d \in Traded :
                    Cardinality({e \in Traded : e > d}) < OutputSize}
    IN  SetToSortSeq({Candle("1day", d, market[d]) : d \in days},
                     LAMBDA a, b : a.time > b.time)

\* An entry may come twice, before or after its twin: the same bar again, or
\* two states of the session that is still open.
Twins ==
    {Candle("1day", d, market[d]) : d \in Traded}
      \union {Candle("1day", d, p) : d \in Traded \cap {today}, p \in Prices}

Answers ==
    {Newest}
      \union {InsertAt(Newest, n, c) :
                 n \in {1, Len(Newest) + 1},
                 c \in {t \in Twins : \E e \in ToSet(Newest) : e.time = t.time}}

-----------------------------------------------------------------------------
(* Actions *)

\* A day begins, with or without trading.  The schedule of the job keeps up
\* with the window: the next answer still reaches behind the buckets that were
\* open when the job last ran (with 5000 bars it may miss some 19 years).
ScheduleKeepsUp(traded) ==
    last >= 0 =>
        \A i \in Aggregated :
            Cardinality({d \in traded : d >= BucketStart(i, last)}) < OutputSize

NextDay ==
    /\ today < MaxDay
    /\ today' = today + 1
    /\ \/ market' = market
       \/ \E p \in Prices : market' = market @@ (today' :> p)
    /\ ScheduleKeepsUp(DOMAIN market')
    /\ UNCHANGED <<db, first, last, rejected>>

\* The bar of the running session changes until the day ends.
Revise ==
    /\ today \in Traded
    /\ \E p \in Prices \ {market[today]} : market' = [market EXCEPT ![today] = p]
    /\ UNCHANGED <<today, db, first, last, rejected>>

\* dbRepository.UpsertBatch: one INSERT ... ON CONFLICT DO UPDATE, which
\* PostgreSQL refuses as a whole when it names a row twice.
UpsertBatch(candles) ==
    LET key(c) == <<c.interval, c.time>>
        rows == {key(c) : c \in ToSet(candles)}
        row(k) == Bar(CHOOSE c \in ToSet(candles) : key(c) = k)
    IN  IF Cardinality(rows) < Len(candles)
        THEN /\ rejected' = TRUE
             /\ UNCHANGED <<db, first, last>>
        ELSE /\ db' = [k \in rows |-> row(k)] @@ db
             /\ last' = today
             /\ first' = IF first = -1
                         THEN Min({c.time : c \in ToSet(candles)})
                         ELSE first
             /\ UNCHANGED rejected

\* One run of the job for this symbol.  A run whose request or write fails, or
\* whose answer is empty, changes nothing and is a stuttering step.
IngestOne ==
    /\ Newest # <<>>
    /\ \E answer \in Answers : UpsertBatch(Batch(answer))
    /\ UNCHANGED <<today, market>>

Init ==
    /\ today = -1
    /\ market = <<>>
    /\ db = <<>>
    /\ first = -1
    /\ last = -1
    /\ rejected = FALSE

Next == NextDay \/ Revise \/ IngestOne

Spec == Init /\ [][Next]_vars

-----------------------------------------------------------------------------
(* Properties *)

\* The aggregate of a set of bars by definition: bars is a function from days.
Reference(bars) ==
    LET days == DOMAIN bars
    IN  [open |-> bars[Min(days)].open,
         close |-> bars[Max(days)].close,
         high |-> Max({bars[d].high : d \in days}),
         low |-> Min({bars[d].low : d \in days}),
         volume |-> MapThenSumSet(LAMBDA d : bars[d].volume, days)]

InBucket(i, s, days) == {d \in days : BucketStart(i, d) = s}

StoredDays == {k[2] : k \in {r \in DOMAIN db : r[1] = "1day"}}

\* Rows are keyed by a day that is the start of their bucket, and every bar is
\* one a market can have.
TypeOK ==
    /\ today \in -1 .. MaxDay
    /\ \A k \in DOMAIN db :
          /\ k[1] \in Aggregated => k[2] \in Starts[k[1]]
          /\ db[k].low <= Min({db[k].open, db[k].close})
          /\ db[k].high >= Max({db[k].open, db[k].close})
    /\ first \in -1 .. MaxDay /\ last \in -1 .. MaxDay
    /\ rejected \in BOOLEAN

\* However the window slides, whatever days were holidays and however often the
\* job was skipped: at any time, each week and month that was over at the last
\* run, and whose start the first run still saw, is stored, with exactly the bar
\* of all its days (trimIncompleteFirstBucket never lets a cut bucket replace a
\* complete one, and every open one is completed).
HistoryIsTrue ==
    \A i \in Aggregated : \A s \in Starts[i] :
        LET days == InBucket(i, s, Traded)
        IN  (first # -1 /\ s >= first /\ BucketEnd(i, s) <= last /\ days # {})
              => /\ <<i, s>> \in DOMAIN db
                 /\ db[<<i, s>>] = Reference([d \in days |-> market[d]])

\* Weekly and monthly rows always agree with the daily rows stored beside them,
\* also for the open week and when the provider repeats a day (the comment in
\* ingestOne: both are computed from the same deduplicated days); and such a day
\* never makes PostgreSQL refuse the batch (dedupCandles).
BarsMatchDays ==
    /\ ~rejected
    /\ \A k \in DOMAIN db :
          k[1] \in Aggregated =>
              db[k] = Reference([d \in InBucket(k[1], k[2], StoredDays) |->
                                    db[<<"1day", d>>]])
=============================================================================
