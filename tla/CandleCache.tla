----------------------------- MODULE CandleCache ----------------------------
(***************************************************************************)
(* The Redis cache in front of the candles table (caching_repository.go):   *)
(* Find of the API servers and UpsertBatch of the ingest job, which run in  *)
(* different processes.  One key holds the latest candles of a symbol and   *)
(* interval; its contents are abstracted to the version of the table rows   *)
(* they were read from.  Every database and Redis command is a step.        *)
(***************************************************************************)
EXTENDS Naturals

CONSTANTS
    Key,         \* symbol and interval
    Reader,      \* concurrent Find calls, in any process
    TTL,         \* life of an entry, in ticks
    MaxVersion   \* bound on the upserts of one key

ASSUME CacheConstants == TTL \in Nat \ {0} /\ MaxVersion \in Nat

VARIABLES
    db,       \* committed version of each key's rows
    cache,    \* the Redis entries
    redisUp,
    reader,   \* Find calls in progress
    writer,   \* the UpsertBatch in progress: the keys it has yet to delete
    excused   \* history: keys whose entry may be stale for a known reason

cacheVars == <<db, cache, redisUp, reader, writer, excused>>

\* "corrupt" is whatever decodeCachedCandles refuses: broken JSON, another
\* version of the format, a candle without a usable time zone.
Entry == [state   : {"none", "good", "corrupt"},
          version : 0..MaxVersion,
          left    : 0..TTL]
NoEntry == [state |-> "none", version |-> 0, left |-> 0]

ReaderState == [pc      : {"idle", "get", "drop", "read", "set"},
                key     : Key,
                version : 0..MaxVersion]

\* Entries of an earlier revision that a deployment may find in Redis: none, one in
\* a format that is refused, or an array of candles without a version, which
\* decodeCachedCandles still reads.
Inherited == {NoEntry} \cup [state : {"good", "corrupt"}, version : {0}, left : {TTL}]

CacheInit ==
    /\ db = [k \in Key |-> 0]
    /\ cache \in [Key -> Inherited]
    /\ redisUp = TRUE
    /\ reader \in [Reader -> [pc : {"idle"}, key : Key, version : {0}]]
    /\ writer = {}
    /\ excused = {}

Tick ==
    /\ \E k \in Key : cache[k].left > 0
    /\ cache' = [k \in Key |-> CASE cache[k].left = 0 -> cache[k]
                                 [] cache[k].left = 1 -> NoEntry
                                 [] OTHER -> [cache[k] EXCEPT !.left = @ - 1]]
    /\ excused' = {k \in excused : cache[k].left # 1}
    /\ UNCHANGED <<db, redisUp, reader, writer>>

RedisFailsOrRecovers ==
    /\ redisUp' = ~redisUp
    /\ UNCHANGED <<db, cache, reader, writer, excused>>

-----------------------------------------------------------------------------
(* UpsertBatch: the rows are committed, then each affected key is deleted.   *)

\* Faulty variant: the keys were deleted before the rows are written, and may
\* have been filled again.
DeleteThenUpsert(K) ==
    /\ writer = {}
    /\ \A k \in K : db[k] < MaxVersion
    /\ db' = [k \in Key |-> IF k \in K THEN db[k] + 1 ELSE db[k]]
    /\ UNCHANGED <<cache, redisUp, reader, writer, excused>>

Upsert(K) ==
    /\ writer = {}
    /\ \A k \in K : db[k] < MaxVersion
    /\ db' = [k \in Key |-> IF k \in K THEN db[k] + 1 ELSE db[k]]
    /\ writer' = K
    /\ UNCHANGED <<cache, redisUp, reader, excused>>

Invalidate(k) ==
    /\ k \in writer /\ redisUp
    /\ writer' = writer \ {k}
    /\ cache' = [cache EXCEPT ![k] = NoEntry]
    /\ excused' = excused \ {k}
    /\ UNCHANGED <<db, redisUp, reader>>

\* A DEL that fails (Redis down, context ended, job killed after its commit)
\* is at most logged, and the entry stays.
InvalidateFails(k) ==
    /\ k \in writer
    /\ writer' = writer \ {k}
    /\ excused' = excused \cup {k}
    /\ UNCHANGED <<db, cache, redisUp, reader>>

-----------------------------------------------------------------------------
(* Find with at most latestCacheSize candles; larger requests read the table *)
(* only and do not appear.                                                   *)

BeginFind(r, k) ==
    /\ reader[r].pc = "idle"
    /\ reader' = [reader EXCEPT ![r] = [pc |-> "get", key |-> k, version |-> 0]]
    /\ UNCHANGED <<db, cache, redisUp, writer, excused>>

Goto(r, to) == reader' = [reader EXCEPT ![r].pc = to]
Done(r) == reader' = [reader EXCEPT ![r] = [@ EXCEPT !.pc = "idle", !.version = 0]]

\* GET: a hit ends the call, an undecodable entry will be deleted.
GetEntry(r) ==
    LET e == cache[reader[r].key] IN
    /\ reader[r].pc = "get"
    /\ \/ redisUp /\ e.state = "good" /\ Done(r)
       \/ redisUp /\ e.state = "corrupt" /\ Goto(r, "drop")
       \/ (~redisUp \/ e.state = "none") /\ Goto(r, "read")
    /\ UNCHANGED <<db, cache, redisUp, writer, excused>>

\* DEL of what was corrupt when it was read.
DropCorrupt(r) ==
    /\ reader[r].pc = "drop"
    /\ cache' = IF redisUp THEN [cache EXCEPT ![reader[r].key] = NoEntry] ELSE cache
    /\ Goto(r, "read")
    /\ UNCHANGED <<db, redisUp, writer, excused>>

ReadTable(r) ==
    /\ reader[r].pc = "read"
    /\ \/ reader' = [reader EXCEPT ![r].pc = "set",
                                   ![r].version = db[reader[r].key]]
       \/ Done(r)   \* the query fails, and with it the call
    /\ UNCHANGED <<db, cache, redisUp, writer, excused>>

\* Faulty variants: SET instead of SET NX; SET NX without an expiry.
SetAlways(r) ==
    LET k == reader[r].key IN
    /\ reader[r].pc = "set"
    /\ cache' = IF redisUp THEN [cache EXCEPT ![k] =
                     [state |-> "good", version |-> reader[r].version, left |-> TTL]]
                ELSE cache
    /\ Done(r)
    /\ UNCHANGED <<db, redisUp, writer, excused>>

SetForever(r) ==
    LET k == reader[r].key IN
    /\ reader[r].pc = "set"
    /\ cache' = IF redisUp /\ cache[k].state = "none" THEN [cache EXCEPT ![k] =
                     [state |-> "good", version |-> reader[r].version, left |-> 0]]
                ELSE cache
    /\ Done(r)
    /\ UNCHANGED <<db, redisUp, writer, excused>>

\* SET key value EX ttl NX, best effort.
SetNX(r) ==
    LET k == reader[r].key  v == reader[r].version IN
    /\ reader[r].pc = "set"
    /\ \/ /\ redisUp /\ cache[k].state = "none"
          /\ cache' = [cache EXCEPT ![k] = [state |-> "good", version |-> v, left |-> TTL]]
          /\ excused' = IF v < db[k] THEN excused \cup {k} ELSE excused \ {k}
       \/ /\ ~(redisUp /\ cache[k].state = "none")
          /\ UNCHANGED <<cache, excused>>
    /\ Done(r)
    /\ UNCHANGED <<db, redisUp, writer>>

ReaderStep(r) == GetEntry(r) \/ DropCorrupt(r) \/ ReadTable(r) \/ SetNX(r)

CacheNext ==
    \/ Tick
    \/ RedisFailsOrRecovers
    \/ \E K \in SUBSET Key \ {{}} : Upsert(K)
    \/ \E k \in Key : Invalidate(k) \/ InvalidateFails(k)
    \/ \E r \in Reader : (\E k \in Key : BeginFind(r, k)) \/ ReaderStep(r)

\* Time passes, and calls that have begun end: statements and commands return.
\* Nothing is assumed of new calls, of upserts or of Redis coming back.
Fairness ==
    /\ WF_cacheVars(Tick)
    /\ \A k \in Key : WF_cacheVars(Invalidate(k) \/ InvalidateFails(k))
    /\ \A r \in Reader : WF_cacheVars(ReaderStep(r))

CacheSpec == CacheInit /\ [][CacheNext]_cacheVars /\ Fairness

-----------------------------------------------------------------------------
(* Properties.                                                              *)

\* Every variable has its type; no entry outlives the configured TTL.
CacheTypeOK ==
    /\ db \in [Key -> 0..MaxVersion]
    /\ cache \in [Key -> Entry]
    /\ redisUp \in BOOLEAN
    /\ reader \in [Reader -> ReaderState]
    /\ writer \subseteq Key /\ excused \subseteq Key

Stale(k) == cache[k].state = "good" /\ cache[k].version < db[k]

\* Staleness has three causes only: the upsert has not deleted the key yet, its
\* DEL failed, or a Find read the table before the upsert's commit and stored
\* what it read after the DEL.
StaleHasExcuse == \A k \in Key : Stale(k) => k \in writer \/ k \in excused

\* A Find that read old rows never replaces an entry built from newer ones
\* (SET NX): an entry gives way to older data only after it is gone.
NoDirectRegress ==
    [][\A k \in Key : cache[k].state = "good" /\ cache'[k].state = "good"
                      => cache'[k].version >= cache[k].version]_cacheVars

\* Stale data does not stay: after the last upsert every entry is eventually
\* current for good, with DELs failing, Redis down and Finds racing, because
\* entries expire.
EventuallyCoherent == \A k \in Key : <>[](~Stale(k))
=============================================================================
