# TLA+ models of stock-backend

stock-backend is the Go API server and batch runner of a stock-chart application.
This directory models the parts of it whose correctness depends on the order in
which concurrent requests, jobs, failures and timers happen. TLC checks the models
on small instances; TLAPS proves nearly all of their safety properties for instances of any size.

Contents: [inventory](#inventory), [modules and code](#modules-and-code),
[runs](#runs), [disagreements found](#disagreements-found), [bounds](#bounds),
[fairness](#fairness), [proofs](#proofs), [not modelled](#not-modelled),
[plan](#plan).

To check a run: `tlc -config <cfg> <module>`; to check the proofs
about a module: `tlapm <module>Proofs.tla`. `PROJECT.json` lists the runs, which definition
translates which lines, the hazards with the properties that watch them, and for
each property a mutated definition that makes TLC report it violated.

## Inventory

Three programs share PostgreSQL and Redis: `cmd/api` (several processes on Cloud
Run), `cmd/batch` (one process per execution of a job) and `cmd/migrate`.

| component | state it keeps | operations | what is hard | what makes it correct |
|---|---|---|---|---|
| refresh sessions (`feature/auth/session*.go`) | rows of `refresh_sessions`, advisory lock per family, row locks | Issue, Refresh (Rotate), Logout (Revoke), cleanup batch | a rotation inserts a row that a concurrent revocation cannot see; time read before a lock wait; commits whose answer is lost; cleanup locks rows in another order | at most one exchangeable token per family; a revocation reaches every row; a spent token stays recognisable; a denial is final; no deadlock among requests |
| auth handlers, JWT, CSRF (`authhttp`, `transport/jwt`, `transport/csrf`) | the browser's cookies, the JWT blacklist in Redis | login, refresh, logout, any protected request | responses reordered or lost, two tabs, Redis down, three lifetimes | own requests pass CSRF; concurrent refreshes do not log the user out; logout is immediate while Redis works |
| accounts (`credentials.go`, `oauth*.go`, `user_repository.go`) | `users`, `oauth_accounts`, OAuth states in Redis, the state cookie | signup, login, OAuth begin and callback | first logins that race, two-table transaction, repeated callbacks, two tabs | every passwordless user has exactly one identity; sessions only for what was proven; a state is used once |
| watchlist (`feature/watchlist`) | ordered rows under two unique indexes | add, remove, reorder, defaults at sign-up | add and reorder share no lock; the list checked is older than the rows locked; an id is drawn before the row can be seen | it is one ordered list on which every request acts at once or not at all; no key collisions; no deadlock but next to the hook |
| candle cache (`caching_repository.go`) | Redis entries | Find, UpsertBatch | fill racing an invalidation, lost DEL, corrupt entries | stale only for a known reason and never for longer than the TTL |
| ingest jobs (`candles/ingest.go`, `symbollist/ingest.go`, `twelvedata`, `clientratelimit`) | counts, limiter window, retry state | IngestAll | context ends anywhere; retries; answers with nothing to store; quota | each symbol counted once; a truthful exit code; the job ends |
| aggregation (`aggregation.go`, `repository.go`) | `candles` rows of three intervals | one run per day | the window of daily bars slides; weeks are stored while open; repeated entries | finished weeks and months are those of the market |
| batch runner (`app/batch`, `advisory_lock.go`) | advisory lock, lock connection, exit code | run | lost connection, crash, lost answer, panic | overlap only with a lost link and never unreported; the lock is freed |
| HTTP rate limit (`transport/httpratelimit`) | sorted set per key in Redis | Allow | the clock is the server's, the script runs later and again, answers are lost; keys come from headers and spellings that the client chooses | no window admits more than the limit; a 429 is earned |
| router and middleware (`app/router`, `transport/middleware`, `transport/openapivalidate`) | one request's position, status and log record | RealIP, TraceID, AccessLog, Recover, CORS, authentication, CSRF, validation, limiters | the order differs per route; panics at any stage; bodies without a declared length | one log record with what the client saw; nothing is read for a request that is refused earlier |
| quotes (`quotes.go`, `candleshttp`) | slots of an errgroup | GET /v1/quotes | goroutines over few slots, cancellation | each code once, in order; one failure costs one code |
| start of the programs (`app/config`, `infra/db`, `app/migrate`, `cmd/*`) | configuration, database pools, Cloud SQL dialers | load, validate, connect with retries | a deadline between a ping and a pause; a dialer per attempt; variables that depend on each other | works only with a sound configuration; gives up neither early nor late; leaks nothing |
| API process (`app/server`) | connections, listener, deferred calls | start, serve, drain, exit | signals, a failing listener, hanging handlers | everything closed, nothing cut silently, exit on signal |
| logo API (`feature/logodetection`) | per-user quota, body limits | detect, analyze | paid calls, panics, three size limits | a paid call is always charged; the best of each logo |

How they meet: each program loads its configuration and opens its databases
(`batch` two of them: one for the lock, one for the job). `server.Run` wires the
handlers; every request passes RealIP, TraceID, AccessLog, Recover and CORS; a
protected route then runs AuthRequired, csrf.Protect, OpenAPI validation, for the
paid routes a rate limiter, and the handler, and a public one its limiter first. The
OAuth callback and signup call the watchlist's defaults hook. `authhttp` calls the
session store and the JWT blacklist. `GetCandles` and `GetQuotes` read through the
candle cache, which the candles job invalidates from another process. Every job
runs inside `batch.run` with its lock. The cleanup job deletes the rows that
refreshes and logouts lock.

## Modules and code

A module's state is named after what it stands for in the code, an action after the
function or the statement it models. In the database models an action is one SQL
statement (or a lock it waits for): PostgreSQL at READ COMMITTED, row locks until
commit, unique indexes that wait for an undecided insert. Every statement may fail.

* **RefreshSession** - `Issue`, `Rotate`, `Revoke`, `DeleteExpired`. `sessions` are
  the committed rows, `tx[p]` what the transaction of request or cleanup `p` has
  read, locked and written but not committed. `FindFamily`, `LockFamily`, `LockRow`,
  `ScanRow` (an UPDATE or DELETE of many rows takes their locks one by one) and the
  three commits. `Fail` is any error or rollback; a commit that takes effect while
  its answer is lost is an alternative of each commit.
  * **SessionFamily** - what the store promises, without transactions, locks or clock.
  * **RefreshSessionInv**, **RefreshSessionProofs** - inductive invariant and proofs.
  * **RefreshSessionLiveness** - fairness and progress.
* **WebSession** - one browser: cookie jar, requests with the cookies of the moment
  they were sent, responses received in any order or lost, the handlers, the JWT
  middleware with its blacklist, CSRF. The store is used as RefreshSession's
  refinement justifies: each transaction is atomic.
* **Accounts** - signup, login, OAuth begin, callback step by step (state consumption,
  provider exchange, lookup, two inserts, commit, issue).
* **Watchlist** - one user's rows; `Add` in its four statements, the two-phase
  `Reorder`, `Remove`, the defaults hook. An INSERT draws its id (`DrawId`) before it
  waits for an index or for the users row, as BIGSERIAL does: `byId` holds the ids in
  use, those of rows that nobody can see yet included. The hook skips a default that is
  not in table symbols and keeps its position as the key.
  * **OrderedList** - what the user is promised: a list without keys, locks or
    transactions. The refinement maps the committed rows to the list they are shown
    as and each running request to what it asked for.
  * **Sorting** - `ORDER BY` as an operator: the elements of a finite set by their keys.
    Also used by OrderedList and, for positions of a slice, by Quotes.
* **CandleCache** - every command of `Find` and `UpsertBatch`. An entry's contents are
  the version of the rows it was built from; a deployment may find one of an earlier
  revision, readable (an array of candles) or not. Its specification is called `CacheSpec`:
  the proofs about it stand beside those of the ingest that invalidates it.
* **HttpRateLimit** - `Allow`: the clock reading, then the Lua script as one step, for
  any number of keys. It has no Next of its own; RequestPipeline makes the calls. The
  Redis client is made with its default retries (`infra/redis/client.go:37`), so that a
  script whose answer is lost is sent again with the same member (`Resend`): the entry of
  the first attempt counts against the second, and at the boundary a request is refused
  by itself. `decided` and `lost` are the histories of what Allow returned and of attempts
  that were let in for nothing.
* **LogoApi** - what the handlers of the two paid routes check before their call, and
  `deduplicateLogos`: operators that RequestPipeline uses. `DetectRefusals` is a set of
  answers: a body that is too large and malformed is answered by whichever the multipart
  reader meets first, and reading the image may fail.
* **RequestPipeline** - requests of all routes through `NewRouter`'s middleware, the
  chain of their route, the limiter and the handler, to the access log. `Global` and
  `Chain` are the compositions written in the router, and what a middleware sees
  depends on where it stands in them. Health check, 404 and preflight included.
* **BatchJob** - `run` and the lock functions; the server's session is separate from
  the client that opened it.
* **MarketIngest** - `IngestAll` of both jobs, `WaitIfNeeded`, the HTTP retry loop and
  the exit code. A symbol whose store reports no error succeeds, with rows written
  (`stored`) or with nothing to write (`blank`): a batch without candles, a logo for a
  symbol that is gone. Timers count down and ages saturate, so runs have no length bound; the
  history `admitted` keeps the calls of the last `Interval` that passed the limiter.
* **IngestExecution** - BatchJob and MarketIngest together: one execution runs the
  ingest inside its lock, another competes for the lock, and connections break and
  processes die at any point of the ingest.
* **CandleHistory** - the market, one symbol's rows and a run of the job as one step:
  deduplication, aggregation, trimming and upsert as operators.
* **Quotes** - handler validation, errgroup with its limit, cancellation, collection.
* **ServerLifecycle** - `server.Run`: set-up, listener goroutine, signal, drain, defers.
* **QuotesServer** - Quotes and ServerLifecycle together: the handler and its
  goroutines run while their process drains, closes its clients and exits.
* **Startup** - the three programs from the environment to the database: every variable
  is one of the classes of values the code tells apart; `LoadAPI`, `LoadBatch`,
  `LoadMigrate` and `Validate` as operators, the command line, and
  `ConnectSQLWithRetry` with its clock, its pings and the dialers it makes. Over the
  Cloud SQL connector an attempt makes a dialer (`NewDialer`), then has pgx parse the
  connection string (`ParseConfig`), which may refuse a value that the validation let
  pass (`DsnParses`); then the opener has to close the dialer, later the database does.

The MC modules give constants their values and define the symmetry sets. A module
`XProofs` holds the theorems about module X, its inductive invariants and the lemmas
(those about CandleCache are in IngestExecutionProofs).
`TypeOK` of each module documents its state and is the first conjunct of the
inductive invariants (StartupProofs and QuotesServerProofs state their own, for the
variables they speak of).

An operator introduced by "Faulty variant" is no part of a model: it is a plausible
mistake in the definition that follows it. With the definition replaced by it, TLC
reports the property that `PROJECT.json` pairs it with; this is how each property is
shown to depend on the code.

## Runs

| run | instance | shows |
|---|---|---|
| `refresh_session` | two requests and a cleanup on one family of three tokens | `AtMostOneLive`: never two exchangeable tokens; `RevocationIsTotal`: a logout or a detected reuse reaches also the row a concurrent rotation inserts; `ChainIsIntact`: a spent row keeps its successor while stored, so the cleanup never hides a reuse; `RequestsNeverDeadlock`: a wait cycle always has a cleanup in it; `DenialIsFinal`: after a reported reuse or logout no token of the family is exchangeable again; `ImplementsSessionFamily`: the store is the atomic one |
| `refresh_session_liveness` | as above, two tokens; the clock moves between transactions | `TransactionsEnd`: every transaction ends, those that meet a cleanup in a deadlock included |
| `web_session` | two requests in flight, three tokens | `OwnRequestsPassCsrf`, `ConcurrentRefreshKeepsSession` (a conflict answer keeps the cookies of the winner), `LogoutIsImmediate` (while Redis answers), `EndedSessionsFade` (an ended session is usable for at most one access token's lifetime) |
| `watchlist` | two requests, the defaults hook, three symbols | `ActsAsOrderedList`: the watchlist implements OrderedList - an addition goes last although Add and Reorder share no lock, a reorder takes effect exactly, at one instant and with the shifted keys never visible, or not at all; `AddNeverCollides`; `RequestsNeverDeadlock`: no circle of waits among additions and reorders, except for reorders that began while the hook was inserting a row |
| `watchlist_reorder` | without the hook | the disagreement below |
| `candle_cache` | two Finds, an ingest, two keys | `StaleHasExcuse`: only a lost DEL or a fill that overtook an upsert leaves a stale entry; `NoDirectRegress`: a slow fill never replaces newer data; `EventuallyCoherent`: stale entries go with the TTL |
| `request_pipeline` | three requests in 43 mixes of routes, clients and failures; limit one | `LimitHolds`: with scripts up to `MaxDelay` late, no `Window - MaxDelay` ticks admit more than the limit of one client, user or account, whatever X-Forwarded-For and spelling it sends; `RejectionIsEarned`: a 429 follows as many calls for the same subject as the limit, each counted once however often it was sent; nobody is refused for others; `AnswersAreLogged`: one record per request with what the client saw, after a panic too; `RefusedUnread`: a refused request costs no read of its body; `PaidCallIsCharged`; `BestOfEachLogo` (the deduplication against its definition) |
| `accounts` | two handlers, browsers, identities, users; addresses in two spellings | `IdentityOwnsUser`, `SessionsAreProven`, `StateIsSingleUse` |
| `ingest_execution` | an ingest of three symbols and a competing execution | `OverlapIsReported`, `Accounting` (each symbol counted once, and one that is called succeeded was stored or had nothing to store), `ExitZeroIsEarned` (0 only if enough symbols were), `TwiceTheLimit` (what a fixed window really guarantees), `ExecutionEnds` (and its lock is freed, after a crash too) |
| `candle_history` | seven days, a window of five | `HistoryIsTrue`: finished weeks and months equal those of the market as far as it was ever shown; `BarsMatchDays`: stored bars agree with stored days |
| `quotes_server` | seven requests, three codes, two slots | `AnswerIsExact`, `FailuresToldApart`, `AcceptedIsAnswered`, `ClientsOutliveRequests` (and no request is cut by a process that ends with 0), `NeverHangs` |
| `startup` | three environments, each with every variable changed to every class, and the combinations of variables read together, a connection string that pgx refuses among them; a database that comes and goes | `RetryIsBounded`: a program gives up within a pause and a ping of its deadline, and never on a database that has answered since one ping before it; `WorksSoundlyOrEnds`: no combination lets a program work with half a configuration, refusals come before anything is opened, every dialer is closed, that of a refused connection string too |

## Disagreements found

`watchlist_reorder`: `UpdateSortKeys` recognises concurrent changes by the number of
rows it locked (`watchlist/repository.go:103`). The counterexample removes a listed
symbol and adds another between the check of the request and the lock, then adds the
removed one again before its UPDATE. Every count matches, one row is outside the
request, and a final key collides with it: the unique violation (500) that the
comments at `usecase.go:77` and `repository.go:83` say the check prevents. The list
stays intact; the client has to repeat the request.

Observations made while modelling, which the models contain but no run singles out:

* `Refresh` reads the clock (`session.go:121`) before it waits for the family lock, so
  the grace period (`session.go:17`) is measured from a time that may precede the
  rotation it is compared with: a refresh that waits long still counts as concurrent.
* `docs/features/auth.md:15` says the cleanup removes expired and revoked sessions; a
  revoked session is kept until it expires.
* The defaults hook adds with fixed sort keys (`watchlist/usecase.go:133`): a symbol
  the user adds between sign-up and the hook takes key 0 and the hook stops there.
* Two reorders can deadlock, which the comment at `watchlist/repository.go:83` says the
  ordered locking prevents: the hook draws an id for a symbol, and while it waits for the
  users row an addition draws a later id for another one and commits. A reorder that
  begins its transaction now locks the visible row; the hook's row appears below it, and the next reorder
  locks that one first. Each then waits for the other's row, because the first reorder's
  updates reach the new row (its symbol was in the list when the request was checked, and
  was removed since). PostgreSQL aborts one of them (500). The additions among themselves
  are safe: they draw ids while they hold the users row.
* The comments on both `IngestAll` say that Succeeded counts symbols that were saved
  (保存成功). A symbol for which TwelveData has no candles, or a logo whose symbol has been
  deleted, is counted as well although no row was written, which the tests expect
  (`ingest_test.go`, `..._NoMatchingSymbol`): a run that stores nothing at all can end
  with exit code 0. `Accounting` and `ExitZeroIsEarned` therefore count both.
* A request can be refused with 429 by its own first attempt: the script ran, its answer
  was lost, and go-redis sent it again (`httpratelimit/limiter.go:100`).
* A callback whose state does not match deletes the state cookie
  (`authhttp/oauth.go:104`), that of a login begun in another tab included.
* Two racing first logins with one identity end, for the loser, as
  `account_conflict` (`auth/oauth.go:215`) although no other account exists.
* A lost lock connection goes unnoticed until the unlock, so that a second execution
  may run beside the first (`README.md:317` says it is skipped), and a session that
  the server has not yet found dead makes an execution skip with exit code 0.
* The limiter's fixed window (`limiter.go:33`) admits up to twice the limit in one
  interval; the one call of slack at `batch.go:18` does not cover that.
* A listener failure and a signal that are both ready are chosen between at random
  (`server.go:176`), so a failed listener can end with exit code 0.
* `Validate` trims the instance name (`infra/db/config.go:80`), `OpenSQL` and `BuildDSN`
  do not: a name of blanks is validated as a TCP connection and opened through the
  connector, which retries it for a minute instead of refusing it; `DB_IP_TYPE` is
  then not the validated value that `cloudsql.go:60` assumes.
* The package comment of `config.go` says that invalid values which are not fatal are
  collected as warnings; `readTimeoutHours` (`config.go:307`) and `LOG_LEVEL` fall back
  without one.
* A handler that panics with `http.ErrAbortHandler` leaves no access-log record
  (`recover.go` passes it on through AccessLog, which logs only on return).

## Bounds

The names are those of the cfg files.

* `MaxClock`, with lifetimes of one to three ticks: each lifetime can end before,
  between and after every pair of steps. `Grace = 0` makes concurrent and late reuse
  one tick apart.
* In `refresh_session_liveness` the clock moves only while no transaction is open
  (`Paced`). A transaction reads the clock once, at its start, so this excludes
  overlapping transactions of different ticks; `refresh_session` has them.
* Three tokens let a chain have a spent, a current and a new row; two requests and a
  cleanup are all pairs of roles that can meet. The proofs have no such bound.
* `MaxKey = 1` (3 in `watchlist_reorder`) bounds the keys that an addition hands out. Three
  listed symbols and a default that is not listed allow a list to shrink, grow and be
  reordered by two requests beside the hook, which skips a key.
* `MaxVersion = 2`: an entry can be two versions behind. `TTL = 1`: an entry expires
  one tick after it was stored.
* Limit one, a window of three and scripts up to one tick late: requests of one subject
  are admitted, refused and admitted again, in and out of order. The scenarios of
  MCRequestPipeline hold every route, every class of header, body and token, and the
  pairs that share a limiter's key or must not share it.
* `Timeout = 6`, `Pause = 2`, `PingTimeout = 3` stand for 60, 3 and 5 seconds:
  several attempts fit, and a ping can begin before and end after the deadline.
* `Total = 3`, `Threshold = 40`, `Limit = 1`, `MaxRetries = 1`: success, partial
  failure on both sides of the threshold, a wait of the limiter between any two
  symbols, a retry that helps and one that does not. No bound on the time.
* Weeks of two days and months of three and four, with a window of five: buckets of
  both kinds start together and apart, and the window cuts each of them.
* Three codes over two slots: the group is full while a code waits. Requests at and
  one beyond `MaxCodes` and `MaxBars`.
* Image, framing and JSON limits of 3, 2 and 1 with bodies on both sides of each.

Symmetry is used only in runs without liveness properties.

## Fairness

* `RefreshSessionLiveness`: strong fairness of each process's next step, because
  PostgreSQL queues lock waiters and serves them in turn, and weak fairness of the
  abort of a deadlock's victim (`deadlock_timeout`). Nothing of clients or failures.
* `CandleCache`: time passes and begun calls return (the Redis and SQL clients have
  timeouts). Redis need not come back, upserts need not happen.
* `IngestExecution`: the process keeps running, timers fire, requests return (the HTTP
  client has a timeout), and the server ends the session of a dead client (TCP
  keepalive). TwelveData need never answer well, the context need not end.
* `QuotesServer`: Run and its timers proceed, lookups return, the goroutines of the
  followed request are scheduled. Other handlers may hang, the database may stay
  down, signals need not come.

## Proofs

Every theorem holds for every value of the constants that satisfies the module's named
ASSUME, which TLC evaluates on the run of that module: no bound of the cfg files is
used, sets of requests, tokens, keys and users may be infinite (only the symbols of a
watchlist are finitely many: a list is sorted out of them). "Property" is what a run
checks on its instance and the theorem states in general.

| module | theorem | property |
|---|---|---|
| RefreshSessionProofs | `TypeCorrect`, `OneLiveSession`, `TotalRevocation`, `IntactChain` | `TypeOK`, `AtMostOneLive`, `RevocationIsTotal`, `ChainIsIntact` |
| | `NoRequestDeadlock`, `FinalDenial` | `RequestsNeverDeadlock`, `DenialIsFinal` |
| | `Refinement` | `ImplementsSessionFamily` |
| WebSessionProofs | `OwnRequestsPass`, `RefreshKeepsSession`, `ImmediateLogout`, `SessionsFade` | `OwnRequestsPassCsrf`, `ConcurrentRefreshKeepsSession`, `LogoutIsImmediate`, `EndedSessionsFade` |
| WatchlistProofs | `AdditionsNeverCollide`, `RequestsAreFreeOfDeadlock` | `AddNeverCollides`, `RequestsNeverDeadlock` |
| | `WatchlistIsAnOrderedList` | `ActsAsOrderedList` |
| AccountsProofs | `IdentitiesOwnUsers`, `ProvenSessions`, `SingleUseState` | `IdentityOwnsUser`, `SessionsAreProven`, `StateIsSingleUse` |
| RequestPipelineProofs | `EveryAnswerLogged`, `RefusalsAreFree`, `ChargedCalls` | `AnswersAreLogged`, `RefusedUnread`, `PaidCallIsCharged` |
| | `LimitIsKept`, `RejectionsEarned` | `LimitHolds`, `RejectionIsEarned` |
| IngestExecutionProofs | `ProcessIsBatchJob`, `JobIsIngest` | the composition implements BatchJob and MarketIngest |
| | `OverlapReported`, `ExactAccounting`, `EarnedExitZero` | `OverlapIsReported`, `Accounting`, `ExitZeroIsEarned` |
| | `AtMostTwiceTheLimit` | `TwiceTheLimit` |
| | `StalenessExplained`, `NoRegress` | `StaleHasExcuse`, `NoDirectRegress` |
| QuotesServerProofs | `ClientsOutlive`, `FailuresApart` | `ClientsOutliveRequests`, `FailuresToldApart` |
| | `AnswersAreExact` | `AnswerIsExact` |
| StartupProofs | `BoundedRetry`, `SoundWork` | `RetryIsBounded`, `WorksSoundlyOrEnds` |

The theorems called `...Invariance` state the inductive invariants. What each adds to
the property, and why it is needed:

* **RefreshSession** - the properties speak of committed rows, and a commit writes what
  its transaction decided earlier. `IInv` therefore adds what open transactions hold:
  `FamilyWriterHoldsLock` (whoever is past the family lock owns it),
  `WrittenRowsLocked`, `RotationReady` (the row to be spent is locked and still
  exchangeable, its successor not yet in the table), `RevocationCovers` (no valid row
  of the family is outside the UPDATE; here the family lock matters, which keeps a
  rotation from inserting one), `CleanupCovers` (a row is deleted together with its
  predecessor, because a successor expires no earlier), `TxShape` and `RowShape` (which
  fields are set when; no row expires more than TTL after its creation), and
  `SuccessorsDistinct`. What another process's step leaves alone is stated twice, for
  steps that write no row (`OtherProcQuiet`) and for commits (`OtherProcCommit`).
  `QuietRefines` to `CleanupRefines` are the cases of the refinement. `RequestInv` adds
  that a request takes its family lock first and keeps to the rows of that family, so
  that a waiter for a row and the row's owner are one process and a circle of requests
  could only consist of waiters for family locks; and that only expired rows are
  deleted, from which the finality of "invalid" follows.
* **WebSession** - `WebInv`: cookies and responses name issued tokens only
  (`KnownTokens`); a family is revoked as a whole and nothing is issued to it afterwards
  (`Families`, `RevokedTogether`); a blacklist entry ends with its token
  (`ListedForLife`); and, as long as nothing disturbed the session, a token on its way
  to the browser is live, on its way once and presented by nobody, and the browser
  holds a live token or one is on its way to it (`Undisturbed`). The last part is what
  a 409 that kept nothing, or cleared the cookies, would break.
* **Watchlist** - `WatchlistInv`. `Shapes` says what a transaction has written at each
  statement: a reorder in its two phases first the negative keys, then the final ones
  (`Moved`). `Keys` and `Views`: keys are distinct in the table and in what any
  transaction sees of it with its own writes. `Writers` and `Locks`: rows are changed
  only by the reorder that locked them, inserted only by additions, which hold the users
  row, or by the hook. `Ids` and `FirstRow`: whoever holds any row holds the first one by
  id, unless the hook was inserting when it took its rows (`blind`), so at most one reorder
  without that excuse is past its locking, and no circle of waits can close among those
  and the additions. `InPlace`: no step puts an id before those of the rows but a hook's
  that was there already.
  `Counted` and `AddKeys` are why an addition that shares no lock with a reorder does
  not collide with it: a reorder of n entries holds n rows, n distinct natural keys
  reach at least n - 1, the addition's key is above them all, and the reorder hands out
  keys below n.
* **The refinement of OrderedList** - the list is `SortedBy` of the committed rows. The
  lemmas about Sorting say that it is a list of exactly those elements with ascending
  keys and the only such list; so the list after a commit is found by naming one and
  checking its keys. Appending a largest key appends (`AddIs`, `GiveIs`), removing a row
  removes an entry (`DropIs`), and the keys 0 to n - 1 of a reorder put its order before
  the rows added since, whose keys are n or more (`ReorderIs`). Each step of Watchlist is
  one of these, the start of a request (`AskAdd`, `AskReorder`), a refusal (Decline) or a
  statement that changes no committed row, which is a stutter (`StepIs`, `NextIs`).
* **CandleCache** - `NotAhead`: neither an entry nor a Find in progress has a newer
  version than the table. Then a stale entry can only come from a fill that read
  before an upsert, or from a DEL that did not happen.
* **Accounts** - `KeysHeld`: what an open CreateUserWithOAuthAccount has inserted is in
  no table and in no other open transaction (the unique indexes make the second INSERT
  wait), `CallShape` and `IssueIsOwn`; for the states, that an open callback carries the
  cookie of the browser that began the flow.
* **RequestPipeline** - `ServerInv` says for every place of every chain what a request
  there has passed: its limiter, its token, its CSRF check, its validated body, and
  that nothing was read before. The lemmas `ChainIs` and `PlacesInChain` compute the
  chains of `NewRouter` once. `WindowInv` ties the sorted sets to the history: an
  admitted request is counted until its window ends, what is counted belongs to a
  call that was not refused with 429 (`decided`) or to an attempt that was let in and sent
  again (`lost`), a call once however often it was sent, and keys
  of different subjects differ. `LimitIsKept` then compares the admissions of an
  interval of `Window - MaxDelay` ticks with what the last of their scripts saw: all
  of them, at most `Limit - 1` before itself.
* **IngestExecution** - the composition implements both of its parts, so `BatchInv` and
  `IngestInv` are proved on BatchJob and on MarketIngest and carried over; only
  `ExitCodeLink`, what the runner knows of the ingest, belongs to the composition.
  `OverlapDooms`: of two executions that overlapped, one has lost its connection or
  will not exit with 0 any more. `LimiterInv` divides the calls of the last `Interval`
  by the start of the limiter's window: there are at most `Limit` since then, because
  they are counted, and at most `Limit` before, because they belong to the window that
  was closed by the last reset; a reset comes a tick after the last call at the
  earliest, so no call of an even older window is left.
* **QuotesServer** - `ProcessInv`: what is open is among the deferred calls, nothing is
  served before everything is open, code 0 is set only with no request running,
  and none runs after the end; `HandlerInv`: the group has an error, and a lookup is
  interrupted, only after the request's context has ended. `SlotsInv` is for the
  answer: the codes are those of `dedupCodes`, a slot whose goroutine is done holds an
  outcome or the group an error, and a quote in slot i is that of code i (`Slot`). When
  g.Wait returns, the slots with quotes and those with failures are then a partition,
  and `Ascending` lists each in the order of the slots, which is that of the first
  occurrences in the request (`DedupIs`). `QuoteIs` computes the sparkline through the
  two cuts it goes through, of the query (at least two bars) and of `buildQuote`.
* **Startup** - `RetryInv` bounds the clock at each place of the loop (`NeverLate`) and
  says since when the database cannot have answered (`NeverEarly`). `SoundWork` splits
  `Validate` by the kind of the program; it needs `CookieDomainClasses`.

The assumptions are those that the code gives: `None` and `Null` are no values,
lifetimes, windows and limits are naturals, positive where a default or a validation
makes them so, `AccessTTL < RefreshTTL` (10 minutes and 30 days), requests and
cleanups are different processes, a ping takes less than the whole of the retries.
Quotes' `BoundsAssumption` says that the codes of a request are a sequence and that the
table has a sequence of closes for every code.
`ServerConstants` is the one about inputs: at most two trusted hops (the platform's load
balancer and one more edge), clients at real addresses, images inside their bodies,
probes that carry no forwarded address.

The proofs changed the models in a few places. `Admit` of RequestPipeline was a CASE
whose guards overlapped, so that its value was only what TLC takes first; it is now
the IF chain of the code. `ServerConstants`, `LogoConstants`, `CookieDomainClasses` and a
part of `WebConstants` name what was only true of the instances. NonBlank and
WithSettings are written as functions, ORDER BY, `dedupCodes` and the collection of the
slots with `SortedBy`, in place of operators that the provers do not know. The history
of MarketIngest's limiter is a set of calls with their ages, so that it can be counted. The second clause of `RetryIsBounded` holds for targets that exist (`TargetExists`):
a blank instance name (see the observations) passes the validation and answers no ping.

Where a proof needs induction over finite sets or numbers it takes a smallest
counterexample, which the library's theorems about well-founded orders provide
(`FiniteMax`, `Smallest`).

Only model-checked:

* liveness (`TransactionsEnd`, `EventuallyCoherent`, `ExecutionEnds`, `NeverHangs`) and
  `AcceptedIsAnswered`: these need fairness;
* what a fold computes, because that needs induction along its recursion, which the
  provers cannot unfold: `BestOfEachLogo` (the loop of `deduplicateLogos` against its
  definition), `HistoryIsTrue` and `BarsMatchDays` (the loop of `aggregate`, with sums of
  volumes). Rewriting these loops as the definitions they are compared with would
  prove nothing about them.

## Not modelled

Dependency wiring (constructors; their failure is a step of ServerLifecycle), what
goose does with a migration (a library call with its own state and locking; the
constraints it creates are in the models), symbol listing (one read-only query whose
rows are copied), the formatting of log records, generated code and test helpers.
Within modelled parts: a limiter script that Redis runs after the client has given it up
(it runs before the answer to the request or not at all), token signatures, duplicate cookies of two domains, contents
of prices beyond small integers, the parsing of numbers and addresses, message texts.

## Plan

Done: the modules above, in the order sessions, browser, watchlist, cache, limiter,
accounts, batch, ingest, history, quotes, server, logo, then the request pipeline that
composes limiter, logo API and middleware, the ordered list that Watchlist implements,
and the start of the programs.

The proofs cover every module but CandleHistory (HttpRateLimit and LogoApi's checks are
proved as parts of RequestPipeline, Sorting as part of Watchlist and of QuotesServer).
Left, for whoever goes on: the composition of WebSession with RefreshSession in place of
its abstraction, and a bounded-staleness register as the specification of CandleCache.
