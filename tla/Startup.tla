------------------------------ MODULE Startup -------------------------------
(***************************************************************************)
(* The start of each of the three programs (cmd/api, cmd/batch,             *)
(* cmd/migrate): reading the environment (app/config), reporting what is    *)
(* wrong with it, checking the command line, and opening databases with     *)
(* retries (infra/db), over TCP or through the Cloud SQL connector, until   *)
(* the program works or gives up.  What happens while it works is           *)
(* ServerLifecycle, BatchJob and, for cmd/migrate, the goose library.       *)
(*                                                                          *)
(* A variable of the environment is one of the classes of values that the   *)
(* code tells apart: "unset", "blank" (only spaces), and others by name.    *)
(* "DSN" stands for what pgx reads of the connection string: DB_PORT,       *)
(* DB_SSLMODE and libpq's own variables, which it "parses" or finds         *)
(* "invalid".                                                               *)
(***************************************************************************)
EXTENDS Integers, Sequences

CONSTANTS
    Environment,  \* the environments: [variable -> class of its value]
    Timeout,      \* of OpenSQL, 60 s
    Pause,        \* between attempts, 3 s
    PingTimeout,  \* pingTimeout, 5 s
    Never

ASSUME StartupConstants ==
    /\ Pause \in Nat /\ PingTimeout \in Nat /\ Timeout \in Nat
    /\ PingTimeout <= Timeout /\ Never \notin Nat

\* The classes of values that ParseCookieDomain tells apart.
ASSUME CookieDomainClasses ==
    \A e \in Environment :
        e["COOKIE_DOMAIN"] \in {"unset", "blank", "valid", "leading dot", "invalid"}

VARIABLES
    entry,     \* "api", "batch" or "migrate"
    command,   \* first argument: "none", "known" or "unknown"
    env,       \* the environment
    pc,        \* what runs next
    cfg,       \* what Load returned
    clock,
    up,        \* since when the database answers, Never while it does not
    began,     \* start of the running attempt
    wake,      \* end of the pause
    deadline,  \* of the running ConnectSQLWithRetry
    pools,     \* the databases opened: their pool limits
    dialers,   \* Cloud SQL dialers not closed
    code       \* exit code

vars == <<entry, command, env, pc, cfg, clock, up, began, wake, deadline, pools, dialers, code>>

-----------------------------------------------------------------------------
(* Reading the environment *)

IsSet(v) == env[v] # "unset"
Blank(v) == env[v] \in {"unset", "blank"}

\* readInt and readDuration: a positive number, or 0 for the default.
ReadPositive(v) == IF env[v] = "positive" THEN "positive" ELSE "zero"
NotPositive(vs) == {v \in vs : env[v] \notin {"unset", "positive"}}

\* readTimeoutHours: the default without a warning.
ReadTimeoutHours(v) == IF env[v] = "positive" THEN "positive" ELSE "default"

\* readMaxFailureRate: a number in [0,1] or the default.
ReadMaxFailureRate(v) == IF env[v] = "rate" THEN "rate" ELSE "default"
NotARate(vs) == {v \in vs : env[v] \notin {"unset", "rate"}}

Production == env["APP_ENV"] = "production"

ParseLogFormat ==
    CASE env["LOG_FORMAT"] = "json" -> TRUE
      [] env["LOG_FORMAT"] = "text" -> FALSE
      [] OTHER -> Production

\* ParseBoolString of COOKIE_SECURE.
SecureCookie ==
    CASE env["COOKIE_SECURE"] = "true" -> TRUE
      [] env["COOKIE_SECURE"] = "false" -> FALSE
      [] OTHER -> Production

ParseCookieDomain == IF Blank("COOKIE_DOMAIN") THEN "host only" ELSE env["COOKIE_DOMAIN"]
DomainFails == env["COOKIE_DOMAIN"] \in {"leading dot", "invalid"}

\* ParseCORSOrigins: a list of nothing but blanks and commas counts as unset.
Origins == IF Blank("CORS_ALLOWED_ORIGINS") THEN "default" ELSE "listed"

SecretsFail == \E v \in {"JWT_SECRET", "PASSWORD_PEPPER"} : env[v] # "long"

DbNumbers == {"DB_MAX_OPEN_CONNS", "DB_MAX_IDLE_CONNS", "DB_CONN_MAX_LIFETIME"}

\* The settings c and, beside them, the settings d.
WithSettings(c, d) ==
    [s \in (DOMAIN c) \union DOMAIN d |-> IF s \in DOMAIN c THEN c[s] ELSE d[s]]

\* readLog and readDB
ReadCommon ==
    [json |-> ParseLogFormat, debug |-> env["LOG_LEVEL"] = "DEBUG",
     maxOpen |-> ReadPositive("DB_MAX_OPEN_CONNS"),
     maxIdle |-> ReadPositive("DB_MAX_IDLE_CONNS"),
     lifetime |-> ReadPositive("DB_CONN_MAX_LIFETIME"),
     fatal |-> FALSE,
     warnings |-> NotPositive(DbNumbers)
                  \union {v \in {"LOG_FORMAT"} :
                            ~Blank(v) /\ env[v] \notin {"json", "text"}}]

ReadCache(c) ==
    WithSettings(
        [c EXCEPT !.warnings = @ \union NotPositive({"CANDLES_CACHE_TTL"})],
        [ttl |-> IF ReadPositive("CANDLES_CACHE_TTL") = "zero" THEN "default" ELSE "positive"])

\* readServer up to its early returns.
ReadServer(c) ==
    LET cookie == {v \in {"COOKIE_SECURE"} : env[v] \notin {"unset", "true", "false"}}
        hops == {v \in {"TRUSTED_PROXY_HOPS"} : env[v] \notin {"unset", "zero", "positive"}}
    IN  IF SecretsFail THEN [c EXCEPT !.fatal = TRUE]
        ELSE IF DomainFails
        THEN [c EXCEPT !.fatal = TRUE, !.warnings = @ \union cookie]
        ELSE WithSettings(
                [c EXCEPT !.warnings = @ \union cookie \union hops],
                [secure |-> SecureCookie, domain |-> ParseCookieDomain, origins |-> Origins,
                 hops |-> ReadPositive("TRUSTED_PROXY_HOPS")])

\* readOAuth: a provider is enabled by its client id ("unset" without one) and then
\* needs its secret and its redirect URL.
Providers == {p \in {"GOOGLE", "GITHUB"} : IsSet(p)}
Complete(p) == IsSet("OAUTH_FRONTEND_REDIRECT_URL") /\ env[p] = "complete"

ReadOAuth(c) ==
    IF c.fatal \/ \E p \in Providers : ~Complete(p)
    THEN [c EXCEPT !.fatal = TRUE] ELSE WithSettings(c, [oauth |-> Providers])

LoadAPI == ReadOAuth(ReadServer(ReadCache(ReadCommon)))

LoadBatch ==
    LET c == ReadCache(ReadCommon)
        rates == {"INGEST_MAX_FAILURE_RATE", "LOGO_INGEST_MAX_FAILURE_RATE"}
        hours == {"INGEST_TIMEOUT_HOURS", "LOGO_INGEST_TIMEOUT_HOURS"}
    IN  WithSettings([c EXCEPT !.warnings = @ \union NotARate(rates)],
                     [rate |-> [v \in rates |-> ReadMaxFailureRate(v)],
                      hours |-> [v \in hours |-> ReadTimeoutHours(v)]])

LoadMigrate == ReadCommon

-----------------------------------------------------------------------------
(* The programs up to the database *)

UsesConnector == IsSet("INSTANCE_CONNECTION_NAME")

\* os.Exit after the deferred closes: closing a database closes its dialer.
Exit(c) ==
    /\ pc' = "exited" /\ code' = c /\ pools' = <<>>
    /\ dialers' = IF UsesConnector THEN dialers - Len(pools) ELSE dialers
    /\ UNCHANGED deadline

Goto(label) == pc' = label /\ UNCHANGED <<code, pools, dialers>>

settled == <<entry, command, env>>
retrying == <<clock, up, began, wake>>

Load ==
    /\ pc = "load"
    /\ cfg' = CASE entry = "api" -> LoadAPI
                [] entry = "batch" -> LoadBatch
                [] entry = "migrate" -> LoadMigrate
    /\ Goto("main")
    /\ UNCHANGED <<settled, retrying, deadline>>

\* OpenSQL begins; the deadline is that of ConnectSQLWithRetry.
BeginOpen == Goto("open") /\ UNCHANGED deadline

\* main reports the warnings, then the error; Run checks the arguments.  The API
\* connects to Redis first.
Main ==
    /\ pc = "main"
    /\ \/ cfg.fatal /\ Exit(2)
       \/ /\ ~cfg.fatal
          /\ \/ entry = "api" /\ (BeginOpen \/ Exit(1))
             \/ entry = "batch" /\ IF command = "known" THEN BeginOpen ELSE Exit(2)
             \/ entry = "migrate" /\ IF command = "unknown" THEN Exit(2) ELSE BeginOpen
    /\ UNCHANGED <<settled, cfg, retrying>>

-----------------------------------------------------------------------------
(* infra/db *)

\* Config.Validate, which takes a blank instance name for none.
ConfigValid ==
    /\ ~Blank("DB_USER") /\ ~Blank("DB_NAME")
    /\ IF Blank("INSTANCE_CONNECTION_NAME")
       THEN ~Blank("DB_HOST") /\ ~Blank("DB_PORT")
       ELSE env["DB_IP_TYPE"] \in {"unset", "PUBLIC", "PRIVATE"}

\* openSQLWithRetry up to the first attempt.
ValidateConfig ==
    /\ pc = "open"
    /\ \/ ~ConfigValid /\ Exit(1)
       \/ ConfigValid /\ deadline' = clock + Timeout /\ Goto("try")
    /\ UNCHANGED <<settled, cfg, retrying>>

\* The database has answered ever since t.
UpSince(t) == IF up = Never THEN FALSE ELSE up <= t

\* DefaultSQLOpener pings at once.
BeginAttempt ==
    /\ pc = "try" /\ ~UsesConnector
    /\ began' = clock
    /\ Goto("ping")
    /\ UNCHANGED <<settled, cfg, clock, up, wake, deadline>>

\* newCloudSQLOpener makes a dialer of its own for every attempt.
NewDialer ==
    /\ pc = "try" /\ UsesConnector
    /\ dialers' = dialers + 1
    /\ pc' = "parse"
    /\ UNCHANGED <<settled, cfg, retrying, deadline, pools, code>>

\* It makes none (no credentials, no network).
OpenerFails ==
    /\ pc = "try" /\ UsesConnector /\ ~UpSince(clock)
    /\ Goto("judge")
    /\ UNCHANGED <<settled, cfg, retrying, deadline>>

DsnParses == env["DSN"] # "invalid"

\* ParseConfig succeeds: the dialer now belongs to the database, which is pinged.
ParseConfig ==
    /\ pc = "parse" /\ DsnParses
    /\ began' = clock
    /\ Goto("ping")
    /\ UNCHANGED <<settled, cfg, clock, up, wake, deadline>>

\* Faulty variant: the opener returns without closing the dialer.
ParseLeaks ==
    /\ pc = "parse" /\ ~DsnParses
    /\ Goto("judge")
    /\ UNCHANGED <<settled, cfg, retrying, deadline>>

\* ParseConfig fails: no database owns the dialer yet, the opener closes it.
ParseFails ==
    /\ pc = "parse" /\ ~DsnParses
    /\ pc' = "judge"
    /\ dialers' = dialers - 1
    /\ UNCHANGED <<settled, cfg, retrying, deadline, pools, code>>

\* The connector refuses an instance name that is blank; the pgx driver parses its
\* connection string when it connects.
TargetExists == DsnParses /\ (UsesConnector => ~Blank("INSTANCE_CONNECTION_NAME"))

\* configurePool; the lock of a batch job takes a pool of one connection.
ConfigurePool ==
    LET limit(n) == IF n = "zero" THEN "default" ELSE n
        lock == entry = "batch" /\ pools = <<>>
    IN  [open |-> IF lock THEN "one" ELSE limit(cfg.maxOpen),
         idle |-> IF lock THEN "one" ELSE limit(cfg.maxIdle), lifetime |-> limit(cfg.lifetime)]

PingSucceeds ==
    /\ pc = "ping" /\ up # Never /\ TargetExists
    /\ pools' = Append(pools, ConfigurePool)
    /\ pc' = "opened"
    /\ UNCHANGED <<settled, cfg, retrying, deadline, dialers, code>>

\* pingOrClose: a database that answers during the whole attempt is found; closing
\* the database closes the dialer.
PingFails ==
    /\ pc = "ping"
    /\ ~(TargetExists /\ UpSince(began))
    /\ pc' = "judge"
    /\ dialers' = IF UsesConnector THEN dialers - 1 ELSE dialers
    /\ UNCHANGED <<settled, cfg, retrying, deadline, pools, code>>

\* Faulty variant: the loop ends when the pause would pass the deadline.
TooLateToPause == clock + Pause > deadline

\* time.Now().After(deadline)
TooLate == clock > deadline

Judge ==
    /\ pc = "judge"
    /\ \/ TooLate /\ Goto("gave up") /\ UNCHANGED wake
       \/ ~TooLate /\ wake' = clock + Pause /\ Goto("sleep")
    /\ UNCHANGED <<settled, cfg, clock, up, began, deadline>>

WakeUp ==
    /\ pc = "sleep" /\ clock = wake
    /\ Goto("try")
    /\ UNCHANGED <<settled, cfg, retrying, deadline>>

GiveUp ==
    /\ pc = "gave up"
    /\ Exit(1)
    /\ UNCHANGED <<settled, cfg, retrying>>

-----------------------------------------------------------------------------

\* A batch job takes its lock (or ends, with the lock taken elsewhere or failing)
\* and opens a second database; the others begin to work.
Opened ==
    /\ pc = "opened"
    /\ IF entry = "batch" /\ Len(pools) = 1
       THEN BeginOpen \/ \E c \in {0, 1} : Exit(c)
       ELSE Goto("work") /\ UNCHANGED deadline
    /\ UNCHANGED <<settled, cfg, retrying>>

\* The program ends: RunGoose succeeds or fails, the job or the server returns.
Finish ==
    /\ pc = "work"
    /\ \E c \in {0, 1} : Exit(c)
    /\ UNCHANGED <<settled, cfg, retrying>>

\* Time passes in pings, up to their timeout, and in pauses.
Tick ==
    /\ \/ pc = "ping" /\ clock < began + PingTimeout
       \/ pc = "sleep" /\ clock < wake
    /\ clock' = clock + 1
    /\ UNCHANGED <<settled, pc, cfg, up, began, wake, deadline, pools, dialers, code>>

\* The database starts and stops answering.
Database ==
    /\ pc \in {"ping", "sleep"}
    /\ up' = IF up = Never THEN clock ELSE Never
    /\ UNCHANGED <<settled, pc, cfg, clock, began, wake, deadline, pools, dialers, code>>

Init ==
    /\ entry \in {"api", "batch", "migrate"} /\ command \in {"none", "known", "unknown"}
    /\ env \in Environment
    /\ pc = "load" /\ cfg = [fatal |-> FALSE]
    /\ clock = 0 /\ up \in {Never, 0} /\ began = 0 /\ wake = 0 /\ deadline = 0
    /\ pools = <<>> /\ dialers = 0 /\ code = 0

Next ==
    \/ Load \/ Main \/ ValidateConfig \/ BeginAttempt \/ NewDialer \/ OpenerFails \/ ParseConfig
    \/ ParseFails \/ PingSucceeds \/ PingFails
    \/ Judge \/ WakeUp \/ GiveUp \/ Opened \/ Finish \/ Tick \/ Database

Spec == Init /\ [][Next]_vars

-----------------------------------------------------------------------------
(* Properties *)

\* ConnectSQLWithRetry gives up neither late nor early: within Pause + PingTimeout
\* of its deadline, and never on a database that answers without interruption
\* since PingTimeout before the deadline.
RetryIsBounded ==
    /\ pc \in {"try", "parse", "ping", "judge", "sleep", "gave up"} =>
          clock <= deadline + Pause + PingTimeout
    /\ pc = "gave up" /\ TargetExists => ~UpSince(deadline - PingTimeout)

\* What the configuration of a working program must be.
Sound ==
    /\ ~Blank("DB_USER") /\ ~Blank("DB_NAME")
    /\ \A i \in DOMAIN pools : \A f \in {"open", "idle", "lifetime"} : pools[i][f] # "zero"
    /\ IF UsesConnector THEN env["DB_IP_TYPE"] # "invalid"
       ELSE ~Blank("DB_HOST") /\ ~Blank("DB_PORT")
    /\ entry = "api" =>
          /\ env["JWT_SECRET"] = "long" /\ env["PASSWORD_PEPPER"] = "long"
          /\ \A p \in cfg.oauth : env[p] = "complete" /\ IsSet("OAUTH_FRONTEND_REDIRECT_URL")
          /\ Production /\ ~cfg.secure => env["COOKIE_SECURE"] = "false"
          /\ cfg.hops = "positive" => env["TRUSTED_PROXY_HOPS"] = "positive"
          /\ cfg.domain \in {"host only", "valid"}

\* A program works only with a sound configuration, whatever combination of
\* variables is missing, blank or invalid, and ends otherwise: with 2, before it
\* opens anything, for its configuration or arguments, with 1 for its database.
\* Between attempts no dialer is up but those of the databases that were opened, on
\* whichever path the attempt failed (LoadAPI, LoadBatch, LoadMigrate, Validate,
\* newCloudSQLOpener, pingOrClose).
WorksSoundlyOrEnds ==
    /\ pc = "work" => Sound
    /\ pc \notin {"parse", "ping"} => dialers = IF UsesConnector THEN Len(pools) ELSE 0
    /\ pc = "exited" => dialers = 0
    /\ code = 2 => clock = 0 /\ (cfg.fatal \/ command # "known")
=============================================================================
