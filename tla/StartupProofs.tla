---------------------------- MODULE StartupProofs ----------------------------
(***************************************************************************)
(* Startup, for every environment, timeout and pause: retrying is bounded   *)
(* and does not give up on a database that answers, and a program works     *)
(* only with a sound configuration or ends with its dialers closed.         *)
(***************************************************************************)
EXTENDS Startup, TLAPS

Labels ==
    {"load", "main", "open", "try", "parse", "ping", "judge", "sleep", "gave up", "opened", "work",
     "exited"}

\* The clocks of ConnectSQLWithRetry.
ClocksOK ==
    /\ pc \in Labels
    /\ clock \in Nat /\ began \in Nat /\ wake \in Nat /\ deadline \in Nat

\* How far beyond the deadline each step of an attempt may be: a pause that was
\* begun in time ends at most Pause after it, and the ping that follows takes
\* PingTimeout.
NeverLate ==
    /\ pc \in {"try", "parse"} => clock <= deadline + Pause
    /\ pc = "ping" => began <= deadline + Pause /\ began <= clock /\ clock <= began + PingTimeout
    /\ pc = "judge" => clock <= deadline + Pause + PingTimeout
    /\ pc = "gave up" => clock <= deadline + Pause + PingTimeout
    /\ pc = "sleep" => clock <= wake /\ wake <= deadline + Pause

\* After a failed attempt the database has not answered for all of a ping's time.
NeverEarly ==
    /\ up # Never => up \in Nat /\ up <= clock
    /\ pc = "judge" /\ TargetExists => ~UpSince(clock - PingTimeout)
    /\ pc = "gave up" /\ TargetExists => ~UpSince(deadline - PingTimeout)

RetryInv == ClocksOK /\ NeverLate /\ NeverEarly

LEMMA InitRetryInv == Init => RetryInv
<1> SUFFICES ASSUME Init PROVE RetryInv
    OBVIOUS
<1>1. ClocksOK /\ NeverLate
    BY StartupConstants DEF Init, ClocksOK, NeverLate, Labels
<1>2. NeverEarly
    BY DEF Init, NeverEarly
<1> QED
    BY <1>1, <1>2 DEF RetryInv

\* What the loop reads of the environment does not change.
LEMMA SettledStays == [Next]_vars => UNCHANGED settled
BY DEF Next, vars, settled, Load, Main, ValidateConfig, BeginAttempt, NewDialer, OpenerFails, ParseConfig, ParseFails, PingSucceeds,
       PingFails, Judge, WakeUp, GiveUp, Opened, Finish, Tick, Database

LEMMA TargetStays == [Next]_vars => TargetExists' = TargetExists
BY SettledStays DEF settled, TargetExists, DsnParses, UsesConnector, IsSet, Blank

\* What each step does to the clocks, and from where to where it leads.
RetryStep ==
    \/ /\ UNCHANGED <<clock, began, wake, up>>
       /\ \/ pc' \notin {"try", "parse", "ping", "judge", "sleep", "gave up"} /\ UNCHANGED deadline
          \/ pc = "open" /\ pc' = "try" /\ deadline' = clock + Timeout
          \/ pc = "sleep" /\ clock = wake /\ pc' = "try" /\ UNCHANGED deadline
          \/ pc = "try" /\ pc' = "parse" /\ UNCHANGED deadline
    \/ pc \in {"try", "parse"} /\ pc' = "ping" /\ began' = clock /\ UNCHANGED <<clock, wake, up, deadline>>
    \/ /\ UNCHANGED <<clock, began, wake, up, deadline>> /\ pc' = "judge"
       /\ \/ pc = "try" /\ ~UpSince(clock)
          \/ pc = "parse" /\ ~TargetExists
          \/ pc = "ping" /\ (TargetExists => ~UpSince(began))
    \/ /\ UNCHANGED <<clock, began, up, deadline>> /\ pc = "judge"
       /\ \/ clock > deadline /\ pc' = "gave up" /\ UNCHANGED wake
          \/ ~(clock > deadline) /\ pc' = "sleep" /\ wake' = clock + Pause
    \/ /\ UNCHANGED <<pc, began, wake, up, deadline>> /\ clock' = clock + 1
       /\ \/ pc = "ping" /\ clock < began + PingTimeout
          \/ pc = "sleep" /\ clock < wake
    \/ /\ UNCHANGED <<pc, clock, began, wake, deadline>> /\ pc \in {"ping", "sleep"}
       /\ up' = Never \/ up' = clock
    \/ UNCHANGED <<pc, clock, began, wake, up, deadline>>

LEMMA NextIsRetryStep == [Next]_vars => RetryStep
<1> SUFFICES ASSUME [Next]_vars PROVE RetryStep
    OBVIOUS
<1> USE DEF RetryStep, Goto, Exit, BeginOpen, retrying
<1>1. CASE Load \/ Main
    BY <1>1 DEF Load, Main
<1>2. CASE ValidateConfig
    BY <1>2 DEF ValidateConfig
<1>3. CASE BeginAttempt \/ NewDialer \/ OpenerFails \/ ParseConfig \/ ParseFails
    BY <1>3 DEF BeginAttempt, NewDialer, OpenerFails, ParseConfig, ParseFails, TargetExists
<1>4. CASE PingSucceeds \/ PingFails
    BY <1>4 DEF PingSucceeds, PingFails
<1>5. CASE Judge \/ WakeUp
    BY <1>5 DEF Judge, TooLate, WakeUp
<1>6. CASE GiveUp \/ Opened \/ Finish
    BY <1>6 DEF GiveUp, Opened, Finish
<1>7. CASE Tick
    BY <1>7 DEF Tick
<1>8. CASE Database
    BY <1>8 DEF Database
<1>9. CASE UNCHANGED vars
    BY <1>9 DEF vars
<1> QED
    BY <1>1, <1>2, <1>3, <1>4, <1>5, <1>6, <1>7, <1>8, <1>9 DEF Next

\* Every step of the programs leads to a label.
LEMMA NextLabel == pc \in Labels /\ [Next]_vars => pc' \in Labels
BY DEF Next, vars, Load, Main, ValidateConfig, BeginAttempt, NewDialer, OpenerFails, ParseConfig, ParseFails, PingSucceeds,
       PingFails, Judge, WakeUp, GiveUp, Opened, Finish, Tick, Database, Goto, Exit, BeginOpen,
       Labels

LEMMA NextNeverLate == ClocksOK /\ NeverLate /\ [Next]_vars => ClocksOK' /\ NeverLate'
<1> SUFFICES ASSUME ClocksOK, NeverLate, [Next]_vars PROVE ClocksOK' /\ NeverLate'
    OBVIOUS
<1>1. RetryStep /\ pc' \in Labels
    BY NextIsRetryStep, NextLabel DEF ClocksOK
<1> USE StartupConstants
<1>2. ClocksOK'
    <2>1. deadline' = deadline \/ deadline' = clock + Timeout
        BY <1>1 DEF RetryStep
    <2>2. clock' = clock \/ clock' = clock + 1
        BY <1>1 DEF RetryStep
    <2>3. wake' = wake \/ wake' = clock + Pause
        BY <1>1 DEF RetryStep
    <2>4. began' = began \/ began' = clock
        BY <1>1 DEF RetryStep
    <2> QED
        BY <1>1, <2>1, <2>2, <2>3, <2>4 DEF ClocksOK
<1>3. ASSUME pc' = "try" PROVE clock' <= deadline' + Pause
    <2>1. CASE pc = "open" /\ clock' = clock /\ deadline' = clock + Timeout
        BY <2>1 DEF ClocksOK
    <2>2. CASE pc = "sleep" /\ clock' = clock /\ clock = wake /\ deadline' = deadline
        BY <2>2 DEF ClocksOK, NeverLate
    <2>3. CASE pc = "try" /\ clock' = clock /\ deadline' = deadline
        BY <2>3 DEF ClocksOK, NeverLate
    <2> QED
        BY <1>1, <1>3, <2>1, <2>2, <2>3 DEF RetryStep
<1>4. ASSUME pc' = "ping"
      PROVE  began' <= deadline' + Pause /\ began' <= clock' /\ clock' <= began' + PingTimeout
    <2>1. CASE pc \in {"try", "parse"} /\ began' = clock /\ clock' = clock /\ deadline' = deadline
        <3>1. clock <= deadline + Pause
            BY <2>1 DEF NeverLate
        <3> QED
            BY <2>1, <3>1 DEF ClocksOK
    <2>2. CASE pc = "ping" /\ began' = began /\ clock' = clock /\ deadline' = deadline
        BY <2>2 DEF ClocksOK, NeverLate
    <2>3. CASE /\ pc = "ping" /\ began' = began /\ deadline' = deadline
               /\ clock < began + PingTimeout /\ clock' = clock + 1
        BY <2>3 DEF ClocksOK, NeverLate
    <2> QED
        BY <1>1, <1>4, <2>1, <2>2, <2>3 DEF RetryStep
<1>5. ASSUME pc' = "judge" PROVE clock' <= deadline' + Pause + PingTimeout
    <2>1. /\ clock' = clock /\ deadline' = deadline
          /\ pc \in {"try", "parse"} \/ pc = "ping" \/ pc = "judge"
        BY <1>1, <1>5 DEF RetryStep
    <2>2. CASE pc \in {"try", "parse"}
        <3>1. clock <= deadline + Pause
            BY <2>2 DEF NeverLate
        <3> QED
            BY <2>1, <3>1 DEF ClocksOK
    <2>3. CASE pc = "ping"
        BY <2>1, <2>3 DEF ClocksOK, NeverLate
    <2>4. CASE pc = "judge"
        BY <2>1, <2>4 DEF ClocksOK, NeverLate
    <2> QED
        BY <2>1, <2>2, <2>3, <2>4
<1>6. ASSUME pc' = "gave up" PROVE clock' <= deadline' + Pause + PingTimeout
    <2>1. clock' = clock /\ deadline' = deadline /\ (pc = "judge" \/ pc = "gave up")
        BY <1>1, <1>6 DEF RetryStep
    <2> QED
        BY <2>1 DEF NeverLate
<1>7. ASSUME pc' = "sleep" PROVE clock' <= wake' /\ wake' <= deadline' + Pause
    <2>1. CASE /\ clock' = clock /\ deadline' = deadline /\ wake' = clock + Pause
               /\ ~(clock > deadline)
        BY <2>1 DEF ClocksOK
    <2>2. CASE pc = "sleep" /\ clock' = clock /\ deadline' = deadline /\ wake' = wake
        BY <2>2 DEF NeverLate
    <2>3. CASE /\ pc = "sleep" /\ clock' = clock + 1 /\ deadline' = deadline /\ wake' = wake
               /\ clock < wake
        BY <2>3 DEF ClocksOK, NeverLate
    <2> QED
        BY <1>1, <1>7, <2>1, <2>2, <2>3 DEF RetryStep
<1>8. ASSUME pc' = "parse" PROVE clock' <= deadline' + Pause
    <2>1. pc \in {"try", "parse"} /\ clock' = clock /\ deadline' = deadline
        BY <1>1, <1>8 DEF RetryStep
    <2> QED
        BY <2>1 DEF ClocksOK, NeverLate
<1> QED
    BY <1>2, <1>3, <1>4, <1>5, <1>6, <1>7, <1>8 DEF NeverLate

\* A database that has not answered since t has not since an earlier time.
LEMMA UpEarlier ==
    ASSUME NEW t \in Int, NEW s \in Int, s <= t, up # Never => up \in Nat, ~UpSince(t)
    PROVE  ~UpSince(s)
<1>1. CASE up = Never
    BY <1>1 DEF UpSince
<1>2. CASE up \in Nat
    BY <1>2 DEF UpSince
<1> QED
    BY <1>1, <1>2

LEMMA NextNeverEarly == RetryInv /\ [Next]_vars => NeverEarly'
<1> SUFFICES ASSUME RetryInv, [Next]_vars PROVE NeverEarly'
    OBVIOUS
<1>1. RetryStep /\ TargetExists' = TargetExists
    BY NextIsRetryStep, TargetStays
<1>2. up # Never => up \in Nat /\ up <= clock
    BY DEF RetryInv, NeverEarly
<1>3. clock \in Nat /\ began \in Nat /\ deadline \in Nat /\ PingTimeout \in Nat
    BY StartupConstants DEF RetryInv, ClocksOK
<1>4. ASSUME up' # Never PROVE up' \in Nat /\ up' <= clock'
    <2>1. \/ up' = up /\ (clock' = clock \/ clock' = clock + 1)
          \/ up' = clock /\ clock' = clock
        BY <1>1, <1>4 DEF RetryStep
    <2> QED
        BY <1>2, <1>3, <1>4, <2>1
<1>5. ASSUME pc' = "judge", TargetExists PROVE ~UpSince(clock - PingTimeout)'
    <2>1. up' = up /\ clock' = clock
        BY <1>1, <1>5 DEF RetryStep
    <2>2. CASE pc = "judge"
        BY <1>5, <2>1, <2>2 DEF RetryInv, NeverEarly, UpSince
    <2>3. CASE ~UpSince(clock)
        BY <1>2, <1>3, <2>1, <2>3, UpEarlier, clock - PingTimeout <= clock DEF UpSince
    <2>4. CASE pc = "ping" /\ ~UpSince(began)
        <3>1. clock <= began + PingTimeout
            BY <2>4 DEF RetryInv, NeverLate
        <3> QED
            BY <1>2, <1>3, <2>1, <2>4, <3>1, UpEarlier, clock - PingTimeout <= began DEF UpSince
    <2> QED
        BY <1>1, <1>5, <2>2, <2>3, <2>4 DEF RetryStep
<1>6. ASSUME pc' = "gave up", TargetExists PROVE ~UpSince(deadline - PingTimeout)'
    <2>1. up' = up /\ deadline' = deadline
        BY <1>1, <1>6 DEF RetryStep
    <2>2. CASE pc = "gave up"
        BY <1>6, <2>1, <2>2 DEF RetryInv, NeverEarly, UpSince
    <2>3. CASE pc = "judge" /\ clock > deadline
        <3>1. ~UpSince(clock - PingTimeout)
            BY <1>6, <2>3 DEF RetryInv, NeverEarly
        <3> QED
            BY <1>2, <1>3, <2>1, <2>3, <3>1, UpEarlier, deadline - PingTimeout <= clock - PingTimeout
               DEF UpSince
    <2> QED
        BY <1>1, <1>6, <2>2, <2>3 DEF RetryStep
<1> QED
    BY <1>1, <1>4, <1>5, <1>6 DEF NeverEarly

LEMMA RetryInvBounds == RetryInv => RetryIsBounded
<1> SUFFICES ASSUME RetryInv PROVE RetryIsBounded
    OBVIOUS
<1> USE StartupConstants DEF RetryInv, ClocksOK, NeverLate
<1>1. pc \in {"try", "parse"} => clock <= deadline + Pause + PingTimeout
    <2> SUFFICES ASSUME pc \in {"try", "parse"} PROVE clock <= deadline + Pause + PingTimeout
        OBVIOUS
    <2>1. clock <= deadline + Pause
        OBVIOUS
    <2>2. clock \in Nat /\ deadline \in Nat /\ Pause \in Nat /\ PingTimeout \in Nat
        OBVIOUS
    <2> HIDE DEF NeverLate
    <2> QED
        BY <2>1, <2>2
<1>2. pc = "ping" => clock <= deadline + Pause + PingTimeout
    OBVIOUS
<1>3. pc = "sleep" => clock <= deadline + Pause + PingTimeout
    OBVIOUS
<1> QED
    BY <1>1, <1>2, <1>3 DEF RetryIsBounded, RetryInv, NeverEarly

\* ConnectSQLWithRetry gives up neither late nor early, whatever the timeouts and
\* whenever the database comes and goes: within Pause + PingTimeout of its
\* deadline, and never on a database that has answered since PingTimeout before
\* the deadline.
THEOREM BoundedRetry == Spec => []RetryIsBounded
<1>1. Spec => []RetryInv
    <2>1. RetryInv /\ [Next]_vars => RetryInv'
        BY NextNeverLate, NextNeverEarly DEF RetryInv
    <2> QED
        BY InitRetryInv, <2>1, PTL DEF Spec
<1> QED
    BY <1>1, RetryInvBounds, PTL

-----------------------------------------------------------------------------
(* What Load returns *)

CommonSettings == {"json", "debug", "maxOpen", "maxIdle", "lifetime", "fatal", "warnings"}
Number == {"zero", "positive"}

\* The settings c hold those of every program, with pool limits that are numbers.
HasCommon(c) ==
    /\ CommonSettings \subseteq DOMAIN c
    /\ c.maxOpen \in Number /\ c.maxIdle \in Number /\ c.lifetime \in Number

\* More settings, more warnings and an error leave the common settings alone.
LEMMA CommonStays ==
    ASSUME NEW c, HasCommon(c), NEW w, NEW d
    PROVE  /\ HasCommon([c EXCEPT !.warnings = w])
           /\ HasCommon([c EXCEPT !.fatal = TRUE])
           /\ HasCommon([c EXCEPT !.fatal = TRUE, !.warnings = w])
           /\ HasCommon(WithSettings(c, d))
<1>1. HasCommon([c EXCEPT !.warnings = w])
    BY DEF HasCommon, CommonSettings
<1>2. HasCommon([c EXCEPT !.fatal = TRUE])
    BY DEF HasCommon, CommonSettings
<1>3. HasCommon([c EXCEPT !.fatal = TRUE, !.warnings = w])
    BY DEF HasCommon, CommonSettings
<1>4. HasCommon(WithSettings(c, d))
    <2>1. \A s \in CommonSettings : WithSettings(c, d)[s] = c[s]
        BY DEF HasCommon, WithSettings
    <2>2. CommonSettings \subseteq DOMAIN WithSettings(c, d)
        BY DEF HasCommon, WithSettings
    <2> QED
        BY <2>1, <2>2 DEF HasCommon, CommonSettings
<1> QED
    BY <1>1, <1>2, <1>3, <1>4

LEMMA CommonRead == HasCommon(ReadCommon) /\ DOMAIN ReadCommon = CommonSettings
<1>1. DOMAIN ReadCommon = CommonSettings
    BY DEF ReadCommon, CommonSettings
<1>2. /\ ReadCommon.maxOpen \in Number /\ ReadCommon.maxIdle \in Number
      /\ ReadCommon.lifetime \in Number
    BY DEF ReadCommon, ReadPositive, Number
<1> QED
    BY <1>1, <1>2 DEF HasCommon

LEMMA CacheRead ==
    /\ HasCommon(ReadCache(ReadCommon))
    /\ DOMAIN ReadCache(ReadCommon) = CommonSettings \union {"ttl"}
<1> DEFINE w == ReadCommon.warnings \union NotPositive({"CANDLES_CACHE_TTL"})
           c == [ReadCommon EXCEPT !.warnings = w]
           d == [ttl |-> IF ReadPositive("CANDLES_CACHE_TTL") = "zero" THEN "default" ELSE "positive"]
<1>1. ReadCache(ReadCommon) = WithSettings(c, d)
    BY DEF ReadCache
<1>2. DOMAIN c = CommonSettings /\ DOMAIN d = {"ttl"}
    BY CommonRead
<1>3. HasCommon(c)
    BY CommonRead, CommonStays
<1> HIDE DEF c, d
<1>4. DOMAIN WithSettings(c, d) = (DOMAIN c) \union DOMAIN d
    BY DEF WithSettings
<1>5. HasCommon(WithSettings(c, d))
    BY <1>3, CommonStays
<1> QED
    BY <1>1, <1>2, <1>4, <1>5

\* What the API reads, when it finds no error.
ApiSound(c) ==
    /\ ~SecretsFail
    /\ c.oauth = Providers /\ (\A p \in Providers : Complete(p))
    /\ c.secure = SecureCookie
    /\ c.hops = ReadPositive("TRUSTED_PROXY_HOPS")
    /\ c.domain = ParseCookieDomain /\ ~DomainFails

LEMMA ApiRead == HasCommon(LoadAPI) /\ (~LoadAPI.fatal => ApiSound(LoadAPI))
<1> DEFINE b == ReadCache(ReadCommon)
           s == ReadServer(b)
<1>1. HasCommon(b) /\ DOMAIN b = CommonSettings \union {"ttl"}
    BY CacheRead
<1>2. LoadAPI = ReadOAuth(s)
    BY DEF LoadAPI
<1> HIDE DEF b
<1>3. CASE SecretsFail \/ DomainFails
    <2>1. \/ s = [b EXCEPT !.fatal = TRUE]
          \/ \E w : s = [b EXCEPT !.fatal = TRUE, !.warnings = w]
        BY <1>3, Zenon DEF ReadServer
    <2>2. HasCommon(s) /\ s.fatal
        BY <1>1, <2>1, CommonStays DEF HasCommon, CommonSettings
    <2> HIDE DEF s
    <2>3. LoadAPI = [s EXCEPT !.fatal = TRUE]
        BY <1>2, <2>2 DEF ReadOAuth
    <2>4. LoadAPI.fatal
        BY <2>2, <2>3 DEF HasCommon, CommonSettings
    <2> QED
        BY <2>2, <2>3, <2>4, CommonStays
<1>4. CASE ~SecretsFail /\ ~DomainFails
    <2> DEFINE r == [secure |-> SecureCookie, domain |-> ParseCookieDomain, origins |-> Origins,
                     hops |-> ReadPositive("TRUSTED_PROXY_HOPS")]
    <2>1. PICK w : s = WithSettings([b EXCEPT !.warnings = w], r)
        BY <1>4, Zenon DEF ReadServer
    <2> DEFINE c == [b EXCEPT !.warnings = w]
    <2>2. HasCommon(c) /\ DOMAIN c = CommonSettings \union {"ttl"}
        BY <1>1, CommonStays
    <2>3. /\ DOMAIN r = {"secure", "domain", "origins", "hops"}
          /\ r["secure"] = SecureCookie /\ r["domain"] = ParseCookieDomain
          /\ r["hops"] = ReadPositive("TRUSTED_PROXY_HOPS")
        OBVIOUS
    <2> HIDE DEF c, r, s
    <2>4. /\ HasCommon(s)
          /\ DOMAIN s = CommonSettings \union {"ttl", "secure", "domain", "origins", "hops"}
          /\ s["secure"] = SecureCookie /\ s["domain"] = ParseCookieDomain
          /\ s["hops"] = ReadPositive("TRUSTED_PROXY_HOPS")
        <3>1. s = WithSettings(c, r)
            BY <2>1 DEF c
        <3>2. HasCommon(s)
            BY <2>2, <3>1, CommonStays
        <3>3. /\ DOMAIN s = (DOMAIN c) \union DOMAIN r
              /\ \A x \in (DOMAIN r) \ DOMAIN c : s[x] = r[x]
            BY <3>1 DEF WithSettings
        <3>4. {"secure", "domain", "hops"} \subseteq (DOMAIN r) \ DOMAIN c
            BY <2>2, <2>3 DEF CommonSettings
        <3>5. \A x \in {"secure", "domain", "hops"} : s[x] = r[x]
            BY <3>3, <3>4
        <3> QED
            BY <2>2, <2>3, <3>2, <3>3, <3>5
    <2>5. CASE LoadAPI = [s EXCEPT !.fatal = TRUE]
        <3>1. LoadAPI.fatal
            BY <2>4, <2>5 DEF CommonSettings
        <3> QED
            BY <2>4, <2>5, <3>1, CommonStays
    <2>6. CASE /\ LoadAPI = WithSettings(s, [oauth |-> Providers])
               /\ \A p \in Providers : Complete(p)
        <3> DEFINE o == [oauth |-> Providers]
        <3>1. DOMAIN o = {"oauth"} /\ o["oauth"] = Providers
            OBVIOUS
        <3> HIDE DEF o
        <3>2. LoadAPI = WithSettings(s, o)
            BY <2>6 DEF o
        <3>3. /\ \A x \in DOMAIN s : LoadAPI[x] = s[x]
              /\ \A x \in (DOMAIN o) \ DOMAIN s : LoadAPI[x] = o[x]
            BY <3>2 DEF WithSettings
        <3>4. "oauth" \in (DOMAIN o) \ DOMAIN s
            BY <2>4, <3>1 DEF CommonSettings
        <3>5. LoadAPI["oauth"] = Providers
            BY <3>1, <3>3, <3>4
        <3>6. /\ LoadAPI["secure"] = SecureCookie /\ LoadAPI["domain"] = ParseCookieDomain
              /\ LoadAPI["hops"] = ReadPositive("TRUSTED_PROXY_HOPS")
            BY <2>4, <3>3
        <3>7. HasCommon(LoadAPI)
            BY <2>4, <3>2, CommonStays
        <3> QED
            BY <1>4, <2>6, <3>5, <3>6, <3>7 DEF ApiSound
    <2> QED
        BY <1>2, <2>5, <2>6 DEF ReadOAuth
<1> QED
    BY <1>3, <1>4

LEMMA BatchRead == HasCommon(LoadBatch)
<1> DEFINE c == ReadCache(ReadCommon)
<1>1. HasCommon(c)
    BY CacheRead
<1> HIDE DEF c
<1>2. \E w, d : LoadBatch = WithSettings([c EXCEPT !.warnings = w], d)
    BY Zenon DEF LoadBatch, c
<1> QED
    BY <1>1, <1>2, CommonStays

LEMMA MigrateRead == HasCommon(LoadMigrate)
BY CommonRead DEF LoadMigrate

-----------------------------------------------------------------------------
(* Programs that work, and programs that end *)

Limited == {"one", "default", "positive"}
PoolLimits == [open : Limited, idle : Limited, lifetime : Limited]

Connecting == {"try", "parse", "ping", "judge", "sleep", "gave up", "opened", "work"}

\* What a program has read and checked when it runs what follows.  A blank instance
\* name passes Validate as if there were none and selects the connector
\* nevertheless: no ping of its succeeds.
Checked ==
    /\ pc \in Labels /\ entry \in {"api", "batch", "migrate"} /\ env \in Environment
    /\ pc # "load" => HasCommon(cfg) /\ (entry = "api" /\ ~cfg.fatal => ApiSound(cfg))
    /\ pc \in Connecting \union {"open"} => ~cfg.fatal
    /\ pc \in Connecting => ConfigValid
    /\ pc \in {"opened", "work"} => TargetExists

\* The databases and dialers that are open: between attempts one dialer for each
\* database, during an attempt one more.
OpenDialers ==
    /\ pools \in Seq(PoolLimits)
    /\ dialers \in Int
    /\ ~UsesConnector => dialers = 0
    /\ pc = "parse" => UsesConnector
    /\ UsesConnector /\ pc \notin {"parse", "ping"} => dialers = Len(pools)
    /\ UsesConnector /\ pc \in {"parse", "ping"} => dialers = Len(pools) + 1
    /\ pc = "exited" => pools = <<>>

\* Exit code 2 comes before anything takes time.
TwoIsEarly ==
    /\ pc \in {"load", "main"} => clock = 0
    /\ code = 2 => pc = "exited" /\ clock = 0 /\ (cfg.fatal \/ command # "known")

WorkInv == Checked /\ OpenDialers /\ TwoIsEarly

LEMMA InitWorkInv == Init => WorkInv
<1> SUFFICES ASSUME Init PROVE WorkInv
    OBVIOUS
<1>1. Checked
    BY DEF Init, Checked, Labels, Connecting
<1>2. OpenDialers
    BY DEF Init, OpenDialers
<1>3. TwoIsEarly
    BY DEF Init, TwoIsEarly
<1> QED
    BY <1>1, <1>2, <1>3 DEF WorkInv

\* The environment, and what is computed from it alone, stays.
LEMMA ReadingsStay ==
    [Next]_vars => /\ UNCHANGED <<entry, command, env>>
                   /\ UsesConnector' = UsesConnector /\ ConfigValid' = ConfigValid
                   /\ \A c : ApiSound(c)' = ApiSound(c)
<1> SUFFICES ASSUME [Next]_vars
             PROVE  /\ UNCHANGED <<entry, command, env>>
                    /\ UsesConnector' = UsesConnector /\ ConfigValid' = ConfigValid
                    /\ \A c : ApiSound(c)' = ApiSound(c)
    OBVIOUS
<1>1. UNCHANGED <<entry, command, env>>
    BY SettledStays DEF settled
<1>2. UsesConnector' = UsesConnector /\ ConfigValid' = ConfigValid
    BY <1>1 DEF UsesConnector, ConfigValid, IsSet, Blank
<1>3. ASSUME NEW c PROVE ApiSound(c)' = ApiSound(c)
    BY <1>1, Zenon DEF ApiSound, SecretsFail, Providers, Complete, IsSet, SecureCookie, Production,
                ReadPositive, ParseCookieDomain, DomainFails, Blank
<1> QED
    BY <1>1, <1>2, <1>3

\* Where each step leads, as far as configuration and exit codes are concerned.
Flow ==
    \/ pc = "load" /\ pc' = "main" /\ UNCHANGED <<clock, code>>
    \/ /\ pc = "main" /\ UNCHANGED <<cfg, clock>>
       /\ \/ ~cfg.fatal /\ pc' = "open" /\ UNCHANGED code
          \/ pc' = "exited" /\ code' = 1
          \/ pc' = "exited" /\ code' = 2 /\ (cfg.fatal \/ command # "known")
    \/ /\ UNCHANGED <<cfg, clock>>
       /\ pc \in Connecting \union {"open"} /\ pc' = "exited" /\ code' \in {0, 1}
    \/ pc = "open" /\ pc' = "try" /\ ConfigValid /\ UNCHANGED <<cfg, clock, code>>
    \/ pc = "opened" /\ pc' = "open" /\ UNCHANGED <<cfg, clock, code>>
    \/ /\ pc \in Connecting /\ pc' \in Connecting /\ UNCHANGED <<cfg, code>>
       /\ pc' \in {"opened", "work"} => pc \in {"opened", "work"} \/ TargetExists
    \/ UNCHANGED <<pc, cfg, clock, code>>

LEMMA NextIsFlow == Checked /\ [Next]_vars => Flow
<1> SUFFICES ASSUME Checked, [Next]_vars PROVE Flow
    OBVIOUS
<1> USE DEF Flow, Connecting, Goto, Exit, BeginOpen, retrying
<1>1. CASE Load
    BY <1>1 DEF Load
<1>2. CASE Main
    <2>1. CASE cfg.fatal /\ Exit(2)
        BY <1>2, <2>1 DEF Main
    <2>2. CASE ~cfg.fatal /\ (BeginOpen \/ Exit(1))
        BY <1>2, <2>2 DEF Main
    <2>3. CASE command # "known" /\ Exit(2)
        BY <1>2, <2>3 DEF Main
    <2> QED
        BY <1>2, <2>1, <2>2, <2>3 DEF Main
<1>3. CASE ValidateConfig
    BY <1>3 DEF ValidateConfig
<1>4. CASE BeginAttempt \/ NewDialer \/ OpenerFails \/ ParseConfig \/ ParseFails
    BY <1>4 DEF BeginAttempt, NewDialer, OpenerFails, ParseConfig, ParseFails
<1>11. CASE PingSucceeds \/ PingFails
    BY <1>11 DEF PingSucceeds, PingFails
<1>5. CASE Judge \/ WakeUp
    BY <1>5 DEF Judge, WakeUp
<1>6. CASE GiveUp
    BY <1>6 DEF GiveUp
<1>7. CASE Opened
    BY <1>7 DEF Opened
<1>8. CASE Finish
    BY <1>8 DEF Finish
<1>9. CASE Tick \/ Database
    BY <1>9 DEF Tick, Database
<1>10. CASE UNCHANGED vars
    BY <1>10 DEF vars
<1> QED
    BY <1>1, <1>2, <1>3, <1>4, <1>5, <1>6, <1>7, <1>8, <1>9, <1>10, <1>11 DEF Next

LEMMA NextChecked == Checked /\ [Next]_vars => Checked'
<1> SUFFICES ASSUME Checked, [Next]_vars PROVE Checked'
    OBVIOUS
<1>1. Flow /\ pc' \in Labels
    BY NextIsFlow, NextLabel DEF Checked
<1>2. /\ UNCHANGED <<entry, command, env>> /\ ConfigValid' = ConfigValid
      /\ \A c : ApiSound(c)' = ApiSound(c)
    BY ReadingsStay
<1>3. CASE pc = "load" /\ pc' = "main"
    <2>1. cfg' = CASE entry = "api" -> LoadAPI
                   [] entry = "batch" -> LoadBatch
                   [] entry = "migrate" -> LoadMigrate
        BY <1>3 DEF Next, vars, Load, Main, ValidateConfig, BeginAttempt, NewDialer, OpenerFails, ParseConfig, ParseFails, PingSucceeds,
           PingFails, Judge, WakeUp, GiveUp, Opened, Finish, Tick, Database
    <2>2. /\ entry = "api" => cfg' = LoadAPI
          /\ entry = "batch" => cfg' = LoadBatch
          /\ entry = "migrate" => cfg' = LoadMigrate
        BY <2>1
    <2>3. HasCommon(cfg')
        BY <2>2, ApiRead, BatchRead, MigrateRead DEF Checked
    <2>4. entry = "api" /\ ~cfg'.fatal => ApiSound(cfg')
        BY <2>2, ApiRead
    <2> QED
        BY <1>1, <1>2, <1>3, <2>3, <2>4 DEF Checked, Connecting
<1>4. CASE cfg' = cfg /\ ~(pc = "load" /\ pc' = "main")
    <2>1. pc' # "load" => HasCommon(cfg') /\ (entry' = "api" /\ ~cfg'.fatal => ApiSound(cfg)')
        BY <1>1, <1>2, <1>4 DEF Checked, Flow, Connecting
    <2>2. pc' \in Connecting \union {"open"} => ~cfg'.fatal
        BY <1>1, <1>4 DEF Checked, Flow, Connecting
    <2>3. pc' \in Connecting => ConfigValid'
        BY <1>1, <1>2 DEF Checked, Flow, Connecting
    <2>4. pc' \in {"opened", "work"} => TargetExists'
        BY <1>1, TargetStays DEF Checked, Flow, Connecting
    <2> QED
        BY <1>1, <1>2, <1>4, <2>1, <2>2, <2>3, <2>4 DEF Checked
<1> QED
    BY <1>1, <1>3, <1>4 DEF Flow

\* The databases after a step: as before, one more, or none.
Attempting == {"parse", "ping"}
PoolStep ==
    \/ /\ UNCHANGED <<pools, dialers>> /\ pc' # "exited"
       /\ pc \in Attempting <=> pc' \in Attempting
       /\ pc' # "parse" /\ (pc' = "ping" => pc = "parse")
    \/ UNCHANGED <<pools, dialers, pc>>
    \/ /\ pc \notin Attempting /\ pc' = "exited" /\ pools' = <<>>
       /\ dialers' = IF UsesConnector THEN dialers - Len(pools) ELSE dialers
    \/ pc = "try" /\ pc' = "ping" /\ ~UsesConnector /\ UNCHANGED <<pools, dialers>>
    \/ pc = "try" /\ pc' = "parse" /\ UsesConnector /\ dialers' = dialers + 1 /\ UNCHANGED pools
    \/ pc = "ping" /\ pc' = "opened" /\ pools' = Append(pools, ConfigurePool) /\ UNCHANGED dialers
    \/ /\ pc \in Attempting /\ pc' = "judge" /\ UNCHANGED pools
       /\ dialers' = IF pc = "parse" \/ UsesConnector THEN dialers - 1 ELSE dialers

LEMMA NextIsPoolStep == [Next]_vars => PoolStep
<1> SUFFICES ASSUME [Next]_vars PROVE PoolStep
    OBVIOUS
<1> USE DEF PoolStep, Attempting, Goto, Exit, BeginOpen
<1>1. CASE Load \/ Main
    BY <1>1 DEF Load, Main
<1>2. CASE ValidateConfig
    BY <1>2 DEF ValidateConfig
<1>3. CASE BeginAttempt \/ NewDialer \/ OpenerFails \/ ParseConfig \/ ParseFails
    BY <1>3 DEF BeginAttempt, NewDialer, OpenerFails, ParseConfig, ParseFails, TargetExists
<1>4. CASE PingSucceeds \/ PingFails
    BY <1>4 DEF PingSucceeds, PingFails
<1>5. CASE Judge \/ WakeUp
    BY <1>5 DEF Judge, WakeUp
<1>6. CASE GiveUp \/ Opened \/ Finish
    BY <1>6 DEF GiveUp, Opened, Finish
<1>7. CASE Tick \/ Database
    BY <1>7 DEF Tick, Database
<1>8. CASE UNCHANGED vars
    BY <1>8 DEF vars
<1> QED
    BY <1>1, <1>2, <1>3, <1>4, <1>5, <1>6, <1>7, <1>8 DEF Next

\* configurePool leaves no limit at zero.
LEMMA PoolConfigured == ASSUME HasCommon(cfg) PROVE ConfigurePool \in PoolLimits
BY DEF HasCommon, ConfigurePool, PoolLimits, Limited, Number

LEMMA NextOpenDialers == Checked /\ OpenDialers /\ [Next]_vars => OpenDialers'
<1> SUFFICES ASSUME Checked, OpenDialers, [Next]_vars PROVE OpenDialers'
    OBVIOUS
<1>1. PoolStep /\ UsesConnector' = UsesConnector
    BY NextIsPoolStep, ReadingsStay
<1>2. pools \in Seq(PoolLimits) /\ Len(pools) \in Nat /\ dialers \in Int
    BY DEF OpenDialers
<1>3. CASE /\ UNCHANGED <<pools, dialers>> /\ pc' # "exited"
           /\ pc \in Attempting <=> pc' \in Attempting
           /\ pc' # "parse" /\ (pc' = "ping" => pc = "parse")
    BY <1>1, <1>3 DEF OpenDialers, Attempting
<1>4. CASE UNCHANGED <<pools, dialers, pc>>
    BY <1>1, <1>4 DEF OpenDialers
<1>5. CASE /\ pc \notin Attempting /\ pc' = "exited" /\ pools' = <<>>
           /\ dialers' = IF UsesConnector THEN dialers - Len(pools) ELSE dialers
    BY <1>1, <1>2, <1>5 DEF OpenDialers, Attempting
<1>6. CASE \/ pc = "try" /\ pc' = "ping" /\ ~UsesConnector /\ UNCHANGED <<pools, dialers>>
           \/ /\ pc = "try" /\ pc' = "parse" /\ UsesConnector
              /\ dialers' = dialers + 1 /\ UNCHANGED pools
    BY <1>1, <1>2, <1>6 DEF OpenDialers
<1>7. CASE pc = "ping" /\ pc' = "opened" /\ pools' = Append(pools, ConfigurePool) /\ UNCHANGED dialers
    <2>1. ConfigurePool \in PoolLimits
        BY <1>7, PoolConfigured DEF Checked
    <2>2. pools' \in Seq(PoolLimits) /\ Len(pools') = Len(pools) + 1
        BY <1>2, <1>7, <2>1
    <2> QED
        BY <1>1, <1>7, <2>2 DEF OpenDialers
<1>8. CASE /\ pc \in Attempting /\ pc' = "judge" /\ UNCHANGED pools
           /\ dialers' = IF pc = "parse" \/ UsesConnector THEN dialers - 1 ELSE dialers
    BY <1>1, <1>2, <1>8 DEF OpenDialers, Attempting
<1> QED
    BY <1>1, <1>3, <1>4, <1>5, <1>6, <1>7, <1>8 DEF PoolStep

LEMMA NextTwoIsEarly == Checked /\ TwoIsEarly /\ [Next]_vars => TwoIsEarly'
<1> SUFFICES ASSUME Checked, TwoIsEarly, [Next]_vars PROVE TwoIsEarly'
    OBVIOUS
<1>1. Flow /\ command' = command
    BY NextIsFlow, ReadingsStay
<1>2. pc' \in {"load", "main"} => clock' = 0
    BY <1>1 DEF Flow, TwoIsEarly, Connecting
<1>3. ASSUME code' = 2
      PROVE  pc' = "exited" /\ clock' = 0 /\ (cfg'.fatal \/ command' # "known")
    <2>1. CASE code = 2
        <3>1. pc = "exited" /\ clock = 0 /\ (cfg.fatal \/ command # "known")
            BY <2>1 DEF TwoIsEarly
        <3>2. UNCHANGED <<pc, cfg, clock>>
            BY <1>1, <3>1 DEF Flow, Connecting
        <3> QED
            BY <1>1, <3>1, <3>2
    <2>2. CASE code # 2
        <3>1. pc = "main" /\ UNCHANGED <<cfg, clock>> /\ pc' = "exited"
              /\ (cfg.fatal \/ command # "known")
            BY <1>1, <1>3, <2>2 DEF Flow
        <3> QED
            BY <1>1, <3>1 DEF TwoIsEarly
    <2> QED
        BY <2>1, <2>2
<1> QED
    BY <1>2, <1>3 DEF TwoIsEarly

\* A working program has read what it needs.
LEMMA WorkIsSound == WorkInv /\ pc = "work" => Sound
<1> SUFFICES ASSUME WorkInv, pc = "work" PROVE Sound
    OBVIOUS
<1>1. ConfigValid /\ TargetExists /\ ~cfg.fatal /\ env \in Environment
    BY DEF WorkInv, Checked, Connecting
<1>2. ASSUME NEW i \in DOMAIN pools, NEW f \in {"open", "idle", "lifetime"} PROVE pools[i][f] # "zero"
    <2>1. pools[i] \in PoolLimits
        BY DEF WorkInv, OpenDialers
    <2> QED
        BY <2>1 DEF PoolLimits, Limited
<1>3. /\ ~Blank("DB_USER") /\ ~Blank("DB_NAME")
      /\ IF UsesConnector THEN env["DB_IP_TYPE"] # "invalid" ELSE ~Blank("DB_HOST") /\ ~Blank("DB_PORT")
    BY <1>1 DEF ConfigValid, TargetExists, UsesConnector, IsSet, Blank
<1>4. ASSUME entry = "api"
      PROVE  /\ env["JWT_SECRET"] = "long" /\ env["PASSWORD_PEPPER"] = "long"
             /\ \A p \in cfg.oauth : env[p] = "complete" /\ IsSet("OAUTH_FRONTEND_REDIRECT_URL")
             /\ Production /\ ~cfg.secure => env["COOKIE_SECURE"] = "false"
             /\ cfg.hops = "positive" => env["TRUSTED_PROXY_HOPS"] = "positive"
             /\ cfg.domain \in {"host only", "valid"}
    <2>1. ApiSound(cfg)
        BY <1>1, <1>4 DEF WorkInv, Checked
    <2>2. env["JWT_SECRET"] = "long" /\ env["PASSWORD_PEPPER"] = "long"
        BY <2>1 DEF ApiSound, SecretsFail
    <2>3. \A p \in cfg.oauth : env[p] = "complete" /\ IsSet("OAUTH_FRONTEND_REDIRECT_URL")
        BY <2>1 DEF ApiSound, Complete
    <2>4. Production /\ ~SecureCookie => env["COOKIE_SECURE"] = "false"
        BY DEF SecureCookie
    <2>5. cfg.hops = "positive" => env["TRUSTED_PROXY_HOPS"] = "positive"
        BY <2>1 DEF ApiSound, ReadPositive
    <2>6. cfg.domain \in {"host only", "valid"}
        BY <1>1, <2>1, CookieDomainClasses DEF ApiSound, ParseCookieDomain, DomainFails, Blank
    <2>7. cfg.secure = SecureCookie
        BY <2>1 DEF ApiSound
    <2> QED
        BY <2>2, <2>3, <2>4, <2>5, <2>6, <2>7
<1> QED
    BY <1>1, <1>2, <1>3, <1>4 DEF Sound

\* A program works only with a sound configuration, whatever combination of
\* variables is missing, blank or invalid, and ends otherwise, with code 2 only
\* before anything takes time; every dialer of every failed attempt is closed
\* (LoadAPI, LoadBatch, LoadMigrate, Validate, newCloudSQLOpener).
THEOREM SoundWork == Spec => []WorksSoundlyOrEnds
<1>1. WorkInv /\ [Next]_vars => WorkInv'
    BY NextChecked, NextOpenDialers, NextTwoIsEarly DEF WorkInv
<1>2. Spec => []WorkInv
    BY <1>1, InitWorkInv, PTL DEF Spec
<1>3. WorkInv => WorksSoundlyOrEnds
    <2> SUFFICES ASSUME WorkInv PROVE WorksSoundlyOrEnds
        OBVIOUS
    <2>1. pc = "work" => Sound
        BY WorkIsSound
    <2>2. pc \notin {"parse", "ping"} => dialers = IF UsesConnector THEN Len(pools) ELSE 0
        BY DEF WorkInv, OpenDialers
    <2>3. pc = "exited" => dialers = 0
        BY DEF WorkInv, OpenDialers
    <2>4. code = 2 => clock = 0 /\ (cfg.fatal \/ command # "known")
        BY DEF WorkInv, TwoIsEarly
    <2> QED
        BY <2>1, <2>2, <2>3, <2>4 DEF WorksSoundlyOrEnds
<1> QED
    BY <1>2, <1>3, PTL
=============================================================================
