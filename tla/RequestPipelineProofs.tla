------------------------ MODULE RequestPipelineProofs ------------------------
(***************************************************************************)
(* RequestPipeline, for every set of requests, limits, windows, delays and  *)
(* trusted hops: what a request that reaches a place in its chain has       *)
(* passed, what it has cost, what it leaves in the log, and what the        *)
(* sliding window counts.                                                   *)
(***************************************************************************)
EXTENDS RequestPipeline, FiniteSetTheorems, SequenceTheorems, TLAPS

-----------------------------------------------------------------------------
(* The chains *)

IPRoutes == {"signup", "begin", "callback", "login", "refresh"}
ProtectedRoutes == {"read", "write", "detect", "analyze"}
PaidRoutes == {"detect", "analyze"}

\* The place of the OpenAPI validator in the chain of a route.
ValidatorPlace(route) ==
    IF route \in ProtectedRoutes \union {"refresh"} THEN 3 ELSE 2

LEMMA AppendToThree ==
    ASSUME NEW a, NEW b, NEW c, NEW d
    PROVE  Append(<<a, b, c>>, d) = <<a, b, c, d>>
<1> DEFINE S == {a, b, c, d}
           s == Append(<<a, b, c>>, d)
           t == <<a, b, c, d>>
<1>0. a \in S /\ b \in S /\ c \in S /\ d \in S
    OBVIOUS
<1> HIDE DEF S
<1>1. <<a, b, c>> \in Seq(S) /\ t \in Seq(S) /\ Len(t) = 4
    BY <1>0
<1>2. s \in Seq(S) /\ Len(s) = 4
    BY <1>0, <1>1
<1>3. s[1] = t[1] /\ s[2] = t[2] /\ s[3] = t[3] /\ s[4] = t[4]
    BY <1>0, <1>1
<1> HIDE DEF s, t
<1>4. \A n \in 1..Len(s) : s[n] = t[n]
    BY <1>2, <1>3
<1>5. s = t
    BY <1>1, <1>2, <1>4, SeqEqual
<1> QED
    BY <1>5 DEF s, t

LEMMA ChainIs ==
    ASSUME NEW route
    PROVE  /\ route \in {"signup", "begin", "callback"} => Chain(route) = <<"ByIP", "OpenAPI">>
           /\ route = "login" => Chain(route) = <<"ByIP", "OpenAPI", "ByEmail">>
           /\ route = "refresh" => Chain(route) = <<"ByIP", "CsrfOfCookies", "OpenAPI">>
           /\ route = "logout" => Chain(route) = <<"CsrfOfCookies", "OpenAPI">>
           /\ route \in {"read", "write"} => Chain(route) = <<"AuthRequired", "Csrf", "OpenAPI">>
           /\ route \in PaidRoutes =>
                 Chain(route) = <<"AuthRequired", "Csrf", "OpenAPI", "ByUserID">>
           /\ route \notin IPRoutes \union ProtectedRoutes \union {"logout"} => Chain(route) = <<>>
<1> USE DEF Chain, IPRoutes, PaidRoutes, ProtectedRoutes, Protected
<1>1. CASE route \in {"signup", "begin", "callback"}
    BY <1>1
<1>2. CASE route \in {"login", "refresh", "logout"}
    BY <1>2
<1>3. CASE route \in {"read", "write"}
    BY <1>3
<1>4. CASE route \in PaidRoutes
    <2>1. Chain(route) = Append(<<"AuthRequired", "Csrf", "OpenAPI">>, "ByUserID")
        BY <1>4
    <2>2. Append(<<"AuthRequired", "Csrf", "OpenAPI">>, "ByUserID")
            = <<"AuthRequired", "Csrf", "OpenAPI", "ByUserID">>
        BY AppendToThree
    <2> QED
        BY <1>4, <2>1, <2>2
<1>5. CASE route \notin IPRoutes \union ProtectedRoutes \union {"logout"}
    BY <1>5
<1> QED
    BY <1>1, <1>2, <1>3, <1>4, <1>5

\* Where each kind of middleware stands.
Places(route, n, m) ==
    /\ m = "ByIP" => route \in IPRoutes /\ n = 1
    /\ m = "AuthRequired" => route \in ProtectedRoutes /\ n = 1
    /\ m = "Csrf" => route \in ProtectedRoutes /\ n = 2
    /\ m = "CsrfOfCookies" => route \in {"refresh", "logout"} /\ n < ValidatorPlace(route)
    /\ m = "OpenAPI" => n = ValidatorPlace(route)
    /\ m = "ByEmail" => route = "login" /\ n = 3
    /\ m = "ByUserID" => route \in PaidRoutes /\ n = 4

LEMMA PlacesInChain ==
    ASSUME NEW route
    PROVE  /\ Len(Chain(route)) \in Nat
           /\ route \in PaidRoutes => Len(Chain(route)) = 4
           /\ \A n \in 1..Len(Chain(route)) : Places(route, n, Chain(route)[n])
<1> USE ChainIs DEF Places, ValidatorPlace, IPRoutes, PaidRoutes, ProtectedRoutes
<1>1. CASE route \in {"signup", "begin", "callback"}
    <2>1. Chain(route) = <<"ByIP", "OpenAPI">>
        BY <1>1
    <2> QED
        BY <1>1, <2>1
<1>2. CASE route = "login"
    <2>1. Chain(route) = <<"ByIP", "OpenAPI", "ByEmail">>
        BY <1>2
    <2> QED
        BY <1>2, <2>1
<1>3. CASE route = "refresh"
    <2>1. Chain(route) = <<"ByIP", "CsrfOfCookies", "OpenAPI">>
        BY <1>3
    <2> QED
        BY <1>3, <2>1
<1>4. CASE route = "logout"
    <2>1. Chain(route) = <<"CsrfOfCookies", "OpenAPI">>
        BY <1>4
    <2> QED
        BY <1>4, <2>1
<1>5. CASE route \in {"read", "write"}
    <2>1. Chain(route) = <<"AuthRequired", "Csrf", "OpenAPI">>
        BY <1>5
    <2> QED
        BY <1>5, <2>1
<1>6. CASE route \in PaidRoutes
    <2>1. Chain(route) = <<"AuthRequired", "Csrf", "OpenAPI", "ByUserID">>
        BY <1>6
    <2> QED
        BY <1>6, <2>1
<1>7. CASE route \notin IPRoutes \union ProtectedRoutes \union {"logout"}
    <2>1. Chain(route) = <<>>
        BY <1>7
    <2> QED
        BY <1>7, <2>1
<1> QED
    BY <1>1, <1>2, <1>3, <1>4, <1>5, <1>6, <1>7

LEMMA WhoseLimit ==
    ASSUME NEW route
    PROVE  /\ ByIPRoute(route) <=> route \in IPRoutes
           /\ "ByUserID" \in ToSet(Chain(route)) <=> route \in PaidRoutes
           /\ "ByEmail" \in ToSet(Chain(route)) <=> route = "login"
<1> USE ChainIs DEF ByIPRoute, ToSet, IPRoutes, PaidRoutes, ProtectedRoutes
<1>1. CASE route \in {"signup", "begin", "callback"}
    <2>1. Chain(route) = <<"ByIP", "OpenAPI">>
        BY <1>1
    <2> QED
        BY <1>1, <2>1
<1>2. CASE route = "login"
    <2>1. Chain(route) = <<"ByIP", "OpenAPI", "ByEmail">>
        BY <1>2
    <2> QED
        BY <1>2, <2>1
<1>3. CASE route = "refresh"
    <2>1. Chain(route) = <<"ByIP", "CsrfOfCookies", "OpenAPI">>
        BY <1>3
    <2> QED
        BY <1>3, <2>1
<1>4. CASE route = "logout"
    <2>1. Chain(route) = <<"CsrfOfCookies", "OpenAPI">>
        BY <1>4
    <2> QED
        BY <1>4, <2>1
<1>5. CASE route \in {"read", "write"}
    <2>1. Chain(route) = <<"AuthRequired", "Csrf", "OpenAPI">>
        BY <1>5
    <2> QED
        BY <1>5, <2>1
<1>6. CASE route \in PaidRoutes
    <2>1. Chain(route) = <<"AuthRequired", "Csrf", "OpenAPI", "ByUserID">>
        BY <1>6
    <2> QED
        BY <1>6, <2>1
<1>7. CASE route \notin IPRoutes \union ProtectedRoutes \union {"logout"}
    <2>1. Chain(route) = <<>>
        BY <1>7
    <2> QED
        BY <1>7, <2>1
<1> QED
    BY <1>1, <1>2, <1>3, <1>4, <1>5, <1>6, <1>7

\* RealIP, TraceID and AccessLog stand outside of what relies on them.
LEMMA OuterOrder ==
    /\ Inside("Recover", "AccessLog") /\ Inside("AccessLog", "TraceID")
    /\ Inside("AccessLog", "RealIP") /\ Inside("SecurityHeaders", "RealIP")
<1>1. /\ DOMAIN Global = 1..6 /\ Global[1] = "RealIP" /\ Global[2] = "TraceID"
      /\ Global[3] = "AccessLog" /\ Global[4] = "Recover" /\ Global[6] = "SecurityHeaders"
    BY DEF Global
<1> QED
    BY <1>1, 1 \in 1..6, 2 \in 1..6, 3 \in 1..6, 4 \in 1..6, 6 \in 1..6 DEF Inside

-----------------------------------------------------------------------------
(* The client's address *)

LEMMA NonBlankIsList ==
    ASSUME NEW entries \in Seq(STRING)
    PROVE  \E T : NonBlank(entries) \in Seq(T)
<1> DEFINE place(n) == Cardinality({m \in 1..n : entries[m] # ""})
           entry(p) == entries[CHOOSE n \in DOMAIN entries : place(n) = p /\ entries[n] # ""]
<1>1. place(Len(entries)) \in Nat
    <2>1. IsFiniteSet({m \in 1..Len(entries) : entries[m] # ""})
        <3>1. IsFiniteSet(1..Len(entries))
            BY FS_Interval
        <3> QED
            BY <3>1, FS_Subset
    <2> QED
        BY <2>1, FS_CardinalityType
<1>2. NonBlank(entries) = [p \in 1..place(Len(entries)) |-> entry(p)]
    BY DEF NonBlank
<1> HIDE DEF place, entry
<1>3. NonBlank(entries) \in Seq({entry(p) : p \in 1..place(Len(entries))})
    BY <1>1, <1>2
<1> QED
    BY <1>3

\* resolveClientIP finds the client behind the edge whatever the client sends.
LEMMA ClientIsPeer ==
    ASSUME NEW s \in Scenarios, NEW r \in Request
    PROVE  ResolveClientIP(s[r]) = s[r].peer
<1> DEFINE i == s[r]
<1>1. /\ Hops \in 0..2 /\ IsAddress(i.peer) /\ i.forged \in Seq(STRING)
      /\ i.probe => \A n \in DOMAIN Forwarded(i) : ~IsAddress(Forwarded(i)[n])
    BY ServerConstants
<1>2. PICK T : NonBlank(i.forged) \in Seq(T)
    BY <1>1, NonBlankIsList
<1> HIDE DEF i
<1> DEFINE sent == NonBlank(i.forged)
<1>3. CASE Hops = 0
    BY <1>3 DEF ResolveClientIP, RemoteAddr, i
<1>4. CASE i.probe
    <2>1. \/ Hops > 0 /\ Len(Forwarded(i)) - Hops + 1 >= 1 =>
                ~IsAddress(Forwarded(i)[Len(Forwarded(i)) - Hops + 1])
          \/ FALSE
        <3>1. Forwarded(i) = sent \o <<>>
            BY <1>4 DEF Forwarded
        <3>2. Forwarded(i) \in Seq(T)
            BY <1>2, <3>1
        <3> QED
            BY <1>1, <1>4, <3>2
    <2> QED
        BY <1>4, <2>1 DEF ResolveClientIP, RemoteAddr, i
<1>5. CASE Hops \in 1..2 /\ ~i.probe
    <2> DEFINE edge == SubSeq(<<i.peer, LB>>, 1, Hops)
    <2>1. edge \in Seq({i.peer, LB}) /\ Len(edge) = Hops /\ edge[1] = i.peer
        BY <1>5
    <2>2. Forwarded(i) = sent \o edge
        BY <1>5 DEF Forwarded
    <2> HIDE DEF sent, edge
    <2>3. sent \in Seq(T \union {i.peer, LB}) /\ edge \in Seq(T \union {i.peer, LB})
        BY <1>2, <2>1 DEF sent
    <2>4. Len(Forwarded(i)) = Len(sent) + Hops /\ Forwarded(i)[Len(sent) + 1] = i.peer
        BY <1>5, <2>1, <2>2, <2>3
    <2>5. Len(Forwarded(i)) - Hops + 1 = Len(sent) + 1 /\ Len(sent) + 1 >= 1
        BY <1>5, <2>3, <2>4
    <2> QED
        BY <1>1, <1>5, <2>4, <2>5 DEF ResolveClientIP, i
<1> QED
    BY <1>1, <1>3, <1>4, <1>5

-----------------------------------------------------------------------------
(* What is true of every request *)

Done == {"written", "closed", "aborted"}
Stages == {"new", "chain", "asking", "handler", "call", "reply"} \union Done

ServerType ==
    /\ in \in Scenarios
    /\ stage \in [Request -> Stages] /\ pos \in [Request -> Nat \ {0}]
    /\ status \in [Request -> Nat] /\ read \in [Request -> Nat]
    /\ DOMAIN who = Request /\ DOMAIN log = Request /\ DOMAIN call = Request
    /\ paid \subseteq Request

\* A request is in its chain or beyond it, and unanswered until it is done.
Placed(r) ==
    /\ stage[r] = "new" => pos[r] = 1
    /\ stage[r] \in {"chain", "asking"} => pos[r] <= Len(Chain(in[r].route))
    /\ stage[r] \in {"handler", "call", "reply"} => pos[r] > Len(Chain(in[r].route))
    /\ stage[r] \in {"call", "reply"} => in[r].route \in PaidRoutes
    /\ stage[r] \notin Done => status[r] = 0

\* One access-log record, when everything has returned.
Logged(r) ==
    /\ stage[r] = "closed" =>
          log[r] = <<[status |-> status[r], ip |-> in[r].peer, trace |-> ResolveTrace(in[r])]>>
    /\ stage[r] # "closed" => log[r] = <<>>

\* What the limiter is asked about.
Asking(r) ==
    /\ stage[r] # "asking" => call[r] = NoCall
    /\ stage[r] = "asking" =>
          /\ call[r].key \in Key
          /\ \/ in[r].route \in IPRoutes /\ pos[r] = 1 /\ call[r].key = <<in[r].route, in[r].peer>>
             \/ in[r].route = "login" /\ pos[r] = 3 /\ call[r].key = <<"email", in[r].email[1]>>
             \/ in[r].route \in PaidRoutes /\ pos[r] = 4 /\ call[r].key = <<in[r].route, in[r].user>>

\* What a request has shown when it has come as far as pos[r].
Passed(r) ==
    /\ in[r].route \in ProtectedRoutes /\ pos[r] > 1 =>
          /\ ExtractToken(in[r]).token \in {"valid", "revoked"}
          /\ who[r] = [user |-> in[r].user, source |-> ExtractToken(in[r]).source]
    /\ in[r].route \in PaidRoutes =>
          /\ pos[r] > 2 => (in[r].cookie # "none" => in[r].csrf)
          /\ pos[r] > 3 /\ in[r].route = "analyze" => in[r].wellformed /\ in[r].body <= MaxBody
          /\ pos[r] > 4 => \E d \in decided : /\ d.req = r /\ d.verdict = "allowed"
                                              /\ d.key = <<in[r].route, in[r].user>>

\* What it has cost.
Cost(r) ==
    /\ r \in paid \/ stage[r] \in {"call", "reply"} =>
          /\ in[r].route \in PaidRoutes /\ pos[r] > 4
          /\ IF in[r].route = "detect" THEN in[r].wellformed /\ in[r].image \in 1..MaxImage
             ELSE in[r].name
    /\ r \in paid => stage[r] \in Done \union {"reply"} /\ status[r] \in {0, 200, 500, 502}
    /\ status[r] = 413 => IF in[r].route = "detect" THEN in[r].body > MaxImage
                          ELSE in[r].body > MaxBody

\* What has been read of its body.
Unread(r) ==
    /\ stage[r] \in {"new", "chain", "asking"} /\ pos[r] <= ValidatorPlace(in[r].route) => read[r] = 0
    /\ status[r] \in {401, 403} => read[r] = 0
    /\ \A d \in decided :
          d.req = r /\ d.key[1] \in IPRoutes /\ d.verdict \in {"limited", "unavailable"} =>
              stage[r] \in Done /\ read[r] = 0
    /\ read[r] <= IF in[r].route = "detect" THEN DetectBodyLimit ELSE MaxBody

ServerInv ==
    /\ ServerType
    /\ \A r \in Request : Placed(r) /\ Logged(r) /\ Asking(r) /\ Passed(r) /\ Cost(r) /\ Unread(r)

-----------------------------------------------------------------------------
(* What the limiter counts *)

CallTimes ==
    \A r \in Request :
        call[r] # NoCall => /\ call[r].key \in Key /\ call[r].now \in Nat
                            /\ call[r].now <= clock /\ clock - call[r].now <= MaxDelay

LimiterType ==
    /\ clock \in Nat
    /\ zset \in [Key -> SUBSET [req : Request, now : Nat]]
    /\ expireAt \in [Key -> Nat]
    /\ CallTimes
    /\ \A k \in Key : IsFiniteSet(zset[k])
    /\ IsFiniteSet(decided) /\ IsFiniteSet(lost)
    /\ \A d \in decided \union lost :
          /\ d.req \in Request /\ d.key \in Key
          /\ d.now \in Nat /\ d.at \in Nat /\ d.now <= d.at /\ d.at <= clock

\* A decision or a lost attempt is about the subject of its key, and a request asks
\* once about a key.
OwnKey == \A d \in decided \union lost : d.key = <<d.key[1], Subject(d)>>
Once == \A d, e \in decided : d.req = e.req /\ d.key = e.key => d = e

\* While a request is in its chain, only ByIP has decided about it.
FirstDecision ==
    \A d \in decided :
        stage[d.req] \in {"new", "chain", "asking"} =>
            pos[d.req] > 1 /\ in[d.req].route \in IPRoutes /\ d.key[1] = in[d.req].route

\* Entries stay as long as they count.
StillThere ==
    \A d \in decided :
        d.verdict = "allowed" /\ d.now > clock - Window =>
            [req |-> d.req, now |-> d.now] \in zset[d.key]
Covered == \A k \in Key : \A x \in zset[k] : x.now <= clock /\ x.now + Window <= expireAt[k]

\* Nothing else is counted.
Counted ==
    \A k \in Key : \A x \in zset[k] :
        \E e \in Charges : e.req = x.req /\ e.now = x.now /\ e.key = k

WindowInv ==
    /\ LimiterType /\ OwnKey /\ Once /\ FirstDecision /\ StillThere /\ Covered /\ Counted

-----------------------------------------------------------------------------
(* What a step of request r does to r *)

LEMMA InitServerInv == Init => ServerInv
<1> SUFFICES ASSUME Init PROVE ServerInv
    OBVIOUS
<1> USE ServerConstants, LogoConstants DEF Init, LimiterInit
<1>1. ServerType
    BY DEF ServerType, Stages
<1>2. ASSUME NEW r \in Request
      PROVE  Placed(r) /\ Logged(r) /\ Asking(r) /\ Passed(r) /\ Cost(r) /\ Unread(r)
    <2>1. Placed(r) /\ Logged(r)
        BY DEF Placed, Logged, Done
    <2>2. Asking(r) /\ Passed(r)
        BY DEF Asking, Passed
    <2>3. Cost(r)
        BY DEF Cost
    <2>4. Unread(r)
        BY DEF Unread, DetectBodyLimit
    <2> QED
        BY <2>1, <2>2, <2>3, <2>4
<1> QED
    BY <1>1, <1>2 DEF ServerInv

Answers(r, s) == stage'[r] = "written" /\ pos'[r] = pos[r] /\ status'[r] = s

EntersAt(r, p) ==
    /\ pos'[r] = p /\ status'[r] = status[r]
    /\ \/ p > Len(Chain(in[r].route)) /\ stage'[r] = "handler"
       \/ p <= Len(Chain(in[r].route)) /\ stage'[r] = "chain"

LimiterKept(r) == call'[r] = call[r] /\ decided' = decided

LEMMA Answering ==
    ASSUME ServerType, NEW r \in Request, NEW s, Respond(r, s) PROVE Answers(r, s)
BY DEF ServerType, Respond, Answers

LEMMA Entering ==
    ASSUME ServerType, NEW r \in Request, NEW p \in Nat, Enter(r, p), UNCHANGED status
    PROVE  EntersAt(r, p)
<1>1. Len(Chain(in[r].route)) \in Nat
    BY PlacesInChain
<1> QED
    BY <1>1 DEF ServerType, Enter, EntersAt

LEMMA Passing ==
    ASSUME ServerType, NEW r \in Request, Pass(r) PROVE EntersAt(r, pos[r] + 1)
BY Entering DEF ServerType, Pass

LEMMA ArriveLocal ==
    ASSUME ServerType, NEW r \in Request, Arrive(r)
    PROVE  /\ stage[r] = "new"
           /\ Answers(r, 200) \/ EntersAt(r, 1)
           /\ LimiterKept(r) /\ UNCHANGED <<who, read, log, paid>>
BY Answering, Entering DEF Arrive, limiterVars, LimiterKept

LEMMA ReturnLocal ==
    ASSUME ServerType, NEW r \in Request, Return(r), Logged(r)
    PROVE  /\ stage[r] = "written" /\ stage'[r] = "closed"
           /\ log'[r] = <<[status |-> status[r], ip |-> in[r].peer, trace |-> ResolveTrace(in[r])]>>
           /\ LimiterKept(r) /\ UNCHANGED <<pos, who, read, status, paid>>
<1>1. ClientIP(r, "AccessLog") = in[r].peer
    BY OuterOrder, ClientIsPeer DEF ClientIP, ServerType
<1>2. log[r] = <<>>
    BY DEF Return, Logged
<1>3. log'[r] = Append(log[r], [status |-> status[r], ip |-> in[r].peer, trace |-> ResolveTrace(in[r])])
    BY <1>1, OuterOrder DEF Return, ServerType
<1> QED
    BY <1>2, <1>3 DEF Return, ServerType, limiterVars, LimiterKept

LEMMA PanicLocal ==
    ASSUME ServerType, NEW r \in Request, Panic(r)
    PROVE  /\ stage[r] \in {"chain", "handler", "call", "reply", "written"}
           /\ Answers(r, IF status[r] = 0 THEN 500 ELSE status[r])
           /\ LimiterKept(r) /\ UNCHANGED <<who, read, log, paid>>
BY OuterOrder DEF Panic, ServerType, Answers, limiterVars, LimiterKept

LEMMA AbortLocal ==
    ASSUME ServerType, NEW r \in Request, Abort(r)
    PROVE  /\ stage[r] \in {"handler", "reply", "written"} /\ stage'[r] = "aborted"
           /\ LimiterKept(r) /\ UNCHANGED <<pos, who, read, status, log, paid>>
BY DEF Abort, ServerType, limiterVars, LimiterKept

LEMMA AuthLocal ==
    ASSUME ServerType, NEW r \in Request, AuthRequired(r)
    PROVE  /\ At(r, "AuthRequired")
           /\ \/ /\ EntersAt(r, pos[r] + 1)
                 /\ ExtractToken(in[r]).token \in {"valid", "revoked"}
                 /\ who'[r] = [user |-> in[r].user, source |-> ExtractToken(in[r]).source]
              \/ Answers(r, 401) /\ UNCHANGED who
           /\ LimiterKept(r) /\ UNCHANGED <<read, log, paid>>
BY Answering, Passing DEF AuthRequired, ServerType, limiterVars, LimiterKept

LEMMA ProtectLocal ==
    ASSUME ServerType, NEW r \in Request, Protect(r)
    PROVE  /\ At(r, "Csrf") \/ At(r, "CsrfOfCookies")
           /\ \/ EntersAt(r, pos[r] + 1) /\ ~(CsrfApplies(r) /\ ~in[r].csrf)
              \/ Answers(r, 403)
           /\ LimiterKept(r) /\ UNCHANGED <<who, read, log, paid>>
BY Answering, Passing DEF Protect, limiterVars, LimiterKept

LEMMA ValidateLocal ==
    ASSUME ServerType, NEW r \in Request, Validate(r)
    PROVE  /\ At(r, "OpenAPI")
           /\ \/ in[r].route = "detect" /\ EntersAt(r, pos[r] + 1) /\ UNCHANGED read
              \/ /\ in[r].route # "detect" /\ in[r].body > MaxBody
                 /\ read'[r] \in {0, MaxBody} /\ Answers(r, 413)
              \/ /\ in[r].route # "detect" /\ in[r].body <= MaxBody /\ read'[r] = in[r].body
                 /\ \/ in[r].wellformed /\ EntersAt(r, pos[r] + 1)
                    \/ Answers(r, 400)
           /\ LimiterKept(r) /\ UNCHANGED <<who, log, paid>>
<1>1. in[r].body \in Nat /\ MaxBody \in Nat
    BY ServerConstants DEF ServerType
<1>2. CASE in[r].route = "detect"
    BY <1>2, Passing DEF Validate, limiterVars, LimiterKept
<1>3. CASE in[r].route # "detect" /\ in[r].body > MaxBody
    BY <1>3, Answering DEF Validate, ServerType, limiterVars, LimiterKept
<1>4. CASE in[r].route # "detect" /\ in[r].body <= MaxBody
    BY <1>1, <1>4, Answering, Passing DEF Validate, ServerType, limiterVars, LimiterKept
<1> QED
    BY <1>1, <1>2, <1>3, <1>4

LEMMA CallLimiterLocal ==
    ASSUME ServerType, NEW r \in Request, CallLimiter(r)
    PROVE  /\ \/ At(r, "ByIP") /\ call'[r] = [key |-> <<in[r].route, in[r].peer>>, now |-> clock]
              \/ At(r, "ByUserID") /\ call'[r] = [key |-> <<in[r].route, who[r].user>>, now |-> clock]
              \/ At(r, "ByEmail") /\ call'[r] = [key |-> <<"email", in[r].email[1]>>, now |-> clock]
           /\ stage'[r] = "asking" /\ decided' = decided /\ UNCHANGED <<clock, zset, expireAt>>
           /\ UNCHANGED <<pos, who, read, status, log, paid>>
<1>1. ClientIP(r, "SecurityHeaders") = in[r].peer
    BY OuterOrder, ClientIsPeer DEF ClientIP, ServerType
<1> QED
    BY <1>1 DEF CallLimiter, Ask, NormalizeEmail, ServerType

LEMMA HandleLocal ==
    ASSUME ServerType, NEW r \in Request, Handle(r)
    PROVE  /\ stage[r] = "handler" /\ in[r].route \notin PaidRoutes
           /\ \E s \in {200, 404, 500} : Answers(r, s)
           /\ LimiterKept(r) /\ UNCHANGED <<who, read, log, paid>>
<1>1. \E s \in {200, 404, 500} : Respond(r, s)
    BY DEF Handle
<1> QED
    BY <1>1, Answering DEF Handle, PaidRoutes, limiterVars, LimiterKept

LEMMA InvokeLocal ==
    ASSUME ServerType, NEW r \in Request, Invoke(r)
    PROVE  /\ stage[r] = "call" /\ stage'[r] = "reply" /\ paid' = paid \union {r}
           /\ LimiterKept(r) /\ UNCHANGED <<pos, who, read, status, log>>
BY DEF Invoke, ServerType, limiterVars, LimiterKept

LEMMA ReplyLocal ==
    ASSUME ServerType, NEW r \in Request, Reply(r)
    PROVE  /\ stage[r] = "reply" /\ \E s \in {200, 502} : Answers(r, s)
           /\ LimiterKept(r) /\ UNCHANGED <<who, read, log, paid>>
BY Answering DEF Reply, limiterVars, LimiterKept

LEMMA CheckLogoLocal ==
    ASSUME ServerType, NEW r \in Request, CheckLogoRequest(r)
    PROVE  /\ stage[r] = "handler" /\ in[r].route \in PaidRoutes
           /\ IF in[r].route = "detect" THEN read'[r] = Minimum(in[r].body, DetectBodyLimit)
              ELSE read'[r] = read[r]
           /\ \/ Answers(r, 400) \/ Answers(r, 500)
              \/ Answers(r, 413) /\ in[r].route = "detect" /\ in[r].body > MaxImage
              \/ /\ stage'[r] = "call" /\ UNCHANGED <<pos, status>>
                 /\ IF in[r].route = "detect" THEN in[r].wellformed /\ in[r].image \in 1..MaxImage
                    ELSE in[r].name
           /\ LimiterKept(r) /\ UNCHANGED <<who, log, paid>>
<1>1. /\ in[r].body \in Nat /\ in[r].image \in Nat /\ in[r].image <= in[r].body
      /\ MaxImage \in Nat /\ Slack \in Nat
    <2>1. in[r].body \in Nat /\ in[r].image \in 0..in[r].body
        BY ServerConstants DEF ServerType
    <2> QED
        BY <2>1, LogoConstants
<1> DEFINE refusals == IF in[r].route = "detect" THEN DetectRefusals(in[r]) ELSE AnalyzeRefusals(in[r])
<1>2. /\ stage[r] = "handler" /\ in[r].route \in PaidRoutes
      /\ read'[r] = IF in[r].route = "detect" THEN Minimum(in[r].body, DetectBodyLimit) ELSE read[r]
      /\ LimiterKept(r) /\ UNCHANGED <<who, log, paid>>
    BY DEF CheckLogoRequest, ServerType, PaidRoutes, limiterVars, LimiterKept
<1>3. \/ \E s \in refusals \ {0} : Respond(r, s)
      \/ 0 \in refusals /\ stage' = [stage EXCEPT ![r] = "call"] /\ UNCHANGED <<pos, status>>
    BY DEF CheckLogoRequest
<1>4. CASE in[r].route = "detect"
    <2>1. /\ refusals \subseteq {0, 400, 413, 500}
          /\ 413 \in refusals => in[r].body > MaxImage
          /\ 0 \in refusals => in[r].wellformed /\ in[r].image \in 1..MaxImage
        BY <1>1, <1>4 DEF DetectRefusals, DetectBodyLimit
    <2> HIDE DEF refusals
    <2> QED
        BY <1>2, <1>3, <1>4, <2>1, Answering DEF ServerType
<1>5. CASE in[r].route # "detect"
    <2>1. refusals \subseteq {0, 400} /\ (0 \in refusals => in[r].name)
        BY <1>5 DEF AnalyzeRefusals
    <2> HIDE DEF refusals
    <2> QED
        BY <1>2, <1>3, <1>5, <2>1, Answering DEF ServerType
<1> QED
    BY <1>4, <1>5

\* The decision about the call of r.
Decision(r, verdict) ==
    [req |-> r, key |-> call[r].key, now |-> call[r].now, at |-> clock, verdict |-> verdict]

LEMMA LimiterAnswersLocal ==
    ASSUME ServerType, NEW r \in Request, LimiterAnswers(r)
    PROVE  \E verdict \in {"allowed", "limited", "unavailable", "uncounted"} :
              /\ stage[r] = "asking" /\ call[r] # NoCall
              /\ decided' = decided \union {Decision(r, verdict)}
              /\ call' = [call EXCEPT ![r] = NoCall] /\ clock' = clock
              /\ verdict = "uncounted" => in[r].route = "refresh"
              /\ \/ verdict \in {"allowed", "uncounted"} /\ EntersAt(r, pos[r] + 1)
                 \/ /\ verdict \notin {"allowed", "uncounted"}
                    /\ \E s \in {302, 429, 503} : Answers(r, s)
              /\ \/ verdict = (IF Room(r) THEN "allowed" ELSE "limited") /\ Script(r)
                 \/ verdict \in {"unavailable", "uncounted"} /\ (UNCHANGED <<zset, expireAt>> \/ Script(r))
              /\ UNCHANGED <<who, read, log, paid>>
<1>1. PICK verdict \in {"allowed", "limited", "unavailable", "uncounted"} :
          /\ Check(r, verdict) \/ CheckFails(r, Policy(in[r].route), verdict)
          /\ Admit(r, verdict)
    BY DEF LimiterAnswers
<1>2. /\ call[r] # NoCall /\ Decide(r, verdict) /\ clock' = clock
      /\ \/ verdict = (IF Room(r) THEN "allowed" ELSE "limited") /\ Script(r)
         \/ /\ verdict = (IF Policy(in[r].route) = "FailClosed" THEN "unavailable" ELSE "uncounted")
            /\ UNCHANGED <<zset, expireAt>> \/ Script(r)
    BY <1>1 DEF Check, CheckFails
<1>3. verdict = "uncounted" => in[r].route = "refresh"
    BY <1>2 DEF Policy
<1>4. \/ verdict = (IF Room(r) THEN "allowed" ELSE "limited") /\ Script(r)
      \/ verdict \in {"unavailable", "uncounted"} /\ (UNCHANGED <<zset, expireAt>> \/ Script(r))
    BY <1>2
<1>5. \/ verdict \in {"allowed", "uncounted"} /\ EntersAt(r, pos[r] + 1)
      \/ verdict \notin {"allowed", "uncounted"} /\ \E s \in {302, 429, 503} : Answers(r, s)
    <2>1. CASE verdict \in {"allowed", "uncounted"}
        <3>1. Pass(r)
            BY <1>1, <2>1 DEF Admit
        <3> QED
            BY <2>1, <3>1, Passing
    <2>2. CASE verdict \notin {"allowed", "uncounted"}
        <3>1. \E s \in {302, 429, 503} : Respond(r, s)
            BY <1>1, <2>2 DEF Admit
        <3> QED
            BY <2>2, <3>1, Answering
    <2> QED
        BY <2>1, <2>2
<1>6. stage[r] = "asking" /\ UNCHANGED <<who, read, log, paid>>
    BY DEF LimiterAnswers
<1>7. decided' = decided \union {Decision(r, verdict)} /\ call' = [call EXCEPT ![r] = NoCall]
    BY <1>2 DEF Decide, Decision
<1> QED
    BY <1>2, <1>3, <1>4, <1>5, <1>6, <1>7

\* A step of r is none of another request.
Same(q) ==
    /\ stage'[q] = stage[q] /\ pos'[q] = pos[q] /\ who'[q] = who[q] /\ read'[q] = read[q]
    /\ status'[q] = status[q] /\ log'[q] = log[q] /\ call'[q] = call[q]
    /\ q \in paid' <=> q \in paid

LEMMA OthersStay ==
    ASSUME ServerType, NEW r \in Request, Arrive(r) \/ Serve(r), NEW q \in Request, q # r
    PROVE  /\ Same(q)
           /\ \A d : d \in decided' => d \in decided \/ d.req = r
<1> USE DEF ServerType, Same, Pass, Enter, Respond, limiterVars
<1>1. CASE Arrive(r)
    BY <1>1 DEF Arrive
<1>2. CASE AuthRequired(r)
    BY <1>2 DEF AuthRequired
<1>3. CASE Protect(r)
    BY <1>3 DEF Protect
<1>4. CASE Validate(r)
    BY <1>4 DEF Validate
<1>5. CASE CallLimiter(r)
    BY <1>5 DEF CallLimiter, Ask
<1>6. CASE LimiterAnswers(r)
    <2>1. PICK verdict : Decide(r, verdict) /\ Admit(r, verdict)
        BY <1>6 DEF LimiterAnswers, Check, CheckFails
    <2>2. Pass(r) \/ \E s : Respond(r, s)
        <3>1. CASE verdict \in {"allowed", "uncounted"}
            BY <2>1, <3>1 DEF Admit
        <3>2. CASE verdict \notin {"allowed", "uncounted"}
            BY <2>1, <3>2, Zenon DEF Admit
        <3> QED
            BY <3>1, <3>2
    <2> QED
        BY <1>6, <2>1, <2>2 DEF LimiterAnswers, Decide
<1>7. CASE Handle(r)
    <2>1. \E s : Respond(r, s)
        BY <1>7, Zenon DEF Handle
    <2> QED
        BY <1>7, <2>1 DEF Handle
<1>8. CASE CheckLogoRequest(r)
    BY <1>8 DEF CheckLogoRequest
<1>9. CASE Invoke(r) \/ Reply(r)
    BY <1>9 DEF Invoke, Reply
<1>10. CASE Return(r) \/ Panic(r) \/ Abort(r)
    BY <1>10 DEF Return, Panic, Abort
<1> QED
    BY <1>1, <1>2, <1>3, <1>4, <1>5, <1>6, <1>7, <1>8, <1>9, <1>10 DEF Serve

-----------------------------------------------------------------------------
(* Steps preserve ServerInv *)

LEMMA InputsStay == [Next]_vars => in' = in
BY DEF Next, vars, serverVars, LimiterRetries, Arrive, Serve, AuthRequired, Protect, Validate, CallLimiter,
       LimiterAnswers, Handle, CheckLogoRequest, Invoke, Reply, Return, Panic, Abort

LEMMA StepType ==
    ASSUME ServerType, NEW r \in Request, Arrive(r) \/ Serve(r), in' = in
    PROVE  ServerType'
<1>0. paid' \subseteq Request
    BY DEF ServerType, Arrive, Serve, AuthRequired, Protect, Validate, CallLimiter, LimiterAnswers,
           Handle, CheckLogoRequest, Invoke, Reply, Return, Panic, Abort
<1>1. /\ MaxBody \in Nat /\ in[r].body \in Nat /\ MaxImage \in Nat /\ Slack \in Nat
    BY ServerConstants, LogoConstants DEF ServerType
<1> DEFINE Moves == /\ stage' \in [Request -> Stages] /\ pos' \in [Request -> Nat \ {0}]
                    /\ status' \in [Request -> Nat]
<1>2. ASSUME NEW s \in Nat, Respond(r, s) PROVE Moves
    BY <1>2 DEF ServerType, Respond, Stages, Done
<1>3. ASSUME NEW p \in Nat \ {0}, Enter(r, p), UNCHANGED status PROVE Moves
    BY <1>3 DEF ServerType, Enter, Stages, Done
<1>4. ASSUME Pass(r) PROVE Moves
    <2>1. pos[r] + 1 \in Nat \ {0}
        BY DEF ServerType
    <2> QED
        BY <1>3, <1>4, <2>1 DEF Pass
<1> HIDE DEF Moves
<1>5. ASSUME Moves, read' \in [Request -> Nat], DOMAIN who' = Request, DOMAIN log' = Request,
             DOMAIN call' = Request
      PROVE  ServerType'
    BY <1>0, <1>5 DEF Moves, ServerType
<1>6. CASE Arrive(r)
    <2>1. Moves
        BY <1>2, <1>3, <1>6 DEF Arrive
    <2> QED
        BY <1>5, <1>6, <2>1 DEF Arrive, ServerType, limiterVars
<1>7. CASE AuthRequired(r)
    <2>1. Moves
        BY <1>2, <1>4, <1>7 DEF AuthRequired
    <2> QED
        BY <1>5, <1>7, <2>1 DEF AuthRequired, ServerType, limiterVars
<1>8. CASE Protect(r)
    <2>1. Moves
        BY <1>2, <1>4, <1>8 DEF Protect
    <2> QED
        BY <1>5, <1>8, <2>1 DEF Protect, ServerType, limiterVars
<1>9. CASE Validate(r)
    <2>1. Moves
        BY <1>2, <1>4, <1>9 DEF Validate
    <2>2. read' \in [Request -> Nat]
        BY <1>1, <1>9 DEF Validate, ServerType
    <2> QED
        BY <1>5, <1>9, <2>1, <2>2 DEF Validate, ServerType, limiterVars
<1>10. CASE CallLimiter(r)
    <2>1. Moves
        BY <1>10 DEF CallLimiter, ServerType, Moves, Stages
    <2> QED
        BY <1>5, <1>10, <2>1 DEF CallLimiter, Ask, ServerType
<1>11. CASE LimiterAnswers(r)
    <2>1. PICK verdict : Decide(r, verdict) /\ Admit(r, verdict)
        BY <1>11 DEF LimiterAnswers, Check, CheckFails
    <2>2. Moves
        BY <1>2, <1>4, <2>1 DEF Admit
    <2> QED
        BY <1>5, <1>11, <2>1, <2>2 DEF LimiterAnswers, Decide, ServerType
<1>12. CASE Handle(r)
    <2>1. \E s \in {200, 404, 500} : Respond(r, s)
        BY <1>12 DEF Handle
    <2>2. Moves
        BY <1>2, <2>1
    <2> QED
        BY <1>5, <1>12, <2>2 DEF Handle, ServerType, limiterVars
<1>13. CASE CheckLogoRequest(r)
    <2>1. Moves
        <3>1. CASE \E s \in Nat : Respond(r, s)
            BY <1>2, <3>1
        <3>2. CASE stage' = [stage EXCEPT ![r] = "call"] /\ UNCHANGED <<pos, status>>
            BY <3>2 DEF Moves, ServerType, Stages
        <3>3. DetectRefusals(in[r]) \subseteq Nat /\ AnalyzeRefusals(in[r]) \subseteq Nat
            BY DEF DetectRefusals, AnalyzeRefusals
        <3> QED
            BY <1>13, <3>1, <3>2, <3>3 DEF CheckLogoRequest
    <2>2. Minimum(in[r].body, DetectBodyLimit) \in Nat
        BY <1>1 DEF Minimum, DetectBodyLimit
    <2>3. read' \in [Request -> Nat]
        BY <1>13, <2>2 DEF CheckLogoRequest, ServerType
    <2> QED
        BY <1>5, <1>13, <2>1, <2>3 DEF CheckLogoRequest, ServerType, limiterVars
<1>14. CASE Invoke(r)
    BY <1>5, <1>14 DEF Invoke, ServerType, Moves, Stages, limiterVars
<1>15. CASE Reply(r)
    <2>1. Moves
        BY <1>2, <1>15 DEF Reply
    <2> QED
        BY <1>5, <1>15, <2>1 DEF Reply, ServerType, limiterVars
<1>16. CASE Return(r)
    BY <1>5, <1>16 DEF Return, ServerType, Moves, Stages, Done, limiterVars
<1>17. CASE Panic(r)
    BY <1>5, <1>17 DEF Panic, ServerType, Moves, Stages, Done, limiterVars
<1>18. CASE Abort(r)
    BY <1>5, <1>18 DEF Abort, ServerType, Moves, Stages, Done, limiterVars
<1> QED
    BY <1>6, <1>7, <1>8, <1>9, <1>10, <1>11, <1>12, <1>13, <1>14, <1>15, <1>16, <1>17, <1>18
       DEF Serve

LEMMA SamePreserves ==
    ASSUME in' = in, NEW q, Same(q), decided \subseteq decided',
           \A d \in decided' : d.req = q => d \in decided,
           Placed(q), Logged(q), Asking(q), Passed(q), Cost(q), Unread(q)
    PROVE  Placed(q)' /\ Logged(q)' /\ Asking(q)' /\ Passed(q)' /\ Cost(q)' /\ Unread(q)'
<1> USE DEF Same
<1>1. Placed(q)' /\ Logged(q)'
    BY DEF Placed, Logged
<1>2. Asking(q)'
    BY DEF Asking
<1>3. Passed(q)'
    BY DEF Passed
<1>4. Cost(q)'
    BY DEF Cost
<1>5. Unread(q)'
    BY DEF Unread
<1> QED
    BY <1>1, <1>2, <1>3, <1>4, <1>5

LEMMA AtPlace ==
    ASSUME ServerType, NEW r \in Request, Placed(r), NEW m, At(r, m)
    PROVE  stage[r] = "chain" /\ Places(in[r].route, pos[r], m)
<1>1. stage[r] = "chain" /\ Chain(in[r].route)[pos[r]] = m
    BY DEF At
<1>2. pos[r] \in 1..Len(Chain(in[r].route))
    BY <1>1, PlacesInChain DEF ServerType, Placed
<1> QED
    BY <1>1, <1>2, PlacesInChain

LEMMA StepPlaced ==
    ASSUME ServerType, NEW r \in Request, Arrive(r) \/ Serve(r), in' = in,
           Placed(r), Logged(r)
    PROVE  Placed(r)' /\ Logged(r)'
<1> USE DEF Placed, Logged, Done
<1>1. Len(Chain(in[r].route)) \in Nat /\ pos[r] \in Nat /\ status[r] \in Nat
    BY PlacesInChain DEF ServerType
<1>2. ASSUME NEW s, Answers(r, s), log' = log, stage[r] # "closed" PROVE Placed(r)' /\ Logged(r)'
    BY <1>2 DEF Answers
<1>3. ASSUME NEW p, EntersAt(r, p), log' = log, stage[r] \notin Done PROVE Placed(r)' /\ Logged(r)'
    BY <1>3 DEF EntersAt
<1>4. CASE Arrive(r)
    BY <1>2, <1>3, <1>4, ArriveLocal
<1>5. CASE AuthRequired(r)
    <2>1. At(r, "AuthRequired") /\ log' = log /\ (EntersAt(r, pos[r] + 1) \/ Answers(r, 401))
        BY <1>5, AuthLocal
    <2> QED
        BY <1>2, <1>3, <2>1 DEF At
<1>6. CASE Protect(r)
    BY <1>2, <1>3, <1>6, ProtectLocal DEF At
<1>7. CASE Validate(r)
    BY <1>2, <1>3, <1>7, ValidateLocal DEF At
<1>8. CASE CallLimiter(r)
    BY <1>8, CallLimiterLocal DEF At
<1>9. CASE LimiterAnswers(r)
    BY <1>2, <1>3, <1>9, LimiterAnswersLocal
<1>10. CASE Handle(r)
    BY <1>2, <1>10, HandleLocal
<1>11. CASE CheckLogoRequest(r)
    <2>1. stage[r] = "handler" /\ in[r].route \in PaidRoutes /\ log' = log
        BY <1>11, CheckLogoLocal
    <2>2. CASE stage'[r] = "call" /\ UNCHANGED <<pos, status>>
        BY <2>1, <2>2
    <2>3. CASE \E s : Answers(r, s)
        BY <1>2, <2>1, <2>3
    <2> QED
        BY <1>11, <2>2, <2>3, CheckLogoLocal
<1>12. CASE Invoke(r)
    BY <1>12, InvokeLocal
<1>13. CASE Reply(r)
    BY <1>2, <1>13, ReplyLocal
<1>14. CASE Return(r)
    BY <1>14, ReturnLocal
<1>15. CASE Panic(r)
    BY <1>2, <1>15, PanicLocal
<1>16. CASE Abort(r)
    BY <1>16, AbortLocal
<1> QED
    BY <1>4, <1>5, <1>6, <1>7, <1>8, <1>9, <1>10, <1>11, <1>12, <1>13, <1>14, <1>15, <1>16 DEF Serve

LEMMA StepAsking ==
    ASSUME ServerType, NEW r \in Request, Arrive(r) \/ Serve(r), in' = in,
           Placed(r), Asking(r), Passed(r)
    PROVE  Asking(r)'
<1> USE LimiterConstants
<1> USE DEF Asking
<1>1. ASSUME LimiterKept(r), stage[r] # "asking", stage'[r] # "asking" PROVE Asking(r)'
    BY <1>1 DEF LimiterKept
<1>2. \A s : Answers(r, s) => stage'[r] # "asking"
    BY DEF Answers
<1>3. \A p : EntersAt(r, p) => stage'[r] # "asking"
    BY DEF EntersAt
<1>4. CASE Arrive(r)
    BY <1>1, <1>2, <1>3, <1>4, ArriveLocal
<1>5. CASE AuthRequired(r)
    <2>1. At(r, "AuthRequired") /\ LimiterKept(r) /\ (EntersAt(r, pos[r] + 1) \/ Answers(r, 401))
        BY <1>5, AuthLocal
    <2> QED
        BY <1>1, <1>2, <1>3, <2>1 DEF At
<1>6. CASE Protect(r)
    BY <1>1, <1>2, <1>3, <1>6, ProtectLocal DEF At
<1>7. CASE Validate(r)
    BY <1>1, <1>2, <1>3, <1>7, ValidateLocal DEF At
<1>8. CASE CallLimiter(r)
    <2>1. stage'[r] = "asking" /\ pos' = pos
        BY <1>8, CallLimiterLocal
    <2> DEFINE i == in[r]
    <2>2. /\ i.route \in IPRoutes => <<i.route, i.peer>> \in Key
          /\ i.route \in PaidRoutes => <<i.route, i.user>> \in Key
          /\ i.route = "login" => <<"email", i.email[1]>> \in Key
        BY ServerConstants, WhoseLimit DEF ServerType, ByIPRoute
    <2>3. CASE At(r, "ByIP") /\ call'[r] = [key |-> <<in[r].route, in[r].peer>>, now |-> clock]
        BY <2>1, <2>2, <2>3, AtPlace DEF Places
    <2>4. CASE At(r, "ByUserID") /\ call'[r] = [key |-> <<in[r].route, who[r].user>>, now |-> clock]
        <3>1. in[r].route \in PaidRoutes /\ pos[r] = 4
            BY <2>4, AtPlace DEF Places
        <3>2. who[r].user = in[r].user
            BY <3>1 DEF Passed, PaidRoutes, ProtectedRoutes
        <3> QED
            BY <2>1, <2>2, <2>4, <3>1, <3>2
    <2>5. CASE At(r, "ByEmail") /\ call'[r] = [key |-> <<"email", in[r].email[1]>>, now |-> clock]
        BY <2>1, <2>2, <2>5, AtPlace DEF Places
    <2> QED
        BY <1>8, <2>3, <2>4, <2>5, CallLimiterLocal
<1>9. CASE LimiterAnswers(r)
    BY <1>2, <1>3, <1>9, LimiterAnswersLocal DEF ServerType
<1>10. CASE Handle(r)
    BY <1>1, <1>2, <1>10, HandleLocal
<1>11. CASE CheckLogoRequest(r)
    <2>1. stage[r] = "handler" /\ LimiterKept(r) /\ (stage'[r] = "call" \/ \E s : Answers(r, s))
        BY <1>11, CheckLogoLocal
    <2> QED
        BY <1>1, <1>2, <2>1
<1>12. CASE Invoke(r)
    BY <1>1, <1>12, InvokeLocal
<1>13. CASE Reply(r)
    BY <1>1, <1>2, <1>13, ReplyLocal
<1>14. CASE Return(r)
    BY <1>1, <1>14 DEF Return, ServerType, limiterVars, LimiterKept
<1>15. CASE Panic(r)
    BY <1>1, <1>2, <1>15, PanicLocal
<1>16. CASE Abort(r)
    BY <1>1, <1>16, AbortLocal
<1> QED
    BY <1>4, <1>5, <1>6, <1>7, <1>8, <1>9, <1>10, <1>11, <1>12, <1>13, <1>14, <1>15, <1>16 DEF Serve

LEMMA StepPassed ==
    ASSUME ServerType, NEW r \in Request, Arrive(r) \/ Serve(r), in' = in,
           Placed(r), Asking(r), Passed(r)
    PROVE  Passed(r)'
<1> USE DEF IPRoutes, PaidRoutes, ProtectedRoutes
<1>1. ASSUME pos'[r] = pos[r], who' = who, decided \subseteq decided' PROVE Passed(r)'
    BY <1>1, Zenon DEF Passed
<1>2. \A s : Answers(r, s) => pos'[r] = pos[r]
    BY DEF Answers
<1>3. \A p : EntersAt(r, p) => pos'[r] = p
    BY DEF EntersAt
<1>4. pos[r] \in Nat /\ (LimiterKept(r) => decided' = decided)
    BY DEF ServerType, LimiterKept
<1>5. CASE Arrive(r)
    <2>1. CASE pos'[r] = 1
        BY <2>1 DEF Passed
    <2> QED
        BY <1>1, <1>2, <1>3, <1>4, <1>5, <2>1, ArriveLocal
<1>6. CASE AuthRequired(r)
    <2>1. in[r].route \in ProtectedRoutes /\ pos[r] = 1 /\ decided' = decided
        BY <1>4, <1>6, AuthLocal, AtPlace DEF Places
    <2>2. CASE /\ pos'[r] = pos[r] + 1
               /\ ExtractToken(in[r]).token \in {"valid", "revoked"}
               /\ who'[r] = [user |-> in[r].user, source |-> ExtractToken(in[r]).source]
        <3>1. pos'[r] = 2
            BY <2>1, <2>2
        <3> QED
            BY <2>1, <2>2, <3>1 DEF Passed
    <2> QED
        BY <1>1, <1>2, <1>3, <1>6, <2>1, <2>2, AuthLocal
<1>7. CASE Protect(r)
    <2>1. who' = who /\ decided' = decided /\ (At(r, "Csrf") \/ At(r, "CsrfOfCookies"))
        BY <1>4, <1>7, ProtectLocal
    <2>2. CASE pos'[r] = pos[r] + 1 /\ ~(CsrfApplies(r) /\ ~in[r].csrf) /\ At(r, "Csrf")
        <3>1. in[r].route \in ProtectedRoutes /\ pos[r] = 2 /\ pos'[r] = 3
            BY <2>2, AtPlace DEF Places
        <3>2. who[r] = [user |-> in[r].user, source |-> ExtractToken(in[r]).source]
            BY <3>1 DEF Passed
        <3>3. ASSUME in[r].route \in PaidRoutes, in[r].cookie # "none" PROVE in[r].csrf
            <4>1. who[r].source = "cookie"
                BY <3>2, <3>3 DEF ExtractToken
            <4>2. ~At(r, "CsrfOfCookies")
                BY <2>2 DEF At
            <4>3. CsrfApplies(r)
                BY <3>3, <4>1, <4>2 DEF CsrfApplies, Safe
            <4> QED
                BY <2>2, <4>3
        <3> QED
            BY <2>1, <3>1, <3>3 DEF Passed
    <2>3. CASE At(r, "CsrfOfCookies")
        <3>1. in[r].route \notin ProtectedRoutes
            BY <2>3, AtPlace DEF Places
        <3> QED
            BY <3>1 DEF Passed
    <2> QED
        BY <1>1, <1>2, <1>3, <1>7, <2>1, <2>2, <2>3, ProtectLocal
<1>8. CASE Validate(r)
    <2>1. who' = who /\ decided' = decided /\ At(r, "OpenAPI")
        BY <1>4, <1>8, ValidateLocal
    <2>2. CASE /\ pos'[r] = pos[r] + 1
               /\ in[r].route # "detect" => in[r].wellformed /\ in[r].body <= MaxBody
        <3>1. in[r].route \in ProtectedRoutes => pos[r] = 3
            BY <2>1, AtPlace DEF Places, ValidatorPlace
        <3>2. in[r].route \in ProtectedRoutes => pos'[r] = 4
            BY <2>2, <3>1
        <3> QED
            BY <2>1, <2>2, <3>1, <3>2 DEF Passed
    <2>3. CASE pos'[r] = pos[r]
        BY <1>1, <2>1, <2>3
    <2> QED
        BY <1>2, <1>3, <1>8, <2>2, <2>3, ValidateLocal
<1>9. CASE CallLimiter(r)
    BY <1>1, <1>9, CallLimiterLocal
<1>10. CASE LimiterAnswers(r)
    <2>1. PICK verdict \in {"allowed", "limited", "unavailable", "uncounted"} :
              /\ stage[r] = "asking" /\ decided' = decided \union {Decision(r, verdict)}
              /\ verdict = "uncounted" => in[r].route = "refresh"
              /\ (verdict \in {"allowed", "uncounted"} /\ pos'[r] = pos[r] + 1) \/ pos'[r] = pos[r]
              /\ who' = who
        BY <1>2, <1>3, <1>10, LimiterAnswersLocal
    <2>2. CASE pos'[r] = pos[r]
        BY <1>1, <2>1, <2>2
    <2>3. CASE verdict \in {"allowed", "uncounted"} /\ pos'[r] = pos[r] + 1
        <3>1. CASE in[r].route \in PaidRoutes
            <4>1. pos[r] = 4 /\ call[r].key = <<in[r].route, in[r].user>> /\ verdict = "allowed"
                BY <2>1, <2>3, <3>1 DEF Asking
            <4>2. Decision(r, verdict) \in decided'
                BY <2>1
            <4>3. /\ Decision(r, verdict).req = r /\ Decision(r, verdict).verdict = "allowed"
                  /\ Decision(r, verdict).key = <<in[r].route, in[r].user>>
                BY <4>1 DEF Decision
            <4>4. pos'[r] = 5
                BY <2>3, <4>1
            <4> QED
                BY <2>1, <3>1, <4>1, <4>2, <4>3, <4>4 DEF Passed
        <3>2. CASE in[r].route \notin PaidRoutes
            <4>1. in[r].route \notin ProtectedRoutes
                BY <2>1, <3>2 DEF Asking
            <4> QED
                BY <4>1 DEF Passed
        <3> QED
            BY <3>1, <3>2
    <2> QED
        BY <2>1, <2>2, <2>3
<1>11. CASE Handle(r)
    BY <1>1, <1>2, <1>4, <1>11, HandleLocal
<1>12. CASE CheckLogoRequest(r)
    <2>1. who' = who /\ decided' = decided /\ pos'[r] = pos[r]
        BY <1>2, <1>4, <1>12, CheckLogoLocal
    <2> QED
        BY <1>1, <2>1
<1>13. CASE Invoke(r)
    BY <1>1, <1>4, <1>13, InvokeLocal
<1>14. CASE Reply(r)
    BY <1>1, <1>2, <1>4, <1>14, ReplyLocal
<1>15. CASE Return(r)
    BY <1>1, <1>15 DEF Return, limiterVars
<1>16. CASE Panic(r)
    BY <1>1, <1>2, <1>4, <1>16, PanicLocal
<1>17. CASE Abort(r)
    BY <1>1, <1>4, <1>17, AbortLocal
<1> QED
    BY <1>5, <1>6, <1>7, <1>8, <1>9, <1>10, <1>11, <1>12, <1>13, <1>14, <1>15, <1>16, <1>17 DEF Serve

LEMMA StepCost ==
    ASSUME ServerType, NEW r \in Request, Arrive(r) \/ Serve(r), in' = in, Placed(r), Cost(r)
    PROVE  Cost(r)'
<1> USE DEF Done
<1>1. ASSUME NEW s, Answers(r, s), paid' = paid, r \notin paid, s # 413 PROVE Cost(r)'
    BY <1>1 DEF Answers, Cost
<1>2. ASSUME NEW p, EntersAt(r, p), paid' = paid, r \notin paid, status[r] = 0 PROVE Cost(r)'
    BY <1>2 DEF EntersAt, Cost
<1>3. stage[r] \in {"new", "chain", "asking", "handler", "call"} => r \notin paid /\ status[r] = 0
    BY DEF Cost, Placed
<1>4. CASE Arrive(r)
    BY <1>1, <1>2, <1>3, <1>4, ArriveLocal
<1>5. CASE AuthRequired(r)
    <2>1. At(r, "AuthRequired") /\ paid' = paid /\ (EntersAt(r, pos[r] + 1) \/ Answers(r, 401))
        BY <1>5, AuthLocal
    <2> QED
        BY <1>1, <1>2, <1>3, <2>1 DEF At
<1>6. CASE Protect(r)
    BY <1>1, <1>2, <1>3, <1>6, ProtectLocal DEF At
<1>7. CASE Validate(r)
    <2>1. stage[r] = "chain" /\ paid' = paid /\ r \notin paid
        BY <1>3, <1>7, ValidateLocal DEF At
    <2>2. CASE in[r].route # "detect" /\ in[r].body > MaxBody /\ Answers(r, 413)
        BY <2>1, <2>2 DEF Answers, Cost
    <2>3. CASE EntersAt(r, pos[r] + 1) \/ Answers(r, 400)
        BY <1>1, <1>2, <1>3, <2>1, <2>3
    <2> QED
        BY <1>7, <2>2, <2>3, ValidateLocal
<1>8. CASE CallLimiter(r)
    <2>1. /\ stage[r] = "chain" /\ stage'[r] = "asking" /\ pos'[r] = pos[r] /\ status'[r] = status[r]
          /\ paid' = paid
        BY <1>8, CallLimiterLocal DEF At
    <2> QED
        BY <1>3, <2>1 DEF Cost
<1>9. CASE LimiterAnswers(r)
    <2>1. /\ stage[r] = "asking" /\ paid' = paid
          /\ EntersAt(r, pos[r] + 1) \/ \E s \in {302, 429, 503} : Answers(r, s)
        BY <1>9, LimiterAnswersLocal
    <2> QED
        BY <1>1, <1>2, <1>3, <2>1
<1>10. CASE Handle(r)
    BY <1>1, <1>3, <1>10, HandleLocal
<1>11. CASE CheckLogoRequest(r)
    <2>1. stage[r] = "handler" /\ in[r].route \in PaidRoutes /\ paid' = paid /\ r \notin paid
        BY <1>3, <1>11, CheckLogoLocal
    <2>2. pos[r] > 4
        BY <2>1, PlacesInChain DEF Placed
    <2>3. CASE Answers(r, 400) \/ Answers(r, 500)
        BY <1>1, <2>1, <2>3
    <2>4. CASE Answers(r, 413) /\ in[r].route = "detect" /\ in[r].body > MaxImage
        BY <2>1, <2>4 DEF Answers, Cost
    <2>5. CASE /\ stage'[r] = "call" /\ UNCHANGED <<pos, status>>
               /\ IF in[r].route = "detect" THEN in[r].wellformed /\ in[r].image \in 1..MaxImage
                  ELSE in[r].name
        BY <1>3, <2>1, <2>2, <2>5 DEF Cost
    <2> QED
        BY <1>11, <2>3, <2>4, <2>5, CheckLogoLocal
<1>12. CASE Invoke(r)
    <2>1. stage[r] = "call" /\ stage'[r] = "reply" /\ pos' = pos /\ status' = status
        BY <1>12, InvokeLocal
    <2> QED
        BY <1>3, <2>1 DEF Cost
<1>13. CASE Reply(r)
    <2>1. PICK s \in {200, 502} : stage[r] = "reply" /\ Answers(r, s) /\ paid' = paid
        BY <1>13, ReplyLocal
    <2> QED
        BY <2>1 DEF Answers, Cost
<1>14. CASE Return(r)
    <2>1. stage[r] = "written" /\ stage'[r] = "closed" /\ UNCHANGED <<pos, status, paid>>
        BY <1>14 DEF Return, ServerType
    <2> QED
        BY <2>1 DEF Cost
<1>15. CASE Panic(r)
    <2>1. Answers(r, IF status[r] = 0 THEN 500 ELSE status[r]) /\ paid' = paid
        BY <1>15, PanicLocal
    <2> QED
        BY <2>1 DEF Answers, Cost
<1>16. CASE Abort(r)
    BY <1>16, AbortLocal DEF Cost
<1> QED
    BY <1>4, <1>5, <1>6, <1>7, <1>8, <1>9, <1>10, <1>11, <1>12, <1>13, <1>14, <1>15, <1>16 DEF Serve

LEMMA StepUnread ==
    ASSUME ServerType, NEW r \in Request, Arrive(r) \/ Serve(r), in' = in,
           Placed(r), Asking(r), Unread(r)
    PROVE  Unread(r)'
<1> USE DEF Done
<1> DEFINE place == ValidatorPlace(in[r].route)
           limit == IF in[r].route = "detect" THEN DetectBodyLimit ELSE MaxBody
           Early == stage[r] \in {"new", "chain", "asking"} /\ pos[r] <= place
           Refused(d) == /\ d.req = r /\ d.key[1] \in IPRoutes
                         /\ d.verdict \in {"limited", "unavailable"}
<1>1. /\ place \in Nat /\ place >= 2 /\ pos[r] \in Nat
    <2>1. place \in {2, 3}
        BY DEF ValidatorPlace
    <2>2. pos[r] \in Nat
        BY DEF ServerType
    <2> QED
        BY <2>1, <2>2
<1>2. read[r] \in Nat /\ MaxBody \in Nat /\ in[r].body \in Nat /\ DetectBodyLimit \in Nat
    <2>1. read[r] \in Nat
        BY DEF ServerType
    <2>2. MaxBody \in Nat /\ in[r].body \in Nat
        BY ServerConstants DEF ServerType
    <2>3. DetectBodyLimit \in Nat
        BY LogoConstants DEF DetectBodyLimit
    <2> QED
        BY <2>1, <2>2, <2>3
<1>3. Early => read[r] = 0
    BY DEF Unread
<1>4. stage[r] \notin Done => \A d \in decided : ~Refused(d)
    BY DEF Unread
<1>5. read[r] <= limit
    BY DEF Unread
<1>6. ASSUME stage'[r] \in {"new", "chain", "asking"} /\ pos'[r] <= place => read'[r] = 0,
             status'[r] \in {401, 403} => read'[r] = 0,
             \A d \in decided' : Refused(d) => stage'[r] \in Done /\ read'[r] = 0,
             read'[r] <= limit
      PROVE  Unread(r)'
    BY <1>6 DEF Unread
<1> HIDE DEF place, limit, Early, Refused
<1>7. ASSUME NEW s, Answers(r, s), decided' = decided, stage[r] \notin Done,
             s \in {401, 403} => read'[r] = 0, read'[r] <= limit
      PROVE  Unread(r)'
    BY <1>4, <1>6, <1>7 DEF Answers
<1>8. ASSUME NEW p \in Nat, EntersAt(r, p), decided' = decided, stage[r] \notin Done, status[r] = 0,
             p <= place => read'[r] = 0, read'[r] <= limit
      PROVE  Unread(r)'
    BY <1>4, <1>6, <1>8 DEF EntersAt
<1>9. stage[r] \notin Done => status[r] = 0
    BY DEF Placed
<1>10. LimiterKept(r) => decided' = decided
    BY DEF LimiterKept
<1>11. CASE Arrive(r)
    <2>1. /\ stage[r] = "new" /\ read' = read /\ decided' = decided
          /\ Answers(r, 200) \/ EntersAt(r, 1)
        BY <1>10, <1>11, ArriveLocal
    <2>2. Early
        BY <1>1, <2>1 DEF Early, Placed
    <2> QED
        BY <1>3, <1>5, <1>7, <1>8, <1>9, <2>1, <2>2
<1>12. CASE AuthRequired(r)
    <2>1. /\ At(r, "AuthRequired") /\ read' = read /\ decided' = decided
          /\ Answers(r, 401) \/ EntersAt(r, pos[r] + 1)
        BY <1>10, <1>12, AuthLocal
    <2>2. stage[r] = "chain" /\ pos[r] = 1
        BY <2>1, AtPlace DEF Places
    <2>3. Early
        BY <1>1, <2>2 DEF Early
    <2> QED
        BY <1>1, <1>3, <1>5, <1>7, <1>8, <1>9, <2>1, <2>2, <2>3
<1>13. CASE Protect(r)
    <2>1. /\ At(r, "Csrf") \/ At(r, "CsrfOfCookies")
          /\ read' = read /\ decided' = decided
          /\ Answers(r, 403) \/ EntersAt(r, pos[r] + 1)
        BY <1>10, <1>13, ProtectLocal
    <2>2. stage[r] = "chain" /\ pos[r] <= place
        BY <1>1, <2>1, AtPlace DEF Places, place
    <2>3. Early
        BY <2>2 DEF Early
    <2> QED
        BY <1>1, <1>3, <1>5, <1>7, <1>8, <1>9, <2>1, <2>2, <2>3
<1>14. CASE Validate(r)
    <2>1. stage[r] = "chain" /\ pos[r] = place /\ decided' = decided
        BY <1>10, <1>14, ValidateLocal, AtPlace DEF Places, place
    <2>2. CASE in[r].route = "detect" /\ EntersAt(r, pos[r] + 1) /\ UNCHANGED read
        BY <1>1, <1>5, <1>8, <1>9, <2>1, <2>2
    <2>3. CASE in[r].route # "detect" /\ read'[r] \in {0, MaxBody} /\ Answers(r, 413)
        BY <1>2, <1>7, <2>1, <2>3 DEF limit
    <2>4. CASE /\ in[r].route # "detect" /\ in[r].body <= MaxBody /\ read'[r] = in[r].body
               /\ EntersAt(r, pos[r] + 1) \/ Answers(r, 400)
        BY <1>1, <1>2, <1>7, <1>8, <1>9, <2>1, <2>4 DEF limit
    <2> QED
        BY <1>14, <2>2, <2>3, <2>4, ValidateLocal
<1>15. CASE CallLimiter(r)
    <2>1. /\ stage[r] = "chain" /\ stage'[r] = "asking" /\ UNCHANGED <<pos, read, status, decided>>
        BY <1>15, CallLimiterLocal DEF At
    <2> QED
        BY <1>3, <1>4, <1>5, <1>6, <1>9, <2>1 DEF Early
<1>16. CASE LimiterAnswers(r)
    <2>1. PICK verdict \in {"allowed", "limited", "unavailable", "uncounted"} :
              /\ stage[r] = "asking" /\ decided' = decided \union {Decision(r, verdict)}
              /\ \/ verdict \in {"allowed", "uncounted"} /\ EntersAt(r, pos[r] + 1)
                 \/ /\ verdict \notin {"allowed", "uncounted"}
                    /\ \E s \in {302, 429, 503} : Answers(r, s)
              /\ read' = read
        BY <1>16, LimiterAnswersLocal
    <2>2. Decision(r, verdict).key = call[r].key /\ Decision(r, verdict).verdict = verdict
        BY DEF Decision
    <2>3. call[r].key[1] \in IPRoutes => pos[r] = 1
        BY <2>1 DEF Asking, IPRoutes, PaidRoutes
    <2>4. Refused(Decision(r, verdict)) => verdict \in {"limited", "unavailable"} /\ read[r] = 0
        BY <1>1, <1>3, <2>1, <2>2, <2>3 DEF Refused, Early
    <2>5. CASE verdict \in {"allowed", "uncounted"} /\ EntersAt(r, pos[r] + 1)
        <3>1. \A d \in decided' : ~Refused(d)
            BY <1>4, <2>1, <2>4, <2>5
        <3>2. status'[r] = 0 /\ pos'[r] = pos[r] + 1 /\ (pos'[r] <= place => read'[r] = 0)
            BY <1>1, <1>3, <1>9, <2>1, <2>5 DEF EntersAt, Early
        <3> QED
            BY <1>5, <1>6, <2>1, <3>1, <3>2
    <2>6. CASE \E s \in {302, 429, 503} : Answers(r, s)
        <3>1. stage'[r] = "written" /\ status'[r] \in {302, 429, 503}
            BY <2>6 DEF Answers
        <3>2. \A d \in decided' : Refused(d) => read[r] = 0
            BY <1>4, <2>1, <2>4
        <3> QED
            BY <1>5, <1>6, <2>1, <3>1, <3>2
    <2> QED
        BY <2>1, <2>5, <2>6
<1>17. CASE Handle(r)
    <2>1. PICK s \in {200, 404, 500} : Answers(r, s)
        BY <1>17, HandleLocal
    <2>2. stage[r] = "handler" /\ read' = read /\ decided' = decided
        BY <1>10, <1>17, HandleLocal
    <2> QED
        BY <1>5, <1>7, <2>1, <2>2
<1>18. CASE CheckLogoRequest(r)
    <2>1. stage[r] = "handler" /\ decided' = decided
        BY <1>10, <1>18, CheckLogoLocal
    <2>2. read'[r] <= limit
        <3>1. Minimum(in[r].body, DetectBodyLimit) <= DetectBodyLimit
            BY <1>2 DEF Minimum
        <3> QED
            BY <1>5, <1>18, <3>1, CheckLogoLocal DEF limit
    <2>3. CASE Answers(r, 400) \/ Answers(r, 413) \/ Answers(r, 500)
        BY <1>7, <2>1, <2>2, <2>3
    <2>4. CASE stage'[r] = "call" /\ UNCHANGED <<pos, status>>
        BY <1>4, <1>6, <1>9, <2>1, <2>2, <2>4
    <2> QED
        BY <1>18, <2>3, <2>4, CheckLogoLocal
<1>19. CASE Invoke(r)
    <2>1. stage[r] = "call" /\ stage'[r] = "reply" /\ UNCHANGED <<read, status>> /\ decided' = decided
        BY <1>10, <1>19, InvokeLocal
    <2> QED
        BY <1>4, <1>5, <1>6, <1>9, <2>1
<1>20. CASE Reply(r)
    <2>1. PICK s \in {200, 502} : Answers(r, s)
        BY <1>20, ReplyLocal
    <2>2. stage[r] = "reply" /\ read' = read /\ decided' = decided
        BY <1>10, <1>20, ReplyLocal
    <2> QED
        BY <1>5, <1>7, <2>1, <2>2
<1>21. CASE Return(r)
    <2>1. stage'[r] = "closed" /\ UNCHANGED <<read, status, decided>>
        BY <1>21 DEF Return, ServerType, limiterVars
    <2> QED
        BY <2>1 DEF Unread
<1>22. CASE Panic(r)
    <2>1. stage'[r] = "written" /\ status'[r] \in {status[r], 500} /\ UNCHANGED read /\ decided' = decided
        BY <1>10, <1>22, PanicLocal DEF Answers
    <2> QED
        BY <2>1 DEF Unread
<1>23. CASE Abort(r)
    <2>1. stage'[r] = "aborted" /\ UNCHANGED <<read, status>> /\ decided' = decided
        BY <1>10, <1>23, AbortLocal
    <2> QED
        BY <2>1 DEF Unread
<1> QED
    BY <1>11, <1>12, <1>13, <1>14, <1>15, <1>16, <1>17, <1>18, <1>19, <1>20, <1>21, <1>22, <1>23
       DEF Serve

Known(r) == Placed(r) /\ Logged(r) /\ Asking(r) /\ Passed(r) /\ Cost(r) /\ Unread(r)

LEMMA OnlyMore == [Next]_vars => decided \subseteq decided'
<1> USE DEF limiterVars
<1>1. ASSUME NEW r \in Request, Serve(r) PROVE decided \subseteq decided'
    <2>1. CASE CallLimiter(r)
        BY <2>1 DEF CallLimiter, Ask
    <2>2. CASE LimiterAnswers(r)
        BY <2>2 DEF LimiterAnswers, Check, CheckFails, Decide
    <2> QED
        BY <1>1, <2>1, <2>2 DEF Serve, AuthRequired, Protect, Validate, Handle, CheckLogoRequest,
                                Invoke, Reply, Return, Panic, Abort
<1> QED
    BY <1>1 DEF Next, vars, Tick, Arrive, LimiterRetries, Resend

LEMMA NextServerInv == ServerInv /\ [Next]_vars => ServerInv'
<1> SUFFICES ASSUME ServerInv, [Next]_vars PROVE ServerInv'
    OBVIOUS
<1>1. in' = in /\ decided \subseteq decided'
    BY InputsStay, OnlyMore
<1>2. ServerType /\ \A q \in Request : Known(q)
    BY DEF ServerInv, Known
<1>3. ASSUME NEW r \in Request, Arrive(r) \/ Serve(r) PROVE ServerInv'
    <2>1. ServerType'
        BY <1>1, <1>2, <1>3, StepType
    <2>2. Known(r)'
        <3>1. Known(r)
            BY <1>2
        <3>2. Placed(r)' /\ Logged(r)'
            BY <1>1, <1>2, <1>3, <3>1, StepPlaced DEF Known
        <3>3. Asking(r)' /\ Passed(r)'
            BY <1>1, <1>2, <1>3, <3>1, StepAsking, StepPassed DEF Known
        <3>4. Cost(r)' /\ Unread(r)'
            BY <1>1, <1>2, <1>3, <3>1, StepCost, StepUnread DEF Known
        <3> QED
            BY <3>2, <3>3, <3>4 DEF Known
    <2>3. ASSUME NEW q \in Request, q # r PROVE Known(q)'
        <3>1. Same(q) /\ \A d \in decided' : d.req = q => d \in decided
            BY <1>2, <1>3, <2>3, OthersStay
        <3> QED
            BY <1>1, <1>2, <3>1, SamePreserves DEF Known
    <2> QED
        BY <2>1, <2>2, <2>3 DEF ServerInv, Known
<1>4. ASSUME UNCHANGED serverVars, UNCHANGED <<call, decided>> PROVE ServerInv'
    <2>1. ServerType'
        BY <1>2, <1>4 DEF ServerType, serverVars
    <2>2. ASSUME NEW q \in Request PROVE Known(q)'
        <3>1. Same(q)
            BY <1>4 DEF Same, serverVars
        <3> QED
            BY <1>1, <1>2, <1>4, <3>1, SamePreserves DEF Known
    <2> QED
        BY <2>1, <2>2 DEF ServerInv, Known
<1>5. CASE UNCHANGED vars
    BY <1>4, <1>5 DEF vars, limiterVars
<1>6. CASE Tick /\ UNCHANGED serverVars
    BY <1>4, <1>6 DEF Tick
<1>7. ASSUME NEW r \in Request, LimiterRetries(r) PROVE ServerInv'
    BY <1>4, <1>7 DEF LimiterRetries, Resend
<1> QED
    BY <1>3, <1>5, <1>6, <1>7 DEF Next

\* ServerInv is an invariant of the server.
THEOREM ServerInvariance == Spec => []ServerInv
<1>1. Init => ServerInv
    BY InitServerInv
<1>2. ServerInv /\ [Next]_vars => ServerInv'
    BY NextServerInv
<1> QED
    BY <1>1, <1>2, PTL DEF Spec

\* However requests end, refused, answered or by a panic that Recover catches, each
\* leaves the one access-log record that it should (AccessLog, Recover, RealIP).
THEOREM EveryAnswerLogged == Spec => []AnswersAreLogged
<1>1. ServerInv => AnswersAreLogged
    BY DEF ServerInv, Logged, AnswersAreLogged
<1> QED
    BY <1>1, ServerInvariance, PTL

\* The chains that NewRouter composes refuse before they read, and bound what they
\* read (ByIP, AuthRequired, Protect, openapivalidate.New, DetectLogos).
THEOREM RefusalsAreFree == Spec => []RefusedUnread
<1>1. ServerInv => RefusedUnread
    <2> SUFFICES ASSUME ServerInv, NEW r \in Request
                 PROVE  /\ status[r] \in {401, 403} => read[r] = 0
                        /\ (\E d \in decided : /\ d.req = r /\ ByIPRoute(d.key[1])
                                               /\ d.verdict \in {"limited", "unavailable"}) =>
                              read[r] = 0
                        /\ read[r] <= IF in[r].route = "detect" THEN DetectBodyLimit ELSE MaxBody
        BY DEF RefusedUnread
    <2>1. Unread(r)
        BY DEF ServerInv
    <2>2. \A route : ByIPRoute(route) <=> route \in IPRoutes
        BY WhoseLimit
    <2> QED
        BY <2>1, <2>2 DEF Unread
<1> QED
    BY <1>1, ServerInvariance, PTL

\* No provider is called for a request that AuthRequired, Protect, the validator,
\* ByUserID or the handler's own checks would refuse.
THEOREM ChargedCalls == Spec => []PaidCallIsCharged
<1>1. ServerInv => PaidCallIsCharged
    <2> SUFFICES ASSUME ServerInv PROVE PaidCallIsCharged
        OBVIOUS
    <2>1. ASSUME NEW r \in paid
          PROVE  /\ ExtractToken(in[r]).token \in {"valid", "revoked"}
                 /\ in[r].cookie # "none" => in[r].csrf
                 /\ \E d \in decided : /\ d.req = r /\ d.verdict = "allowed"
                                       /\ d.key = <<in[r].route, in[r].user>>
                 /\ in[r].wellformed
                 /\ IF in[r].route = "detect" THEN in[r].image \in 1..MaxImage
                    ELSE in[r].body <= MaxBody /\ in[r].name
                 /\ status[r] \in {0, 200, 500, 502}
        <3>1. r \in Request
            BY DEF ServerInv, ServerType
        <3>2. Passed(r) /\ Cost(r) /\ pos[r] \in Nat
            BY <3>1 DEF ServerInv, ServerType
        <3>3. in[r].route \in PaidRoutes /\ pos[r] > 4
            BY <3>2 DEF Cost
        <3>4. pos[r] > 1 /\ pos[r] > 2 /\ pos[r] > 3 /\ in[r].route \in ProtectedRoutes
            BY <3>2, <3>3 DEF PaidRoutes, ProtectedRoutes
        <3>5. in[r].route = "detect" \/ in[r].route = "analyze"
            BY <3>3 DEF PaidRoutes
        <3> QED
            BY <3>2, <3>3, <3>4, <3>5 DEF Passed, Cost
    <2>2. \A r \in Request :
              status[r] = 413 => IF in[r].route = "detect" THEN in[r].body > MaxImage
                                 ELSE in[r].body > MaxBody
        BY DEF ServerInv, Cost
    <2> QED
        BY <2>1, <2>2 DEF PaidCallIsCharged
<1> QED
    BY <1>1, ServerInvariance, PTL

-----------------------------------------------------------------------------
(* The window *)

LEMMA SubjectIs ==
    ASSUME NEW d
    PROVE  /\ d.key[1] = "email" => Subject(d) = in[d.req].email[1]
           /\ d.key[1] \in IPRoutes => Subject(d) = in[d.req].peer
           /\ d.key[1] \in PaidRoutes => Subject(d) = in[d.req].user
<1> DEFINE p == d.key[1]
<1>1. ByIPRoute(p) <=> p \in IPRoutes
    BY WhoseLimit
<1>2. CASE p = "email"
    BY <1>1, <1>2 DEF Subject, IPRoutes, PaidRoutes
<1>3. CASE p \in IPRoutes
    <2>1. p # "email" /\ p \notin PaidRoutes
        BY <1>3 DEF IPRoutes, PaidRoutes
    <2> QED
        BY <1>1, <1>3, <2>1 DEF Subject
<1>4. CASE p \in PaidRoutes
    <2>1. p # "email" /\ p \notin IPRoutes
        BY <1>4 DEF IPRoutes, PaidRoutes
    <2> QED
        BY <1>1, <1>4, <2>1 DEF Subject
<1> QED
    BY <1>2, <1>3, <1>4

\* What the limiter does in a step of r.
Quiet == UNCHANGED limiterVars
Asked(r) ==
    /\ \E k \in Key : call' = [call EXCEPT ![r] = [key |-> k, now |-> clock]]
    /\ UNCHANGED <<clock, zset, expireAt, decided, lost>>
Decided(r, verdict) ==
    /\ stage[r] = "asking" /\ call[r] # NoCall
    /\ decided' = decided \union {Decision(r, verdict)}
    /\ call' = [call EXCEPT ![r] = NoCall] /\ UNCHANGED <<clock, lost>>
    /\ verdict \in {"allowed", "uncounted"} => pos'[r] = pos[r] + 1
    /\ verdict \notin {"allowed", "uncounted"} => stage'[r] = "written"
    /\ \/ verdict = (IF Room(r) THEN "allowed" ELSE "limited") /\ Script(r)
       \/ verdict \in {"unavailable", "uncounted"} /\ (UNCHANGED <<zset, expireAt>> \/ Script(r))

\* What it does when the client tries again.
Attempt(r) == [req |-> r, key |-> call[r].key, now |-> call[r].now, at |-> clock]
Resent(r) ==
    /\ stage[r] = "asking" /\ call[r] # NoCall /\ Script(r)
    /\ lost' = lost \union (IF Room(r) THEN {Attempt(r)} ELSE {})
    /\ UNCHANGED <<clock, call, decided, serverVars>>

LEMMA RetryIs == ASSUME NEW r \in Request, LimiterRetries(r) PROVE Resent(r)
BY DEF LimiterRetries, Resend, Resent, Attempt

LEMMA LimiterStep ==
    ASSUME ServerInv, NEW r \in Request, Arrive(r) \/ Serve(r), ServerInv'
    PROVE  Quiet \/ Asked(r) \/ \E verdict : Decided(r, verdict)
<1>1. CASE CallLimiter(r)
    <2>1. ServerType /\ stage'[r] = "asking"
        BY <1>1, CallLimiterLocal DEF ServerInv
    <2>2. call'[r].key \in Key
        BY <2>1 DEF ServerInv, Asking
    <2>3. PICK k : call' = [call EXCEPT ![r] = [key |-> k, now |-> clock]]
        BY <1>1 DEF CallLimiter, Ask
    <2>4. call'[r].key = k
        BY <2>1, <2>3 DEF ServerType
    <2> QED
        BY <1>1, <2>2, <2>3, <2>4 DEF CallLimiter, Ask, Asked
<1>2. CASE LimiterAnswers(r)
    <2>1. ServerType
        BY DEF ServerInv
    <2>2. PICK verdict \in {"allowed", "limited", "unavailable", "uncounted"} :
              /\ stage[r] = "asking" /\ call[r] # NoCall
              /\ decided' = decided \union {Decision(r, verdict)}
              /\ call' = [call EXCEPT ![r] = NoCall] /\ clock' = clock
              /\ \/ verdict \in {"allowed", "uncounted"} /\ EntersAt(r, pos[r] + 1)
                 \/ /\ verdict \notin {"allowed", "uncounted"}
                    /\ \E s \in {302, 429, 503} : Answers(r, s)
              /\ \/ verdict = (IF Room(r) THEN "allowed" ELSE "limited") /\ Script(r)
                 \/ verdict \in {"unavailable", "uncounted"} /\ (UNCHANGED <<zset, expireAt>> \/ Script(r))
        BY <1>2, <2>1, LimiterAnswersLocal
    <2>3. lost' = lost
        BY <1>2 DEF LimiterAnswers, Check, CheckFails
    <2>4. Decided(r, verdict)
        BY <2>2, <2>3 DEF Decided, EntersAt, Answers
    <2> QED
        BY <2>4
<1>3. CASE ~CallLimiter(r) /\ ~LimiterAnswers(r)
    BY <1>3 DEF Quiet, Serve, Arrive, AuthRequired, Protect, Validate, Handle, CheckLogoRequest,
                Invoke, Reply, Return, Panic, Abort
<1> QED
    BY <1>1, <1>2, <1>3

\* A record of what came of the running call of r.
LEMMA RecordIs ==
    ASSUME ServerInv, WindowInv, NEW r \in Request, stage[r] = "asking", call[r] # NoCall,
           NEW f, f.req = r, f.key = call[r].key, f.now = call[r].now, f.at = clock
    PROVE  /\ f.key \in Key /\ f.now \in Nat /\ f.now <= clock /\ clock - f.now <= MaxDelay
           /\ f.key = <<f.key[1], Subject(f)>>
           /\ \A d \in decided : ~(d.req = r /\ d.key = f.key)
<1>1. f.req = r /\ f.key = call[r].key /\ f.now = call[r].now /\ f.at = clock
    OBVIOUS
<1>2. /\ f.key \in Key /\ f.now \in Nat /\ f.now <= clock /\ clock - f.now <= MaxDelay
    BY <1>1 DEF WindowInv, LimiterType, CallTimes
<1>3. Asking(r) /\ stage[r] = "asking"
    BY DEF ServerInv
<1>4. CASE in[r].route \in IPRoutes /\ pos[r] = 1 /\ call[r].key = <<in[r].route, in[r].peer>>
    <2>1. f.key[1] = in[r].route /\ f.key[1] \in IPRoutes
        BY <1>1, <1>4
    <2>2. Subject(f) = in[r].peer
        BY <1>1, <2>1, SubjectIs
    <2>3. \A d \in decided : d.req # r
        BY <1>3, <1>4 DEF WindowInv, FirstDecision
    <2> QED
        BY <1>1, <1>2, <1>4, <2>1, <2>2, <2>3
<1>5. CASE in[r].route = "login" /\ pos[r] = 3 /\ call[r].key = <<"email", in[r].email[1]>>
    <2>1. f.key[1] = "email"
        BY <1>1, <1>5
    <2>2. Subject(f) = in[r].email[1]
        BY <1>1, <2>1, SubjectIs
    <2>3. \A d \in decided : d.req = r => d.key[1] = "login"
        BY <1>3, <1>5 DEF WindowInv, FirstDecision
    <2>4. \A d \in decided : ~(d.req = r /\ d.key = f.key)
        BY <2>1, <2>3
    <2> QED
        BY <1>1, <1>2, <1>5, <2>1, <2>2, <2>4
<1>6. CASE in[r].route \in PaidRoutes /\ pos[r] = 4 /\ call[r].key = <<in[r].route, in[r].user>>
    <2>1. f.key[1] = in[r].route /\ f.key[1] \in PaidRoutes
        BY <1>1, <1>6
    <2>2. Subject(f) = in[r].user
        BY <1>1, <2>1, SubjectIs
    <2>3. \A d \in decided : d.req # r
        BY <1>3, <1>6 DEF WindowInv, FirstDecision, PaidRoutes, IPRoutes
    <2> QED
        BY <1>1, <1>2, <1>6, <2>1, <2>2, <2>3
<1> QED
    BY <1>3, <1>4, <1>5, <1>6 DEF Asking

\* A decision of r, and the call that it answers.
LEMMA DecisionIs ==
    ASSUME ServerInv, WindowInv, NEW r \in Request, NEW verdict, Decided(r, verdict)
    PROVE  LET f == Decision(r, verdict)
           IN  /\ f.req = r /\ f.key = call[r].key /\ f.now = call[r].now /\ f.at = clock
               /\ f.verdict = verdict
               /\ f.key \in Key /\ f.now \in Nat /\ f.now <= clock /\ clock - f.now <= MaxDelay
               /\ f.key = <<f.key[1], Subject(f)>>
               /\ \A d \in decided : ~(d.req = r /\ d.key = f.key)
<1> DEFINE f == Decision(r, verdict)
<1>1. /\ f.req = r /\ f.key = call[r].key /\ f.now = call[r].now /\ f.at = clock
      /\ f.verdict = verdict
    BY DEF Decision
<1> HIDE DEF f
<1>2. stage[r] = "asking" /\ call[r] # NoCall
    BY DEF Decided
<1>3. /\ f.key \in Key /\ f.now \in Nat /\ f.now <= clock /\ clock - f.now <= MaxDelay
      /\ f.key = <<f.key[1], Subject(f)>>
      /\ \A d \in decided : ~(d.req = r /\ d.key = f.key)
    BY <1>1, <1>2, RecordIs
<1> QED
    BY <1>1, <1>3 DEF f

Going == {"new", "chain", "asking"}

LEMMA Advances ==
    ASSUME ServerInv, NEW r \in Request, Arrive(r) \/ Serve(r), stage'[r] \in Going
    PROVE  \/ stage[r] = "new" /\ pos[r] = 1
           \/ stage[r] \in Going /\ pos'[r] \in {pos[r], pos[r] + 1}
<1>1. ServerType /\ Placed(r)
    BY DEF ServerInv
<1> USE DEF Going, Answers, EntersAt, At
<1>2. CASE Arrive(r)
    BY <1>1, <1>2, ArriveLocal DEF Placed
<1>3. CASE AuthRequired(r)
    BY <1>1, <1>3, AuthLocal
<1>4. CASE Protect(r)
    BY <1>1, <1>4, ProtectLocal
<1>5. CASE Validate(r)
    BY <1>1, <1>5, ValidateLocal
<1>6. CASE CallLimiter(r)
    BY <1>1, <1>6, CallLimiterLocal
<1>7. CASE LimiterAnswers(r)
    BY <1>1, <1>7, LimiterAnswersLocal
<1>8. CASE Handle(r)
    BY <1>1, <1>8, HandleLocal
<1>9. CASE CheckLogoRequest(r)
    BY <1>1, <1>9, CheckLogoLocal
<1>10. CASE Invoke(r)
    BY <1>1, <1>10, InvokeLocal
<1>11. CASE Reply(r)
    BY <1>1, <1>11, ReplyLocal
<1>12. CASE Return(r)
    BY <1>1, <1>12 DEF Return, ServerType
<1>13. CASE Panic(r)
    BY <1>1, <1>13, PanicLocal
<1>14. CASE Abort(r)
    BY <1>1, <1>14, AbortLocal
<1> QED
    BY <1>2, <1>3, <1>4, <1>5, <1>6, <1>7, <1>8, <1>9, <1>10, <1>11, <1>12, <1>13, <1>14 DEF Serve

LEMMA StepFirstDecision ==
    ASSUME ServerInv, WindowInv, NEW r \in Request, Arrive(r) \/ Serve(r), ServerInv', in' = in,
           Quiet \/ Asked(r) \/ \E verdict : Decided(r, verdict)
    PROVE  FirstDecision'
<1> USE DEF Going
<1> DEFINE First(d) == pos[d.req] > 1 /\ in[d.req].route \in IPRoutes /\ d.key[1] = in[d.req].route
<1>1. ServerType /\ ServerType'
    BY DEF ServerInv
<1>2. ASSUME NEW d \in decided, stage'[d.req] \in Going PROVE First(d)'
    <2>1. d.req \in Request
        BY DEF WindowInv, LimiterType
    <2>2. CASE d.req = r
        <3>1. stage[r] \in Going => First(d)
            BY <2>2 DEF WindowInv, FirstDecision
        <3>2. /\ pos[r] \in Nat
              /\ \/ stage[r] = "new" /\ pos[r] = 1
                 \/ stage[r] \in Going /\ pos'[r] \in {pos[r], pos[r] + 1}
            BY <1>1, <1>2, <2>2, Advances DEF ServerType
        <3> QED
            BY <2>2, <3>1, <3>2
    <2>3. CASE d.req # r
        <3>1. Same(d.req)
            BY <1>1, <2>1, <2>3, OthersStay
        <3> QED
            BY <1>2, <3>1 DEF Same, WindowInv, FirstDecision
    <2> QED
        BY <2>2, <2>3
<1>3. ASSUME NEW verdict, Decided(r, verdict), stage'[r] \in Going, NEW f, f = Decision(r, verdict)
      PROVE  First(f)'
    <2>1. f.req = r /\ f.key = call[r].key
        BY <1>3 DEF Decision
    <2>2. pos'[r] = pos[r] + 1 /\ pos[r] \in Nat
        BY <1>1, <1>3 DEF Decided, ServerType
    <2>3. Placed(r)' /\ Asking(r) /\ stage[r] = "asking"
        BY <1>3 DEF ServerInv, Decided
    <2>4. pos'[r] <= Len(Chain(in[r].route))
        <3>1. stage'[r] # "new"
            BY <2>2, <2>3, <1>1 DEF Placed, ServerType
        <3> QED
            BY <1>3, <2>3, <3>1 DEF Placed
    <2>5. in[r].route = "login" => Len(Chain(in[r].route)) = 3
        BY ChainIs
    <2>6. in[r].route \in PaidRoutes => Len(Chain(in[r].route)) = 4
        BY PlacesInChain
    <2>7. ~(in[r].route = "login" /\ pos[r] = 3) /\ ~(in[r].route \in PaidRoutes /\ pos[r] = 4)
        <3>1. ASSUME pos[r] = 3, in[r].route = "login" PROVE FALSE
            <4>1. Len(Chain(in[r].route)) = 3 /\ pos'[r] = 4
                BY <2>2, <2>5, <3>1
            <4> QED
                BY <2>4, <4>1
        <3>2. ASSUME pos[r] = 4, in[r].route \in PaidRoutes PROVE FALSE
            <4>1. Len(Chain(in[r].route)) = 4 /\ pos'[r] = 5
                BY <2>2, <2>6, <3>2
            <4> QED
                BY <2>4, <4>1
        <3> QED
            BY <3>1, <3>2
    <2>8. in[r].route \in IPRoutes /\ pos[r] = 1 /\ call[r].key = <<in[r].route, in[r].peer>>
        BY <2>3, <2>7, Zenon DEF Asking
    <2> QED
        BY <2>1, <2>2, <2>8
<1>4. CASE Quiet \/ Asked(r)
    BY <1>2, <1>4 DEF FirstDecision, Quiet, Asked, limiterVars
<1>5. ASSUME NEW verdict, Decided(r, verdict) PROVE FirstDecision'
    <2>1. Decision(r, verdict).req = r /\ decided' = decided \union {Decision(r, verdict)}
        BY <1>5 DEF Decision, Decided
    <2>2. ASSUME NEW d \in decided', stage'[d.req] \in Going PROVE First(d)'
        <3>1. CASE d \in decided
            BY <1>2, <2>2, <3>1
        <3>2. CASE d = Decision(r, verdict)
            <4>1. d.req = r
                BY <2>1, <3>2
            <4>2. stage'[r] \in Going
                BY <2>2, <4>1
            <4> HIDE DEF First
            <4> QED
                BY <1>3, <1>5, <3>2, <4>2
        <3> QED
            BY <2>1, <3>1, <3>2
    <2> QED
        BY <2>2 DEF FirstDecision
<1> QED
    BY <1>4, <1>5

\* What the script leaves of a key's entries, whether there is room or not.
LEMMA Scripted ==
    ASSUME WindowInv, NEW r \in Request, call[r] # NoCall
    PROVE  /\ call[r].key \in Key /\ call[r].now \in Nat /\ call[r].now <= clock
           /\ Trimmed(r) \subseteq zset[call[r].key]
           /\ zset[call[r].key] \subseteq [req : Request, now : Nat]
           /\ Added(r) \subseteq [req : Request, now : Nat]
           /\ IsFiniteSet(Trimmed(r)) /\ IsFiniteSet(Added(r))
           /\ \A x \in zset[call[r].key] : x.now > clock - Window => x \in Trimmed(r)
<1>1. call[r].key \in Key /\ call[r].now \in Nat /\ call[r].now <= clock /\ clock \in Nat
    BY DEF WindowInv, LimiterType, CallTimes
<1>2. Trimmed(r) \subseteq zset[call[r].key]
    BY DEF Trimmed
<1>3. zset[call[r].key] \subseteq [req : Request, now : Nat] /\ IsFiniteSet(zset[call[r].key])
    BY <1>1 DEF WindowInv, LimiterType
<1>4. IsFiniteSet(Trimmed(r))
    BY <1>2, <1>3, FS_Subset
<1>5. IsFiniteSet(Added(r))
    BY <1>4, FS_AddElement DEF Added
<1>6. Added(r) \subseteq [req : Request, now : Nat]
    BY <1>1, <1>2, <1>3 DEF Added
<1>7. \A x \in zset[call[r].key] : x.now > clock - Window => x \in Trimmed(r)
    <2> SUFFICES ASSUME NEW x \in zset[call[r].key], x.now > clock - Window
                 PROVE  x.now > call[r].now - Window
        BY DEF Trimmed
    <2>1. x.now \in Nat /\ Window \in Nat
        BY <1>3, LimiterConstants
    <2> QED
        BY <1>1, <2>1
<1> QED
    BY <1>1, <1>2, <1>3, <1>4, <1>5, <1>6, <1>7

LEMMA SubjectsStay == in' = in => \A d : Subject(d)' = Subject(d)
BY DEF Subject

LEMMA InitWindowInv == Init => WindowInv
<1> SUFFICES ASSUME Init PROVE WindowInv
    OBVIOUS
<1> USE DEF Init, LimiterInit
<1>1. LimiterType
    <2>1. zset \in [Key -> SUBSET [req : Request, now : Nat]] /\ expireAt \in [Key -> Nat]
        OBVIOUS
    <2>2. IsFiniteSet({})
        BY FS_EmptySet
    <2> QED
        BY <2>1, <2>2 DEF LimiterType, CallTimes
<1>2. OwnKey /\ Once /\ FirstDecision /\ StillThere /\ Covered /\ Counted
    BY DEF Charges, OwnKey, Once, FirstDecision, StillThere, Covered, Counted
<1> QED
    BY <1>1, <1>2 DEF WindowInv

LEMMA TickWindow ==
    ASSUME WindowInv, Tick, UNCHANGED <<in, stage, pos>>
    PROVE  WindowInv'
<1> USE LimiterConstants DEF WindowInv
<1>1. clock \in Nat /\ clock' = clock + 1 /\ UNCHANGED <<call, expireAt, decided, lost>>
    BY DEF Tick, LimiterType
<1>2. \A k \in Key : /\ zset'[k] = {} \/ zset'[k] = zset[k]
                     /\ zset'[k] = {} \/ clock' < expireAt[k]
                     /\ clock' < expireAt[k] => zset'[k] = zset[k]
    <2> SUFFICES ASSUME NEW k \in Key
                 PROVE  IF clock' < expireAt[k] THEN zset'[k] = zset[k] ELSE zset'[k] = {}
        OBVIOUS
    <2>1. expireAt[k] \in Nat
        BY DEF LimiterType
    <2> QED
        BY <1>1, <2>1 DEF Tick
<1>3. LimiterType'
    <2>1. zset' \in [Key -> SUBSET [req : Request, now : Nat]]
        BY DEF Tick, LimiterType
    <2>2. \A k \in Key : IsFiniteSet(zset'[k])
        BY <1>2, FS_EmptySet DEF LimiterType
    <2>3. CallTimes'
        <3> SUFFICES ASSUME NEW r \in Request, call[r] # NoCall
                     PROVE  /\ call[r].key \in Key /\ call[r].now \in Nat
                            /\ call[r].now <= clock + 1 /\ clock + 1 - call[r].now <= MaxDelay
            BY <1>1 DEF CallTimes
        <3>1. /\ call[r].key \in Key /\ call[r].now \in Nat /\ call[r].now <= clock
              /\ clock - call[r].now < MaxDelay
            BY DEF LimiterType, CallTimes, Tick
        <3>2. MaxDelay \in Nat
            OBVIOUS
        <3> QED
            BY <1>1, <3>1, <3>2
    <2>4. \A d \in decided \union lost :
              /\ d.req \in Request /\ d.key \in Key
              /\ d.now \in Nat /\ d.at \in Nat /\ d.now <= d.at /\ d.at <= clock'
        <3> SUFFICES ASSUME NEW d \in decided \union lost
                     PROVE  /\ d.req \in Request /\ d.key \in Key
                            /\ d.now \in Nat /\ d.at \in Nat /\ d.now <= d.at /\ d.at <= clock + 1
            BY <1>1
        <3>1. /\ d.req \in Request /\ d.key \in Key
              /\ d.now \in Nat /\ d.at \in Nat /\ d.now <= d.at /\ d.at <= clock
            BY DEF LimiterType
        <3> QED
            BY <1>1, <3>1
    <2> QED
        BY <1>1, <2>1, <2>2, <2>3, <2>4 DEF LimiterType
<1>4. OwnKey'
    BY <1>1, SubjectsStay DEF OwnKey
<1>5. Once' /\ FirstDecision'
    BY <1>1 DEF Once, FirstDecision
<1>6. StillThere'
    <2> SUFFICES ASSUME NEW d \in decided, d.verdict = "allowed", d.now > clock' - Window
                 PROVE  [req |-> d.req, now |-> d.now] \in zset'[d.key]
        BY <1>1 DEF StillThere
    <2>1. d.now \in Nat /\ d.key \in Key /\ Window \in Nat
        BY DEF LimiterType
    <2>2. d.now > clock - Window
        BY <1>1, <2>1
    <2>3. [req |-> d.req, now |-> d.now] \in zset[d.key]
        BY <2>2 DEF StillThere
    <2>4. d.now + Window <= expireAt[d.key] /\ expireAt[d.key] \in Nat
        BY <2>1, <2>3 DEF Covered, LimiterType
    <2>5. clock' < expireAt[d.key]
        BY <1>1, <2>1, <2>4
    <2> QED
        BY <1>2, <2>1, <2>3, <2>5
<1>7. Covered'
    <2> SUFFICES ASSUME NEW k \in Key, NEW x \in zset'[k]
                 PROVE  x.now <= clock' /\ x.now + Window <= expireAt[k]
        BY <1>1 DEF Covered
    <2>1. x \in zset[k]
        BY <1>2
    <2>2. x.now \in Nat
        BY <2>1 DEF LimiterType
    <2>3. x.now <= clock /\ x.now + Window <= expireAt[k]
        BY <2>1 DEF Covered
    <2> QED
        BY <1>1, <2>2, <2>3
<1>8. Counted'
    BY <1>1, <1>2 DEF Counted, Charges
<1> QED
    BY <1>3, <1>4, <1>5, <1>6, <1>7, <1>8

LEMMA AskedWindow ==
    ASSUME WindowInv, NEW r \in Request, Asked(r), in' = in, DOMAIN call = Request, FirstDecision'
    PROVE  WindowInv'
<1> USE LimiterConstants DEF WindowInv
<1>1. UNCHANGED <<clock, zset, expireAt, decided, lost>> /\ clock \in Nat
    BY DEF Asked, LimiterType
<1>2. CallTimes'
    <2> SUFFICES ASSUME NEW q \in Request, call'[q] # NoCall
                 PROVE  /\ call'[q].key \in Key /\ call'[q].now \in Nat
                        /\ call'[q].now <= clock /\ clock - call'[q].now <= MaxDelay
        BY <1>1 DEF CallTimes
    <2>1. PICK k \in Key : call' = [call EXCEPT ![r] = [key |-> k, now |-> clock]]
        BY DEF Asked
    <2>2. CASE q = r
        <3>1. call'[q].key = k /\ call'[q].now = clock
            BY <2>1, <2>2
        <3> QED
            BY <1>1, <3>1
    <2>3. CASE q # r
        BY <2>1, <2>3 DEF LimiterType, CallTimes
    <2> QED
        BY <2>2, <2>3
<1>3. LimiterType'
    BY <1>1, <1>2 DEF LimiterType
<1>4. OwnKey'
    BY <1>1, SubjectsStay DEF OwnKey
<1> QED
    BY <1>1, <1>3, <1>4 DEF Once, StillThere, Covered, Counted, Charges

\* The sorted sets after an attempt of r: those of other keys stay, and to r's own
\* the script adds r's entry if there is room, and nothing else.
LEMMA ScriptSets ==
    ASSUME WindowInv, NEW r \in Request, call[r] # NoCall,
           UNCHANGED <<zset, expireAt>> \/ Script(r)
    PROVE  LET k == call[r].key
               new == [req |-> r, now |-> call[r].now]
           IN  /\ zset' \in [Key -> SUBSET [req : Request, now : Nat]]
               /\ expireAt' \in [Key -> Nat]
               /\ \A j \in Key : IsFiniteSet(zset'[j])
               /\ \A j \in Key \ {k} : zset'[j] = zset[j] /\ expireAt'[j] = expireAt[j]
               /\ zset'[k] \subseteq zset[k] \union {new}
               /\ new \in zset'[k] => new \in zset[k] \/ (Script(r) /\ Room(r))
               /\ zset'[k] \subseteq zset[k] \/ expireAt'[k] = clock + Window
               /\ expireAt'[k] \in {expireAt[k], clock + Window}
               /\ \A x \in zset[k] : x.now > clock - Window => x \in zset'[k]
               /\ Script(r) /\ Room(r) => new \in zset'[k]
<1> DEFINE k == call[r].key
           new == [req |-> r, now |-> call[r].now]
<1> USE LimiterConstants
<1>2. /\ k \in Key /\ Trimmed(r) \subseteq zset[k] /\ zset[k] \subseteq [req : Request, now : Nat]
      /\ Added(r) \subseteq [req : Request, now : Nat]
      /\ IsFiniteSet(Trimmed(r)) /\ IsFiniteSet(Added(r))
      /\ \A x \in zset[k] : x.now > clock - Window => x \in Trimmed(r)
    BY Scripted
<1>3. /\ zset \in [Key -> SUBSET [req : Request, now : Nat]] /\ expireAt \in [Key -> Nat]
      /\ clock \in Nat /\ clock + Window \in Nat /\ \A j \in Key : IsFiniteSet(zset[j])
    BY DEF WindowInv, LimiterType
<1>4. Added(r) = Trimmed(r) \union {new}
    BY DEF Added
<1>5. CASE UNCHANGED <<zset, expireAt>> /\ ~Script(r)
    BY <1>2, <1>3, <1>5
<1>6. CASE Script(r) /\ Room(r)
    <2>1. /\ zset' = [zset EXCEPT ![k] = Added(r)]
          /\ expireAt' = [expireAt EXCEPT ![k] = clock + Window]
        BY <1>6 DEF Script, Expire
    <2> HIDE DEF k, new
    <2>2. zset'[k] = Added(r) /\ expireAt'[k] = clock + Window
        BY <1>2, <1>3, <2>1
    <2>3. \A j \in Key \ {k} : zset'[j] = zset[j] /\ expireAt'[j] = expireAt[j]
        BY <1>3, <2>1
    <2>4. zset' \in [Key -> SUBSET [req : Request, now : Nat]] /\ expireAt' \in [Key -> Nat]
        BY <1>2, <1>3, <2>1
    <2>5. \A j \in Key : IsFiniteSet(zset'[j])
        BY <1>2, <1>3, <2>2, <2>3
    <2> QED
        BY <1>2, <1>4, <1>6, <2>2, <2>3, <2>4, <2>5 DEF k, new
<1>7. CASE Script(r) /\ ~Room(r)
    <2>1. /\ zset' = [zset EXCEPT ![k] = Trimmed(r)]
          /\ expireAt' = [expireAt EXCEPT ![k] = expireAt[k]]
        BY <1>7 DEF Script
    <2> HIDE DEF k, new
    <2>2. zset'[k] = Trimmed(r) /\ expireAt'[k] = expireAt[k]
        BY <1>2, <1>3, <2>1
    <2>3. \A j \in Key \ {k} : zset'[j] = zset[j] /\ expireAt'[j] = expireAt[j]
        BY <1>3, <2>1
    <2>4. zset' \in [Key -> SUBSET [req : Request, now : Nat]] /\ expireAt' \in [Key -> Nat]
        BY <1>2, <1>3, <2>1
    <2>5. \A j \in Key : IsFiniteSet(zset'[j])
        BY <1>2, <1>3, <2>2, <2>3
    <2> QED
        BY <1>2, <1>7, <2>2, <2>3, <2>4, <2>5 DEF k, new
<1> QED
    BY <1>5, <1>6, <1>7

\* What an attempt of r leaves of the invariant, if what came of it is recorded as f.
LEMMA AttemptWindow ==
    ASSUME ServerInv, WindowInv, NEW r \in Request, stage[r] = "asking", call[r] # NoCall,
           UNCHANGED <<zset, expireAt>> \/ Script(r), in' = in, clock' = clock, CallTimes',
           NEW f, f.req = r, f.key = call[r].key, f.now = call[r].now, f.at = clock,
           IsFiniteSet(decided'), IsFiniteSet(lost'),
           decided \subseteq decided', lost \subseteq lost',
           decided' \subseteq decided \union {f}, lost' \subseteq lost \union {f},
           f \in decided' /\ f.verdict = "allowed" => f \in decided \/ (Script(r) /\ Room(r)),
           Script(r) /\ Room(r) => f \in Charges'
    PROVE  LimiterType' /\ OwnKey' /\ StillThere' /\ Covered' /\ Counted'
<1> DEFINE k == call[r].key
           new == [req |-> r, now |-> call[r].now]
<1>1. /\ f.req = r /\ f.key = k /\ f.now = call[r].now /\ f.at = clock
      /\ f.key \in Key /\ f.now \in Nat /\ f.now <= clock
      /\ f.key = <<f.key[1], Subject(f)>>
    BY RecordIs
<1>2. /\ zset' \in [Key -> SUBSET [req : Request, now : Nat]]
      /\ expireAt' \in [Key -> Nat]
      /\ \A j \in Key : IsFiniteSet(zset'[j])
      /\ \A j \in Key \ {k} : zset'[j] = zset[j] /\ expireAt'[j] = expireAt[j]
      /\ zset'[k] \subseteq zset[k] \union {new}
      /\ new \in zset'[k] => new \in zset[k] \/ (Script(r) /\ Room(r))
      /\ zset'[k] \subseteq zset[k] \/ expireAt'[k] = clock + Window
      /\ expireAt'[k] \in {expireAt[k], clock + Window}
      /\ \A x \in zset[k] : x.now > clock - Window => x \in zset'[k]
      /\ Script(r) /\ Room(r) => new \in zset'[k]
    BY ScriptSets
<1>3. /\ decided \subseteq decided' /\ lost \subseteq lost' /\ clock' = clock
      /\ decided' \subseteq decided \union {f} /\ lost' \subseteq lost \union {f}
      /\ Charges \subseteq Charges'
    BY DEF Charges
<1>4. /\ clock \in Nat /\ Window \in Nat /\ MaxDelay \in Nat /\ LimiterType /\ OwnKey /\ Once
      /\ StillThere /\ Covered /\ Counted
    BY LimiterConstants DEF WindowInv, LimiterType
<1>5. new.req = r /\ new.now = f.now
    BY <1>1
<1> HIDE DEF k, new
<1>6. LimiterType'
    <2>1. \A d \in decided' \union lost' :
              /\ d.req \in Request /\ d.key \in Key
              /\ d.now \in Nat /\ d.at \in Nat /\ d.now <= d.at /\ d.at <= clock
        BY <1>1, <1>3, <1>4 DEF LimiterType
    <2> QED
        BY <1>2, <1>3, <1>4, <2>1 DEF LimiterType
<1>7. OwnKey'
    <2>1. \A d : Subject(d)' = Subject(d)
        BY SubjectsStay
    <2> QED
        BY <1>1, <1>3, <1>4, <2>1 DEF OwnKey
<1>9. StillThere'
    <2> SUFFICES ASSUME NEW d \in decided', d.verdict = "allowed", d.now > clock - Window
                 PROVE  [req |-> d.req, now |-> d.now] \in zset'[d.key]
        BY <1>3 DEF StillThere
    <2>1. CASE d = f /\ d \notin decided
        <3>1. new \in zset'[k] /\ new = [req |-> d.req, now |-> d.now] /\ k = d.key
            BY <1>1, <1>2, <2>1 DEF new
        <3> QED
            BY <3>1
    <2>2. CASE d \in decided
        <3>1. [req |-> d.req, now |-> d.now] \in zset[d.key] /\ d.key \in Key
            BY <1>4, <2>2 DEF StillThere, LimiterType
        <3>2. CASE d.key = k
            BY <1>2, <3>1, <3>2
        <3>3. CASE d.key # k
            BY <1>2, <3>1, <3>3
        <3> QED
            BY <3>2, <3>3
    <2> QED
        BY <1>3, <2>1, <2>2
<1>10. Covered'
    <2> SUFFICES ASSUME NEW j \in Key, NEW x \in zset'[j]
                 PROVE  x.now <= clock /\ x.now + Window <= expireAt'[j]
        BY <1>3 DEF Covered
    <2>1. x.now \in Nat
        BY <1>2
    <2>2. CASE j # k
        BY <1>2, <1>4, <2>2 DEF Covered
    <2>3. CASE j = k /\ x \in zset[k]
        <3>1. x.now <= clock /\ x.now + Window <= expireAt[k] /\ expireAt[k] \in Nat
            BY <1>4, <2>3 DEF Covered, LimiterType
        <3> QED
            BY <1>2, <1>4, <2>1, <2>3, <3>1
    <2>4. CASE j = k /\ x \notin zset[k]
        <3>1. x = new /\ expireAt'[k] = clock + Window
            BY <1>2, <2>4
        <3> QED
            BY <1>1, <1>4, <1>5, <2>4, <3>1
    <2> QED
        BY <2>2, <2>3, <2>4
<1>11. Counted'
    <2> SUFFICES ASSUME NEW j \in Key, NEW x \in zset'[j]
                 PROVE  \E e \in Charges' : e.req = x.req /\ e.now = x.now /\ e.key = j
        BY DEF Counted
    <2>1. CASE x \in zset[j]
        BY <1>3, <1>4, <2>1 DEF Counted
    <2>2. CASE x \notin zset[j]
        <3>1. j = k /\ x = new /\ Script(r) /\ Room(r)
            BY <1>2, <2>2
        <3> QED
            BY <1>1, <1>3, <1>5, <3>1
    <2> QED
        BY <2>1, <2>2
<1> QED
    BY <1>6, <1>7, <1>9, <1>10, <1>11

LEMMA DecidedWindow ==
    ASSUME ServerInv, WindowInv, NEW r \in Request, NEW verdict, Decided(r, verdict),
           in' = in, FirstDecision'
    PROVE  WindowInv'
<1>0. PICK f : f = Decision(r, verdict)
    OBVIOUS
<1>1. /\ f.req = r /\ f.key = call[r].key /\ f.now = call[r].now /\ f.at = clock
      /\ f.verdict = verdict /\ \A d \in decided : ~(d.req = r /\ d.key = f.key)
    BY <1>0, DecisionIs
<1>2. /\ stage[r] = "asking" /\ call[r] # NoCall /\ UNCHANGED <<clock, lost>>
      /\ decided' = decided \union {f} /\ call' = [call EXCEPT ![r] = NoCall]
    BY <1>0 DEF Decided
<1>3. /\ UNCHANGED <<zset, expireAt>> \/ Script(r)
      /\ verdict = "allowed" => Script(r) /\ Room(r)
      /\ Script(r) /\ Room(r) => verdict # "limited"
    BY DEF Decided
<1>4. CallTimes'
    <2> SUFFICES ASSUME NEW q \in Request, call'[q] # NoCall
                 PROVE  /\ call'[q].key \in Key /\ call'[q].now \in Nat
                        /\ call'[q].now <= clock /\ clock - call'[q].now <= MaxDelay
        BY <1>2 DEF CallTimes
    <2>1. DOMAIN call = Request
        BY DEF ServerInv, ServerType
    <2>2. call'[q] = call[q]
        BY <1>2, <2>1
    <2> QED
        BY <2>2 DEF WindowInv, LimiterType, CallTimes
<1>5. IsFiniteSet(decided') /\ IsFiniteSet(lost')
    BY <1>2, FS_AddElement DEF WindowInv, LimiterType
<1>6. Script(r) /\ Room(r) => f \in Charges'
    BY <1>1, <1>2, <1>3 DEF Charges
<1>7. LimiterType' /\ OwnKey' /\ StillThere' /\ Covered' /\ Counted'
    BY <1>1, <1>2, <1>3, <1>4, <1>5, <1>6, AttemptWindow
<1>8. Once'
    BY <1>1, <1>2 DEF WindowInv, Once
<1> QED
    BY <1>7, <1>8 DEF WindowInv

LEMMA ResentWindow ==
    ASSUME ServerInv, WindowInv, NEW r \in Request, Resent(r), in' = in
    PROVE  WindowInv'
<1>0. PICK f : f = Attempt(r)
    OBVIOUS
<1>1. f.req = r /\ f.key = call[r].key /\ f.now = call[r].now /\ f.at = clock
    BY <1>0 DEF Attempt
<1>2. /\ stage[r] = "asking" /\ call[r] # NoCall /\ Script(r)
      /\ UNCHANGED <<clock, call, decided, stage, pos>>
      /\ lost' = lost \union (IF Room(r) THEN {f} ELSE {})
    BY <1>0 DEF Resent, serverVars
<1>3. f \notin decided
    BY <1>1, <1>2, RecordIs
<1>4. CallTimes'
    BY <1>2 DEF WindowInv, LimiterType, CallTimes
<1>5. IsFiniteSet(decided') /\ IsFiniteSet(lost')
    <2>1. IsFiniteSet(decided) /\ IsFiniteSet(lost)
        BY DEF WindowInv, LimiterType
    <2>2. IsFiniteSet(lost \union {f})
        BY <2>1, FS_AddElement
    <2> QED
        BY <1>2, <2>1, <2>2
<1>6. Room(r) => f \in Charges'
    BY <1>2 DEF Charges
<1>7. LimiterType' /\ OwnKey' /\ StillThere' /\ Covered' /\ Counted'
    BY <1>1, <1>2, <1>3, <1>4, <1>5, <1>6, AttemptWindow
<1>8. Once' /\ FirstDecision'
    BY <1>2 DEF WindowInv, Once, FirstDecision
<1> QED
    BY <1>7, <1>8 DEF WindowInv

LEMMA NextWindowInv == ServerInv /\ ServerInv' /\ WindowInv /\ [Next]_vars => WindowInv'
<1> SUFFICES ASSUME ServerInv, ServerInv', WindowInv, [Next]_vars PROVE WindowInv'
    OBVIOUS
<1>1. in' = in
    BY InputsStay
<1>2. ASSUME NEW r \in Request, Arrive(r) \/ Serve(r) PROVE WindowInv'
    <2>1. Quiet \/ Asked(r) \/ \E verdict : Decided(r, verdict)
        BY <1>2, LimiterStep
    <2>2. FirstDecision'
        BY <1>1, <1>2, <2>1, StepFirstDecision
    <2>3. CASE Quiet
        <3>1. UNCHANGED <<clock, call, zset, expireAt, decided, lost>>
            BY <2>3 DEF Quiet, limiterVars
        <3>2. OwnKey'
            BY <1>1, <3>1, SubjectsStay DEF WindowInv, OwnKey
        <3>3. LimiterType'
            BY <3>1 DEF WindowInv, LimiterType, CallTimes
        <3> QED
            BY <2>2, <3>1, <3>2, <3>3 DEF WindowInv, Once, StillThere, Covered, Counted, Charges
    <2>4. CASE Asked(r)
        BY <1>1, <2>2, <2>4, AskedWindow DEF ServerInv, ServerType
    <2>5. CASE \E verdict : Decided(r, verdict)
        BY <1>1, <2>2, <2>5, DecidedWindow
    <2> QED
        BY <2>1, <2>3, <2>4, <2>5
<1>3. CASE Tick /\ UNCHANGED serverVars
    BY <1>3, TickWindow DEF serverVars
<1>4. CASE UNCHANGED vars
    <2>1. UNCHANGED <<clock, call, zset, expireAt, decided, lost, in, stage, pos>>
        BY <1>4 DEF vars, limiterVars, serverVars
    <2>2. OwnKey'
        BY <2>1, SubjectsStay DEF WindowInv, OwnKey
    <2>3. LimiterType'
        BY <2>1 DEF WindowInv, LimiterType, CallTimes
    <2> QED
        BY <2>1, <2>2, <2>3 DEF WindowInv, Once, FirstDecision, StillThere, Covered, Counted, Charges
<1>5. ASSUME NEW r \in Request, LimiterRetries(r) PROVE WindowInv'
    BY <1>1, <1>5, RetryIs, ResentWindow
<1> QED
    BY <1>2, <1>3, <1>4, <1>5 DEF Next

\* What the limiter's sorted sets hold, and for how long, is what was decided.
THEOREM WindowInvariance == Spec => []WindowInv
<1>1. Init => WindowInv
    BY InitWindowInv
<1>2. ServerInv /\ ServerInv' /\ WindowInv /\ [Next]_vars => WindowInv'
    BY NextWindowInv
<1> QED
    BY <1>1, <1>2, ServerInvariance, PTL DEF Spec

-----------------------------------------------------------------------------
(* The limit, and who is refused *)

\* The requests that LimitHolds and RejectionIsEarned count.
Admitted(d) ==
    {e \in decided : /\ e.verdict = "allowed" /\ About(e, d)
                     /\ e.now \in d.now..(d.now + Window - MaxDelay - 1)}
ChargedTo(d) == {c \in Charges : About(c, d) /\ c.now > d.now - Window /\ c.at <= d.at}
Counting(d) == {<<e.req, e.now>> : e \in ChargedTo(d)}

LEMMA SizeOfSmaller ==
    ASSUME NEW S, NEW T, IsFiniteSet(T), NEW f \in [S -> T], \A a, b \in S : f[a] = f[b] => a = b
    PROVE  IsFiniteSet(S) /\ Cardinality(S) <= Cardinality(T)
<1>1. f \in Injection(S, T)
    BY DEF Injection, IsInjective
<1> QED
    BY <1>1, FS_Injection

\* One more admission within the window of d: all the earlier ones are still in the
\* sorted set that the script counts.
LEMMA AdmittedFits ==
    ASSUME ServerInv, WindowInv, NEW r \in Request, Decided(r, "allowed"), in' = in,
           NEW d, d.now \in Nat, About(Decision(r, "allowed"), d),
           Decision(r, "allowed").now \in d.now..(d.now + Window - MaxDelay - 1)
    PROVE  IsFiniteSet(Admitted(d)) /\ Cardinality(Admitted(d)) < Limit
<1> DEFINE k == call[r].key
           entry == [e \in Admitted(d) |-> [req |-> e.req, now |-> e.now]]
<1>0. PICK f : f = Decision(r, "allowed")
    OBVIOUS
<1>1. /\ f.req = r /\ f.key = k /\ f.now = call[r].now
      /\ f.key \in Key /\ f.now \in Nat /\ f.now <= clock /\ clock - f.now <= MaxDelay
      /\ f.key = <<f.key[1], Subject(f)>>
    BY <1>0, DecisionIs
<1>2. Room(r) /\ call[r] # NoCall
    BY DEF Decided
<1>3. /\ IsFiniteSet(Trimmed(r))
      /\ \A x \in zset[k] : x.now > clock - Window => x \in Trimmed(r)
    BY <1>2, Scripted
<1>4. clock \in Nat /\ Window \in Nat /\ MaxDelay \in Nat /\ Limit \in Nat
    BY LimiterConstants DEF WindowInv, LimiterType
<1>5. About(f, d) /\ f.now <= d.now + Window - MaxDelay - 1
    BY <1>0, <1>1, <1>4
<1> HIDE DEF k
<1>6. ASSUME NEW e \in Admitted(d) PROVE e.key = k /\ entry[e] \in Trimmed(r)
    <2>1. e \in decided /\ e.verdict = "allowed" /\ About(e, d) /\ e.now >= d.now /\ e.now \in Nat
        BY <1>4 DEF Admitted, WindowInv, LimiterType
    <2>2. e.key = <<e.key[1], Subject(e)>>
        BY <2>1 DEF WindowInv, OwnKey
    <2>3. e.key = k
        BY <1>1, <1>5, <2>1, <2>2 DEF About
    <2>4. e.now > clock - Window
        BY <1>1, <1>4, <1>5, <2>1
    <2>5. [req |-> e.req, now |-> e.now] \in zset[k]
        BY <2>1, <2>3, <2>4 DEF WindowInv, StillThere
    <2> QED
        BY <1>3, <2>3, <2>4, <2>5
<1>7. ASSUME NEW a \in Admitted(d), NEW b \in Admitted(d), entry[a] = entry[b] PROVE a = b
    <2>1. a.req = b.req
        BY <1>7
    <2>2. a.key = b.key /\ a \in decided /\ b \in decided
        BY <1>6 DEF Admitted
    <2> QED
        BY <2>1, <2>2 DEF WindowInv, Once
<1>8. entry \in [Admitted(d) -> Trimmed(r)]
    BY <1>6
<1> HIDE DEF entry
<1>9. IsFiniteSet(Admitted(d)) /\ Cardinality(Admitted(d)) <= Cardinality(Trimmed(r))
    BY <1>3, <1>7, <1>8, SizeOfSmaller
<1>10. Cardinality(Admitted(d)) \in Nat /\ Cardinality(Trimmed(r)) \in Nat
    BY <1>3, <1>9, FS_CardinalityType
<1>11. Cardinality(Trimmed(r)) < Limit
    BY <1>2 DEF Room
<1> QED
    BY <1>4, <1>9, <1>10, <1>11

FinitelyCharged == \A d : IsFiniteSet(Counting(d))

LEMMA CountingIsFinite == WindowInv => FinitelyCharged
<1> SUFFICES ASSUME WindowInv, NEW d PROVE IsFiniteSet(Counting(d))
    BY DEF FinitelyCharged
<1>1. IsFiniteSet(decided \union lost)
    BY FS_Union DEF WindowInv, LimiterType
<1>2. ChargedTo(d) \subseteq decided \union lost
    BY DEF ChargedTo, Charges
<1>3. IsFiniteSet(ChargedTo(d))
    BY <1>1, <1>2, FS_Subset
<1> DEFINE pair == [e \in ChargedTo(d) |-> <<e.req, e.now>>]
           pairs == {pair[e] : e \in ChargedTo(d)}
<1>4. Counting(d) = pairs
    BY DEF Counting
<1>5. pair \in Surjection(ChargedTo(d), pairs)
    BY DEF Surjection
<1> HIDE DEF pair, pairs
<1>6. IsFiniteSet(pairs)
    BY <1>3, <1>5, FS_Surjection
<1> QED
    BY <1>4, <1>6

\* Every entry that the script counts is a call that is charged to the same subject.
LEMMA RefusalIsFull ==
    ASSUME ServerInv, WindowInv, NEW r \in Request, Decided(r, "limited"),
           NEW f, f = Decision(r, "limited")
    PROVE  Cardinality(Counting(f)) >= Limit
<1> DEFINE k == call[r].key
           pair == [x \in Trimmed(r) |-> <<x.req, x.now>>]
<1>1. /\ f.req = r /\ f.key = k /\ f.now = call[r].now /\ f.at = clock
      /\ f.key \in Key /\ f.now \in Nat /\ f.key = <<f.key[1], Subject(f)>>
    BY DecisionIs
<1>2. ~Room(r) /\ call[r] # NoCall
    BY DEF Decided
<1>3. /\ IsFiniteSet(Trimmed(r)) /\ Trimmed(r) \subseteq zset[k]
      /\ zset[k] \subseteq [req : Request, now : Nat]
    BY <1>2, Scripted
<1>4. Limit \in Nat
    BY LimiterConstants
<1> HIDE DEF k
<1>5. ASSUME NEW x \in Trimmed(r) PROVE pair[x] \in Counting(f)
    <2>1. k \in Key /\ x \in zset[k]
        BY <1>1, <1>3
    <2>2. PICK e \in Charges : e.req = x.req /\ e.now = x.now /\ e.key = k
        BY <2>1 DEF WindowInv, Counted
    <2>3. e \in decided \union lost
        BY DEF Charges
    <2>4. e.key = <<e.key[1], Subject(e)>> /\ e.at <= clock
        BY <2>3 DEF WindowInv, OwnKey, LimiterType
    <2>5. e.key[1] = f.key[1] /\ Subject(e) = Subject(f)
        <3> DEFINE a == e.key[1]
                   b == f.key[1]
        <3>1. <<a, Subject(e)>> = <<b, Subject(f)>>
            BY <1>1, <2>2, <2>4
        <3> HIDE DEF a, b
        <3>2. a = b /\ Subject(e) = Subject(f)
            BY <3>1
        <3> QED
            BY <3>2 DEF a, b
    <2>6. x.now > f.now - Window
        BY <1>1 DEF Trimmed
    <2>7. e \in ChargedTo(f)
        BY <1>1, <2>2, <2>4, <2>5, <2>6 DEF ChargedTo, About
    <2>8. pair[x] = <<e.req, e.now>>
        BY <2>2
    <2> QED
        BY <2>7, <2>8 DEF Counting
<1>6. ASSUME NEW x \in Trimmed(r), NEW y \in Trimmed(r), pair[x] = pair[y] PROVE x = y
    <2>1. x.req = y.req /\ x.now = y.now
        BY <1>6
    <2> QED
        BY <1>3, <2>1
<1>7. pair \in [Trimmed(r) -> Counting(f)]
    BY <1>5
<1> HIDE DEF pair
<1>8. IsFiniteSet(Counting(f)) /\ Cardinality(Trimmed(r)) <= Cardinality(Counting(f))
    BY <1>6, <1>7, CountingIsFinite, SizeOfSmaller DEF FinitelyCharged
<1>9. Cardinality(Trimmed(r)) \in Nat /\ Cardinality(Counting(f)) \in Nat
    BY <1>3, <1>8, FS_CardinalityType
<1>10. Cardinality(Trimmed(r)) >= Limit
    BY <1>2, <1>4, <1>9 DEF Room
<1> QED
    BY <1>4, <1>8, <1>9, <1>10

\* A step changes decided by at most one decision.
LEMMA Grows ==
    ASSUME ServerInv, ServerInv', [Next]_vars
    PROVE  \/ decided' = decided /\ lost \subseteq lost'
           \/ lost' = lost /\ \E r \in Request : \E verdict :
                 Decided(r, verdict) /\ decided' = decided \union {Decision(r, verdict)}
<1>1. ASSUME NEW r \in Request, Arrive(r) \/ Serve(r)
      PROVE  \/ decided' = decided /\ lost' = lost
             \/ /\ lost' = lost
                /\ \E verdict : Decided(r, verdict) /\ decided' = decided \union {Decision(r, verdict)}
    <2>1. Quiet \/ Asked(r) \/ \E verdict : Decided(r, verdict)
        BY <1>1, LimiterStep
    <2> QED
        BY <2>1 DEF Quiet, Asked, Decided, limiterVars
<1>2. CASE Tick /\ UNCHANGED serverVars
    BY <1>2 DEF Tick
<1>3. CASE UNCHANGED vars
    BY <1>3 DEF vars, limiterVars
<1>4. ASSUME NEW r \in Request, LimiterRetries(r) PROVE decided' = decided /\ lost \subseteq lost'
    BY <1>4 DEF LimiterRetries, Resend
<1> QED
    BY <1>1, <1>2, <1>3, <1>4 DEF Next

LEMMA AboutStays == in' = in => \A d, e : About(d, e)' <=> About(d, e)
BY SubjectsStay DEF About

LEMMA NextLimit ==
    ServerInv /\ ServerInv' /\ WindowInv /\ WindowInv' /\ LimitHolds /\ [Next]_vars => LimitHolds'
<1> SUFFICES ASSUME ServerInv, ServerInv', WindowInv, WindowInv', LimitHolds, [Next]_vars
             PROVE  LimitHolds'
    OBVIOUS
<1>1. in' = in /\ \A d, e : About(d, e)' <=> About(d, e)
    BY InputsStay, AboutStays
<1>2. Limit \in Nat \ {0} /\ Window \in Nat /\ MaxDelay \in Nat /\ Window - MaxDelay - 1 >= 0
    BY LimiterConstants
<1>3. CASE decided' = decided
    BY <1>1, <1>3 DEF LimitHolds
<1>4. ASSUME NEW r \in Request, NEW verdict, Decided(r, verdict),
             decided' = decided \union {Decision(r, verdict)}
      PROVE  LimitHolds'
    <2>0. PICK f : f = Decision(r, verdict)
        OBVIOUS
    <2>1. f.verdict = verdict /\ f.now \in Nat /\ decided' = decided \union {f}
        BY <1>4, <2>0, DecisionIs
    <2> SUFFICES ASSUME NEW d \in decided', d.verdict = "allowed"
                 PROVE  Cardinality(Admitted(d)') <= Limit
        BY DEF LimitHolds, Admitted
    <2>2. Admitted(d)' =
              {e \in decided' : /\ e.verdict = "allowed" /\ About(e, d)
                                /\ e.now \in d.now..(d.now + Window - MaxDelay - 1)}
        BY <1>1 DEF Admitted
    <2>3. d.now \in Nat
        BY DEF WindowInv, LimiterType
    <2>4. CASE /\ f.verdict = "allowed" /\ About(f, d)
               /\ f.now \in d.now..(d.now + Window - MaxDelay - 1)
        <3>1. Admitted(d)' = Admitted(d) \union {f}
            BY <2>1, <2>2, <2>4 DEF Admitted
        <3>2. IsFiniteSet(Admitted(d)) /\ Cardinality(Admitted(d)) < Limit
            <4>1. f = Decision(r, "allowed") /\ Decided(r, "allowed")
                BY <1>4, <2>0, <2>1, <2>4
            <4>2. /\ About(Decision(r, "allowed"), d)
                  /\ Decision(r, "allowed").now \in d.now..(d.now + Window - MaxDelay - 1)
                BY <2>4, <4>1
            <4> QED
                BY <1>1, <2>3, <4>1, <4>2, AdmittedFits
        <3>3. /\ Cardinality(Admitted(d)) \in Nat
              /\ Cardinality(Admitted(d) \union {f}) <= Cardinality(Admitted(d)) + 1
              /\ Cardinality(Admitted(d) \union {f}) \in Nat
            <4>1. Cardinality(Admitted(d)) \in Nat
                BY <3>2, FS_CardinalityType
            <4>2. Cardinality(Admitted(d) \union {f}) =
                      IF f \in Admitted(d) THEN Cardinality(Admitted(d))
                      ELSE Cardinality(Admitted(d)) + 1
                BY <3>2, FS_AddElement
            <4> QED
                BY <4>1, <4>2
        <3> QED
            BY <1>2, <3>1, <3>2, <3>3
    <2>5. CASE ~(/\ f.verdict = "allowed" /\ About(f, d)
                 /\ f.now \in d.now..(d.now + Window - MaxDelay - 1))
        <3>1. d # f
            <4>1. About(d, d) /\ d.now \in d.now..(d.now + Window - MaxDelay - 1)
                BY <1>2, <2>3 DEF About
            <4> QED
                BY <2>5, <4>1
        <3>2. d \in decided
            BY <2>1, <3>1
        <3>3. Admitted(d)' = Admitted(d)
            BY <2>1, <2>2, <2>5 DEF Admitted
        <3> QED
            BY <3>2, <3>3 DEF LimitHolds, Admitted
    <2> QED
        BY <2>4, <2>5
<1> QED
    BY <1>3, <1>4, Grows

\* For every limit, window, delay, set of clients and order of the scripts, no
\* Window - MaxDelay ticks admit more than Limit requests of a subject (Allow).
THEOREM LimitIsKept == Spec => []LimitHolds
<1>1. Init => LimitHolds
    BY DEF Init, LimiterInit, LimitHolds
<1>2. ServerInv /\ ServerInv' /\ WindowInv /\ WindowInv' /\ LimitHolds /\ [Next]_vars => LimitHolds'
    BY NextLimit
<1> QED
    BY <1>1, <1>2, ServerInvariance, WindowInvariance, PTL DEF Spec

LEMMA NextRejection ==
    /\ ServerInv /\ ServerInv' /\ WindowInv /\ WindowInv' /\ RejectionIsEarned /\ [Next]_vars
    => RejectionIsEarned'
<1> SUFFICES ASSUME ServerInv, ServerInv', WindowInv, WindowInv', RejectionIsEarned, [Next]_vars
             PROVE  RejectionIsEarned'
    OBVIOUS
<1>1. in' = in /\ \A d, e : About(d, e)' <=> About(d, e)
    BY InputsStay, AboutStays
<1>2. \/ decided' = decided /\ lost \subseteq lost'
      \/ lost' = lost /\ \E r \in Request : \E verdict :
             Decided(r, verdict) /\ decided' = decided \union {Decision(r, verdict)}
    BY Grows
<1>3. Charges \subseteq Charges'
    BY <1>2 DEF Charges
<1> SUFFICES ASSUME NEW d \in decided', d.verdict = "limited"
             PROVE  Cardinality(Counting(d)') >= Limit
    BY DEF RejectionIsEarned, Counting, ChargedTo
<1>4. IsFiniteSet(Counting(d)')
    <2>1. (WindowInv => FinitelyCharged)'
        BY CountingIsFinite, PTL
    <2> QED
        BY <2>1 DEF FinitelyCharged
<1>5. Counting(d) \subseteq Counting(d)'
    BY <1>1, <1>3 DEF Counting, ChargedTo
<1>6. Cardinality(Counting(d)) >= Limit
    <2>1. CASE d \in decided
        BY <2>1 DEF RejectionIsEarned, Counting, ChargedTo
    <2>2. CASE d \notin decided
        <3>1. PICK r \in Request : \E verdict : Decided(r, verdict) /\ d = Decision(r, verdict)
            BY <1>2, <2>2
        <3>2. Decided(r, "limited") /\ d = Decision(r, "limited")
            BY <3>1 DEF Decision
        <3> QED
            BY <3>2, RefusalIsFull
    <2> QED
        BY <2>1, <2>2
<1>7. /\ Cardinality(Counting(d)) <= Cardinality(Counting(d)')
      /\ Cardinality(Counting(d)) \in Nat /\ Cardinality(Counting(d)') \in Nat
    BY <1>4, <1>5, FS_Subset, FS_CardinalityType
<1> QED
    BY <1>6, <1>7, LimiterConstants

\* Nobody is refused with 429 before Limit calls of Allow for the same subject were
\* counted; what was refused does not count, unless an attempt of it had been let in
\* and its answer was lost, and a call counts once however often it is sent (Allow).
THEOREM RejectionsEarned == Spec => []RejectionIsEarned
<1>1. Init => RejectionIsEarned
    BY DEF Init, LimiterInit, RejectionIsEarned
<1>2. /\ ServerInv /\ ServerInv' /\ WindowInv /\ WindowInv' /\ RejectionIsEarned /\ [Next]_vars
      => RejectionIsEarned'
    BY NextRejection
<1> QED
    BY <1>1, <1>2, ServerInvariance, WindowInvariance, PTL DEF Spec
=============================================================================
