--------------------------- MODULE RequestPipeline ---------------------------
(***************************************************************************)
(* A request from the edge to its access-log record: the middleware that    *)
(* router.NewRouter puts around every route, the chain of each route, the   *)
(* rate limiter they share (HttpRateLimit) and the handlers, of which the   *)
(* two that spend money (LogoApi) are followed in detail.  Requests of      *)
(* several clients run concurrently, Redis may fail, handlers may panic.    *)
(*                                                                          *)
(* The handlers of the other routes belong to other modules; here they      *)
(* answer 200 or an error.  "read" and "write" stand for the protected GET  *)
(* routes and for those that change the watchlist.                          *)
(***************************************************************************)
EXTENDS HttpRateLimit, LogoApi

CONSTANTS
    Scenarios,  \* set of [Request -> its input], see MCRequestPipeline
    Hops,       \* TRUSTED_PROXY_HOPS
    LB,         \* address that a load balancer appends
    MaxBody     \* maxRequestBodyBytes of the OpenAPI validator

VARIABLES
    in,        \* [Request -> its input]
    stage,     \* [Request -> what runs next]
    pos,       \* [Request -> place in the chain of its route]
    who,       \* [Request -> what AuthRequired put into its context]
    read,      \* [Request -> bytes of the body that were read]
    status,    \* [Request -> status the client sees, 0 before]
    log,       \* [Request -> its access-log records]
    paid       \* history: requests for which a provider was called

serverVars == <<in, stage, pos, who, read, status, log, paid>>
vars == <<limiterVars, serverVars>>

Nobody == [user |-> NoKey, source |-> "none"]

\* The routes whose method csrf.Protect lets pass.
Safe(route) == route \in {"begin", "callback", "read"}

-----------------------------------------------------------------------------
(* What NewRouter composes *)

\* Faulty variant: AccessLog inside Recover.
GlobalRecoverFirst ==
    <<"RealIP", "TraceID", "Recover", "AccessLog", "CORS", "SecurityHeaders">>

\* r.Use, the outermost first.
Global == <<"RealIP", "TraceID", "AccessLog", "Recover", "CORS", "SecurityHeaders">>

Inside(m, n) == \E i, j \in DOMAIN Global : j < i /\ Global[i] = m /\ Global[j] = n

Protected == <<"AuthRequired", "Csrf", "OpenAPI">>

\* Faulty variant: bodies are validated before anything is refused.
ChainValidatesFirst(route) ==
    CASE route \in {"signup", "begin", "callback"} -> <<"OpenAPI", "ByIP">>
      [] route = "login" -> <<"OpenAPI", "ByIP", "ByEmail">>
      [] route = "refresh" -> <<"OpenAPI", "ByIP", "CsrfOfCookies">>
      [] route = "logout" -> <<"OpenAPI", "CsrfOfCookies">>
      [] route \in {"read", "write"} -> Protected
      [] route \in {"detect", "analyze"} -> Append(Protected, "ByUserID")
      [] OTHER -> <<>>

\* The chain of a route; ByEmail is the check at the start of Login itself.
Chain(route) ==
    CASE route \in {"signup", "begin", "callback"} -> <<"ByIP", "OpenAPI">>
      [] route = "login" -> <<"ByIP", "OpenAPI", "ByEmail">>
      [] route = "refresh" -> <<"ByIP", "CsrfOfCookies", "OpenAPI">>
      [] route = "logout" -> <<"CsrfOfCookies", "OpenAPI">>
      [] route \in {"read", "write"} -> Protected
      [] route \in {"detect", "analyze"} -> Append(Protected, "ByUserID")
      [] OTHER -> <<>>   \* healthz, 404 and 405

\* RateLimitConfig.Policy
Policy(route) == IF route = "refresh" THEN "FailOpen" ELSE "FailClosed"

-----------------------------------------------------------------------------
(* Through the chain *)

At(r, m) == stage[r] = "chain" /\ Chain(in[r].route)[pos[r]] = m

Enter(r, p) ==
    /\ pos' = [pos EXCEPT ![r] = p]
    /\ stage' = [stage EXCEPT ![r] = IF p > Len(Chain(in[r].route)) THEN "handler" ELSE "chain"]

\* next.ServeHTTP
Pass(r) == Enter(r, pos[r] + 1) /\ UNCHANGED status

\* WriteJSON, or any other answer; the code that wrote it then returns.
Respond(r, s) ==
    /\ status' = [status EXCEPT ![r] = s]
    /\ stage' = [stage EXCEPT ![r] = "written"]
    /\ UNCHANGED pos

-----------------------------------------------------------------------------
(* The outer middleware *)

\* The entries that are not blank, in their order.
NonBlank(entries) ==
    LET place(n) == Cardinality({m \in 1..n : entries[m] # ""})
    IN  [p \in 1..place(Len(entries)) |->
            entries[CHOOSE n \in DOMAIN entries : place(n) = p /\ entries[n] # ""]]

\* The X-Forwarded-For entries that reach the process: what the client sent,
\* then what the edge appends; blank entries are dropped.  A request of the
\* platform itself (a probe) does not come through the edge.
Forwarded(i) ==
    NonBlank(i.forged) \o (IF i.probe THEN <<>> ELSE SubSeq(<<i.peer, LB>>, 1, Hops))

\* net.ParseIP
IsAddress(e) == e # "not an address"

RemoteAddr(i) == IF Hops = 0 \/ i.probe THEN i.peer ELSE LB

\* Faulty variant: the leftmost entry is taken for the client.
ResolveLeftmost(i) ==
    IF Hops > 0 /\ Forwarded(i) # <<>> THEN Forwarded(i)[1] ELSE RemoteAddr(i)

\* resolveClientIP and httpx.ClientIP: the entry Hops from the right if there is
\* one and it is an address, RemoteAddr otherwise.
ResolveClientIP(i) ==
    LET entries == Forwarded(i)
        idx == Len(entries) - Hops + 1
    IN  IF Hops > 0 /\ idx >= 1 /\ IsAddress(entries[idx])
        THEN entries[idx] ELSE RemoteAddr(i)

ClientIP(r, m) == IF Inside(m, "RealIP") THEN ResolveClientIP(in[r]) ELSE RemoteAddr(in[r])

\* Requests come from addresses, with images that are part of their bodies, and the
\* platform's own carry no address that somebody could have forged; the limiter
\* has a key for whatever a chain asks it about.
ASSUME ServerConstants ==
    /\ Hops \in 0..2 /\ MaxBody \in Nat
    /\ \A s \in Scenarios : \A r \in Request :
          LET i == s[r]
              chain == ToSet(Chain(i.route))
          IN  /\ i.body \in Nat /\ i.image \in 0..i.body
              /\ i.forged \in Seq(STRING) /\ IsAddress(i.peer)
              /\ i.probe => \A n \in DOMAIN Forwarded(i) : ~IsAddress(Forwarded(i)[n])
              /\ "ByIP" \in chain => <<i.route, i.peer>> \in Key
              /\ "ByUserID" \in chain => <<i.route, i.user>> \in Key
              /\ "ByEmail" \in chain => <<"email", i.email[1]>> \in Key

\* resolveTrace: a well-formed traceparent, else a well-formed
\* X-Cloud-Trace-Context, else a new identifier.
ResolveTrace(i) == IF i.traceparent THEN "parent" ELSE IF i.cloudTrace THEN "cloud" ELSE "new"

\* A request arrives and passes the outer middleware; CORS answers preflights.
Arrive(r) ==
    /\ stage[r] = "new"
    /\ \/ /\ in[r].route = "preflight"
          /\ Respond(r, 200)
       \/ /\ in[r].route \notin {"preflight", "none"}
          /\ Enter(r, 1)
          /\ UNCHANGED status
    /\ UNCHANGED <<limiterVars, in, who, read, log, paid>>

\* The answer has been written and everything returns: AccessLog records it.
Return(r) ==
    /\ stage[r] = "written"
    /\ stage' = [stage EXCEPT ![r] = "closed"]
    /\ log' = [log EXCEPT ![r] =
                 Append(@, [status |-> status[r], ip |-> ClientIP(r, "AccessLog"),
                            trace |-> IF Inside("AccessLog", "TraceID")
                                      THEN ResolveTrace(in[r]) ELSE "none"])]
    /\ UNCHANGED <<limiterVars, in, pos, who, read, status, paid>>

\* A panic below Recover, which answers 500 unless an answer has begun.  AccessLog
\* logs after next.ServeHTTP returns, so a panic must not pass through it.
Panic(r) ==
    /\ in[r].panics
    /\ stage[r] \in {"chain", "handler", "call", "reply", "written"}
    /\ status' = [status EXCEPT ![r] = IF status[r] = 0 THEN 500 ELSE status[r]]
    /\ stage' = [stage EXCEPT ![r] =
                   IF Inside("Recover", "AccessLog") THEN "written" ELSE "closed"]
    /\ UNCHANGED <<limiterVars, in, pos, who, read, log, paid>>

\* http.ErrAbortHandler goes through to net/http, which drops the connection.
Abort(r) ==
    /\ in[r].panics
    /\ stage[r] \in {"handler", "reply", "written"}
    /\ stage' = [stage EXCEPT ![r] = "aborted"]
    /\ UNCHANGED <<limiterVars, in, pos, who, read, status, log, paid>>

-----------------------------------------------------------------------------
(* The middleware of the routes *)

\* ExtractToken: the auth_token cookie before the Authorization header.
ExtractToken(i) ==
    IF i.cookie # "none" THEN [token |-> i.cookie, source |-> "cookie"]
    ELSE [token |-> i.bearer, source |-> IF i.bearer = "none" THEN "none" ELSE "bearer"]

\* AuthRequired: tokens are valid, invalid (signature, expiry, subject) or revoked,
\* which the blacklist knows only while Redis answers.
AuthRequired(r) ==
    LET t == ExtractToken(in[r]) IN
    /\ At(r, "AuthRequired")
    /\ \/ /\ t.token \in {"valid", "revoked"}
          /\ who' = [who EXCEPT ![r] = [user |-> in[r].user, source |-> t.source]]
          /\ Pass(r)
       \/ /\ t.token # "valid"
          /\ Respond(r, 401)
          /\ UNCHANGED who
    /\ UNCHANGED <<limiterVars, in, read, log, paid>>

\* csrf.Protect skips safe methods and Bearer authentication, and with cookie
\* names given every request that carries none of these cookies.
CsrfApplies(r) ==
    /\ ~Safe(in[r].route)
    /\ who[r].source # "bearer"
    /\ At(r, "CsrfOfCookies") => in[r].cookie # "none" \/ in[r].refreshCookie

Protect(r) ==
    /\ At(r, "Csrf") \/ At(r, "CsrfOfCookies")
    /\ IF CsrfApplies(r) /\ ~in[r].csrf THEN Respond(r, 403) ELSE Pass(r)
    /\ UNCHANGED <<limiterVars, in, who, read, log, paid>>

\* openapivalidate: /v1/logo/detect is skipped; other bodies are bounded first
\* by their declared length and then, chunked, by what is read of them.
Validate(r) ==
    /\ At(r, "OpenAPI")
    /\ IF in[r].route = "detect"
       THEN Pass(r) /\ UNCHANGED read
       ELSE IF in[r].body > MaxBody
       THEN /\ Respond(r, 413)
            /\ read' = [read EXCEPT ![r] = IF in[r].chunked THEN MaxBody ELSE 0]
       ELSE /\ read' = [read EXCEPT ![r] = in[r].body]
            /\ IF in[r].wellformed THEN Pass(r) ELSE Respond(r, 400)
    /\ UNCHANGED <<limiterVars, in, who, log, paid>>

\* The email of a login is normalised for its key as it is for the account:
\* input emails are <<account, spelling>>.
NormalizeEmail(email) == email[1]

\* ByIP, ByUserID and Login call Allow.
CallLimiter(r) ==
    /\ \/ At(r, "ByIP") /\ Ask(r, <<in[r].route, ClientIP(r, "SecurityHeaders")>>)
       \/ At(r, "ByUserID") /\ Ask(r, <<in[r].route, who[r].user>>)
       \/ At(r, "ByEmail") /\ Ask(r, <<"email", NormalizeEmail(in[r].email)>>)
    /\ stage' = [stage EXCEPT ![r] = "asking"]
    /\ UNCHANGED <<in, pos, who, read, status, log, paid>>

\* Faulty variant: a Redis failure lets the request pass.
FailureAdmits(r, verdict) ==
    IF verdict = "limited" THEN Respond(r, 429) ELSE Pass(r)

\* writeRateLimitResult: 429 or 503; the OAuth routes redirect with the reason.
Admit(r, verdict) ==
    IF verdict \in {"allowed", "uncounted"} THEN Pass(r)
    ELSE IF in[r].route \in {"begin", "callback"} THEN Respond(r, 302)
    ELSE Respond(r, IF verdict = "limited" THEN 429 ELSE 503)

LimiterAnswers(r) ==
    /\ stage[r] = "asking"
    /\ \E verdict \in {"allowed", "limited", "unavailable", "uncounted"} :
         /\ Check(r, verdict) \/ CheckFails(r, Policy(in[r].route), verdict)
         /\ Admit(r, verdict)
    /\ UNCHANGED <<in, who, read, log, paid>>

\* The client of Redis tries again while the request waits in Allow.
LimiterRetries(r) == stage[r] = "asking" /\ Resend(r) /\ UNCHANGED serverVars

-----------------------------------------------------------------------------
(* Handlers *)

\* The handlers of the other routes; Health and chi's NotFound cannot fail.
Handle(r) ==
    /\ stage[r] = "handler" /\ in[r].route \notin {"detect", "analyze"}
    /\ \E s \in CASE in[r].route = "healthz" -> {200}
                  [] in[r].route = "unknown" -> {404}
                  [] OTHER -> {200, 500} : Respond(r, s)
    /\ UNCHANGED <<limiterVars, in, who, read, log, paid>>

\* DetectLogos and AnalyzeCompany up to the paid call.
CheckLogoRequest(r) ==
    LET detect == in[r].route = "detect"
        refusals == IF detect THEN DetectRefusals(in[r]) ELSE AnalyzeRefusals(in[r])
    IN  /\ stage[r] = "handler" /\ in[r].route \in {"detect", "analyze"}
        /\ read' = [read EXCEPT ![r] =
                      IF detect THEN Minimum(in[r].body, DetectBodyLimit) ELSE read[r]]
        /\ \/ \E s \in refusals \ {0} : Respond(r, s)
           \/ /\ 0 \in refusals
              /\ stage' = [stage EXCEPT ![r] = "call"] /\ UNCHANGED <<pos, status>>
        /\ UNCHANGED <<limiterVars, in, who, log, paid>>

\* The request to the provider leaves.
Invoke(r) ==
    /\ stage[r] = "call"
    /\ paid' = paid \union {r}
    /\ stage' = [stage EXCEPT ![r] = "reply"]
    /\ UNCHANGED <<limiterVars, in, pos, who, read, status, log>>

\* The provider answers with something usable, or not, or the context ends.
Reply(r) ==
    /\ stage[r] = "reply"
    /\ \E s \in {200, 502} : Respond(r, s)
    /\ UNCHANGED <<limiterVars, in, who, read, log, paid>>

-----------------------------------------------------------------------------

Init ==
    /\ LimiterInit
    /\ in \in Scenarios
    /\ stage = [r \in Request |-> "new"] /\ pos = [r \in Request |-> 1]
    /\ who = [r \in Request |-> Nobody] /\ read = [r \in Request |-> 0]
    /\ status = [r \in Request |-> 0] /\ log = [r \in Request |-> <<>>]
    /\ paid = {}

Serve(r) ==
    \/ AuthRequired(r) \/ Protect(r) \/ Validate(r)
    \/ CallLimiter(r) \/ LimiterAnswers(r)
    \/ Handle(r) \/ CheckLogoRequest(r) \/ Invoke(r) \/ Reply(r)
    \/ Return(r) \/ Panic(r) \/ Abort(r)

Next ==
    \/ Tick /\ UNCHANGED serverVars
    \/ \E r \in Request : Arrive(r) \/ Serve(r) \/ LimiterRetries(r)

Spec == Init /\ [][Next]_vars
-----------------------------------------------------------------------------
(* Properties *)

ByIPRoute(route) == "ByIP" \in ToSet(Chain(route))

\* Whom a limit is about: the client behind an address, the user, the account.
Subject(d) ==
    CASE d.key[1] = "email" -> in[d.req].email[1]
      [] ByIPRoute(d.key[1]) -> in[d.req].peer
      [] OTHER -> in[d.req].user

About(d, e) == d.key[1] = e.key[1] /\ Subject(d) = Subject(e)

\* However late and out of order the scripts run, whatever the client writes into
\* X-Forwarded-For and however it spells its address, no Window - MaxDelay ticks
\* admit more than Limit requests of one subject (Allow, RealIP, NormalizeEmail).
LimitHolds ==
    \A d \in decided :
        d.verdict = "allowed" =>
            Cardinality({e \in decided : /\ e.verdict = "allowed" /\ About(e, d)
                                         /\ e.now \in d.now..(d.now + Window - MaxDelay - 1)})
                <= Limit

\* What may count against a request: calls that were not refused with 429, and
\* attempts that were let in and sent again, because the answer was lost.
Charges == {e \in decided : e.verdict # "limited"} \union lost

\* 429 is earned: Limit calls of Allow for the same subject, however often each was
\* sent, count within the window (Allow).  Nobody is refused for others; what counts
\* against a request may be an earlier attempt of its own.
RejectionIsEarned ==
    \A d \in decided :
        d.verdict = "limited" =>
            Cardinality({<<e.req, e.now>> : e \in {c \in Charges : About(c, d)
                                                     /\ c.now > d.now - Window /\ c.at <= d.at}})
                >= Limit

\* A request that ends leaves exactly one access-log record, with the status the
\* client saw, the client's own address and the trace of its headers: after a
\* panic at any stage, refusals and preflights included (AccessLog, Recover).
AnswersAreLogged ==
    \A r \in Request :
        /\ stage[r] = "closed" =>
              log[r] = <<[status |-> status[r], ip |-> in[r].peer,
                          trace |-> ResolveTrace(in[r])]>>
        /\ stage[r] # "closed" => log[r] = <<>>

\* A request refused for its address, its missing authentication or its missing
\* CSRF token costs no read of its body, and no body is read beyond the limit of
\* its route (the order NewRouter chooses, the limits of New and DetectLogos).
RefusedUnread ==
    \A r \in Request :
        /\ status[r] \in {401, 403} => read[r] = 0
        /\ (\E d \in decided : /\ d.req = r /\ ByIPRoute(d.key[1])
                               /\ d.verdict \in {"limited", "unavailable"}) => read[r] = 0
        /\ read[r] <= IF in[r].route = "detect" THEN DetectBodyLimit ELSE MaxBody

\* A provider is called only for a request that was authenticated, not forged
\* across sites, counted against the user's quota and within the limits; no
\* refusal is ever paid for, and 413 is truthful (ByUserID, DetectLogos,
\* AnalyzeCompany).
PaidCallIsCharged ==
    /\ \A r \in paid :
          /\ ExtractToken(in[r]).token \in {"valid", "revoked"}
          /\ in[r].cookie # "none" => in[r].csrf
          /\ \E d \in decided : /\ d.req = r /\ d.verdict = "allowed"
                                /\ d.key = <<in[r].route, in[r].user>>
          /\ in[r].wellformed
          /\ IF in[r].route = "detect" THEN in[r].image \in 1..MaxImage
             ELSE in[r].body <= MaxBody /\ in[r].name
          /\ status[r] \in {0, 200, 500, 502}
    /\ \A r \in Request :
          status[r] = 413 => IF in[r].route = "detect" THEN in[r].body > MaxImage
                             ELSE in[r].body > MaxBody

FirstPlace(name, logos) ==
    CHOOSE n \in DOMAIN logos : /\ logos[n].name = name
                                /\ \A m \in 1..(n - 1) : logos[m].name # name

\* The definition that deduplicateLogos is compared with.
DeduplicationIsRight ==
    \A logos \in Annotations :
        LET unique == DeduplicateLogos(logos)
            names(s) == {s[n].name : n \in DOMAIN s}
        IN  /\ names(unique) = names(logos)
            /\ \A n \in DOMAIN unique :
                  /\ unique[n] \in ToSet(logos)
                  /\ \A logo \in ToSet(logos) :
                        logo.name = unique[n].name => logo.confidence <= unique[n].confidence
            /\ \A m, n \in DOMAIN unique :
                  m < n => FirstPlace(unique[m].name, logos) < FirstPlace(unique[n].name, logos)

\* Whatever Vision answers, the client gets every logo once, with the best
\* confidence reported for it, in the order of first appearance
\* (deduplicateLogos).
BestOfEachLogo ==
    (\E r \in paid : in[r].route = "detect") => DeduplicationIsRight
=============================================================================
