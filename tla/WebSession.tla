----------------------------- MODULE WebSession -----------------------------
(***************************************************************************)
(* One browser's session as the HTTP layer sees it: the auth handlers       *)
(* (authhttp/handler.go), the three cookies they set, the JWT middleware    *)
(* with its Redis blacklist, and the double-submit CSRF middleware, on top  *)
(* of the refresh-session store.  The store appears as RefreshSession       *)
(* proves it behaves: every transaction is one atomic step.                 *)
(*                                                                          *)
(* Several requests of the browser are in flight at once.  A request takes  *)
(* the cookies of the moment it is sent, the server handles requests in any *)
(* order, and responses reach the cookie jar in any order or not at all.    *)
(* A refresh token, the access token issued with it (its jti) and the CSRF  *)
(* token of the same response are named by one element of Token.            *)
(***************************************************************************)
EXTENDS Naturals

CONSTANTS
    Token,       \* token triples, one per issued or rotated session
    Request,     \* concurrent requests of the browser
    None,
    AccessTTL,   \* jwt.DefaultTokenTTL, also authCookieMaxAge
    RefreshTTL,  \* DefaultRefreshTokenTTL, also refreshCookieMaxAge
    Grace,       \* refreshTokenReuseGracePeriod
    MaxClock     \* bound on the clock

ASSUME WebConstants ==
    /\ None \notin Token \union Nat /\ {"keep", "clear"} \cap Token = {}
    /\ {AccessTTL, RefreshTTL, Grace, MaxClock} \subseteq Nat
    /\ 0 < AccessTTL /\ AccessTTL < RefreshTTL

VARIABLES
    clock,
    sessions,   \* refresh_sessions: [Token -> Session]
    blacklist,  \* Redis: when the entry of a jti expires, 0 for no entry
    redisUp,
    jar,        \* the browser's cookies
    req,        \* requests and their responses in flight
    standing    \* history: "anonymous" until a login is received, "disturbed"
                \* once a logout, a denial or a lost response intervened

vars == <<clock, sessions, blacklist, redisUp, jar, req, standing>>

TokenOrNone == Token \cup {None}
-----------------------------------------------------------------------------
(* The session store, each operation one step.                              *)

Session == [issuedAt   : Nat \cup {None},  \* None: not issued
            family     : TokenOrNone,      \* named by its first token
            consumedAt : Nat \cup {None},
            revokedAt  : Nat \cup {None}]

Issued(t) == sessions[t].issuedAt # None
Expired(t) == clock >= sessions[t].issuedAt + RefreshTTL
Exchangeable(t) == /\ Issued(t) /\ sessions[t].revokedAt = None
                   /\ sessions[t].consumedAt = None /\ ~Expired(t)

NewSession(f) == [issuedAt |-> clock, family |-> f,
                  consumedAt |-> None, revokedAt |-> None]

\* Rotate of t to next.
Rotated(t, next) ==
    [sessions EXCEPT ![t] = [@ EXCEPT !.consumedAt = clock],
                     ![next] = NewSession(sessions[t].family)]

RevokedFamily(t) ==
    [u \in Token |->
        IF sessions[u].family = sessions[t].family /\ sessions[u].revokedAt = None
        THEN [sessions[u] EXCEPT !.revokedAt = clock] ELSE sessions[u]]

\* Faulty variant: revoked_at is not looked at.
VerdictOnRevoked(t) ==
    IF sessions[t].consumedAt # None THEN {"conflict"}
    ELSE {IF Expired(t) THEN "expired" ELSE "ok"}

\* What Rotate decides about a stored session; a session past its expiry may
\* already be gone from the table.
Verdict(t) ==
    LET s == sessions[t] IN
    IF s.revokedAt # None THEN {"invalid"}
    ELSE (IF s.consumedAt # None
          THEN {IF clock <= s.consumedAt + Grace THEN "conflict" ELSE "reused"}
          ELSE {IF Expired(t) THEN "expired" ELSE "ok"})
         \cup (IF clock > s.issuedAt + RefreshTTL THEN {"invalid"} ELSE {})
-----------------------------------------------------------------------------
(* Cookies.  The three cookies are always set together and cleared together, *)
(* so the jar is the token of the response that set them and the time of its *)
(* receipt, from which each Max-Age counts.                                  *)

Jar == [token : TokenOrNone, since : Nat]
EmptyJar == [token |-> None, since |-> 0]

\* The browser sends a cookie until its Max-Age is over.
Cookie(maxAge) == IF clock < jar.since + maxAge THEN jar.token ELSE None

AccessCookie == Cookie(AccessTTL)
RefreshCookie == Cookie(RefreshTTL)

\* Faulty variant: the CSRF cookie is given the access token's Max-Age.
CsrfCookieShort == Cookie(AccessTTL)

CsrfCookie == Cookie(RefreshTTL)
-----------------------------------------------------------------------------
(* Requests.  "write" stands for the protected routes that change state.    *)

Op == {"login", "refresh", "logout", "write"}

\* What a response does to the jar: keep it, clear it, or set it to a token.
Effect == {"keep", "clear"} \cup Token

ReqState == [pc      : {"idle", "sent", "answered"},
             op      : Op \cup {None},
             access  : TokenOrNone,   \* auth_token cookie
             refresh : TokenOrNone,   \* refresh_token cookie
             own     : BOOLEAN,       \* sent by the page's script
             csrf    : BOOLEAN,       \* X-CSRF-Token equals the csrf_token cookie
             effect  : Effect]

IdleReq == [pc |-> "idle", op |-> None, access |-> None, refresh |-> None,
            csrf |-> FALSE, own |-> FALSE, effect |-> "keep"]

Init ==
    /\ clock = 0
    /\ sessions = [t \in Token |-> [issuedAt |-> None, family |-> None,
                                    consumedAt |-> None, revokedAt |-> None]]
    /\ blacklist = [t \in Token |-> 0]
    /\ redisUp = TRUE
    /\ jar = EmptyJar
    /\ req = [r \in Request |-> IdleReq]
    /\ standing = "anonymous"

Tick ==
    /\ clock < MaxClock
    /\ clock' = clock + 1
    /\ UNCHANGED <<sessions, blacklist, redisUp, jar, req, standing>>

RedisFailsOrRecovers ==
    /\ redisUp' = ~redisUp
    /\ UNCHANGED <<clock, sessions, blacklist, jar, req, standing>>

\* The page's script repeats the csrf_token cookie, if there is one, in the
\* header.  A header read before another response replaced the cookie, or no
\* header at all, does not match.  The login handler looks at no cookie.
Send(r, op, own) ==
    /\ req[r].pc = "idle"
    /\ req' = [req EXCEPT ![r] =
                 IF op = "login" THEN [IdleReq EXCEPT !.pc = "sent", !.op = op]
                 ELSE [IdleReq EXCEPT !.pc = "sent", !.op = op,
                                      !.access = AccessCookie,
                                      !.refresh = RefreshCookie,
                                      !.own = own,
                                      !.csrf = own /\ CsrfCookie # None]]
    /\ UNCHANGED <<clock, sessions, blacklist, redisUp, jar, standing>>

\* A response matters to the browser through the cookies it sets or clears;
\* any other one ends the request here, whatever its status.
Answer(r, effect) ==
    req' = [req EXCEPT ![r] =
              IF effect = "keep" THEN IdleReq
              ELSE [IdleReq EXCEPT !.pc = "answered", !.effect = effect]]

-----------------------------------------------------------------------------
(* Middleware.                                                              *)

\* csrf.Protect("auth_token", "refresh_token") of the public routes checks
\* only requests that carry one of these cookies.
CsrfPasses(r) ==
    \/ req[r].access = None /\ req[r].refresh = None
    \/ req[r].csrf

\* parseToken: gojwt accepts a token strictly before its exp.
ValidJWT(t) == t # None /\ clock < sessions[t].issuedAt + AccessTTL

\* Blacklist.IsRevoked fails open.
IsRevoked(t) == redisUp /\ clock < blacklist[t]

\* Faulty variant: the entry lives one tick less than the token.
BlacklistTooShort(t) ==
    IF redisUp /\ ValidJWT(t)
    THEN [blacklist EXCEPT ![t] = sessions[t].issuedAt + AccessTTL - 1]
    ELSE blacklist

\* RevokeRequestToken: a valid token is listed for its remaining lifetime; a
\* Redis failure is only logged.
Blacklisted(t) ==
    IF redisUp /\ ValidJWT(t)
    THEN [blacklist EXCEPT ![t] = sessions[t].issuedAt + AccessTTL]
    ELSE blacklist

-----------------------------------------------------------------------------
(* Handlers.  CSRF tokens are drawn before the session is written, so a      *)
(* failure to draw one is an error with no effect.  Sessions have no HTTP    *)
(* effect of their own: a write that commits although its acknowledgement is *)
(* lost is answered as an error.                                             *)

FreshToken(t) == ~Issued(t)

\* A response that leaves cookies and sessions alone: refused by csrf.Protect or
\* a rate limiter, invalid credentials, no refresh cookie, store unavailable.
Refused(r) ==
    /\ Answer(r, "keep")
    /\ UNCHANGED <<sessions, standing>>

\* (A session committed by a login that then reports failure is known to no
\* one, and left out.)
Login(r) ==
    /\ req[r].op = "login"
    /\ \/ Refused(r)
       \/ \E t \in Token :
            /\ FreshToken(t)
            /\ sessions' = [sessions EXCEPT ![t] = NewSession(t)]
            /\ Answer(r, t)
            /\ UNCHANGED standing
    /\ UNCHANGED blacklist

\* Faulty variant: every failed exchange clears the cookies.
ConflictClears(r, verdict) ==
    Answer(r, "clear") /\ verdict \in {"invalid", "expired", "reused", "conflict"}

\* 409 leaves the cookies alone; invalid, expired and reused clear them.
RefreshFailed(r, verdict) ==
    IF verdict = "conflict" THEN Answer(r, "keep")
                            ELSE Answer(r, "clear")

Exchange(r, t) ==
    \/ /\ "ok" \in Verdict(t)
       /\ \E next \in Token :
            /\ FreshToken(next)
            /\ sessions' = Rotated(t, next)
            /\ \/ /\ Answer(r, next)
                  /\ UNCHANGED standing
               \/ /\ Answer(r, "keep")
                  /\ standing' = "disturbed"
    \/ \E verdict \in Verdict(t) \ {"ok"} :
         /\ RefreshFailed(r, verdict)
         /\ standing' = IF verdict = "conflict" THEN standing ELSE "disturbed"
         /\ sessions' = IF verdict = "reused" THEN RevokedFamily(t) ELSE sessions

Refresh(r) ==
    /\ req[r].op = "refresh"
    /\ \/ Refused(r)
       \/ /\ CsrfPasses(r) /\ req[r].refresh # None
          /\ Exchange(r, req[r].refresh)
    /\ UNCHANGED blacklist

\* Revoke of the presented refresh token; without one, a success.  The cookies
\* are cleared whatever Revoke returns.
RevokeSession(r) ==
    \/ /\ req[r].refresh = None
       /\ Answer(r, "clear")
       /\ UNCHANGED sessions
    \/ /\ req[r].refresh # None
       /\ sessions' = RevokedFamily(req[r].refresh)
       /\ Answer(r, "clear")
    \/ /\ req[r].refresh # None
       /\ Answer(r, "clear")
       /\ UNCHANGED sessions

Logout(r) ==
    /\ req[r].op = "logout"
    /\ \/ ~CsrfPasses(r) /\ Refused(r) /\ UNCHANGED blacklist
       \/ /\ CsrfPasses(r)
          /\ blacklist' = Blacklisted(req[r].access)
          /\ RevokeSession(r)
          /\ standing' = "disturbed"

\* AuthRequired, then csrf.Protect(): 401 or 403 otherwise.
Authorized(r) ==
    /\ ValidJWT(req[r].access) /\ ~IsRevoked(req[r].access)
    /\ req[r].csrf

\* What a protected route does belongs to other features.
Write(r) ==
    /\ req[r].op = "write"
    /\ Answer(r, "keep")
    /\ UNCHANGED <<sessions, standing, blacklist>>

Handle(r) ==
    /\ req[r].pc = "sent"
    /\ Login(r) \/ Refresh(r) \/ Logout(r) \/ Write(r)
    /\ UNCHANGED <<clock, redisUp, jar>>

\* The response reaches the browser, or is lost.
Receive(r) ==
    /\ req[r].pc = "answered"
    /\ jar' = IF req[r].effect = "keep" THEN jar
              ELSE IF req[r].effect = "clear" THEN EmptyJar
              ELSE [token |-> req[r].effect, since |-> clock]
    /\ standing' = IF standing = "anonymous" /\ req[r].effect \in Token
                   THEN "loggedIn" ELSE standing
    /\ req' = [req EXCEPT ![r] = IdleReq]
    /\ UNCHANGED <<clock, sessions, blacklist, redisUp>>

Lose(r) ==
    /\ req[r].pc # "idle"
    /\ req' = [req EXCEPT ![r] = IdleReq]
    /\ standing' = IF req[r].effect = "keep" THEN standing ELSE "disturbed"
    /\ UNCHANGED <<clock, sessions, blacklist, redisUp, jar>>

Next ==
    \/ Tick
    \/ RedisFailsOrRecovers
    \/ \E r \in Request :
        \/ \E op \in Op, own \in BOOLEAN : Send(r, op, own)
        \/ Handle(r)
        \/ Receive(r)
        \/ Lose(r)

Spec == Init /\ [][Next]_vars

-----------------------------------------------------------------------------
(* Properties.                                                              *)

\* Every variable has its type; the jar and the requests hold only cookies the
\* handlers set.
TypeOK ==
    /\ clock \in Nat
    /\ sessions \in [Token -> Session]
    /\ blacklist \in [Token -> Nat]
    /\ redisUp \in BOOLEAN
    /\ jar \in Jar
    /\ req \in [Request -> ReqState]
    /\ standing \in {"anonymous", "loggedIn", "disturbed"}

\* A request whose X-CSRF-Token repeats the cookie jar is never refused with
\* 403: the csrf_token cookie is there whenever one of the cookies that
\* csrf.Protect looks for is there, after the access token has expired too.
OwnRequestsPassCsrf ==
    \A r \in Request : req[r].pc = "sent" /\ req[r].own => CsrfPasses(r)

\* Concurrent refreshes never log a client out: with no response lost and no
\* logout or definite denial (invalid, expired, reused) ever answered, a
\* browser with nothing in flight that was logged in holds an exchangeable
\* refresh token, until that expires.  409 must leave the cookies alone.
ConcurrentRefreshKeepsSession ==
    (\A r \in Request : req[r].pc = "idle") /\ standing = "loggedIn" =>
        /\ jar # EmptyJar
        /\ Exchangeable(jar.token) \/ Expired(jar.token)

\* AuthRequired and csrf.Protect would let the request through now.
Accepted(r) == req[r].pc = "sent" /\ req[r].op = "write" /\ Authorized(r)

\* Logout is immediate: while Redis answers, an access token that a logout put
\* on the blacklist is never let through again by AuthRequired, up to the last
\* instant at which the token itself is valid.
LogoutIsImmediate ==
    \A r \in Request :
        Accepted(r) /\ redisUp => blacklist[req[r].access] = 0

\* Without Redis, and with refreshes that cross the logout, an access token of
\* a revoked family is let through for at most AccessTTL after the revocation.
EndedSessionsFade ==
    \A r \in Request, u \in Token :
        /\ Accepted(r)
        /\ sessions[u].family = sessions[req[r].access].family
        /\ sessions[u].revokedAt # None
        => clock < sessions[u].revokedAt + AccessTTL
=============================================================================
