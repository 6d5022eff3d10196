-------------------------- MODULE WebSessionProofs ---------------------------
(***************************************************************************)
(* WebSession, for every number of tokens, concurrent requests and ticks,   *)
(* and for every lifetime of tokens and cookies.                            *)
(***************************************************************************)
EXTENDS WebSession, TLAPS

-----------------------------------------------------------------------------
(* The inductive invariant *)

\* Requests carry, and responses set, only tokens that were issued.
Known(t) == t # None => t \in Token /\ Issued(t)

KnownTokens ==
    /\ Known(jar.token)
    /\ \A r \in Request :
          /\ Known(req[r].access) /\ Known(req[r].refresh)
          /\ req[r].effect \in Token => Issued(req[r].effect)
          /\ req[r].effect # "keep" <=> req[r].pc = "answered"

\* A token belongs to a family exactly from its issue on.
Families ==
    \A t \in Token :
        /\ Issued(t) => /\ sessions[t].issuedAt <= clock
                        /\ sessions[t].family \in Token /\ Issued(sessions[t].family)
        /\ ~Issued(t) => sessions[t].family = None /\ sessions[t].revokedAt = None

\* A family is revoked as a whole, and nothing is issued to it afterwards.
RevokedTogether ==
    \A t, u \in Token :
        Issued(t) /\ sessions[t].family = sessions[u].family /\ sessions[t].revokedAt # None =>
            sessions[u].revokedAt # None /\ sessions[u].issuedAt <= sessions[t].revokedAt

\* A listed jti stays listed for as long as its token lives.
ListedForLife ==
    \A t \in Token :
        blacklist[t] # 0 => Issued(t) /\ blacklist[t] = sessions[t].issuedAt + AccessTTL

\* A token is live until it is exchanged or revoked.
Live(t) == Issued(t) /\ sessions[t].consumedAt = None /\ sessions[t].revokedAt = None

\* With no logout, denial or lost response: a token on its way to the browser is
\* live, on its way once, and held by nobody else; and the browser holds a live
\* token or will receive one.
OnItsWay(t) == \E r \in Request : req[r].effect = t
Undisturbed ==
    /\ \A t \in Token : sessions[t].revokedAt = None
    /\ \A r \in Request : req[r].effect # "clear"
    /\ \A t \in Token : OnItsWay(t) =>
          /\ Live(t) /\ jar.token # t
          /\ \A r \in Request : req[r].refresh # t
    /\ \A q, r \in Request : req[q].effect \in Token /\ req[q].effect = req[r].effect => q = r
    /\ standing = "loggedIn" => jar.token # None
    /\ jar.token # None => Live(jar.token) \/ \E t \in Token : OnItsWay(t)

StandingInv == standing # "disturbed" => Undisturbed

WebInv ==
    /\ TypeOK /\ OwnRequestsPassCsrf /\ KnownTokens /\ Families /\ RevokedTogether /\ ListedForLife
    /\ StandingInv

-----------------------------------------------------------------------------
(* What a step does *)

\* How sessions may change: a login, an exchange of t, or the end of t's family.
IssuedTo(t) == FreshToken(t) /\ sessions' = [sessions EXCEPT ![t] = NewSession(t)]
Exchanged(t, next) ==
    /\ t \in Token /\ Live(t) /\ FreshToken(next) /\ sessions' = Rotated(t, next)
Ended(r) ==
    \/ sessions' = sessions
    \/ /\ req[r].refresh \in Token /\ Issued(req[r].refresh)
       /\ sessions' = RevokedFamily(req[r].refresh)

Kept(r) == sessions' = sessions /\ Answer(r, "keep") /\ UNCHANGED <<standing, blacklist>>
Began(r, t) == t \in Token /\ IssuedTo(t) /\ Answer(r, t) /\ UNCHANGED <<standing, blacklist>>
Renewed(r, next) ==
    /\ next \in Token /\ Exchanged(req[r].refresh, next) /\ UNCHANGED blacklist
    /\ \/ Answer(r, next) /\ UNCHANGED standing
       \/ Answer(r, "keep") /\ standing' = "disturbed"
Closed(r) ==
    /\ Ended(r) /\ Answer(r, "clear") /\ standing' = "disturbed"
    /\ blacklist' = blacklist \/ blacklist' = Blacklisted(req[r].access)

LEMMA HandleCases ==
    ASSUME KnownTokens, NEW r \in Request, Handle(r)
    PROVE  /\ req[r].pc = "sent" /\ UNCHANGED <<clock, redisUp, jar>>
           /\ \/ Kept(r) \/ (\E t : Began(r, t)) \/ (\E t : Renewed(r, t)) \/ Closed(r)
<1>1. Known(req[r].refresh)
    BY DEF KnownTokens
<1>2. CASE Login(r)
    BY <1>2 DEF Handle, Login, Refused, Kept, Began, IssuedTo
<1>3. CASE Refresh(r)
    <2>1. CASE Refused(r)
        BY <1>3, <2>1 DEF Handle, Refresh, Refused, Kept
    <2>2. CASE req[r].refresh # None /\ Exchange(r, req[r].refresh)
        <3> DEFINE t == req[r].refresh
        <3>0. t \in Token /\ Issued(t) /\ UNCHANGED blacklist
            BY <1>1, <1>3, <2>2 DEF Known, Refresh
        <3> HIDE DEF t
        <3>1. CASE "ok" \in Verdict(t) /\ \E next \in Token :
                      /\ FreshToken(next) /\ sessions' = Rotated(t, next)
                      /\ \/ Answer(r, next) /\ UNCHANGED standing
                         \/ Answer(r, "keep") /\ standing' = "disturbed"
            <4>1. Live(t)
                BY <3>0, <3>1 DEF Verdict, Live
            <4> QED
                BY <1>3, <3>0, <3>1, <4>1 DEF Handle, Renewed, Exchanged, t
        <3>2. ASSUME NEW verdict \in Verdict(t) \ {"ok"}, RefreshFailed(r, verdict),
                     standing' = IF verdict = "conflict" THEN standing ELSE "disturbed",
                     sessions' = IF verdict = "reused" THEN RevokedFamily(t) ELSE sessions
              PROVE  Kept(r) \/ Closed(r)
            <4>1. CASE verdict = "conflict"
                BY <3>0, <3>2, <4>1 DEF RefreshFailed, Kept
            <4>2. CASE verdict # "conflict"
                BY <3>0, <3>2, <4>2 DEF RefreshFailed, Closed, Ended, t
            <4> QED
                BY <4>1, <4>2
        <3> QED
            BY <1>3, <2>2, <3>1, <3>2 DEF Exchange, Handle, t
    <2> QED
        BY <1>3, <2>1, <2>2 DEF Refresh
<1>4. CASE Logout(r)
    <2>1. CASE Refused(r) /\ UNCHANGED blacklist
        BY <1>4, <2>1 DEF Handle, Refused, Kept
    <2>2. CASE blacklist' = Blacklisted(req[r].access) /\ RevokeSession(r) /\ standing' = "disturbed"
        <3>1. Ended(r) /\ Answer(r, "clear")
            BY <1>1, <2>2 DEF RevokeSession, Ended, Known
        <3> QED
            BY <2>2, <3>1 DEF Handle, Closed
    <2> QED
        BY <1>4, <2>1, <2>2 DEF Logout
<1>5. CASE Write(r)
    BY <1>5 DEF Handle, Write, Kept
<1> QED
    BY <1>2, <1>3, <1>4, <1>5 DEF Handle

\* A response replaces the request, and nothing else.
LEMMA Answered ==
    ASSUME TypeOK, NEW r \in Request, NEW effect \in Effect, Answer(r, effect)
    PROVE  /\ req' \in [Request -> ReqState]
           /\ \A q \in Request \ {r} : req'[q] = req[q]
           /\ req'[r].access = None /\ req'[r].refresh = None /\ req'[r].effect = effect
           /\ req'[r].pc = IF effect = "keep" THEN "idle" ELSE "answered"
<1> USE WebConstants DEF TypeOK
<1>1. CASE effect = "keep"
    BY <1>1 DEF Answer, ReqState, IdleReq, TokenOrNone
<1>2. CASE effect # "keep"
    BY <1>2 DEF Answer, ReqState, IdleReq, TokenOrNone
<1> QED
    BY <1>1, <1>2

\* The store, point by point.
LEMMA StoreIssues ==
    ASSUME TypeOK, NEW t \in Token, IssuedTo(t)
    PROVE  /\ sessions' \in [Token -> Session] /\ ~Issued(t)
           /\ \A u \in Token \ {t} : sessions'[u] = sessions[u]
           /\ sessions'[t] = NewSession(t)
BY WebConstants DEF TypeOK, IssuedTo, FreshToken, NewSession, Session, TokenOrNone

LEMMA StoreExchanges ==
    ASSUME TypeOK, NEW t, NEW next \in Token, Exchanged(t, next)
    PROVE  /\ sessions' \in [Token -> Session] /\ ~Issued(next) /\ t # next
           /\ \A u \in Token \ {t, next} : sessions'[u] = sessions[u]
           /\ sessions'[next] = NewSession(sessions[t].family)
           /\ sessions'[t] = [sessions[t] EXCEPT !.consumedAt = clock]
<1>1. t \in Token /\ Live(t) /\ ~Issued(next) /\ sessions' = Rotated(t, next)
    BY DEF Exchanged, FreshToken
<1>2. t # next
    BY <1>1 DEF Live
<1>3. sessions[t] \in Session /\ sessions[t].family \in TokenOrNone /\ clock \in Nat
    BY <1>1 DEF TypeOK, Session
<1>4. /\ [sessions[t] EXCEPT !.consumedAt = clock] \in Session
      /\ NewSession(sessions[t].family) \in Session
    BY <1>3 DEF Session, NewSession
<1> QED
    BY <1>1, <1>2, <1>4 DEF TypeOK, Rotated

LEMMA StoreEnds ==
    ASSUME TypeOK, NEW r \in Request, Ended(r)
    PROVE  /\ sessions' \in [Token -> Session]
           /\ \A u \in Token : /\ sessions'[u].issuedAt = sessions[u].issuedAt
                               /\ sessions'[u].family = sessions[u].family
           /\ \/ sessions' = sessions
              \/ \E t \in Token : /\ Issued(t)
                    /\ \A u \in Token : sessions'[u].revokedAt =
                          IF sessions[u].family = sessions[t].family /\ sessions[u].revokedAt = None
                          THEN clock ELSE sessions[u].revokedAt
<1>1. CASE sessions' = sessions
    BY <1>1 DEF TypeOK
<1>2. CASE /\ req[r].refresh \in Token /\ Issued(req[r].refresh)
           /\ sessions' = RevokedFamily(req[r].refresh)
    <2> DEFINE t == req[r].refresh
    <2>1. t \in Token /\ Issued(t) /\ sessions' = RevokedFamily(t)
        BY <1>2
    <2> HIDE DEF t
    <2>2. \A u \in Token : sessions[u] \in Session /\ clock \in Nat
        BY DEF TypeOK
    <2>3. \A u \in Token : [sessions[u] EXCEPT !.revokedAt = clock] \in Session
        BY <2>2 DEF Session
    <2>4. sessions' \in [Token -> Session]
        BY <2>1, <2>2, <2>3 DEF RevokedFamily
    <2>5. ASSUME NEW u \in Token
          PROVE  /\ sessions'[u].issuedAt = sessions[u].issuedAt
                 /\ sessions'[u].family = sessions[u].family
                 /\ sessions'[u].revokedAt =
                       IF sessions[u].family = sessions[t].family /\ sessions[u].revokedAt = None
                       THEN clock ELSE sessions[u].revokedAt
        BY <2>1, <2>2 DEF RevokedFamily, Session
    <2> QED
        BY <2>1, <2>4, <2>5
<1> QED
    BY <1>1, <1>2 DEF Ended

\* What a request takes along.
LEMMA Sent ==
    ASSUME TypeOK, NEW r \in Request, NEW op \in Op, NEW own \in BOOLEAN, Send(r, op, own)
    PROVE  /\ req' \in [Request -> ReqState] /\ req[r].pc = "idle"
           /\ \A q \in Request \ {r} : req'[q] = req[q]
           /\ req'[r].access \in {jar.token, None} /\ req'[r].refresh \in {jar.token, None}
           /\ req'[r].effect = "keep" /\ req'[r].pc = "sent"
           /\ req'[r].own => req'[r].csrf \/ (req'[r].access = None /\ req'[r].refresh = None)
           /\ UNCHANGED <<clock, sessions, blacklist, redisUp, jar, standing>>
<1> DEFINE new == IF op = "login" THEN [IdleReq EXCEPT !.pc = "sent", !.op = op]
                  ELSE [IdleReq EXCEPT !.pc = "sent", !.op = op, !.access = AccessCookie,
                                       !.refresh = RefreshCookie, !.own = own,
                                       !.csrf = own /\ CsrfCookie # None]
<1>1. req' = [req EXCEPT ![r] = new]
    BY DEF Send
<1>2. /\ AccessCookie \in {jar.token, None} /\ RefreshCookie \in {jar.token, None}
      /\ jar.token \in TokenOrNone
    BY DEF AccessCookie, RefreshCookie, Cookie, TypeOK, Jar
<1>3. CsrfCookie = None => AccessCookie = None /\ RefreshCookie = None
    <2>1. clock \in Nat /\ jar.since \in Nat /\ AccessTTL \in Nat /\ RefreshTTL \in Nat
          /\ AccessTTL < RefreshTTL
        BY WebConstants DEF TypeOK, Jar
    <2>2. clock < jar.since + AccessTTL => clock < jar.since + RefreshTTL
        BY <2>1
    <2> QED
        BY <2>2 DEF AccessCookie, RefreshCookie, CsrfCookie, Cookie
<1>5. /\ new \in ReqState /\ new.access \in {jar.token, None} /\ new.refresh \in {jar.token, None}
      /\ new.effect = "keep" /\ new.pc = "sent"
      /\ new.own => new.csrf \/ (new.access = None /\ new.refresh = None)
    <2>1. CASE op = "login"
        BY <2>1 DEF ReqState, IdleReq, Effect, TokenOrNone, Op
    <2>2. CASE op # "login"
        BY <1>2, <1>3, <2>2 DEF ReqState, IdleReq, Effect, TokenOrNone, Op
    <2> QED
        BY <2>1, <2>2
<1> HIDE DEF new
<1>6. req'[r] = new /\ req' \in [Request -> ReqState] /\ \A q \in Request \ {r} : req'[q] = req[q]
    BY <1>1, <1>5 DEF TypeOK
<1> QED
    BY <1>5, <1>6 DEF Send

\* A request ends, by a response that arrives or by one that is lost.
LEMMA Idled ==
    ASSUME TypeOK, NEW r \in Request, req' = [req EXCEPT ![r] = IdleReq]
    PROVE  /\ req' \in [Request -> ReqState]
           /\ \A q \in Request \ {r} : req'[q] = req[q]
           /\ req'[r].access = None /\ req'[r].refresh = None /\ req'[r].effect = "keep"
           /\ req'[r].pc = "idle"
BY DEF TypeOK, ReqState, IdleReq, Effect, TokenOrNone

LEMMA HandleType ==
    ASSUME TypeOK, KnownTokens, NEW r \in Request, Handle(r) PROVE TypeOK'
<1> USE DEF TypeOK
<1>1. UNCHANGED <<clock, redisUp, jar>>
    BY HandleCases
<1>2. "keep" \in Effect /\ "clear" \in Effect /\ Token \subseteq Effect
    BY DEF Effect
<1>3. CASE Kept(r)
    BY <1>1, <1>2, <1>3, Answered DEF Kept
<1>4. ASSUME NEW t, Began(r, t) PROVE TypeOK'
    <2>1. sessions' \in [Token -> Session]
        BY <1>4, StoreIssues DEF Began
    <2>2. req' \in [Request -> ReqState]
        BY <1>2, <1>4, Answered DEF Began
    <2> QED
        BY <1>1, <1>4, <2>1, <2>2 DEF Began
<1>5. ASSUME NEW t, Renewed(r, t) PROVE TypeOK'
    <2>1. sessions' \in [Token -> Session]
        BY <1>5, StoreExchanges DEF Renewed
    <2>2. req' \in [Request -> ReqState]
        BY <1>2, <1>5, Answered DEF Renewed
    <2> QED
        BY <1>1, <1>5, <2>1, <2>2 DEF Renewed
<1>6. CASE Closed(r)
    <2>1. sessions' \in [Token -> Session]
        BY <1>6, StoreEnds DEF Closed
    <2>2. req' \in [Request -> ReqState]
        BY <1>2, <1>6, Answered DEF Closed
    <2>3. Blacklisted(req[r].access) \in [Token -> Nat]
        <3>1. CASE redisUp /\ ValidJWT(req[r].access)
            <4>1. req[r].access \in Token /\ Issued(req[r].access)
                BY <3>1 DEF ValidJWT, KnownTokens, Known
            <4>2. sessions[req[r].access].issuedAt \in Nat /\ AccessTTL \in Nat
                BY <4>1, WebConstants DEF Session, Issued
            <4>3. sessions[req[r].access].issuedAt + AccessTTL \in Nat
                BY <4>2
            <4> QED
                BY <3>1, <4>3 DEF Blacklisted
        <3> QED
            BY <3>1 DEF Blacklisted
    <2> QED
        BY <1>1, <1>6, <2>1, <2>2, <2>3 DEF Closed
<1> QED
    BY <1>3, <1>4, <1>5, <1>6, HandleCases

LEMMA NextType ==
    ASSUME TypeOK, KnownTokens, [Next]_vars PROVE TypeOK'
<1>1. CASE Tick
    BY <1>1 DEF Tick, TypeOK
<1>2. CASE RedisFailsOrRecovers
    BY <1>2 DEF RedisFailsOrRecovers, TypeOK
<1>3. ASSUME NEW r \in Request, NEW op \in Op, NEW own \in BOOLEAN, Send(r, op, own) PROVE TypeOK'
    BY <1>3, Sent DEF TypeOK
<1>4. ASSUME NEW r \in Request, Handle(r) PROVE TypeOK'
    BY <1>4, HandleType
<1>5. ASSUME NEW r \in Request, Receive(r) PROVE TypeOK'
    <2>1. req' \in [Request -> ReqState]
        BY <1>5, Idled DEF Receive
    <2>2. jar' \in Jar
        <3>1. req[r].effect \in Effect /\ clock \in Nat
            BY DEF TypeOK, ReqState
        <3> QED
            BY <1>5, <3>1 DEF Receive, TypeOK, Jar, EmptyJar, TokenOrNone, Effect
    <2>3. standing' \in {"anonymous", "loggedIn", "disturbed"}
        BY <1>5 DEF Receive, TypeOK
    <2> QED
        BY <1>5, <2>1, <2>2, <2>3 DEF Receive, TypeOK
<1>6. ASSUME NEW r \in Request, Lose(r) PROVE TypeOK'
    <2>1. req' \in [Request -> ReqState]
        BY <1>6, Idled DEF Lose
    <2> QED
        BY <1>6, <2>1 DEF Lose, TypeOK
<1>7. CASE UNCHANGED vars
    BY <1>7 DEF vars, TypeOK
<1> QED
    BY <1>1, <1>2, <1>3, <1>4, <1>5, <1>6, <1>7 DEF Next

-----------------------------------------------------------------------------
(* Steps preserve the invariant *)

\* A session once issued keeps its issue and its family; it may be consumed or
\* revoked, and only an unknown token is new.
LEMMA StoreKeeps ==
    ASSUME TypeOK, KnownTokens, NEW r \in Request, Handle(r), NEW t \in Token, Issued(t)
    PROVE  /\ sessions'[t].issuedAt = sessions[t].issuedAt /\ sessions'[t].family = sessions[t].family
           /\ Issued(t)'
<1> SUFFICES /\ sessions'[t].issuedAt = sessions[t].issuedAt
             /\ sessions'[t].family = sessions[t].family
    BY DEF Issued
<1>1. CASE Kept(r)
    BY <1>1 DEF Kept
<1>2. ASSUME NEW u, Began(r, u)
      PROVE  /\ sessions'[t].issuedAt = sessions[t].issuedAt
             /\ sessions'[t].family = sessions[t].family
    BY <1>2, StoreIssues DEF Began
<1>3. ASSUME NEW next, Renewed(r, next)
      PROVE  /\ sessions'[t].issuedAt = sessions[t].issuedAt
             /\ sessions'[t].family = sessions[t].family
    <2>1. next \in Token /\ Exchanged(req[r].refresh, next)
        BY <1>3 DEF Renewed
    <2>2. t # next
        BY <2>1, StoreExchanges
    <2>3. CASE t = req[r].refresh
        <3>1. sessions'[t] = [sessions[t] EXCEPT !.consumedAt = clock] /\ sessions[t] \in Session
            BY <2>1, <2>3, StoreExchanges DEF TypeOK
        <3> QED
            BY <3>1 DEF Session
    <2>4. CASE t # req[r].refresh
        BY <2>1, <2>2, <2>4, StoreExchanges
    <2> QED
        BY <2>3, <2>4
<1>4. CASE Closed(r)
    BY <1>4, StoreEnds DEF Closed
<1> QED
    BY <1>1, <1>2, <1>3, <1>4, HandleCases

\* The response to r carries the effect that its handler chose.
LEMMA HandledRequest ==
    ASSUME TypeOK, KnownTokens, NEW r \in Request, Handle(r)
    PROVE  /\ \A q \in Request \ {r} : req'[q] = req[q]
           /\ req'[r].access = None /\ req'[r].refresh = None
           /\ req'[r].pc = IF req'[r].effect = "keep" THEN "idle" ELSE "answered"
           /\ req'[r].effect \in Token => Issued(req[r].effect)'
<1> USE WebConstants DEF Effect
<1>1. CASE Kept(r)
    BY <1>1, Answered DEF Kept
<1>2. ASSUME NEW t, Began(r, t)
      PROVE  /\ Issued(t)' /\ t \in Token /\ Answer(r, t)
    <2>1. t \in Token /\ sessions'[t] = NewSession(t) /\ clock \in Nat /\ Answer(r, t)
        BY <1>2, StoreIssues DEF Began, TypeOK
    <2>2. sessions'[t].issuedAt = clock
        BY <2>1 DEF NewSession
    <2> QED
        BY <2>1, <2>2 DEF Issued
<1>3. ASSUME NEW t, Renewed(r, t)
      PROVE  /\ Issued(t)' /\ t \in Token
             /\ Answer(r, t) \/ Answer(r, "keep")
    <2>1. /\ t \in Token /\ sessions'[t] = NewSession(sessions[req[r].refresh].family)
          /\ clock \in Nat
          /\ Answer(r, t) \/ Answer(r, "keep")
        BY <1>3, StoreExchanges DEF Renewed, TypeOK
    <2>2. sessions'[t].issuedAt = clock
        BY <2>1 DEF NewSession
    <2> QED
        BY <2>1, <2>2 DEF Issued
<1>4. CASE Closed(r)
    BY <1>4, Answered DEF Closed
<1>5. CASE \E t : Began(r, t)
    <2>1. PICK t \in Token : Issued(t)' /\ Answer(r, t)
        BY <1>2, <1>5
    <2>2. /\ \A q \in Request \ {r} : req'[q] = req[q]
          /\ req'[r].access = None /\ req'[r].refresh = None /\ req'[r].effect = t
          /\ req'[r].pc = IF t = "keep" THEN "idle" ELSE "answered"
        BY <2>1, Answered
    <2> QED
        BY <2>1, <2>2 DEF Issued
<1>6. CASE \E t : Renewed(r, t)
    <2>1. PICK t \in Token : Issued(t)' /\ (Answer(r, t) \/ Answer(r, "keep"))
        BY <1>3, <1>6
    <2>2. PICK e \in {t, "keep"} : Answer(r, e)
        BY <2>1
    <2>3. /\ \A q \in Request \ {r} : req'[q] = req[q]
          /\ req'[r].access = None /\ req'[r].refresh = None /\ req'[r].effect = e
          /\ req'[r].pc = IF e = "keep" THEN "idle" ELSE "answered"
        BY <2>2, Answered
    <2> QED
        BY <2>1, <2>2, <2>3 DEF Issued
<1> QED
    BY <1>1, <1>4, <1>5, <1>6, HandleCases

LEMMA NextKnown ==
    ASSUME TypeOK, KnownTokens, OwnRequestsPassCsrf, [Next]_vars
    PROVE  KnownTokens' /\ OwnRequestsPassCsrf'
<1> USE WebConstants
<1> DEFINE Carries(q) == /\ Known(req[q].access) /\ Known(req[q].refresh)
                         /\ req[q].effect \in Token => Issued(req[q].effect)
                         /\ req[q].effect # "keep" <=> req[q].pc = "answered"
                         /\ req[q].pc = "sent" /\ req[q].own => CsrfPasses(q)
<1>1. Known(jar.token) /\ \A q \in Request : Carries(q)
    BY DEF KnownTokens, OwnRequestsPassCsrf
<1>2. ASSUME Known(jar.token)', \A q \in Request : Carries(q)'
      PROVE  KnownTokens' /\ OwnRequestsPassCsrf'
    BY <1>2 DEF KnownTokens, OwnRequestsPassCsrf
<1>3. ASSUME NEW q \in Request, req'[q] = req[q], \A t \in Token : Issued(t) => Issued(t)'
      PROVE  Carries(q)'
    BY <1>1, <1>3 DEF Known, CsrfPasses
<1>4. ASSUME UNCHANGED <<sessions, jar, req>> PROVE KnownTokens' /\ OwnRequestsPassCsrf'
    BY <1>4 DEF KnownTokens, OwnRequestsPassCsrf, Known, Issued, CsrfPasses
<1>5. ASSUME NEW r \in Request, NEW op \in Op, NEW own \in BOOLEAN, Send(r, op, own)
      PROVE  KnownTokens' /\ OwnRequestsPassCsrf'
    <2>1. UNCHANGED <<sessions, jar>>
        BY <1>5, Sent
    <2>2. Carries(r)'
        <3>1. /\ req'[r].access \in {jar.token, None} /\ req'[r].refresh \in {jar.token, None}
              /\ req'[r].effect = "keep" /\ req'[r].pc = "sent"
              /\ req'[r].own => req'[r].csrf \/ (req'[r].access = None /\ req'[r].refresh = None)
            BY <1>5, Sent
        <3> QED
            BY <1>1, <2>1, <3>1 DEF Known, Issued, CsrfPasses
    <2>3. \A q \in Request \ {r} : Carries(q)'
        <3>1. \A q \in Request \ {r} : req'[q] = req[q]
            BY <1>5, Sent
        <3> QED
            BY <1>3, <2>1, <3>1 DEF Issued
    <2> QED
        BY <1>1, <1>2, <2>1, <2>2, <2>3 DEF Known, Issued
<1>6. ASSUME NEW r \in Request, Handle(r) PROVE KnownTokens' /\ OwnRequestsPassCsrf'
    <2>1. /\ \A t \in Token : Issued(t) => Issued(t)'
          /\ jar' = jar
        BY <1>6, StoreKeeps, HandleCases
    <2>2. Carries(r)'
        <3>1. /\ req'[r].access = None /\ req'[r].refresh = None
              /\ req'[r].pc = IF req'[r].effect = "keep" THEN "idle" ELSE "answered"
              /\ req'[r].effect \in Token => Issued(req[r].effect)'
            BY <1>6, HandledRequest
        <3> QED
            BY <3>1 DEF Known, Issued
    <2>3. \A q \in Request \ {r} : Carries(q)'
        <3>1. \A q \in Request \ {r} : req'[q] = req[q]
            BY <1>6, HandledRequest
        <3> QED
            BY <1>3, <2>1, <3>1
    <2> QED
        BY <1>1, <1>2, <2>1, <2>2, <2>3 DEF Known
<1>7. ASSUME NEW r \in Request, Receive(r) \/ Lose(r) PROVE KnownTokens' /\ OwnRequestsPassCsrf'
    <2>1. req' = [req EXCEPT ![r] = IdleReq] /\ sessions' = sessions
        BY <1>7 DEF Receive, Lose
    <2>2. Carries(r)'
        <3>1. /\ req'[r].access = None /\ req'[r].refresh = None /\ req'[r].effect = "keep"
              /\ req'[r].pc = "idle"
            BY <2>1, Idled
        <3> QED
            BY <3>1 DEF Known
    <2>3. \A q \in Request \ {r} : Carries(q)'
        <3>1. \A q \in Request \ {r} : req'[q] = req[q]
            BY <2>1, Idled
        <3> QED
            BY <1>3, <2>1, <3>1 DEF Issued
    <2>4. Known(jar.token)'
        <3>1. req[r].effect \in Effect /\ Carries(r)
            BY <1>1 DEF TypeOK, ReqState
        <3>2. jar'.token \in {jar.token, None} \/ (jar'.token = req[r].effect /\ req[r].effect \in Token)
            BY <1>7, <3>1 DEF Receive, Lose, EmptyJar, Effect
        <3> QED
            BY <1>1, <2>1, <3>1, <3>2 DEF Known, Issued
    <2> QED
        BY <1>2, <2>2, <2>3, <2>4
<1>8. CASE Tick \/ RedisFailsOrRecovers \/ UNCHANGED vars
    BY <1>4, <1>8 DEF Tick, RedisFailsOrRecovers, vars
<1> QED
    BY <1>5, <1>6, <1>7, <1>8 DEF Next

StoreInv == Families /\ RevokedTogether /\ ListedForLife

LEMMA StoreIssuesInv ==
    ASSUME TypeOK, Families, RevokedTogether, clock' = clock, NEW t \in Token, IssuedTo(t)
    PROVE  Families' /\ RevokedTogether'
<1> USE WebConstants
<1>1. /\ ~Issued(t) /\ \A u \in Token \ {t} : sessions'[u] = sessions[u]
      /\ sessions'[t].issuedAt = clock /\ sessions'[t].family = t /\ sessions'[t].revokedAt = None
      /\ clock \in Nat
    <2>1. /\ ~Issued(t) /\ \A u \in Token \ {t} : sessions'[u] = sessions[u]
          /\ sessions'[t] = NewSession(t)
        BY StoreIssues
    <2>2. clock \in Nat
        BY DEF TypeOK
    <2> QED
        BY <2>1, <2>2 DEF NewSession
<1>2. \A u \in Token \ {t} : (Issued(u)' <=> Issued(u)) /\ sessions'[u] = sessions[u]
    BY <1>1 DEF Issued
<1>3. Issued(t)'
    BY <1>1 DEF Issued
<1>4. Families'
    <2> SUFFICES ASSUME NEW u \in Token
                 PROVE  /\ Issued(u)' => /\ sessions'[u].issuedAt <= clock'
                                         /\ sessions'[u].family \in Token
                                         /\ Issued(sessions[u].family)'
                        /\ ~Issued(u)' => sessions'[u].family = None /\ sessions'[u].revokedAt = None
        BY DEF Families
    <2>1. CASE u = t
        BY <1>1, <1>3, <2>1 DEF Issued
    <2>2. CASE u # t
        BY <1>1, <1>2, <1>3, <2>2 DEF Families, Issued
    <2> QED
        BY <2>1, <2>2
<1>5. RevokedTogether'
    <2> SUFFICES ASSUME NEW a \in Token, NEW b \in Token, Issued(a)',
                        sessions'[a].family = sessions'[b].family, sessions'[a].revokedAt # None
                 PROVE  sessions'[b].revokedAt # None /\ sessions'[b].issuedAt <= sessions'[a].revokedAt
        BY DEF RevokedTogether
    <2>1. a # t /\ Issued(a) /\ sessions'[a] = sessions[a]
        BY <1>1, <1>2
    <2>2. b # t
        BY <1>1, <2>1 DEF Families
    <2> QED
        BY <1>1, <2>1, <2>2 DEF RevokedTogether
<1> QED
    BY <1>4, <1>5

LEMMA StoreExchangesInv ==
    ASSUME TypeOK, Families, RevokedTogether, clock' = clock, NEW t, NEW next \in Token,
           Exchanged(t, next)
    PROVE  Families' /\ RevokedTogether'
<1> USE WebConstants
<1>1. /\ t \in Token /\ Live(t) /\ sessions[t] \in Session /\ clock \in Nat
    BY DEF Exchanged, TypeOK
<1>2. /\ ~Issued(next) /\ t # next /\ \A u \in Token \ {t, next} : sessions'[u] = sessions[u]
      /\ sessions'[next].issuedAt = clock /\ sessions'[next].family = sessions[t].family
      /\ sessions'[next].revokedAt = None
      /\ sessions'[t] = [sessions[t] EXCEPT !.consumedAt = clock]
    <2>1. /\ ~Issued(next) /\ t # next /\ \A u \in Token \ {t, next} : sessions'[u] = sessions[u]
          /\ sessions'[next] = NewSession(sessions[t].family)
          /\ sessions'[t] = [sessions[t] EXCEPT !.consumedAt = clock]
        BY StoreExchanges
    <2> QED
        BY <2>1 DEF NewSession
<1>3. \A u \in Token \ {next} : /\ sessions'[u].issuedAt = sessions[u].issuedAt
                                 /\ sessions'[u].family = sessions[u].family
                                 /\ sessions'[u].revokedAt = sessions[u].revokedAt
    BY <1>1, <1>2 DEF Session
<1>4. \A u \in Token : Issued(u)' <=> Issued(u) \/ u = next
    BY <1>1, <1>2, <1>3 DEF Issued
<1>5. sessions[t].revokedAt = None /\ Issued(t)
    BY <1>1 DEF Live
<1>6. Families'
    <2> SUFFICES ASSUME NEW u \in Token
                 PROVE  /\ Issued(u)' => /\ sessions'[u].issuedAt <= clock'
                                         /\ sessions'[u].family \in Token
                                         /\ Issued(sessions[u].family)'
                        /\ ~Issued(u)' => sessions'[u].family = None /\ sessions'[u].revokedAt = None
        BY DEF Families
    <2>1. CASE u = next
        <3>1. sessions[t].family \in Token /\ Issued(sessions[t].family)
            BY <1>1, <1>5 DEF Families
        <3>2. Issued(sessions[u].family)'
            BY <1>2, <1>4, <2>1, <3>1 DEF Issued
        <3> QED
            BY <1>1, <1>2, <1>4, <2>1, <3>1, <3>2
    <2>2. CASE u # next
        <3>1. Issued(u) => sessions[u].family \in Token /\ Issued(sessions[u].family)
            BY DEF Families
        <3>2. Issued(u) => Issued(sessions[u].family)'
            BY <1>3, <1>4, <2>2, <3>1 DEF Issued
        <3> QED
            BY <1>3, <1>4, <2>2, <3>1, <3>2 DEF Families
    <2> QED
        BY <2>1, <2>2
<1>7. RevokedTogether'
    <2> SUFFICES ASSUME NEW a \in Token, NEW b \in Token, Issued(a)',
                        sessions'[a].family = sessions'[b].family, sessions'[a].revokedAt # None
                 PROVE  sessions'[b].revokedAt # None /\ sessions'[b].issuedAt <= sessions'[a].revokedAt
        BY DEF RevokedTogether
    <2>1. /\ a # next /\ Issued(a) /\ sessions'[a].family = sessions[a].family
          /\ sessions'[a].revokedAt = sessions[a].revokedAt
        BY <1>2, <1>3, <1>4
    <2>2. b # next
        BY <1>1, <1>2, <1>5, <2>1 DEF RevokedTogether
    <2> QED
        BY <1>3, <2>1, <2>2 DEF RevokedTogether
<1> QED
    BY <1>6, <1>7

LEMMA StoreEndsInv ==
    ASSUME TypeOK, Families, RevokedTogether, clock' = clock, NEW r \in Request, Ended(r)
    PROVE  Families' /\ RevokedTogether'
<1> USE WebConstants
<1>1. CASE sessions' = sessions
    BY <1>1 DEF Families, RevokedTogether, Issued
<1>2. ASSUME NEW t \in Token, Issued(t),
             \A u \in Token : sessions'[u].revokedAt =
                 IF sessions[u].family = sessions[t].family /\ sessions[u].revokedAt = None
                 THEN clock ELSE sessions[u].revokedAt
      PROVE  Families' /\ RevokedTogether'
    <2>1. \A u \in Token : /\ sessions'[u].issuedAt = sessions[u].issuedAt
                           /\ sessions'[u].family = sessions[u].family
                           /\ Issued(u)' <=> Issued(u)
        BY StoreEnds DEF Issued
    <2>2. sessions[t].family # None /\ clock \in Nat
        BY <1>2 DEF Families, TypeOK
    <2>3. Families'
        <3> SUFFICES ASSUME NEW u \in Token
                     PROVE  /\ Issued(u)' => /\ sessions'[u].issuedAt <= clock'
                                             /\ sessions'[u].family \in Token
                                             /\ Issued(sessions[u].family)'
                            /\ ~Issued(u)' => sessions'[u].family = None /\ sessions'[u].revokedAt = None
            BY DEF Families
        <3>1. Issued(u) => sessions[u].family \in Token /\ Issued(sessions[u].family)
            BY DEF Families
        <3>2. Issued(u) => Issued(sessions[u].family)'
            BY <2>1, <3>1 DEF Issued
        <3> QED
            BY <1>2, <2>1, <2>2, <3>1, <3>2 DEF Families
    <2>4. RevokedTogether'
        <3> SUFFICES ASSUME NEW a \in Token, NEW b \in Token, Issued(a)',
                            sessions'[a].family = sessions'[b].family, sessions'[a].revokedAt # None
                     PROVE  /\ sessions'[b].revokedAt # None
                            /\ sessions'[b].issuedAt <= sessions'[a].revokedAt
            BY DEF RevokedTogether
        <3>1. Issued(a) /\ sessions[a].family = sessions[b].family /\ sessions[a].family # None
            BY <2>1 DEF Families
        <3>2. Issued(b) /\ sessions[b].issuedAt <= clock
            BY <3>1 DEF Families
        <3>3. CASE sessions[a].revokedAt # None
            <4>1. sessions[b].revokedAt # None /\ sessions[b].issuedAt <= sessions[a].revokedAt
                BY <3>1, <3>3 DEF RevokedTogether
            <4> QED
                BY <1>2, <2>1, <2>2, <3>3, <4>1
        <3>4. CASE sessions[a].revokedAt = None
            <4>1. sessions[a].family = sessions[t].family /\ sessions'[a].revokedAt = clock
                BY <1>2, <3>4
            <4>2. sessions'[b].revokedAt # None
                BY <1>2, <2>2, <3>1, <4>1
            <4> QED
                BY <2>1, <3>2, <4>1, <4>2
        <3> QED
            BY <3>3, <3>4
    <2> QED
        BY <2>3, <2>4
<1> QED
    BY <1>1, <1>2, StoreEnds

LEMMA NextStore ==
    ASSUME TypeOK, KnownTokens, StoreInv, [Next]_vars
    PROVE  StoreInv'
<1> USE WebConstants
<1>0. Families /\ RevokedTogether /\ ListedForLife
    BY DEF StoreInv
<1>1. ASSUME UNCHANGED <<clock, sessions, blacklist>> PROVE StoreInv'
    BY <1>0, <1>1 DEF StoreInv, Families, RevokedTogether, ListedForLife, Issued
<1>2. CASE Tick
    <2>1. clock \in Nat /\ clock' = clock + 1 /\ UNCHANGED <<sessions, blacklist>>
        BY <1>2 DEF Tick, TypeOK
    <2>2. \A t \in Token : Issued(t) => sessions[t].issuedAt \in Nat
        BY DEF TypeOK, Session, Issued
    <2>3. \A t \in Token : Issued(t) => sessions[t].issuedAt <= clock + 1
        BY <1>0, <2>1, <2>2 DEF Families
    <2>4. Families'
        BY <1>0, <2>1, <2>3 DEF Families, Issued
    <2>5. RevokedTogether' /\ ListedForLife'
        BY <1>0, <2>1 DEF RevokedTogether, ListedForLife, Issued
    <2> QED
        BY <2>4, <2>5 DEF StoreInv
<1>3. ASSUME NEW r \in Request, Handle(r) PROVE StoreInv'
    <2>1. clock' = clock
        BY <1>3, HandleCases
    <2>2. Families' /\ RevokedTogether'
        <3>1. CASE Kept(r)
            BY <1>0, <2>1, <3>1 DEF Kept, Families, RevokedTogether, Issued
        <3>2. ASSUME NEW t, Began(r, t) PROVE Families' /\ RevokedTogether'
            BY <1>0, <2>1, <3>2, StoreIssuesInv DEF Began
        <3>3. ASSUME NEW t, Renewed(r, t) PROVE Families' /\ RevokedTogether'
            BY <1>0, <2>1, <3>3, StoreExchangesInv DEF Renewed
        <3>4. CASE Closed(r)
            BY <1>0, <2>1, <3>4, StoreEndsInv DEF Closed
        <3> QED
            BY <1>3, <3>1, <3>2, <3>3, <3>4, HandleCases
    <2>3. ListedForLife'
        <3> SUFFICES ASSUME NEW t \in Token, blacklist'[t] # 0
                     PROVE  Issued(t)' /\ blacklist'[t] = sessions'[t].issuedAt + AccessTTL
            BY DEF ListedForLife
        <3>1. Issued(t) /\ blacklist'[t] = sessions[t].issuedAt + AccessTTL
            <4>1. blacklist' = blacklist \/ blacklist' = Blacklisted(req[r].access)
                BY <1>3, HandleCases DEF Kept, Began, Renewed, Closed
            <4>2. CASE blacklist'[t] = blacklist[t]
                BY <1>0, <4>2 DEF ListedForLife
            <4>3. CASE blacklist'[t] # blacklist[t]
                <5>1. /\ ValidJWT(req[r].access)
                      /\ blacklist' = [blacklist EXCEPT ![req[r].access] =
                                          sessions[req[r].access].issuedAt + AccessTTL]
                    BY <4>1, <4>3 DEF Blacklisted
                <5>2. t = req[r].access
                    BY <4>3, <5>1 DEF TypeOK
                <5>3. Issued(t)
                    BY <5>1, <5>2 DEF ValidJWT, KnownTokens, Known
                <5> QED
                    BY <5>1, <5>2, <5>3 DEF TypeOK
            <4> QED
                BY <4>2, <4>3
        <3> QED
            BY <1>3, <3>1, StoreKeeps
    <2> QED
        BY <2>2, <2>3 DEF StoreInv
<1>4. ASSUME NEW r \in Request, NEW op \in Op, NEW own \in BOOLEAN, Send(r, op, own) PROVE StoreInv'
    BY <1>1, <1>4 DEF Send
<1>5. CASE \E r \in Request : Receive(r) \/ Lose(r)
    BY <1>1, <1>5 DEF Receive, Lose
<1>6. CASE RedisFailsOrRecovers \/ UNCHANGED vars
    BY <1>1, <1>6 DEF RedisFailsOrRecovers, vars
<1> QED
    BY <1>2, <1>3, <1>4, <1>5, <1>6 DEF Next

-----------------------------------------------------------------------------
(* The browser keeps a live token *)

LEMMA NextStanding ==
    ASSUME TypeOK, KnownTokens, StandingInv, [Next]_vars
    PROVE  StandingInv'
<1> USE WebConstants
<1> SUFFICES ASSUME standing' # "disturbed" PROVE Undisturbed'
    BY DEF StandingInv
<1>1. standing # "disturbed"
    <2>1. ASSUME NEW r \in Request, Handle(r), standing = "disturbed" PROVE FALSE
        BY <2>1, HandleCases DEF Kept, Began, Renewed, Closed
    <2> QED
        BY <2>1 DEF Next, vars, Tick, RedisFailsOrRecovers, Send, Receive, Lose
<1>2. Undisturbed
    BY <1>1 DEF StandingInv
<1>3. ASSUME UNCHANGED <<sessions, jar, req, standing>> PROVE Undisturbed'
    BY <1>2, <1>3 DEF Undisturbed, OnItsWay, Live, Issued
<1>4. ASSUME NEW r \in Request, NEW op \in Op, NEW own \in BOOLEAN, Send(r, op, own)
      PROVE  Undisturbed'
    <2>1. /\ \A q \in Request \ {r} : req'[q] = req[q]
          /\ req'[r].refresh \in {jar.token, None} /\ req'[r].effect = "keep" /\ req[r].pc = "idle"
          /\ UNCHANGED <<sessions, jar, standing>>
        BY <1>4, Sent
    <2>2. req[r].effect = "keep"
        BY <2>1 DEF KnownTokens
    <2>3. \A t \in Token : OnItsWay(t)' <=> OnItsWay(t)
        BY <2>1, <2>2 DEF OnItsWay
    <2>4. \A t \in Token : Live(t)' <=> Live(t)
        BY <2>1 DEF Live, Issued
    <2>5. \A t \in Token : OnItsWay(t)' =>
              /\ Live(t)' /\ jar'.token # t /\ \A q \in Request : req'[q].refresh # t
        BY <1>2, <2>1, <2>3, <2>4 DEF Undisturbed
    <2>6. jar.token # None => jar.token \in Token
        BY DEF KnownTokens, Known
    <2>7. jar'.token # None => Live(jar.token)' \/ \E t \in Token : OnItsWay(t)'
        BY <1>2, <2>1, <2>3, <2>4, <2>6 DEF Undisturbed
    <2>8. \A q \in Request : req'[q].effect = req[q].effect
        BY <2>1, <2>2
    <2> QED
        BY <1>2, <2>1, <2>5, <2>7, <2>8 DEF Undisturbed
<1>5. ASSUME NEW r \in Request, Kept(r), Handle(r) PROVE Undisturbed'
    <2>1. /\ \A q \in Request \ {r} : req'[q] = req[q]
          /\ req'[r].refresh = None /\ req'[r].effect = "keep"
        BY <1>5, Answered DEF Kept, Effect
    <2>2. req[r].effect = "keep" /\ UNCHANGED <<sessions, jar, standing>>
        BY <1>5, HandleCases DEF Kept, KnownTokens
    <2>3. \A t \in Token : OnItsWay(t)' <=> OnItsWay(t)
        BY <2>1, <2>2 DEF OnItsWay
    <2>4. \A t \in Token : Live(t)' <=> Live(t)
        BY <2>2 DEF Live, Issued
    <2>5. \A t \in Token : OnItsWay(t)' =>
              /\ Live(t)' /\ jar'.token # t /\ \A q \in Request : req'[q].refresh # t
        BY <1>2, <2>1, <2>2, <2>3, <2>4 DEF Undisturbed
    <2>6. jar.token # None => jar.token \in Token
        BY DEF KnownTokens, Known
    <2>7. jar'.token # None => Live(jar.token)' \/ \E t \in Token : OnItsWay(t)'
        BY <1>2, <2>2, <2>3, <2>4, <2>6 DEF Undisturbed
    <2>8. \A q \in Request : req'[q].effect = req[q].effect
        BY <2>1, <2>2
    <2> QED
        BY <1>2, <2>2, <2>5, <2>7, <2>8 DEF Undisturbed
\* A response with a new token n leaves; at most the token that r presented is spent.
<1>6. ASSUME NEW r \in Request, Handle(r), NEW n \in Token, ~Issued(n), Answer(r, n),
             UNCHANGED standing, Live(n)', \A t \in Token : sessions'[t].revokedAt = None,
             \A t \in Token : Live(t) => Live(t)' \/ t = req[r].refresh
      PROVE  Undisturbed'
    <2>1. /\ \A q \in Request \ {r} : req'[q] = req[q]
          /\ req'[r].refresh = None /\ req'[r].effect = n
        BY <1>6, Answered DEF Effect
    <2>2. req[r].effect = "keep" /\ UNCHANGED <<jar, standing>>
        BY <1>6, HandleCases DEF KnownTokens
    <2>3. OnItsWay(n)' /\ ~OnItsWay(n) /\ jar.token # n /\ \A q \in Request : req[q].refresh # n
        <3>1. \A q \in Request : req[q].effect # n /\ req[q].refresh # n
            BY <1>6 DEF KnownTokens, Known
        <3>2. jar.token # n
            BY <1>6 DEF KnownTokens, Known
        <3> QED
            BY <2>1, <3>1, <3>2 DEF OnItsWay
    <2>4. \A t \in Token : OnItsWay(t)' => OnItsWay(t) \/ t = n
        BY <2>1 DEF OnItsWay
    <2>5. ASSUME NEW t \in Token, OnItsWay(t)'
          PROVE  /\ Live(t)' /\ jar'.token # t /\ \A q \in Request : req'[q].refresh # t
        <3>1. CASE t = n
            BY <1>6, <2>1, <2>2, <2>3, <3>1
        <3>2. CASE t # n
            <4>1. OnItsWay(t)
                BY <2>4, <2>5, <3>2
            <4>2. Live(t) /\ jar.token # t /\ \A q \in Request : req[q].refresh # t
                BY <1>2, <4>1 DEF Undisturbed
            <4> QED
                BY <1>6, <2>1, <2>2, <4>2
        <3> QED
            BY <3>1, <3>2
    <2>6. ASSUME NEW p \in Request, NEW q \in Request, req'[p].effect \in Token,
                 req'[p].effect = req'[q].effect
          PROVE  p = q
        <3>1. \A x \in Request \ {r} : req'[x].effect # n
            BY <2>1, <2>3 DEF OnItsWay
        <3>2. CASE p = r \/ q = r
            BY <2>1, <2>6, <3>1, <3>2
        <3>3. CASE p # r /\ q # r
            BY <1>2, <2>1, <2>6, <3>3 DEF Undisturbed
        <3> QED
            BY <3>2, <3>3
    <2>7. \A q \in Request : req'[q].effect # "clear"
        BY <1>2, <2>1 DEF Undisturbed
    <2>8. standing' = "loggedIn" => jar'.token # None
        BY <1>2, <2>2 DEF Undisturbed
    <2> QED
        BY <1>6, <2>3, <2>5, <2>6, <2>7, <2>8 DEF Undisturbed
<1>7. ASSUME NEW r \in Request, Handle(r) PROVE Undisturbed'
    <2>1. CASE Kept(r)
        BY <1>5, <1>7, <2>1
    <2>2. ASSUME NEW t, Began(r, t) PROVE Undisturbed'
        <3>1. /\ t \in Token /\ ~Issued(t) /\ \A u \in Token \ {t} : sessions'[u] = sessions[u]
              /\ sessions'[t] = NewSession(t) /\ Answer(r, t) /\ UNCHANGED standing
            BY <2>2, StoreIssues DEF Began
        <3>2. /\ sessions'[t].issuedAt = clock /\ sessions'[t].consumedAt = None
              /\ sessions'[t].revokedAt = None /\ clock \in Nat
            BY <3>1 DEF NewSession, TypeOK
        <3>3. Live(t)'
            BY <3>2 DEF Live, Issued
        <3>4. \A u \in Token : Live(u) => Live(u)'
            BY <3>1, <3>3 DEF Live, Issued
        <3>5. \A u \in Token : sessions'[u].revokedAt = None
            BY <1>2, <3>1, <3>2 DEF Undisturbed
        <3> QED
            BY <1>6, <1>7, <3>1, <3>3, <3>4, <3>5
    <2>3. ASSUME NEW n, Renewed(r, n) PROVE Undisturbed'
        <3> DEFINE t == req[r].refresh
        <3>1. /\ n \in Token /\ Answer(r, n) /\ UNCHANGED standing /\ t \in Token /\ Live(t)
            BY <2>3 DEF Renewed, Exchanged
        <3>2. /\ ~Issued(n) /\ t # n /\ \A u \in Token \ {t, n} : sessions'[u] = sessions[u]
              /\ sessions'[n] = NewSession(sessions[t].family)
              /\ sessions'[t] = [sessions[t] EXCEPT !.consumedAt = clock]
            BY <2>3, StoreExchanges DEF Renewed
        <3> HIDE DEF t
        <3>3. /\ sessions'[n].issuedAt = clock /\ sessions'[n].consumedAt = None
              /\ sessions'[n].revokedAt = None /\ clock \in Nat
            BY <3>2 DEF NewSession, TypeOK
        <3>4. Live(n)'
            BY <3>3 DEF Live, Issued
        <3>5. \A u \in Token : Live(u) => Live(u)' \/ u = t
            BY <3>2, <3>4 DEF Live, Issued
        <3>6. sessions'[t].revokedAt = None
            <4>1. sessions[t] \in Session /\ sessions[t].revokedAt = None
                BY <3>1 DEF TypeOK, Live
            <4> QED
                BY <3>2, <4>1 DEF Session
        <3>7. \A u \in Token : sessions'[u].revokedAt = None
            BY <1>2, <3>2, <3>3, <3>6 DEF Undisturbed
        <3> QED
            BY <1>6, <1>7, <3>1, <3>2, <3>4, <3>5, <3>7 DEF t
    <2> QED
        BY <1>7, <2>1, <2>2, <2>3, HandleCases DEF Closed
<1>8. ASSUME NEW r \in Request, Receive(r) PROVE Undisturbed'
    <2> DEFINE n == req[r].effect
    <2>1. n \in Token
        BY <1>2, <1>8 DEF Receive, KnownTokens, Undisturbed, TypeOK, ReqState, Effect
    <2>2. jar' = [token |-> n, since |-> clock] /\ sessions' = sessions
        BY <1>8, <2>1 DEF Receive
    <2>3. /\ \A q \in Request \ {r} : req'[q] = req[q]
          /\ req'[r].refresh = None /\ req'[r].effect = "keep"
        BY <1>8, Idled DEF Receive
    <2>4. OnItsWay(n)
        BY DEF OnItsWay
    <2>5. ASSUME NEW t \in Token, OnItsWay(t)' PROVE OnItsWay(t) /\ t # n
        <3>1. PICK q \in Request : req'[q].effect = t
            BY <2>5 DEF OnItsWay
        <3>2. q # r /\ req[q].effect = t
            BY <2>3, <3>1
        <3> QED
            BY <1>2, <3>2 DEF Undisturbed, OnItsWay
    <2> HIDE DEF n
    <2>6. \A t \in Token : Live(t)' <=> Live(t)
        BY <2>2 DEF Live, Issued
    <2>7. \A t \in Token : OnItsWay(t)' =>
              /\ Live(t)' /\ jar'.token # t /\ \A q \in Request : req'[q].refresh # t
        BY <1>2, <2>2, <2>3, <2>5, <2>6 DEF Undisturbed
    <2>8. jar'.token = n /\ jar'.token # None /\ Live(jar.token)'
        <3>1. Live(n)
            BY <1>2, <2>1, <2>4 DEF Undisturbed
        <3>2. jar'.token = n
            BY <2>2
        <3> QED
            BY <2>1, <2>2, <3>1, <3>2 DEF Live, Issued
    <2>9. /\ \A q \in Request : req'[q].effect # "clear"
          /\ \A p, q \in Request : req'[p].effect \in Token /\ req'[p].effect = req'[q].effect => p = q
        BY <1>2, <2>3 DEF Undisturbed
    <2> QED
        BY <1>2, <2>2, <2>7, <2>8, <2>9 DEF Undisturbed
<1>9. ASSUME NEW r \in Request, Lose(r) PROVE Undisturbed'
    <2>1. req[r].effect = "keep" /\ UNCHANGED <<sessions, jar, standing>>
        BY <1>9 DEF Lose
    <2>2. /\ \A q \in Request \ {r} : req'[q] = req[q]
          /\ req'[r].refresh = None /\ req'[r].effect = "keep"
        BY <1>9, Idled DEF Lose
    <2>3. \A t \in Token : OnItsWay(t)' <=> OnItsWay(t)
        BY <2>1, <2>2 DEF OnItsWay
    <2>4. \A t \in Token : Live(t)' <=> Live(t)
        BY <2>1 DEF Live, Issued
    <2>5. \A t \in Token : OnItsWay(t)' =>
              /\ Live(t)' /\ jar'.token # t /\ \A q \in Request : req'[q].refresh # t
        BY <1>2, <2>1, <2>2, <2>3, <2>4 DEF Undisturbed
    <2>6. jar.token # None => jar.token \in Token
        BY DEF KnownTokens, Known
    <2>7. jar'.token # None => Live(jar.token)' \/ \E t \in Token : OnItsWay(t)'
        BY <1>2, <2>1, <2>3, <2>4, <2>6 DEF Undisturbed
    <2>8. \A q \in Request : req'[q].effect = req[q].effect
        BY <2>1, <2>2
    <2> QED
        BY <1>2, <2>1, <2>5, <2>7, <2>8 DEF Undisturbed
<1>10. CASE Tick \/ RedisFailsOrRecovers \/ UNCHANGED vars
    BY <1>3, <1>10 DEF Tick, RedisFailsOrRecovers, vars
<1> QED
    BY <1>4, <1>7, <1>8, <1>9, <1>10 DEF Next

-----------------------------------------------------------------------------
(* The theorems *)

LEMMA InitWeb ==
    Init => WebInv
<1> SUFFICES ASSUME Init PROVE WebInv
    OBVIOUS
<1> USE WebConstants
<1>1. /\ jar.token = None
      /\ \A r \in Request : /\ req[r].access = None /\ req[r].refresh = None
                            /\ req[r].effect = "keep" /\ req[r].pc = "idle"
    BY DEF Init, EmptyJar, IdleReq
<1>2. \A t \in Token : /\ sessions[t].issuedAt = None /\ sessions[t].family = None
                       /\ sessions[t].revokedAt = None /\ blacklist[t] = 0
    BY DEF Init
<1>3. TypeOK
    <2>1. IdleReq \in ReqState
        BY DEF IdleReq, ReqState, Effect, TokenOrNone
    <2>2. EmptyJar \in Jar
        BY DEF EmptyJar, Jar, TokenOrNone
    <2> QED
        BY <2>1, <2>2 DEF Init, TypeOK, Session, TokenOrNone
<1>4. OwnRequestsPassCsrf
    BY <1>1 DEF OwnRequestsPassCsrf
<1>5. KnownTokens
    BY <1>1 DEF KnownTokens, Known
<1>6. Families /\ RevokedTogether /\ ListedForLife
    BY <1>2 DEF Families, RevokedTogether, ListedForLife, Issued
<1>7. StandingInv
    <2>1. standing = "anonymous" /\ \A t \in Token : ~OnItsWay(t)
        BY <1>1 DEF Init, OnItsWay
    <2> QED
        BY <1>1, <1>2, <2>1 DEF StandingInv, Undisturbed
<1> QED
    BY <1>3, <1>4, <1>5, <1>6, <1>7 DEF WebInv

LEMMA NextWeb ==
    WebInv /\ [Next]_vars => WebInv'
<1> SUFFICES ASSUME WebInv, [Next]_vars PROVE WebInv'
    OBVIOUS
<1>1. TypeOK /\ KnownTokens /\ StoreInv /\ StandingInv /\ OwnRequestsPassCsrf
    BY DEF WebInv, StoreInv
<1>2. TypeOK'
    BY <1>1, NextType
<1>3. KnownTokens' /\ OwnRequestsPassCsrf'
    BY <1>1, NextKnown
<1>4. Families' /\ RevokedTogether' /\ ListedForLife'
    BY <1>1, NextStore DEF StoreInv
<1>5. StandingInv'
    BY <1>1, NextStanding
<1> QED
    BY <1>2, <1>3, <1>4, <1>5 DEF WebInv

\* Whatever the order in which the server handles the browser's requests and
\* their Set-Cookie headers arrive: every cookie names an issued session, a
\* family is revoked as a whole, a blacklist entry lives exactly as long as its
\* token, and an undisturbed browser holds or is about to receive a live token.
THEOREM WebInvariance == Spec => []WebInv
<1>1. Init => WebInv
    BY InitWeb
<1>2. WebInv /\ [Next]_vars => WebInv'
    BY NextWeb
<1> QED
    BY <1>1, <1>2, PTL DEF Spec

\* csrf.Protect never answers 403 to a request whose X-CSRF-Token repeats the
\* cookie, because the csrf_token cookie outlives auth_token and is set and
\* cleared together with refresh_token.
THEOREM OwnRequestsPass == Spec => []OwnRequestsPassCsrf
<1>1. WebInv => OwnRequestsPassCsrf
    BY DEF WebInv
<1> QED
    BY <1>1, WebInvariance, PTL

\* Refreshes of one browser that race each other, of which Rotate lets one pass
\* and answers the others with 409, leave the browser with the live token.
THEOREM RefreshKeepsSession == Spec => []ConcurrentRefreshKeepsSession
<1>1. WebInv => ConcurrentRefreshKeepsSession
    <2> SUFFICES ASSUME WebInv, \A r \in Request : req[r].pc = "idle", standing = "loggedIn"
                 PROVE  jar # EmptyJar /\ (Exchangeable(jar.token) \/ Expired(jar.token))
        BY DEF ConcurrentRefreshKeepsSession
    <2>1. Undisturbed /\ KnownTokens
        BY DEF WebInv, StandingInv
    <2>2. \A r \in Request : req[r].effect = "keep"
        BY <2>1 DEF KnownTokens
    <2>3. \A t \in Token : ~OnItsWay(t)
        BY <2>2, WebConstants DEF OnItsWay
    <2>4. jar.token # None /\ Live(jar.token)
        BY <2>1, <2>3 DEF Undisturbed
    <2> QED
        BY <2>4 DEF EmptyJar, Exchangeable, Live
<1> QED
    BY <1>1, WebInvariance, PTL

\* While Redis answers, AuthRequired lets no access token through that a logout
\* has put on the blacklist, up to the token's own expiry.
THEOREM ImmediateLogout == Spec => []LogoutIsImmediate
<1>1. WebInv => LogoutIsImmediate
    <2> SUFFICES ASSUME WebInv, NEW r \in Request, Accepted(r), redisUp,
                        blacklist[req[r].access] # 0
                 PROVE  FALSE
        BY DEF LogoutIsImmediate
    <2>1. req[r].access \in Token
        BY DEF WebInv, KnownTokens, Known, Accepted, Authorized, ValidJWT
    <2>2. blacklist[req[r].access] = sessions[req[r].access].issuedAt + AccessTTL
        BY <2>1 DEF WebInv, ListedForLife
    <2> QED
        BY <2>2 DEF Accepted, Authorized, ValidJWT, IsRevoked
<1> QED
    BY <1>1, WebInvariance, PTL

\* With Redis down, or with a refresh that crosses the logout, the access tokens
\* of a revoked family are let through for less than AccessTTL longer: Rotate
\* issues nothing to a family once Revoke has committed.
THEOREM SessionsFade == Spec => []EndedSessionsFade
<1>1. WebInv => EndedSessionsFade
    <2> SUFFICES ASSUME WebInv, NEW r \in Request, NEW u \in Token, Accepted(r),
                        sessions[u].family = sessions[req[r].access].family,
                        sessions[u].revokedAt # None
                 PROVE  clock < sessions[u].revokedAt + AccessTTL
        BY DEF EndedSessionsFade
    <2> DEFINE t == req[r].access
    <2>1. t \in Token /\ Issued(t) /\ clock < sessions[t].issuedAt + AccessTTL
        BY DEF WebInv, KnownTokens, Known, Accepted, Authorized, ValidJWT
    <2>2. sessions[u].family = sessions[t].family
        OBVIOUS
    <2> HIDE DEF t
    <2>3. Issued(u)
        BY <2>1, <2>2, WebConstants DEF WebInv, Families
    <2>4. sessions[t].issuedAt <= sessions[u].revokedAt
        BY <2>1, <2>2, <2>3 DEF WebInv, RevokedTogether
    <2>5. /\ clock \in Nat /\ AccessTTL \in Nat
          /\ sessions[t].issuedAt \in Nat /\ sessions[u].revokedAt \in Nat
        BY <2>1, WebConstants DEF WebInv, TypeOK, Session, Issued
    <2> QED
        BY <2>1, <2>4, <2>5
<1> QED
    BY <1>1, WebInvariance, PTL
=============================================================================
