------------------------------ MODULE Accounts ------------------------------
(***************************************************************************)
(* How users come to exist and prove who they are: signup and password      *)
(* login (credentials.go), the OAuth flow with its state store and browser  *)
(* cookie (oauth.go, oauth_state_store.go, authhttp/oauth.go), and the      *)
(* tables users and oauth_accounts (user_repository.go,                     *)
(* oauth_account_repository.go).                                            *)
(*                                                                          *)
(* An INSERT under a unique index waits for the open transaction that has   *)
(* inserted the same key and then succeeds or fails with it.  The hook that *)
(* fills a new user's watchlist is InitializeDefaults of module Watchlist.  *)
(***************************************************************************)

CONSTANTS
    Raw,        \* e-mail addresses as clients and providers write them
    Email,      \* normalised e-mail addresses; Blank is the empty one
    Blank,
    Normalize,  \* NormalizeEmail: a function from Raw to Email
    Password,   \* passwords signup accepts
    Dummy,      \* the password whose hash stands in for a missing one
    Identity,   \* provider and provider_uid
    User,       \* user ids
    Browser,
    State,      \* OAuth state values
    Handler,    \* concurrent signup and callback requests
    None

ASSUME AccountsConstants ==
    /\ Normalize \in [Raw -> Email]
    /\ Blank \in Email
    /\ Dummy \notin Password
    /\ None \notin Email \cup Password \cup Identity \cup User \cup Browser \cup State

VARIABLES
    users,     \* the committed rows of users
    accounts,  \* the committed rows of oauth_accounts: identity to user
    states,    \* states in Redis
    jar,       \* the oauth_state cookie of each browser
    call,      \* signup and callback requests in progress
    sessions,  \* history: sessions issued, with the proof they were issued for
    began,     \* history: the browser that began each state's flow
    redeemed   \* history: states that were exchanged

vars == <<users, accounts, states, jar, call, sessions, began, redeemed>>

NoUser == [email |-> None, password |-> None]

PC == {"idle", "create", "consume", "exchange", "account", "email",
       "insertUser", "insertAccount", "commit", "issue"}

Call == [pc : PC, browser : Browser \cup {None}, state : State \cup {None},
         identity : Identity \cup {None}, email : Email \cup {None},
         password : Password \cup {None}, user : User \cup {None},
         reply : {"none", "ok", "conflict", "failed"}]

Idle(reply) == [pc |-> "idle", browser |-> None, state |-> None,
                identity |-> None, email |-> None, password |-> None,
                user |-> None, reply |-> reply]

Init ==
    /\ users = [u \in User |-> NoUser]
    /\ accounts = [i \in Identity |-> None]
    /\ states = {} /\ redeemed = {} /\ sessions = {}
    /\ jar = [b \in Browser |-> None]
    /\ call = [h \in Handler |-> Idle("none")]
    /\ began = [s \in State |-> None]

-----------------------------------------------------------------------------
Goto(h, pc) == call' = [call EXCEPT ![h].pc = pc]
Registered(e) == {u \in User : users[u].email = e}

\* Transactions between CreateUser and their commit hold the new keys.
EmailLocked(h) ==
    \E g \in Handler \ {h} : /\ call[g].pc \in {"insertAccount", "commit"}
                             /\ call[g].email = call[h].email
IdentityLocked(h) ==
    \E g \in Handler \ {h} : /\ call[g].pc = "commit"
                             /\ call[g].identity = call[h].identity

\* User ids not drawn from the sequence by a commit or an open transaction.
FreshUser(u) == users[u] = NoUser /\ \A h \in Handler : call[h].user # u

\* Signup with an address and a password that the OpenAPI validation and
\* validatePassword accept.
Signup(h, raw, password) ==
    /\ call[h].pc = "idle"
    /\ Normalize[raw] # Blank
    /\ call' = [call EXCEPT ![h] = [Idle("none") EXCEPT !.pc = "create",
                    !.email = Normalize[raw], !.password = password]]
    /\ UNCHANGED <<users, accounts, states, jar, sessions, began, redeemed>>

\* userRepository.Create: one statement, its own transaction.  The reply may
\* be lost after it took effect.
Create(h, u) ==
    /\ call[h].pc = "create"
    /\ ~EmailLocked(h)
    /\ \/ /\ Registered(call[h].email) # {}
          /\ call' = [call EXCEPT ![h] = Idle("conflict")]
          /\ UNCHANGED users
       \/ /\ Registered(call[h].email) = {}
          /\ FreshUser(u)
          /\ users' = [users EXCEPT ![u] = [email |-> call[h].email,
                                            password |-> call[h].password]]
          /\ \E r \in {"ok", "failed"} : call' = [call EXCEPT ![h] = Idle(r)]
    /\ UNCHANGED <<accounts, states, jar, sessions, began, redeemed>>

\* The hash Login compares with: the dummy when there is none.
ComparedHash(e) ==
    IF \E u \in Registered(e) : users[u].password # None
    THEN users[CHOOSE u \in Registered(e) : TRUE].password ELSE Dummy

\* Faulty variant: a match with the dummy hash counts.
LoginTrustsCompare(raw, password) ==
    \E u \in Registered(Normalize[raw]) :
        /\ ComparedHash(Normalize[raw]) = password
        /\ sessions' = sessions \cup {[user |-> u, kind |-> "password", by |-> password]}
        /\ UNCHANGED <<users, accounts, states, jar, call, began, redeemed>>

\* Login: only a match with the user's own hash issues a session.
Login(raw, password) ==
    \E u \in Registered(Normalize[raw]) :
        /\ ComparedHash(Normalize[raw]) = password
        /\ users[u].password # None
        /\ sessions' = sessions \cup {[user |-> u, kind |-> "password", by |-> password]}
        /\ UNCHANGED <<users, accounts, states, jar, call, began, redeemed>>

-----------------------------------------------------------------------------
(* The OAuth flow.                                                          *)

\* SaveState, then the cookie; a state whose reply is lost has no cookie.
BeginAuth(b, s) ==
    /\ began[s] = None
    /\ states' = states \cup {s}
    /\ began' = [began EXCEPT ![s] = b]
    /\ jar' \in {jar, [jar EXCEPT ![b] = s]}
    /\ UNCHANGED <<users, accounts, call, sessions, redeemed>>

\* oauthStateTTL and oauthStateCookieMaxAge are ten minutes each; the cookie's
\* begin when it arrives, after SaveState.
ExpireState(s) ==
    /\ s \in states
    /\ states' = states \ {s}
    /\ UNCHANGED <<users, accounts, jar, call, sessions, began, redeemed>>

ExpireCookie(b) ==
    /\ jar[b] # None
    /\ jar[b] \notin states
    /\ jar' = [jar EXCEPT ![b] = None]
    /\ UNCHANGED <<users, accounts, states, call, sessions, began, redeemed>>

\* Callback without a state, or with one that is not the browser's: the cookie
\* is deleted.
CallbackRefused(b, s) ==
    /\ s \in {None} \cup {r \in State : began[r] # None}
    /\ jar[b] # s
    /\ jar' = [jar EXCEPT ![b] = None]
    /\ UNCHANGED <<users, accounts, states, call, sessions, began, redeemed>>

\* Callback from the browser whose cookie matches.
Callback(h, b, s) ==
    /\ call[h].pc = "idle"
    /\ began[s] # None
    /\ jar[b] = s
    /\ call' = [call EXCEPT ![h] = [Idle("none") EXCEPT !.pc = "consume",
                                        !.browser = b, !.state = s]]
    /\ UNCHANGED <<users, accounts, states, jar, sessions, began, redeemed>>

\* The response deletes the cookie, whatever it then holds, if it arrives.
Respond(h, reply) ==
    /\ call' = [call EXCEPT ![h] = Idle(reply)]
    /\ jar' \in {jar, [jar EXCEPT ![call[h].browser] = None]}

\* Faulty variant: GET without DEL.
ConsumeByGet(h) ==
    /\ call[h].pc = "consume"
    /\ call[h].state \in states
    /\ redeemed' = redeemed \cup {call[h].state}
    /\ Goto(h, "exchange")
    /\ UNCHANGED <<users, accounts, states, jar, sessions, began>>

\* ConsumeState: GETDEL.  An error may hide that the state is gone.
ConsumeState(h) ==
    /\ call[h].pc = "consume"
    /\ \/ /\ call[h].state \in states
          /\ states' = states \ {call[h].state}
          /\ redeemed' = redeemed \cup {call[h].state}
          /\ Goto(h, "exchange")
          /\ UNCHANGED jar
       \/ /\ states' \in {states, states \ {call[h].state}}
          /\ Respond(h, "failed")
          /\ UNCHANGED redeemed
    /\ UNCHANGED <<users, accounts, sessions, began>>

\* ExchangeCode: the provider names the person and a verified address, which
\* may differ from the one it gave earlier.
Exchange(h, i, raw) ==
    /\ call[h].pc = "exchange"
    /\ Normalize[raw] # Blank
    /\ call' = [call EXCEPT ![h] = [@ EXCEPT !.pc = "account", !.identity = i,
                                             !.email = Normalize[raw]]]
    /\ UNCHANGED <<users, accounts, states, jar, sessions, began, redeemed>>

\* No verified address, or a blank one: ErrOAuthEmailUnavailable.
EmailUnavailable(h) ==
    /\ call[h].pc = "exchange"
    /\ Respond(h, "failed")
    /\ UNCHANGED <<users, accounts, states, sessions, began, redeemed>>

\* FindByProvider.
FindAccount(h) ==
    LET u == accounts[call[h].identity] IN
    /\ call[h].pc = "account"
    /\ \/ u # None /\ call' = [call EXCEPT ![h] = [@ EXCEPT !.pc = "issue", !.user = u]]
       \/ u = None /\ Goto(h, "email")
    /\ UNCHANGED <<users, accounts, states, jar, sessions, began, redeemed>>

\* FindByEmail: no automatic link.
FindEmail(h) ==
    /\ call[h].pc = "email"
    /\ \/ Registered(call[h].email) # {} /\ Respond(h, "conflict")
       \/ Registered(call[h].email) = {} /\ Goto(h, "insertUser") /\ UNCHANGED jar
    /\ UNCHANGED <<users, accounts, states, sessions, began, redeemed>>

\* CreateUserWithOAuthAccount: CreateUser ...
InsertUser(h, u) ==
    /\ call[h].pc = "insertUser"
    /\ ~EmailLocked(h)
    /\ \/ Registered(call[h].email) # {} /\ Respond(h, "conflict")
       \/ /\ Registered(call[h].email) = {}
          /\ FreshUser(u)
          /\ call' = [call EXCEPT ![h] = [@ EXCEPT !.pc = "insertAccount", !.user = u]]
          /\ UNCHANGED jar
    /\ UNCHANGED <<users, accounts, states, sessions, began, redeemed>>

\* The row that CreateUser inserts.
NewUser(h) == [users EXCEPT ![call[h].user] = [email |-> call[h].email, password |-> None]]

\* Faulty variant: the user is stored before the account is known to be free.
InsertAccountAfterUser(h) ==
    /\ call[h].pc = "insertAccount"
    /\ ~IdentityLocked(h)
    /\ users' = NewUser(h)
    /\ \/ accounts[call[h].identity] # None /\ Respond(h, "failed")
       \/ accounts[call[h].identity] = None /\ Goto(h, "commit") /\ UNCHANGED jar
    /\ UNCHANGED <<accounts, states, sessions, began, redeemed>>

\* ... CreateOAuthAccount, whose failure rolls the user back ...
InsertAccount(h) ==
    /\ call[h].pc = "insertAccount"
    /\ ~IdentityLocked(h)
    /\ \/ accounts[call[h].identity] # None /\ Respond(h, "failed")
       \/ accounts[call[h].identity] = None /\ Goto(h, "commit") /\ UNCHANGED jar
    /\ UNCHANGED <<users, accounts, states, sessions, began, redeemed>>

\* ... and the commit, whose acknowledgement may be lost.
Commit(h) ==
    /\ call[h].pc = "commit"
    /\ users' = NewUser(h)
    /\ accounts' = [accounts EXCEPT ![call[h].identity] = call[h].user]
    /\ \/ Goto(h, "issue") /\ UNCHANGED jar
       \/ Respond(h, "failed")
    /\ UNCHANGED <<states, sessions, began, redeemed>>

\* sessions.Issue: the row exists even if the response does not arrive.
Issue(h) ==
    /\ call[h].pc = "issue"
    /\ sessions' = sessions \cup {[user |-> call[h].user, kind |-> "oauth",
                                   by |-> call[h].identity]}
    /\ Respond(h, "ok")
    /\ UNCHANGED <<users, accounts, states, began, redeemed>>

\* An error of a query, of the provider or of Redis, a cancelled request or a
\* crash; an open transaction is rolled back.  A callback that brings the
\* provider's error ends before ConsumeState.
Fail(h) ==
    /\ call[h].pc # "idle"
    /\ \/ call[h].browser # None /\ Respond(h, "failed")
       \/ call[h].browser = None /\ call' = [call EXCEPT ![h] = Idle("failed")] /\ UNCHANGED jar
    /\ UNCHANGED <<users, accounts, states, sessions, began, redeemed>>

CallStep(h) ==
    \/ \E u \in User : Create(h, u) \/ InsertUser(h, u)
    \/ ConsumeState(h)
    \/ \E i \in Identity, raw \in Raw : Exchange(h, i, raw)
    \/ EmailUnavailable(h)
    \/ FindAccount(h) \/ FindEmail(h)
    \/ InsertAccount(h) \/ Commit(h) \/ Issue(h)
    \/ Fail(h)

Next ==
    \/ \E raw \in Raw, p \in Password : \E h \in Handler : Signup(h, raw, p)
    \/ \E raw \in Raw, p \in Password \cup {Dummy} : Login(raw, p)
    \/ \E b \in Browser, s \in State :
          \/ BeginAuth(b, s)
          \/ \E h \in Handler : Callback(h, b, s)
    \/ \E b \in Browser, s \in State \cup {None} : CallbackRefused(b, s)
    \/ \E s \in State : ExpireState(s)
    \/ \E b \in Browser : ExpireCookie(b)
    \/ \E h \in Handler : CallStep(h)

Spec == Init /\ [][Next]_vars

-----------------------------------------------------------------------------
(* Properties.                                                              *)

\* Every variable has its type; stored addresses are normalised.
TypeOK ==
    /\ users \in [User -> [email : Email \cup {None}, password : Password \cup {None}]]
    /\ accounts \in [Identity -> User \cup {None}]
    /\ states \subseteq State /\ redeemed \subseteq State
    /\ jar \in [Browser -> State \cup {None}]
    /\ call \in [Handler -> Call]
    /\ sessions \subseteq [user : User, kind : {"password", "oauth"},
                           by : Password \cup {Dummy} \cup Identity]
    /\ began \in [State -> Browser \cup {None}]

\* Users who can only come in through OAuth.
OAuthOnly == {u \in User : users[u].email # None /\ users[u].password = None}

\* A user without a password has exactly one identity, and no identity leads
\* to any other user: neither a race of two first logins of one person (whose
\* address may have changed in between) nor a failure leaves a user nobody can
\* log in to, and no address alone links an identity to an existing user.
IdentityOwnsUser ==
    /\ \A i \in Identity : accounts[i] # None => accounts[i] \in OAuthOnly
    /\ \A u \in OAuthOnly : \E i \in Identity : accounts[i] = u
    /\ \A i, j \in Identity : accounts[i] # None /\ accounts[i] = accounts[j] => i = j

\* A session is issued only to a user whose own password, or own identity, was
\* presented; the dummy hash proves nothing.
SessionsAreProven ==
    \A s \in sessions :
        \/ s.kind = "password" /\ users[s.user].password = s.by
        \/ s.kind = "oauth" /\ accounts[s.by] = s.user

\* A state completes one login: however often and from wherever the callback
\* is repeated, only one request gets past ConsumeState, and it comes from the
\* browser that began the flow.
StateIsSingleUse ==
    [][\A h \in Handler :
         call[h].pc = "consume" /\ call'[h].pc = "exchange" =>
            /\ call[h].state \notin redeemed
            /\ call[h].browser = began[call[h].state]]_vars
=============================================================================
