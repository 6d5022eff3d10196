--------------------------- MODULE AccountsProofs ---------------------------
(***************************************************************************)
(* Proofs about Accounts, for any number of users, identities, browsers,    *)
(* states and concurrent requests.  The tables alone are not inductive:     *)
(* the invariant also says which keys an open CreateUserWithOAuthAccount    *)
(* transaction has to itself, and to which browser a state belongs.         *)
(***************************************************************************)
EXTENDS Accounts, TLAPS

\* Callbacks from FindByProvider on, and transactions that have inserted a user.
Identified == {"account", "email", "insertUser", "insertAccount", "commit", "issue"}
Inserted == {"insertAccount", "commit"}

\* Which fields are set at which pc.
CallShape(h) ==
    /\ call[h].pc = "create" => call[h].email \in Email /\ call[h].password \in Password
    /\ call[h].pc \in Identified => call[h].identity \in Identity /\ call[h].email \in Email
    /\ call[h].pc \in Inserted \cup {"issue"} => call[h].user \in User

\* What the open transaction of h has inserted is not in the tables, and no other
\* open transaction has inserted the same: the ids come from a sequence, the
\* unique indexes make the second INSERT wait.
KeysHeld(h) ==
    /\ call[h].pc \in Inserted =>
          /\ users[call[h].user] = NoUser
          /\ Registered(call[h].email) = {}
          /\ \A g \in Handler \ {h} : call[g].pc \in Inserted =>
                call[g].user # call[h].user /\ call[g].email # call[h].email
    /\ call[h].pc = "commit" =>
          /\ accounts[call[h].identity] = None
          /\ \A g \in Handler \ {h} :
                call[g].pc = "commit" => call[g].identity # call[h].identity

\* The user about to get a session is the one the identity leads to.
IssueIsOwn(h) == call[h].pc = "issue" => accounts[call[h].identity] = call[h].user

EmailsAreUnique ==
    \A u, v \in User : users[u].email # None /\ users[u].email = users[v].email => u = v

\* SessionsAreProven, by something that is not NULL.
Proven(s) ==
    \/ s.kind = "password" /\ users[s.user].password = s.by /\ s.by # None
    \/ s.kind = "oauth" /\ s.by \in Identity /\ accounts[s.by] = s.user

TableInv ==
    /\ TypeOK
    /\ \A h \in Handler : CallShape(h) /\ KeysHeld(h) /\ IssueIsOwn(h)
    /\ EmailsAreUnique
    /\ IdentityOwnsUser
    /\ \A s \in sessions : Proven(s)

\* A state in Redis was begun and not yet redeemed; a cookie is in the browser
\* that began the flow, and so is the callback that brings it.
StateInv ==
    /\ \A s \in states \cup redeemed : began[s] # None
    /\ states \cap redeemed = {}
    /\ \A b \in Browser : jar[b] # None => began[jar[b]] = b
    /\ \A h \in Handler : call[h].pc = "consume" =>
          /\ call[h].state \in State /\ call[h].browser \in Browser
          /\ began[call[h].state] = call[h].browser

-----------------------------------------------------------------------------
(* How the record of a call changes.                                        *)

Replies == {"none", "ok", "conflict", "failed"}

LEMMA IdleType ==
    \A r \in Replies : Idle(r) \in Call /\ Idle(r).pc = "idle"
  BY DEF Idle, Call, PC, Replies

LEMMA GotoEffect ==
    ASSUME TypeOK, NEW h \in Handler, NEW pc \in PC, Goto(h, pc)
    PROVE  /\ call' \in [Handler -> Call]
           /\ call'[h].pc = pc /\ call'[h].browser = call[h].browser
           /\ call'[h].state = call[h].state /\ call'[h].identity = call[h].identity
           /\ call'[h].email = call[h].email /\ call'[h].password = call[h].password
           /\ call'[h].user = call[h].user
           /\ \A g \in Handler \ {h} : call'[g] = call[g]
  <1> DEFINE new == [call[h] EXCEPT !.pc = pc]
  <1>1. call[h] \in Call
    BY DEF TypeOK
  <1>2. /\ new \in Call
        /\ new.pc = pc /\ new.browser = call[h].browser /\ new.state = call[h].state
        /\ new.identity = call[h].identity /\ new.email = call[h].email
        /\ new.password = call[h].password /\ new.user = call[h].user
    BY <1>1 DEF Call
  <1>3. call' = [call EXCEPT ![h] = new]
    BY DEF Goto
  <1> HIDE DEF new
  <1> QED BY <1>2, <1>3 DEF TypeOK

LEMMA EndEffect ==
    ASSUME TypeOK, NEW h \in Handler, NEW r \in Replies, call' = [call EXCEPT ![h] = Idle(r)]
    PROVE  /\ call' \in [Handler -> Call] /\ call'[h].pc = "idle"
           /\ \A g \in Handler \ {h} : call'[g] = call[g]
  BY IdleType DEF TypeOK

LEMMA RespondEffect ==
    ASSUME TypeOK, NEW h \in Handler, NEW r \in Replies, Respond(h, r)
    PROVE  /\ call' \in [Handler -> Call] /\ call'[h].pc = "idle"
           /\ \A g \in Handler \ {h} : call'[g] = call[g]
           /\ jar' \in [Browser -> State \cup {None}]
           /\ \A b \in Browser : jar'[b] = jar[b] \/ jar'[b] = None
  <1>1. call' = [call EXCEPT ![h] = Idle(r)]
    BY DEF Respond
  <1>2. jar' = jar \/ jar' = [jar EXCEPT ![call[h].browser] = None]
    BY DEF Respond
  <1>3. /\ jar' \in [Browser -> State \cup {None}]
        /\ \A b \in Browser : jar'[b] = jar[b] \/ jar'[b] = None
    BY <1>2 DEF TypeOK
  <1> QED BY <1>1, <1>3, EndEffect

-----------------------------------------------------------------------------
(* The tables.                                                              *)

\* A step of one call that leaves both tables alone.
LEMMA QuietStep ==
    ASSUME TableInv, TypeOK', UNCHANGED <<users, accounts>>, NEW h \in Handler,
           \A g \in Handler \ {h} : call'[g] = call[g],
           \A s \in sessions' : s \in sessions \/ Proven(s)',
           CallShape(h)', KeysHeld(h)', IssueIsOwn(h)'
    PROVE  TableInv'
  <1>1. ASSUME NEW g \in Handler, g # h
        PROVE  CallShape(g)' /\ KeysHeld(g)' /\ IssueIsOwn(g)'
    <2>1. call'[g] = call[g] /\ CallShape(g) /\ KeysHeld(g) /\ IssueIsOwn(g)
      BY <1>1 DEF TableInv
    <2>2. CallShape(g)' /\ IssueIsOwn(g)'
      BY <2>1 DEF CallShape, IssueIsOwn
    <2>3. Registered(call[g].email)' = Registered(call[g].email)
      BY <2>1 DEF Registered
    <2>4. ASSUME call[g].pc \in Inserted, call'[h].pc \in Inserted
          PROVE  call'[h].user # call[g].user /\ call'[h].email # call[g].email
      BY <1>1, <2>1, <2>4 DEF KeysHeld
    <2>5. ASSUME call[g].pc = "commit", call'[h].pc = "commit"
          PROVE  call'[h].identity # call[g].identity
      BY <1>1, <2>1, <2>5 DEF KeysHeld
    <2>6. KeysHeld(g)'
      <3>1. ASSUME call'[g].pc \in Inserted
            PROVE  /\ users'[call'[g].user] = NoUser /\ Registered(call[g].email)' = {}
                   /\ \A f \in Handler \ {g} : call'[f].pc \in Inserted =>
                         call'[f].user # call'[g].user /\ call'[f].email # call'[g].email
        BY <2>1, <2>3, <2>4, <3>1 DEF KeysHeld
      <3>2. ASSUME call'[g].pc = "commit"
            PROVE  /\ accounts'[call'[g].identity] = None
                   /\ \A f \in Handler \ {g} :
                         call'[f].pc = "commit" => call'[f].identity # call'[g].identity
        BY <2>1, <2>5, <3>2 DEF KeysHeld
      <3> QED BY <3>1, <3>2 DEF KeysHeld
    <2> QED BY <2>2, <2>6
  <1>2. EmailsAreUnique' /\ IdentityOwnsUser'
    BY DEF TableInv, EmailsAreUnique, IdentityOwnsUser, OAuthOnly
  <1>3. \A s \in sessions' : Proven(s)'
    BY DEF TableInv, Proven
  <1> QED BY <1>1, <1>2, <1>3 DEF TableInv

\* ... and brings the call to a point where it holds no key.
LEMMA KeylessStep ==
    ASSUME TableInv, TypeOK', UNCHANGED <<users, accounts, sessions>>, NEW h \in Handler,
           \A g \in Handler \ {h} : call'[g] = call[g],
           CallShape(h)', call'[h].pc \notin Inserted \cup {"issue"}
    PROVE  TableInv'
  <1>1. KeysHeld(h)' /\ IssueIsOwn(h)'
    BY DEF KeysHeld, IssueIsOwn, Inserted
  <1> QED BY <1>1, QuietStep

\* ... or ends it.
LEMMA EndStep ==
    ASSUME TableInv, TypeOK', UNCHANGED <<users, accounts, sessions>>, NEW h \in Handler,
           \A g \in Handler \ {h} : call'[g] = call[g], call'[h].pc = "idle"
    PROVE  TableInv'
  <1>1. CallShape(h)' /\ call'[h].pc \notin Inserted \cup {"issue"}
    BY DEF CallShape, Inserted, Identified
  <1> QED BY <1>1, KeylessStep

LEMMA InitTableInv == Init => TableInv
  <1> SUFFICES ASSUME Init PROVE TableInv
    OBVIOUS
  <1>1. \A h \in Handler : call[h].pc = "idle"
    BY DEF Init, Idle
  <1>2. NoUser \in [email : Email \cup {None}, password : Password \cup {None}]
        /\ NoUser.email = None
    BY DEF NoUser
  <1>3. TypeOK
    BY <1>2, IdleType DEF Init, TypeOK, Replies
  <1>4. \A h \in Handler : CallShape(h) /\ KeysHeld(h) /\ IssueIsOwn(h)
    BY <1>1 DEF CallShape, KeysHeld, IssueIsOwn, Inserted, Identified
  <1>5. EmailsAreUnique /\ IdentityOwnsUser
    BY <1>2 DEF Init, EmailsAreUnique, IdentityOwnsUser, OAuthOnly
  <1>6. \A s \in sessions : Proven(s)
    BY DEF Init
  <1> QED BY <1>3, <1>4, <1>5, <1>6 DEF TableInv

LEMMA SignupStep ==
    ASSUME TableInv, NEW h \in Handler, NEW raw \in Raw, NEW pw \in Password, Signup(h, raw, pw)
    PROVE  TableInv'
  <1> DEFINE new == [Idle("none") EXCEPT !.pc = "create", !.email = Normalize[raw],
                                         !.password = pw]
  <1>1. /\ new \in Call /\ new.pc = "create"
        /\ new.email = Normalize[raw] /\ new.password = pw /\ Normalize[raw] \in Email
    BY AccountsConstants DEF Idle, Call, PC
  <1>2. call' = [call EXCEPT ![h] = new] /\ UNCHANGED <<users, accounts, states, jar, sessions, began, redeemed>>
    BY DEF Signup
  <1> HIDE DEF new
  <1>3. call'[h] = new /\ \A g \in Handler \ {h} : call'[g] = call[g]
    BY <1>2 DEF TableInv, TypeOK
  <1>4. TypeOK'
    BY <1>1, <1>2 DEF TableInv, TypeOK
  <1>5. CallShape(h)' /\ call'[h].pc \notin Inserted \cup {"issue"}
    BY <1>1, <1>3 DEF CallShape, Inserted, Identified
  <1> QED BY <1>2, <1>3, <1>4, <1>5, KeylessStep

LEMMA CallbackStep ==
    ASSUME TableInv, NEW h \in Handler, NEW b \in Browser, NEW s \in State, Callback(h, b, s)
    PROVE  TableInv'
  <1> DEFINE new == [Idle("none") EXCEPT !.pc = "consume", !.browser = b, !.state = s]
  <1>1. new \in Call /\ new.pc = "consume"
    BY DEF Idle, Call, PC
  <1>2. call' = [call EXCEPT ![h] = new] /\ UNCHANGED <<users, accounts, states, jar, sessions, began, redeemed>>
    BY DEF Callback
  <1> HIDE DEF new
  <1>3. call'[h] = new /\ \A g \in Handler \ {h} : call'[g] = call[g]
    BY <1>2 DEF TableInv, TypeOK
  <1>4. TypeOK'
    BY <1>1, <1>2 DEF TableInv, TypeOK
  <1>5. CallShape(h)' /\ call'[h].pc \notin Inserted \cup {"issue"}
    BY <1>1, <1>3 DEF CallShape, Inserted, Identified
  <1> QED BY <1>2, <1>3, <1>4, <1>5, KeylessStep

LEMMA ConsumeStateStep ==
    ASSUME TableInv, NEW h \in Handler, ConsumeState(h)
    PROVE  TableInv'
  <1>0. TypeOK /\ UNCHANGED <<users, accounts, sessions, began>>
    BY DEF TableInv, ConsumeState
  <1>1. CASE Respond(h, "failed") /\ UNCHANGED redeemed
             /\ states' \in {states, states \ {call[h].state}}
    <2>1. TypeOK'
      BY <1>0, <1>1, RespondEffect DEF TypeOK, Replies
    <2> QED BY <1>0, <1>1, <2>1, RespondEffect, EndStep DEF Replies
  <1>2. CASE /\ call[h].state \in states
             /\ states' = states \ {call[h].state}
             /\ redeemed' = redeemed \cup {call[h].state}
             /\ Goto(h, "exchange")
             /\ UNCHANGED jar
    <2>1. /\ call' \in [Handler -> Call] /\ call'[h].pc = "exchange"
          /\ \A g \in Handler \ {h} : call'[g] = call[g]
      BY <1>0, <1>2, GotoEffect DEF PC
    <2>2. TypeOK'
      BY <1>0, <1>2, <2>1 DEF TypeOK
    <2>3. CallShape(h)' /\ call'[h].pc \notin Inserted \cup {"issue"}
      BY <2>1 DEF CallShape, Inserted, Identified
    <2> QED BY <1>0, <2>1, <2>2, <2>3, KeylessStep
  <1> QED BY <1>1, <1>2 DEF ConsumeState

LEMMA ExchangeStep ==
    ASSUME TableInv, NEW h \in Handler, NEW i \in Identity, NEW raw \in Raw, Exchange(h, i, raw)
    PROVE  TableInv'
  <1> DEFINE new == [call[h] EXCEPT !.pc = "account", !.identity = i, !.email = Normalize[raw]]
  <1>0. call[h] \in Call /\ Normalize[raw] \in Email
    BY AccountsConstants DEF TableInv, TypeOK
  <1>1. new \in Call /\ new.pc = "account" /\ new.identity = i /\ new.email = Normalize[raw]
    BY <1>0 DEF Call, PC
  <1>2. call' = [call EXCEPT ![h] = new] /\ UNCHANGED <<users, accounts, states, jar, sessions, began, redeemed>>
    BY DEF Exchange
  <1> HIDE DEF new
  <1>3. call'[h] = new /\ \A g \in Handler \ {h} : call'[g] = call[g]
    BY <1>2 DEF TableInv, TypeOK
  <1>4. TypeOK'
    BY <1>1, <1>2 DEF TableInv, TypeOK
  <1>5. CallShape(h)' /\ call'[h].pc \notin Inserted \cup {"issue"}
    BY <1>0, <1>1, <1>3 DEF CallShape, Inserted, Identified
  <1> QED BY <1>2, <1>3, <1>4, <1>5, KeylessStep

LEMMA FindAccountStep == ASSUME TableInv, NEW h \in Handler, FindAccount(h) PROVE TableInv'
  <1>0. /\ TypeOK /\ UNCHANGED <<users, accounts, states, jar, sessions, began, redeemed>>
        /\ call[h] \in Call /\ call[h].pc = "account"
        /\ call[h].identity \in Identity /\ call[h].email \in Email
        /\ accounts[call[h].identity] \in User \cup {None}
    BY DEF TableInv, TypeOK, FindAccount, CallShape, Identified
  <1>1. CASE Goto(h, "email")
    <2>1. TypeOK' /\ call'[h].pc = "email" /\ call'[h].identity = call[h].identity
          /\ call'[h].email = call[h].email /\ \A g \in Handler \ {h} : call'[g] = call[g]
      BY <1>0, <1>1, GotoEffect DEF TypeOK, PC
    <2>2. CallShape(h)' /\ call'[h].pc \notin Inserted \cup {"issue"}
      BY <1>0, <2>1 DEF CallShape, Inserted, Identified
    <2> QED BY <1>0, <2>1, <2>2, KeylessStep
  <1>2. CASE /\ accounts[call[h].identity] # None
             /\ call' = [call EXCEPT ![h] = [call[h] EXCEPT !.pc = "issue",
                                                !.user = accounts[call[h].identity]]]
    <2> DEFINE u == accounts[call[h].identity]
               new == [call[h] EXCEPT !.pc = "issue", !.user = u]
    <2>1. u \in User
      BY <1>0, <1>2
    <2> HIDE DEF u
    <2>2. /\ new \in Call /\ new.pc = "issue" /\ new.user = u
          /\ new.identity = call[h].identity /\ new.email = call[h].email
      BY <1>0, <2>1 DEF Call, PC
    <2>3. call' = [call EXCEPT ![h] = new]
      BY <1>2 DEF u
    <2> HIDE DEF new
    <2>4. TypeOK' /\ call'[h] = new /\ \A g \in Handler \ {h} : call'[g] = call[g]
      BY <1>0, <2>2, <2>3 DEF TypeOK
    <2>5. CallShape(h)' /\ KeysHeld(h)' /\ IssueIsOwn(h)'
      BY <1>0, <2>1, <2>2, <2>4 DEF CallShape, KeysHeld, IssueIsOwn, Inserted, Identified, u
    <2> QED BY <1>0, <2>4, <2>5, QuietStep
  <1> QED BY <1>1, <1>2 DEF FindAccount

LEMMA FindEmailStep == ASSUME TableInv, NEW h \in Handler, FindEmail(h) PROVE TableInv'
  <1>0. /\ TypeOK /\ UNCHANGED <<users, accounts, states, sessions, began, redeemed>>
        /\ call[h].pc = "email" /\ call[h].identity \in Identity /\ call[h].email \in Email
    BY DEF TableInv, FindEmail, CallShape, Identified
  <1>1. CASE Goto(h, "insertUser") /\ UNCHANGED jar
    <2>1. TypeOK' /\ call'[h].pc = "insertUser" /\ call'[h].identity = call[h].identity
          /\ call'[h].email = call[h].email /\ \A g \in Handler \ {h} : call'[g] = call[g]
      BY <1>0, <1>1, GotoEffect DEF TypeOK, PC
    <2>2. CallShape(h)' /\ call'[h].pc \notin Inserted \cup {"issue"}
      BY <1>0, <2>1 DEF CallShape, Inserted, Identified
    <2> QED BY <1>0, <2>1, <2>2, KeylessStep
  <1>2. CASE Respond(h, "conflict")
    <2>1. TypeOK'
      BY <1>0, <1>2, RespondEffect DEF TypeOK, Replies
    <2> QED BY <1>0, <1>2, <2>1, RespondEffect, EndStep DEF Replies
  <1> QED BY <1>1, <1>2 DEF FindEmail

LEMMA InsertUserStep ==
    ASSUME TableInv, NEW h \in Handler, NEW u \in User, InsertUser(h, u)
    PROVE  TableInv'
  <1>0. /\ TypeOK /\ UNCHANGED <<users, accounts, states, sessions, began, redeemed>>
        /\ call[h] \in Call /\ call[h].pc = "insertUser"
        /\ call[h].identity \in Identity /\ call[h].email \in Email
    BY DEF TableInv, TypeOK, InsertUser, CallShape, Identified
  <1>1. CASE Respond(h, "conflict")
    <2>1. TypeOK'
      BY <1>0, <1>1, RespondEffect DEF TypeOK, Replies
    <2> QED BY <1>0, <1>1, <2>1, RespondEffect, EndStep DEF Replies
  <1>2. CASE /\ Registered(call[h].email) = {} /\ FreshUser(u) /\ ~EmailLocked(h)
             /\ call' = [call EXCEPT ![h] = [call[h] EXCEPT !.pc = "insertAccount", !.user = u]]
             /\ UNCHANGED jar
    <2> DEFINE new == [call[h] EXCEPT !.pc = "insertAccount", !.user = u]
    <2>1. /\ new \in Call /\ new.pc = "insertAccount" /\ new.user = u
          /\ new.identity = call[h].identity /\ new.email = call[h].email
      BY <1>0 DEF Call, PC
    <2> HIDE DEF new
    <2>2. TypeOK' /\ call'[h] = new /\ \A g \in Handler \ {h} : call'[g] = call[g]
      BY <1>0, <1>2, <2>1 DEF TypeOK, new
    <2>3. CallShape(h)' /\ IssueIsOwn(h)'
      BY <1>0, <2>1, <2>2 DEF CallShape, IssueIsOwn, Inserted, Identified
    <2>4. \A g \in Handler \ {h} : call[g].pc \in Inserted =>
              call[g].user # u /\ call[g].email # call[h].email
      BY <1>2 DEF FreshUser, EmailLocked, Inserted
    <2>5. users'[u] = NoUser /\ {v \in User : users'[v].email = call'[h].email} = {}
      BY <1>0, <1>2, <2>1, <2>2 DEF FreshUser, Registered
    <2>6. KeysHeld(h)'
      BY <2>1, <2>2, <2>4, <2>5 DEF KeysHeld, Registered
    <2> QED BY <1>0, <2>2, <2>3, <2>6, QuietStep
  <1> QED BY <1>1, <1>2 DEF InsertUser

LEMMA InsertAccountStep == ASSUME TableInv, NEW h \in Handler, InsertAccount(h) PROVE TableInv'
  <1>0. /\ TypeOK /\ UNCHANGED <<users, accounts, states, sessions, began, redeemed>>
        /\ call[h] \in Call /\ call[h].pc = "insertAccount" /\ call[h].user \in User
        /\ call[h].identity \in Identity /\ call[h].email \in Email /\ KeysHeld(h)
    BY DEF TableInv, TypeOK, InsertAccount, CallShape, Identified, Inserted
  <1>1. CASE Respond(h, "failed")
    <2>1. TypeOK'
      BY <1>0, <1>1, RespondEffect DEF TypeOK, Replies
    <2> QED BY <1>0, <1>1, <2>1, RespondEffect, EndStep DEF Replies
  <1>2. CASE /\ accounts[call[h].identity] = None /\ ~IdentityLocked(h)
             /\ Goto(h, "commit") /\ UNCHANGED jar
    <2>1. /\ TypeOK' /\ call'[h].pc = "commit" /\ call'[h].identity = call[h].identity
          /\ call'[h].email = call[h].email /\ call'[h].user = call[h].user
          /\ \A g \in Handler \ {h} : call'[g] = call[g]
      BY <1>0, <1>2, GotoEffect DEF TypeOK, PC
    <2>2. CallShape(h)' /\ IssueIsOwn(h)'
      BY <1>0, <2>1 DEF CallShape, IssueIsOwn, Inserted, Identified
    <2>3. \A g \in Handler \ {h} : call[g].pc = "commit" => call[g].identity # call[h].identity
      BY <1>2 DEF IdentityLocked
    <2>4. /\ users[call[h].user] = NoUser /\ Registered(call[h].email) = {}
          /\ \A g \in Handler \ {h} : call[g].pc \in Inserted =>
                call[g].user # call[h].user /\ call[g].email # call[h].email
      BY <1>0 DEF KeysHeld, Inserted
    <2>5. Registered(call[h].email)' = {}
      BY <1>0, <2>1, <2>4 DEF Registered
    <2>6. KeysHeld(h)'
      BY <1>0, <1>2, <2>1, <2>3, <2>4, <2>5 DEF KeysHeld
    <2> QED BY <1>0, <2>1, <2>2, <2>6, QuietStep
  <1> QED BY <1>1, <1>2 DEF InsertAccount

LEMMA IssueStep == ASSUME TableInv, NEW h \in Handler, Issue(h) PROVE TableInv'
  <1> DEFINE s == [user |-> call[h].user, kind |-> "oauth", by |-> call[h].identity]
  <1>0. /\ TypeOK /\ UNCHANGED <<users, accounts, states, began, redeemed>>
        /\ call[h].identity \in Identity /\ call[h].user \in User
        /\ accounts[call[h].identity] = call[h].user
        /\ sessions' = sessions \cup {s} /\ Respond(h, "ok")
    BY DEF TableInv, Issue, CallShape, Identified, IssueIsOwn
  <1>1. s \in [user : User, kind : {"password", "oauth"}, by : Password \cup {Dummy} \cup Identity]
        /\ s.kind = "oauth" /\ s.by = call[h].identity /\ s.user = call[h].user
    BY <1>0
  <1>2. sessions' = sessions \cup {s}
    BY <1>0
  <1> HIDE DEF s
  <1>3. /\ TypeOK' /\ call'[h].pc = "idle"
        /\ \A g \in Handler \ {h} : call'[g] = call[g]
    BY <1>0, <1>1, <1>2, RespondEffect DEF TypeOK, Replies
  <1>4. CallShape(h)' /\ KeysHeld(h)' /\ IssueIsOwn(h)'
    BY <1>3 DEF CallShape, KeysHeld, IssueIsOwn, Inserted, Identified
  <1>5. \A r \in sessions' : r \in sessions \/ Proven(r)'
    BY <1>0, <1>1, <1>2 DEF Proven
  <1> QED BY <1>0, <1>3, <1>4, <1>5, QuietStep

LEMMA LoginStep ==
    ASSUME TableInv, NEW raw \in Raw, NEW pw \in Password \cup {Dummy}, Login(raw, pw)
    PROVE  TableInv'
  <1> DEFINE e == Normalize[raw]
  <1>1. PICK u \in Registered(e) :
            /\ ComparedHash(e) = pw /\ users[u].password # None
            /\ sessions' = sessions \cup {[user |-> u, kind |-> "password", by |-> pw]}
            /\ UNCHANGED <<users, accounts, states, jar, call, began, redeemed>>
    BY DEF Login
  <1>2. e \in Email /\ e # None /\ u \in User /\ users[u].email = e
    BY AccountsConstants DEF Registered
  <1>3. \A v \in Registered(e) : v = u
    BY <1>2 DEF TableInv, EmailsAreUnique, Registered
  <1>4. users[u].password = pw
    <2>1. (CHOOSE v \in Registered(e) : TRUE) \in Registered(e)
      BY <1>1
    <2>2. (CHOOSE v \in Registered(e) : TRUE) = u
      BY <1>3, <2>1
    <2>3. \E v \in Registered(e) : users[v].password # None
      BY <1>1
    <2>4. ComparedHash(e) = users[CHOOSE v \in Registered(e) : TRUE].password
      BY <2>3, Zenon DEF ComparedHash
    <2> QED BY <1>1, <2>2, <2>4
  <1> DEFINE s == [user |-> u, kind |-> "password", by |-> pw]
  <1>5. s \in [user : User, kind : {"password", "oauth"}, by : Password \cup {Dummy} \cup Identity]
        /\ s.kind = "password" /\ s.by = pw /\ s.user = u
    BY <1>2
  <1>6. sessions' = sessions \cup {s}
    BY <1>1
  <1> HIDE DEF s, e
  <1>7. TypeOK'
    BY <1>1, <1>5, <1>6 DEF TableInv, TypeOK
  <1>8. \A r \in sessions' : Proven(r)'
    BY <1>1, <1>4, <1>5, <1>6 DEF Proven, TableInv
  <1>9. \A h \in Handler : CallShape(h)' /\ KeysHeld(h)' /\ IssueIsOwn(h)'
    BY <1>1 DEF TableInv, CallShape, KeysHeld, IssueIsOwn, Registered
  <1>10. EmailsAreUnique' /\ IdentityOwnsUser'
    BY <1>1 DEF TableInv, EmailsAreUnique, IdentityOwnsUser, OAuthOnly
  <1> QED BY <1>7, <1>8, <1>9, <1>10 DEF TableInv

\* A new user, with a password or (in the same step) with its identity.
LEMMA NewUserRows ==
    ASSUME TableInv, NEW u \in User, NEW e \in Email, NEW pw \in Password \cup {None},
           users[u] = NoUser, Registered(e) = {},
           users' = [users EXCEPT ![u] = [email |-> e, password |-> pw]]
    PROVE  /\ users' \in [User -> [email : Email \cup {None}, password : Password \cup {None}]]
           /\ users'[u].email = e /\ users'[u].password = pw
           /\ \A v \in User \ {u} : users'[v] = users[v]
           /\ EmailsAreUnique'
           /\ \A i \in Identity : accounts[i] # u
           /\ \A s \in sessions : s.kind = "password" => s.user # u
  <1>1. /\ users' \in [User -> [email : Email \cup {None}, password : Password \cup {None}]]
        /\ users'[u].email = e /\ users'[u].password = pw
        /\ \A v \in User \ {u} : users'[v] = users[v]
    BY DEF TableInv, TypeOK
  <1>2. users[u].email = None /\ users[u].password = None
    BY DEF NoUser
  <1>3. \A v \in User : users[v].email # e
    BY DEF Registered
  <1>4. EmailsAreUnique'
    BY <1>1, <1>3 DEF TableInv, EmailsAreUnique
  <1>5. \A i \in Identity : accounts[i] # u
    BY <1>2, AccountsConstants DEF TableInv, IdentityOwnsUser, OAuthOnly
  <1>6. \A s \in sessions : s.kind = "password" => s.user # u
    BY <1>2 DEF TableInv, Proven
  <1> QED BY <1>1, <1>4, <1>5, <1>6

LEMMA CreateStep ==
    ASSUME TableInv, NEW h \in Handler, NEW u \in User, Create(h, u)
    PROVE  TableInv'
  <1> DEFINE e == call[h].email
             pw == call[h].password
  <1>0. /\ TypeOK /\ UNCHANGED <<accounts, states, jar, sessions, began, redeemed>>
        /\ call[h].pc = "create" /\ e \in Email /\ pw \in Password /\ ~EmailLocked(h)
    BY DEF TableInv, Create, CallShape
  <1>1. CASE call' = [call EXCEPT ![h] = Idle("conflict")] /\ UNCHANGED users
    <2>1. TypeOK'
      BY <1>0, <1>1, EndEffect DEF TypeOK, Replies
    <2> QED BY <1>0, <1>1, <2>1, EndEffect, EndStep DEF Replies
  <1>2. CASE /\ Registered(e) = {} /\ FreshUser(u)
             /\ users' = [users EXCEPT ![u] = [email |-> e, password |-> pw]]
             /\ \E r \in {"ok", "failed"} : call' = [call EXCEPT ![h] = Idle(r)]
    <2>1. /\ call' \in [Handler -> Call] /\ call'[h].pc = "idle"
          /\ \A g \in Handler \ {h} : call'[g] = call[g]
      BY <1>0, <1>2, EndEffect DEF Replies
    <2>2. users[u] = NoUser /\ \A g \in Handler : call[g].user # u
      BY <1>2 DEF FreshUser
    <2> HIDE DEF e, pw
    <2>3. /\ users' \in [User -> [email : Email \cup {None}, password : Password \cup {None}]]
          /\ users'[u].email = e /\ users'[u].password = pw
          /\ \A v \in User \ {u} : users'[v] = users[v]
          /\ EmailsAreUnique'
          /\ \A i \in Identity : accounts[i] # u
          /\ \A s \in sessions : s.kind = "password" => s.user # u
      BY <1>0, <1>2, <2>2, NewUserRows
    <2>4. TypeOK'
      BY <1>0, <2>1, <2>3 DEF TypeOK
    <2>5. ASSUME NEW g \in Handler PROVE CallShape(g)' /\ KeysHeld(g)' /\ IssueIsOwn(g)'
      <3>1. CASE g = h
        BY <2>1, <3>1 DEF CallShape, KeysHeld, IssueIsOwn, Inserted, Identified
      <3>2. CASE g # h
        <4>0. call'[g] = call[g] /\ CallShape(g) /\ KeysHeld(g) /\ IssueIsOwn(g)
          BY <2>1, <3>2 DEF TableInv
        <4>1. CallShape(g)' /\ IssueIsOwn(g)'
          BY <1>0, <4>0 DEF CallShape, IssueIsOwn
        <4>2. ASSUME call[g].pc \in Inserted
              PROVE  /\ users'[call[g].user] = NoUser /\ Registered(call[g].email)' = {}
                     /\ \A f \in Handler \ {g} : call'[f].pc \in Inserted =>
                           call'[f].user # call[g].user /\ call'[f].email # call[g].email
          <5>1. call[g].email # e /\ call[g].user \in User \ {u}
            BY <1>0, <2>2, <3>2, <4>0, <4>2 DEF EmailLocked, Inserted, CallShape, e
          <5>2. users[call[g].user] = NoUser /\ Registered(call[g].email) = {}
            BY <4>0, <4>2 DEF KeysHeld
          <5>3. Registered(call[g].email)' = {}
            BY <2>3, <4>0, <5>1, <5>2 DEF Registered
          <5>4. \A f \in Handler \ {g} : call'[f].pc \in Inserted =>
                    call'[f].user # call[g].user /\ call'[f].email # call[g].email
            BY <2>1, <4>0, <4>2 DEF KeysHeld, Inserted
          <5> QED BY <2>3, <5>1, <5>2, <5>3, <5>4
        <4>3. ASSUME call[g].pc = "commit"
              PROVE  /\ accounts'[call[g].identity] = None
                     /\ \A f \in Handler \ {g} :
                           call'[f].pc = "commit" => call'[f].identity # call[g].identity
          BY <1>0, <2>1, <4>0, <4>3 DEF KeysHeld
        <4>4. KeysHeld(g)'
          BY <4>0, <4>2, <4>3 DEF KeysHeld
        <4> QED BY <4>1, <4>4
      <3> QED BY <3>1, <3>2
    <2>6. IdentityOwnsUser'
      <3>1. \A v \in User : v \in OAuthOnly' <=> v \in OAuthOnly
        BY <1>0, <2>2, <2>3, AccountsConstants DEF OAuthOnly, NoUser
      <3>2. OAuthOnly' = OAuthOnly
        BY <3>1 DEF OAuthOnly
      <3> QED BY <1>0, <3>2 DEF TableInv, IdentityOwnsUser
    <2>7. \A s \in sessions' : Proven(s)'
      BY <1>0, <2>3 DEF TableInv, TypeOK, Proven
    <2> QED BY <2>3, <2>4, <2>5, <2>6, <2>7 DEF TableInv
  <1> QED BY <1>1, <1>2 DEF Create

LEMMA CommitStep == ASSUME TableInv, NEW h \in Handler, Commit(h) PROVE TableInv'
  <1> DEFINE u == call[h].user
             e == call[h].email
             i == call[h].identity
  <1>0. /\ TypeOK /\ UNCHANGED <<states, sessions, began, redeemed>>
        /\ call[h].pc = "commit" /\ e \in Email /\ u \in User /\ i \in Identity
        /\ users[u] = NoUser /\ Registered(e) = {} /\ accounts[i] = None
        /\ \A g \in Handler \ {h} : /\ call[g].pc \in Inserted =>
                                         call[g].user # u /\ call[g].email # e
                                    /\ call[g].pc = "commit" => call[g].identity # i
    BY DEF TableInv, Commit, CallShape, KeysHeld, Identified, Inserted
  <1>1. /\ users' = [users EXCEPT ![u] = [email |-> e, password |-> None]]
        /\ accounts' = [accounts EXCEPT ![i] = u]
    BY DEF Commit, NewUser
  <1>2. /\ call' \in [Handler -> Call] /\ jar' \in [Browser -> State \cup {None}]
        /\ \A g \in Handler \ {h} : call'[g] = call[g]
        /\ \/ call'[h].pc = "idle"
           \/ /\ call'[h].pc = "issue" /\ call'[h].user = u
              /\ call'[h].identity = i /\ call'[h].email = e
    <2>1. CASE Respond(h, "failed")
      BY <1>0, <2>1, RespondEffect DEF Replies
    <2>2. CASE Goto(h, "issue") /\ UNCHANGED jar
      BY <1>0, <2>2, GotoEffect DEF PC, TypeOK
    <2> QED BY <2>1, <2>2 DEF Commit
  <1> HIDE DEF u, e, i
  <1>3. /\ users' \in [User -> [email : Email \cup {None}, password : Password \cup {None}]]
        /\ users'[u].email = e /\ users'[u].password = None
        /\ \A v \in User \ {u} : users'[v] = users[v]
        /\ EmailsAreUnique'
        /\ \A j \in Identity : accounts[j] # u
        /\ \A s \in sessions : s.kind = "password" => s.user # u
    BY <1>0, <1>1, NewUserRows
  <1>4. accounts' \in [Identity -> User \cup {None}] /\ accounts'[i] = u
        /\ \A j \in Identity \ {i} : accounts'[j] = accounts[j]
    BY <1>0, <1>1 DEF TypeOK
  <1>5. TypeOK'
    BY <1>0, <1>2, <1>3, <1>4 DEF TypeOK
  <1>6. ASSUME NEW g \in Handler PROVE CallShape(g)' /\ KeysHeld(g)' /\ IssueIsOwn(g)'
    <2>1. CASE g = h
      BY <1>0, <1>2, <1>4, <2>1 DEF CallShape, KeysHeld, IssueIsOwn, Inserted, Identified
    <2>2. CASE g # h
      <3>0. call'[g] = call[g] /\ CallShape(g) /\ KeysHeld(g) /\ IssueIsOwn(g)
        BY <1>2, <2>2 DEF TableInv
      <3>1. CallShape(g)'
        BY <3>0 DEF CallShape
      <3>2. IssueIsOwn(g)'
        <4> SUFFICES ASSUME call[g].pc = "issue"
                     PROVE  accounts'[call[g].identity] = call[g].user
          BY <3>0 DEF IssueIsOwn
        <4>1. /\ call[g].identity \in Identity /\ call[g].user \in User
              /\ accounts[call[g].identity] = call[g].user
          BY <3>0 DEF IssueIsOwn, CallShape, Identified
        <4>2. call[g].identity # i
          BY <1>0, <4>1, AccountsConstants
        <4> QED BY <1>4, <4>1, <4>2
      <3>3. ASSUME call[g].pc \in Inserted
            PROVE  /\ users'[call[g].user] = NoUser /\ Registered(call[g].email)' = {}
                   /\ \A f \in Handler \ {g} : call'[f].pc \in Inserted =>
                         call'[f].user # call[g].user /\ call'[f].email # call[g].email
        <4>1. call[g].email # e /\ call[g].user \in User \ {u}
          BY <1>0, <2>2, <3>0, <3>3 DEF CallShape
        <4>2. users[call[g].user] = NoUser /\ Registered(call[g].email) = {}
          BY <3>0, <3>3 DEF KeysHeld
        <4>3. Registered(call[g].email)' = {}
          BY <1>3, <3>0, <4>1, <4>2 DEF Registered
        <4>4. \A f \in Handler \ {g} : call'[f].pc \in Inserted =>
                  call'[f].user # call[g].user /\ call'[f].email # call[g].email
          BY <1>2, <3>0, <3>3 DEF KeysHeld, Inserted
        <4> QED BY <1>3, <4>1, <4>2, <4>3, <4>4
      <3>4. ASSUME call[g].pc = "commit"
            PROVE  /\ accounts'[call[g].identity] = None
                   /\ \A f \in Handler \ {g} :
                         call'[f].pc = "commit" => call'[f].identity # call[g].identity
        <4>1. call[g].identity \in Identity \ {i} /\ accounts[call[g].identity] = None
          BY <1>0, <2>2, <3>0, <3>4 DEF CallShape, KeysHeld, Identified
        <4>2. \A f \in Handler \ {g} :
                  call'[f].pc = "commit" => call'[f].identity # call[g].identity
          BY <1>2, <3>0, <3>4 DEF KeysHeld
        <4> QED BY <1>4, <4>1, <4>2
      <3>5. KeysHeld(g)'
        BY <3>0, <3>3, <3>4 DEF KeysHeld
      <3> QED BY <3>1, <3>2, <3>5
    <2> QED BY <2>1, <2>2
  <1>7. IdentityOwnsUser'
    <2>1. \A v \in User : v \in OAuthOnly' <=> v \in OAuthOnly \/ v = u
      BY <1>0, <1>3, AccountsConstants DEF OAuthOnly
    <2>2. \A j \in Identity : accounts'[j] # None => accounts'[j] \in OAuthOnly'
      BY <1>0, <1>4, <2>1 DEF TableInv, TypeOK, IdentityOwnsUser
    <2>3. \A v \in OAuthOnly' : \E j \in Identity : accounts'[j] = v
      <3>1. ASSUME NEW v \in OAuthOnly PROVE \E j \in Identity : accounts'[j] = v
        <4>1. PICK j \in Identity : accounts[j] = v
          BY DEF TableInv, IdentityOwnsUser
        <4>2. v \in User
          BY DEF OAuthOnly
        <4>3. j # i
          BY <1>0, <4>1, <4>2, AccountsConstants
        <4> QED BY <1>4, <4>1, <4>3
      <3>2. OAuthOnly' \subseteq User
        BY DEF OAuthOnly
      <3> QED BY <1>0, <1>4, <2>1, <3>1, <3>2
    <2>4. \A j, k \in Identity : accounts'[j] # None /\ accounts'[j] = accounts'[k] => j = k
      BY <1>0, <1>3, <1>4 DEF TableInv, IdentityOwnsUser
    <2> QED BY <2>2, <2>3, <2>4 DEF IdentityOwnsUser
  <1>8. \A s \in sessions' : Proven(s)'
    <2> SUFFICES ASSUME NEW s \in sessions PROVE Proven(s)'
      BY <1>0
    <2>1. Proven(s) /\ s.user \in User
      BY <1>0 DEF TableInv, TypeOK
    <2>2. s.kind = "oauth" /\ s.by \in Identity /\ accounts[s.by] = s.user => s.by # i
      BY <1>0, <2>1, AccountsConstants
    <2> QED BY <1>0, <1>3, <1>4, <2>1, <2>2 DEF Proven
  <1> QED BY <1>3, <1>5, <1>6, <1>7, <1>8 DEF TableInv

LEMMA NextTableInv == TableInv /\ [Next]_vars => TableInv'
  <1> SUFFICES ASSUME TableInv, [Next]_vars PROVE TableInv'
    OBVIOUS
  <1>0. TypeOK
    BY DEF TableInv
  <1>1. ASSUME NEW h \in Handler, EmailUnavailable(h) \/ Fail(h) PROVE TableInv'
    <2>0. UNCHANGED <<users, accounts, states, sessions, began, redeemed>>
      BY <1>1 DEF EmailUnavailable, Fail
    <2>1. CASE Respond(h, "failed")
      <3>1. TypeOK'
        BY <1>0, <2>0, <2>1, RespondEffect DEF TypeOK, Replies
      <3> QED BY <1>0, <2>0, <2>1, <3>1, RespondEffect, EndStep DEF Replies
    <2>2. CASE call' = [call EXCEPT ![h] = Idle("failed")] /\ UNCHANGED jar
      <3>1. TypeOK'
        BY <1>0, <2>0, <2>2, EndEffect DEF TypeOK, Replies
      <3> QED BY <1>0, <2>0, <2>2, <3>1, EndEffect, EndStep DEF Replies
    <2> QED BY <1>1, <2>1, <2>2 DEF EmailUnavailable, Fail
  <1>2. ASSUME UNCHANGED <<users, accounts, sessions, call>>, TypeOK' PROVE TableInv'
    <2>1. \A h \in Handler : CallShape(h)' /\ KeysHeld(h)' /\ IssueIsOwn(h)'
      BY <1>2 DEF TableInv, CallShape, KeysHeld, IssueIsOwn, Registered
    <2>2. EmailsAreUnique' /\ IdentityOwnsUser'
      BY <1>2 DEF TableInv, EmailsAreUnique, IdentityOwnsUser, OAuthOnly
    <2>3. \A s \in sessions' : Proven(s)'
      BY <1>2 DEF TableInv, Proven
    <2> QED BY <1>2, <2>1, <2>2, <2>3 DEF TableInv
  <1>3. ASSUME NEW b \in Browser, NEW s \in State, BeginAuth(b, s)
        PROVE  UNCHANGED <<users, accounts, sessions, call>> /\ TypeOK'
    BY <1>0, <1>3 DEF BeginAuth, TypeOK
  <1>4. ASSUME NEW b \in Browser, NEW s, CallbackRefused(b, s) \/ ExpireCookie(b)
        PROVE  UNCHANGED <<users, accounts, sessions, call>> /\ TypeOK'
    BY <1>0, <1>4 DEF CallbackRefused, ExpireCookie, TypeOK
  <1>5. ASSUME NEW s \in State, ExpireState(s)
        PROVE  UNCHANGED <<users, accounts, sessions, call>> /\ TypeOK'
    BY <1>0, <1>5 DEF ExpireState, TypeOK
  <1>6. CASE UNCHANGED vars
    <2>1. TypeOK'
      BY <1>0, <1>6 DEF vars, TypeOK
    <2> QED BY <1>2, <1>6, <2>1 DEF vars
  <1>7. CASE \E h \in Handler : CallStep(h)
    BY <1>1, <1>7, CreateStep, InsertUserStep, ConsumeStateStep, ExchangeStep, FindAccountStep,
       FindEmailStep, InsertAccountStep, CommitStep, IssueStep DEF CallStep
  <1>8. CASE \/ \E raw \in Raw, pw \in Password : \E h \in Handler : Signup(h, raw, pw)
             \/ \E raw \in Raw, pw \in Password \cup {Dummy} : Login(raw, pw)
             \/ \E b \in Browser, s \in State : \E h \in Handler : Callback(h, b, s)
    BY <1>8, SignupStep, LoginStep, CallbackStep
  <1> QED BY <1>2, <1>3, <1>4, <1>5, <1>6, <1>7, <1>8 DEF Next

\* Every variable keeps its type, addresses stay unique, and open transactions keep
\* to themselves the keys they have inserted (the unique indexes of users and
\* oauth_accounts).
THEOREM TableInvariance == Spec => []TableInv
  BY InitTableInv, NextTableInv, PTL DEF Spec

\* Each OAuth identity owns exactly the user it created, and every user without a
\* password belongs to one identity, however first logins race, fail or lose the
\* acknowledgement of their commit (CreateUserWithOAuthAccount).
THEOREM IdentitiesOwnUsers == Spec => []IdentityOwnsUser
  <1>1. TableInv => IdentityOwnsUser
    BY DEF TableInv
  <1> QED BY <1>1, TableInvariance, PTL

\* Nobody gets a session without the password of the very user or an identity
\* linked to it, and both stay what they were (Login, HandleCallback).
THEOREM ProvenSessions == Spec => []SessionsAreProven
  <1>1. TableInv => SessionsAreProven
    BY DEF TableInv, Proven, SessionsAreProven
  <1> QED BY <1>1, TableInvariance, PTL

-----------------------------------------------------------------------------
(* The state of the OAuth flow.                                             *)

LEMMA InitStateInv == Init => StateInv
  <1> SUFFICES ASSUME Init PROVE StateInv
    OBVIOUS
  <1>1. \A h \in Handler : call[h].pc = "idle"
    BY DEF Init, Idle
  <1> QED BY <1>1 DEF Init, StateInv

\* A step that begins no flow: states disappear, cookies are deleted, calls go
\* on or end.
LEMMA StateQuiet ==
    ASSUME TypeOK, StateInv, UNCHANGED began,
           states' \subseteq states, redeemed' \subseteq redeemed \cup (states \ states'),
           \A b \in Browser : jar'[b] = jar[b] \/ jar'[b] = None,
           \A h \in Handler : call'[h].pc = "consume" =>
              \/ call'[h] = call[h]
              \/ /\ call'[h].state \in State /\ call'[h].browser \in Browser
                 /\ began[call'[h].state] = call'[h].browser
    PROVE  StateInv'
  <1>1. \A s \in states' \cup redeemed' : began'[s] # None
    BY DEF StateInv
  <1>2. states' \cap redeemed' = {}
    BY DEF StateInv
  <1>3. \A b \in Browser : jar'[b] # None => began'[jar'[b]] = b
    BY DEF StateInv
  <1>4. \A h \in Handler : call'[h].pc = "consume" =>
            /\ call'[h].state \in State /\ call'[h].browser \in Browser
            /\ began'[call'[h].state] = call'[h].browser
    BY DEF StateInv
  <1> QED BY <1>1, <1>2, <1>3, <1>4 DEF StateInv

\* No step but Callback brings a call to ConsumeState.
LEMMA ConsumeEntry ==
    ASSUME TableInv, NEW h \in Handler, CallStep(h), NEW g \in Handler, call'[g].pc = "consume"
    PROVE  call'[g] = call[g]
  <1>0. TypeOK /\ call \in [Handler -> Call]
    BY DEF TableInv, TypeOK
  <1>1. ASSUME NEW r \in Replies, call' = [call EXCEPT ![h] = Idle(r)]
        PROVE  call'[h].pc = "idle" /\ \A f \in Handler \ {h} : call'[f] = call[f]
    BY <1>0, <1>1, EndEffect
  <1>2. ASSUME NEW pc \in {"exchange", "email", "insertUser", "commit", "issue"}, Goto(h, pc)
        PROVE  call'[h].pc = pc /\ \A f \in Handler \ {h} : call'[f] = call[f]
    BY <1>0, <1>2, GotoEffect DEF PC
  <1>3. ASSUME NEW i \in Identity, NEW raw \in Raw, Exchange(h, i, raw)
        PROVE  call'[h].pc = "account" /\ \A f \in Handler \ {h} : call'[f] = call[f]
    BY <1>0, <1>3 DEF Exchange, Call
  <1>4. ASSUME NEW pc \in {"issue", "insertAccount"}, NEW u,
               call' = [call EXCEPT ![h] = [call[h] EXCEPT !.pc = pc, !.user = u]]
        PROVE  call'[h].pc = pc /\ \A f \in Handler \ {h} : call'[f] = call[f]
    BY <1>0, <1>4 DEF Call
  <1>5. \/ \E r \in Replies : call' = [call EXCEPT ![h] = Idle(r)]
        \/ \E pc \in {"exchange", "email", "insertUser", "commit", "issue"} : Goto(h, pc)
        \/ \E i \in Identity, raw \in Raw : Exchange(h, i, raw)
        \/ \E pc \in {"issue", "insertAccount"} : \E u :
              call' = [call EXCEPT ![h] = [call[h] EXCEPT !.pc = pc, !.user = u]]
    BY Zenon DEF CallStep, Create, InsertUser, ConsumeState, EmailUnavailable, FindAccount,
       FindEmail, InsertAccount, Commit, Issue, Fail, Respond, Replies
  <1> QED BY <1>1, <1>2, <1>3, <1>4, <1>5

LEMMA NextStateInv == TableInv /\ StateInv /\ [Next]_vars => StateInv'
  <1> SUFFICES ASSUME TableInv, StateInv, [Next]_vars PROVE StateInv'
    OBVIOUS
  <1>0. TypeOK /\ call \in [Handler -> Call]
    BY DEF TableInv, TypeOK
  <1>1. ASSUME NEW h \in Handler, CallStep(h) PROVE StateInv'
    <2>1. /\ UNCHANGED began /\ states' \subseteq states
          /\ redeemed' \subseteq redeemed \cup (states \ states')
      BY <1>1 DEF CallStep, Create, InsertUser, ConsumeState, Exchange, EmailUnavailable,
         FindAccount, FindEmail, InsertAccount, Commit, Issue, Fail
    <2>2. UNCHANGED jar \/ \E r \in Replies : Respond(h, r)
      BY <1>1, Zenon DEF CallStep, Create, InsertUser, ConsumeState, Exchange, EmailUnavailable,
         FindAccount, FindEmail, InsertAccount, Commit, Issue, Fail, Replies
    <2>3. \A b \in Browser : jar'[b] = jar[b] \/ jar'[b] = None
      BY <1>0, <2>2, RespondEffect
    <2>4. \A g \in Handler : call'[g].pc = "consume" => call'[g] = call[g]
      BY <1>1, ConsumeEntry
    <2> QED BY <1>0, <2>1, <2>3, <2>4, StateQuiet
  <1>2. ASSUME NEW h \in Handler, NEW b \in Browser, NEW s \in State, Callback(h, b, s)
        PROVE  StateInv'
    <2>1. call' = [call EXCEPT ![h] = [Idle("none") EXCEPT !.pc = "consume",
                                           !.browser = b, !.state = s]]
          /\ UNCHANGED <<states, jar, began, redeemed>> /\ jar[b] = s /\ s # None
      BY <1>2, AccountsConstants DEF Callback
    <2>2. call'[h].state = s /\ call'[h].browser = b /\ \A g \in Handler \ {h} : call'[g] = call[g]
      BY <1>0, <2>1 DEF Idle
    <2>3. began[s] = b
      BY <2>1 DEF StateInv
    <2> QED BY <1>0, <2>1, <2>2, <2>3, StateQuiet
  <1>3. ASSUME NEW h \in Handler, NEW raw, NEW pw, Signup(h, raw, pw) PROVE StateInv'
    <2>1. call'[h].pc = "create" /\ (\A g \in Handler \ {h} : call'[g] = call[g])
          /\ UNCHANGED <<states, jar, began, redeemed>>
      BY <1>0, <1>3 DEF Signup, Idle
    <2> QED BY <1>0, <2>1, StateQuiet
  <1>4. ASSUME NEW b \in Browser, NEW s \in State, BeginAuth(b, s) PROVE StateInv'
    <2>1. /\ began[s] = None /\ states' = states \cup {s} /\ b # None
          /\ began'[s] = b /\ \A r \in State \ {s} : began'[r] = began[r]
          /\ UNCHANGED <<call, redeemed>>
      BY <1>0, <1>4, AccountsConstants DEF BeginAuth, TypeOK
    <2>2. /\ states \subseteq State \ {s} /\ redeemed \subseteq State \ {s}
          /\ \A a \in Browser : jar[a] # s
      BY <1>0, <2>1, AccountsConstants DEF StateInv, TypeOK
    <2>3. \A a \in Browser : jar'[a] = jar[a] \/ (a = b /\ jar'[a] = s)
      BY <1>0, <1>4 DEF BeginAuth, TypeOK
    <2>4. \A r \in states' \cup redeemed' : began'[r] # None
      BY <2>1, <2>2 DEF StateInv
    <2>5. states' \cap redeemed' = {}
      BY <2>1, <2>2 DEF StateInv
    <2>6. \A a \in Browser : jar'[a] # None => began'[jar'[a]] = a
      BY <1>0, <2>1, <2>2, <2>3 DEF StateInv, TypeOK
    <2>7. \A h \in Handler : call'[h].pc = "consume" =>
              /\ call'[h].state \in State /\ call'[h].browser \in Browser
              /\ began'[call'[h].state] = call'[h].browser
      BY <2>1, AccountsConstants DEF StateInv
    <2> QED BY <2>4, <2>5, <2>6, <2>7 DEF StateInv
  <1>5. ASSUME UNCHANGED <<began, call, redeemed>>, states' \subseteq states,
               \A b \in Browser : jar'[b] = jar[b] \/ jar'[b] = None
        PROVE  StateInv'
    BY <1>0, <1>5, StateQuiet
  <1>6. ASSUME NEW b \in Browser, NEW s, CallbackRefused(b, s) \/ ExpireCookie(b)
        PROVE  StateInv'
    BY <1>0, <1>5, <1>6 DEF CallbackRefused, ExpireCookie, TypeOK
  <1>7. ASSUME NEW s \in State, ExpireState(s) PROVE StateInv'
    BY <1>5, <1>7 DEF ExpireState
  <1>8. CASE UNCHANGED vars \/ \E raw \in Raw, pw \in Password \cup {Dummy} : Login(raw, pw)
    BY <1>5, <1>8 DEF vars, Login
  <1> QED BY <1>1, <1>2, <1>3, <1>4, <1>6, <1>7, <1>8 DEF Next

\* States are single-use and bound to the browser that holds their cookie
\* (ConsumeState, Callback).
THEOREM StateInvariance == Spec => []StateInv
  BY InitStateInv, NextStateInv, TableInvariance, PTL DEF Spec

\* However the callbacks of a flow are repeated and interleaved, a state lets
\* one request through, and only from the browser that began the flow: GETDEL
\* hands it out once, and the cookie was set in that browser alone.
THEOREM SingleUseState == Spec => StateIsSingleUse
  <1>1. ASSUME TableInv, StateInv, [Next]_vars, NEW h \in Handler,
               call[h].pc = "consume", call'[h].pc = "exchange"
        PROVE  call[h].state \notin redeemed /\ call[h].browser = began[call[h].state]
    <2>0. TypeOK /\ call \in [Handler -> Call]
      BY <1>1 DEF TableInv, TypeOK
    <2>1. call[h].state \in states
      <3>1. CASE ConsumeState(h)
        <4>1. CASE Respond(h, "failed")
          BY <1>1, <2>0, <4>1, RespondEffect DEF Replies
        <4> QED BY <3>1, <4>1 DEF ConsumeState
      <3>2. ASSUME NEW g \in Handler, NEW c, call' = [call EXCEPT ![g] = c], g # h
            PROVE  FALSE
        BY <1>1, <2>0, <3>2
      <3>3. ASSUME NEW g \in Handler, CallStep(g) PROVE \E c : call' = [call EXCEPT ![g] = c]
        BY <3>3, Zenon DEF CallStep, Create, InsertUser, ConsumeState, Exchange,
           EmailUnavailable, FindAccount, FindEmail, InsertAccount, Commit, Issue, Fail,
           Respond, Goto
      <3>4. ASSUME CallStep(h), ~ConsumeState(h) PROVE FALSE
        <4>1. CASE \E r \in Replies : call' = [call EXCEPT ![h] = Idle(r)]
          BY <1>1, <2>0, <4>1, EndEffect
        <4>2. ~Fail(h)
          BY <4>1 DEF Fail, Respond, Replies
        <4> QED BY <1>1, <3>4, <4>2 DEF CallStep, Create, InsertUser, Exchange,
               EmailUnavailable, FindAccount, FindEmail, InsertAccount, Commit, Issue
      <3>5. ASSUME NEW g \in Handler, NEW c, call[g].pc = "idle", call' = [call EXCEPT ![g] = c]
            PROVE  FALSE
        BY <1>1, <2>0, <3>5
      <3>6. ASSUME NEW g \in Handler, NEW raw, NEW pw, Signup(g, raw, pw) PROVE FALSE
        BY <3>5, <3>6 DEF Signup
      <3>7. ASSUME NEW g \in Handler, NEW b, NEW s, Callback(g, b, s) PROVE FALSE
        BY <3>5, <3>7 DEF Callback
      <3>8. ASSUME UNCHANGED call PROVE FALSE
        BY <1>1, <3>8
      <3>9. ASSUME \/ UNCHANGED vars
                   \/ \E raw \in Raw, pw \in Password \cup {Dummy} : Login(raw, pw)
                   \/ \E b \in Browser, s \in State : BeginAuth(b, s)
                   \/ \E b \in Browser, s \in State \cup {None} : CallbackRefused(b, s)
                   \/ \E s \in State : ExpireState(s)
                   \/ \E b \in Browser : ExpireCookie(b)
            PROVE  FALSE
        BY <3>8, <3>9 DEF vars, Login, BeginAuth, CallbackRefused, ExpireState, ExpireCookie
      <3> QED BY <1>1, <3>1, <3>2, <3>3, <3>4, <3>6, <3>7, <3>9 DEF Next
    <2> QED BY <1>1, <2>1 DEF StateInv
  <1>2. TableInv /\ StateInv /\ [Next]_vars =>
            [\A h \in Handler : call[h].pc = "consume" /\ call'[h].pc = "exchange" =>
                /\ call[h].state \notin redeemed
                /\ call[h].browser = began[call[h].state]]_vars
    BY <1>1
  <1> QED BY <1>2, TableInvariance, StateInvariance, PTL DEF Spec, StateIsSingleUse
=============================================================================
