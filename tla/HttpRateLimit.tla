---------------------------- MODULE HttpRateLimit ---------------------------
(***************************************************************************)
(* The Redis sliding-window limiter of the HTTP API (httpratelimit): its    *)
(* sorted sets, one per key, and the calls of Allow by requests of several  *)
(* server processes.  A call reads the clock, then the Lua script runs in   *)
(* Redis as one step, up to MaxDelay later and in any order; Redis may fail *)
(* before the script or after it, and the client sends the script of a lost *)
(* answer again.  RequestPipeline makes the calls.                          *)
(***************************************************************************)
EXTENDS Integers, FiniteSets

CONSTANTS
    Request,    \* requests
    Key,        \* keys: <<prefix, identifier>>
    NoKey,
    Limit,      \* cfg.Limit
    Window,     \* cfg.Window
    MaxDelay,   \* bound on the time between time.Now and the script
    MaxClock    \* bound on the clock

ASSUME LimiterConstants ==
    /\ Limit \in Nat \ {0} /\ Window \in Nat \ {0} /\ MaxClock \in Nat
    /\ MaxDelay \in 0..(Window - 1)
    /\ NoKey \notin Key

VARIABLES
    clock,
    call,      \* [Request -> the key its running Allow asks about, its now]
    zset,      \* [Key -> sorted set: entries [req, now] scored by now]
    expireAt,  \* [Key -> when Redis drops the whole key]
    decided,   \* history: what Allow returned, and when
    lost       \* history: attempts that were counted, and whose answer was lost

limiterVars == <<clock, call, zset, expireAt, decided, lost>>

NoCall == [key |-> NoKey, now |-> 0]

LimiterInit ==
    /\ clock = 0
    /\ call = [r \in Request |-> NoCall]
    /\ zset = [k \in Key |-> {}]
    /\ expireAt = [k \in Key |-> 0]
    /\ decided = {} /\ lost = {}

\* Time does not pass a call by more than MaxDelay.
Tick ==
    /\ clock < MaxClock
    /\ \A r \in Request : call[r] # NoCall => clock - call[r].now < MaxDelay
    /\ clock' = clock + 1
    /\ zset' = [k \in Key |-> IF clock' >= expireAt[k] THEN {} ELSE zset[k]]
    /\ UNCHANGED <<call, expireAt, decided, lost>>

\* Allow reads the clock.
Ask(r, k) ==
    /\ call[r] = NoCall
    /\ call' = [call EXCEPT ![r] = [key |-> k, now |-> clock]]
    /\ UNCHANGED <<clock, zset, expireAt, decided, lost>>

\* Allow returns.
Decide(r, verdict) ==
    /\ call' = [call EXCEPT ![r] = NoCall]
    /\ decided' = decided \cup {[req |-> r, key |-> call[r].key, now |-> call[r].now,
                                 at |-> clock, verdict |-> verdict]}

\* Faulty variant: entries are trimmed a tick too early.
TrimmedEarly(r) == {e \in zset[call[r].key] : e.now > call[r].now - Window + 1}

\* ZREMRANGEBYSCORE -inf windowStart: windowStart itself is removed.
Trimmed(r) == {e \in zset[call[r].key] : e.now > call[r].now - Window}

\* count < limit
Room(r) == Cardinality(Trimmed(r)) < Limit

\* ZADD of a member that is unique to the call, and the same in all its attempts.
Added(r) == Trimmed(r) \cup {[req |-> r, now |-> call[r].now]}

\* EXPIRE with the window's length in seconds.
Expire == clock + Window

\* Faulty variant: every request is added before the count is compared.
AddThenCount(r) ==
    /\ zset' = [zset EXCEPT ![call[r].key] = Added(r)]
    /\ expireAt' = [expireAt EXCEPT ![call[r].key] = Expire]

\* The script: trim, and add the request if there is room.
Script(r) ==
    LET k == call[r].key IN
    /\ zset' = [zset EXCEPT ![k] = IF Room(r) THEN Added(r) ELSE Trimmed(r)]
    /\ expireAt' = [expireAt EXCEPT ![k] = IF Room(r) THEN Expire ELSE expireAt[k]]

\* The script runs and its answer arrives.
Check(r, verdict) ==
    /\ call[r] # NoCall
    /\ verdict = (IF Room(r) THEN "allowed" ELSE "limited")
    /\ Script(r)
    /\ Decide(r, verdict)
    /\ UNCHANGED <<clock, lost>>

\* The script ran and its answer was lost: the client, which keeps go-redis's
\* retries, sends it again with the same arguments.  (A request lost on its way
\* to Redis changes nothing.)
Resend(r) ==
    /\ call[r] # NoCall
    /\ Script(r)
    /\ lost' = IF Room(r)
               THEN lost \cup {[req |-> r, key |-> call[r].key, now |-> call[r].now, at |-> clock]}
               ELSE lost
    /\ UNCHANGED <<clock, call, decided>>

\* The retries are used up, and the last attempt never ran or its answer was lost
\* too: the policy decides.
CheckFails(r, policy, verdict) ==
    /\ call[r] # NoCall
    /\ verdict = (IF policy = "FailClosed" THEN "unavailable" ELSE "uncounted")
    /\ UNCHANGED <<zset, expireAt>> \/ Script(r)
    /\ Decide(r, verdict)
    /\ UNCHANGED <<clock, lost>>
=============================================================================
