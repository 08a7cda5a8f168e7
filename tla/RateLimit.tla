----------------------------- MODULE RateLimit -----------------------------
(***************************************************************************)
(* The fixed-window rate limiter (internal/ratelimit, as called by the     *)
(* middleware) over the pooled Redis client (internal/cache/redis_client). *)
(* One identifier; a counter key per window.  A command that times out may *)
(* still be executed: Redis finds it in the socket of a closed connection. *)
(***************************************************************************)
EXTENDS Naturals, Sequences, FiniteSets

CONSTANTS
  Callers,      \* the calls of Limiter.Allow
  Conns,        \* connection identities; an unused one is free to be dialled
  PoolSize,     \* REDIS_POOL_SIZE, the idle connections kept
  Limit,        \* RATE_LIMIT_PER_MINUTE
  MaxWindow,    \* bound on time, in windows
  NoConn

ASSUME RateLimitAssumption ==
  /\ IsFiniteSet(Callers) /\ IsFiniteSet(Conns)
  /\ PoolSize \in Nat /\ Limit \in Nat /\ MaxWindow \in Nat
  /\ NoConn \notin Conns

Windows == 0..MaxWindow

\* The error reply, which is none of the replies of INCR.
Refused == 0

VARIABLES
  now,          \* time.Now() / windowSeconds
  count,        \* Redis: the counter of each window, 0 when the key is absent
  ttl,          \* Redis: the key has an expiry
  expired,      \* Redis: the key of the window has expired once
  state,        \* "unused", "idle" (in the pool), "held" or "closed"
  pipe,         \* commands written on a connection and not yet executed
  replies,      \* replies on their way back
  pc, win, conn, got, verdict   \* the callers

timeVars == <<now>>
redisVars == <<count, ttl, expired>>
netVars == <<state, pipe, replies>>
callerVars == <<pc, win, conn, got, verdict>>
vars == <<timeVars, redisVars, netVars, callerVars>>

Init ==
  /\ now = 0
  /\ count = [w \in Windows |-> 0]
  /\ ttl = [w \in Windows |-> FALSE]
  /\ expired = [w \in Windows |-> FALSE]
  /\ state = [k \in Conns |-> "unused"]
  /\ pipe = [k \in Conns |-> <<>>]
  /\ replies = [k \in Conns |-> <<>>]
  /\ pc = [c \in Callers |-> "new"]
  /\ win = [c \in Callers |-> 0]
  /\ conn = [c \in Callers |-> NoConn]
  /\ got = [c \in Callers |-> 0]
  /\ verdict = [c \in Callers |-> "none"]

Idle == {k \in Conns : state[k] = "idle"}

-----------------------------------------------------------------------------
\* Client.do: get a connection, write the command, read one reply

Goto(c, label) == pc' = [pc EXCEPT ![c] = label]

\* getConn prefers a pooled connection and dials when there is none.
Send(c, command, label) ==
  /\ \E k \in IF Idle # {} THEN Idle ELSE {x \in Conns : state[x] = "unused"} :
       /\ state' = [state EXCEPT ![k] = "held"]
       /\ pipe' = [pipe EXCEPT ![k] = Append(@, <<command, c>>)]
       /\ conn' = [conn EXCEPT ![c] = k]
  /\ Goto(c, label)

\* Mutation: the pool keeps every connection.
PutBackAlways(c) ==
  /\ state' = [state EXCEPT ![conn[c]] = "idle"]
  /\ replies' = [replies EXCEPT ![conn[c]] = Tail(@)]
  /\ conn' = [conn EXCEPT ![c] = NoConn]

\* putConn of a healthy connection: pooled, or closed when the pool is full.
PutBack(c) ==
  /\ state' = [state EXCEPT ![conn[c]] = IF Cardinality(Idle) < PoolSize THEN "idle" ELSE "unused"]
  /\ replies' = [replies EXCEPT ![conn[c]] = Tail(@)]
  /\ conn' = [conn EXCEPT ![c] = NoConn]

\* Mutation: a connection whose reply timed out is pooled again.
PoolAfterTimeout(c) ==
  /\ state' = [state EXCEPT ![conn[c]] = "idle"]
  /\ conn' = [conn EXCEPT ![c] = NoConn]
  /\ UNCHANGED replies

\* putConn of an unhealthy one: replies are lost, commands may still arrive.
Drop(c) ==
  /\ state' = [state EXCEPT ![conn[c]] = "closed"]
  /\ replies' = [replies EXCEPT ![conn[c]] = <<>>]
  /\ conn' = [conn EXCEPT ![c] = NoConn]

-----------------------------------------------------------------------------
\* Limiter.Allow

\* Mutation: the request that reaches the limit is counted from zero.
DecideFromZero(c, n) ==
  /\ verdict' = [verdict EXCEPT ![c] = IF n - 1 <= Limit THEN "allowed" ELSE "denied"]
  /\ Goto(c, "done")

\* Mutation: < instead of <=.
DecideStrictly(c, n) ==
  /\ verdict' = [verdict EXCEPT ![c] = IF n < Limit THEN "allowed" ELSE "denied"]
  /\ Goto(c, "done")

Decide(c, n) ==
  /\ verdict' = [verdict EXCEPT ![c] = IF n <= Limit THEN "allowed" ELSE "denied"]
  /\ Goto(c, "done")

FailOpen(c) ==
  /\ verdict' = [verdict EXCEPT ![c] = "open"]
  /\ Goto(c, "done")

Enter(c) ==
  /\ pc[c] = "new"
  /\ win' = [win EXCEPT ![c] = now]
  /\ Goto(c, "incr")
  /\ UNCHANGED <<timeVars, redisVars, netVars, conn, got, verdict>>

SendIncr(c) ==
  /\ pc[c] = "incr"
  /\ Send(c, "INCR", "incr_reply")
  /\ UNCHANGED <<timeVars, redisVars, replies, win, got, verdict>>

\* count == 1: the first request of the window sets the expiry.  An error reply
\* fails open, on a connection that stays healthy.
ReadCount(c) ==
  /\ pc[c] = "incr_reply"
  /\ replies[conn[c]] # <<>>
  /\ LET n == Head(replies[conn[c]])[2] IN
       /\ got' = [got EXCEPT ![c] = n]
       /\ \/ n = Refused /\ FailOpen(c)
          \/ n = 1 /\ Goto(c, "expire") /\ UNCHANGED verdict
          \/ n > 1 /\ Decide(c, n)
  /\ PutBack(c)
  /\ UNCHANGED <<timeVars, redisVars, pipe, win>>

SendExpire(c) ==
  /\ pc[c] = "expire"
  /\ Send(c, "EXPIRE", "expire_reply")
  /\ UNCHANGED <<timeVars, redisVars, replies, win, got, verdict>>

ReadExpire(c) ==
  /\ pc[c] = "expire_reply"
  /\ replies[conn[c]] # <<>>
  /\ PutBack(c)
  /\ Decide(c, got[c])
  /\ UNCHANGED <<timeVars, redisVars, pipe, win, got>>

\* No connection: INCR fails open, the error of EXPIRE is ignored.
DialFails(c) ==
  /\ Idle = {}
  /\ \/ pc[c] = "incr" /\ FailOpen(c)
     \/ pc[c] = "expire" /\ Decide(c, got[c])
  /\ UNCHANGED <<timeVars, redisVars, netVars, win, conn, got>>

\* Mutation: no deadline on EXPIRE.
IncrReplyFails(c) ==
  /\ pc[c] = "incr_reply"
  /\ FailOpen(c)
  /\ Drop(c)
  /\ UNCHANGED <<timeVars, redisVars, pipe, win, got>>

\* Deadline or broken connection while waiting for the reply.
ReplyFails(c) ==
  /\ \/ pc[c] = "incr_reply" /\ FailOpen(c)
     \/ pc[c] = "expire_reply" /\ Decide(c, got[c])
  /\ Drop(c)
  /\ UNCHANGED <<timeVars, redisVars, pipe, win, got>>

Caller(c) ==
  \/ SendIncr(c) \/ ReadCount(c) \/ SendExpire(c) \/ ReadExpire(c)
  \/ DialFails(c) \/ ReplyFails(c)

-----------------------------------------------------------------------------
\* Redis, the network and time

Answer(k, x) ==
  replies' = IF state[k] = "closed" THEN replies ELSE [replies EXCEPT ![k] = Append(@, x)]

ExecuteIncr(k) ==
  /\ pipe[k] # <<>> /\ Head(pipe[k])[1] = "INCR"
  /\ LET c == Head(pipe[k])[2] IN
       /\ count' = [count EXCEPT ![win[c]] = @ + 1]
       /\ Answer(k, <<c, count[win[c]] + 1>>)
  /\ pipe' = [pipe EXCEPT ![k] = Tail(@)]
  /\ UNCHANGED <<timeVars, ttl, expired, state, callerVars>>

ExecuteExpire(k) ==
  /\ pipe[k] # <<>> /\ Head(pipe[k])[1] = "EXPIRE"
  /\ LET c == Head(pipe[k])[2] IN
       /\ ttl' = [ttl EXCEPT ![win[c]] = count[win[c]] > 0]
       /\ Answer(k, <<c, 0>>)
  /\ pipe' = [pipe EXCEPT ![k] = Tail(@)]
  /\ UNCHANGED <<timeVars, count, expired, state, callerVars>>

\* Redis answers a command with an error (out of memory, still loading).
Refuse(k) ==
  /\ pipe[k] # <<>>
  /\ Answer(k, <<Head(pipe[k])[2], Refused>>)
  /\ pipe' = [pipe EXCEPT ![k] = Tail(@)]
  /\ UNCHANGED <<timeVars, redisVars, state, callerVars>>

\* A command on a connection that is gone need not be executed.
Discard(k) ==
  /\ state[k] = "closed" /\ pipe[k] # <<>>
  /\ pipe' = [pipe EXCEPT ![k] = <<>>]
  /\ UNCHANGED <<timeVars, redisVars, state, replies, callerVars>>

\* A closed connection with nothing under way leaves its identity free.
Forget(k) ==
  /\ state[k] = "closed" /\ pipe[k] = <<>>
  /\ state' = [state EXCEPT ![k] = "unused"]
  /\ UNCHANGED <<timeVars, redisVars, pipe, replies, callerVars>>

\* EXPIRE was given a full window's length, so the key outlives its window.
KeyExpires(w) ==
  /\ ttl[w] /\ now > w
  /\ count' = [count EXCEPT ![w] = 0]
  /\ ttl' = [ttl EXCEPT ![w] = FALSE]
  /\ expired' = [expired EXCEPT ![w] = TRUE]
  /\ UNCHANGED <<timeVars, netVars, callerVars>>

NextWindow ==
  /\ now < MaxWindow
  /\ now' = now + 1
  /\ UNCHANGED <<redisVars, netVars, callerVars>>

Redis ==
  \E k \in Conns :
    ExecuteIncr(k) \/ ExecuteExpire(k) \/ Refuse(k) \/ Discard(k) \/ Forget(k)

Next ==
  \/ \E c \in Callers : Enter(c) \/ Caller(c)
  \/ Redis
  \/ \E w \in Windows : KeyExpires(w)
  \/ NextWindow

Spec == Init /\ [][Next]_vars

\* Every call has a deadline, so it goes on with or without Redis.
FairSpec == Spec /\ \A c \in Callers : WF_vars(Caller(c))

-----------------------------------------------------------------------------
\* Properties

\* Every variable keeps its type; the pool keeps no more than PoolSize idle
\* connections, and a caller has one exactly while it waits for a reply.
TypeOK ==
  /\ now \in Windows
  /\ count \in [Windows -> 0..Cardinality(Callers)]
  /\ ttl \in [Windows -> BOOLEAN] /\ expired \in [Windows -> BOOLEAN]
  /\ state \in [Conns -> {"unused", "idle", "held", "closed"}]
  /\ Cardinality(Idle) <= PoolSize
  /\ pc \in [Callers -> {"new", "incr", "incr_reply", "expire", "expire_reply", "done"}]
  /\ win \in [Callers -> Windows]
  /\ conn \in [Callers -> Conns \cup {NoConn}]
  /\ \A c \in Callers :
       conn[c] # NoConn <=> pc[c] \in {"incr_reply", "expire_reply"}
  /\ got \in [Callers -> 0..Cardinality(Callers)]
  /\ verdict \in [Callers -> {"none", "allowed", "denied", "open"}]

\* A pooled connection carries nothing: no late reply to a command that timed
\* out can be taken for the reply to the next command.
RepliesAreOwn ==
  /\ \A k \in Conns : state[k] = "idle" => pipe[k] = <<>> /\ replies[k] = <<>>
  /\ \A c \in Callers : conn[c] # NoConn =>
       \A i \in 1..Len(replies[conn[c]]) : replies[conn[c]][i][1] = c

\* At most Limit calls of a window are let through by their count, as long as
\* the key lives; calls let through because Redis failed are not counted.
LimitRespected ==
  \A w \in Windows : ~expired[w] =>
    Cardinality({c \in Callers : win[c] = w /\ verdict[c] = "allowed"}) <= Limit

\* Nobody is rejected in a window that has not seen more than Limit calls.
DenialJustified ==
  \A c \in Callers : verdict[c] = "denied" =>
    Cardinality({d \in Callers : win[d] = win[c] /\ pc[d] # "new"}) > Limit

\* The number Redis has given to a call, also before the call has read it.
Number(c) ==
  IF pc[c] = "incr_reply" /\ replies[conn[c]] # <<>> THEN replies[conn[c]][1][2] ELSE got[c]

numbers == [c \in Callers |-> Number(c)]

Limiter == INSTANCE LimiterAbstract WITH
  counter <- count,
  entered <- {c \in Callers : pc[c] # "new"},
  number <- numbers

\* With pooled connections, commands that time out and replies that are lost,
\* the limiter is a counter that numbers the calls of a window in one step:
\* a call is denied only by a number above the limit, let through once by one
\* within it, and "on Redis error, it fails OPEN" (limiter.go:38-40).
Implements == Limiter!Spec

\* Every call of Allow returns, Redis dead or alive.
AllowReturns == \A c \in Callers : pc[c] = "incr" ~> pc[c] = "done"
=============================================================================
