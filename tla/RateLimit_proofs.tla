-------------------------- MODULE RateLimit_proofs --------------------------
(***************************************************************************)
(* Proofs about RateLimit, for any calls, connections, pool size, limit    *)
(* and number of windows.                                                  *)
(***************************************************************************)
EXTENDS RateLimit, FiniteSetTheorems, TLAPS

Places == {"new", "incr", "incr_reply", "expire", "expire_reply", "done"}
Waiting == {"incr_reply", "expire_reply"}

Types ==
  /\ now \in Windows
  /\ count \in [Windows -> Nat]
  /\ ttl \in [Windows -> BOOLEAN] /\ expired \in [Windows -> BOOLEAN]
  /\ state \in [Conns -> {"unused", "idle", "held", "closed"}]
  /\ pipe \in [Conns -> Seq({"INCR", "EXPIRE"} \X Callers)]
  /\ replies \in [Conns -> Seq(Callers \X Nat)]
  /\ pc \in [Callers -> Places]
  /\ win \in [Callers -> Windows]
  /\ conn \in [Callers -> Conns \cup {NoConn}]
  /\ got \in [Callers -> Nat]
  /\ verdict \in [Callers -> {"none", "allowed", "denied", "open"}]

PoolBounded == Cardinality(Idle) <= PoolSize

\* A caller that waits for a reply has a connection, which nobody else has.
Holding ==
  /\ \A c \in Callers : conn[c] # NoConn <=> pc[c] \in Waiting
  /\ \A c \in Callers : conn[c] # NoConn => state[conn[c]] = "held"
  /\ \A c, d \in Callers : conn[c] # NoConn /\ conn[c] = conn[d] => c = d

\* On a connection there is one command or its reply, that of the caller who
\* holds it; a closed one may still deliver the command, and no reply.
Traffic == \A k \in Conns :
  /\ pipe[k] = <<>> \/ \E m \in {"INCR", "EXPIRE"}, c \in Callers :
       /\ pipe[k] = << <<m, c>> >>
       /\ replies[k] = <<>>
       /\ \/ conn[c] = k /\ pc[c] = IF m = "INCR" THEN "incr_reply" ELSE "expire_reply"
          \/ state[k] = "closed" /\ (m = "INCR" => pc[c] = "done" /\ got[c] = 0)
  /\ replies[k] = <<>> \/ \E c \in Callers, n \in Nat :
       replies[k] = << <<c, n>> >> /\ conn[c] = k

Pending(c, k) == pipe[k] = << <<"INCR", c>> >>

\* INCR is sent once by every call.
SentOnce == \A c \in Callers, k, l \in Conns : Pending(c, k) /\ Pending(c, l) => k = l

\* What the place of a call says of the number it got and of its verdict.
Verdicts == \A c \in Callers :
  /\ pc[c] \in {"new", "incr", "incr_reply"} => got[c] = 0
  /\ pc[c] \in {"expire", "expire_reply"} => got[c] = 1
  /\ pc[c] # "done" => verdict[c] = "none"
  /\ verdict[c] = "allowed" => got[c] \in 1..Limit
  /\ verdict[c] = "denied" => got[c] > Limit

\* The calls of a window whose INCR has been executed, or never will be.
Executed(w) ==
  {c \in Callers : win[c] = w /\ pc[c] \notin {"new", "incr"} /\ \A k \in Conns : ~Pending(c, k)}

\* Redis counts executed commands; while the key lives it gives no number twice.
Counting ==
  /\ \A w \in Windows : count[w] <= Cardinality(Executed(w))
  /\ \A c \in Callers : Number(c) \in Nat /\ Number(c) <= Cardinality(Executed(win[c]))
  /\ \A c \in Callers : ~expired[win[c]] => Number(c) <= count[win[c]]
  /\ \A c, d \in Callers :
       c # d /\ Number(c) # 0 /\ Number(c) = Number(d) /\ win[c] = win[d] => expired[win[c]]

IInv ==
  /\ Types /\ PoolBounded
  /\ Holding /\ Traffic /\ SentOnce /\ Verdicts
  /\ Counting

-----------------------------------------------------------------------------
\* The initial state

\* Nothing has been sent or counted.
LEMMA InitInv == Init => IInv
<1> SUFFICES ASSUME Init PROVE IInv
  OBVIOUS
<1>1. Types
  <2>1. now \in Windows
    BY RateLimitAssumption DEF Init, Windows
  <2>2. ttl \in [Windows -> BOOLEAN] /\ expired \in [Windows -> BOOLEAN]
    BY DEF Init
  <2>3. win \in [Callers -> Windows] /\ got \in [Callers -> Nat] /\ count \in [Windows -> Nat]
    BY <2>1 DEF Init
  <2>4. pipe \in [Conns -> Seq({"INCR", "EXPIRE"} \X Callers)] /\ replies \in [Conns -> Seq(Callers \X Nat)]
    BY DEF Init
  <2>5. /\ state \in [Conns -> {"unused", "idle", "held", "closed"}] /\ pc \in [Callers -> Places]
        /\ conn \in [Callers -> Conns \cup {NoConn}]
        /\ verdict \in [Callers -> {"none", "allowed", "denied", "open"}]
    BY DEF Init, Places
  <2> QED
    BY <2>1, <2>2, <2>3, <2>4, <2>5 DEF Types
<1>2. PoolBounded
  <2>1. Idle = {}
    BY DEF Init, Idle
  <2> QED
    BY <2>1, FS_EmptySet, RateLimitAssumption DEF PoolBounded
<1>3. Holding /\ Traffic /\ Verdicts
  BY DEF Init, Holding, Waiting, Traffic, Verdicts
<1>4. SentOnce
  BY DEF Init, SentOnce, Pending
<1>5. Counting
  <2>1. \A w \in Windows : Executed(w) = {}
    BY DEF Init, Executed
  <2>2. \A c \in Callers : Number(c) = 0
    BY DEF Init, Number
  <2> QED
    <3>1. \A w \in Windows : Cardinality(Executed(w)) = 0 /\ count[w] = 0
      BY <2>1, FS_EmptySet DEF Init
    <3>2. \A c \in Callers : win[c] \in Windows
      BY <1>1 DEF Types
    <3> QED
      BY <2>2, <3>1, <3>2 DEF Counting
<1> QED
  BY <1>1, <1>2, <1>3, <1>4, <1>5 DEF IInv

-----------------------------------------------------------------------------
\* Lemmas for the steps

\* Sets of calls and of connections have sizes that can be compared.
LEMMA ExecutedSize ==
  ASSUME NEW S \in SUBSET Callers, NEW T \in SUBSET S
  PROVE  /\ IsFiniteSet(S) /\ IsFiniteSet(T)
         /\ Cardinality(S) \in Nat /\ Cardinality(T) \in Nat
         /\ Cardinality(T) <= Cardinality(S)
<1>1. IsFiniteSet(S)
  BY FS_Subset, RateLimitAssumption
<1>2. IsFiniteSet(T) /\ Cardinality(T) <= Cardinality(S)
  BY <1>1, FS_Subset
<1> QED
  BY <1>1, <1>2, FS_CardinalityType

\* A connection becomes idle only when there is room in the pool.
LEMMA PoolKept ==
  ASSUME IInv, NEW k \in Conns, NEW s \in {"unused", "idle", "held", "closed"},
         state' = [state EXCEPT ![k] = s],
         s = "idle" => Cardinality(Idle) < PoolSize
  PROVE  PoolBounded' /\ state' \in [Conns -> {"unused", "idle", "held", "closed"}]
<1>1. IsFiniteSet(Idle) /\ Idle \subseteq Conns
  BY FS_Subset, RateLimitAssumption DEF Idle
<1>2. state' \in [Conns -> {"unused", "idle", "held", "closed"}]
  BY DEF IInv, Types
<1>3. Cardinality(Idle) \in Nat /\ Cardinality(Idle) <= PoolSize /\ PoolSize \in Nat
  BY <1>1, FS_CardinalityType, RateLimitAssumption DEF IInv, PoolBounded
<1>4. CASE s = "idle"
  <2>1. Idle' = Idle \cup {k}
    <3>1. \A l \in Conns : state'[l] = IF l = k THEN "idle" ELSE state[l]
      BY <1>4 DEF IInv, Types
    <3> QED
      BY <3>1 DEF Idle
  <2>2. Cardinality(Idle \cup {k}) <= Cardinality(Idle) + 1
    <3>1. Cardinality(Idle \cup {k}) = IF k \in Idle THEN Cardinality(Idle) ELSE Cardinality(Idle) + 1
      BY <1>1, FS_AddElement
    <3> QED
      BY <1>3, <3>1
  <2>3. IsFiniteSet(Idle \cup {k}) /\ Cardinality(Idle \cup {k}) \in Nat
    BY <1>1, FS_AddElement, FS_CardinalityType
  <2> QED
    BY <1>2, <1>3, <1>4, <2>1, <2>2, <2>3 DEF PoolBounded
<1>5. CASE s # "idle"
  <2>1. Idle' \in SUBSET Idle
    BY <1>2, <1>5 DEF Idle, IInv, Types
  <2>2. Cardinality(Idle') <= Cardinality(Idle) /\ Cardinality(Idle') \in Nat
    BY <1>1, <2>1, FS_Subset, FS_CardinalityType
  <2> QED
    BY <1>2, <1>3, <2>2 DEF PoolBounded
<1> QED
  BY <1>4, <1>5

\* Redis counts nothing, and nobody gets another number than before.
LEMMA CountingKept ==
  ASSUME IInv, UNCHANGED <<count, expired>>, win' \in [Callers -> Windows],
         \A w \in Windows : Executed(w) \subseteq Executed(w)',
         \A c \in Callers : Number(c)' = 0 \/ (Number(c)' = Number(c) /\ win'[c] = win[c])
  PROVE  Counting'
<1>1. \A w \in Windows : /\ Cardinality(Executed(w)) \in Nat /\ Cardinality(Executed(w)') \in Nat
                         /\ Cardinality(Executed(w)) <= Cardinality(Executed(w)')
  <2>1. ASSUME NEW w \in Windows
        PROVE  Executed(w)' \in SUBSET Callers /\ Executed(w) \in SUBSET Executed(w)'
    BY DEF Executed
  <2> QED
    BY <2>1, ExecutedSize
<1>2. \A w \in Windows : count[w] \in Nat /\ count'[w] = count[w] /\ expired'[w] = expired[w]
  BY DEF IInv, Types
<1>3. \A c \in Callers : win'[c] \in Windows /\ Number(c)' \in Nat
  BY DEF IInv, Counting
<1>4. \A w \in Windows : count'[w] <= Cardinality(Executed(w)')
  BY <1>1, <1>2 DEF IInv, Counting
<1>5. ASSUME NEW c \in Callers
      PROVE  /\ Number(c)' <= Cardinality(Executed(win[c])')
             /\ ~expired'[win'[c]] => Number(c)' <= count'[win'[c]]
  <2>1. CASE Number(c)' = 0
    BY <1>1, <1>2, <1>3, <2>1
  <2>2. CASE Number(c)' = Number(c) /\ win'[c] = win[c]
    <3> PICK w \in Windows : w = win[c]
      BY DEF IInv, Types
    <3>1. Number(c) <= Cardinality(Executed(w)) /\ (~expired[w] => Number(c) <= count[w])
      BY DEF IInv, Counting
    <3>2. Number(c) \in Nat
      BY DEF IInv, Counting
    <3> QED
      BY <1>1, <1>2, <2>2, <3>1, <3>2
  <2> QED
    BY <2>1, <2>2
<1>6. ASSUME NEW c \in Callers, NEW d \in Callers, c # d, Number(c)' # 0,
             Number(c)' = Number(d)', win'[c] = win'[d]
      PROVE  expired'[win'[c]]
  BY <1>2, <1>6 DEF IInv, Counting
<1> QED
  BY <1>3, <1>4, <1>5, <1>6 DEF Counting

-----------------------------------------------------------------------------
\* Client.do

\* A step of a call that touches no connection.
LEMMA LocalStep ==
  ASSUME IInv, NEW c \in Callers, Enter(c) \/ DialFails(c)
  PROVE  IInv'
<1>1. /\ UNCHANGED <<count, ttl, expired, now, state, pipe, replies, conn, got>>
      /\ pc[c] \in {"new", "incr", "expire"}
  BY DEF Enter, DialFails, timeVars, redisVars, netVars
<1>2. PICK label \in {"incr", "done"} : pc' = [pc EXCEPT ![c] = label]
  BY DEF Enter, DialFails, Goto, FailOpen, Decide
<1>3. /\ win' \in [Callers -> Windows]
      /\ \A d \in Callers : win'[d] = win[d] \/ (d = c /\ pc[c] = "new")
      /\ label = "incr" <=> pc[c] = "new"
  BY <1>2 DEF Enter, DialFails, Goto, FailOpen, Decide, IInv, Types
<1>4. /\ verdict' \in [Callers -> {"none", "allowed", "denied", "open"}]
      /\ \A d \in Callers : d # c => verdict'[d] = verdict[d]
      /\ label = "incr" => verdict'[c] = verdict[c]
      /\ verdict'[c] = "allowed" => verdict[c] = "allowed" \/ (got[c] = 1 /\ got[c] <= Limit)
      /\ verdict'[c] = "denied" => verdict[c] = "denied" \/ ~(got[c] <= Limit)
  BY <1>1, <1>2 DEF Enter, DialFails, Goto, FailOpen, Decide, IInv, Types, Verdicts
<1>5. /\ pc \in [Callers -> Places] /\ got \in [Callers -> Nat] /\ Limit \in Nat
  BY RateLimitAssumption DEF IInv, Types
<1>6. Types'
  BY <1>1, <1>2, <1>3, <1>4, <1>5 DEF IInv, Types, Places
<1>7. PoolBounded' /\ SentOnce'
  BY <1>1 DEF IInv, PoolBounded, Idle, SentOnce, Pending
<1>8. Holding'
  BY <1>1, <1>2, <1>5 DEF IInv, Holding, Waiting
<1>9. Traffic'
  BY <1>1, <1>2, <1>5 DEF IInv, Traffic
<1>10. Verdicts'
  BY <1>1, <1>2, <1>3, <1>4, <1>5 DEF IInv, Verdicts
<1>11. \A w \in Windows : Executed(w) \subseteq Executed(w)'
  BY <1>1, <1>2, <1>3, <1>5 DEF Executed, Pending
<1>12. \A d \in Callers : Number(d)' = 0 \/ (Number(d)' = Number(d) /\ win'[d] = win[d])
  <2>1. pc[c] = "new" => got[c] = 0
    BY DEF IInv, Verdicts
  <2> QED
    BY <1>1, <1>2, <1>3, <1>5, <2>1 DEF Number
<1>13. Counting'
  BY <1>1, <1>3, <1>11, <1>12, CountingKept
<1> QED
  BY <1>6, <1>7, <1>8, <1>9, <1>10, <1>13 DEF IInv

\* A command is written on a connection that carries nothing.
LEMMA SendStep ==
  ASSUME IInv, NEW c \in Callers, SendIncr(c) \/ SendExpire(c)
  PROVE  IInv'
<1>1. UNCHANGED <<count, ttl, expired, now, replies, win, got, verdict>>
  BY DEF SendIncr, SendExpire, timeVars, redisVars
<1>2. PICK m \in {"INCR", "EXPIRE"} :
        /\ pc[c] = IF m = "INCR" THEN "incr" ELSE "expire"
        /\ Send(c, m, IF m = "INCR" THEN "incr_reply" ELSE "expire_reply")
  BY DEF SendIncr, SendExpire
<1> DEFINE label == IF m = "INCR" THEN "incr_reply" ELSE "expire_reply"
<1>3. PICK k \in Conns :
        /\ state[k] \in {"idle", "unused"}
        /\ state' = [state EXCEPT ![k] = "held"]
        /\ pipe' = [pipe EXCEPT ![k] = Append(@, <<m, c>>)]
        /\ conn' = [conn EXCEPT ![c] = k]
        /\ pc' = [pc EXCEPT ![c] = label]
  BY <1>2 DEF Send, Idle, Goto
<1>4. /\ state \in [Conns -> {"unused", "idle", "held", "closed"}]
      /\ pipe \in [Conns -> Seq({"INCR", "EXPIRE"} \X Callers)]
      /\ conn \in [Callers -> Conns \cup {NoConn}] /\ NoConn \notin Conns
      /\ pc \in [Callers -> Places]
  BY RateLimitAssumption DEF IInv, Types
<1>5. \A d \in Callers : conn[d] # k
  BY <1>3, <1>4 DEF IInv, Holding
<1>6. pipe[k] = <<>> /\ replies[k] = <<>>
  BY <1>3, <1>5 DEF IInv, Traffic
<1>7. pipe' = [pipe EXCEPT ![k] = << <<m, c>> >>]
  BY <1>3, <1>6
<1>8. Types' /\ PoolBounded'
  <2>1. << <<m, c>> >> \in Seq({"INCR", "EXPIRE"} \X Callers)
    OBVIOUS
  <2>2. /\ pipe' \in [Conns -> Seq({"INCR", "EXPIRE"} \X Callers)]
        /\ conn' \in [Callers -> Conns \cup {NoConn}] /\ pc' \in [Callers -> Places]
    BY <1>3, <1>4, <1>7, <2>1 DEF Places
  <2> QED
    BY <1>1, <1>3, <2>2, PoolKept DEF IInv, Types
<1>9. conn[c] = NoConn
  BY <1>2 DEF IInv, Holding, Waiting
<1>10. Holding'
  BY <1>3, <1>4, <1>5, <1>9 DEF IInv, Holding, Waiting
<1>11. Traffic'
  <2>1. ASSUME NEW l \in Conns, l # k
        PROVE  pipe'[l] = pipe[l] /\ replies'[l] = replies[l] /\ state'[l] = state[l]
    BY <1>1, <1>3, <1>4, <1>7, <2>1
  <2>2. \A d \in Callers : d # c => conn'[d] = conn[d] /\ pc'[d] = pc[d]
    BY <1>3, <1>4
  <2>3. conn'[c] = k /\ pc'[c] = label /\ pipe'[k] = << <<m, c>> >> /\ replies'[k] = <<>>
    BY <1>1, <1>3, <1>4, <1>6, <1>7
  <2>4. pc[c] # "done" /\ UNCHANGED got
    BY <1>1, <1>2
  <2>5. ASSUME NEW l \in Conns, l # k, pipe[l] # <<>>
        PROVE  \E n \in {"INCR", "EXPIRE"}, d \in Callers :
                 /\ pipe'[l] = << <<n, d>> >>
                 /\ replies'[l] = <<>>
                 /\ \/ conn'[d] = l /\ pc'[d] = IF n = "INCR" THEN "incr_reply" ELSE "expire_reply"
                    \/ state'[l] = "closed" /\ (n = "INCR" => pc'[d] = "done" /\ got'[d] = 0)
    <3>1. PICK n \in {"INCR", "EXPIRE"}, d \in Callers :
            /\ pipe[l] = << <<n, d>> >>
            /\ replies[l] = <<>>
            /\ \/ conn[d] = l /\ pc[d] = IF n = "INCR" THEN "incr_reply" ELSE "expire_reply"
               \/ state[l] = "closed" /\ (n = "INCR" => pc[d] = "done" /\ got[d] = 0)
      BY <2>5 DEF IInv, Traffic
    <3>2. d # c \/ (state[l] = "closed" /\ n # "INCR")
      BY <1>2, <1>9, <2>4, <3>1, <1>4
    <3> QED
      BY <2>1, <2>2, <2>4, <2>5, <3>1, <3>2
  <2>6. ASSUME NEW l \in Conns, l # k, replies[l] # <<>>
        PROVE  \E d \in Callers, n \in Nat : replies'[l] = << <<d, n>> >> /\ conn'[d] = l
    <3>1. PICK d \in Callers, n \in Nat : replies[l] = << <<d, n>> >> /\ conn[d] = l
      BY <2>6 DEF IInv, Traffic
    <3> QED
      BY <1>4, <1>9, <2>1, <2>2, <2>6, <3>1
  <2> QED
    BY <2>1, <2>3, <2>5, <2>6 DEF Traffic
<1>12. \A d \in Callers, l \in Conns :
         Pending(d, l)' <=> Pending(d, l) \/ (d = c /\ l = k /\ m = "INCR")
  BY <1>4, <1>6, <1>7 DEF Pending
<1>13. m = "INCR" => \A l \in Conns : ~Pending(c, l)
  <2>1. SUFFICES ASSUME m = "INCR", NEW l \in Conns, Pending(c, l) PROVE FALSE
    OBVIOUS
  <2>2. PICK n \in {"INCR", "EXPIRE"}, d \in Callers :
          /\ pipe[l] = << <<n, d>> >>
          /\ conn[d] = l \/ (n = "INCR" => pc[d] = "done")
    BY <2>1 DEF IInv, Traffic, Pending
  <2>3. << <<n, d>> >>[1] = << <<"INCR", c>> >>[1]
    BY <2>1, <2>2 DEF Pending
  <2>4. n = "INCR" /\ d = c
    BY <2>3
  <2> QED
    BY <1>2, <1>4, <1>9, <2>1, <2>2, <2>4
<1>14. SentOnce'
  BY <1>12, <1>13 DEF IInv, SentOnce
<1>15. Verdicts'
  BY <1>1, <1>2, <1>3, <1>4 DEF IInv, Verdicts
<1>16. \A w \in Windows : Executed(w) \subseteq Executed(w)'
  BY <1>1, <1>2, <1>3, <1>4, <1>12 DEF Executed
<1>17. \A d \in Callers : Number(d)' = Number(d)
  BY <1>1, <1>2, <1>3, <1>4, <1>6 DEF Number, IInv, Verdicts
<1>18. Counting'
  BY <1>1, <1>16, <1>17, CountingKept DEF IInv, Types
<1> QED
  BY <1>8, <1>10, <1>11, <1>14, <1>15, <1>18 DEF IInv

\* What a connection carries, in the words of its holder.
LEMMA Carries ==
  ASSUME IInv, NEW c \in Callers, conn[c] # NoConn
  PROVE  /\ conn[c] \in Conns /\ state[conn[c]] = "held" /\ pc[c] \in Waiting
         /\ \A d \in Callers : conn[d] = conn[c] => d = c
         /\ \/ pipe[conn[c]] = <<>>
            \/ replies[conn[c]] = <<>> /\ \E m \in {"INCR", "EXPIRE"} :
                 /\ pipe[conn[c]] = << <<m, c>> >>
                 /\ pc[c] = IF m = "INCR" THEN "incr_reply" ELSE "expire_reply"
         /\ replies[conn[c]] = <<>> \/ \E n \in Nat : replies[conn[c]] = << <<c, n>> >>
<1>1. conn[c] \in Conns /\ state[conn[c]] = "held" /\ pc[c] \in Waiting
  BY DEF IInv, Types, Holding
<1>2. \A d \in Callers : conn[d] = conn[c] => d = c
  BY DEF IInv, Holding
<1> PICK k \in Conns : k = conn[c]
  BY <1>1
<1>3. replies[k] = <<>> \/ \E n \in Nat : replies[k] = << <<c, n>> >>
  BY <1>2 DEF IInv, Traffic
<1>4. pipe[k] = <<>> \/ \E m \in {"INCR", "EXPIRE"} :
        /\ pipe[k] = << <<m, c>> >> /\ replies[k] = <<>>
        /\ pc[c] = IF m = "INCR" THEN "incr_reply" ELSE "expire_reply"
  BY <1>1, <1>2 DEF IInv, Traffic
<1> QED
  BY <1>1, <1>2, <1>3, <1>4

\* A connection is given back: pooled or closed with nothing on it, or closed
\* with a command that may still arrive.
LEMMA GiveBack ==
  ASSUME IInv, NEW c \in Callers, conn[c] # NoConn,
         NEW s \in {"idle", "unused", "closed"}, NEW label \in {"expire", "done"}, NEW g \in Nat,
         state' = [state EXCEPT ![conn[c]] = s],
         s = "idle" => Cardinality(Idle) < PoolSize,
         s = "closed" \/ pipe[conn[c]] = <<>>,
         replies' = [replies EXCEPT ![conn[c]] = <<>>],
         conn' = [conn EXCEPT ![c] = NoConn],
         pc' = [pc EXCEPT ![c] = label],
         got' = [got EXCEPT ![c] = g],
         g = 0 \/ g = Number(c),
         pc[c] = "incr_reply" /\ pipe[conn[c]] # <<>> => label = "done" /\ g = 0,
         UNCHANGED <<now, count, ttl, expired, pipe, win>>,
         verdict' \in [Callers -> {"none", "allowed", "denied", "open"}],
         Verdicts'
  PROVE  IInv'
<1> PICK k \in Conns : k = conn[c]
  BY Carries
<1>1. /\ state \in [Conns -> {"unused", "idle", "held", "closed"}]
      /\ replies \in [Conns -> Seq(Callers \X Nat)]
      /\ conn \in [Callers -> Conns \cup {NoConn}] /\ NoConn \notin Conns
      /\ pc \in [Callers -> Places] /\ got \in [Callers -> Nat]
  BY RateLimitAssumption DEF IInv, Types
<1>2. /\ pc[c] \in Waiting /\ \A d \in Callers : d # c => conn[d] # k
      /\ \/ pipe[k] = <<>>
         \/ \E m \in {"INCR", "EXPIRE"} :
              /\ pipe[k] = << <<m, c>> >>
              /\ pc[c] = IF m = "INCR" THEN "incr_reply" ELSE "expire_reply"
  BY Carries
<1>3. /\ state'[k] = s /\ replies'[k] = <<>> /\ conn'[c] = NoConn /\ pc'[c] = label /\ got'[c] = g
      /\ \A d \in Callers : d # c => conn'[d] = conn[d] /\ pc'[d] = pc[d] /\ got'[d] = got[d]
      /\ \A l \in Conns : l # k => replies'[l] = replies[l] /\ state'[l] = state[l]
  BY <1>1
<1>4. Types' /\ PoolBounded'
  <2>1. replies' \in [Conns -> Seq(Callers \X Nat)] /\ pc' \in [Callers -> Places]
    BY <1>1 DEF Places
  <2>2. conn' \in [Callers -> Conns \cup {NoConn}] /\ got' \in [Callers -> Nat]
    BY <1>1
  <2> QED
    BY <2>1, <2>2, PoolKept DEF IInv, Types
<1>5. Holding'
  BY <1>1, <1>2, <1>3 DEF IInv, Holding, Waiting
<1>6. Traffic'
  <2>1. ASSUME NEW l \in Conns, pipe'[l] # <<>>
        PROVE  \E n \in {"INCR", "EXPIRE"}, d \in Callers :
                 /\ pipe'[l] = << <<n, d>> >>
                 /\ replies'[l] = <<>>
                 /\ \/ conn'[d] = l /\ pc'[d] = IF n = "INCR" THEN "incr_reply" ELSE "expire_reply"
                    \/ state'[l] = "closed" /\ (n = "INCR" => pc'[d] = "done" /\ got'[d] = 0)
    <3>1. CASE l = k
      <4>1. PICK n \in {"INCR", "EXPIRE"} :
              /\ pipe[k] = << <<n, c>> >>
              /\ pc[c] = IF n = "INCR" THEN "incr_reply" ELSE "expire_reply"
        BY <1>2, <2>1, <3>1
      <4>2. pipe[k] # <<>>
        BY <4>1
      <4> QED
        BY <1>3, <3>1, <4>1, <4>2
    <3>2. CASE l # k
      <4>1. PICK n \in {"INCR", "EXPIRE"}, d \in Callers :
              /\ pipe[l] = << <<n, d>> >>
              /\ replies[l] = <<>>
              /\ \/ conn[d] = l /\ pc[d] = IF n = "INCR" THEN "incr_reply" ELSE "expire_reply"
                 \/ state[l] = "closed" /\ (n = "INCR" => pc[d] = "done" /\ got[d] = 0)
        BY <2>1 DEF IInv, Traffic
      <4>2. d # c \/ (state[l] = "closed" /\ n # "INCR")
        BY <1>2, <3>2, <4>1 DEF Waiting
      <4> QED
        BY <1>3, <3>2, <4>1, <4>2
    <3> QED
      BY <3>1, <3>2
  <2>2. ASSUME NEW l \in Conns, replies'[l] # <<>>
        PROVE  \E d \in Callers, n \in Nat : replies'[l] = << <<d, n>> >> /\ conn'[d] = l
    <3>1. l # k
      BY <1>3, <2>2
    <3>2. PICK d \in Callers, n \in Nat : replies[l] = << <<d, n>> >> /\ conn[d] = l
      BY <1>3, <2>2, <3>1 DEF IInv, Traffic
    <3> QED
      BY <1>3, <3>1, <3>2
  <2> QED
    BY <2>1, <2>2 DEF Traffic
<1>7. SentOnce'
  BY DEF IInv, SentOnce, Pending
<1>8. \A w \in Windows : Executed(w) \subseteq Executed(w)'
  BY <1>2, <1>3 DEF Executed, Pending, Waiting
<1>9. \A d \in Callers : Number(d)' = 0 \/ (Number(d)' = Number(d) /\ win'[d] = win[d])
  <2>1. Number(c)' = g
    BY <1>3 DEF Number
  <2>2. ASSUME NEW d \in Callers, d # c PROVE Number(d)' = Number(d)
    <3>1. pc[d] = "incr_reply" => conn[d] \in Conns
      BY <1>1 DEF IInv, Holding, Waiting
    <3>2. pc[d] = "incr_reply" => replies'[conn'[d]] = replies[conn[d]]
      BY <1>2, <1>3, <2>2, <3>1
    <3> QED
      BY <1>3, <2>2, <3>2 DEF Number
  <2> QED
    BY <2>1, <2>2
<1>10. Counting'
  BY <1>8, <1>9, CountingKept DEF IInv, Types
<1> QED
  BY <1>4, <1>5, <1>6, <1>7, <1>10 DEF IInv

\* A reply is read, or its deadline passes.
LEMMA ReplyStep ==
  ASSUME IInv, NEW c \in Callers, ReadCount(c) \/ ReadExpire(c) \/ ReplyFails(c)
  PROVE  IInv'
<1>1. /\ pc[c] \in Waiting /\ conn[c] # NoConn
      /\ UNCHANGED <<now, count, ttl, expired, pipe, win>>
  BY DEF ReadCount, ReadExpire, ReplyFails, Waiting, IInv, Holding, timeVars, redisVars
<1>2. /\ conn[c] \in Conns
      /\ pipe[conn[c]] # <<>> => replies[conn[c]] = <<>>
      /\ replies[conn[c]] = <<>> \/ \E n \in Nat : replies[conn[c]] = << <<c, n>> >>
  BY <1>1, Carries
<1>3. /\ pc \in [Callers -> Places] /\ got \in [Callers -> Nat] /\ Limit \in Nat
      /\ verdict \in [Callers -> {"none", "allowed", "denied", "open"}]
      /\ replies \in [Conns -> Seq(Callers \X Nat)]
  BY RateLimitAssumption DEF IInv, Types
<1>4. /\ pc[c] = "incr_reply" => got[c] = 0
      /\ pc[c] = "expire_reply" => got[c] = 1 /\ Number(c) = got[c]
      /\ verdict[c] = "none"
  BY <1>1 DEF IInv, Verdicts, Number, Waiting
<1>5. CASE ReadCount(c)
  <2>1. PICK n \in Nat : replies[conn[c]] = << <<c, n>> >> /\ pipe[conn[c]] = <<>>
    BY <1>2, <1>5 DEF ReadCount
  <2>2. Head(replies[conn[c]])[2] = n /\ Tail(replies[conn[c]]) = <<>> /\ Number(c) = n
    BY <1>5, <2>1 DEF ReadCount, Number
  <2>3. /\ got' = [got EXCEPT ![c] = n] /\ PutBack(c)
        /\ \/ n = 0 /\ FailOpen(c)
           \/ n = 1 /\ Goto(c, "expire") /\ UNCHANGED verdict
           \/ n > 1 /\ Decide(c, n)
    BY <1>5, <2>2 DEF ReadCount, Refused
  <2>4. /\ replies' = [replies EXCEPT ![conn[c]] = <<>>] /\ conn' = [conn EXCEPT ![c] = NoConn]
        /\ \/ state' = [state EXCEPT ![conn[c]] = "unused"]
           \/ state' = [state EXCEPT ![conn[c]] = "idle"] /\ Cardinality(Idle) < PoolSize
    BY <2>2, <2>3 DEF PutBack
  <2>5. PICK label \in {"expire", "done"} :
          /\ pc' = [pc EXCEPT ![c] = label]
          /\ label = "expire" => n = 1 /\ verdict' = verdict
    BY <2>3 DEF FailOpen, Decide, Goto
  <2>6. PICK v \in {"none", "allowed", "denied", "open"} :
          /\ verdict' = [verdict EXCEPT ![c] = v]
          /\ v = "allowed" => n > 1 /\ n <= Limit
          /\ v = "denied" => ~(n <= Limit)
          /\ label = "expire" => v = "none"
    <3>1. CASE n = 0 /\ FailOpen(c)
      BY <1>3, <2>5, <3>1 DEF FailOpen
    <3>2. CASE n = 1 /\ Goto(c, "expire") /\ UNCHANGED verdict
      BY <1>3, <1>4, <2>5, <3>2
    <3>3. CASE n > 1 /\ Decide(c, n)
      <4>1. verdict' = [verdict EXCEPT ![c] = IF n <= Limit THEN "allowed" ELSE "denied"]
        BY <3>3 DEF Decide
      <4>2. label # "expire"
        BY <2>5, <3>3
      <4> QED
        BY <3>3, <4>1, <4>2
    <3> QED
      BY <2>3, <3>1, <3>2, <3>3
  <2>7. verdict' \in [Callers -> {"none", "allowed", "denied", "open"}]
    BY <1>3, <2>6
  <2>8. Verdicts'
    BY <1>3, <2>3, <2>5, <2>6 DEF IInv, Verdicts
  <2> QED
    BY <1>1, <2>1, <2>2, <2>3, <2>4, <2>5, <2>7, <2>8, GiveBack
<1>6. CASE ReadExpire(c) \/ ReplyFails(c)
  <2>1. /\ got' = got /\ conn' = [conn EXCEPT ![c] = NoConn]
        /\ pc' = [pc EXCEPT ![c] = "done"]
    BY <1>6 DEF ReadExpire, ReplyFails, PutBack, Drop, Decide, FailOpen, Goto
  <2>2. /\ replies' = [replies EXCEPT ![conn[c]] = <<>>]
        /\ \/ state' = [state EXCEPT ![conn[c]] = "closed"]
           \/ /\ pipe[conn[c]] = <<>>
              /\ \/ state' = [state EXCEPT ![conn[c]] = "unused"]
                 \/ state' = [state EXCEPT ![conn[c]] = "idle"] /\ Cardinality(Idle) < PoolSize
    <3>1. CASE ReadExpire(c)
      <4>1. PICK n \in Nat : replies[conn[c]] = << <<c, n>> >>
        BY <1>2, <3>1 DEF ReadExpire
      <4>2. Tail(replies[conn[c]]) = <<>> /\ pipe[conn[c]] = <<>>
        BY <1>2, <4>1
      <4> QED
        BY <3>1, <4>2 DEF ReadExpire, PutBack
    <3>2. CASE ReplyFails(c)
      BY <3>2 DEF ReplyFails, Drop
    <3> QED
      BY <1>6, <3>1, <3>2
  <2>3. PICK v \in {"allowed", "denied", "open"} :
          /\ verdict' = [verdict EXCEPT ![c] = v]
          /\ v = "allowed" => got[c] = 1 /\ got[c] <= Limit
          /\ v = "denied" => ~(got[c] <= Limit)
    BY <1>4, <1>6 DEF ReadExpire, ReplyFails, Decide, FailOpen
  <2>4. verdict' \in [Callers -> {"none", "allowed", "denied", "open"}]
    BY <1>3, <2>3
  <2>5. Verdicts'
    BY <1>3, <2>1, <2>3 DEF IInv, Verdicts
  <2>6. got' = [got EXCEPT ![c] = got[c]] /\ got[c] \in Nat
    BY <1>3, <2>1
  <2>7. got[c] = 0 \/ got[c] = Number(c)
    BY <1>1, <1>4 DEF Waiting
  <2> QED
    BY <1>1, <1>4, <2>1, <2>2, <2>4, <2>5, <2>6, <2>7, GiveBack
<1> QED
  BY <1>5, <1>6

-----------------------------------------------------------------------------
\* Redis, the network and time

\* The first command on a connection, its owner and where that one is.
LEMMA Command ==
  ASSUME IInv, NEW k \in Conns, pipe[k] # <<>>
  PROVE  \E m \in {"INCR", "EXPIRE"}, c \in Callers :
           /\ pipe[k] = << <<m, c>> >> /\ replies[k] = <<>>
           /\ Head(pipe[k]) = <<m, c>> /\ Tail(pipe[k]) = <<>>
           /\ \/ state[k] # "closed" /\ conn[c] = k
                 /\ pc[c] = IF m = "INCR" THEN "incr_reply" ELSE "expire_reply"
              \/ state[k] = "closed" /\ (m = "INCR" => pc[c] = "done")
           /\ m = "INCR" => Number(c) = 0
<1>1. PICK m \in {"INCR", "EXPIRE"}, c \in Callers :
        /\ pipe[k] = << <<m, c>> >>
        /\ replies[k] = <<>>
        /\ \/ conn[c] = k /\ pc[c] = IF m = "INCR" THEN "incr_reply" ELSE "expire_reply"
           \/ state[k] = "closed" /\ (m = "INCR" => pc[c] = "done" /\ got[c] = 0)
  BY DEF IInv, Traffic
<1>2. Head(pipe[k]) = <<m, c>> /\ Tail(pipe[k]) = <<>>
  BY <1>1
<1>3. conn[c] = k => state[k] = "held"
  BY RateLimitAssumption DEF IInv, Holding
<1>4. m = "INCR" => Number(c) = 0
  BY <1>1 DEF IInv, Verdicts, Number
<1> QED
  BY <1>1, <1>2, <1>3, <1>4

\* A command leaves its connection, answered or not: what is not counting.
LEMMA Delivered ==
  ASSUME IInv, NEW k \in Conns, NEW m \in {"INCR", "EXPIRE"}, NEW c \in Callers, NEW n \in Nat,
         pipe[k] = << <<m, c>> >>, replies[k] = <<>>,
         state[k] = "closed" \/ conn[c] = k,
         pipe' = [pipe EXCEPT ![k] = <<>>],
         \/ replies' = replies
         \/ state[k] # "closed" /\ replies' = [replies EXCEPT ![k] = << <<c, n>> >>],
         UNCHANGED <<now, state, callerVars>>
  PROVE  /\ pipe' \in [Conns -> Seq({"INCR", "EXPIRE"} \X Callers)]
         /\ replies' \in [Conns -> Seq(Callers \X Nat)]
         /\ PoolBounded' /\ Holding' /\ Traffic' /\ SentOnce' /\ Verdicts'
         /\ \A w \in Windows : Executed(w) \subseteq Executed(w)'
         /\ m = "INCR" /\ pc[c] \notin {"new", "incr"} =>
              c \in Executed(win[c])' /\ c \notin Executed(win[c])
         /\ \A d \in Callers : d # c => Number(d)' = Number(d)
         /\ Number(c)' = Number(c) \/ Number(c)' = n
<1> USE DEF callerVars
<1>1. /\ pipe \in [Conns -> Seq({"INCR", "EXPIRE"} \X Callers)]
      /\ replies \in [Conns -> Seq(Callers \X Nat)]
      /\ conn \in [Callers -> Conns \cup {NoConn}] /\ NoConn \notin Conns
  BY RateLimitAssumption DEF IInv, Types
<1>2. /\ pipe' \in [Conns -> Seq({"INCR", "EXPIRE"} \X Callers)]
      /\ replies' \in [Conns -> Seq(Callers \X Nat)]
  <2>1. << <<c, n>> >> \in Seq(Callers \X Nat)
    OBVIOUS
  <2>2. <<>> \in Seq({"INCR", "EXPIRE"} \X Callers)
    OBVIOUS
  <2>3. pipe' \in [Conns -> Seq({"INCR", "EXPIRE"} \X Callers)]
    BY <1>1, <2>2
  <2>4. replies' \in [Conns -> Seq(Callers \X Nat)]
    BY <1>1, <2>1
  <2> QED
    BY <2>3, <2>4
<1>3. /\ pipe'[k] = <<>>
      /\ replies'[k] = <<>> \/ (conn[c] = k /\ replies'[k] = << <<c, n>> >>)
      /\ \A l \in Conns : l # k => pipe'[l] = pipe[l] /\ replies'[l] = replies[l]
  BY <1>1
<1>4. PoolBounded' /\ Holding' /\ Verdicts'
  BY DEF IInv, PoolBounded, Idle, Holding, Verdicts
<1>5. Traffic'
  BY <1>3 DEF IInv, Traffic
<1>6. /\ \A d \in Callers, l \in Conns : Pending(d, l)' => Pending(d, l) /\ l # k
      /\ m = "INCR" => Pending(c, k)
  BY <1>3 DEF Pending
<1>7. SentOnce'
  BY <1>6 DEF IInv, SentOnce
<1>8. \A w \in Windows : Executed(w) \subseteq Executed(w)'
  BY <1>6 DEF Executed
<1>9. m = "INCR" /\ pc[c] \notin {"new", "incr"} =>
        c \in Executed(win[c])' /\ c \notin Executed(win[c])
  BY <1>6 DEF Executed, IInv, SentOnce
<1>10. ASSUME NEW d \in Callers, d # c PROVE Number(d)' = Number(d)
  <2>1. conn[d] = k => replies'[k] = <<>>
    BY <1>1, <1>3, <1>10 DEF IInv, Holding
  <2>2. pc[d] = "incr_reply" => conn[d] \in Conns
    BY <1>1 DEF IInv, Holding, Waiting
  <2> QED
    BY <1>3, <2>1, <2>2 DEF Number
<1>11. Number(c)' = Number(c) \/ Number(c)' = n
  <2>1. pc[c] = "incr_reply" => conn[c] \in Conns
    BY <1>1 DEF IInv, Holding, Waiting
  <2> QED
    BY <1>3, <2>1 DEF Number
<1> QED
  BY <1>2, <1>4, <1>5, <1>7, <1>8, <1>9, <1>10, <1>11

\* EXPIRE, a refused command or one that is lost: Redis counts nothing.
LEMMA NotCounted ==
  ASSUME IInv, NEW k \in Conns, ExecuteExpire(k) \/ Refuse(k) \/ Discard(k)
  PROVE  IInv'
<1>1. pipe[k] # <<>>
  BY DEF ExecuteExpire, Refuse, Discard
<1>2. PICK m \in {"INCR", "EXPIRE"}, c \in Callers :
        /\ pipe[k] = << <<m, c>> >> /\ replies[k] = <<>>
        /\ Head(pipe[k]) = <<m, c>> /\ Tail(pipe[k]) = <<>>
        /\ state[k] = "closed" \/ conn[c] = k
        /\ m = "INCR" => Number(c) = 0
  BY <1>1, Command
<1>3. pipe' = [pipe EXCEPT ![k] = <<>>]
  BY <1>2 DEF ExecuteExpire, Refuse, Discard
<1>4. UNCHANGED <<now, count, expired, state, callerVars>>
  BY DEF ExecuteExpire, Refuse, Discard, timeVars, redisVars
<1>5. \/ replies' = replies
      \/ state[k] # "closed" /\ replies' = [replies EXCEPT ![k] = << <<c, 0>> >>]
  <2>1. replies \in [Conns -> Seq(Callers \X Nat)]
    BY DEF IInv, Types
  <2>2. Append(replies[k], <<c, 0>>) = << <<c, 0>> >>
    BY <1>2
  <2>3. replies' = replies \/ Answer(k, <<c, 0>>)
    BY <1>2 DEF ExecuteExpire, Refuse, Discard, Refused
  <2> QED
    BY <2>1, <2>2, <2>3 DEF Answer
<1>6. /\ pipe' \in [Conns -> Seq({"INCR", "EXPIRE"} \X Callers)]
      /\ replies' \in [Conns -> Seq(Callers \X Nat)]
      /\ PoolBounded' /\ Holding' /\ Traffic' /\ SentOnce' /\ Verdicts'
      /\ \A w \in Windows : Executed(w) \subseteq Executed(w)'
      /\ \A d \in Callers : d # c => Number(d)' = Number(d)
      /\ Number(c)' = Number(c) \/ Number(c)' = 0
  BY <1>2, <1>3, <1>4, <1>5, Delivered
<1>7. ttl' \in [Windows -> BOOLEAN]
  <2>1. ttl \in [Windows -> BOOLEAN]
    BY DEF IInv, Types
  <2>2. CASE ExecuteExpire(k)
    <3>1. PICK b \in BOOLEAN, w \in Windows : ttl' = [ttl EXCEPT ![w] = b]
      <4>1. win[c] \in Windows
        BY DEF IInv, Types
      <4>2. (count[win[c]] > 0) \in BOOLEAN
        BY <4>1 DEF IInv, Types
      <4>3. ttl' = [ttl EXCEPT ![win[c]] = count[win[c]] > 0]
        <5>1. Head(pipe[k])[2] = c
          BY <1>2
        <5> QED
          BY <2>2, <5>1, Zenon DEF ExecuteExpire
      <4> QED
        BY <4>1, <4>2, <4>3
    <3> QED
      BY <2>1, <3>1
  <2>3. CASE Refuse(k) \/ Discard(k)
    BY <2>1, <2>3 DEF Refuse, Discard, redisVars
  <2> QED
    BY <2>2, <2>3
<1>8. Types'
  BY <1>4, <1>6, <1>7 DEF IInv, Types, callerVars
<1>9. Counting'
  <2>1. win' = win /\ win' \in [Callers -> Windows] /\ UNCHANGED <<count, expired>>
    BY <1>4 DEF IInv, Types, callerVars
  <2>2. \A d \in Callers : Number(d)' = 0 \/ (Number(d)' = Number(d) /\ win'[d] = win[d])
    BY <1>6, <2>1
  <2> QED
    BY <1>6, <2>1, <2>2, CountingKept
<1> QED
  BY <1>6, <1>8, <1>9 DEF IInv

\* INCR: the new count is a number nobody else has, while the key lives.
LEMMA IncrStep ==
  ASSUME IInv, NEW k \in Conns, ExecuteIncr(k)
  PROVE  IInv'
<1>1. pipe[k] # <<>>
  BY DEF ExecuteIncr
<1>2. PICK m \in {"INCR", "EXPIRE"}, c \in Callers :
        /\ pipe[k] = << <<m, c>> >> /\ replies[k] = <<>>
        /\ Head(pipe[k]) = <<m, c>> /\ Tail(pipe[k]) = <<>>
        /\ \/ state[k] # "closed" /\ conn[c] = k
              /\ pc[c] = IF m = "INCR" THEN "incr_reply" ELSE "expire_reply"
           \/ state[k] = "closed" /\ (m = "INCR" => pc[c] = "done")
        /\ m = "INCR" => Number(c) = 0
  BY <1>1, Command
<1>3. m = "INCR" /\ Number(c) = 0 /\ pc[c] \notin {"new", "incr"}
  BY <1>2 DEF ExecuteIncr
<1>4. PICK w \in Windows : w = win[c]
  BY DEF IInv, Types
<1>5. PICK n \in Nat : n = count[w]
  BY DEF IInv, Types
<1>6. /\ pipe' = [pipe EXCEPT ![k] = <<>>]
      /\ count' = [count EXCEPT ![w] = n + 1]
      /\ UNCHANGED <<now, ttl, expired, state, callerVars>>
  <2>1. Head(pipe[k])[2] = c /\ count[win[c]] = n
    BY <1>2, <1>4, <1>5
  <2>2. pipe' = [pipe EXCEPT ![k] = <<>>] /\ UNCHANGED <<now, ttl, expired, state, callerVars>>
    BY <1>2 DEF ExecuteIncr, timeVars
  <2>3. count' = [count EXCEPT ![win[c]] = @ + 1]
    BY <2>1, Zenon DEF ExecuteIncr
  <2> QED
    BY <1>4, <2>1, <2>2, <2>3
<1>7. \/ replies' = replies
      \/ state[k] # "closed" /\ replies' = [replies EXCEPT ![k] = << <<c, n + 1>> >>]
  <2>1. Append(replies[k], <<c, n + 1>>) = << <<c, n + 1>> >>
    BY <1>2
  <2>2. Answer(k, <<c, n + 1>>)
    BY <1>2, <1>4, <1>5 DEF ExecuteIncr
  <2>3. replies \in [Conns -> Seq(Callers \X Nat)]
    BY DEF IInv, Types
  <2> QED
    BY <2>1, <2>2, <2>3 DEF Answer
<1>8. /\ pipe' \in [Conns -> Seq({"INCR", "EXPIRE"} \X Callers)]
      /\ replies' \in [Conns -> Seq(Callers \X Nat)]
      /\ PoolBounded' /\ Holding' /\ Traffic' /\ SentOnce' /\ Verdicts'
      /\ \A x \in Windows : Executed(x) \subseteq Executed(x)'
      /\ c \in Executed(win[c])' /\ c \notin Executed(win[c])
      /\ \A d \in Callers : d # c => Number(d)' = Number(d)
      /\ Number(c)' = Number(c) \/ Number(c)' = n + 1
  <2>1. n + 1 \in Nat /\ (state[k] = "closed" \/ conn[c] = k)
    BY <1>2
  <2> QED
    BY <1>2, <1>3, <1>6, <1>7, <2>1, Delivered
<1>9. win' = win /\ expired' = expired /\ win \in [Callers -> Windows] /\ count \in [Windows -> Nat]
  BY <1>6 DEF callerVars, IInv, Types
<1>10. Types'
  <2>1. count' \in [Windows -> Nat]
    BY <1>6, <1>9
  <2> QED
    BY <1>6, <1>8, <2>1 DEF IInv, Types, callerVars
<1>11. ASSUME NEW x \in Windows
       PROVE  /\ Cardinality(Executed(x)) \in Nat /\ Cardinality(Executed(x)') \in Nat
              /\ Cardinality(Executed(x)) <= Cardinality(Executed(x)')
  <2>1. Executed(x)' \in SUBSET Callers /\ Executed(x) \in SUBSET Executed(x)'
    BY <1>8 DEF Executed
  <2> QED
    BY <2>1, ExecutedSize
<1>12. Cardinality(Executed(w)) + 1 <= Cardinality(Executed(w)')
  <2>1. /\ Executed(w)' \in SUBSET Callers /\ Executed(w) \in SUBSET Executed(w)'
        /\ c \in Executed(w)' /\ c \notin Executed(w)
    <3>1. Executed(w)' \in SUBSET Callers /\ Executed(w) \in SUBSET Executed(w)'
      BY <1>8 DEF Executed
    <3>2. Executed(win[c])' = Executed(w)'
      BY <1>4, <1>9
    <3> QED
      BY <1>4, <1>8, <3>1, <3>2
  <2>2. Executed(w) \cup {c} \in SUBSET Executed(w)'
    BY <2>1
  <2>3. Cardinality(Executed(w) \cup {c}) <= Cardinality(Executed(w)')
    BY <2>1, <2>2, ExecutedSize
  <2>4. IsFiniteSet(Executed(w))
    BY <2>1, ExecutedSize
  <2>5. Cardinality(Executed(w) \cup {c}) = Cardinality(Executed(w)) + 1
    BY <2>1, <2>4, FS_AddElement
  <2> QED
    BY <2>3, <2>5
<1>13. /\ \A x \in Windows : count[x] <= Cardinality(Executed(x))
       /\ \A d \in Callers : Number(d) \in Nat /\ Number(d) <= Cardinality(Executed(win[d]))
       /\ \A d \in Callers : ~expired[win[d]] => Number(d) <= count[win[d]]
  BY DEF IInv, Counting
<1>14. ASSUME NEW x \in Windows
       PROVE  /\ count'[x] = IF x = w THEN n + 1 ELSE count[x]
              /\ count'[x] \in Nat /\ count[x] \in Nat /\ count[x] <= count'[x]
  <2>1. count'[x] = IF x = w THEN n + 1 ELSE count[x]
    BY <1>6, <1>9
  <2>2. count[x] \in Nat /\ (x = w => count[x] = n)
    BY <1>5, <1>9
  <2> QED
    BY <2>1, <2>2
<1>15. ASSUME NEW x \in Windows PROVE count'[x] <= Cardinality(Executed(x)')
  <2>1. CASE x = w
    BY <1>5, <1>11, <1>12, <1>13, <1>14, <2>1
  <2>2. CASE x # w
    BY <1>11, <1>13, <1>14, <2>2
  <2> QED
    BY <2>1, <2>2
<1>16. ASSUME NEW d \in Callers
       PROVE  /\ Number(d)' \in Nat
              /\ Number(d)' <= Cardinality(Executed(win[d])')
              /\ ~expired'[win'[d]] => Number(d)' <= count'[win'[d]]
  <2> PICK x \in Windows : x = win[d]
    BY <1>9
  <2>1. Executed(win[d])' = Executed(x)'
    BY <1>9
  <2>2. CASE Number(d)' = Number(d)
    <3>1. /\ Number(d) \in Nat /\ Number(d) <= Cardinality(Executed(x))
          /\ ~expired[x] => Number(d) <= count[x]
      BY <1>13
    <3>2. /\ Cardinality(Executed(x)) \in Nat /\ Cardinality(Executed(x)') \in Nat
          /\ Cardinality(Executed(x)) <= Cardinality(Executed(x)')
      BY <1>11
    <3>3. count[x] \in Nat /\ count'[x] \in Nat /\ count[x] <= count'[x]
      BY <1>14
    <3>4. win'[d] = x /\ expired'[x] = expired[x]
      BY <1>9
    <3> QED
      BY <2>1, <2>2, <3>1, <3>2, <3>3, <3>4
  <2>3. CASE d = c /\ Number(d)' = n + 1
    BY <1>4, <1>5, <1>9, <1>14, <1>15, <2>1, <2>3
  <2> QED
    BY <1>8, <2>2, <2>3
<1>17. ASSUME NEW d \in Callers, NEW e \in Callers, d # e, Number(d)' # 0,
              Number(d)' = Number(e)', win'[d] = win'[e]
       PROVE  expired'[win'[d]]
  <2>1. CASE Number(d)' = Number(d) /\ Number(e)' = Number(e)
    BY <1>9, <1>17, <2>1 DEF IInv, Counting
  <2>2. ASSUME NEW x \in Callers, x # c, win[x] = win[c], Number(x) = n + 1
        PROVE  expired[win[x]]
    <3>1. ~expired[win[x]] => Number(x) <= n
      BY <1>4, <1>5, <1>13, <2>2
    <3> QED
      BY <2>2, <3>1
  <2>3. CASE d = c /\ Number(c)' = n + 1
    BY <1>8, <1>9, <1>17, <2>2, <2>3
  <2>4. CASE e = c /\ Number(c)' = n + 1
    BY <1>8, <1>9, <1>17, <2>2, <2>4
  <2> QED
    BY <1>8, <2>1, <2>3, <2>4
<1>18. Counting'
  BY <1>15, <1>16, <1>17 DEF Counting
<1> QED
  BY <1>8, <1>10, <1>18 DEF IInv

\* What touches neither a command nor a number.
LEMMA AsideStep ==
  ASSUME IInv, \/ \E k \in Conns : Forget(k)
               \/ \E w \in Windows : KeyExpires(w)
               \/ NextWindow
               \/ UNCHANGED vars
  PROVE  IInv'
<1>1. UNCHANGED <<pipe, replies, pc, win, conn, got, verdict>>
  BY DEF Forget, KeyExpires, NextWindow, vars, netVars, callerVars
<1>2. SentOnce' /\ Verdicts'
  BY <1>1 DEF IInv, SentOnce, Pending, Verdicts
<1>3. /\ \A w \in Windows : Executed(w)' = Executed(w)
      /\ \A c \in Callers : Number(c)' = Number(c)
  BY <1>1 DEF Executed, Pending, Number
<1>4. CASE \E k \in Conns : Forget(k)
  <2> PICK k \in Conns : Forget(k)
    BY <1>4
  <2>1. /\ state[k] = "closed" /\ pipe[k] = <<>> /\ state' = [state EXCEPT ![k] = "unused"]
        /\ UNCHANGED <<now, count, ttl, expired>>
    BY DEF Forget, timeVars, redisVars
  <2>2. PoolBounded' /\ Types'
    BY <1>1, <2>1, PoolKept DEF IInv, Types
  <2>3. \A l \in Conns : l # k => state'[l] = state[l]
    BY <2>1 DEF IInv, Types
  <2>4. \A c \in Callers : conn[c] # k
    BY <2>1, RateLimitAssumption DEF IInv, Holding, Types
  <2>5. Holding'
    BY <1>1, <2>3, <2>4 DEF IInv, Holding, Types
  <2>6. Traffic'
    BY <1>1, <2>1, <2>3 DEF IInv, Traffic
  <2>7. Counting'
    BY <1>1, <1>3, <2>1, CountingKept DEF IInv, Types
  <2> QED
    BY <1>2, <2>2, <2>5, <2>6, <2>7 DEF IInv
<1>5. CASE \E w \in Windows : KeyExpires(w)
  <2> PICK w \in Windows : KeyExpires(w)
    BY <1>5
  <2>1. /\ count' = [count EXCEPT ![w] = 0]
        /\ ttl' = [ttl EXCEPT ![w] = FALSE]
        /\ expired' = [expired EXCEPT ![w] = TRUE]
        /\ UNCHANGED <<now, state>>
    BY DEF KeyExpires, timeVars, netVars
  <2>2. PoolBounded' /\ Holding' /\ Traffic'
    BY <1>1, <2>1 DEF IInv, PoolBounded, Idle, Holding, Traffic
  <2>3. /\ count \in [Windows -> Nat] /\ ttl \in [Windows -> BOOLEAN]
        /\ expired \in [Windows -> BOOLEAN] /\ win \in [Callers -> Windows]
    BY DEF IInv, Types
  <2>4. count' \in [Windows -> Nat] /\ ttl' \in [Windows -> BOOLEAN] /\ expired' \in [Windows -> BOOLEAN]
    BY <2>1, <2>3
  <2>5. Types'
    BY <1>1, <2>1, <2>4 DEF IInv, Types
  <2>6. ASSUME NEW x \in Windows
        PROVE  /\ x = w => count'[x] = 0 /\ expired'[x]
               /\ x # w => count'[x] = count[x] /\ expired'[x] = expired[x]
    BY <2>1, <2>3
  <2>7. \A x \in Windows : Cardinality(Executed(x)) \in Nat
    <3>1. \A x \in Windows : Executed(x) \in SUBSET Callers
      BY DEF Executed
    <3> QED
      BY <3>1, ExecutedSize
  <2>8. ASSUME NEW x \in Windows PROVE count'[x] <= Cardinality(Executed(x)')
    <3>1. Executed(x)' = Executed(x) /\ Cardinality(Executed(x)) \in Nat
      BY <1>3, <2>7
    <3>2. count[x] <= Cardinality(Executed(x))
      BY DEF IInv, Counting
    <3> QED
      BY <2>6, <3>1, <3>2
  <2>9. ASSUME NEW c \in Callers
        PROVE  /\ Number(c)' \in Nat /\ Number(c)' <= Cardinality(Executed(win[c])')
               /\ ~expired'[win'[c]] => Number(c)' <= count'[win'[c]]
    <3> PICK x \in Windows : x = win[c]
      BY <2>3
    <3>1. Executed(win[c])' = Executed(x)
      BY <1>1, <1>3
    <3>2. /\ Number(c) \in Nat /\ Number(c) <= Cardinality(Executed(x))
          /\ ~expired[x] => Number(c) <= count[x]
      BY DEF IInv, Counting
    <3> QED
      BY <1>1, <1>3, <2>6, <3>1, <3>2
  <2>10. ASSUME NEW c \in Callers, NEW d \in Callers, c # d, Number(c)' # 0,
                Number(c)' = Number(d)', win'[c] = win'[d]
         PROVE  expired'[win'[c]]
    <3>1. expired[win[c]] /\ win[c] \in Windows
      BY <1>1, <1>3, <2>3, <2>10 DEF IInv, Counting
    <3> QED
      BY <1>1, <2>6, <3>1
  <2>11. Counting'
    BY <2>8, <2>9, <2>10 DEF Counting
  <2> QED
    BY <1>2, <2>2, <2>5, <2>11 DEF IInv
<1>6. CASE NextWindow \/ UNCHANGED vars
  <2>1. /\ UNCHANGED <<count, ttl, expired, state>>
        /\ now' \in Windows
    BY <1>6, RateLimitAssumption DEF NextWindow, vars, timeVars, redisVars, netVars, IInv, Types, Windows
  <2>2. PoolBounded' /\ Holding' /\ Traffic' /\ Types'
    BY <1>1, <2>1 DEF IInv, PoolBounded, Idle, Holding, Traffic, Types
  <2>3. Counting'
    BY <1>1, <1>3, <2>1, CountingKept DEF IInv, Types
  <2> QED
    BY <1>2, <2>2, <2>3 DEF IInv
<1> QED
  BY <1>4, <1>5, <1>6

-----------------------------------------------------------------------------
\* The invariant and the properties

\* No step of a call, of Redis, of the network or of time breaks the invariant.
LEMMA StepInv == IInv /\ [Next]_vars => IInv'
<1> SUFFICES ASSUME IInv, [Next]_vars PROVE IInv'
  OBVIOUS
<1>1. ASSUME NEW c \in Callers, Enter(c) \/ Caller(c) PROVE IInv'
  <2>1. CASE Enter(c) \/ DialFails(c)
    BY <2>1, LocalStep
  <2>2. CASE SendIncr(c) \/ SendExpire(c)
    BY <2>2, SendStep
  <2>3. CASE ReadCount(c) \/ ReadExpire(c) \/ ReplyFails(c)
    BY <2>3, ReplyStep
  <2> QED
    BY <1>1, <2>1, <2>2, <2>3 DEF Caller
<1>2. CASE Redis
  BY <1>2, NotCounted, IncrStep, AsideStep DEF Redis
<1>3. CASE (\E w \in Windows : KeyExpires(w)) \/ NextWindow \/ UNCHANGED vars
  BY <1>3, AsideStep
<1> QED
  BY <1>1, <1>2, <1>3 DEF Next

\* The inductive invariant holds in every reachable state.
LEMMA Invariance == Spec => []IInv
BY InitInv, StepInv, PTL DEF Spec

\* Redis never counts further than there are calls, the pool keeps no more
\* than PoolSize connections, and exactly the callers that wait hold one.
THEOREM TypeCorrect == Spec => []TypeOK
<1>1. IInv => TypeOK
  <2> SUFFICES ASSUME IInv PROVE TypeOK
    OBVIOUS
  <2>1. ASSUME NEW w \in Windows
        PROVE  /\ Cardinality(Executed(w)) \in Nat /\ Cardinality(Callers) \in Nat
               /\ Cardinality(Executed(w)) <= Cardinality(Callers)
    <3>1. Callers \in SUBSET Callers /\ Executed(w) \in SUBSET Callers
      BY DEF Executed
    <3> QED
      BY <3>1, ExecutedSize
  <2>2. count \in [Windows -> 0..Cardinality(Callers)]
    <3>1. \A w \in Windows : count[w] \in 0..Cardinality(Callers)
      <4> TAKE w \in Windows
      <4>1. count[w] \in Nat /\ count[w] <= Cardinality(Executed(w))
        BY DEF IInv, Types, Counting
      <4> QED
        BY <2>1, <4>1
    <3> QED
      BY <3>1 DEF IInv, Types
  <2>3. got \in [Callers -> 0..Cardinality(Callers)]
    <3>1. \A c \in Callers : got[c] \in 0..Cardinality(Callers)
      <4> TAKE c \in Callers
      <4> PICK w \in Windows : w = win[c]
        BY DEF IInv, Types
      <4>1. got[c] = 0 \/ got[c] = Number(c)
        BY DEF IInv, Verdicts, Number
      <4>2. Number(c) \in Nat /\ Number(c) <= Cardinality(Executed(w))
        BY DEF IInv, Counting
      <4> QED
        BY <2>1, <4>1, <4>2
    <3> QED
      BY <3>1 DEF IInv, Types
  <2> QED
    BY <2>2, <2>3 DEF IInv, Types, PoolBounded, Holding, Waiting, Places, TypeOK
<1> QED
  BY <1>1, Invariance, PTL

\* No late reply is taken for the reply to another command: redis_client.go
\* never puts a connection back whose reply it has not read.
THEOREM RepliesAreOwnHolds == Spec => []RepliesAreOwn
<1>1. IInv => RepliesAreOwn
  <2> SUFFICES ASSUME IInv PROVE RepliesAreOwn
    OBVIOUS
  <2>1. ASSUME NEW k \in Conns, state[k] = "idle" PROVE pipe[k] = <<>> /\ replies[k] = <<>>
    <3>1. \A c \in Callers : conn[c] # k
      BY <2>1, RateLimitAssumption DEF IInv, Holding
    <3> QED
      BY <2>1, <3>1 DEF IInv, Traffic
  <2>2. ASSUME NEW c \in Callers, conn[c] # NoConn, NEW i \in 1..Len(replies[conn[c]])
        PROVE  replies[conn[c]][i][1] = c
    <3> PICK k \in Conns : k = conn[c]
      BY <2>2 DEF IInv, Types
    <3>1. replies[k] # <<>>
      BY <2>2
    <3>2. PICK d \in Callers, n \in Nat : replies[k] = << <<d, n>> >> /\ conn[d] = k
      BY <3>1 DEF IInv, Traffic
    <3>3. d = c
      BY <2>2, <3>2 DEF IInv, Holding
    <3>4. i = 1
      BY <2>2, <3>2
    <3> QED
      BY <3>2, <3>3, <3>4
  <2> QED
    BY <2>1, <2>2 DEF RepliesAreOwn
<1> QED
  BY <1>1, Invariance, PTL

\* The calls let through by their count have different numbers up to Limit.
THEOREM LimitRespectedHolds == Spec => []LimitRespected
<1>1. IInv => LimitRespected
  <2> SUFFICES ASSUME IInv, NEW w \in Windows, ~expired[w]
               PROVE  Cardinality({c \in Callers : win[c] = w /\ verdict[c] = "allowed"}) <= Limit
    BY DEF LimitRespected
  <2> DEFINE S == {c \in Callers : win[c] = w /\ verdict[c] = "allowed"}
  <2> DEFINE f == [c \in S |-> got[c]]
  <2>1. ASSUME NEW c \in S PROVE got[c] \in 1..Limit /\ Number(c) = got[c]
    BY DEF IInv, Verdicts, Number
  <2>2. ASSUME NEW c \in S, NEW d \in S, got[c] = got[d] PROVE c = d
    <3>1. Number(c) = Number(d) /\ Number(c) # 0
      BY <2>1, <2>2
    <3> QED
      BY <3>1 DEF IInv, Counting
  <2>3. f \in Injection(S, 1..Limit)
    BY <2>1, <2>2 DEF Injection, IsInjective
  <2>4. IsFiniteSet(1..Limit) /\ Cardinality(1..Limit) = Limit
    <3>1. Cardinality(1..Limit) = IF 1 > Limit THEN 0 ELSE Limit - 1 + 1
      BY FS_Interval, RateLimitAssumption
    <3> QED
      BY <3>1, FS_Interval, RateLimitAssumption
  <2>5. Cardinality(S) <= Cardinality(1..Limit)
    <3> HIDE DEF S, f
    <3> QED
      BY <2>3, <2>4, FS_Injection
  <2> QED
    BY <2>4, <2>5
<1> QED
  BY <1>1, Invariance, PTL

\* A rejected call has a number above Limit, and the number of a call is no
\* larger than the number of calls of its window.
THEOREM DenialJustifiedHolds == Spec => []DenialJustified
<1>1. IInv => DenialJustified
  <2> SUFFICES ASSUME IInv, NEW c \in Callers, verdict[c] = "denied"
               PROVE  Cardinality({d \in Callers : win[d] = win[c] /\ pc[d] # "new"}) > Limit
    BY DEF DenialJustified
  <2> PICK w \in Windows : w = win[c]
    BY DEF IInv, Types
  <2> DEFINE S == {d \in Callers : win[d] = win[c] /\ pc[d] # "new"}
  <2>1. Executed(w) \in SUBSET S /\ S \in SUBSET Callers
    BY DEF Executed
  <2>2. Cardinality(Executed(w)) <= Cardinality(S) /\ Cardinality(S) \in Nat /\ Cardinality(Executed(w)) \in Nat
    BY <2>1, ExecutedSize
  <2>3. got[c] > Limit /\ Number(c) = got[c]
    BY DEF IInv, Verdicts, Number
  <2>4. Number(c) \in Nat /\ Number(c) <= Cardinality(Executed(w))
    BY DEF IInv, Counting
  <2> QED
    BY <2>2, <2>3, <2>4, RateLimitAssumption
<1> QED
  BY <1>1, Invariance, PTL

-----------------------------------------------------------------------------
\* The limiter implements the counter that numbers calls in one step.

\* The abstract limiter counts as this module does.
LEMMA SameCardinality == ASSUME NEW S PROVE Limiter!Cardinality(S) = Cardinality(S)
BY DEF Limiter!Cardinality, Cardinality

\* A call returns with a verdict.
Decided == \A c \in Callers : pc[c] = "done" => verdict[c] # "none"

\* A step that writes one number, or none.
LEMMA OneNumber ==
  ASSUME NEW c \in Callers, NEW n, Number(c)' = n,
         \A d \in Callers : d # c => Number(d)' = Number(d)
  PROVE  numbers' = [numbers EXCEPT ![c] = n]
BY DEF numbers

\* The calls that have entered stay the same when a call that has goes on.
LEMMA SameEntered ==
  ASSUME IInv, NEW c \in Callers, NEW label \in Places \ {"new"}, pc[c] # "new",
         pc' = [pc EXCEPT ![c] = label]
  PROVE  {d \in Callers : pc[d] # "new"}' = {d \in Callers : pc[d] # "new"}
<1>1. pc \in [Callers -> Places]
  BY DEF IInv, Types
<1>2. \A d \in Callers : pc'[d] # "new" <=> pc[d] # "new"
  BY <1>1
<1> QED
  BY <1>2

\* A call enters.
LEMMA EnterImplements ==
  ASSUME IInv, Decided, NEW c \in Callers, Enter(c)
  PROVE  Limiter!Enter(c) /\ Decided'
<1>1. /\ pc[c] = "new" /\ win' = [win EXCEPT ![c] = now] /\ pc' = [pc EXCEPT ![c] = "incr"]
      /\ UNCHANGED <<now, count, replies, conn, got, verdict>>
  BY DEF Enter, Goto, timeVars, redisVars, netVars
<1>2. pc \in [Callers -> Places]
  BY DEF IInv, Types
<1>3. {d \in Callers : pc[d] # "new"}' = {d \in Callers : pc[d] # "new"} \cup {c}
  <2>1. \A d \in Callers : pc'[d] # "new" <=> pc[d] # "new" \/ d = c
    BY <1>1, <1>2
  <2> QED
    BY <2>1
<1>4. \A d \in Callers : Number(d)' = Number(d)
  BY <1>1, <1>2 DEF Number
<1>5. numbers' = numbers
  BY <1>4 DEF numbers
<1>6. Decided'
  BY <1>1, <1>2 DEF Decided
<1> QED
  BY <1>1, <1>3, <1>5, <1>6 DEF Limiter!Enter

\* A command is written: nothing is seen of it.
LEMMA SendImplements ==
  ASSUME IInv, Decided, NEW c \in Callers, SendIncr(c) \/ SendExpire(c)
  PROVE  UNCHANGED Limiter!absVars /\ Decided'
<1>1. /\ UNCHANGED <<now, count, replies, win, got, verdict>>
      /\ pc[c] \in {"incr", "expire"}
  BY DEF SendIncr, SendExpire, timeVars, redisVars
<1>2. PICK k \in Conns, label \in Waiting :
        /\ state[k] \in {"idle", "unused"}
        /\ conn' = [conn EXCEPT ![c] = k]
        /\ pc' = [pc EXCEPT ![c] = label]
  BY DEF SendIncr, SendExpire, Send, Idle, Goto, Waiting
<1>3. /\ conn \in [Callers -> Conns \cup {NoConn}] /\ NoConn \notin Conns /\ pc \in [Callers -> Places]
  BY RateLimitAssumption DEF IInv, Types
<1>4. replies[k] = <<>>
  <2>1. \A d \in Callers : conn[d] # k
    BY <1>2, <1>3 DEF IInv, Holding
  <2> QED
    BY <2>1 DEF IInv, Traffic
<1>5. \A d \in Callers : Number(d)' = Number(d)
  BY <1>1, <1>2, <1>3, <1>4 DEF Number
<1>6. numbers' = numbers
  BY <1>5 DEF numbers
<1>7. {d \in Callers : pc[d] # "new"}' = {d \in Callers : pc[d] # "new"}
  BY <1>1, <1>2, SameEntered DEF Waiting, Places
<1>8. Decided'
  BY <1>1, <1>2, <1>3 DEF Decided, Waiting
<1> QED
  BY <1>1, <1>6, <1>7, <1>8 DEF Limiter!absVars

\* A call that goes on without its connection has the number it read.
LEMMA LeaveConn ==
  ASSUME IInv, NEW c \in Callers, NEW label \in {"expire", "done"}, NEW g,
         \/ conn[c] # NoConn /\ replies' = [replies EXCEPT ![conn[c]] = <<>>]
              /\ conn' = [conn EXCEPT ![c] = NoConn]
         \/ pc[c] \notin {"new", "incr_reply"} /\ UNCHANGED <<replies, conn>>,
         pc' = [pc EXCEPT ![c] = label], got' = [got EXCEPT ![c] = g]
  PROVE  /\ numbers' = [numbers EXCEPT ![c] = g]
         /\ {d \in Callers : pc[d] # "new"}' = {d \in Callers : pc[d] # "new"}
<1>1. /\ conn \in [Callers -> Conns \cup {NoConn}] /\ NoConn \notin Conns
      /\ pc \in [Callers -> Places] /\ got \in [Callers -> Nat]
      /\ replies \in [Conns -> Seq(Callers \X Nat)]
  BY RateLimitAssumption DEF IInv, Types
<1>2. Number(c)' = g
  BY <1>1 DEF Number
<1>3. ASSUME NEW d \in Callers, d # c PROVE Number(d)' = Number(d)
  <2>1. pc'[d] = pc[d] /\ got'[d] = got[d] /\ conn'[d] = conn[d]
    BY <1>1, <1>3
  <2>2. pc[d] = "incr_reply" => conn[d] \in Conns /\ conn[d] # conn[c]
    BY <1>1, <1>3 DEF IInv, Holding, Waiting
  <2>3. pc[d] = "incr_reply" => replies'[conn[d]] = replies[conn[d]]
    BY <1>1, <2>2
  <2> QED
    BY <2>1, <2>3 DEF Number
<1>4. pc[c] # "new"
  BY DEF IInv, Holding, Waiting
<1> QED
  BY <1>2, <1>3, <1>4, OneNumber, SameEntered DEF Places

\* A call that returns: its number decides, or there is none.
LEMMA ReturnImplements ==
  ASSUME IInv, Decided, NEW c \in Callers, NEW n \in Nat, NEW g \in Nat, Number(c) = n, pc[c] # "new",
         verdict[c] = "none",
         numbers' = [numbers EXCEPT ![c] = g],
         {d \in Callers : pc[d] # "new"}' = {d \in Callers : pc[d] # "new"},
         UNCHANGED <<now, count, win>>,
         pc' = [pc EXCEPT ![c] = "done"],
         \/ g = n /\ n # 0 /\ verdict' = [verdict EXCEPT ![c] = IF n <= Limit THEN "allowed" ELSE "denied"]
         \/ g = 0 /\ verdict' = [verdict EXCEPT ![c] = "open"]
  PROVE  (Limiter!Decide(c) \/ Limiter!FailOpen(c)) /\ Decided'
<1>1. numbers[c] = n
  BY DEF numbers
<1>2. Decided'
  <2>1. verdict' \in [Callers -> {"none", "allowed", "denied", "open"}] /\ verdict'[c] # "none"
        /\ \A d \in Callers : d # c => verdict'[d] = verdict[d] /\ pc'[d] = pc[d]
    BY DEF IInv, Types
  <2> QED
    BY <2>1 DEF Decided
<1>3. CASE g = n /\ n # 0 /\ verdict' = [verdict EXCEPT ![c] = IF n <= Limit THEN "allowed" ELSE "denied"]
  <2>1. numbers' = numbers
    BY <1>1, <1>3 DEF numbers
  <2> QED
    BY <1>1, <1>2, <1>3, <2>1 DEF Limiter!Decide
<1>4. CASE g = 0 /\ verdict' = [verdict EXCEPT ![c] = "open"]
  BY <1>2, <1>4 DEF Limiter!FailOpen
<1> QED
  BY <1>3, <1>4

\* No connection.
LEMMA DialImplements ==
  ASSUME IInv, Decided, NEW c \in Callers, DialFails(c)
  PROVE  (Limiter!Decide(c) \/ Limiter!FailOpen(c)) /\ Decided'
<1>1. /\ UNCHANGED <<now, count, win, replies, conn, got>>
      /\ pc' = [pc EXCEPT ![c] = "done"] /\ pc[c] \in {"incr", "expire"}
  BY DEF DialFails, FailOpen, Decide, Goto, timeVars, redisVars, netVars
<1>2. /\ verdict[c] = "none" /\ Number(c) = got[c] /\ got[c] \in Nat
      /\ got \in [Callers -> Nat]
      /\ pc[c] = "incr" => got[c] = 0
      /\ pc[c] = "expire" => got[c] = 1
  BY <1>1 DEF IInv, Verdicts, Types, Number
<1>3. got' = [got EXCEPT ![c] = got[c]]
  BY <1>1, <1>2
<1>4. /\ numbers' = [numbers EXCEPT ![c] = got[c]]
      /\ {d \in Callers : pc[d] # "new"}' = {d \in Callers : pc[d] # "new"}
  BY <1>1, <1>3, LeaveConn
<1>5. \/ got[c] # 0 /\ verdict' = [verdict EXCEPT ![c] = IF got[c] <= Limit THEN "allowed" ELSE "denied"]
      \/ got[c] = 0 /\ verdict' = [verdict EXCEPT ![c] = "open"]
  BY <1>2 DEF DialFails, FailOpen, Decide
<1> QED
  BY <1>1, <1>2, <1>4, <1>5, ReturnImplements

\* A reply is read, or its deadline passes.
LEMMA ReplyImplements ==
  ASSUME IInv, Decided, NEW c \in Callers, ReadCount(c) \/ ReadExpire(c) \/ ReplyFails(c)
  PROVE  (Limiter!Decide(c) \/ Limiter!FailOpen(c) \/ UNCHANGED Limiter!absVars) /\ Decided'
<1>1. /\ pc[c] \in Waiting /\ conn[c] # NoConn /\ UNCHANGED <<now, count, win>>
      /\ conn' = [conn EXCEPT ![c] = NoConn]
  BY DEF ReadCount, ReadExpire, ReplyFails, Waiting, IInv, Holding, timeVars, redisVars, PutBack, Drop
<1>2. /\ conn[c] \in Conns
      /\ replies[conn[c]] = <<>> \/ \E n \in Nat : replies[conn[c]] = << <<c, n>> >>
  BY <1>1, Carries
<1>3. replies' = [replies EXCEPT ![conn[c]] = <<>>]
  <2>1. CASE ReplyFails(c)
    BY <2>1 DEF ReplyFails, Drop
  <2>2. CASE ReadCount(c) \/ ReadExpire(c)
    <3>1. PICK n \in Nat : replies[conn[c]] = << <<c, n>> >>
      BY <1>2, <2>2 DEF ReadCount, ReadExpire
    <3>2. Tail(replies[conn[c]]) = <<>>
      BY <3>1
    <3> QED
      BY <2>2, <3>2 DEF ReadCount, ReadExpire, PutBack
  <2> QED
    BY <2>1, <2>2
<1>4. /\ verdict[c] = "none" /\ got[c] \in Nat /\ got \in [Callers -> Nat] /\ Number(c) \in Nat
      /\ pc[c] = "incr_reply" => got[c] = 0
      /\ pc[c] = "expire_reply" => got[c] = 1 /\ Number(c) = got[c]
  BY <1>1 DEF IInv, Verdicts, Types, Number, Waiting, Counting
<1>5. CASE ReadCount(c)
  <2>1. PICK n \in Nat : replies[conn[c]] = << <<c, n>> >>
    BY <1>2, <1>5 DEF ReadCount
  <2>2. Head(replies[conn[c]])[2] = n /\ Number(c) = n
    BY <1>5, <2>1 DEF ReadCount, Number
  <2>3. /\ got' = [got EXCEPT ![c] = n]
        /\ \/ n = 0 /\ FailOpen(c)
           \/ n = 1 /\ Goto(c, "expire") /\ UNCHANGED verdict
           \/ n > 1 /\ Decide(c, n)
    BY <1>5, <2>2 DEF ReadCount, Refused
  <2>4. PICK label \in {"expire", "done"} :
          /\ pc' = [pc EXCEPT ![c] = label]
          /\ label = "expire" => verdict' = verdict
          /\ label = "done" =>
               \/ n # 0 /\ verdict' = [verdict EXCEPT ![c] = IF n <= Limit THEN "allowed" ELSE "denied"]
               \/ n = 0 /\ verdict' = [verdict EXCEPT ![c] = "open"]
    BY <2>3 DEF FailOpen, Decide, Goto
  <2>5. /\ numbers' = [numbers EXCEPT ![c] = n]
        /\ {d \in Callers : pc[d] # "new"}' = {d \in Callers : pc[d] # "new"}
    BY <1>1, <1>3, <2>3, <2>4, LeaveConn
  <2>6. CASE label = "done"
    BY <1>1, <1>4, <2>2, <2>4, <2>5, <2>6, ReturnImplements DEF Waiting
  <2>7. CASE label = "expire"
    <3>1. numbers' = numbers
      BY <2>2, <2>5 DEF numbers
    <3>2. Decided'
      BY <2>4, <2>7 DEF Decided, IInv, Types
    <3> QED
      BY <1>1, <2>4, <2>5, <2>7, <3>1, <3>2 DEF Limiter!absVars
  <2> QED
    BY <2>6, <2>7
<1>6. CASE ReadExpire(c) \/ ReplyFails(c)
  <2>1. /\ got' = got /\ pc' = [pc EXCEPT ![c] = "done"]
        /\ \/ /\ pc[c] = "expire_reply"
              /\ verdict' = [verdict EXCEPT ![c] = IF got[c] <= Limit THEN "allowed" ELSE "denied"]
           \/ pc[c] = "incr_reply" /\ verdict' = [verdict EXCEPT ![c] = "open"]
    BY <1>6 DEF ReadExpire, ReplyFails, Decide, FailOpen, Goto
  <2>2. got' = [got EXCEPT ![c] = got[c]]
    BY <1>4, <2>1
  <2>3. /\ numbers' = [numbers EXCEPT ![c] = got[c]]
        /\ {d \in Callers : pc[d] # "new"}' = {d \in Callers : pc[d] # "new"}
    BY <1>1, <1>3, <2>1, <2>2, LeaveConn
  <2>4. \/ /\ got[c] = Number(c) /\ got[c] # 0
           /\ verdict' = [verdict EXCEPT ![c] = IF Number(c) <= Limit THEN "allowed" ELSE "denied"]
        \/ got[c] = 0 /\ verdict' = [verdict EXCEPT ![c] = "open"]
    BY <1>4, <2>1
  <2> QED
    BY <1>1, <1>4, <2>1, <2>3, <2>4, ReturnImplements DEF Waiting
<1> QED
  BY <1>5, <1>6

\* INCR gives the call its number, unless the call has given up.
LEMMA IncrImplements ==
  ASSUME IInv, IInv', Decided, NEW k \in Conns, ExecuteIncr(k)
  PROVE  \E c \in Callers : Limiter!TakeNumber(c) \/ Limiter!LoseNumber(c)
<1>1. pipe[k] # <<>>
  BY DEF ExecuteIncr
<1>2. PICK m \in {"INCR", "EXPIRE"}, c \in Callers :
        /\ pipe[k] = << <<m, c>> >> /\ replies[k] = <<>>
        /\ Head(pipe[k]) = <<m, c>> /\ Tail(pipe[k]) = <<>>
        /\ \/ state[k] # "closed" /\ conn[c] = k
              /\ pc[c] = IF m = "INCR" THEN "incr_reply" ELSE "expire_reply"
           \/ state[k] = "closed" /\ (m = "INCR" => pc[c] = "done")
        /\ m = "INCR" => Number(c) = 0
  BY <1>1, Command
<1>3. m = "INCR" /\ Number(c) = 0
  BY <1>2 DEF ExecuteIncr
<1>4. PICK w \in Windows : w = win[c]
  BY DEF IInv, Types
<1>5. PICK n \in Nat : n = count[w]
  BY DEF IInv, Types
<1>6. /\ count' = [count EXCEPT ![w] = n + 1]
      /\ Answer(k, <<c, n + 1>>)
      /\ UNCHANGED <<now, win, verdict, pc, conn, got>>
  <2>1. Head(pipe[k])[2] = c
    BY <1>2
  <2>2. count' = [count EXCEPT ![win[c]] = @ + 1] /\ Answer(k, <<c, count[win[c]] + 1>>)
    BY <2>1, Zenon DEF ExecuteIncr
  <2>3. UNCHANGED <<now, win, verdict, pc, conn, got>>
    BY DEF ExecuteIncr, timeVars, callerVars
  <2> QED
    BY <1>4, <1>5, <2>2, <2>3
<1>7. /\ count \in [Windows -> Nat] /\ replies \in [Conns -> Seq(Callers \X Nat)]
      /\ conn \in [Callers -> Conns \cup {NoConn}] /\ NoConn \notin Conns
  BY RateLimitAssumption DEF IInv, Types
<1> DEFINE E == {d \in Callers : pc[d] # "new"}
<1>8. Limiter!Count(w)
  <2>1. Limiter!Calls(w) = {d \in E : win[d] = w}
    BY DEF Limiter!Calls
  <2>2. Executed(w)' \in SUBSET Limiter!Calls(w) /\ Limiter!Calls(w) \in SUBSET Callers
    BY <1>6, <2>1 DEF Executed
  <2>3. /\ Cardinality(Executed(w)') <= Cardinality(Limiter!Calls(w))
        /\ Cardinality(Executed(w)') \in Nat /\ Cardinality(Limiter!Calls(w)) \in Nat
    BY <2>2, ExecutedSize
  <2>4. count'[w] = n + 1 /\ count'[w] <= Cardinality(Executed(w)')
    BY <1>6, <1>7 DEF IInv, Counting
  <2>5. count[w] < Limiter!Cardinality(Limiter!Calls(w))
    BY <1>5, <2>3, <2>4, SameCardinality
  <2>6. count' = [count EXCEPT ![w] = @ + 1]
    BY <1>5, <1>6
  <2>7. UNCHANGED <<now, E, win, verdict>>
    BY <1>6
  <2> QED
    BY <2>5, <2>6, <2>7 DEF Limiter!Count
<1>9. ASSUME NEW d \in Callers, d # c PROVE Number(d)' = Number(d)
  <2>1. CASE pc[d] # "incr_reply"
    BY <1>6, <2>1 DEF Number
  <2>2. CASE pc[d] = "incr_reply"
    <3>1. conn[d] \in Conns
      BY <1>7, <2>2 DEF IInv, Holding, Waiting
    <3>2. conn[d] # k \/ replies' = replies
      BY <1>2, <1>6, <1>7, <1>9 DEF Answer, IInv, Holding
    <3>3. replies'[conn[d]] = replies[conn[d]]
      BY <1>6, <1>7, <3>1, <3>2 DEF Answer
    <3> QED
      BY <1>6, <3>3 DEF Number
  <2> QED
    BY <2>1, <2>2
<1>10. CASE state[k] = "closed"
  <2>1. replies' = replies
    BY <1>6, <1>10 DEF Answer
  <2>2. numbers' = numbers
    BY <1>6, <2>1 DEF numbers, Number
  <2>3. pc[c] = "done" /\ got[c] = 0
    BY <1>2, <1>3, <1>10 DEF Number
  <2>4. verdict[c] = "open"
    <3>1. verdict[c] \in {"none", "allowed", "denied", "open"}
      BY DEF IInv, Types
    <3>2. verdict[c] # "none"
      BY <2>3, Zenon DEF Decided
    <3>3. verdict[c] # "allowed"
      <4>1. verdict[c] = "allowed" => got[c] \in 1..Limit
        BY Zenon DEF IInv, Verdicts
      <4> QED
        BY <2>3, <4>1, RateLimitAssumption
    <3>4. verdict[c] # "denied"
      <4>1. verdict[c] = "denied" => got[c] > Limit
        BY Zenon DEF IInv, Verdicts
      <4> QED
        BY <2>3, <4>1, RateLimitAssumption
    <3> QED
      BY <3>1, <3>2, <3>3, <3>4
  <2>5. Limiter!LoseNumber(c)
    BY <1>4, <1>8, <2>2, <2>4 DEF Limiter!LoseNumber
  <2> QED
    BY <2>5
<1>11. CASE state[k] # "closed"
  <2>1. conn[c] = k /\ pc[c] = "incr_reply" /\ verdict[c] = "none"
    BY <1>2, <1>3, <1>11 DEF IInv, Verdicts
  <2>2. replies'[k] = << <<c, n + 1>> >>
    BY <1>2, <1>6, <1>7, <1>11 DEF Answer
  <2>3. Number(c)' = n + 1
    BY <1>6, <2>1, <2>2 DEF Number
  <2>4. numbers' = [numbers EXCEPT ![c] = n + 1]
    BY <1>9, <2>3, OneNumber
  <2>5. c \in E /\ numbers[c] = 0
    BY <1>3, <2>1 DEF numbers
  <2>6. Limiter!TakeNumber(c)
    BY <1>4, <1>5, <1>8, <2>1, <2>4, <2>5 DEF Limiter!TakeNumber
  <2> QED
    BY <2>6
<1> QED
  BY <1>10, <1>11

\* EXPIRE, a refused command or one that is lost give no number.
LEMMA OthersImplement ==
  ASSUME IInv, NEW k \in Conns, ExecuteExpire(k) \/ Refuse(k) \/ Discard(k)
  PROVE  UNCHANGED Limiter!absVars
<1>1. pipe[k] # <<>>
  BY DEF ExecuteExpire, Refuse, Discard
<1>2. PICK m \in {"INCR", "EXPIRE"}, c \in Callers :
        /\ pipe[k] = << <<m, c>> >> /\ replies[k] = <<>>
        /\ Head(pipe[k]) = <<m, c>>
        /\ \/ state[k] # "closed" /\ conn[c] = k
              /\ pc[c] = IF m = "INCR" THEN "incr_reply" ELSE "expire_reply"
           \/ state[k] = "closed"
        /\ m = "INCR" => Number(c) = 0
  BY <1>1, Command
<1>3. Head(pipe[k])[2] = c /\ Head(pipe[k])[1] = m
  BY <1>2
<1>4. /\ replies' = replies \/ Answer(k, <<c, 0>>)
      /\ UNCHANGED <<now, count, win, verdict, pc, conn, got>>
  BY <1>3 DEF ExecuteExpire, Refuse, Discard, Refused, timeVars, redisVars, callerVars
<1>5. /\ replies \in [Conns -> Seq(Callers \X Nat)]
      /\ conn \in [Callers -> Conns \cup {NoConn}] /\ NoConn \notin Conns
  BY RateLimitAssumption DEF IInv, Types
<1>6. ASSUME NEW d \in Callers PROVE Number(d)' = Number(d)
  <2>1. CASE pc[d] # "incr_reply" \/ replies' = replies
    BY <1>4, <2>1 DEF Number
  <2>2. CASE pc[d] = "incr_reply" /\ replies' # replies
    <3>1. conn[d] \in Conns
      BY <1>5, <2>2 DEF IInv, Holding, Waiting
    <3>2. state[k] # "closed" /\ replies' = [replies EXCEPT ![k] = << <<c, 0>> >>]
      BY <1>2, <1>4, <1>5, <2>2 DEF Answer
    <3>3. CASE conn[d] # k
      <4>1. replies'[conn[d]] = replies[conn[d]]
        BY <1>5, <3>1, <3>2, <3>3
      <4> QED
        BY <1>4, <4>1 DEF Number
    <3>4. CASE conn[d] = k
      <4>1. d = c
        BY <1>2, <1>5, <3>1, <3>2, <3>4 DEF IInv, Holding
      <4>2. m = "INCR"
        BY <1>2, <2>2, <3>2, <4>1
      <4>3. replies'[k] = << <<c, 0>> >>
        BY <1>5, <3>2
      <4>4. Number(c)' = 0
        BY <1>4, <2>2, <3>4, <4>1, <4>3 DEF Number
      <4> QED
        BY <1>2, <4>1, <4>2, <4>4
    <3> QED
      BY <3>3, <3>4
  <2> QED
    BY <2>1, <2>2
<1>7. numbers' = numbers
  BY <1>6 DEF numbers
<1>8. {d \in Callers : pc[d] # "new"}' = {d \in Callers : pc[d] # "new"}
  BY <1>4
<1> QED
  BY <1>4, <1>7, <1>8 DEF Limiter!absVars

\* Before any call the two specifications agree.
LEMMA InitImplements == Init => Limiter!Init /\ Decided
<1> SUFFICES ASSUME Init PROVE Limiter!Init /\ Decided
  OBVIOUS
<1>1. numbers = [c \in Callers |-> 0] /\ {c \in Callers : pc[c] # "new"} = {}
  BY DEF Init, numbers, Number
<1> QED
  BY <1>1 DEF Init, Limiter!Init, Limiter!Windows, Windows, Decided

\* Every step of a call, of Redis, of the network or of time is a step of the
\* abstract limiter or is not seen there.
LEMMA StepImplements ==
  IInv /\ IInv' /\ Decided /\ [Next]_vars => [Limiter!Next]_(Limiter!absVars) /\ Decided'
<1> SUFFICES ASSUME IInv, IInv', Decided, [Next]_vars
             PROVE  [Limiter!Next]_(Limiter!absVars) /\ Decided'
  OBVIOUS
<1>1. ASSUME NEW c \in Callers, Enter(c) \/ Caller(c)
      PROVE  /\ \/ Limiter!Enter(c) \/ Limiter!Decide(c) \/ Limiter!FailOpen(c)
                \/ UNCHANGED Limiter!absVars
             /\ Decided'
  <2>1. CASE Enter(c)
    BY <2>1, EnterImplements
  <2>2. CASE SendIncr(c) \/ SendExpire(c)
    BY <2>2, SendImplements
  <2>3. CASE DialFails(c)
    BY <2>3, DialImplements
  <2>4. CASE ReadCount(c) \/ ReadExpire(c) \/ ReplyFails(c)
    BY <2>4, ReplyImplements
  <2> QED
    BY <1>1, <2>1, <2>2, <2>3, <2>4 DEF Caller
<1>2. Redis \/ (\E w \in Windows : KeyExpires(w)) \/ NextWindow \/ UNCHANGED vars =>
        UNCHANGED <<pc, verdict>>
  BY DEF Redis, ExecuteIncr, ExecuteExpire, Refuse, Discard, Forget, KeyExpires, NextWindow, vars,
     callerVars
<1>3. UNCHANGED <<pc, verdict>> => Decided'
  BY DEF Decided
<1>4. ASSUME NEW k \in Conns, Forget(k) PROVE UNCHANGED Limiter!absVars
  <2>1. UNCHANGED <<now, count, replies, pc, win, conn, got, verdict>>
    BY <1>4 DEF Forget, timeVars, redisVars, callerVars
  <2> QED
    BY <2>1 DEF Limiter!absVars, numbers, Number
<1>5. CASE Redis
  <2>1. (\E c \in Callers : Limiter!TakeNumber(c) \/ Limiter!LoseNumber(c))
          \/ UNCHANGED Limiter!absVars
    BY <1>4, <1>5, IncrImplements, OthersImplement DEF Redis
  <2> QED
    BY <1>2, <1>3, <1>5, <2>1 DEF Limiter!Next
<1>6. ASSUME NEW w \in Windows, KeyExpires(w) PROVE Limiter!Forget(w) /\ w \in Limiter!Windows
  <2>1. /\ now > w /\ count' = [count EXCEPT ![w] = 0]
        /\ UNCHANGED <<now, replies, pc, win, conn, got, verdict>>
    BY <1>6 DEF KeyExpires, timeVars, netVars, callerVars
  <2>2. numbers' = numbers /\ {d \in Callers : pc[d] # "new"}' = {d \in Callers : pc[d] # "new"}
    BY <2>1 DEF numbers, Number
  <2> QED
    BY <2>1, <2>2 DEF Limiter!Forget, Limiter!Windows, Windows
<1>7. CASE NextWindow
  <2>1. /\ now < MaxWindow /\ now' = now + 1
        /\ UNCHANGED <<count, replies, pc, win, conn, got, verdict>>
    BY <1>7 DEF NextWindow, redisVars, netVars, callerVars
  <2>2. numbers' = numbers /\ {d \in Callers : pc[d] # "new"}' = {d \in Callers : pc[d] # "new"}
    BY <2>1 DEF numbers, Number
  <2> QED
    BY <1>2, <1>3, <1>7, <2>1, <2>2 DEF Limiter!NextWindow, Limiter!Next
<1>8. CASE UNCHANGED vars
  <2>1. UNCHANGED Limiter!absVars
    BY <1>8 DEF vars, timeVars, redisVars, netVars, callerVars, Limiter!absVars, numbers, Number
  <2> QED
    BY <1>2, <1>3, <1>8, <2>1
<1>9. CASE \E w \in Windows : KeyExpires(w)
  BY <1>2, <1>3, <1>6, <1>9 DEF Limiter!Next
<1>10. CASE \E c \in Callers : Enter(c) \/ Caller(c)
  BY <1>1, <1>10 DEF Limiter!Next
<1> QED
  BY <1>5, <1>7, <1>8, <1>9, <1>10 DEF Next

\* Whatever becomes of connections, commands and replies, the limiter behaves
\* as a counter that numbers the calls of a window in one step.
THEOREM ImplementsAbstract == Spec => Implements
<1>1. Spec => [](IInv /\ Decided)
  <2>1. IInv /\ Decided /\ [Next]_vars => (IInv /\ Decided)'
    BY StepInv, StepImplements
  <2> QED
    BY <2>1, InitInv, InitImplements, PTL DEF Spec
<1> QED
  BY <1>1, InitImplements, StepImplements, PTL DEF Spec, Implements, Limiter!Spec
=============================================================================
