------------------------ MODULE PredictServer_proofs ------------------------
(***************************************************************************)
(* Proofs about PredictServer, and with it WorkerPool, for any requests,   *)
(* workers, queue, retries and keys.                                       *)
(***************************************************************************)
EXTENDS PredictServer, FiniteSetTheorems, TLAPS

\* How far main is says what Shutdown has done, and whether handlers run.
Phases ==
  /\ closed <=> shutdown # "none"
  /\ chan = "closed" <=> shutdown \in {"waiting", "drained", "timeout"}
  /\ shutdown # "none" => main \notin {"serving", "http_drain"}
  /\ shutdown # "none" \/ main \in {"pool_drain", "redis_closed", "stopped"} =>
       \A j \in Jobs : handler[j] # "active"
  /\ main \in {"redis_closed", "stopped"} => shutdown = "drained"
  /\ shutdown = "drained" => AllWorkersGone

\* What the place of a worker says of the channel and of its job.
Working == \A w \in Workers :
  /\ wpc[w] \in {"idle", "gone"} <=> wjob[w] = NoJob
  /\ wpc[w] = "gone" => chan = "closed" /\ queue = <<>>
  /\ wpc[w] = "send" =>
       /\ outcome[w] # "none"
       /\ outcome[w] = "error" => attempt[wjob[w]] = MaxRetries \/ gone[wjob[w]]

\* A job is in one place: once in the queue, or with one worker, or answered.
OnePlace ==
  /\ \A i, k \in 1..Len(queue) : queue[i] = queue[k] => i = k
  /\ \A v, w \in Workers : wjob[v] = wjob[w] /\ wjob[v] # NoJob => v = w
  /\ \A j \in Jobs : Queued(j) => ~InHands(j)
  /\ \A j \in Jobs : Queued(j) \/ InHands(j) =>
       sub[j] = "accepted" /\ resultCh[j] = "empty"

\* How far the handler of a request is, in either mode.
Handling == \A j \in Jobs :
  /\ sub[j] \notin {"refused", "panic"}
  /\ sub[j] # "idle" => ~sync /\ handler[j] # "none"
  /\ resultCh[j] # "empty" => sync \/ sub[j] = "accepted"
  /\ handler[j] # "done" => reply[j] = "none"
  /\ handler[j] = "done" => reply[j] # "none" \/ gone[j]

\* What is stored under a key was answered to a request with that key.
CacheGenuine == \A k \in Keys :
  cache[k] # NoJob => resultCh[cache[k]] = "ok" /\ Key[cache[k]] = k

IInv ==
  /\ TypeOK /\ Phases /\ Working /\ OnePlace /\ Handling /\ CacheGenuine
  /\ NoJobLost /\ ErrorAfterAllRetries /\ AnswerIsGenuine

-----------------------------------------------------------------------------
\* What a receive does to the queue.
LEMMA TailFacts ==
  ASSUME NEW S, NEW q \in Seq(S), q # <<>>
  PROVE  /\ Head(q) = q[1] /\ Head(q) \in S /\ 1 \in 1..Len(q)
         /\ Tail(q) \in Seq(S) /\ Len(Tail(q)) = Len(q) - 1 /\ Len(q) \in Nat
         /\ \A i \in 1..Len(Tail(q)) : i + 1 \in 1..Len(q) /\ Tail(q)[i] = q[i + 1]
         /\ \A i \in 1..Len(q) : i = 1 \/ (i - 1 \in 1..Len(Tail(q)) /\ Tail(q)[i - 1] = q[i])
<1>1. Len(q) \in Nat /\ Len(q) # 0
  OBVIOUS
<1>2. Len(Tail(q)) = Len(q) - 1 /\ Tail(q) \in Seq(S)
  BY <1>1
<1>3. Head(q) = q[1] /\ 1 \in 1..Len(q)
  BY <1>1
<1>4. \A i \in 1..Len(Tail(q)) : i + 1 \in 1..Len(q) /\ Tail(q)[i] = q[i + 1]
  BY <1>1, <1>2
<1>5. \A i \in 1..Len(q) : i = 1 \/ (i - 1 \in 1..Len(Tail(q)) /\ Tail(q)[i - 1] = q[i])
  BY <1>1, <1>2, <1>4
<1> QED
  BY <1>1, <1>2, <1>3, <1>4, <1>5

\* What a send does to it.
LEMMA AppendFacts ==
  ASSUME NEW S, NEW q \in Seq(S), NEW x \in S
  PROVE  /\ Append(q, x) \in Seq(S) /\ Len(Append(q, x)) = Len(q) + 1 /\ Len(q) \in Nat
         /\ \A i \in 1..Len(q) : i \in 1..Len(Append(q, x)) /\ Append(q, x)[i] = q[i]
         /\ Len(q) + 1 \in 1..Len(Append(q, x)) /\ Append(q, x)[Len(q) + 1] = x
         /\ \A i \in 1..Len(Append(q, x)) : i \in 1..Len(q) \/ i = Len(q) + 1
OBVIOUS

\* The invariant holds when the process has started.
LEMMA InitInv == Init => IInv
<1> SUFFICES ASSUME Init PROVE IInv
  OBVIOUS
<1>1. PoolInit
  BY DEF Init
<1>2. queue = <<>> /\ Len(queue) = 0
  BY <1>1 DEF PoolInit
<1>3. TypeOK
  <2>1. queue \in Seq(Jobs) /\ Len(queue) <= QueueSize /\ attempt \in [Jobs -> 0..MaxRetries]
    BY <1>1, <1>2, WorkerPoolAssumption DEF PoolInit
  <2>2. gone \in [Jobs -> BOOLEAN] /\ closed \in BOOLEAN
    BY <1>1 DEF PoolInit
  <2>3. PoolTypeOK
    BY <1>1, <2>1, <2>2 DEF PoolInit, PoolTypeOK
  <2> QED
    BY <2>3 DEF Init, TypeOK
<1>4. Phases /\ Handling /\ CacheGenuine
  BY <1>1 DEF Init, PoolInit, Phases, Handling, CacheGenuine
<1>5. Working /\ OnePlace
  BY <1>1, <1>2, WorkerPoolAssumption DEF PoolInit, Working, OnePlace, Queued, InHands
<1>6. NoJobLost /\ ErrorAfterAllRetries /\ AnswerIsGenuine
  BY <1>1 DEF Init, PoolInit, NoJobLost, Queued, ErrorAfterAllRetries, AnswerIsGenuine
<1> QED
  BY <1>3, <1>4, <1>5, <1>6 DEF IInv

-----------------------------------------------------------------------------
\* The handler on its own goroutine

\* A step that leaves the pool alone leaves alone what is said of it.
LEMMA PoolKept ==
  ASSUME IInv, UNCHANGED poolVars
  PROVE  /\ PoolTypeOK' /\ Working' /\ OnePlace' /\ NoJobLost' /\ ErrorAfterAllRetries'
         /\ AllWorkersGone' = AllWorkersGone
<1> USE DEF poolVars, chanVars, workerVars
<1>1. PoolTypeOK'
  BY DEF IInv, TypeOK, PoolTypeOK
<1>2. Working' /\ AllWorkersGone' = AllWorkersGone
  BY DEF IInv, Working, AllWorkersGone
<1>3. OnePlace'
  BY DEF IInv, OnePlace, Queued, InHands
<1>4. NoJobLost' /\ ErrorAfterAllRetries'
  BY DEF IInv, NoJobLost, Queued, InHands, ErrorAfterAllRetries
<1> QED
  BY <1>1, <1>2, <1>3, <1>4

\* Every return of the handler: a response is written or the client has left,
\* and a 200 repeats an answer of the model service.
LEMMA ReturnStep ==
  ASSUME IInv, NEW j \in Jobs, NEW status \in {"none", "200", "400", "502", "503"},
         main \in {"serving", "http_drain"} \/ handler[j] = "active", handler[j] # "done",
         Return(j, status), UNCHANGED poolVars,
         status # "none" \/ gone[j],
         from' \in [Jobs -> Jobs \cup {NoJob}],
         \A i \in Jobs : i # j => from'[i] = from[i],
         status = "200" =>
           from'[j] # NoJob /\ resultCh[from'[j]] = "ok" /\ Key[from'[j]] = Key[j],
         cache' \in [Keys -> Jobs \cup {NoJob}],
         \A k \in Keys : cache'[k] \notin {NoJob, cache[k]} =>
           resultCh[cache'[k]] = "ok" /\ Key[cache'[k]] = k
  PROVE  IInv'
<1> USE DEF poolVars, chanVars, workerVars
<1>1. /\ handler' = [handler EXCEPT ![j] = "done"]
      /\ reply' = [reply EXCEPT ![j] = status]
      /\ sync' = sync /\ main' = main
  BY DEF Return
<1>2. /\ handler \in [Jobs -> {"none", "active", "done"}]
      /\ reply \in [Jobs -> {"none", "200", "400", "502", "503"}]
  BY DEF IInv, TypeOK
<1>3. TypeOK'
  BY <1>1, <1>2, PoolKept DEF IInv, TypeOK
<1>4. Phases'
  BY <1>1, <1>2, PoolKept DEF IInv, Phases
<1>5. Handling'
  BY <1>1, <1>2 DEF IInv, Handling
<1>6. CacheGenuine'
  BY DEF IInv, CacheGenuine
<1>7. AnswerIsGenuine'
  BY <1>1, <1>2 DEF IInv, AnswerIsGenuine
<1> QED
  BY <1>3, <1>4, <1>5, <1>6, <1>7, PoolKept DEF IInv

\* The steps of the handler but for the call of the pool or of the client.
LEMMA HandlerStep ==
  ASSUME IInv, NEW j \in Jobs,
         \/ Invalid(j) \/ Hit(j) \/ Miss(j) \/ Rejected(j)
         \/ Answered(j) \/ Failed(j) \/ Abandoned(j)
  PROVE  IInv'
<1>1. /\ from \in [Jobs -> Jobs \cup {NoJob}] /\ cache \in [Keys -> Jobs \cup {NoJob}]
      /\ handler \in [Jobs -> {"none", "active", "done"}] /\ Key[j] \in Keys
  BY PredictServerAssumption DEF IInv, TypeOK
<1>2. CASE Invalid(j)
  BY <1>1, <1>2, ReturnStep DEF Invalid, Arrives
<1>3. CASE Hit(j)
  <2>1. /\ Arrives(j) /\ Return(j, "200") /\ UNCHANGED poolVars /\ cache' = cache
        /\ from' = [from EXCEPT ![j] = cache[Key[j]]] /\ cache[Key[j]] # NoJob
    BY <1>3 DEF Hit
  <2>2. from'[j] # NoJob /\ resultCh[from'[j]] = "ok" /\ Key[from'[j]] = Key[j]
    BY <1>1, <2>1 DEF IInv, CacheGenuine
  <2> QED
    BY <1>1, <2>1, <2>2, ReturnStep DEF Arrives
<1>4. CASE Miss(j)
  <2>1. /\ handler[j] = "none" /\ main \in {"serving", "http_drain"}
        /\ handler' = [handler EXCEPT ![j] = "active"]
        /\ UNCHANGED poolVars /\ UNCHANGED <<sync, main, reply, from, cache>>
    BY <1>4 DEF Miss, Arrives
  <2>2. TypeOK'
    BY <1>1, <2>1, PoolKept DEF IInv, TypeOK
  <2>3. Phases'
    BY <1>1, <2>1, PoolKept DEF IInv, Phases, poolVars, chanVars
  <2>4. Handling'
    BY <1>1, <2>1 DEF IInv, Handling, poolVars
  <2>5. CacheGenuine' /\ AnswerIsGenuine'
    BY <2>1 DEF IInv, CacheGenuine, AnswerIsGenuine, poolVars
  <2> QED
    BY <2>1, <2>2, <2>3, <2>4, <2>5, PoolKept DEF IInv
<1>5. CASE Rejected(j)
  BY <1>1, <1>5, ReturnStep DEF Rejected
<1>6. CASE Answered(j)
  <2>1. /\ handler[j] = "active" /\ resultCh[j] = "ok" /\ Return(j, "200") /\ UNCHANGED poolVars
        /\ cache' \in {cache, [cache EXCEPT ![Key[j]] = j]} /\ from' = [from EXCEPT ![j] = j]
    BY <1>6 DEF Answered
  <2>2. /\ from' \in [Jobs -> Jobs \cup {NoJob}] /\ from'[j] = j /\ j # NoJob
        /\ \A i \in Jobs : i # j => from'[i] = from[i]
    BY <1>1, <2>1, WorkerPoolAssumption
  <2>3. /\ cache' \in [Keys -> Jobs \cup {NoJob}]
        /\ \A k \in Keys : cache'[k] \notin {NoJob, cache[k]} => cache'[k] = j /\ k = Key[j]
    BY <1>1, <2>1
  <2> QED
    BY <2>1, <2>2, <2>3, ReturnStep
<1>7. CASE Failed(j)
  BY <1>1, <1>7, ReturnStep DEF Failed
<1>8. CASE Abandoned(j)
  BY <1>1, <1>8, ReturnStep DEF Abandoned
<1> QED
  BY <1>2, <1>3, <1>4, <1>5, <1>6, <1>7, <1>8

\* predictSync: under SYNC_MODE no job is anywhere in the pool.
LEMMA PredictSyncStep ==
  ASSUME IInv, NEW j \in Jobs, PredictSync(j)
  PROVE  IInv'
<1>1. /\ handler[j] = "active" /\ sync /\ resultCh[j] = "empty"
      /\ UNCHANGED <<chanVars, sub, wpc, wjob, outcome, gone, shutdown, serverVars>>
  BY DEF PredictSync
<1>2. PICK n \in 0..MaxRetries : attempt' = [attempt EXCEPT ![j] = n]
  BY DEF PredictSync
<1>3. /\ attempt \in [Jobs -> 0..MaxRetries] /\ resultCh \in [Jobs -> {"empty", "ok", "error"}]
      /\ wjob \in [Workers -> Jobs \cup {NoJob}]
  BY DEF IInv, TypeOK, PoolTypeOK
<1>4. PICK v \in {"ok", "error"} :
        /\ resultCh' = [resultCh EXCEPT ![j] = v]
        /\ v = "error" => attempt'[j] = MaxRetries \/ gone[j]
  BY DEF PredictSync
<1>5. sub[j] = "idle" /\ ~Queued(j) /\ ~InHands(j)
  BY <1>1 DEF IInv, Handling, OnePlace
<1>6. TypeOK'
  <2>1. attempt' \in [Jobs -> 0..MaxRetries] /\ resultCh' \in [Jobs -> {"empty", "ok", "error"}]
    BY <1>2, <1>3, <1>4
  <2>2. PoolTypeOK'
    BY <1>1, <2>1 DEF IInv, TypeOK, PoolTypeOK, chanVars
  <2> QED
    BY <1>1, <2>2 DEF IInv, TypeOK, serverVars
<1>7. Phases' /\ Handling'
  BY <1>1, <1>3, <1>4 DEF IInv, Phases, Handling, AllWorkersGone, chanVars, serverVars
<1>8. Working'
  <2>1. \A w \in Workers : wjob[w] # NoJob => wjob[w] # j /\ wjob[w] \in Jobs
    BY <1>3, <1>5 DEF InHands
  <2> QED
    BY <1>1, <1>2, <1>3, <2>1 DEF IInv, Working, chanVars
<1>9. OnePlace'
  <2>1. \A i \in Jobs : /\ Queued(i)' <=> Queued(i)
                        /\ InHands(i)' <=> InHands(i)
                        /\ i # j => resultCh'[i] = resultCh[i]
    BY <1>1, <1>3, <1>4 DEF Queued, InHands, chanVars
  <2> QED
    BY <1>1, <1>5, <2>1 DEF IInv, OnePlace, chanVars
<1>10. CacheGenuine' /\ AnswerIsGenuine'
  BY <1>1, <1>3, <1>4 DEF IInv, TypeOK, CacheGenuine, AnswerIsGenuine, serverVars
<1>11. NoJobLost'
  BY <1>1, <1>3, <1>4, <1>5 DEF IInv, NoJobLost, Queued, InHands, chanVars
<1>12. ErrorAfterAllRetries'
  BY <1>1, <1>2, <1>3, <1>4 DEF IInv, ErrorAfterAllRetries
<1> QED
  BY <1>6, <1>7, <1>8, <1>9, <1>10, <1>11, <1>12 DEF IInv

\* The first half of Submit: while a handler runs the flag is not set.
LEMMA CheckClosedStep ==
  ASSUME IInv, NEW j \in Jobs, handler[j] = "active", ~sync, CheckClosed(j),
         UNCHANGED serverVars
  PROVE  IInv'
<1>1. /\ sub[j] = "idle" /\ sub' = [sub EXCEPT ![j] = "checked"]
      /\ UNCHANGED <<chanVars, workerVars, resultCh, gone, shutdown>>
  BY DEF CheckClosed, IInv, Phases
<1>2. /\ ~Queued(j) /\ ~InHands(j)
      /\ sub \in [Jobs -> {"idle", "checked", "accepted", "full", "refused", "panic"}]
  BY <1>1 DEF IInv, OnePlace, TypeOK, PoolTypeOK
<1>3. TypeOK'
  BY <1>1, <1>2 DEF IInv, TypeOK, PoolTypeOK, chanVars, workerVars, serverVars
<1>4. Phases' /\ Working' /\ CacheGenuine' /\ AnswerIsGenuine' /\ ErrorAfterAllRetries'
  BY <1>1 DEF IInv, Phases, AllWorkersGone, Working, CacheGenuine, AnswerIsGenuine,
     ErrorAfterAllRetries, chanVars, workerVars, serverVars
<1>5. OnePlace'
  BY <1>1, <1>2 DEF IInv, OnePlace, Queued, InHands, chanVars, workerVars
<1>6. Handling'
  BY <1>1, <1>2 DEF IInv, Handling, serverVars
<1>7. NoJobLost'
  BY <1>1, <1>2 DEF IInv, NoJobLost, Queued, InHands, chanVars, workerVars
<1> QED
  BY <1>3, <1>4, <1>5, <1>6, <1>7 DEF IInv

\* The second half: the channel is open, and a job that enters the queue was
\* in no place before.
LEMMA TrySendStep ==
  ASSUME IInv, NEW j \in Jobs, handler[j] = "active", ~sync, TrySend(j),
         UNCHANGED serverVars
  PROVE  IInv'
<1>1. /\ sub[j] = "checked" /\ chan = "open"
      /\ UNCHANGED <<closed, chan, workerVars, resultCh, gone, shutdown>>
  BY DEF TrySend, IInv, TypeOK, PoolTypeOK, Phases
<1>2. /\ sub \in [Jobs -> {"idle", "checked", "accepted", "full", "refused", "panic"}]
      /\ queue \in Seq(Jobs) /\ Len(queue) \in Nat /\ QueueSize \in Nat /\ Len(queue) <= QueueSize
      /\ ~Queued(j) /\ ~InHands(j)
  BY <1>1, WorkerPoolAssumption DEF IInv, TypeOK, PoolTypeOK, OnePlace
<1>3. Phases' /\ CacheGenuine' /\ AnswerIsGenuine' /\ ErrorAfterAllRetries'
  BY <1>1 DEF IInv, Phases, AllWorkersGone, CacheGenuine, AnswerIsGenuine,
     ErrorAfterAllRetries, workerVars, serverVars
<1>4. Working'
  BY <1>1 DEF IInv, Working, workerVars
<1>5. CASE ~(Len(queue) < QueueSize)
  <2>1. queue' = queue /\ sub' = [sub EXCEPT ![j] = "full"]
    BY <1>1, <1>5 DEF TrySend
  <2>2. TypeOK'
    BY <1>1, <1>2, <2>1 DEF IInv, TypeOK, PoolTypeOK, workerVars, serverVars
  <2>3. OnePlace'
    BY <1>1, <1>2, <2>1 DEF IInv, OnePlace, Queued, InHands, workerVars
  <2>4. Handling' /\ NoJobLost'
    BY <1>1, <1>2, <2>1 DEF IInv, Handling, NoJobLost, Queued, InHands, workerVars, serverVars
  <2> QED
    BY <1>3, <1>4, <2>2, <2>3, <2>4 DEF IInv
<1>6. CASE Len(queue) < QueueSize
  <2>1. queue' = Append(queue, j) /\ sub' = [sub EXCEPT ![j] = "accepted"]
    BY <1>1, <1>2, <1>6 DEF TrySend
  <2>2. /\ queue' \in Seq(Jobs) /\ Len(queue') = Len(queue) + 1
        /\ \A i \in 1..Len(queue) : i \in 1..Len(queue') /\ queue'[i] = queue[i]
        /\ Len(queue) + 1 \in 1..Len(queue') /\ queue'[Len(queue) + 1] = j
        /\ \A i \in 1..Len(queue') : i \in 1..Len(queue) \/ i = Len(queue) + 1
    BY <1>2, <2>1, AppendFacts
  <2>3. \A i \in Jobs : /\ Queued(i)' <=> Queued(i) \/ i = j
                        /\ InHands(i)' <=> InHands(i)
    BY <1>1, <1>2, <2>2 DEF Queued, InHands, workerVars
  <2>4. TypeOK'
    BY <1>1, <1>2, <1>6, <2>1, <2>2 DEF IInv, TypeOK, PoolTypeOK, workerVars, serverVars
  <2>5. OnePlace'
    <3>1. \A i, k \in 1..Len(queue') : queue'[i] = queue'[k] => i = k
      BY <1>2, <2>2 DEF IInv, OnePlace, Queued
    <3>2. resultCh[j] = "empty"
      BY <1>1 DEF IInv, Handling, OnePlace
    <3> QED
      BY <1>1, <1>2, <2>1, <2>3, <3>1, <3>2 DEF IInv, OnePlace, workerVars
  <2>6. Handling'
    BY <1>1, <1>2, <2>1 DEF IInv, Handling, serverVars
  <2>7. NoJobLost'
    BY <1>1, <1>2, <2>1, <2>3 DEF IInv, NoJobLost, Queued, workerVars
  <2> QED
    BY <1>3, <1>4, <2>4, <2>5, <2>6, <2>7 DEF IInv
<1> QED
  BY <1>5, <1>6

\* A client that leaves only weakens what is owed to it.
LEMMA ClientLeavesStep ==
  ASSUME IInv, NEW j \in Jobs, ClientLeaves(j)
  PROVE  IInv'
<1>1. /\ gone' = [gone EXCEPT ![j] = TRUE]
      /\ UNCHANGED <<chanVars, sub, workerVars, resultCh, shutdown, serverVars>>
  BY DEF ClientLeaves, CallerGone
<1>2. gone \in [Jobs -> BOOLEAN]
  BY DEF IInv, TypeOK, PoolTypeOK
<1>3. gone' \in [Jobs -> BOOLEAN] /\ \A i \in Jobs : gone[i] => gone'[i]
  BY <1>1, <1>2
<1>4. TypeOK'
  BY <1>1, <1>3 DEF IInv, TypeOK, PoolTypeOK, chanVars, workerVars, serverVars
<1>5. Phases' /\ CacheGenuine' /\ AnswerIsGenuine' /\ OnePlace'
  BY <1>1 DEF IInv, Phases, AllWorkersGone, CacheGenuine, AnswerIsGenuine, OnePlace, Queued,
     InHands, chanVars, workerVars, serverVars
<1>6. Working'
  <2>1. \A w \in Workers : wpc[w] = "send" => wjob[w] \in Jobs
    BY DEF IInv, Working, TypeOK, PoolTypeOK
  <2> QED
    BY <1>1, <1>3, <2>1 DEF IInv, Working, chanVars, workerVars
<1>7. Handling' /\ NoJobLost' /\ ErrorAfterAllRetries'
  BY <1>1, <1>3 DEF IInv, Handling, NoJobLost, Queued, InHands, ErrorAfterAllRetries, chanVars,
     workerVars, serverVars
<1> QED
  BY <1>4, <1>5, <1>6, <1>7 DEF IInv

\* An entry expires.
LEMMA ExpireStep ==
  ASSUME IInv, NEW k \in Keys, Expire(k)
  PROVE  IInv'
<1>1. /\ cache' = [cache EXCEPT ![k] = NoJob]
      /\ UNCHANGED <<poolVars, sync, main, handler, reply, from>>
  BY DEF Expire
<1>2. cache \in [Keys -> Jobs \cup {NoJob}]
  BY DEF IInv, TypeOK
<1>3. TypeOK' /\ Phases'
  BY <1>1, <1>2, PoolKept DEF IInv, TypeOK, Phases, poolVars, chanVars
<1>4. Handling' /\ CacheGenuine' /\ AnswerIsGenuine'
  BY <1>1, <1>2 DEF IInv, Handling, CacheGenuine, AnswerIsGenuine, poolVars
<1> QED
  BY <1>1, <1>3, <1>4, PoolKept DEF IInv

-----------------------------------------------------------------------------
\* The workers

\* The job of a worker was accepted, is not answered, and nobody else has it.
LEMMA HeldJob ==
  ASSUME IInv, NEW w \in Workers, wpc[w] \notin {"idle", "gone"}
  PROVE  /\ wjob[w] \in Jobs /\ wjob[w] # NoJob
         /\ sub[wjob[w]] = "accepted" /\ resultCh[wjob[w]] = "empty"
         /\ ~Queued(wjob[w])
         /\ \A v \in Workers : v # w => wjob[v] # wjob[w]
<1>1. wjob[w] \in Jobs /\ wjob[w] # NoJob
  BY DEF IInv, TypeOK, PoolTypeOK, Working
<1>2. InHands(wjob[w])
  BY DEF InHands
<1> QED
  BY <1>1, <1>2 DEF IInv, OnePlace

\* What no worker touches.
LEMMA OutsideKept ==
  ASSUME IInv, UNCHANGED OutsideWorker, UNCHANGED serverVars,
         \A v \in Workers : wpc[v] = "gone" => wpc'[v] = "gone"
  PROVE  Phases'
BY DEF IInv, Phases, AllWorkersGone, OutsideWorker, serverVars

\* A receive moves the first job of the queue to the worker.
LEMMA TakeJobStep ==
  ASSUME IInv, NEW w \in Workers, TakeJob(w), UNCHANGED serverVars
  PROVE  IInv'
<1>1. /\ wpc[w] = "idle" /\ queue # <<>> /\ queue' = Tail(queue)
      /\ wjob' = [wjob EXCEPT ![w] = Head(queue)] /\ wpc' = [wpc EXCEPT ![w] = "retry"]
      /\ UNCHANGED <<OutsideWorker, outcome, attempt, resultCh>>
  BY DEF TakeJob, Move
<1>2. /\ queue \in Seq(Jobs) /\ Len(queue) <= QueueSize
      /\ wjob \in [Workers -> Jobs \cup {NoJob}]
      /\ wpc \in [Workers -> {"idle", "retry", "call", "backoff", "send", "gone"}]
  BY DEF IInv, TypeOK, PoolTypeOK
<1> PICK j \in Jobs : j = Head(queue)
  BY <1>1, <1>2, TailFacts
<1>3. /\ j = queue[1] /\ 1 \in 1..Len(queue) /\ wjob' = [wjob EXCEPT ![w] = j]
      /\ queue' \in Seq(Jobs) /\ Len(queue') = Len(queue) - 1 /\ Len(queue) \in Nat
      /\ \A i \in 1..Len(queue') : i + 1 \in 1..Len(queue) /\ queue'[i] = queue[i + 1]
      /\ \A i \in 1..Len(queue) : i = 1 \/ (i - 1 \in 1..Len(queue') /\ queue'[i - 1] = queue[i])
  BY <1>1, <1>2, TailFacts
<1>4. Queued(j) /\ ~InHands(j) /\ j # NoJob
  BY <1>3, WorkerPoolAssumption DEF Queued, IInv, OnePlace
<1>5. ~Queued(j)'
  <2>1. SUFFICES ASSUME NEW i \in 1..Len(queue'), queue'[i] = j PROVE FALSE
    BY DEF Queued
  <2>2. i + 1 \in 1..Len(queue) /\ queue[i + 1] = queue[1]
    BY <1>3, <2>1
  <2>3. i + 1 = 1
    BY <1>3, <2>2 DEF IInv, OnePlace
  <2> QED
    BY <1>3, <2>1, <2>3
<1>6. \A i \in Jobs : i # j => /\ Queued(i)' <=> Queued(i)
                               /\ InHands(i)' <=> InHands(i)
  <2>1. ASSUME NEW i \in Jobs, i # j PROVE Queued(i)' <=> Queued(i)
    BY <1>3, <2>1 DEF Queued
  <2>2. ASSUME NEW i \in Jobs, i # j PROVE InHands(i)' <=> InHands(i)
    <3>1. wjob[w] = NoJob /\ i # NoJob
      BY <1>1, WorkerPoolAssumption DEF IInv, Working
    <3> QED
      BY <1>1, <1>2, <1>3, <2>2, <3>1 DEF InHands
  <2> QED
    BY <2>1, <2>2
<1>7. InHands(j)'
  BY <1>2, <1>3 DEF InHands
<1>8. TypeOK'
  <2>1. wjob' \in [Workers -> Jobs \cup {NoJob}] /\ Len(queue') <= QueueSize
        /\ wpc' \in [Workers -> {"idle", "retry", "call", "backoff", "send", "gone"}]
    BY <1>1, <1>2, <1>3, WorkerPoolAssumption
  <2> QED
    BY <1>1, <1>3, <2>1 DEF IInv, TypeOK, PoolTypeOK, OutsideWorker, serverVars
<1>9. Phases'
  BY <1>1, <1>2, OutsideKept
<1>10. Working'
  BY <1>1, <1>2, <1>3, <1>4 DEF IInv, Working, OutsideWorker
<1>11. OnePlace'
  <2>1. \A i, k \in 1..Len(queue') : queue'[i] = queue'[k] => i = k
    BY <1>3 DEF IInv, OnePlace
  <2>2. \A u, v \in Workers : wjob'[u] = wjob'[v] /\ wjob'[u] # NoJob => u = v
    BY <1>2, <1>3, <1>4 DEF IInv, OnePlace, InHands
  <2>3. \A i \in Jobs : Queued(i)' => ~InHands(i)'
    BY <1>5, <1>6 DEF IInv, OnePlace
  <2>4. \A i \in Jobs : Queued(i)' \/ InHands(i)' => sub'[i] = "accepted" /\ resultCh'[i] = "empty"
    BY <1>1, <1>4, <1>6 DEF IInv, OnePlace, OutsideWorker
  <2> QED
    BY <2>1, <2>2, <2>3, <2>4 DEF OnePlace
<1>12. Handling' /\ CacheGenuine' /\ AnswerIsGenuine' /\ ErrorAfterAllRetries'
  BY <1>1 DEF IInv, Handling, CacheGenuine, AnswerIsGenuine, ErrorAfterAllRetries,
     OutsideWorker, serverVars
<1>13. NoJobLost'
  BY <1>1, <1>6, <1>7 DEF IInv, NoJobLost, Queued, OutsideWorker
<1> QED
  BY <1>8, <1>9, <1>10, <1>11, <1>12, <1>13 DEF IInv

\* A step of a worker that keeps its job and leaves queue and results alone.
LEMMA KeepJobStep ==
  ASSUME IInv, NEW w \in Workers, UNCHANGED serverVars,
         UNCHANGED <<OutsideWorker, queue, wjob, resultCh>>,
         wpc[w] \notin {"idle", "gone"},
         NEW label \in {"retry", "call", "backoff", "send"},
         wpc' = [wpc EXCEPT ![w] = label],
         outcome' \in [Workers -> {"none", "ok", "error"}],
         \A v \in Workers : v # w => outcome'[v] = outcome[v],
         attempt' \in [Jobs -> 0..MaxRetries],
         \A i \in Jobs : i # wjob[w] => attempt'[i] = attempt[i],
         label = "send" => /\ outcome'[w] # "none"
                           /\ outcome'[w] = "error" =>
                                attempt'[wjob[w]] = MaxRetries \/ gone[wjob[w]]
  PROVE  IInv'
<1>1. wpc \in [Workers -> {"idle", "retry", "call", "backoff", "send", "gone"}]
  BY DEF IInv, TypeOK, PoolTypeOK
<1>2. /\ wjob[w] \in Jobs /\ wjob[w] # NoJob /\ resultCh[wjob[w]] = "empty"
      /\ \A v \in Workers : v # w => wjob[v] # wjob[w]
  BY HeldJob
<1>3. TypeOK'
  BY <1>1 DEF IInv, TypeOK, PoolTypeOK, OutsideWorker, serverVars
<1>4. Phases'
  BY <1>1, OutsideKept
<1>5. Working'
  <2>1. \A v \in Workers : wpc[v] = "send" => wjob[v] \in Jobs
    BY HeldJob
  <2> QED
    BY <1>1, <1>2, <2>1 DEF IInv, Working, OutsideWorker
<1>6. OnePlace' /\ Handling' /\ CacheGenuine' /\ AnswerIsGenuine' /\ NoJobLost'
  BY DEF IInv, OnePlace, Queued, InHands, Handling, CacheGenuine, AnswerIsGenuine, NoJobLost,
     OutsideWorker, serverVars
<1>7. ErrorAfterAllRetries'
  BY <1>2 DEF IInv, ErrorAfterAllRetries, OutsideWorker
<1> QED
  BY <1>3, <1>4, <1>5, <1>6, <1>7 DEF IInv

\* The steps of Predict.
LEMMA PredictStep ==
  ASSUME IInv, NEW w \in Workers, UNCHANGED serverVars,
         \/ StartAttempt(w) \/ AttemptAnswered(w) \/ AttemptFailed(w)
         \/ BackoffOver(w) \/ BackoffCut(w)
  PROVE  IInv'
<1>1. /\ wpc[w] \notin {"idle", "gone"}
      /\ UNCHANGED <<OutsideWorker, queue, wjob, resultCh>>
  BY DEF StartAttempt, AttemptAnswered, AttemptFailed, BackoffOver, BackoffCut
<1>2. /\ wjob[w] \in Jobs /\ MaxRetries \in Nat
      /\ outcome \in [Workers -> {"none", "ok", "error"}]
      /\ attempt \in [Jobs -> 0..MaxRetries]
  BY <1>1, HeldJob, WorkerPoolAssumption DEF IInv, TypeOK, PoolTypeOK
<1>3. CASE StartAttempt(w)
  <2>1. CASE attempt[wjob[w]] = MaxRetries \/ gone[wjob[w]]
    <3>1. /\ wpc' = [wpc EXCEPT ![w] = "send"] /\ attempt' = attempt
          /\ outcome' = [outcome EXCEPT ![w] = "error"]
      BY <1>3, <2>1 DEF StartAttempt, Conclude, Move
    <3> QED
      BY <1>1, <1>2, <2>1, <3>1, KeepJobStep
  <2>2. CASE ~(attempt[wjob[w]] = MaxRetries \/ gone[wjob[w]])
    <3>1. /\ wpc' = [wpc EXCEPT ![w] = "call"] /\ outcome' = outcome
          /\ attempt' = [attempt EXCEPT ![wjob[w]] = @ + 1]
      BY <1>3, <2>2 DEF StartAttempt, Move
    <3>2. attempt' \in [Jobs -> 0..MaxRetries]
      BY <1>2, <2>2, <3>1
    <3> QED
      BY <1>1, <1>2, <3>1, <3>2, KeepJobStep
  <2> QED
    BY <2>1, <2>2
<1>4. CASE AttemptAnswered(w)
  <2>1. /\ wpc' = [wpc EXCEPT ![w] = "send"] /\ attempt' = attempt
        /\ outcome' = [outcome EXCEPT ![w] = "ok"]
    BY <1>4 DEF AttemptAnswered, Conclude, Move
  <2> QED
    BY <1>1, <1>2, <2>1, KeepJobStep
<1>5. CASE AttemptFailed(w)
  <2>1. CASE attempt[wjob[w]] < MaxRetries
    <3>1. wpc' = [wpc EXCEPT ![w] = "backoff"] /\ attempt' = attempt /\ outcome' = outcome
      BY <1>5, <2>1 DEF AttemptFailed, Move
    <3> QED
      BY <1>1, <1>2, <3>1, KeepJobStep
  <2>2. CASE ~(attempt[wjob[w]] < MaxRetries)
    <3>1. /\ wpc' = [wpc EXCEPT ![w] = "send"] /\ attempt' = attempt
          /\ outcome' = [outcome EXCEPT ![w] = "error"]
      BY <1>5, <2>2 DEF AttemptFailed, Conclude, Move
    <3>2. attempt'[wjob[w]] = MaxRetries
      BY <1>2, <2>2, <3>1
    <3> QED
      BY <1>1, <1>2, <3>1, <3>2, KeepJobStep
  <2> QED
    BY <2>1, <2>2
<1>6. CASE BackoffOver(w)
  <2>1. wpc' = [wpc EXCEPT ![w] = "retry"] /\ attempt' = attempt /\ outcome' = outcome
    BY <1>6 DEF BackoffOver, Move
  <2> QED
    BY <1>1, <1>2, <2>1, KeepJobStep
<1>7. CASE BackoffCut(w)
  <2>1. /\ wpc' = [wpc EXCEPT ![w] = "send"] /\ attempt' = attempt
        /\ outcome' = [outcome EXCEPT ![w] = "error"] /\ gone[wjob[w]]
    BY <1>7 DEF BackoffCut, Conclude, Move
  <2> QED
    BY <1>1, <1>2, <2>1, KeepJobStep
<1> QED
  BY <1>3, <1>4, <1>5, <1>6, <1>7

\* The job leaves the worker: answered, or dropped as its caller is gone.
LEMMA ReleaseStep ==
  ASSUME IInv, NEW w \in Workers, UNCHANGED serverVars, SendResult(w) \/ DropResult(w)
  PROVE  IInv'
<1> DEFINE j == wjob[w]
<1>1. /\ wpc[w] = "send" /\ wjob' = [wjob EXCEPT ![w] = NoJob]
      /\ outcome' = [outcome EXCEPT ![w] = "none"] /\ wpc' = [wpc EXCEPT ![w] = "idle"]
      /\ UNCHANGED <<OutsideWorker, queue, attempt>>
  BY DEF SendResult, DropResult, Release, Move
<1>2. /\ wjob \in [Workers -> Jobs \cup {NoJob}] /\ outcome \in [Workers -> {"none", "ok", "error"}]
      /\ wpc \in [Workers -> {"idle", "retry", "call", "backoff", "send", "gone"}]
      /\ resultCh \in [Jobs -> {"empty", "ok", "error"}]
  BY DEF IInv, TypeOK, PoolTypeOK
<1>3. /\ j \in Jobs /\ j # NoJob /\ sub[j] = "accepted" /\ resultCh[j] = "empty" /\ ~Queued(j)
      /\ \A v \in Workers : v # w => wjob[v] # j
  BY <1>1, HeldJob
<1>4. /\ outcome[w] \in {"ok", "error"}
      /\ outcome[w] = "error" => attempt[j] = MaxRetries \/ gone[j]
  BY <1>1, <1>2 DEF IInv, Working
<1>5. \/ resultCh' = [resultCh EXCEPT ![j] = outcome[w]]
      \/ resultCh' = resultCh /\ gone[j]
  BY DEF SendResult, DropResult
<1>6. /\ resultCh' \in [Jobs -> {"empty", "ok", "error"}]
      /\ \A i \in Jobs : i # j => resultCh'[i] = resultCh[i]
      /\ resultCh'[j] = "error" => attempt[j] = MaxRetries \/ gone[j]
      /\ resultCh'[j] # "empty" \/ gone[j]
  BY <1>2, <1>3, <1>4, <1>5
<1>7. \A i \in Jobs : /\ Queued(i)' <=> Queued(i)
                      /\ InHands(i)' <=> InHands(i) /\ i # j
  <2>1. ASSUME NEW i \in Jobs PROVE InHands(i)' <=> InHands(i) /\ i # j
    <3>1. i # NoJob
      BY WorkerPoolAssumption
    <3> QED
      BY <1>1, <1>2, <1>3, <3>1 DEF InHands
  <2> QED
    BY <1>1, <2>1 DEF Queued
<1>8. TypeOK'
  <2>1. /\ wjob' \in [Workers -> Jobs \cup {NoJob}] /\ outcome' \in [Workers -> {"none", "ok", "error"}]
        /\ wpc' \in [Workers -> {"idle", "retry", "call", "backoff", "send", "gone"}]
    BY <1>1, <1>2
  <2> QED
    BY <1>1, <1>6, <2>1 DEF IInv, TypeOK, PoolTypeOK, OutsideWorker, serverVars
<1>9. Phases'
  BY <1>1, <1>2, OutsideKept
<1>10. Working'
  BY <1>1, <1>2 DEF IInv, Working, OutsideWorker
<1>11. OnePlace'
  <2>1. \A i, k \in 1..Len(queue') : queue'[i] = queue'[k] => i = k
    BY <1>1 DEF IInv, OnePlace
  <2>2. \A u, v \in Workers : wjob'[u] = wjob'[v] /\ wjob'[u] # NoJob => u = v
    BY <1>1, <1>2 DEF IInv, OnePlace
  <2>3. \A i \in Jobs : Queued(i)' => ~InHands(i)'
    BY <1>7 DEF IInv, OnePlace
  <2>4. \A i \in Jobs : Queued(i)' \/ InHands(i)' => sub'[i] = "accepted" /\ resultCh'[i] = "empty"
    BY <1>1, <1>3, <1>6, <1>7 DEF IInv, OnePlace, OutsideWorker
  <2> QED
    BY <2>1, <2>2, <2>3, <2>4 DEF OnePlace
<1>12. Handling'
  BY <1>1, <1>3, <1>6 DEF IInv, Handling, OutsideWorker, serverVars
<1>13. CacheGenuine' /\ AnswerIsGenuine'
  <2>1. \A i \in Jobs : resultCh[i] = "ok" => resultCh'[i] = "ok"
    BY <1>3, <1>6
  <2> QED
    BY <2>1 DEF IInv, TypeOK, CacheGenuine, AnswerIsGenuine, serverVars
<1>14. ErrorAfterAllRetries'
  BY <1>1, <1>6 DEF IInv, ErrorAfterAllRetries, OutsideWorker
<1>15. NoJobLost'
  BY <1>1, <1>6, <1>7 DEF IInv, NoJobLost, Queued, OutsideWorker
<1> QED
  BY <1>8, <1>9, <1>10, <1>11, <1>12, <1>13, <1>14, <1>15 DEF IInv

\* A worker leaves when nothing is left in the closed channel.
LEMMA WorkerExitStep ==
  ASSUME IInv, NEW w \in Workers, UNCHANGED serverVars, WorkerExit(w)
  PROVE  IInv'
<1>1. /\ wpc[w] = "idle" /\ chan = "closed" /\ queue = <<>> /\ wpc' = [wpc EXCEPT ![w] = "gone"]
      /\ UNCHANGED <<OutsideWorker, queue, wjob, outcome, attempt, resultCh>>
  BY DEF WorkerExit, Move
<1>2. wpc \in [Workers -> {"idle", "retry", "call", "backoff", "send", "gone"}]
  BY DEF IInv, TypeOK, PoolTypeOK
<1>3. TypeOK'
  BY <1>1, <1>2 DEF IInv, TypeOK, PoolTypeOK, OutsideWorker, serverVars
<1>4. Phases'
  BY <1>1, <1>2, OutsideKept
<1>5. Working'
  BY <1>1, <1>2 DEF IInv, Working, OutsideWorker
<1>6. OnePlace' /\ Handling' /\ CacheGenuine' /\ AnswerIsGenuine' /\ NoJobLost' /\ ErrorAfterAllRetries'
  BY <1>1 DEF IInv, OnePlace, Queued, InHands, Handling, CacheGenuine, AnswerIsGenuine, NoJobLost,
     ErrorAfterAllRetries, OutsideWorker, serverVars
<1> QED
  BY <1>3, <1>4, <1>5, <1>6 DEF IInv
-----------------------------------------------------------------------------
\* main

\* A step that moves main, and at most Shutdown, keeps everything else.
LEMMA MainKept ==
  ASSUME IInv, UNCHANGED <<OutsideShutdown, sync, handler, reply, from, cache>>,
         closed' \in BOOLEAN, chan' \in {"open", "closed"},
         chan = "closed" => chan' = "closed",
         shutdown' \in {"none", "flagged", "waiting", "drained", "timeout"},
         main' \in {"serving", "http_drain", "pool_drain", "redis_closed", "stopped", "exit1"},
         Phases'
  PROVE  IInv'
<1>1. TypeOK'
  BY DEF IInv, TypeOK, PoolTypeOK, OutsideShutdown, workerVars
<1>2. Working'
  BY DEF IInv, Working, OutsideShutdown, workerVars
<1>3. OnePlace' /\ Handling' /\ CacheGenuine'
  BY DEF IInv, OnePlace, Queued, InHands, Handling, CacheGenuine, OutsideShutdown, workerVars
<1>4. NoJobLost' /\ ErrorAfterAllRetries' /\ AnswerIsGenuine'
  BY DEF IInv, NoJobLost, Queued, InHands, ErrorAfterAllRetries, AnswerIsGenuine, OutsideShutdown,
     workerVars
<1> QED
  BY <1>1, <1>2, <1>3, <1>4 DEF IInv

\* The steps of main that are not the pool's: the handlers have returned
\* before the pool is shut down, and the pool is drained before Redis closes.
LEMMA PhaseStep ==
  ASSUME IInv, Sigterm \/ HttpDrained \/ HttpTimeout \/ CloseRedis \/ Stop
  PROVE  IInv'
<1>1. /\ UNCHANGED poolVars /\ UNCHANGED <<sync, handler, reply, from, cache>>
      /\ \/ main = "serving" /\ main' = "http_drain"
         \/ main = "http_drain" /\ main' = "pool_drain" /\ \A j \in Jobs : handler[j] # "active"
         \/ main = "http_drain" /\ main' = "exit1"
         \/ main = "pool_drain" /\ shutdown = "drained" /\ main' = "redis_closed"
         \/ main = "redis_closed" /\ main' = "stopped"
         \/ main = "pool_drain" /\ shutdown = "timeout" /\ main' = "exit1"
  BY DEF Sigterm, HttpDrained, HttpTimeout, CloseRedis, Stop, Goto
<1>2. Phases'
  BY <1>1, PoolKept DEF IInv, Phases, poolVars, chanVars
<1> QED
  BY <1>1, <1>2, MainKept DEF IInv, TypeOK, PoolTypeOK, poolVars, chanVars, OutsideShutdown

\* The steps of Shutdown, each after the one before.
LEMMA PoolShutdownStep ==
  ASSUME IInv, PoolShutdown
  PROVE  IInv'
<1>1. main = "pool_drain" /\ UNCHANGED serverVars /\ UNCHANGED OutsideShutdown
  BY DEF PoolShutdown, SetClosed, CloseChannel, Drained, DrainTimeout
<1>2. /\ closed \in BOOLEAN /\ chan \in {"open", "closed"}
      /\ AllWorkersGone' = AllWorkersGone
  BY <1>1 DEF IInv, TypeOK, PoolTypeOK, AllWorkersGone, OutsideShutdown, workerVars
<1>3. CASE SetClosed
  BY <1>1, <1>2, <1>3, MainKept DEF SetClosed, IInv, Phases, serverVars
<1>4. CASE CloseChannel
  BY <1>1, <1>2, <1>4, MainKept DEF CloseChannel, IInv, Phases, serverVars
<1>5. CASE Drained
  BY <1>1, <1>2, <1>5, MainKept DEF Drained, IInv, Phases, serverVars
<1>6. CASE DrainTimeout
  BY <1>1, <1>2, <1>6, MainKept DEF DrainTimeout, IInv, Phases, serverVars
<1> QED
  BY <1>3, <1>4, <1>5, <1>6 DEF PoolShutdown

-----------------------------------------------------------------------------
\* Every step

\* The invariant is inductive.
LEMMA StepInv == IInv /\ [Next]_vars => IInv'
<1> SUFFICES ASSUME IInv, [Next]_vars PROVE IInv'
  OBVIOUS
<1>1. CASE UNCHANGED vars
  <2>1. UNCHANGED poolVars /\ UNCHANGED serverVars
    BY <1>1 DEF vars
  <2>2. TypeOK' /\ Phases' /\ Handling' /\ CacheGenuine' /\ AnswerIsGenuine'
    BY <2>1, PoolKept DEF IInv, TypeOK, Phases, Handling, CacheGenuine, AnswerIsGenuine,
       poolVars, chanVars, serverVars
  <2> QED
    BY <2>1, <2>2, PoolKept DEF IInv
<1>2. ASSUME NEW j \in Jobs, Invalid(j) \/ Hit(j) \/ Miss(j) PROVE IInv'
  BY <1>2, HandlerStep
<1>3. ASSUME NEW j \in Jobs, Handler(j) PROVE IInv'
  <2>1. CASE Submit(j)
    BY <2>1, CheckClosedStep, TrySendStep DEF Submit
  <2>2. CASE PredictSync(j)
    BY <2>2, PredictSyncStep
  <2>3. CASE Rejected(j) \/ Answered(j) \/ Failed(j) \/ Abandoned(j)
    BY <2>3, HandlerStep
  <2> QED
    BY <1>3, <2>1, <2>2, <2>3 DEF Handler
<1>4. ASSUME NEW j \in Jobs, ClientLeaves(j) PROVE IInv'
  BY <1>4, ClientLeavesStep
<1>5. ASSUME NEW k \in Keys, Expire(k) PROVE IInv'
  BY <1>5, ExpireStep
<1>6. ASSUME NEW w \in Workers, WorkerStep(w) PROVE IInv'
  <2>1. Worker(w) /\ UNCHANGED serverVars
    BY <1>6 DEF WorkerStep
  <2> QED
    BY <2>1, TakeJobStep, PredictStep, ReleaseStep, WorkerExitStep DEF Worker
<1>7. CASE Sigterm \/ HttpTimeout \/ Main
  BY <1>7, PhaseStep, PoolShutdownStep DEF Main
<1> QED
  BY <1>1, <1>2, <1>3, <1>4, <1>5, <1>6, <1>7 DEF Next, Ended

\* It holds in every reachable state.
LEMMA Invariance == Spec => []IInv
<1> QED
  BY InitInv, StepInv, PTL DEF Spec

\* Every variable keeps its type; the job queue stays within QUEUE_SIZE and the
\* attempts within ML_SERVICE_RETRIES.
THEOREM TypeCorrect == Spec => []TypeOK
<1>1. IInv => TypeOK
  BY DEF IInv
<1> QED
  BY Invariance, <1>1, PTL

\* The pool does not lose a job: what Submit accepted is queued, processed or
\* answered, or nobody waits for it.
THEOREM NoJobLostHolds == Spec => []NoJobLost
<1>1. IInv => NoJobLost
  BY DEF IInv
<1> QED
  BY Invariance, <1>1, PTL

\* A caller that still waits is told "error" only after the last retry.
THEOREM ErrorAfterAllRetriesHolds == Spec => []ErrorAfterAllRetries
<1>1. IInv => ErrorAfterAllRetries
  BY DEF IInv
<1> QED
  BY Invariance, <1>1, PTL

\* A 200 repeats a successful answer to a request with the same cache key.
THEOREM AnswerIsGenuineHolds == Spec => []AnswerIsGenuine
<1>1. IInv => AnswerIsGenuine
  BY DEF IInv
<1> QED
  BY Invariance, <1>1, PTL

\* In main's order of shutdown no request meets a closing pool.
THEOREM PoolOpenForCallersHolds == Spec => []PoolOpenForCallers
<1>1. IInv => PoolOpenForCallers
  BY DEF IInv, Handling, PoolOpenForCallers
<1> QED
  BY Invariance, <1>1, PTL

\* Redis is closed only when the pool is drained and every caller answered or
\* gone.
THEOREM CleanStopHolds == Spec => []CleanStop
<1>1. ASSUME IInv, main \in {"redis_closed", "stopped"} PROVE CleanStop
  <2>1. AllWorkersGone
    BY <1>1 DEF IInv, Phases
  <2>2. queue = <<>>
    BY <2>1, <1>1, WorkerPoolAssumption DEF AllWorkersGone, IInv, Working
  <2>3. ASSUME NEW j \in Jobs
        PROVE  /\ handler[j] # "active"
               /\ sub[j] = "accepted" => reply[j] # "none" \/ gone[j]
    <3>1. handler[j] # "active"
      BY <1>1 DEF IInv, Phases
    <3>2. sub[j] = "accepted" => handler[j] = "done"
      BY <1>1, <3>1 DEF IInv, Handling, TypeOK
    <3> QED
      BY <1>1, <3>1, <3>2 DEF IInv, Handling
  <2> QED
    BY <2>1, <2>2, <2>3 DEF CleanStop
<1>2. IInv => CleanStop
  BY <1>1 DEF CleanStop
<1> QED
  BY Invariance, <1>2, PTL

-----------------------------------------------------------------------------
\* The channel, its workers and the order of the shutdown implement the
\* bounded set of pending jobs.

\* The abstract pool counts as this module does.
LEMMA SameCardinality == ASSUME NEW S PROVE Pool!Cardinality(S) = Cardinality(S)
BY DEF Pool!Cardinality, Cardinality

\* A sequence without repetition has as many elements as places.
LEMMA DistinctSize ==
  ASSUME NEW S, NEW q \in Seq(S), \A i, k \in 1..Len(q) : q[i] = q[k] => i = k,
         NEW T, T = {x \in S : \E i \in 1..Len(q) : q[i] = x}
  PROVE  IsFiniteSet(T) /\ Cardinality(T) = Len(q)
<1> DEFINE f == [i \in 1..Len(q) |-> q[i]]
<1>1. Len(q) \in Nat /\ \A i \in 1..Len(q) : q[i] \in T
  OBVIOUS
<1>2. f \in Surjection(1..Len(q), T)
  BY <1>1 DEF Surjection
<1>3. f \in Injection(1..Len(q), T)
  BY <1>1 DEF Injection, IsInjective
<1>4. IsFiniteSet(1..Len(q)) /\ Cardinality(1..Len(q)) = Len(q)
  <2>1. 1 \in Int /\ Len(q) \in Int /\ (1 > Len(q) => Len(q) = 0)
    BY <1>1
  <2>2. /\ IsFiniteSet(1..Len(q))
        /\ Cardinality(1..Len(q)) = IF 1 > Len(q) THEN 0 ELSE Len(q) - 1 + 1
    BY <2>1, FS_Interval
  <2> QED
    BY <1>1, <2>1, <2>2
<1> QED
  BY <1>2, <1>3, <1>4, FS_Surjection

\* What the workers hold is no more than one job each.
LEMMA HandsSize ==
  LET H == {j \in Jobs : InHands(j)}
  IN  /\ IsFiniteSet(H) /\ Cardinality(H) <= Cardinality(Workers)
      /\ Cardinality(H) \in Nat /\ Cardinality(Workers) \in Nat
<1> DEFINE T == {wjob[w] : w \in Workers}
<1> DEFINE f == [w \in Workers |-> wjob[w]]
<1> DEFINE H == {j \in Jobs : InHands(j)}
<1>1. f \in Surjection(Workers, T)
  BY DEF Surjection
<1>2. IsFiniteSet(Workers)
  BY WorkerPoolAssumption
<1>3. IsFiniteSet(T) /\ Cardinality(T) <= Cardinality(Workers)
  BY <1>1, <1>2, FS_Surjection
<1>4. H \in SUBSET T
  BY DEF InHands
<1>5. IsFiniteSet(H) /\ Cardinality(H) <= Cardinality(T)
  BY <1>3, <1>4, FS_Subset
<1>6. Cardinality(H) \in Nat /\ Cardinality(T) \in Nat /\ Cardinality(Workers) \in Nat
  BY <1>2, <1>3, <1>5, FS_CardinalityType
<1> QED
  BY <1>3, <1>5, <1>6

\* What is pending is what is queued or in the hands of a worker: all of the
\* queue, and one job more for each worker at most.
LEMMA PendingSize ==
  ASSUME IInv
  PROVE  /\ \A j \in Jobs : j \in Pool!Pending <=> Queued(j) \/ InHands(j)
         /\ Len(queue) <= Cardinality(Pool!Pending)
         /\ Cardinality(Pool!Pending) <= Len(queue) + Cardinality(Workers)
         /\ Len(queue) \in Nat /\ Cardinality(Pool!Pending) \in Nat /\ Cardinality(Workers) \in Nat
<1> DEFINE Q == {j \in Jobs : Queued(j)}
<1> DEFINE H == {j \in Jobs : InHands(j)}
<1>1. ASSUME NEW j \in Jobs PROVE j \in Pool!Pending <=> Queued(j) \/ InHands(j)
  <2>1. Place(j) = "pending" <=> Queued(j) \/ InHands(j)
    BY DEF Place, IInv, OnePlace, TypeOK, PoolTypeOK
  <2> QED
    BY <2>1 DEF Pool!Pending, places
<1>2. Pool!Pending = Q \cup H
  BY <1>1 DEF Pool!Pending
<1>3. IsFiniteSet(Q) /\ Cardinality(Q) = Len(queue)
  <2>1. queue \in Seq(Jobs) /\ \A i, k \in 1..Len(queue) : queue[i] = queue[k] => i = k
    BY DEF IInv, TypeOK, PoolTypeOK, OnePlace
  <2>2. Q = {x \in Jobs : \E i \in 1..Len(queue) : queue[i] = x}
    BY DEF Queued
  <2> QED
    BY <2>1, <2>2, DistinctSize
<1>4. /\ IsFiniteSet(H) /\ Cardinality(H) <= Cardinality(Workers)
      /\ Cardinality(H) \in Nat /\ Cardinality(Workers) \in Nat
  BY HandsSize
<1>5. Q \cap H = {}
  BY DEF IInv, OnePlace
<1>6. Cardinality(Q \cup H) = Cardinality(Q) + Cardinality(H) - Cardinality(Q \cap H)
  BY <1>3, <1>4, FS_Union
<1>7. Cardinality(Q \cap H) = 0
  BY <1>5, FS_EmptySet
<1>8. Len(queue) \in Nat
  BY DEF IInv, TypeOK, PoolTypeOK
<1> QED
  BY <1>1, <1>2, <1>3, <1>4, <1>6, <1>7, <1>8

\* No step is seen that leaves each job where it is for its caller.
LEMMA Unseen ==
  ASSUME \A j \in Jobs : Place(j)' = Place(j), gone' = gone,
         main' \in {"redis_closed", "stopped"} <=> main \in {"redis_closed", "stopped"}
  PROVE  UNCHANGED Pool!absVars
<1>1. places' = places
  BY DEF places
<1> QED
  BY <1>1 DEF Pool!absVars

\* A step that moves one job.
LEMMA OneMoves ==
  ASSUME NEW j \in Jobs, NEW where, Place(j)' = where,
         \A i \in Jobs : i # j => Place(i)' = Place(i),
         gone' = gone, main' = main
  PROVE  Pool!Put(j, where)
<1>1. places' = [places EXCEPT ![j] = where]
  BY DEF places
<1> QED
  BY <1>1 DEF Pool!Put

\* Before any request nothing is pending and nobody has left.
LEMMA InitImplements == Init => Pool!Init
<1> SUFFICES ASSUME Init PROVE Pool!Init
  OBVIOUS
<1>1. places = [j \in Jobs |-> "out"]
  BY DEF Init, PoolInit, places, Place
<1> QED
  BY <1>1 DEF Init, PoolInit, Pool!Init

\* The second half of Submit accepts the job or turns it away.
LEMMA TrySendImplements ==
  ASSUME IInv, IInv', NEW j \in Jobs, handler[j] = "active", TrySend(j), UNCHANGED serverVars
  PROVE  Pool!Accept(j) \/ Pool!TurnAway(j)
<1>1. /\ sub[j] = "checked" /\ chan = "open" /\ main \notin {"redis_closed", "stopped"}
      /\ UNCHANGED <<closed, chan, workerVars, resultCh, gone, shutdown>>
      /\ main' = main
  BY DEF TrySend, IInv, TypeOK, PoolTypeOK, Phases, serverVars
<1>2. /\ sub \in [Jobs -> {"idle", "checked", "accepted", "full", "refused", "panic"}]
      /\ queue \in Seq(Jobs) /\ QueueSize \in Nat
  BY WorkerPoolAssumption DEF IInv, TypeOK, PoolTypeOK
<1>3. places[j] = "out"
  BY <1>1 DEF places, Place
<1>4. CASE Len(queue) < QueueSize
  <2>1. queue' = Append(queue, j) /\ sub' = [sub EXCEPT ![j] = "accepted"]
    BY <1>1, <1>2, <1>4 DEF TrySend
  <2>2. /\ \A i \in 1..Len(queue) : i \in 1..Len(queue') /\ queue'[i] = queue[i]
        /\ Len(queue) + 1 \in 1..Len(queue') /\ queue'[Len(queue) + 1] = j
        /\ \A i \in 1..Len(queue') : i \in 1..Len(queue) \/ i = Len(queue) + 1
    BY <1>2, <2>1, AppendFacts
  <2>3. ASSUME NEW i \in Jobs
        PROVE  /\ Queued(i)' <=> Queued(i) \/ i = j
               /\ InHands(i)' <=> InHands(i)
    BY <1>1, <1>2, <2>2 DEF Queued, InHands, workerVars
  <2>4. Queued(j)' /\ sub'[j] = "accepted" /\ resultCh'[j] = "empty"
    BY <1>2, <2>1, <2>3 DEF IInv, OnePlace
  <2>5. Place(j)' = "pending"
    BY <2>4 DEF Place
  <2>6. ASSUME NEW i \in Jobs, i # j PROVE Place(i)' = Place(i)
    BY <1>1, <1>2, <2>1, <2>3, <2>6 DEF Place
  <2>7. Pool!Cardinality(Pool!Pending) < QueueSize + Cardinality(Workers)
    BY <1>2, <1>4, PendingSize, SameCardinality
  <2>8. Pool!Put(j, "pending")
    BY <1>1, <2>5, <2>6, OneMoves
  <2> QED
    BY <1>1, <1>3, <2>7, <2>8 DEF Pool!Accept
<1>5. CASE ~(Len(queue) < QueueSize)
  <2>1. queue' = queue /\ sub' = [sub EXCEPT ![j] = "full"]
    BY <1>1, <1>5 DEF TrySend
  <2>2. Place(j)' = "full"
    BY <1>2, <2>1 DEF Place
  <2>3. ASSUME NEW i \in Jobs, i # j PROVE Place(i)' = Place(i)
    BY <1>1, <1>2, <2>1, <2>3 DEF Place, Queued, InHands, workerVars
  <2>4. Pool!Cardinality(Pool!Pending) >= QueueSize
    BY <1>2, <1>5, PendingSize, SameCardinality
  <2>5. Pool!Put(j, "full")
    BY <1>1, <2>2, <2>3, OneMoves
  <2> QED
    BY <1>1, <1>3, <2>4, <2>5 DEF Pool!TurnAway
<1> QED
  BY <1>4, <1>5

\* predictSync puts no job into the pool.
LEMMA PredictSyncImplements ==
  ASSUME IInv, IInv', NEW j \in Jobs, PredictSync(j)
  PROVE  UNCHANGED Pool!absVars
<1>1. /\ sync /\ UNCHANGED <<chanVars, sub, wpc, wjob, gone, serverVars>>
  BY DEF PredictSync
<1>2. ASSUME NEW i \in Jobs PROVE Place(i)' = Place(i)
  <2>1. sub[i] = "idle" /\ sub'[i] = "idle"
    BY <1>1 DEF IInv, Handling
  <2> QED
    BY <2>1 DEF Place
<1> QED
  BY <1>1, <1>2, Unseen DEF serverVars

\* A receive moves a job from the queue into the hands of the worker.
LEMMA TakeJobImplements ==
  ASSUME IInv, IInv', NEW w \in Workers, TakeJob(w), UNCHANGED serverVars
  PROVE  UNCHANGED Pool!absVars
<1>1. /\ wpc[w] = "idle" /\ queue # <<>> /\ queue' = Tail(queue)
      /\ wjob' = [wjob EXCEPT ![w] = Head(queue)]
      /\ UNCHANGED <<OutsideWorker, resultCh>>
  BY DEF TakeJob
<1>2. /\ queue \in Seq(Jobs) /\ wjob \in [Workers -> Jobs \cup {NoJob}] /\ wjob[w] = NoJob
  BY <1>1 DEF IInv, TypeOK, PoolTypeOK, Working
<1>3. /\ Head(queue) = queue[1] /\ Head(queue) \in Jobs /\ 1 \in 1..Len(queue)
      /\ \A i \in 1..Len(queue') : i + 1 \in 1..Len(queue) /\ queue'[i] = queue[i + 1]
      /\ \A i \in 1..Len(queue) : i = 1 \/ (i - 1 \in 1..Len(queue') /\ queue'[i - 1] = queue[i])
  BY <1>1, <1>2, TailFacts
<1>4. ASSUME NEW i \in Jobs PROVE (Queued(i) \/ InHands(i))' <=> Queued(i) \/ InHands(i)
  <2>1. InHands(i)' <=> InHands(i) \/ i = Head(queue)
    <3>1. i # NoJob
      BY WorkerPoolAssumption
    <3> QED
      BY <1>1, <1>2, <3>1 DEF InHands
  <2>2. Queued(i) => Queued(i)' \/ i = Head(queue)
    BY <1>3 DEF Queued
  <2>3. Queued(i)' => Queued(i)
    BY <1>3 DEF Queued
  <2>4. Queued(Head(queue))
    BY <1>3 DEF Queued
  <2> QED
    BY <2>1, <2>2, <2>3, <2>4
<1>5. ASSUME NEW i \in Jobs PROVE Place(i)' = Place(i)
  BY <1>1, <1>4 DEF Place, OutsideWorker
<1> QED
  BY <1>1, <1>5, Unseen DEF OutsideWorker, serverVars

\* A result, or a drop, ends what is pending.
LEMMA ReleaseImplements ==
  ASSUME IInv, IInv', NEW w \in Workers, SendResult(w) \/ DropResult(w), UNCHANGED serverVars
  PROVE  Pool!Answer(wjob[w]) \/ Pool!Drop(wjob[w])
<1> PICK j : j = wjob[w]
  OBVIOUS
<1>1. /\ wpc[w] = "send" /\ wjob' = [wjob EXCEPT ![w] = NoJob]
      /\ UNCHANGED <<OutsideWorker, queue>>
  BY DEF SendResult, DropResult, Release
<1>2. /\ wjob \in [Workers -> Jobs \cup {NoJob}] /\ outcome \in [Workers -> {"none", "ok", "error"}]
      /\ resultCh \in [Jobs -> {"empty", "ok", "error"}] /\ outcome[w] # "none"
  BY <1>1 DEF IInv, TypeOK, PoolTypeOK, Working
<1>3. /\ j \in Jobs /\ j # NoJob /\ sub[j] = "accepted" /\ resultCh[j] = "empty" /\ ~Queued(j)
      /\ \A v \in Workers : v # w => wjob[v] # j
  BY <1>1, HeldJob
<1>4. sub' = sub /\ gone' = gone /\ main' = main /\ queue' = queue
  BY <1>1 DEF OutsideWorker, serverVars
<1>5. InHands(j) /\ ~InHands(j)' /\ ~Queued(j)'
  <2>1. InHands(j)
    BY DEF InHands
  <2>2. \A v \in Workers : wjob'[v] # j
    BY <1>1, <1>2, <1>3
  <2> QED
    BY <1>3, <1>4, <2>1, <2>2 DEF InHands, Queued
<1>6. places[j] = "pending"
  BY <1>3, <1>5 DEF places, Place
<1>7. ASSUME NEW i \in Jobs, i # j PROVE Place(i)' = Place(i)
  <2>1. InHands(i)' <=> InHands(i)
    <3>1. i # NoJob
      BY WorkerPoolAssumption
    <3> QED
      BY <1>1, <1>2, <1>7, <3>1 DEF InHands
  <2>2. resultCh'[i] = resultCh[i]
    BY <1>2, <1>7 DEF SendResult, DropResult
  <2>3. Queued(i)' <=> Queued(i)
    BY <1>4 DEF Queued
  <2> QED
    BY <1>4, <2>1, <2>2, <2>3 DEF Place
<1>8. CASE SendResult(w)
  <2>1. resultCh'[j] = outcome[w] /\ outcome[w] \in {"ok", "error"}
    BY <1>2, <1>3, <1>8 DEF SendResult
  <2>2. Place(j)' = outcome[w]
    BY <1>3, <1>4, <2>1 DEF Place
  <2>3. Pool!Put(j, outcome[w])
    BY <1>3, <1>4, <1>7, <2>2, OneMoves
  <2> QED
    BY <1>6, <2>1, <2>3 DEF Pool!Answer
<1>9. CASE DropResult(w)
  <2>1. resultCh' = resultCh /\ gone[j]
    BY <1>9 DEF DropResult
  <2>2. Place(j)' = "dropped"
    BY <1>3, <1>4, <1>5, <2>1 DEF Place
  <2>3. Pool!Put(j, "dropped")
    BY <1>3, <1>4, <1>7, <2>2, OneMoves
  <2> QED
    BY <1>6, <2>1, <2>3 DEF Pool!Drop
<1> QED
  BY <1>8, <1>9

\* main closes Redis when nothing is pending.
LEMMA CloseRedisImplements ==
  ASSUME IInv, CloseRedis
  PROVE  Pool!Stop
<1>1. /\ main = "pool_drain" /\ shutdown = "drained" /\ main' = "redis_closed"
      /\ UNCHANGED poolVars
  BY DEF CloseRedis, Goto
<1>2. AllWorkersGone
  BY <1>1 DEF IInv, Phases
<1>3. queue = <<>> /\ \A w \in Workers : wjob[w] = NoJob
  BY <1>2, WorkerPoolAssumption DEF AllWorkersGone, IInv, Working
<1>4. ASSUME NEW j \in Jobs PROVE ~Queued(j) /\ ~InHands(j)
  BY <1>3, WorkerPoolAssumption DEF Queued, InHands
<1>5. Pool!Pending = {}
  BY <1>4, PendingSize DEF Pool!Pending
<1>6. places' = places /\ gone' = gone
  BY <1>1 DEF places, Place, Queued, InHands, poolVars, chanVars, workerVars
<1> QED
  BY <1>1, <1>5, <1>6 DEF Pool!Stop

\* The steps that leave the variables of the pool alone, but for Redis' close.
LEMMA OutsideImplements ==
  ASSUME IInv, UNCHANGED <<queue, sub, wjob, resultCh, gone>>,
         main' \in {"redis_closed", "stopped"} <=> main \in {"redis_closed", "stopped"}
  PROVE  UNCHANGED Pool!absVars
<1>1. \A j \in Jobs : Place(j)' = Place(j)
  BY DEF Place, Queued, InHands
<1> QED
  BY <1>1, Unseen

\* Every step of the handlers, the workers and main is a step of the abstract
\* pool, or moves no job for its caller.
LEMMA StepImplements == IInv /\ IInv' /\ [Next]_vars => [Pool!Next]_(Pool!absVars)
<1> SUFFICES ASSUME IInv, IInv', [Next]_vars PROVE [Pool!Next]_(Pool!absVars)
  OBVIOUS
<1>1. ASSUME NEW j \in Jobs, \/ Invalid(j) \/ Hit(j) \/ Miss(j) \/ Rejected(j)
                             \/ Answered(j) \/ Failed(j) \/ Abandoned(j)
      PROVE  UNCHANGED Pool!absVars
  <2>1. UNCHANGED poolVars /\ main' = main
    BY <1>1 DEF Invalid, Hit, Miss, Rejected, Answered, Failed, Abandoned, Return
  <2> QED
    BY <2>1, OutsideImplements DEF poolVars, chanVars, workerVars
<1>2. ASSUME NEW j \in Jobs, Submit(j)
      PROVE  Pool!Accept(j) \/ Pool!TurnAway(j) \/ UNCHANGED Pool!absVars
  <2>1. handler[j] = "active" /\ UNCHANGED serverVars
    BY <1>2 DEF Submit
  <2>2. CASE TrySend(j)
    BY <2>1, <2>2, TrySendImplements
  <2>3. CASE CheckClosed(j)
    <3>1. /\ sub[j] = "idle" /\ sub' = [sub EXCEPT ![j] = "checked"]
          /\ UNCHANGED <<queue, wjob, resultCh, gone>> /\ main' = main
      BY <2>1, <2>3 DEF CheckClosed, IInv, Phases, chanVars, workerVars, serverVars
    <3>2. ASSUME NEW i \in Jobs PROVE Place(i)' = Place(i)
      <4>1. sub \in [Jobs -> {"idle", "checked", "accepted", "full", "refused", "panic"}]
        BY DEF IInv, TypeOK, PoolTypeOK
      <4> QED
        BY <3>1, <4>1 DEF Place, Queued, InHands
    <3> QED
      BY <3>1, <3>2, Unseen
  <2> QED
    BY <1>2, <2>2, <2>3 DEF Submit
<1>3. ASSUME NEW j \in Jobs, ClientLeaves(j) PROVE Pool!Leave(j)
  <2>1. /\ ~gone[j] /\ gone' = [gone EXCEPT ![j] = TRUE] /\ main' = main
        /\ UNCHANGED <<queue, sub, wjob, resultCh>>
    BY <1>3 DEF ClientLeaves, CallerGone, chanVars, workerVars, serverVars
  <2>2. places' = places
    BY <2>1 DEF places, Place, Queued, InHands
  <2> QED
    BY <2>1, <2>2 DEF Pool!Leave
<1>4. ASSUME NEW k \in Keys, Expire(k) PROVE UNCHANGED Pool!absVars
  BY <1>4, OutsideImplements DEF Expire, poolVars, chanVars, workerVars
<1>5. ASSUME NEW w \in Workers, WorkerStep(w)
      PROVE  \/ \E j \in Jobs : Pool!Answer(j) \/ Pool!Drop(j)
             \/ UNCHANGED Pool!absVars
  <2>1. Worker(w) /\ UNCHANGED serverVars
    BY <1>5 DEF WorkerStep
  <2>2. CASE TakeJob(w)
    BY <2>1, <2>2, TakeJobImplements
  <2>3. CASE SendResult(w) \/ DropResult(w)
    <3>1. wpc[w] = "send"
      BY <2>3 DEF SendResult, DropResult
    <3>2. wjob[w] \in Jobs
      BY <3>1, HeldJob
    <3> QED
      BY <2>1, <2>3, <3>2, ReleaseImplements
  <2>4. CASE \/ WorkerExit(w) \/ StartAttempt(w) \/ AttemptAnswered(w) \/ AttemptFailed(w)
             \/ BackoffOver(w) \/ BackoffCut(w)
    <3>1. UNCHANGED <<OutsideWorker, queue, wjob, resultCh>>
      BY <2>4 DEF WorkerExit, StartAttempt, AttemptAnswered, AttemptFailed, BackoffOver, BackoffCut
    <3> QED
      BY <2>1, <3>1, OutsideImplements DEF OutsideWorker, serverVars
  <2> QED
    BY <2>1, <2>2, <2>3, <2>4 DEF Worker
<1>6. CASE Sigterm \/ HttpTimeout \/ HttpDrained \/ Stop
  <2>1. /\ UNCHANGED poolVars
        /\ main' \in {"redis_closed", "stopped"} <=> main \in {"redis_closed", "stopped"}
    BY <1>6 DEF Sigterm, HttpTimeout, HttpDrained, Stop, Goto
  <2> QED
    BY <2>1, OutsideImplements DEF poolVars, chanVars, workerVars
<1>7. CASE PoolShutdown
  BY <1>7, OutsideImplements
  DEF PoolShutdown, SetClosed, CloseChannel, Drained, DrainTimeout, OutsideShutdown, workerVars,
      serverVars
<1>8. CASE UNCHANGED vars
  BY <1>8, OutsideImplements DEF vars, poolVars, chanVars, workerVars, serverVars
<1>9. CASE Next
  <2>1. ASSUME NEW j \in Jobs, Handler(j)
        PROVE  Pool!Accept(j) \/ Pool!TurnAway(j) \/ UNCHANGED Pool!absVars
    BY <1>1, <1>2, <2>1, PredictSyncImplements DEF Handler
  <2> QED
    BY <1>1, <1>3, <1>4, <1>5, <1>6, <1>7, <1>8, <1>9, <2>1, CloseRedisImplements
    DEF Next, Main, Ended, Pool!Next
<1> QED
  BY <1>8, <1>9

\* The pool, for any number of callers and workers and whatever order they run
\* in, answers each job it accepts once, or drops it when its caller has left;
\* it turns a caller away only when QUEUE_SIZE jobs are pending, never because
\* it is closing, and the process stops it only when nothing is pending.
THEOREM ImplementsAbstract == Spec => Implements
BY InitImplements, StepImplements, Invariance, PTL DEF Spec, Implements, Pool!Spec
=============================================================================
