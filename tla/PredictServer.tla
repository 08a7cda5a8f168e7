--------------------------- MODULE PredictServer ---------------------------
(***************************************************************************)
(* POST /api/v1/predict and the life of the backend process: the handler   *)
(* Predict in front of the worker pool and of the prediction cache, and    *)
(* main's shutdown sequence, which stops the HTTP server, then the pool,   *)
(* then Redis, the first two with a deadline.  A request is named after    *)
(* its job.  SYNC_MODE is either on or off: with it the handler calls the  *)
(* model service itself, with the same client.                             *)
(***************************************************************************)
EXTENDS WorkerPool

CONSTANTS
  Keys,         \* cache keys
  Key           \* Key[j]: the cache key of the request of j

ASSUME PredictServerAssumption == Key \in [Jobs -> Keys]

VARIABLES
  sync,         \* cfg.SyncMode
  main,         \* where main is
  handler,      \* "none", "active" or "done" for each request
  reply,        \* the status of the response, "none" when nothing is written
  from,         \* the job whose answer of the model service the reply repeats
  cache         \* the job whose answer is stored under a key

serverVars == <<sync, main, handler, reply, from, cache>>
vars == <<poolVars, serverVars>>

Init ==
  /\ PoolInit
  /\ sync \in BOOLEAN
  /\ main = "serving"
  /\ handler = [j \in Jobs |-> "none"]
  /\ reply = [j \in Jobs |-> "none"]
  /\ from = [j \in Jobs |-> NoJob]
  /\ cache = [k \in Keys |-> NoJob]

Running == main \notin {"stopped", "exit1"}

-----------------------------------------------------------------------------
\* The handler

Return(j, status) ==
  /\ handler' = [handler EXCEPT ![j] = "done"]
  /\ reply' = [reply EXCEPT ![j] = status]
  /\ UNCHANGED <<sync, main>>

\* Requests still start while Shutdown waits for the connections to go idle.
Arrives(j) == handler[j] = "none" /\ main \in {"serving", "http_drain"}

Invalid(j) ==
  /\ Arrives(j)
  /\ Return(j, "400")
  /\ UNCHANGED <<poolVars, from, cache>>

Hit(j) ==
  /\ Arrives(j)
  /\ cache[Key[j]] # NoJob
  /\ from' = [from EXCEPT ![j] = cache[Key[j]]]
  /\ Return(j, "200")
  /\ UNCHANGED <<poolVars, cache>>

\* Nothing stored, or Redis failed, which counts as a miss.
Miss(j) ==
  /\ Arrives(j)
  /\ handler' = [handler EXCEPT ![j] = "active"]
  /\ UNCHANGED <<poolVars, sync, main, reply, from, cache>>

Submit(j) ==
  /\ handler[j] = "active"
  /\ ~sync
  /\ CheckClosed(j) \/ TrySend(j)
  /\ UNCHANGED serverVars

\* predictSync: the client's attempts, of which the last one decides, on the
\* handler's own goroutine; resultCh stands for what the call returns.
PredictSync(j) ==
  /\ handler[j] = "active"
  /\ sync
  /\ resultCh[j] = "empty"
  /\ \E n \in 0..MaxRetries : attempt' = [attempt EXCEPT ![j] = n]
  /\ \/ attempt'[j] > 0 /\ resultCh' = [resultCh EXCEPT ![j] = "ok"]
     \/ /\ attempt'[j] = MaxRetries \/ gone[j]
        /\ resultCh' = [resultCh EXCEPT ![j] = "error"]
  /\ UNCHANGED <<chanVars, sub, wpc, wjob, outcome, gone, shutdown, serverVars>>

Rejected(j) ==
  /\ handler[j] = "active"
  /\ sub[j] \in {"full", "refused"}
  /\ Return(j, "503")
  /\ UNCHANGED <<poolVars, from, cache>>

\* Mutation: the error of the result is not looked at.
AnsweredUnchecked(j) ==
  /\ handler[j] = "active"
  /\ resultCh[j] # "empty"
  /\ cache' \in {cache, [cache EXCEPT ![Key[j]] = j]}
  /\ from' = [from EXCEPT ![j] = j]
  /\ Return(j, "200")
  /\ UNCHANGED poolVars

\* The result of the call; a failure to store it is only logged.
Answered(j) ==
  /\ handler[j] = "active"
  /\ resultCh[j] = "ok"
  /\ cache' \in {cache, [cache EXCEPT ![Key[j]] = j]}
  /\ from' = [from EXCEPT ![j] = j]
  /\ Return(j, "200")
  /\ UNCHANGED poolVars

Failed(j) ==
  /\ handler[j] = "active"
  /\ resultCh[j] = "error"
  /\ Return(j, "502")
  /\ UNCHANGED <<poolVars, from, cache>>

\* Mutation: the handler waits for the result and for nothing else.
AwaitResultOnly(j) ==
  /\ handler[j] = "active"
  /\ gone[j]
  /\ resultCh[j] # "empty"
  /\ Return(j, "none")
  /\ UNCHANGED <<poolVars, from, cache>>

\* The request's context is done while the job is queued or processed.
Abandoned(j) ==
  /\ handler[j] = "active"
  /\ sub[j] = "accepted"
  /\ gone[j]
  /\ Return(j, "none")
  /\ UNCHANGED <<poolVars, from, cache>>

ClientLeaves(j) ==
  /\ handler[j] = "active"
  /\ CallerGone(j)
  /\ UNCHANGED serverVars

\* SETEX's time to live.
Expire(k) ==
  /\ cache[k] # NoJob
  /\ cache' = [cache EXCEPT ![k] = NoJob]
  /\ UNCHANGED <<poolVars, sync, main, handler, reply, from>>

Handler(j) ==
  \/ Submit(j) \/ PredictSync(j) \/ Rejected(j)
  \/ Answered(j) \/ Failed(j) \/ Abandoned(j)

-----------------------------------------------------------------------------
\* main

Goto(phase) == main' = phase /\ UNCHANGED <<sync, handler, reply, from, cache>>

Sigterm ==
  /\ main = "serving"
  /\ Goto("http_drain")
  /\ UNCHANGED poolVars

\* Mutation: srv.Close instead of srv.Shutdown.
HttpClosed ==
  /\ main = "http_drain"
  /\ Goto("pool_drain")
  /\ UNCHANGED poolVars

\* srv.Shutdown returns nil: no handler is running.
HttpDrained ==
  /\ main = "http_drain"
  /\ \A j \in Jobs : handler[j] # "active"
  /\ Goto("pool_drain")
  /\ UNCHANGED poolVars

HttpTimeout ==
  /\ main = "http_drain"
  /\ Goto("exit1")
  /\ UNCHANGED poolVars

PoolShutdown ==
  /\ main = "pool_drain"
  /\ SetClosed \/ CloseChannel \/ Drained \/ DrainTimeout
  /\ UNCHANGED serverVars

\* redisClient.Close() closes the channel of connections: no request may be in
\* the cache or in the limiter any more.
CloseRedis ==
  /\ main = "pool_drain"
  /\ shutdown = "drained"
  /\ Goto("redis_closed")
  /\ UNCHANGED poolVars

\* The end of main, or os.Exit(1).
Stop ==
  /\ \/ main = "redis_closed" /\ Goto("stopped")
     \/ main = "pool_drain" /\ shutdown = "timeout" /\ Goto("exit1")
  /\ UNCHANGED poolVars

Main == HttpDrained \/ PoolShutdown \/ CloseRedis \/ Stop

\* What main does when no deadline passes.
MainUndisturbed == Main /\ ~(shutdown = "waiting" /\ shutdown' = "timeout")

WorkerStep(w) == Worker(w) /\ UNCHANGED serverVars

\* The process is gone.
Ended == ~Running /\ UNCHANGED vars

Next ==
  \/ /\ Running
     /\ \/ \E j \in Jobs : Invalid(j) \/ Hit(j) \/ Miss(j) \/ Handler(j) \/ ClientLeaves(j)
        \/ \E k \in Keys : Expire(k)
        \/ \E w \in Workers : WorkerStep(w)
        \/ Sigterm \/ HttpTimeout \/ Main
  \/ Ended

Spec == Init /\ [][Next]_vars

\* Goroutines run, and an attempt on the model service ends by its timeout.
\* Neither clients leaving, nor the signal, nor the deadlines are assumed.
Fairness ==
  /\ \A j \in Jobs : WF_vars(Running /\ Handler(j))
  /\ \A w \in Workers : WF_vars(Running /\ WorkerStep(w))
  /\ WF_vars(Running /\ MainUndisturbed)

FairSpec == Spec /\ Fairness

-----------------------------------------------------------------------------
\* Properties

\* Every variable keeps its type, the pool's included, whose queue is bounded.
TypeOK ==
  /\ PoolTypeOK
  /\ sync \in BOOLEAN
  /\ main \in {"serving", "http_drain", "pool_drain", "redis_closed", "stopped", "exit1"}
  /\ handler \in [Jobs -> {"none", "active", "done"}]
  /\ reply \in [Jobs -> {"none", "200", "400", "502", "503"}]
  /\ from \in [Jobs -> Jobs \cup {NoJob}]
  /\ cache \in [Keys -> Jobs \cup {NoJob}]

\* Redis is closed, and "server stopped cleanly" logged, only when no caller is
\* cut off: every request that entered the handler was answered or had been
\* left by its client, and the jobs of the clients that left were worked off.
CleanStop ==
  main \in {"redis_closed", "stopped"} =>
    /\ queue = <<>> /\ AllWorkersGone
    /\ \A j \in Jobs : /\ handler[j] # "active"
                       /\ sub[j] = "accepted" => reply[j] # "none" \/ gone[j]

\* In main's order of shutdown no request meets a closing pool: neither the
\* panic of a send on the closed channel, nor ErrPoolShuttingDown.
PoolOpenForCallers == \A j \in Jobs : sub[j] \notin {"refused", "panic"}

\* A 200, from the cache or not, repeats a successful answer of the model
\* service to a request with the same key.
AnswerIsGenuine ==
  \A j \in Jobs : reply[j] = "200" =>
    /\ from[j] # NoJob
    /\ resultCh[from[j]] = "ok"
    /\ Key[from[j]] = Key[j]

\* Every request is answered or abandoned, unless the process ends.
EveryRequestReturns == \A j \in Jobs : handler[j] = "active" ~> (handler[j] = "done" \/ ~Running)

\* Once signalled the process ends, and without the help of a deadline.
ProcessEnds == main = "http_drain" ~> ~Running

\* Where the job of a request is, for its caller.
Place(j) ==
  IF sub[j] \in {"idle", "checked"} THEN "out"
  ELSE IF sub[j] # "accepted" THEN sub[j]
  ELSE IF resultCh[j] # "empty" THEN resultCh[j]
  ELSE IF Queued(j) \/ InHands(j) THEN "pending" ELSE "dropped"

places == [j \in Jobs |-> Place(j)]

Pool == INSTANCE PoolAbstract WITH
  Capacity <- QueueSize + Cardinality(Workers),
  place <- places,
  left <- gone,
  stopped <- main \in {"redis_closed", "stopped"}

\* The channel, its workers and main's order of shutdown are a bounded set of
\* pending jobs: each accepted job is answered once, or dropped when its caller
\* has left; a caller is turned away only if QUEUE_SIZE jobs are pending (a full
\* queue "fails fast", pool.go:9), and meets no pool that is closing.
Implements == Pool!Spec
=============================================================================
