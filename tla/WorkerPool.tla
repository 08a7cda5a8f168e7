----------------------------- MODULE WorkerPool -----------------------------
(***************************************************************************)
(* The bounded worker pool of the prediction path (internal/workers) and   *)
(* the retrying client its workers call (internal/mlclient).  Callers      *)
(* submit one job each; workers take jobs from a buffered channel, call    *)
(* the model service up to MaxRetries times and send the result on the     *)
(* job's own channel; the owner shuts the pool down.                       *)
(***************************************************************************)
EXTENDS Naturals, Sequences, FiniteSets

CONSTANTS
  Jobs,         \* one job per caller
  Workers,      \* PREDICTION_WORKERS goroutines
  QueueSize,    \* QUEUE_SIZE, the capacity of the channel
  MaxRetries,   \* ML_SERVICE_RETRIES
  NoJob

ASSUME WorkerPoolAssumption ==
  /\ QueueSize \in Nat \ {0}
  /\ MaxRetries \in Nat
  /\ Workers # {} /\ IsFiniteSet(Workers)
  /\ NoJob \notin Jobs

VARIABLES
  closed,       \* the atomic flag read by Submit
  chan,         \* "open" or "closed": close(p.jobs) has run
  queue,        \* the jobs buffered in p.jobs
  sub,          \* how far each caller is in Submit, or what Submit gave
  wpc,          \* where each worker is in runWorker, process and Predict
  wjob,         \* the job it works on
  outcome,      \* what Predict returned to the worker
  attempt,      \* attempts made for a job
  resultCh,     \* the job's result channel of capacity 1
  gone,         \* the job's context is cancelled
  shutdown      \* how far the owner is in Shutdown

chanVars == <<closed, chan, queue>>
workerVars == <<wpc, wjob, outcome, attempt>>
poolVars == <<chanVars, sub, workerVars, resultCh, gone, shutdown>>

PoolInit ==
  /\ closed = FALSE
  /\ chan = "open"
  /\ queue = <<>>
  /\ sub = [j \in Jobs |-> "idle"]
  /\ wpc = [w \in Workers |-> "idle"]
  /\ wjob = [w \in Workers |-> NoJob]
  /\ outcome = [w \in Workers |-> "none"]
  /\ attempt = [j \in Jobs |-> 0]
  /\ resultCh = [j \in Jobs |-> "empty"]
  /\ gone = [j \in Jobs |-> FALSE]
  /\ shutdown = "none"

-----------------------------------------------------------------------------
\* Submit

\* The first half: the flag is read.
CheckClosed(j) ==
  /\ sub[j] = "idle"
  /\ sub' = [sub EXCEPT ![j] = IF closed THEN "refused" ELSE "checked"]
  /\ UNCHANGED <<chanVars, workerVars, resultCh, gone, shutdown>>

\* Mutation: the channel has one slot more.
TrySendBeyond(j) ==
  /\ sub[j] = "checked"
  /\ IF chan = "open" /\ Len(queue) <= QueueSize
     THEN queue' = Append(queue, j)
     ELSE UNCHANGED queue
  /\ sub' = [sub EXCEPT ![j] = CASE chan = "closed" -> "panic"
                                 [] Len(queue) <= QueueSize -> "accepted"
                                 [] OTHER -> "full"]
  /\ UNCHANGED <<closed, chan, workerVars, resultCh, gone, shutdown>>

\* The second half: a non-blocking send. A send on a closed channel panics.
TrySend(j) ==
  /\ sub[j] = "checked"
  /\ IF chan = "open" /\ Len(queue) < QueueSize
     THEN queue' = Append(queue, j)
     ELSE UNCHANGED queue
  /\ sub' = [sub EXCEPT ![j] = CASE chan = "closed" -> "panic"
                                 [] Len(queue) < QueueSize -> "accepted"
                                 [] OTHER -> "full"]
  /\ UNCHANGED <<closed, chan, workerVars, resultCh, gone, shutdown>>

\* The caller's context ends: its client left, or its deadline passed.
CallerGone(j) ==
  /\ ~gone[j]
  /\ gone' = [gone EXCEPT ![j] = TRUE]
  /\ UNCHANGED <<chanVars, sub, workerVars, resultCh, shutdown>>

-----------------------------------------------------------------------------
\* The workers

Move(w, label) == wpc' = [wpc EXCEPT ![w] = label]

Conclude(w, what) ==
  /\ outcome' = [outcome EXCEPT ![w] = what]
  /\ Move(w, "send")

OutsideWorker == <<sub, gone, shutdown, closed, chan>>

\* A receive, also from a channel closed with jobs left in it.
TakeJob(w) ==
  /\ wpc[w] = "idle"
  /\ queue # <<>>
  /\ wjob' = [wjob EXCEPT ![w] = Head(queue)]
  /\ queue' = Tail(queue)
  /\ Move(w, "retry")
  /\ UNCHANGED <<OutsideWorker, outcome, attempt, resultCh>>

\* Mutation: a closed channel ends the worker, whatever is left in it.
LeaveOnClose(w) ==
  /\ wpc[w] = "idle"
  /\ chan = "closed"
  /\ Move(w, "gone")
  /\ UNCHANGED <<OutsideWorker, queue, wjob, outcome, attempt, resultCh>>

\* The channel is closed and drained.  The context of Start is cancelled only
\* when main returns.
WorkerExit(w) ==
  /\ wpc[w] = "idle"
  /\ chan = "closed"
  /\ queue = <<>>
  /\ Move(w, "gone")
  /\ UNCHANGED <<OutsideWorker, queue, wjob, outcome, attempt, resultCh>>

\* The head of Predict's loop. With no attempt left the loop ends in
\* ErrMLServiceUnavailable; a cancelled context ends it as well.
StartAttempt(w) ==
  /\ wpc[w] = "retry"
  /\ IF attempt[wjob[w]] = MaxRetries \/ gone[wjob[w]]
     THEN Conclude(w, "error") /\ UNCHANGED attempt
     ELSE /\ attempt' = [attempt EXCEPT ![wjob[w]] = @ + 1]
          /\ Move(w, "call")
          /\ UNCHANGED outcome
  /\ UNCHANGED <<OutsideWorker, queue, wjob, resultCh>>

\* The service answers; the answer may have been read just before the context
\* ended.
AttemptAnswered(w) ==
  /\ wpc[w] = "call"
  /\ Conclude(w, "ok")
  /\ UNCHANGED <<OutsideWorker, queue, wjob, attempt, resultCh>>

\* Mutation: the first failure is final.
GiveUpAtOnce(w) ==
  /\ wpc[w] = "call"
  /\ Conclude(w, "error")
  /\ UNCHANGED <<OutsideWorker, queue, wjob, attempt, resultCh>>

\* Timeout of the attempt, transport error, status other than 200, bad body.
AttemptFailed(w) ==
  /\ wpc[w] = "call"
  /\ IF attempt[wjob[w]] < MaxRetries
     THEN Move(w, "backoff") /\ UNCHANGED outcome
     ELSE Conclude(w, "error")
  /\ UNCHANGED <<OutsideWorker, queue, wjob, attempt, resultCh>>

\* The timer fires, or the context ends first; if both, either is chosen.
BackoffOver(w) ==
  /\ wpc[w] = "backoff"
  /\ Move(w, "retry")
  /\ UNCHANGED <<OutsideWorker, queue, wjob, outcome, attempt, resultCh>>

BackoffCut(w) ==
  /\ wpc[w] = "backoff"
  /\ gone[wjob[w]]
  /\ Conclude(w, "error")
  /\ UNCHANGED <<OutsideWorker, queue, wjob, attempt, resultCh>>

Release(w) ==
  /\ wjob' = [wjob EXCEPT ![w] = NoJob]
  /\ outcome' = [outcome EXCEPT ![w] = "none"]
  /\ Move(w, "idle")

SendResult(w) ==
  /\ wpc[w] = "send"
  /\ resultCh[wjob[w]] = "empty"
  /\ resultCh' = [resultCh EXCEPT ![wjob[w]] = outcome[w]]
  /\ Release(w)
  /\ UNCHANGED <<OutsideWorker, queue, attempt>>

\* Mutation: a result nobody takes at once is dropped.
DropUnlessAwaited(w) ==
  /\ wpc[w] = "send"
  /\ Release(w)
  /\ UNCHANGED <<OutsideWorker, queue, attempt, resultCh>>

\* The caller's context is done: the result is dropped.
DropResult(w) ==
  /\ wpc[w] = "send"
  /\ gone[wjob[w]]
  /\ Release(w)
  /\ UNCHANGED <<OutsideWorker, queue, attempt, resultCh>>

Worker(w) ==
  \/ TakeJob(w) \/ WorkerExit(w) \/ StartAttempt(w)
  \/ AttemptAnswered(w) \/ AttemptFailed(w)
  \/ BackoffOver(w) \/ BackoffCut(w)
  \/ SendResult(w) \/ DropResult(w)

-----------------------------------------------------------------------------
\* Shutdown

OutsideShutdown == <<queue, sub, workerVars, resultCh, gone>>

SetClosed ==
  /\ shutdown = "none"
  /\ closed' = TRUE
  /\ shutdown' = "flagged"
  /\ UNCHANGED <<OutsideShutdown, chan>>

\* Mutation: close(p.jobs) is forgotten.
LeaveChannelOpen ==
  /\ shutdown = "flagged"
  /\ shutdown' = "waiting"
  /\ UNCHANGED <<OutsideShutdown, closed, chan>>

CloseChannel ==
  /\ shutdown = "flagged"
  /\ chan' = "closed"
  /\ shutdown' = "waiting"
  /\ UNCHANGED <<OutsideShutdown, closed>>

AllWorkersGone == \A w \in Workers : wpc[w] = "gone"

Drained ==
  /\ shutdown = "waiting"
  /\ AllWorkersGone
  /\ shutdown' = "drained"
  /\ UNCHANGED <<OutsideShutdown, closed, chan>>

\* The deadline of Shutdown's context; workers go on by themselves.
DrainTimeout ==
  /\ shutdown = "waiting"
  /\ shutdown' = "timeout"
  /\ UNCHANGED <<OutsideShutdown, closed, chan>>

-----------------------------------------------------------------------------
\* Properties

Queued(j) == \E i \in 1..Len(queue) : queue[i] = j

InHands(j) == \E w \in Workers : wjob[w] = j

\* Every variable keeps its type; the queue is bounded, and so are the attempts.
PoolTypeOK ==
  /\ closed \in BOOLEAN
  /\ chan \in {"open", "closed"}
  /\ queue \in Seq(Jobs) /\ Len(queue) <= QueueSize
  /\ sub \in [Jobs -> {"idle", "checked", "accepted", "full", "refused", "panic"}]
  /\ wpc \in [Workers -> {"idle", "retry", "call", "backoff", "send", "gone"}]
  /\ wjob \in [Workers -> Jobs \cup {NoJob}]
  /\ outcome \in [Workers -> {"none", "ok", "error"}]
  /\ attempt \in [Jobs -> 0..MaxRetries]
  /\ resultCh \in [Jobs -> {"empty", "ok", "error"}]
  /\ gone \in [Jobs -> BOOLEAN]
  /\ shutdown \in {"none", "flagged", "waiting", "drained", "timeout"}

\* A job is never lost: once accepted it is queued, or in the hands of a
\* worker, or answered, unless its caller left.
NoJobLost ==
  \A j \in Jobs : sub[j] = "accepted" =>
    \/ Queued(j)
    \/ InHands(j)
    \/ resultCh[j] # "empty"
    \/ gone[j]

\* A caller that still waits is told "error" only after the last retry failed.
ErrorAfterAllRetries ==
  \A j \in Jobs : (resultCh[j] = "error" /\ ~gone[j]) => attempt[j] = MaxRetries
=============================================================================
