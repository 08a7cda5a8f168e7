---------------------------- MODULE PoolAbstract ----------------------------
(***************************************************************************)
(* What the worker pool promises its callers, without channels, workers,   *)
(* attempts or the order of a shutdown: a bounded set of pending jobs, of  *)
(* which each is answered once or dropped because its caller has left.     *)
(* A job is turned away only when a queue full of others is pending, and   *)
(* the service stops when nothing is pending.                              *)
(***************************************************************************)
EXTENDS Naturals, FiniteSets

CONSTANTS
  Jobs,
  QueueSize,    \* so many jobs are never turned away
  Capacity      \* so many are never exceeded

VARIABLES
  place,        \* "out", "pending", "full", "ok", "error" or "dropped"
  left,         \* the caller has left
  stopped

absVars == <<place, left, stopped>>

Init ==
  /\ place = [j \in Jobs |-> "out"]
  /\ left = [j \in Jobs |-> FALSE]
  /\ stopped = FALSE

Pending == {j \in Jobs : place[j] = "pending"}

Put(j, where) == place' = [place EXCEPT ![j] = where] /\ UNCHANGED <<left, stopped>>

Accept(j) ==
  /\ ~stopped
  /\ place[j] = "out"
  /\ Cardinality(Pending) < Capacity
  /\ Put(j, "pending")

TurnAway(j) ==
  /\ ~stopped
  /\ place[j] = "out"
  /\ Cardinality(Pending) >= QueueSize
  /\ Put(j, "full")

Answer(j) ==
  /\ place[j] = "pending"
  /\ \E what \in {"ok", "error"} : Put(j, what)

Drop(j) ==
  /\ place[j] = "pending"
  /\ left[j]
  /\ Put(j, "dropped")

Leave(j) ==
  /\ ~left[j]
  /\ left' = [left EXCEPT ![j] = TRUE]
  /\ UNCHANGED <<place, stopped>>

Stop ==
  /\ ~stopped
  /\ Pending = {}
  /\ stopped' = TRUE
  /\ UNCHANGED <<place, left>>

Next ==
  \/ \E j \in Jobs : Accept(j) \/ TurnAway(j) \/ Answer(j) \/ Drop(j) \/ Leave(j)
  \/ Stop

Spec == Init /\ [][Next]_absVars
=============================================================================
