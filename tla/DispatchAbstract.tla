-------------------------- MODULE DispatchAbstract --------------------------
(***************************************************************************)
(* What trip creation promises, without transactions, locks or handlers:   *)
(* the nearest AVAILABLE driver is made BUSY and given to the trip in one  *)
(* indivisible step, and "no driver" is answered only when none is left.   *)
(***************************************************************************)
EXTENDS Naturals

CONSTANTS Requests, Drivers, Dist, None

VARIABLES driver, trip, result

absVars == <<driver, trip, result>>

Free == {d \in Drivers : driver[d] = "AVAILABLE"}

Preferred(r, d) ==
  \A e \in Free \ {d} :
    Dist[r][d] < Dist[r][e] \/ (Dist[r][d] = Dist[r][e] /\ d < e)

Init ==
  /\ driver \in [Drivers -> {"AVAILABLE", "BUSY", "OFFLINE"}]
  /\ trip = [r \in Requests |-> [status |-> "ABSENT", driver |-> None]]
  /\ result = [r \in Requests |-> "NONE"]

\* The trip exists; its creator may be told otherwise.
Create(r) ==
  /\ trip[r].status = "ABSENT"
  /\ trip' = [trip EXCEPT ![r] = [status |-> "PENDING", driver |-> None]]
  /\ result' \in {result, [result EXCEPT ![r] = "NOT_CREATED"]}
  /\ UNCHANGED driver

\* Driver and trip change together; the creator may never learn of it, or have
\* been told that the assignment failed.
AssignNearest(r) ==
  /\ trip[r].status = "PENDING"
  /\ result[r] \in {"NONE", "FAILED"}
  /\ \E d \in Free :
       /\ Preferred(r, d)
       /\ driver' = [driver EXCEPT ![d] = "BUSY"]
       /\ trip' = [trip EXCEPT ![r] = [status |-> "DISPATCHED", driver |-> d]]
  /\ result' \in {result, [result EXCEPT ![r] = "DISPATCHED"]}

GiveUp(r) ==
  /\ result[r] = "NONE"
  /\ \/ /\ trip[r].status = "PENDING" /\ Free = {}
        /\ result' = [result EXCEPT ![r] = "NO_DRIVER"]
     \/ /\ trip[r].status = "PENDING"
        /\ result' = [result EXCEPT ![r] = "FAILED"]
     \/ /\ trip[r].status = "ABSENT"
        /\ result' = [result EXCEPT ![r] = "NOT_CREATED"]
  /\ UNCHANGED <<driver, trip>>

Next == \E r \in Requests : Create(r) \/ AssignNearest(r) \/ GiveUp(r)

Spec == Init /\ [][Next]_absVars
=============================================================================
