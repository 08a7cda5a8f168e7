--------------------------- MODULE FleetAbstract ---------------------------
(***************************************************************************)
(* What seeding promises, without transactions, locks or crashes in the    *)
(* middle: an empty table gets the whole fleet of one process in one step, *)
(* only then does a process serve, and from then on drivers change by      *)
(* being assigned and in no other way.                                     *)
(***************************************************************************)
EXTENDS Naturals

CONSTANTS Boots, DriverCount, Legacy

VARIABLES status, phase

absVars == <<status, phase>>

Own(b) == {b} \X (1..DriverCount)
Ids == (UNION {Own(b) : b \in Boots}) \cup Legacy

Init ==
  /\ status = [i \in Ids |-> "ABSENT"]
  /\ phase = [b \in Boots |-> "starting"]

Empty == \A i \in Ids : status[i] = "ABSENT"

\* The process that seeds may be gone before it learns of it.
SeedFleet(b) ==
  /\ Empty
  /\ status' = [i \in Ids |-> IF i \in Own(b) THEN "AVAILABLE"
                               ELSE IF i \in Legacy THEN "OFFLINE" ELSE "ABSENT"]
  /\ \/ phase[b] = "starting" /\ phase' = [phase EXCEPT ![b] = "serving"]
     \/ phase[b] = "exited" /\ UNCHANGED phase

Serve(b) ==
  /\ phase[b] = "starting"
  /\ ~Empty
  /\ phase' = [phase EXCEPT ![b] = "serving"]
  /\ UNCHANGED status

Exit(b) ==
  /\ phase[b] # "exited"
  /\ phase' = [phase EXCEPT ![b] = "exited"]
  /\ UNCHANGED status

Assign(b) ==
  /\ phase[b] = "serving"
  /\ \E i \in Ids : status[i] = "AVAILABLE" /\ status' = [status EXCEPT ![i] = "BUSY"]
  /\ UNCHANGED phase

Next == \E b \in Boots : SeedFleet(b) \/ Serve(b) \/ Exit(b) \/ Assign(b)

Spec == Init /\ [][Next]_absVars
=============================================================================
