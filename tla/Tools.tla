------------------------------- MODULE Tools -------------------------------
(***************************************************************************)
(* The two command line tools that drive the backend.  They are programs   *)
(* of their own: a behaviour is a run of one of them, chosen at the start. *)
(***************************************************************************)
EXTENDS Simulator, LoadTest

VARIABLE tool

vars == <<tool, simVars, loadVars>>

\* The file and the fleet matter to the simulator only.
Init ==
  /\ SimInit
  /\ LoadInit
  /\ \/ tool = "simulator"
     \/ /\ tool = "loadtest"
        /\ shape = [r \in Records |-> "good"]
        /\ limit = CHOOSE n \in Limits : TRUE
        /\ senders = Senders
        /\ driver = [d \in Drivers |-> "AVAILABLE"]

Over == CASE tool = "simulator" -> SimOver [] tool = "loadtest" -> LoadOver

Next ==
  \/ tool = "simulator" /\ SimNext /\ UNCHANGED <<tool, loadVars>>
  \/ tool = "loadtest" /\ LoadNext /\ UNCHANGED <<tool, simVars>>
  \/ Over /\ UNCHANGED vars

Spec == Init /\ [][Next]_vars

FairSpec ==
  /\ Spec
  /\ tool = "simulator" => SimFairness
  /\ tool = "loadtest" => LoadFairness

\* The types of both tools.
TypeOK == SimTypeOK /\ LoadTypeOK

\* Each tool ends, whether or not the backend ever answers: the senders and the
\* users have timeouts, and main waits for nobody else.
ToolEnds == <>Over
=============================================================================
