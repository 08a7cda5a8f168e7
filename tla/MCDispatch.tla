----------------------------- MODULE MCDispatch -----------------------------
(***************************************************************************)
(* Instances of Dispatch: up to four requests over up to three drivers,    *)
(* whose distances rank the drivers in conflicting orders, two of them     *)
(* with a tie that the id breaks.                                          *)
(***************************************************************************)
EXTENDS Dispatch

Distance == << <<1, 2, 3>>, <<3, 2, 1>>, <<2, 1, 1>>, <<1, 1, 2>> >>

MCDist == [r \in Requests |-> [d \in Drivers |-> Distance[r][d]]]
=============================================================================
