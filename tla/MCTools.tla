------------------------------ MODULE MCTools ------------------------------
(***************************************************************************)
(* Instances of Tools: records that are not in the order of time, two of   *)
(* one time, more than the limit if there is one, and more than the        *)
(* channel of one sender holds.                                            *)
(***************************************************************************)
EXTENDS Tools

MCTime == [r \in Records |-> IF r = 2 THEN 1 ELSE 2]
MCDist == [r \in Records |-> [d \in Drivers |-> d]]
MCLevels == <<1, 2>>
=============================================================================
