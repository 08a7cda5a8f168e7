-------------------------- MODULE MCPredictServer --------------------------
(***************************************************************************)
(* Instances of PredictServer: the requests share one cache key, so each   *)
(* may be served the answer to the other.                                  *)
(***************************************************************************)
EXTENDS PredictServer

MCKey == [j \in Jobs |-> CHOOSE k \in Keys : TRUE]
=============================================================================
