----------------------------- MODULE MCCacheKey -----------------------------
(***************************************************************************)
(* Pickup times around the hour and at the start of a bucket, written in   *)
(* UTC, in New York, in a zone that is not a whole number of buckets, and  *)
(* without a zone.                                                         *)
(***************************************************************************)
EXTENDS CacheKey

MCTimes == {50, 56, 60, 62}
MCOffsets == {0, -240, 345}

MCZoned == {0, -240}
=============================================================================
