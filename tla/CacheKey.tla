------------------------------ MODULE CacheKey ------------------------------
(***************************************************************************)
(* Which predictions share a cache entry (internal/cache/prediction_cache) *)
(* against what the model service computes a prediction from (FEATURE_     *)
(* COLUMNS of src/ml-service/app/features.py).  A datetime is the minute   *)
(* it writes, in local time, and the form it is written in; a trip stands  *)
(* for rounded coordinates and a passenger count.                          *)
(***************************************************************************)
EXTENDS Integers, FiniteSets

CONSTANTS
  Trips,
  Times,        \* pickup times
  Offsets,      \* the zones of RFC 3339 datetimes, in minutes east of UTC
  Vendors,      \* 0 is an absent vendor_id
  Flags,        \* "" is an absent store_and_fwd_flag
  MaxEntries,   \* bound on the entries of the cache
  NoZone,       \* the form of a datetime without a zone
  NoSeconds,    \* that of one without seconds and zone, as keys write it
  NoRequest

TimeBucketMinutes == 10

ASSUME CacheKeyAssumption ==
  /\ Times \subseteq Nat
  /\ Offsets \subseteq Int
  /\ NoZone \notin Offsets /\ NoSeconds \notin Offsets
  /\ Vendors \subseteq 0..2
  /\ Flags \subseteq {"", "N", "n", "Y", "y"}

Request == [trip : Trips, at : Times, zone : Offsets \cup {NoZone, NoSeconds},
            vendor : Vendors, flag : Flags]

-----------------------------------------------------------------------------
\* Mutation: rounded to the nearest bucket.
NearestBucket(req) ==
  IF req.zone \in Offsets
  THEN LET instant == req.at - req.zone + TimeBucketMinutes \div 2
       IN <<(instant - (instant % TimeBucketMinutes)) + req.zone, NoSeconds>>
  ELSE <<req.at, req.zone>>

\* timeBucket parses RFC 3339, which has seconds and a zone, truncates the
\* instant and formats it in its own zone without either; anything else is
\* used as it is written, and may read like a bucket.
TimeBucket(req) ==
  IF req.zone \in Offsets
  THEN LET instant == req.at - req.zone
       IN <<(instant - (instant % TimeBucketMinutes)) + req.zone, NoSeconds>>
  ELSE <<req.at, req.zone>>

Key(req) == <<req.trip, TimeBucket(req)>>

\* The inputs of the model, with the defaults and the upper-casing of
\* PredictionRequest (schemas.py) for a request the service accepts.
Features(req) ==
  [trip |-> req.trip,
   hour |-> req.at \div 60,
   vendor |-> IF req.vendor = 0 THEN 1 ELSE req.vendor,
   forwarded |-> req.flag \in {"Y", "y"}]

-----------------------------------------------------------------------------
VARIABLES
  cache,        \* entries: the key, and the request whose answer is stored
  last,         \* the request served last
  answered      \* the request whose answer it was given

vars == <<cache, last, answered>>

Init ==
  /\ cache = {}
  /\ last = NoRequest
  /\ answered = NoRequest

Served(req, other) == last' = req /\ answered' = other

Hit(req) ==
  /\ \E e \in cache : e.key = Key(req) /\ Served(req, e.req)
  /\ UNCHANGED cache

\* No entry, or an unreachable Redis; the SETEX may fail as well.
Miss(req) ==
  /\ Served(req, req)
  /\ cache' \in {cache, {e \in cache : e.key # Key(req)} \cup {[key |-> Key(req), req |-> req]}}
  /\ Cardinality(cache') <= MaxEntries

Expire ==
  /\ \E e \in cache : cache' = cache \ {e}
  /\ UNCHANGED <<last, answered>>

Next == Expire \/ \E req \in Request : Hit(req) \/ Miss(req)

Spec == Init /\ [][Next]_vars

-----------------------------------------------------------------------------
\* Properties

\* The buckets of the zone, counted in UTC, do not cross its hours.
WholeBuckets(req) == req.zone \in Offsets => req.zone % TimeBucketMinutes = 0

\* A cached answer was computed for the same trip at a written time less than a
\* bucket away, however the two datetimes are written and however often entries
\* are replaced, expire or fail to be stored: requests written an hour apart do
\* not share an entry (prediction_cache.go:5-8).  They are of the same hour, the
\* finest time the model looks at, unless a zone such as +05:45 is involved.
SameTraffic ==
  last # NoRequest =>
    /\ answered.trip = last.trip
    /\ answered.at - last.at \in -(TimeBucketMinutes - 1)..(TimeBucketMinutes - 1)
    /\ WholeBuckets(answered) /\ WholeBuckets(last) =>
         Features(answered).hour = Features(last).hour

\* The key is built "from the fields that actually affect the prediction"
\* (prediction_cache.go:33-34), so a cached answer is the answer.
AnswerFitsRequest == last # NoRequest => Features(answered) = Features(last)
=============================================================================
