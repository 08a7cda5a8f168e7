--------------------------- MODULE CacheKey_proofs ---------------------------
(***************************************************************************)
(* Proofs about CacheKey, for any trips, times, zones and size of the      *)
(* cache: the written times of requests that share a key are less than a   *)
(* bucket apart, and of the same hour where the buckets fit the zones.     *)
(***************************************************************************)
EXTENDS CacheKey, TLAPS

\* Every entry is stored under the key of the request it answers, and what was
\* served last was found under the key of the request served.
IInv ==
  /\ \A e \in cache : e.req \in Request /\ e.key = Key(e.req)
  /\ last # NoRequest =>
       last \in Request /\ answered \in Request /\ Key(answered) = Key(last)

-----------------------------------------------------------------------------
\* Time buckets

\* A truncated instant is less than a bucket behind the time written, and in
\* the same hour in a zone of whole buckets.
LEMMA LocalBucket ==
  ASSUME NEW at \in Nat, NEW zone \in Int, NEW b,
         b = ((at - zone) - ((at - zone) % 10)) + zone
  PROVE  /\ b \in Int /\ b <= at /\ at <= b + 9
         /\ zone % 10 = 0 => b \div 60 = at \div 60
<1>1. b \in Int /\ b <= at /\ at <= b + 9
  OBVIOUS
<1>2. ASSUME zone % 10 = 0 PROVE b \div 60 = at \div 60
  <2>1. b = at - (at % 10)
    BY <1>2
  <2> QED
    BY <2>1
<1> QED
  BY <1>1, <1>2

\* So is the time that a key names, be it a bucket or a datetime as written.
LEMMA NamedTime ==
  ASSUME NEW r \in Request
  PROVE  LET b == TimeBucket(r)[1] IN
         /\ b \in Int /\ b <= r.at /\ r.at <= b + 9
         /\ WholeBuckets(r) => b \div 60 = r.at \div 60
<1>1. r.at \in Nat /\ (r.zone \in Offsets => r.zone \in Int)
  BY CacheKeyAssumption DEF Request
<1>2. CASE r.zone \in Offsets
  <2>1. TimeBucket(r)[1] = ((r.at - r.zone) - ((r.at - r.zone) % 10)) + r.zone
    BY <1>2 DEF TimeBucket, TimeBucketMinutes
  <2> QED
    BY <1>1, <1>2, <2>1, LocalBucket DEF WholeBuckets, TimeBucketMinutes
<1>3. CASE r.zone \notin Offsets
  BY <1>1, <1>3 DEF TimeBucket
<1> QED
  BY <1>2, <1>3

\* Requests with one key are for one trip, at nearly the same written time.
LEMMA SameKeySameTime ==
  ASSUME NEW a \in Request, NEW b \in Request, Key(a) = Key(b)
  PROVE  /\ a.trip = b.trip /\ a.at - b.at \in -9..9
         /\ WholeBuckets(a) /\ WholeBuckets(b) => a.at \div 60 = b.at \div 60
<1>1. a.trip = b.trip /\ TimeBucket(a)[1] = TimeBucket(b)[1]
  BY DEF Key
<1>2. a.at \in Nat /\ b.at \in Nat
  BY CacheKeyAssumption DEF Request
<1> QED
  BY <1>1, <1>2, NamedTime

-----------------------------------------------------------------------------
\* The cache

\* Nothing is stored and nothing was served.
LEMMA InitInv == Init => IInv
  BY DEF Init, IInv

\* A hit serves an entry of the key, a miss the request itself.
LEMMA StepInv == IInv /\ [Next]_vars => IInv'
<1> SUFFICES ASSUME IInv, [Next]_vars PROVE IInv'
  OBVIOUS
<1>1. ASSUME NEW req \in Request, Hit(req) PROVE IInv'
  BY <1>1 DEF IInv, Hit, Served
<1>2. ASSUME NEW req \in Request, Miss(req) PROVE IInv'
  <2>1. \A e \in cache' : e \in cache \/ e = [key |-> Key(req), req |-> req]
    BY <1>2 DEF Miss
  <2>2. \A e \in cache' : e.req \in Request /\ e.key = Key(e.req)
    BY <2>1 DEF IInv
  <2> QED
    BY <1>2, <2>2 DEF IInv, Miss, Served
<1>3. CASE Expire
  BY <1>3 DEF IInv, Expire
<1>4. CASE UNCHANGED vars
  BY <1>4 DEF IInv, vars
<1> QED
  BY <1>1, <1>2, <1>3, <1>4 DEF Next

\* A cached answer was computed for the same trip at a written time less than
\* ten minutes away, for datetimes of every form and in every zone; in the same
\* hour too where zones are whole buckets.
THEOREM SameTrafficHolds == Spec => []SameTraffic
<1>1. IInv => SameTraffic
  BY SameKeySameTime DEF IInv, SameTraffic, Features, TimeBucketMinutes
<1> QED
  BY InitInv, StepInv, <1>1, PTL DEF Spec
=============================================================================
