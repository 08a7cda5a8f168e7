---------------------------- MODULE Tools_proofs ----------------------------
(***************************************************************************)
(* Proofs about Tools: the types, and that the reports of the load test    *)
(* and of the simulator are true, for any users, levels, records, times,   *)
(* limits and senders, whatever the backend answers.                       *)
(***************************************************************************)
EXTENDS Tools, FiniteSetTheorems, FunctionTheorems, SequenceTheorems, TLAPS

-----------------------------------------------------------------------------
\* The load test: what is still to be recorded

Unrecorded == {u \in Users : upc[u] \in {"wait", "recordErr", "latency"}}
Untotalled == {u \in Users : upc[u] = "total"}
UncountedOk == {u \in Users : upc[u] = "status" /\ got[u] = 200}
UncountedErr == {u \in Users : upc[u] = "status" /\ got[u] # 200}

\* Users run only while main waits for them.
LoadIdle ==
  /\ bench # "wait" => \A u \in Users : upc[u] = "gone"
  /\ bench # "exit" => level <= Len(Levels)

\* Each user adds one to the latencies, to the totals and to its status in turn.
LoadSums ==
  /\ latencies + Cardinality(Unrecorded) = Cardinality(Made)
  /\ total.ok + total.err + Cardinality(Untotalled) = latencies
  /\ statusCount[200] + Cardinality(UncountedOk) = total.ok
  /\ statusCount[0] + statusCount[503] + Cardinality(UncountedErr) = total.err

\* A user that goes on with 0 has recorded the error first.
FirstErr ==
  /\ \A u \in Users : upc[u] = "recordErr" => got[u] = 0
  /\ firstErr <=> \/ statusCount[0] > 0
                  \/ \E u \in Users : upc[u] \in {"latency", "total", "status"} /\ got[u] = 0

LoadInv == LoadTypeOK /\ LoadIdle /\ LoadSums /\ FirstErr

UserPlaces == {"gone", "loop", "wait", "recordErr", "latency", "total", "status"}

\* A set of users which one user joins or leaves.
LEMMA UserJoins ==
  ASSUME NEW S \in SUBSET Users, NEW T \in SUBSET Users, NEW u \in Users,
         u \notin S, T = S \cup {u}
  PROVE  /\ Cardinality(S) \in Nat /\ Cardinality(T) \in Nat
         /\ Cardinality(T) = Cardinality(S) + 1
<1>1. IsFiniteSet(S)
  BY LoadTestAssumption, FS_Subset
<1>2. Cardinality(S \cup {u}) = Cardinality(S) + 1 /\ IsFiniteSet(S \cup {u})
  BY <1>1, FS_AddElement
<1> QED
  BY <1>1, <1>2, FS_CardinalityType

\* The cardinalities the sums speak of are numbers.
LEMMA LoadFinite ==
  /\ IsFiniteSet(Made) /\ Cardinality(Made) \in Nat
  /\ Cardinality(Unrecorded) \in Nat /\ Cardinality(Untotalled) \in Nat
  /\ Cardinality(UncountedOk) \in Nat /\ Cardinality(UncountedErr) \in Nat
<1>1. IsFiniteSet(Users \X (1..MaxPosts))
  <2>1. IsFiniteSet(1..MaxPosts)
    BY LoadTestAssumption, FS_Interval
  <2> QED
    BY <2>1, LoadTestAssumption, FS_Product
<1>2. IsFiniteSet(Made)
  BY <1>1, FS_Subset DEF Made
<1>3. IsFiniteSet(Unrecorded) /\ IsFiniteSet(Untotalled)
  BY LoadTestAssumption, FS_Subset DEF Unrecorded, Untotalled
<1>4. IsFiniteSet(UncountedOk) /\ IsFiniteSet(UncountedErr)
  BY LoadTestAssumption, FS_Subset DEF UncountedOk, UncountedErr
<1> QED
  BY <1>2, <1>3, <1>4, FS_CardinalityType

-----------------------------------------------------------------------------
\* The load test: its steps

\* The sums speak of the users and the result only.
LEMMA LoadSame ==
  ASSUME LoadSums, FirstErr, UNCHANGED <<upc, got, posts, latencies, total, statusCount, firstErr>>
  PROVE  LoadSums' /\ FirstErr'
<1>1. /\ Made' = Made /\ Unrecorded' = Unrecorded /\ Untotalled' = Untotalled
      /\ UncountedOk' = UncountedOk /\ UncountedErr' = UncountedErr
  BY DEF Made, Unrecorded, Untotalled, UncountedOk, UncountedErr
<1>2. LoadSums'
  BY <1>1 DEF LoadSums
<1> QED
  BY <1>2 DEF FirstErr

\* Nobody runs and nothing is counted.
LEMMA LoadNothing ==
  ASSUME \A u \in Users : upc[u] \in {"gone", "loop"} /\ posts[u] = 0,
         latencies = 0, total = [ok |-> 0, err |-> 0],
         statusCount = [c \in Codes |-> 0], firstErr = FALSE
  PROVE  LoadSums /\ FirstErr
<1>1. Made = {} /\ Unrecorded = {} /\ Untotalled = {} /\ UncountedOk = {} /\ UncountedErr = {}
  BY DEF Made, Unrecorded, Untotalled, UncountedOk, UncountedErr
<1>2. statusCount[0] = 0 /\ statusCount[200] = 0 /\ statusCount[503] = 0
  BY DEF Codes
<1>3. LoadSums
  <2>1. total.ok = 0 /\ total.err = 0
    BY <1>1
  <2> QED
    BY <1>1, <1>2, <2>1, FS_EmptySet DEF LoadSums
<1>4. FirstErr
  BY <1>2 DEF FirstErr
<1> QED
  BY <1>3, <1>4

\* The invariant holds at the start.
LEMMA LoadInitInv == LoadInit => LoadInv
<1> SUFFICES ASSUME LoadInit PROVE LoadInv
  OBVIOUS
<1>1. LoadTypeOK /\ LoadIdle
  <2>1. Len(Levels) \in Nat /\ Len(Levels) > 0
    BY LoadTestAssumption
  <2>2. upc \in [Users -> UserPlaces] /\ got \in [Users -> Codes] /\ statusCount \in [Codes -> Nat]
    BY DEF LoadInit, UserPlaces, Codes
  <2>3. posts \in [Users -> 0..MaxPosts]
    BY LoadTestAssumption DEF LoadInit
  <2>4. \A u \in Users : upc[u] = "gone"
    BY DEF LoadInit
  <2>5. /\ level = 1 /\ bench = "start" /\ late = FALSE /\ firstErr = FALSE
        /\ latencies = 0 /\ total = [ok |-> 0, err |-> 0]
    BY DEF LoadInit
  <2>6. total \in [ok : Nat, err : Nat]
    BY <2>5
  <2>7. LoadIdle
    BY <2>1, <2>4, <2>5 DEF LoadIdle
  <2>8. level \in 1..Len(Levels) + 1 /\ bench \in {"start", "wait", "report", "exit"} /\ latencies \in Nat
    BY <2>1, <2>5
  <2>9. late \in BOOLEAN /\ firstErr \in BOOLEAN
    BY <2>5
  <2> QED
    BY <2>2, <2>3, <2>4, <2>6, <2>7, <2>8, <2>9 DEF LoadTypeOK, UserPlaces
<1>2. LoadSums /\ FirstErr
  BY LoadNothing DEF LoadInit
<1> QED
  BY <1>1, <1>2 DEF LoadInv

\* A level starts when nobody runs.
LEMMA StartLevelStep == LoadInv /\ StartLevel => LoadInv'
<1> SUFFICES ASSUME LoadInv, StartLevel PROVE LoadInv'
  OBVIOUS
<1>1. /\ bench = "start" /\ bench' = "wait" /\ level' = level /\ got' = got
      /\ upc' = [u \in Users |-> IF u <= Levels[level] THEN "loop" ELSE upc[u]]
      /\ posts' = [u \in Users |-> 0] /\ late' = FALSE /\ latencies' = 0
      /\ total' = [ok |-> 0, err |-> 0] /\ statusCount' = [c \in Codes |-> 0] /\ firstErr' = FALSE
  BY DEF StartLevel
<1>2. \A u \in Users : upc[u] = "gone"
  BY <1>1 DEF LoadInv, LoadIdle
<1>3. LoadTypeOK'
  <2>1. upc' \in [Users -> UserPlaces] /\ \A u \in Users : upc'[u] # "gone" => u <= Levels[level]
    BY <1>1, <1>2 DEF UserPlaces
  <2>2. posts' \in [Users -> 0..MaxPosts]
    BY <1>1, LoadTestAssumption
  <2> QED
    BY <1>1, <2>1, <2>2 DEF LoadInv, LoadTypeOK, UserPlaces
<1>4. LoadIdle'
  BY <1>1 DEF LoadInv, LoadIdle
<1>5. \A u \in Users : upc'[u] \in {"gone", "loop"} /\ posts'[u] = 0
  BY <1>1, <1>2
<1>6. Made' = {} /\ Unrecorded' = {} /\ Untotalled' = {} /\ UncountedOk' = {} /\ UncountedErr' = {}
  BY <1>5 DEF Made, Unrecorded, Untotalled, UncountedOk, UncountedErr
<1>7. statusCount'[0] = 0 /\ statusCount'[200] = 0 /\ statusCount'[503] = 0
  BY <1>1 DEF Codes
<1>8. LoadSums'
  <2>1. total'.ok = 0 /\ total'.err = 0
    BY <1>1, <1>6
  <2> QED
    BY <1>1, <1>6, <1>7, <2>1, FS_EmptySet DEF LoadSums
<1>9. FirstErr'
  BY <1>1, <1>5, <1>7 DEF FirstErr
<1> QED
  BY <1>3, <1>4, <1>8, <1>9 DEF LoadInv

\* Waiting, printing and the clock count nothing.
LEMMA LoadMainStep == LoadInv /\ (WaitForUsers \/ PrintLevel \/ DeadlinePasses) => LoadInv'
<1> SUFFICES ASSUME LoadInv, WaitForUsers \/ PrintLevel \/ DeadlinePasses PROVE LoadInv'
  OBVIOUS
<1>1. UNCHANGED <<upc, got, posts, latencies, total, statusCount, firstErr>>
  BY DEF WaitForUsers, PrintLevel, DeadlinePasses, userVars, resultVars
<1>2. Len(Levels) \in Nat /\ Len(Levels) > 0
  BY LoadTestAssumption
<1>3. LoadTypeOK'
  <2>1. CASE WaitForUsers
    BY <1>1, <2>1 DEF WaitForUsers, LoadInv, LoadTypeOK
  <2>2. CASE PrintLevel
    BY <1>1, <1>2, <2>2 DEF PrintLevel, LoadInv, LoadTypeOK, LoadIdle
  <2>3. CASE DeadlinePasses
    BY <1>1, <2>3 DEF DeadlinePasses, LoadInv, LoadTypeOK
  <2> QED
    BY <2>1, <2>2, <2>3
<1>4. LoadIdle'
  <2>1. CASE WaitForUsers
    BY <1>1, <2>1 DEF WaitForUsers, LoadInv, LoadIdle
  <2>2. CASE PrintLevel
    <3>1. level \in Nat /\ level <= Len(Levels) /\ \A u \in Users : upc[u] = "gone"
      BY <1>2, <2>2 DEF PrintLevel, LoadInv, LoadIdle, LoadTypeOK
    <3> QED
      BY <1>1, <1>2, <2>2, <3>1 DEF PrintLevel, LoadIdle
  <2>3. CASE DeadlinePasses
    BY <1>1, <2>3 DEF DeadlinePasses, LoadInv, LoadIdle
  <2> QED
    BY <2>1, <2>2, <2>3
<1>5. LoadSums' /\ FirstErr'
  BY <1>1, LoadSame DEF LoadInv
<1> QED
  BY <1>3, <1>4, <1>5 DEF LoadInv
\* What a user's step leaves alone.
UserStep(u, to) ==
  /\ upc' = [upc EXCEPT ![u] = to] /\ to \in UserPlaces
  /\ bench' = bench /\ level' = level /\ late' = late

\* A user runs only while main waits, and stays within the level.
LEMMA UserPlace ==
  ASSUME LoadInv, NEW u \in Users, NEW to, UserStep(u, to), upc[u] # "gone"
  PROVE  /\ upc' \in [Users -> UserPlaces] /\ LoadIdle' /\ bench = "wait"
         /\ \A v \in Users : upc'[v] = IF v = u THEN to ELSE upc[v]
         /\ level' \in 1..Len(Levels) + 1 /\ bench' \in {"start", "wait", "report", "exit"}
         /\ late' \in BOOLEAN
         /\ \A v \in Users : upc'[v] # "gone" => bench' = "wait" /\ v <= Levels[level']
<1>1. upc \in [Users -> UserPlaces] /\ bench = "wait" /\ u <= Levels[level]
  BY DEF LoadInv, LoadTypeOK, UserPlaces
<1>2. \A v \in Users : upc'[v] = IF v = u THEN to ELSE upc[v]
  BY <1>1 DEF UserStep
<1> QED
  BY <1>1, <1>2 DEF UserStep, LoadInv, LoadTypeOK, LoadIdle

\* A request is made.
LEMMA PostStep == ASSUME LoadInv, NEW u \in Users, Post(u) PROVE LoadInv'
<1>1. /\ upc[u] = "loop" /\ posts[u] < MaxPosts /\ UserStep(u, "wait")
      /\ posts' = [posts EXCEPT ![u] = @ + 1]
      /\ UNCHANGED <<got, latencies, total, statusCount, firstErr>>
  BY DEF Post, UserGoto, UserStep, UserPlaces, resultVars
<1>2. \A v \in Users : upc'[v] = IF v = u THEN "wait" ELSE upc[v]
  BY <1>1, UserPlace
<1>3. posts \in [Users -> 0..MaxPosts] /\ MaxPosts \in Nat
  BY LoadTestAssumption DEF LoadInv, LoadTypeOK
<1>4. posts' \in [Users -> 0..MaxPosts]
  BY <1>1, <1>3
<1>5. LoadTypeOK' /\ LoadIdle'
  BY <1>1, <1>4, UserPlace DEF LoadInv, LoadTypeOK, UserPlaces
<1>6. Cardinality(Made') = Cardinality(Made) + 1
  <2>1. posts[u] + 1 \in 1..MaxPosts
    BY <1>1, <1>3
  <2>2. Made' = Made \cup {<<u, posts[u] + 1>>}
    BY <1>1, <1>3, <2>1 DEF Made
  <2>3. <<u, posts[u] + 1>> \notin Made
    BY <1>3 DEF Made
  <2> QED
    BY <2>2, <2>3, LoadFinite, FS_AddElement
<1>7. Cardinality(Unrecorded') = Cardinality(Unrecorded) + 1
  <2>1. Unrecorded' = Unrecorded \cup {u} /\ u \notin Unrecorded
    BY <1>1, <1>2 DEF Unrecorded
  <2> QED
    BY <2>1, UserJoins DEF Unrecorded
<1>8. Untotalled' = Untotalled /\ UncountedOk' = UncountedOk /\ UncountedErr' = UncountedErr
  BY <1>1, <1>2 DEF Untotalled, UncountedOk, UncountedErr
<1>9. LoadSums'
  BY <1>1, <1>6, <1>7, <1>8, LoadFinite DEF LoadInv, LoadSums, LoadTypeOK
<1>10. FirstErr'
  BY <1>1, <1>2 DEF LoadInv, FirstErr
<1> QED
  BY <1>5, <1>9, <1>10 DEF LoadInv

\* The loop ends, or an answer comes: nothing is counted.
LEMMA AnswerStep ==
  ASSUME LoadInv, NEW u \in Users, Leave(u) \/ Response(u) \/ RecordErr(u)
  PROVE  LoadInv'
<1>1. /\ UNCHANGED <<posts, latencies, total, statusCount>>
      /\ upc \in [Users -> UserPlaces] /\ got \in [Users -> Codes]
  BY DEF Leave, Response, RecordErr, resultVars, LoadInv, LoadTypeOK, UserPlaces
<1>2. CASE Leave(u)
  <2>1. UserStep(u, "gone") /\ upc[u] = "loop" /\ UNCHANGED <<got, firstErr>>
    BY <1>2 DEF Leave, UserGoto, UserStep, UserPlaces, resultVars
  <2>2. \A v \in Users : upc'[v] = IF v = u THEN "gone" ELSE upc[v]
    BY <2>1, UserPlace
  <2>3. LoadTypeOK' /\ LoadIdle'
    BY <1>1, <2>1, UserPlace DEF LoadInv, LoadTypeOK, UserPlaces
  <2>4. UNCHANGED <<Made, Unrecorded, Untotalled, UncountedOk, UncountedErr>>
    BY <1>1, <2>1, <2>2 DEF Made, Unrecorded, Untotalled, UncountedOk, UncountedErr
  <2>5. LoadSums' /\ FirstErr'
    BY <1>1, <2>1, <2>2, <2>4 DEF LoadInv, LoadSums, FirstErr
  <2> QED
    BY <2>3, <2>5 DEF LoadInv
<1>3. ASSUME NEW c \in Codes, upc[u] = "wait", got' = [got EXCEPT ![u] = c],
             UserStep(u, IF c = 0 THEN "recordErr" ELSE "latency"), firstErr' = firstErr
      PROVE  LoadInv'
  <2> DEFINE to == IF c = 0 THEN "recordErr" ELSE "latency"
  <2>1. /\ \A v \in Users : upc'[v] = IF v = u THEN to ELSE upc[v]
        /\ \A v \in Users : got'[v] = IF v = u THEN c ELSE got[v]
    BY <1>1, <1>3, UserPlace
  <2>2. LoadTypeOK' /\ LoadIdle'
    BY <1>1, <1>3, UserPlace DEF LoadInv, LoadTypeOK, UserPlaces
  <2>3. UNCHANGED <<Made, Unrecorded, Untotalled, UncountedOk, UncountedErr>>
    BY <1>1, <1>3, <2>1 DEF Made, Unrecorded, Untotalled, UncountedOk, UncountedErr
  <2>4. LoadSums'
    BY <1>1, <2>3 DEF LoadInv, LoadSums
  <2>5. FirstErr'
    BY <1>1, <1>3, <2>1 DEF LoadInv, FirstErr
  <2> QED
    BY <2>2, <2>4, <2>5 DEF LoadInv
<1>4. CASE Response(u)
  BY <1>3, <1>4 DEF Response, UserGoto, UserStep, UserPlaces, resultVars
<1>5. CASE RecordErr(u)
  <2>1. UserStep(u, "latency") /\ upc[u] = "recordErr" /\ got' = got /\ firstErr' = TRUE
    BY <1>5 DEF RecordErr, UserGoto, UserStep, UserPlaces
  <2>2. \A v \in Users : upc'[v] = IF v = u THEN "latency" ELSE upc[v]
    BY <2>1, UserPlace
  <2>3. LoadTypeOK' /\ LoadIdle'
    BY <1>1, <2>1, UserPlace DEF LoadInv, LoadTypeOK, UserPlaces
  <2>4. UNCHANGED <<Made, Unrecorded, Untotalled, UncountedOk, UncountedErr>>
    BY <1>1, <2>1, <2>2 DEF Made, Unrecorded, Untotalled, UncountedOk, UncountedErr
  <2>5. LoadSums'
    BY <1>1, <2>4 DEF LoadInv, LoadSums
  <2>6. FirstErr'
    BY <1>1, <2>1, <2>2 DEF LoadInv, FirstErr
  <2> QED
    BY <2>3, <2>5, <2>6 DEF LoadInv
<1> QED
  BY <1>2, <1>4, <1>5
\* The latency, one of the totals, and the counter of the status.
LEMMA RecordStep ==
  ASSUME LoadInv, NEW u \in Users, RecordLatency(u) \/ RecordTotal(u) \/ RecordStatus(u)
  PROVE  LoadInv'
<1>1. /\ UNCHANGED <<posts, got, firstErr>> /\ got[u] \in {0, 200, 503}
      /\ upc \in [Users -> UserPlaces] /\ latencies \in Nat /\ total \in [ok : Nat, err : Nat]
      /\ statusCount \in [Codes -> Nat]
  BY DEF RecordLatency, RecordTotal, RecordStatus, LoadInv, LoadTypeOK, UserPlaces, Codes
<1>2. Made' = Made
  BY <1>1 DEF Made
<1>3. /\ LoadSums
      /\ statusCount[0] \in Nat /\ statusCount[200] \in Nat /\ statusCount[503] \in Nat
  BY <1>1 DEF LoadInv, Codes
<1>4. CASE RecordLatency(u)
  <2>1. /\ UserStep(u, "total") /\ upc[u] = "latency" /\ latencies' = latencies + 1
        /\ UNCHANGED <<total, statusCount>>
    BY <1>4 DEF RecordLatency, UserGoto, UserStep, UserPlaces
  <2>2. \A v \in Users : upc'[v] = IF v = u THEN "total" ELSE upc[v]
    BY <2>1, UserPlace
  <2>3. LoadTypeOK' /\ LoadIdle'
    BY <1>1, <2>1, UserPlace DEF LoadInv, LoadTypeOK, UserPlaces
  <2>4. Cardinality(Unrecorded) = Cardinality(Unrecorded') + 1 /\ Cardinality(Unrecorded') \in Nat
    <3>1. Unrecorded = Unrecorded' \cup {u} /\ u \notin Unrecorded'
      BY <2>1, <2>2 DEF Unrecorded
    <3>2. Unrecorded \in SUBSET Users /\ Unrecorded' \in SUBSET Users
      BY DEF Unrecorded
    <3> QED
      BY <3>1, <3>2, UserJoins
  <2>5. Cardinality(Untotalled') = Cardinality(Untotalled) + 1
    <3>1. Untotalled' = Untotalled \cup {u} /\ u \notin Untotalled
      BY <2>1, <2>2 DEF Untotalled
    <3>2. Untotalled \in SUBSET Users /\ Untotalled' \in SUBSET Users
      BY DEF Untotalled
    <3> QED
      BY <3>1, <3>2, UserJoins
  <2>6. UncountedOk' = UncountedOk /\ UncountedErr' = UncountedErr
    BY <1>1, <2>1, <2>2 DEF UncountedOk, UncountedErr
  <2>7. LoadSums'
    BY <1>1, <1>2, <2>1, <2>4, <2>5, <2>6, LoadFinite DEF LoadInv, LoadSums
  <2>8. FirstErr'
    BY <1>1, <2>1, <2>2 DEF LoadInv, FirstErr
  <2> QED
    BY <2>3, <2>7, <2>8 DEF LoadInv
<1>5. CASE RecordTotal(u)
  <2>1. /\ UserStep(u, "status") /\ upc[u] = "total"
        /\ UNCHANGED <<latencies, statusCount>>
        /\ total'.ok = IF got[u] = 200 THEN total.ok + 1 ELSE total.ok
        /\ total'.err = IF got[u] = 200 THEN total.err ELSE total.err + 1
        /\ total' \in [ok : Nat, err : Nat]
    BY <1>1, <1>5 DEF RecordTotal, UserGoto, UserStep, UserPlaces
  <2>2. \A v \in Users : upc'[v] = IF v = u THEN "status" ELSE upc[v]
    BY <2>1, UserPlace
  <2>3. LoadTypeOK' /\ LoadIdle'
    BY <1>1, <2>1, UserPlace DEF LoadInv, LoadTypeOK, UserPlaces
  <2>4. Cardinality(Untotalled) = Cardinality(Untotalled') + 1 /\ Cardinality(Untotalled') \in Nat
    <3>1. Untotalled = Untotalled' \cup {u} /\ u \notin Untotalled'
      BY <2>1, <2>2 DEF Untotalled
    <3>2. Untotalled \in SUBSET Users /\ Untotalled' \in SUBSET Users
      BY DEF Untotalled
    <3> QED
      BY <3>1, <3>2, UserJoins
  <2>5. Unrecorded' = Unrecorded
    BY <2>1, <2>2 DEF Unrecorded
  <2>6. /\ UncountedOk \in SUBSET Users /\ UncountedOk' \in SUBSET Users
        /\ UncountedErr \in SUBSET Users /\ UncountedErr' \in SUBSET Users
    BY DEF UncountedOk, UncountedErr
  <2>7. ASSUME got[u] = 200 PROVE LoadSums'
    <3>1. UncountedOk' = UncountedOk \cup {u} /\ u \notin UncountedOk /\ UncountedErr' = UncountedErr
      BY <1>1, <2>1, <2>2, <2>7 DEF UncountedOk, UncountedErr
    <3>2. Cardinality(UncountedOk') = Cardinality(UncountedOk) + 1
      BY <2>6, <3>1, UserJoins
    <3>3. total'.ok = total.ok + 1 /\ total'.err = total.err /\ total.ok \in Nat /\ total.err \in Nat
      BY <1>1, <2>1, <2>7
    <3> QED
      BY <1>1, <1>2, <2>1, <2>4, <2>5, <3>1, <3>2, <3>3, LoadFinite, <1>3 DEF LoadSums
  <2>8. ASSUME got[u] # 200 PROVE LoadSums'
    <3>1. UncountedErr' = UncountedErr \cup {u} /\ u \notin UncountedErr /\ UncountedOk' = UncountedOk
      BY <1>1, <2>1, <2>2, <2>8 DEF UncountedOk, UncountedErr
    <3>2. Cardinality(UncountedErr') = Cardinality(UncountedErr) + 1
      BY <2>6, <3>1, UserJoins
    <3>3. total'.ok = total.ok /\ total'.err = total.err + 1 /\ total.ok \in Nat /\ total.err \in Nat
      BY <1>1, <2>1, <2>8
    <3> QED
      BY <1>1, <1>2, <2>1, <2>4, <2>5, <3>1, <3>2, <3>3, LoadFinite, <1>3 DEF LoadSums
  <2>9. FirstErr'
    BY <1>1, <2>1, <2>2 DEF LoadInv, FirstErr
  <2> QED
    BY <2>3, <2>7, <2>8, <2>9 DEF LoadInv
<1>6. CASE RecordStatus(u)
  <2>1. /\ UserStep(u, "loop") /\ upc[u] = "status"
        /\ UNCHANGED <<latencies, total>>
        /\ statusCount' \in [Codes -> Nat]
        /\ \A c \in Codes : statusCount'[c] = IF c = got[u] THEN statusCount[c] + 1 ELSE statusCount[c]
    BY <1>1, <1>6 DEF RecordStatus, UserGoto, UserStep, UserPlaces, Codes
  <2>2. \A v \in Users : upc'[v] = IF v = u THEN "loop" ELSE upc[v]
    BY <2>1, UserPlace
  <2>3. LoadTypeOK' /\ LoadIdle'
    BY <1>1, <2>1, UserPlace DEF LoadInv, LoadTypeOK, UserPlaces
  <2>4. Unrecorded' = Unrecorded /\ Untotalled' = Untotalled
    BY <2>1, <2>2 DEF Unrecorded, Untotalled
  <2>5. /\ UncountedOk \in SUBSET Users /\ UncountedOk' \in SUBSET Users
        /\ UncountedErr \in SUBSET Users /\ UncountedErr' \in SUBSET Users
    BY DEF UncountedOk, UncountedErr
  <2>6. /\ statusCount'[0] = IF got[u] = 0 THEN statusCount[0] + 1 ELSE statusCount[0]
        /\ statusCount'[200] = IF got[u] = 200 THEN statusCount[200] + 1 ELSE statusCount[200]
        /\ statusCount'[503] = IF got[u] = 503 THEN statusCount[503] + 1 ELSE statusCount[503]
        /\ statusCount[0] \in Nat /\ statusCount[200] \in Nat /\ statusCount[503] \in Nat
    BY <1>1, <2>1 DEF Codes
  <2>7. ASSUME got[u] = 200 PROVE LoadSums'
    <3>1. UncountedOk = UncountedOk' \cup {u} /\ u \notin UncountedOk' /\ UncountedErr' = UncountedErr
      BY <1>1, <2>1, <2>2, <2>7 DEF UncountedOk, UncountedErr
    <3>2. Cardinality(UncountedOk) = Cardinality(UncountedOk') + 1 /\ Cardinality(UncountedOk') \in Nat
      BY <2>5, <3>1, UserJoins
    <3>3. /\ statusCount'[200] = statusCount[200] + 1 /\ statusCount'[0] = statusCount[0]
          /\ statusCount'[503] = statusCount[503] /\ total.ok \in Nat /\ total.err \in Nat
      BY <1>1, <2>6, <2>7
    <3> QED
      BY <1>2, <2>1, <2>4, <2>6, <3>1, <3>2, <3>3, LoadFinite, <1>3 DEF LoadSums
  <2>8. ASSUME got[u] # 200 PROVE LoadSums'
    <3>1. UncountedErr = UncountedErr' \cup {u} /\ u \notin UncountedErr' /\ UncountedOk' = UncountedOk
      BY <1>1, <2>1, <2>2, <2>8 DEF UncountedOk, UncountedErr
    <3>2. Cardinality(UncountedErr) = Cardinality(UncountedErr') + 1 /\ Cardinality(UncountedErr') \in Nat
      BY <2>5, <3>1, UserJoins
    <3>3. /\ statusCount'[0] + statusCount'[503] = statusCount[0] + statusCount[503] + 1
          /\ statusCount'[0] \in Nat /\ statusCount'[503] \in Nat
          /\ statusCount'[200] = statusCount[200] /\ total.ok \in Nat /\ total.err \in Nat
      BY <1>1, <2>6, <2>8
    <3> QED
      BY <1>2, <2>1, <2>4, <2>6, <3>1, <3>2, <3>3, LoadFinite, <1>3 DEF LoadSums
  <2>9. FirstErr'
    <3>1. CASE got[u] = 0
      BY <1>1, <2>1, <2>2, <2>6, <3>1 DEF LoadInv, FirstErr
    <3>2. CASE got[u] # 0
      BY <1>1, <2>1, <2>2, <2>6, <3>2 DEF LoadInv, FirstErr
    <3> QED
      BY <3>1, <3>2
  <2> QED
    BY <2>3, <2>7, <2>8, <2>9 DEF LoadInv
<1> QED
  BY <1>4, <1>5, <1>6

\* No step of main, of the clock or of a user breaks the invariant.
LEMMA LoadStepInv == LoadInv /\ [LoadNext]_loadVars => LoadInv'
<1> SUFFICES ASSUME LoadInv, [LoadNext]_loadVars PROVE LoadInv'
  OBVIOUS
<1>1. ASSUME NEW u \in Users, User(u) PROVE LoadInv'
  BY <1>1, PostStep, AnswerStep, RecordStep DEF User
<1>2. CASE LoadMain \/ DeadlinePasses
  BY <1>2, StartLevelStep, LoadMainStep DEF LoadMain
<1>3. CASE UNCHANGED loadVars
  <2>1. UNCHANGED <<level, bench, late, upc, got, posts, latencies, total, statusCount, firstErr>>
    BY <1>3 DEF loadVars, userVars, resultVars
  <2>2. LoadTypeOK' /\ LoadIdle'
    BY <2>1 DEF LoadInv, LoadTypeOK, LoadIdle
  <2> QED
    BY <2>1, <2>2, LoadSame DEF LoadInv
<1> QED
  BY <1>1, <1>2, <1>3 DEF LoadNext

-----------------------------------------------------------------------------
\* The simulator: what has been taken from the channel and worked off

Taken == {rows[i] : i \in 1..(handed - Len(jobs))}
Posting == {row[s] : s \in {t \in Senders : spc[t] = "post"}}
Finished == Taken \ Posting

\* The channel holds the last rows handed; a row is posted by the one sender
\* that took it, and only then can its trip exist.
Flow ==
  /\ Len(jobs) <= handed
  /\ \A i \in 1..Len(jobs) : jobs[i] = rows[handed - Len(jobs) + i]
  /\ \A i, j \in 1..Len(rows) : rows[i] = rows[j] => i = j
  /\ Posting \subseteq Taken
  /\ \A s, t \in Senders : spc[s] = "post" /\ spc[t] = "post" /\ row[s] = row[t] => s = t
  /\ posted \subseteq Taken
  /\ Created \subseteq posted

\* Senders leave when the channel is closed and empty; main reports after them.
Stages ==
  /\ replay \in {"load", "fatal"} => rows = <<>>
  /\ replay \in {"pace", "closed", "done"} => rows \in Selections
  /\ replay \in {"closed", "done"} => handed = Len(rows)
  /\ \A s \in Senders : spc[s] = "gone" => replay \in {"closed", "done"} /\ jobs = <<>>
  /\ replay = "done" => \A s \in senders : spc[s] = "gone"
  /\ \A s \in Senders \ senders : spc[s] = "idle"

Counting ==
  /\ sent + failed = Cardinality(Finished)
  /\ sent <= Cardinality(Finished \cap Created)

\* Who is told of a trip can rely on it.
BackendOK ==
  /\ trip \in [Records -> [status : {"ABSENT", "PENDING", "DISPATCHED"}, driver : Drivers \cup {None}]]
  /\ result \in [Records -> {"NONE", "NOT_CREATED", "NO_DRIVER", "FAILED", "DISPATCHED"}]
  /\ \A r \in Records : result[r] \notin {"NONE", "NOT_CREATED"} => trip[r].status # "ABSENT"

SimInv == SimTypeOK /\ Flow /\ Stages /\ Counting /\ BackendOK

-----------------------------------------------------------------------------
\* The simulator: lemmas

\* What Load chooses: rows that parsed, each once, in the order of time, and of
\* these the earliest as many as the limit allows.
LEMMA SelectionFacts ==
  ASSUME NEW s \in Selections, limit \in Nat
  PROVE  /\ s \in Seq(Records)
         /\ \A i, j \in 1..Len(s) : s[i] = s[j] => i = j
         /\ Len(s) = Cardinality(Good) \/ Len(s) = limit
         /\ \A r \in ToSet(s), g \in Good \ ToSet(s) : Time[r] <= Time[g]
<1>1. PICK q \in SetToSeqs(Good) : InTime(q) /\ s = Truncate(q)
  BY DEF Selections
<1>2. IsFiniteSet(Good) /\ Good \subseteq Records
  BY SimulatorAssumption, FS_Subset DEF Good
<1> DEFINE n == Cardinality(Good)
<1>3. n \in Nat
  BY <1>2, FS_CardinalityType
<1>4. q \in [1..n -> Good] /\ \A i, j \in 1..n : i # j => q[i] # q[j]
  BY DEF SetToSeqs
<1>5. q \in Seq(Good) /\ Len(q) = n
  <2>1. q \in Seq(Good)
    BY <1>3, <1>4, SeqDef
  <2>2. Len(q) \in Nat /\ DOMAIN q = 1..Len(q)
    BY <2>1, LenProperties
  <2> QED
    BY <1>3, <1>4, <2>1, <2>2
<1>6. \A g \in Good : \E i \in 1..n : q[i] = g
  <2>1. q \in Injection(1..n, Good)
    BY <1>4, Fun_IsInj
  <2>2. Cardinality(1..n) = n
    BY <1>3, FS_Interval
  <2>3. q \in Surjection(1..n, Good)
    BY <1>2, <2>1, <2>2, FS_Injection
  <2> QED
    BY <2>3 DEF Surjection
<1>7. /\ s \in Seq(Records) /\ Len(s) \in 0..n /\ (Len(s) = n \/ Len(s) = limit)
      /\ \A i \in 1..Len(s) : s[i] = q[i]
  <2>1. q \in Seq(Records)
    BY <1>2, <1>5, SeqMonotonic
  <2>2. CASE limit > 0 /\ limit < n
    <3>1. s = SubSeq(q, 1, limit)
      BY <1>1, <1>5, <2>2 DEF Truncate
    <3>2. \A i \in 1..limit : q[i] \in Records
      BY <1>2, <1>3, <1>4, <2>2
    <3> QED
      BY <1>3, <2>2, <3>1, <3>2, SubSeqProperties
  <2>3. CASE ~(limit > 0 /\ limit < n)
    BY <1>1, <1>3, <1>5, <2>1, <2>3 DEF Truncate
  <2> QED
    BY <2>2, <2>3
<1>8. DOMAIN s = 1..Len(s)
  BY <1>7, LenProperties
<1>9. ASSUME NEW r \in ToSet(s), NEW g \in Good \ ToSet(s) PROVE Time[r] <= Time[g]
  <2>1. PICK i \in 1..Len(s) : r = q[i]
    BY <1>7, <1>8 DEF ToSet
  <2>2. PICK j \in 1..n : g = q[j]
    BY <1>6
  <2>3. j \notin 1..Len(s)
    BY <1>7, <1>8, <2>2 DEF ToSet
  <2>4. i < j /\ i \in 1..n
    BY <1>3, <1>7, <2>3
  <2> QED
    BY <1>1, <1>5, <2>1, <2>2, <2>4 DEF InTime
<1>10. \A i, j \in 1..Len(s) : s[i] = s[j] => i = j
  BY <1>3, <1>4, <1>7
<1> QED
  BY <1>7, <1>9, <1>10

\* The sets of rows are finite.
LEMMA SimFinite ==
  ASSUME SimTypeOK
  PROVE  /\ \A S \in SUBSET Records : IsFiniteSet(S) /\ Cardinality(S) \in Nat
         /\ Cardinality(senders) \in Nat \ {0} /\ senders \subseteq Senders
<1>1. ASSUME NEW S \in SUBSET Records PROVE IsFiniteSet(S) /\ Cardinality(S) \in Nat
  BY SimulatorAssumption, FS_Subset, FS_CardinalityType
<1>2. PICK n \in Senders : senders = 1..n
  BY DEF SimTypeOK
<1>3. n \in Nat \ {0} /\ n <= MaxSenders /\ MaxSenders \in Nat
  BY SimulatorAssumption DEF Senders
<1>4. Cardinality(senders) = n
  BY <1>2, <1>3, FS_Interval
<1> QED
  BY <1>1, <1>2, <1>3, <1>4 DEF Senders

\* Rows are records.
LEMMA TakenRecords ==
  ASSUME SimTypeOK, Flow
  PROVE  /\ handed \in Nat /\ Len(jobs) \in Nat /\ Len(rows) \in Nat /\ handed <= Len(rows)
         /\ \A i \in 1..Len(rows) : rows[i] \in Records
         /\ Taken \subseteq Records /\ Finished \subseteq Records /\ Created \subseteq Records
<1>1. Len(jobs) \in Nat /\ Len(rows) \in Nat /\ handed \in 0..Len(rows)
  BY LenProperties DEF SimTypeOK
<1>2. \A i \in 1..Len(rows) : rows[i] \in Records
  BY ElementOfSeq DEF SimTypeOK
<1>3. \A i \in 1..(handed - Len(jobs)) : i \in 1..Len(rows)
  BY <1>1
<1> QED
  BY <1>1, <1>2, <1>3 DEF Taken, Finished, Created

\* Nothing has been read.
LEMMA SimInitInv ==
  ASSUME SimTypeOK, BackendOK, replay = "load", rows = <<>>, handed = 0, jobs = <<>>,
         spc = [s \in Senders |-> "idle"], posted = {}, sent = 0, failed = 0,
         \A r \in Records : trip[r].status = "ABSENT"
  PROVE  SimInv
<1>1. Taken = {} /\ Posting = {} /\ Finished = {} /\ Created = {}
  BY DEF Taken, Posting, Finished, Created
<1>2. Flow
  BY <1>1 DEF Flow
<1>3. Stages
  BY DEF Stages
<1>4. Counting
  <2>1. Finished \cap Created = {}
    BY <1>1
  <2> QED
    BY <1>1, <2>1, FS_EmptySet DEF Counting
<1> QED
  BY <1>2, <1>3, <1>4 DEF SimInv
-----------------------------------------------------------------------------
\* The simulator: its steps

SendersSame == UNCHANGED <<spc, row, posted, sent, failed>>
BackendSame == UNCHANGED <<driver, trip, result>>
FlagsSame == UNCHANGED <<shape, limit, senders>>

\* The choice of the rows depends on the file and the limit only.
LEMMA SelectionsSame == ASSUME FlagsSame PROVE Selections' = Selections
  BY DEF FlagsSame, Selections, Truncate, InTime, Good

\* main loads the rows: none are handed yet.
LEMMA LoadStep == ASSUME SimInv, Load PROVE SimInv'
<1>1. /\ replay = "load" /\ FlagsSame /\ SendersSame /\ BackendSame /\ UNCHANGED <<handed, jobs>>
      /\ \/ replay' = "fatal" /\ rows' = rows
         \/ replay' = "pace" /\ rows' \in Selections
  BY DEF Load, flagVars, senderVars, backendVars, FlagsSame, SendersSame, BackendSame
<1>2. rows = <<>> /\ handed = 0 /\ Len(jobs) = 0
  <2>1. rows = <<>>
    BY <1>1 DEF SimInv, Stages
  <2>2. Len(rows) = 0 /\ Len(jobs) \in Nat
    BY <2>1, LenProperties DEF SimInv, SimTypeOK
  <2> QED
    BY <2>1, <2>2 DEF SimInv, SimTypeOK, Flow
<1>3. rows' \in Seq(Records) /\ Len(rows') \in Nat /\ \A i, j \in 1..Len(rows') : rows'[i] = rows'[j] => i = j
  <2>1. CASE rows' = rows
    BY <1>2, <2>1 DEF SimInv, SimTypeOK
  <2>2. CASE rows' \in Selections
    <3>1. limit \in Nat
      BY SimulatorAssumption DEF SimInv, SimTypeOK
    <3>2. rows' \in Seq(Records) /\ \A i, j \in 1..Len(rows') : rows'[i] = rows'[j] => i = j
      BY <2>2, <3>1, SelectionFacts
    <3> QED
      BY <3>2, LenProperties
  <2> QED
    BY <1>1, <2>1, <2>2
<1>4. SimTypeOK'
  <2>1. handed' \in 0..Len(rows')
    BY <1>1, <1>2, <1>3
  <2> QED
    BY <1>1, <1>3, <2>1 DEF SimInv, SimTypeOK, FlagsSame, SendersSame
<1>5. Taken = {} /\ Taken' = {} /\ Posting' = Posting /\ Created' = Created
  BY <1>1, <1>2 DEF Taken, Posting, Created, SendersSame, BackendSame
<1>6. Finished' = Finished
  BY <1>5 DEF Finished
<1>7. Flow'
  BY <1>1, <1>2, <1>3, <1>5 DEF SimInv, Flow, SendersSame
<1>8. Stages'
  BY <1>1, <1>2, SelectionsSame DEF SimInv, Stages, FlagsSame, SendersSame
<1>9. Counting' /\ BackendOK'
  BY <1>1, <1>5, <1>6 DEF SimInv, Counting, BackendOK, SendersSame, BackendSame
<1> QED
  BY <1>4, <1>7, <1>8, <1>9 DEF SimInv

\* A row goes into the channel: it is the next one.
LEMMA HandStep == ASSUME SimInv, Hand PROVE SimInv'
<1>1. /\ replay = "pace" /\ handed < Len(rows) /\ Len(jobs) < 2 * Cardinality(senders)
      /\ jobs' = Append(jobs, rows[handed + 1]) /\ handed' = handed + 1
      /\ FlagsSame /\ SendersSame /\ BackendSame /\ UNCHANGED <<replay, rows>>
  BY DEF Hand, flagVars, senderVars, backendVars, FlagsSame, SendersSame, BackendSame
<1>2. SimTypeOK /\ Flow /\ jobs \in Seq(Records) /\ Cardinality(senders) \in Nat
  BY SimFinite DEF SimInv, SimTypeOK
<1>3. handed \in Nat /\ Len(jobs) \in Nat /\ Len(rows) \in Nat /\ rows[handed + 1] \in Records
  BY <1>1, <1>2, TakenRecords
<1>4. /\ jobs' \in Seq(Records) /\ jobs' # <<>> /\ Len(jobs') = Len(jobs) + 1
      /\ \A i \in 1..Len(jobs) : jobs'[i] = jobs[i]
      /\ jobs'[Len(jobs) + 1] = rows[handed + 1]
  BY <1>1, <1>2, <1>3, AppendProperties
<1>5. SimTypeOK'
  <2>1. handed' \in 0..Len(rows') /\ Len(jobs') <= 2 * Cardinality(senders)
    BY <1>1, <1>2, <1>3, <1>4
  <2> QED
    BY <1>1, <1>4, <2>1 DEF SimInv, SimTypeOK, FlagsSame, SendersSame
<1>6. Taken' = Taken /\ Posting' = Posting /\ Created' = Created
  <2>1. handed' - Len(jobs') = handed - Len(jobs)
    BY <1>1, <1>3, <1>4
  <2> QED
    BY <1>1, <2>1 DEF Taken, Posting, Created, SendersSame, BackendSame
<1>7. Finished' = Finished
  BY <1>6 DEF Finished
<1>8. Flow'
  <2>1. Len(jobs') <= handed'
    BY <1>1, <1>2, <1>3, <1>4 DEF Flow
  <2>2. ASSUME NEW i \in 1..Len(jobs') PROVE jobs'[i] = rows'[handed' - Len(jobs') + i]
    <3>1. CASE i = Len(jobs) + 1
      BY <1>1, <1>3, <1>4, <3>1
    <3>2. CASE i # Len(jobs) + 1
      <4>1. i \in 1..Len(jobs) /\ handed' - Len(jobs') + i = handed - Len(jobs) + i
        BY <1>1, <1>3, <1>4, <3>2
      <4> QED
        BY <1>1, <1>2, <1>4, <4>1 DEF Flow
    <3> QED
      BY <3>1, <3>2
  <2> QED
    BY <1>1, <1>2, <1>6, <2>1, <2>2 DEF Flow, SendersSame
<1>9. Stages'
  <2>1. \A s \in Senders : spc[s] # "gone"
    BY <1>1 DEF SimInv, Stages
  <2> QED
    BY <1>1, <2>1, SelectionsSame DEF SimInv, Stages, FlagsSame, SendersSame
<1>10. Counting' /\ BackendOK'
  BY <1>1, <1>6, <1>7 DEF SimInv, Counting, BackendOK, SendersSame, BackendSame
<1> QED
  BY <1>5, <1>8, <1>9, <1>10 DEF SimInv

\* The channel is closed, and main reports when all senders have left.
LEMMA CloseStep == ASSUME SimInv, CloseJobs \/ Report PROVE SimInv'
<1>1. /\ replay \in {"pace", "closed"} /\ handed = Len(rows)
      /\ FlagsSame /\ SendersSame /\ BackendSame /\ UNCHANGED <<rows, handed, jobs>>
      /\ \/ replay' = "closed"
         \/ replay' = "done" /\ \A s \in senders : spc[s] = "gone"
  BY DEF CloseJobs, Report, flagVars, senderVars, backendVars, FlagsSame, SendersSame, BackendSame, SimInv, Stages
<1>2. SimTypeOK'
  BY <1>1 DEF SimInv, SimTypeOK, FlagsSame, SendersSame
<1>3. Taken' = Taken /\ Posting' = Posting /\ Created' = Created
  BY <1>1 DEF Taken, Posting, Created, SendersSame, BackendSame
<1>4. Finished' = Finished
  BY <1>3 DEF Finished
<1>5. Flow'
  BY <1>1, <1>3 DEF SimInv, Flow, SendersSame
<1>6. Stages'
  BY <1>1, SelectionsSame DEF SimInv, Stages, FlagsSame, SendersSame
<1>7. Counting' /\ BackendOK'
  BY <1>1, <1>3, <1>4 DEF SimInv, Counting, BackendOK, SendersSame, BackendSame
<1> QED
  BY <1>2, <1>5, <1>6, <1>7 DEF SimInv
-----------------------------------------------------------------------------
\* The simulator: the senders and the backend

MainSame == FlagsSame /\ UNCHANGED <<replay, rows, handed>>

\* The oldest row of the channel is now posted; nobody else has it.
LEMMA TakeStep == ASSUME SimInv, NEW s \in senders, SenderTake(s) PROVE SimInv'
<1>1. /\ spc[s] = "idle" /\ replay \in {"pace", "closed"} /\ jobs # <<>>
      /\ row' = [row EXCEPT ![s] = Head(jobs)] /\ jobs' = Tail(jobs)
      /\ spc' = [spc EXCEPT ![s] = "post"]
      /\ MainSame /\ BackendSame /\ UNCHANGED <<posted, sent, failed>>
  BY DEF SenderTake, mainVars, flagVars, backendVars, MainSame, FlagsSame, BackendSame
<1>2. /\ SimTypeOK /\ Flow /\ s \in Senders /\ jobs \in Seq(Records)
      /\ spc \in [Senders -> {"idle", "post", "gone"}] /\ row \in [Senders -> Records \cup {None}]
      /\ Cardinality(senders) \in Nat
  BY SimFinite DEF SimInv, SimTypeOK
<1>3. /\ handed \in Nat /\ Len(jobs) \in Nat \ {0} /\ handed <= Len(rows) /\ Len(rows) \in Nat
      /\ Len(jobs) <= handed
  BY <1>1, <1>2, TakenRecords, EmptySeq DEF Flow
<1>4. /\ Head(jobs) \in Records /\ Head(jobs) = jobs[1] /\ jobs' \in Seq(Records)
      /\ Len(jobs') = Len(jobs) - 1 /\ \A i \in 1..Len(jobs') : jobs'[i] = jobs[i + 1]
  BY <1>1, <1>2, HeadTailProperties
<1> DEFINE k == handed - Len(jobs) + 1
           x == Head(jobs)
<1>5. k \in 1..Len(rows) /\ handed' - Len(jobs') = k /\ x = rows[k]
  <2>1. jobs[1] = rows[handed - Len(jobs) + 1]
    BY <1>2, <1>3 DEF Flow
  <2> QED
    BY <1>1, <1>3, <1>4, <2>1 DEF MainSame
<1>6. /\ \A t \in Senders : spc'[t] = IF t = s THEN "post" ELSE spc[t]
      /\ \A t \in Senders : row'[t] = IF t = s THEN x ELSE row[t]
  BY <1>1, <1>2
<1>7. x \notin Taken
  <2>1. \A i \in 1..(handed - Len(jobs)) : i \in 1..Len(rows) /\ i # k
    BY <1>3
  <2>2. \A i \in 1..(handed - Len(jobs)) : rows[i] # rows[k]
    BY <1>2, <1>5, <2>1 DEF Flow
  <2> QED
    BY <1>5, <2>2 DEF Taken
<1>8. Taken' = Taken \cup {x}
  <2>1. 1..k = 1..(handed - Len(jobs)) \cup {k}
    BY <1>3
  <2>2. Taken' = {rows[i] : i \in 1..k}
    BY <1>1, <1>5 DEF Taken, MainSame
  <2> QED
    BY <1>5, <2>1, <2>2 DEF Taken
<1>9. Posting' = Posting \cup {x}
  BY <1>1, <1>2, <1>6 DEF Posting
<1>10. Finished' = Finished /\ Created' = Created
  <2>1. Finished' = Finished
    BY <1>7, <1>8, <1>9 DEF Finished
  <2> QED
    BY <1>1, <2>1 DEF Created, BackendSame
<1>11. SimTypeOK'
  <2>1. Len(jobs') <= 2 * Cardinality(senders)
    BY <1>2, <1>3, <1>4 DEF SimTypeOK
  <2>2. ASSUME NEW t \in Senders PROVE spc'[t] = "post" <=> row'[t] # None
    <3>1. x # None
      BY <1>4, SimulatorAssumption
    <3>2. spc[t] = "post" <=> row[t] # None
      BY <1>2 DEF SimTypeOK
    <3> QED
      BY <1>6, <3>1, <3>2
  <2>3. spc' \in [Senders -> {"idle", "post", "gone"}] /\ row' \in [Senders -> Records \cup {None}]
    BY <1>1, <1>2, <1>4
  <2> QED
    BY <1>1, <1>2, <1>4, <2>1, <2>2, <2>3 DEF SimTypeOK, MainSame, FlagsSame
<1>12. Flow'
  <2>1. Len(jobs') <= handed'
    BY <1>1, <1>3, <1>4 DEF MainSame
  <2>2. ASSUME NEW i \in 1..Len(jobs') PROVE jobs'[i] = rows'[handed' - Len(jobs') + i]
    <3>1. i + 1 \in 1..Len(jobs) /\ handed' - Len(jobs') + i = handed - Len(jobs) + (i + 1)
      BY <1>1, <1>3, <1>4 DEF MainSame
    <3>2. jobs[i + 1] = rows[handed - Len(jobs) + (i + 1)]
      BY <1>2, <3>1 DEF Flow
    <3> QED
      BY <1>1, <1>4, <3>1, <3>2 DEF MainSame
  <2>3. Posting' \subseteq Taken' /\ posted' \subseteq Taken' /\ Created' \subseteq posted'
    BY <1>1, <1>2, <1>8, <1>9, <1>10 DEF Flow
  <2>4. \A t, u \in Senders : spc'[t] = "post" /\ spc'[u] = "post" /\ row'[t] = row'[u] => t = u
    <3>1. \A t \in Senders : spc[t] = "post" => row[t] # x
      BY <1>2, <1>7 DEF Flow, Posting
    <3> QED
      BY <1>2, <1>6, <3>1 DEF Flow
  <2> QED
    BY <1>1, <1>2, <2>1, <2>2, <2>3, <2>4 DEF Flow, MainSame
<1>13. Stages'
  <2>1. \A t \in Senders : spc'[t] = "gone" => spc[t] = "gone" /\ jobs = <<>>
    BY <1>6 DEF SimInv, Stages
  <2>2. \A t \in Senders \ senders : spc'[t] = "idle"
    BY <1>6 DEF SimInv, Stages
  <2> QED
    BY <1>1, <2>1, <2>2, SelectionsSame DEF SimInv, Stages, MainSame, FlagsSame
<1>14. Counting' /\ BackendOK'
  BY <1>1, <1>10 DEF SimInv, Counting, BackendOK, BackendSame
<1> QED
  BY <1>11, <1>12, <1>13, <1>14 DEF SimInv

\* A sender leaves.
LEMMA ExitStep == ASSUME SimInv, NEW s \in senders, SenderExit(s) PROVE SimInv'
<1>1. /\ spc[s] = "idle" /\ replay = "closed" /\ jobs = <<>> /\ spc' = [spc EXCEPT ![s] = "gone"]
      /\ MainSame /\ BackendSame /\ UNCHANGED <<jobs, row, posted, sent, failed>>
  BY DEF SenderExit, mainVars, flagVars, backendVars, MainSame, FlagsSame, BackendSame
<1>2. s \in Senders /\ spc \in [Senders -> {"idle", "post", "gone"}]
  BY SimFinite DEF SimInv, SimTypeOK
<1>3. \A t \in Senders : spc'[t] = IF t = s THEN "gone" ELSE spc[t]
  BY <1>1, <1>2
<1>4. SimTypeOK'
  BY <1>1, <1>2, <1>3 DEF SimInv, SimTypeOK, MainSame, FlagsSame
<1>5. Taken' = Taken /\ Posting' = Posting /\ Created' = Created
  BY <1>1, <1>3 DEF Taken, Posting, Created, MainSame, BackendSame
<1>6. Finished' = Finished
  BY <1>5 DEF Finished
<1>7. Flow'
  BY <1>1, <1>3, <1>5 DEF SimInv, Flow, MainSame
<1>8. Stages'
  BY <1>1, <1>3, SelectionsSame DEF SimInv, Stages, MainSame, FlagsSame
<1>9. Counting' /\ BackendOK'
  BY <1>1, <1>5, <1>6 DEF SimInv, Counting, BackendOK, BackendSame
<1> QED
  BY <1>4, <1>7, <1>8, <1>9 DEF SimInv

\* The request reaches the backend.
LEMMA ArriveStep == ASSUME SimInv, NEW s \in senders, Arrive(s) PROVE SimInv'
<1>1. /\ spc[s] = "post" /\ posted' = posted \cup {row[s]}
      /\ MainSame /\ BackendSame /\ UNCHANGED <<jobs, spc, row, sent, failed>>
  BY DEF Arrive, mainVars, flagVars, backendVars, MainSame, FlagsSame, BackendSame
<1>2. s \in Senders /\ SimTypeOK /\ Flow
  BY SimFinite DEF SimInv
<1>3. row[s] \in Taken /\ row[s] \in Records
  BY <1>1, <1>2, TakenRecords DEF Flow, Posting
<1>4. SimTypeOK'
  BY <1>1, <1>3 DEF SimInv, SimTypeOK, MainSame, FlagsSame
<1>5. Taken' = Taken /\ Posting' = Posting /\ Created' = Created
  BY <1>1 DEF Taken, Posting, Created, MainSame, BackendSame
<1>6. Finished' = Finished
  BY <1>5 DEF Finished
<1>7. Flow'
  BY <1>1, <1>3, <1>5 DEF SimInv, Flow, MainSame
<1>8. Stages'
  BY <1>1, SelectionsSame DEF SimInv, Stages, MainSame, FlagsSame
<1>9. Counting' /\ BackendOK'
  BY <1>1, <1>5, <1>6 DEF SimInv, Counting, BackendOK, BackendSame
<1> QED
  BY <1>4, <1>7, <1>8, <1>9 DEF SimInv

\* An answer or a timeout: the row is counted, as sent only if its trip exists.
LEMMA CountStep == ASSUME SimInv, NEW s \in senders, Answered(s) \/ TimedOut(s) PROVE SimInv'
<1>1. /\ spc[s] = "post" /\ spc' = [spc EXCEPT ![s] = "idle"] /\ row' = [row EXCEPT ![s] = None]
      /\ MainSame /\ BackendSame /\ UNCHANGED <<jobs, posted>>
      /\ \/ failed' = failed + 1 /\ sent' = sent
         \/ sent' = sent + 1 /\ failed' = failed /\ result[row[s]] \notin {"NONE", "NOT_CREATED"}
  BY DEF Answered, TimedOut, Release, mainVars, flagVars, backendVars, MainSame, FlagsSame, BackendSame
<1>2. /\ SimTypeOK /\ Flow /\ s \in Senders /\ sent \in Nat /\ failed \in Nat
      /\ spc \in [Senders -> {"idle", "post", "gone"}] /\ row \in [Senders -> Records \cup {None}]
  BY SimFinite DEF SimInv, SimTypeOK
<1> DEFINE x == row[s]
<1>3. x \in Taken /\ x \in Records /\ x \in Posting
  BY <1>1, <1>2, TakenRecords DEF Flow, Posting
<1>4. /\ \A t \in Senders : spc'[t] = IF t = s THEN "idle" ELSE spc[t]
      /\ \A t \in Senders : row'[t] = IF t = s THEN None ELSE row[t]
  BY <1>1, <1>2
<1>5. Posting' = Posting \ {x}
  <2>1. \A t \in Senders : spc[t] = "post" /\ t # s => row[t] # x
    BY <1>1, <1>2 DEF Flow
  <2> QED
    BY <1>1, <1>2, <1>4, <2>1 DEF Posting
<1>6. Taken' = Taken /\ Created' = Created
  BY <1>1 DEF Taken, Created, MainSame, BackendSame
<1>7. Finished' = Finished \cup {x} /\ x \notin Finished
  BY <1>3, <1>5, <1>6 DEF Finished
<1>8. SimTypeOK'
  <2>1. \A t \in Senders : spc'[t] = "post" <=> row'[t] # None
    BY <1>2, <1>4 DEF SimTypeOK
  <2>2. spc' \in [Senders -> {"idle", "post", "gone"}] /\ row' \in [Senders -> Records \cup {None}]
    BY <1>1, <1>2
  <2>3. sent' \in Nat /\ failed' \in Nat
    BY <1>1, <1>2
  <2> QED
    BY <1>1, <2>1, <2>2, <2>3 DEF SimInv, SimTypeOK, MainSame, FlagsSame
<1>9. Flow'
  <2>1. \A t, u \in Senders : spc'[t] = "post" /\ spc'[u] = "post" /\ row'[t] = row'[u] => t = u
    BY <1>2, <1>4 DEF Flow
  <2> QED
    BY <1>1, <1>2, <1>5, <1>6, <2>1 DEF Flow, MainSame
<1>10. Stages'
  <2>1. replay # "done"
    BY <1>1 DEF SimInv, Stages
  <2> QED
    BY <1>1, <1>4, <2>1, SelectionsSame DEF SimInv, Stages, MainSame, FlagsSame
<1>11. Counting'
  <2>1. /\ IsFiniteSet(Finished) /\ IsFiniteSet(Finished \cap Created)
        /\ Cardinality(Finished) \in Nat /\ Cardinality(Finished \cap Created) \in Nat
    BY <1>2, TakenRecords, SimFinite
  <2>2. Cardinality(Finished') = Cardinality(Finished) + 1
    BY <1>7, <2>1, FS_AddElement
  <2>3. /\ sent + failed = Cardinality(Finished)
        /\ sent <= Cardinality(Finished \cap Created)
    BY DEF SimInv, Counting
  <2>4. CASE x \in Created
    <3>1. (Finished \cap Created)' = (Finished \cap Created) \cup {x} /\ x \notin Finished \cap Created
      BY <1>6, <1>7, <2>4
    <3>2. Cardinality((Finished \cap Created)') = Cardinality(Finished \cap Created) + 1
      BY <2>1, <3>1, FS_AddElement
    <3> QED
      BY <1>1, <1>2, <2>1, <2>2, <2>3, <3>2 DEF Counting
  <2>5. CASE x \notin Created
    <3>1. (Finished \cap Created)' = Finished \cap Created
      BY <1>6, <1>7, <2>5
    <3>2. sent' = sent /\ failed' = failed + 1
      BY <1>1, <1>3, <2>5 DEF SimInv, BackendOK, Created
    <3> QED
      BY <1>2, <2>1, <2>2, <2>3, <3>1, <3>2 DEF Counting
  <2> QED
    BY <2>4, <2>5
<1>12. BackendOK'
  BY <1>1 DEF SimInv, BackendOK, BackendSame
<1> QED
  BY <1>8, <1>9, <1>10, <1>11, <1>12 DEF SimInv

\* The backend creates trips for rows that were posted, and never removes one.
LEMMA BackendKept ==
  ASSUME BackendOK, NEW r \in Records, BackendStep(r)
  PROVE  BackendOK' /\ Created \subseteq Created' /\ Created' \subseteq Created \cup {r}
<1>1. CASE Backend!Create(r)
  <2>1. /\ trip' = [trip EXCEPT ![r] = [status |-> "PENDING", driver |-> None]]
        /\ result' \in {result, [result EXCEPT ![r] = "NOT_CREATED"]}
    BY <1>1 DEF Backend!Create
  <2> QED
    BY <2>1 DEF BackendOK, Created
<1>2. CASE Backend!AssignNearest(r)
  <2>1. PICK d \in Drivers : trip' = [trip EXCEPT ![r] = [status |-> "DISPATCHED", driver |-> d]]
    BY <1>2 DEF Backend!AssignNearest, Backend!Free
  <2>2. result' \in {result, [result EXCEPT ![r] = "DISPATCHED"]}
    BY <1>2 DEF Backend!AssignNearest
  <2> QED
    BY <2>1, <2>2 DEF BackendOK, Created
<1>3. CASE Backend!GiveUp(r)
  <2>1. /\ trip' = trip
        /\ \/ trip[r].status = "PENDING" /\ result' = [result EXCEPT ![r] = "NO_DRIVER"]
           \/ trip[r].status = "PENDING" /\ result' = [result EXCEPT ![r] = "FAILED"]
           \/ result' = [result EXCEPT ![r] = "NOT_CREATED"]
    BY <1>3 DEF Backend!GiveUp
  <2> QED
    BY <2>1 DEF BackendOK, Created
<1> QED
  BY <1>1, <1>2, <1>3 DEF BackendStep

\* A step of the backend, for a row that was posted.
LEMMA BackendInv == ASSUME SimInv, NEW r \in Records, BackendStep(r) PROVE SimInv'
<1>1. r \in posted /\ MainSame /\ SendersSame /\ jobs' = jobs
  BY DEF BackendStep, mainVars, flagVars, senderVars, MainSame, FlagsSame, SendersSame
<1>2. BackendOK' /\ Created \subseteq Created' /\ Created' \subseteq Created \cup {r}
  BY BackendKept DEF SimInv
<1>3. SimTypeOK'
  BY <1>1 DEF SimInv, SimTypeOK, MainSame, FlagsSame, SendersSame
<1>4. Taken' = Taken /\ Posting' = Posting
  BY <1>1 DEF Taken, Posting, MainSame, SendersSame
<1>5. Finished' = Finished
  BY <1>4 DEF Finished
<1>6. Flow'
  BY <1>1, <1>2, <1>4 DEF SimInv, Flow, MainSame, SendersSame
<1>7. Stages'
  BY <1>1, SelectionsSame DEF SimInv, Stages, MainSame, FlagsSame, SendersSame
<1>8. Counting'
  <2>1. IsFiniteSet(Finished \cap Created') /\ Cardinality(Finished \cap Created') \in Nat
        /\ Cardinality(Finished \cap Created) \in Nat
    BY TakenRecords, SimFinite DEF SimInv
  <2>2. Cardinality(Finished \cap Created) <= Cardinality(Finished \cap Created')
    BY <1>2, <2>1, FS_Subset
  <2>3. sent \in Nat /\ sent <= Cardinality(Finished \cap Created)
    BY DEF SimInv, Counting, SimTypeOK
  <2> QED
    BY <1>1, <1>5, <2>1, <2>2, <2>3 DEF SimInv, Counting, SendersSame
<1> QED
  BY <1>2, <1>3, <1>6, <1>7, <1>8 DEF SimInv

\* No step of main, of a sender or of the backend breaks the invariant.
LEMMA SimStepInv == SimInv /\ [SimNext]_simVars => SimInv'
<1> SUFFICES ASSUME SimInv, [SimNext]_simVars PROVE SimInv'
  OBVIOUS
<1>1. CASE SimMain
  BY <1>1, LoadStep, HandStep, CloseStep DEF SimMain
<1>2. ASSUME NEW s \in senders, Sender(s) PROVE SimInv'
  BY <1>2, TakeStep, ExitStep, ArriveStep, CountStep DEF Sender
<1>3. ASSUME NEW r \in Records, BackendStep(r) PROVE SimInv'
  BY <1>3, BackendInv
<1>4. CASE UNCHANGED simVars
  <2>1. MainSame /\ SendersSame /\ BackendSame /\ jobs' = jobs
    BY <1>4 DEF simVars, mainVars, flagVars, senderVars, backendVars, MainSame, FlagsSame, SendersSame, BackendSame
  <2>2. SimTypeOK' /\ BackendOK'
    BY <2>1 DEF SimInv, SimTypeOK, BackendOK, MainSame, FlagsSame, SendersSame, BackendSame
  <2>3. Taken' = Taken /\ Posting' = Posting /\ Created' = Created
    BY <2>1 DEF Taken, Posting, Created, MainSame, SendersSame, BackendSame
  <2>4. Finished' = Finished
    BY <2>3 DEF Finished
  <2>5. Flow' /\ Counting'
    BY <2>1, <2>3, <2>4 DEF SimInv, Flow, Counting, MainSame, SendersSame
  <2>6. Stages'
    BY <2>1, SelectionsSame DEF SimInv, Stages, MainSame, FlagsSame, SendersSame
  <2> QED
    BY <2>2, <2>5, <2>6 DEF SimInv
<1> QED
  BY <1>1, <1>2, <1>3, <1>4 DEF SimNext

\* When main reports, every row replayed has been worked off.
LEMMA ReportTrue == SimInv => SimReport
<1> SUFFICES ASSUME SimInv, replay = "done" PROVE SimReport
  BY DEF SimReport
<1>1. SimTypeOK /\ Flow /\ limit \in Nat /\ rows \in Selections
  BY SimulatorAssumption DEF SimInv, SimTypeOK, Stages
<1>2. /\ rows \in Seq(Records) /\ \A i, j \in 1..Len(rows) : rows[i] = rows[j] => i = j
      /\ Len(rows) = Cardinality(Good) \/ Len(rows) = limit
      /\ \A r \in ToSet(rows), g \in Good \ ToSet(rows) : Time[r] <= Time[g]
  BY <1>1, SelectionFacts
<1>3. jobs = <<>> /\ handed = Len(rows)
  <2>1. PICK n \in Senders : senders = 1..n
    BY DEF SimInv, SimTypeOK
  <2>2. 1 \in senders /\ 1 \in Senders
    BY <2>1, SimulatorAssumption DEF Senders
  <2> QED
    BY <2>2 DEF SimInv, Stages
<1>4. Taken = Replayed
  <2>1. DOMAIN rows = 1..Len(rows) /\ Len(rows) \in Nat
    BY <1>2, LenProperties
  <2>2. Len(jobs) = 0 /\ handed - Len(jobs) = Len(rows)
    BY <1>3, <2>1
  <2> QED
    BY <2>1, <2>2 DEF Taken, Replayed, ToSet
<1>5. Posting = {}
  BY DEF SimInv, Stages, Posting
<1>6. Finished = Replayed
  BY <1>4, <1>5 DEF Finished
<1>7. Cardinality(Replayed) = Len(rows)
  <2>1. rows \in [1..Len(rows) -> Records] /\ Len(rows) \in Nat /\ DOMAIN rows = 1..Len(rows)
    BY <1>2, LenProperties
  <2>2. rows \in [1..Len(rows) -> Replayed]
    BY <2>1 DEF Replayed, ToSet
  <2>3. \A y \in Replayed : \E i \in 1..Len(rows) : rows[i] = y
    BY <2>1 DEF Replayed, ToSet
  <2>4. rows \in Bijection(1..Len(rows), Replayed)
    BY <1>2, <2>2, <2>3, Fun_IsBij
  <2>5. ExistsBijection(1..Len(rows), Replayed)
    BY <2>4 DEF ExistsBijection
  <2> QED
    BY <2>1, <2>5, FS_CountingElements
<1>8. /\ sent + failed = Len(rows) /\ Created \subseteq Replayed
      /\ sent <= Cardinality(Replayed \cap Created)
  BY <1>1, <1>4, <1>6, <1>7 DEF SimInv, Counting, Flow
<1>9. sent <= Cardinality(Created)
  <2>1. Replayed \cap Created = Created
    BY <1>8
  <2> QED
    BY <1>8, <2>1
<1> QED
  BY <1>2, <1>7, <1>8, <1>9 DEF SimReport, Replayed

-----------------------------------------------------------------------------
\* Both tools: each leaves the variables of the other alone

IInv == SimInv /\ LoadInv

\* A report that adds up: the users have finished, so nothing is still to be
\* recorded.
LEMMA LoadReportTrue == LoadInv => LoadReport
<1> SUFFICES ASSUME LoadInv, bench = "report" PROVE LoadReport
  BY DEF LoadReport
<1>1. \A u \in Users : upc[u] = "gone"
  BY DEF LoadInv, LoadIdle
<1>2. Unrecorded = {} /\ Untotalled = {} /\ UncountedOk = {} /\ UncountedErr = {}
  BY <1>1 DEF Unrecorded, Untotalled, UncountedOk, UncountedErr
<1>3. /\ latencies \in Nat /\ total.ok \in Nat /\ total.err \in Nat
      /\ statusCount[0] \in Nat /\ statusCount[200] \in Nat /\ statusCount[503] \in Nat
  BY DEF LoadInv, LoadTypeOK, Codes
<1>4. /\ latencies = Cardinality(Made) /\ total.ok + total.err = latencies
      /\ statusCount[200] = total.ok /\ statusCount[0] + statusCount[503] = total.err
  BY <1>2, <1>3, LoadFinite, FS_EmptySet DEF LoadInv, LoadSums
<1>5. firstErr <=> statusCount[0] > 0
  BY <1>1 DEF LoadInv, FirstErr
<1> QED
  BY <1>3, <1>4, <1>5 DEF LoadReport

\* Both tools start with nothing done.
LEMMA InitInv == Init => IInv
<1> SUFFICES ASSUME Init PROVE IInv
  OBVIOUS
<1>1. SimInit /\ LoadInit
  BY DEF Init
<1>2. SimTypeOK
  <2>1. Len(rows) = 0 /\ rows \in Seq(Records) /\ Len(jobs) = 0 /\ jobs \in Seq(Records)
    BY <1>1 DEF SimInit
  <2>2. PICK n \in Senders : senders = 1..n
    BY <1>1 DEF SimInit
  <2>3. n \in Nat /\ Cardinality(senders) = n
    BY <2>2, SimulatorAssumption, FS_Interval DEF Senders
  <2>4. /\ spc \in [Senders -> {"idle", "post", "gone"}] /\ row \in [Senders -> Records \cup {None}]
        /\ \A s \in Senders : spc[s] = "idle" /\ row[s] = None
    BY <1>1 DEF SimInit
  <2> QED
    BY <1>1, <2>1, <2>3, <2>4 DEF SimInit, SimTypeOK
<1>3. BackendOK /\ \A r \in Records : trip[r].status = "ABSENT"
  <2>1. /\ trip = [r \in Records |-> [status |-> "ABSENT", driver |-> None]]
        /\ result = [r \in Records |-> "NONE"]
    BY <1>1 DEF SimInit, Backend!Init
  <2> QED
    BY <2>1 DEF BackendOK
<1>4. SimInv
  BY <1>1, <1>2, <1>3, SimInitInv DEF SimInit
<1> QED
  BY <1>1, <1>4, LoadInitInv DEF IInv

\* A step is one of the tool that runs.
LEMMA StepInv == IInv /\ [Next]_vars => IInv'
<1> SUFFICES ASSUME IInv, [Next]_vars PROVE IInv'
  OBVIOUS
<1>1. [SimNext]_simVars /\ [LoadNext]_loadVars
  BY DEF Next, vars
<1> QED
  BY <1>1, SimStepInv, LoadStepInv DEF IInv

\* The inductive invariant holds in every reachable state.
LEMMA Invariance == Spec => []IInv
  BY InitInv, StepInv, PTL DEF Spec

\* The channel of the simulator is bounded, a sender has a row exactly while it
\* posts, and only the users of a level run.
THEOREM TypeCorrect == Spec => []TypeOK
<1>1. IInv => TypeOK
  BY DEF IInv, SimInv, LoadInv, TypeOK
<1> QED
  BY <1>1, Invariance, PTL

\* The simulator's report counts every row replayed once, the rows are the
\* earliest of the file, and what is counted as sent has a trip.
THEOREM SimReportHolds == Spec => []SimReport
<1>1. IInv => SimReport
  BY ReportTrue DEF IInv
<1> QED
  BY <1>1, Invariance, PTL

\* The load test's totals, latencies and counters per status all count the
\* requests of the level.
THEOREM LoadReportHolds == Spec => []LoadReport
<1>1. IInv => LoadReport
  BY LoadReportTrue DEF IInv
<1> QED
  BY <1>1, Invariance, PTL
=============================================================================
