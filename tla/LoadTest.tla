------------------------------ MODULE LoadTest ------------------------------
(***************************************************************************)
(* The load test tool (tools/loadtest): one level of concurrency after the *)
(* other, each with so many users who post until the deadline of the level *)
(* and record what they got in the level's result.                         *)
(***************************************************************************)
EXTENDS Naturals, Sequences, FiniteSets

CONSTANTS
  Users,        \* the goroutines, as 1..n: the i-th runs on a level >= i
  Levels,       \* -concurrency, a sequence of numbers of users
  MaxPosts      \* bound on the requests of a user on one level

ASSUME LoadTestAssumption ==
  /\ Users \subseteq Nat /\ IsFiniteSet(Users)
  /\ Levels \in Seq(Nat) /\ Levels # <<>>
  /\ MaxPosts \in Nat

\* 0 is a connection error.
Codes == {0, 200, 503}

VARIABLES
  level,        \* the level that runs or is reported, past the last at the end
  bench,        \* where main is: "start", "wait", "report", "exit"
  late,         \* the deadline of the level has passed
  upc,          \* where each user is
  got,          \* the status it records
  posts,        \* its requests on this level
  latencies,    \* how many latencies are recorded
  total,        \* totalOK and totalErr
  statusCount,  \* the map of counters per status
  firstErr      \* a connection error is recorded

resultVars == <<latencies, total, statusCount, firstErr>>
userVars == <<upc, got, posts>>
loadVars == <<level, bench, late, userVars, resultVars>>

LoadInit ==
  /\ level = 1
  /\ bench = "start"
  /\ late = FALSE
  /\ upc = [u \in Users |-> "gone"]
  /\ got = [u \in Users |-> 0]
  /\ posts = [u \in Users |-> 0]
  /\ latencies = 0
  /\ total = [ok |-> 0, err |-> 0]
  /\ statusCount = [c \in Codes |-> 0]
  /\ firstErr = FALSE

UserGoto(u, label) == upc' = [upc EXCEPT ![u] = label]

-----------------------------------------------------------------------------
\* runLevel and main

\* Mutation: for i := 0; i <= concurrency.
StartOneMore ==
  /\ bench = "start"
  /\ level <= Len(Levels)
  /\ bench' = "wait"
  /\ late' = FALSE
  /\ upc' = [u \in Users |-> IF u <= Levels[level] + 1 THEN "loop" ELSE upc[u]]
  /\ posts' = [u \in Users |-> 0]
  /\ latencies' = 0
  /\ total' = [ok |-> 0, err |-> 0]
  /\ statusCount' = [c \in Codes |-> 0]
  /\ firstErr' = FALSE
  /\ UNCHANGED <<level, got>>

\* A fresh result and the users of the level.
StartLevel ==
  /\ bench = "start"
  /\ level <= Len(Levels)
  /\ bench' = "wait"
  /\ late' = FALSE
  /\ upc' = [u \in Users |-> IF u <= Levels[level] THEN "loop" ELSE upc[u]]
  /\ posts' = [u \in Users |-> 0]
  /\ latencies' = 0
  /\ total' = [ok |-> 0, err |-> 0]
  /\ statusCount' = [c \in Codes |-> 0]
  /\ firstErr' = FALSE
  /\ UNCHANGED <<level, got>>

\* Mutation: wg.Add(1) in the goroutine, so Wait may not count every user.
WaitForStarted ==
  /\ bench = "wait"
  /\ \A u \in Users : upc[u] \in {"loop", "gone"}
  /\ bench' = "report"
  /\ UNCHANGED <<level, late, userVars, resultVars>>

\* wg.Wait
WaitForUsers ==
  /\ bench = "wait"
  /\ \A u \in Users : upc[u] = "gone"
  /\ bench' = "report"
  /\ UNCHANGED <<level, late, userVars, resultVars>>

PrintLevel ==
  /\ bench = "report"
  /\ level' = level + 1
  /\ bench' = IF level = Len(Levels) THEN "exit" ELSE "start"
  /\ UNCHANGED <<late, userVars, resultVars>>

DeadlinePasses ==
  /\ bench = "wait"
  /\ ~late
  /\ late' = TRUE
  /\ UNCHANGED <<level, bench, userVars, resultVars>>

-----------------------------------------------------------------------------
\* A user

\* The loop's condition.
Post(u) ==
  /\ upc[u] = "loop"
  /\ ~late
  /\ posts[u] < MaxPosts
  /\ posts' = [posts EXCEPT ![u] = @ + 1]
  /\ UserGoto(u, "wait")
  /\ UNCHANGED <<level, bench, late, got, resultVars>>

Leave(u) ==
  /\ upc[u] = "loop"
  /\ late
  /\ UserGoto(u, "gone")
  /\ UNCHANGED <<level, bench, late, got, posts, resultVars>>

\* An answer, or an error within the client's timeout of 10 s.
Response(u) ==
  /\ upc[u] = "wait"
  /\ \E c \in Codes :
       /\ got' = [got EXCEPT ![u] = c]
       /\ UserGoto(u, IF c = 0 THEN "recordErr" ELSE "latency")
  /\ UNCHANGED <<level, bench, late, posts, resultVars>>

RecordErr(u) ==
  /\ upc[u] = "recordErr"
  /\ firstErr' = TRUE
  /\ UserGoto(u, "latency")
  /\ UNCHANGED <<level, bench, late, got, posts, latencies, total, statusCount>>

\* record: the slice under its mutex, then the counters, each atomic.
RecordLatency(u) ==
  /\ upc[u] = "latency"
  /\ latencies' = latencies + 1
  /\ UserGoto(u, "total")
  /\ UNCHANGED <<level, bench, late, got, posts, total, statusCount, firstErr>>

RecordTotal(u) ==
  /\ upc[u] = "total"
  /\ total' = IF got[u] = 200 THEN [total EXCEPT !.ok = @ + 1] ELSE [total EXCEPT !.err = @ + 1]
  /\ UserGoto(u, "status")
  /\ UNCHANGED <<level, bench, late, got, posts, latencies, statusCount, firstErr>>

RecordStatus(u) ==
  /\ upc[u] = "status"
  /\ statusCount' = [statusCount EXCEPT ![got[u]] = @ + 1]
  /\ UserGoto(u, "loop")
  /\ UNCHANGED <<level, bench, late, got, posts, latencies, total, firstErr>>

User(u) ==
  \/ Post(u) \/ Leave(u) \/ Response(u) \/ RecordErr(u)
  \/ RecordLatency(u) \/ RecordTotal(u) \/ RecordStatus(u)

LoadMain == StartLevel \/ WaitForUsers \/ PrintLevel

LoadNext == LoadMain \/ DeadlinePasses \/ \E u \in Users : User(u)

\* Time passes, and each request is answered or times out.
LoadFairness ==
  /\ WF_loadVars(LoadMain) /\ WF_loadVars(DeadlinePasses)
  /\ \A u \in Users : WF_loadVars(User(u))

-----------------------------------------------------------------------------
\* Properties

\* Every variable keeps its type; users beyond the level do not run.
LoadTypeOK ==
  /\ level \in 1..Len(Levels) + 1
  /\ bench \in {"start", "wait", "report", "exit"}
  /\ late \in BOOLEAN /\ firstErr \in BOOLEAN
  /\ upc \in [Users -> {"gone", "loop", "wait", "recordErr", "latency", "total", "status"}]
  /\ got \in [Users -> Codes]
  /\ posts \in [Users -> 0..MaxPosts]
  /\ latencies \in Nat
  /\ total \in [ok : Nat, err : Nat]
  /\ statusCount \in [Codes -> Nat]
  /\ \A u \in Users : upc[u] # "gone" => bench = "wait" /\ u <= Levels[level]

\* The requests of the level: the n-th of user u.
Made == {r \in Users \X (1..MaxPosts) : r[2] <= posts[r[1]]}

\* What is printed of a level adds up: the users of the level have finished, and
\* every request they made is counted once in the totals, in the latencies the
\* percentiles are taken from, and under its status; a connection error is shown
\* exactly when one was counted.
LoadReport ==
  bench = "report" =>
    /\ total.ok + total.err = latencies
    /\ latencies = statusCount[0] + statusCount[200] + statusCount[503]
    /\ latencies = Cardinality(Made)
    /\ total.ok = statusCount[200]
    /\ firstErr <=> statusCount[0] > 0

LoadOver == bench = "exit"
=============================================================================
