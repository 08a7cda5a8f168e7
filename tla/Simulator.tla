----------------------------- MODULE Simulator -----------------------------
(***************************************************************************)
(* The trip simulator (simulator/cmd/simulator): it loads the rows of a    *)
(* CSV file, hands the earliest ones in their historical order to a fixed  *)
(* number of senders, and each sender posts its row to the backend, which  *)
(* is DispatchAbstract here: Dispatch is shown to implement it.            *)
(***************************************************************************)
EXTENDS Naturals, FiniteSets, SequencesExt

CONSTANTS
  Records,      \* the records of the file; a trip is named after its record
  Time,         \* Time[r]: the pickup_datetime of a record, if it parses
  Limits,       \* values of -limit; 0 for no limit
  MaxSenders,   \* bound on -workers
  Drivers, Dist, None

ASSUME SimulatorAssumption ==
  /\ IsFiniteSet(Records)
  /\ MaxSenders \in Nat \ {0}
  /\ Time \in [Records -> Nat]
  /\ Limits \subseteq Nat
  /\ None \notin Records

Senders == 1..MaxSenders

VARIABLES
  shape,        \* "good", "malformed" (parseRow fails) or "ragged" (r.Read fails)
  limit,        \* -limit
  senders,      \* the goroutines started: -workers of them, at least one
  replay,       \* where main is
  rows,         \* the rows to replay, in order
  handed,       \* how many main has given to the channel
  jobs,         \* the channel, of capacity 2 * workers
  spc,          \* where each sender is
  row,          \* the row it posts
  posted,       \* the rows whose request has reached the backend
  sent, failed, \* the two counters
  driver, trip, result  \* the backend

backendVars == <<driver, trip, result>>
flagVars == <<shape, limit, senders>>
mainVars == <<flagVars, replay, rows, handed>>
senderVars == <<spc, row, posted, sent, failed>>
simVars == <<mainVars, jobs, senderVars, backendVars>>

Backend == INSTANCE DispatchAbstract WITH
  Requests <- Records, driver <- driver, trip <- trip, result <- result

SimInit ==
  /\ shape \in [Records -> {"good", "malformed", "ragged"}]
  /\ limit \in Limits
  /\ senders \in {1..n : n \in Senders}
  /\ replay = "load"
  /\ rows = <<>>
  /\ handed = 0
  /\ jobs = <<>>
  /\ spc = [s \in Senders |-> "idle"]
  /\ row = [s \in Senders |-> None]
  /\ posted = {}
  /\ sent = 0
  /\ failed = 0
  /\ Backend!Init

-----------------------------------------------------------------------------
\* main

Good == {r \in Records : shape[r] = "good"}

Truncate(s) == IF limit > 0 /\ limit < Len(s) THEN SubSeq(s, 1, limit) ELSE s

InTime(s) == \A i, j \in 1..Len(s) : i < j => Time[s[i]] <= Time[s[j]]

\* Mutation: the limit is applied to the file, which is not in order of time.
LimitThenSort == {s \in {Truncate(q) : q \in SetToSeqs(Good)} : InTime(s)}

\* All rows sorted by time, equal times in any order; then the limit.
Selections == {Truncate(s) : s \in {q \in SetToSeqs(Good) : InTime(q)}}

\* A record that encoding/csv refuses ends the program, one that does not parse
\* is skipped; without any row left the program ends as well.
Load ==
  /\ replay = "load"
  /\ IF Good = {} \/ \E r \in Records : shape[r] = "ragged"
     THEN replay' = "fatal" /\ UNCHANGED rows
     ELSE replay' = "pace" /\ rows' \in Selections
  /\ UNCHANGED <<flagVars, handed, jobs, senderVars, backendVars>>

\* After a sleep of any length the row is sent on the channel, which may be full.
Hand ==
  /\ replay = "pace"
  /\ handed < Len(rows)
  /\ Len(jobs) < 2 * Cardinality(senders)
  /\ jobs' = Append(jobs, rows[handed + 1])
  /\ handed' = handed + 1
  /\ UNCHANGED <<flagVars, replay, rows, senderVars, backendVars>>

CloseJobs ==
  /\ replay = "pace"
  /\ handed = Len(rows)
  /\ replay' = "closed"
  /\ UNCHANGED <<flagVars, rows, handed, jobs, senderVars, backendVars>>

\* wg.Wait, then the report.
Report ==
  /\ replay = "closed"
  /\ \A s \in senders : spc[s] = "gone"
  /\ replay' = "done"
  /\ UNCHANGED <<flagVars, rows, handed, jobs, senderVars, backendVars>>

-----------------------------------------------------------------------------
\* A sender

SenderTake(s) ==
  /\ spc[s] = "idle"
  /\ replay \in {"pace", "closed"}
  /\ jobs # <<>>
  /\ row' = [row EXCEPT ![s] = Head(jobs)]
  /\ jobs' = Tail(jobs)
  /\ spc' = [spc EXCEPT ![s] = "post"]
  /\ UNCHANGED <<mainVars, posted, sent, failed, backendVars>>

SenderExit(s) ==
  /\ spc[s] = "idle"
  /\ replay = "closed"
  /\ jobs = <<>>
  /\ spc' = [spc EXCEPT ![s] = "gone"]
  /\ UNCHANGED <<mainVars, jobs, row, posted, sent, failed, backendVars>>

\* The request reaches the backend.
Arrive(s) ==
  /\ spc[s] = "post"
  /\ row[s] \notin posted
  /\ posted' = posted \cup {row[s]}
  /\ UNCHANGED <<mainVars, jobs, spc, row, sent, failed, backendVars>>

Release(s) ==
  /\ spc' = [spc EXCEPT ![s] = "idle"]
  /\ row' = [row EXCEPT ![s] = None]

\* 201 whatever AssignTrip returned, 500 when there is no trip for the client.
Answered(s) ==
  /\ spc[s] = "post"
  /\ result[row[s]] # "NONE"
  /\ IF result[row[s]] = "NOT_CREATED"
     THEN failed' = failed + 1 /\ UNCHANGED sent
     ELSE sent' = sent + 1 /\ UNCHANGED failed
  /\ Release(s)
  /\ UNCHANGED <<mainVars, jobs, posted, backendVars>>

\* Mutation: the client has no timeout, only a refused connection fails.
Unreachable(s) ==
  /\ spc[s] = "post"
  /\ row[s] \notin posted
  /\ failed' = failed + 1
  /\ Release(s)
  /\ UNCHANGED <<mainVars, jobs, posted, sent, backendVars>>

\* The client's timeout of 5 s, or no connection; the backend may go on.
TimedOut(s) ==
  /\ spc[s] = "post"
  /\ failed' = failed + 1
  /\ Release(s)
  /\ UNCHANGED <<mainVars, jobs, posted, sent, backendVars>>

Sender(s) == SenderTake(s) \/ SenderExit(s) \/ Arrive(s) \/ Answered(s) \/ TimedOut(s)

BackendStep(r) ==
  /\ r \in posted
  /\ Backend!Create(r) \/ Backend!AssignNearest(r) \/ Backend!GiveUp(r)
  /\ UNCHANGED <<mainVars, jobs, senderVars>>

SimMain == Load \/ Hand \/ CloseJobs \/ Report

SimNext ==
  \/ SimMain
  \/ \E s \in senders : Sender(s)
  \/ \E r \in Records : BackendStep(r)

\* Sleeps and requests end; nothing is assumed of the backend.
SimFairness == WF_simVars(SimMain) /\ \A s \in Senders : WF_simVars(s \in senders /\ Sender(s))

-----------------------------------------------------------------------------
\* Properties

\* Every variable keeps its type; the channel is bounded, and a sender has a row
\* exactly while it posts.
SimTypeOK ==
  /\ shape \in [Records -> {"good", "malformed", "ragged"}]
  /\ limit \in Limits
  /\ senders \in {1..n : n \in Senders}
  /\ replay \in {"load", "fatal", "pace", "closed", "done"}
  /\ rows \in Seq(Records)
  /\ handed \in 0..Len(rows)
  /\ jobs \in Seq(Records) /\ Len(jobs) <= 2 * Cardinality(senders)
  /\ spc \in [Senders -> {"idle", "post", "gone"}]
  /\ row \in [Senders -> Records \cup {None}]
  /\ \A s \in Senders : spc[s] = "post" <=> row[s] # None
  /\ posted \subseteq Records
  /\ sent \in Nat /\ failed \in Nat

Replayed == ToSet(rows)
Created == {r \in Records : trip[r].status # "ABSENT"}

\* The report is true.  Every row replayed is counted once as sent or failed;
\* what was replayed are the earliest rows of the file, as many as the limit
\* allows; no row outside them has a trip, and each trip counted as sent exists,
\* though a failed one may exist too (its answer was late).
SimReport ==
  replay = "done" =>
    /\ sent + failed = Len(rows)
    /\ Cardinality(Replayed) = Len(rows)
    /\ Len(rows) = Cardinality(Good) \/ Len(rows) = limit
    /\ \A r \in Replayed, g \in Good \ Replayed : Time[r] <= Time[g]
    /\ Created \subseteq Replayed
    /\ sent <= Cardinality(Created)

SimOver == replay \in {"fatal", "done"}
=============================================================================
