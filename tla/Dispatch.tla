------------------------------ MODULE Dispatch ------------------------------
(***************************************************************************)
(* POST /api/v1/trips with the PostgreSQL repositories: the handler        *)
(* CreateTrip inserts a PENDING trip, then PostgresRepository.AssignTrip    *)
(* claims the nearest AVAILABLE driver in one READ COMMITTED transaction.   *)
(*                                                                         *)
(* The handler's goroutine and the server-side session of its transaction  *)
(* are kept apart: a handler may give up (cancelled context, lost          *)
(* connection) or die while the session still holds row locks or has a     *)
(* COMMIT in flight.                                                       *)
(***************************************************************************)
EXTENDS Naturals, FiniteSets

CONSTANTS
  Requests,     \* the POST /trips calls; each creates the trip of its own name
  Drivers,      \* driver ids, as naturals in the order of the string ids
  Dist,         \* Dist[r][d]: haversine distance from r's pickup to d
  MaxConns,     \* poolConfig.MaxConns
  MaxFaults,    \* bound on the failures and crashes of a behaviour
  Impatient,    \* requests whose clients may leave a wait for a row lock at no
                \* cost to this bound
  None

ASSUME DispatchAssumption ==
  /\ Drivers \subseteq Nat
  /\ Dist \in [Requests -> [Drivers -> Nat]]
  /\ MaxConns \in Nat \ {0}
  /\ MaxFaults \in Nat
  /\ None \notin Drivers \cup Requests

DriverStatus == {"AVAILABLE", "BUSY", "OFFLINE"}
TripStatus == {"ABSENT", "PENDING", "DISPATCHED"}
Result == {"NONE", "DISPATCHED", "NO_DRIVER", "FAILED", "NOT_CREATED"}

\* Sessions whose client is gone, after it sent COMMIT or before.
Detached == {"lost", "indoubt"}
TxState == {"none", "open", "committed", "aborted"} \cup Detached

VARIABLES
  \* the committed rows
  driver,       \* drivers.status
  trip,         \* trips.status and trips.driver_id
  \* the sessions of the transactions
  tx,           \* the state of the session, see TxState
  lock,         \* the request whose transaction holds the row lock of a driver
  at,           \* the driver for whose row lock an UPDATE of the session waits
  claim,        \* uncommitted write of the transaction: the driver made BUSY
  assign,       \* uncommitted write of the transaction: trips.driver_id
  \* the handlers
  pc,
  todo,         \* candidates not yet skipped
  result,       \* what CreateTrip learnt; the reply and the event follow from it
  faults

dbVars == <<driver, trip>>
txVars == <<tx, lock, at, claim, assign>>
handlerVars == <<pc, todo, result>>
vars == <<dbVars, txVars, handlerVars, faults>>

Row(status, d) == [status |-> status, driver |-> d]

HoldsConn == {"read", "claim", "wait", "persist", "commit", "rollback"}
PC == HoldsConn \cup {"new", "begin", "respond", "done", "dead"}

Init ==
  /\ driver \in [Drivers -> DriverStatus]
  /\ trip = [r \in Requests |-> Row("ABSENT", None)]
  /\ tx = [r \in Requests |-> "none"]
  /\ lock = [d \in Drivers |-> None]
  /\ at = [r \in Requests |-> None]
  /\ claim = [r \in Requests |-> None]
  /\ assign = [r \in Requests |-> None]
  /\ pc = [r \in Requests |-> "new"]
  /\ todo = [r \in Requests |-> {}]
  /\ result = [r \in Requests |-> "NONE"]
  /\ faults = 0

-----------------------------------------------------------------------------
\* Helpers

Goto(r, label) == pc' = [pc EXCEPT ![r] = label]

Skip(r, d) == todo' = [todo EXCEPT ![r] = @ \ {d}]

\* The walk over the candidates is left.
EndWalk(r) == todo' = [todo EXCEPT ![r] = {}]

Learn(r, what) == result' = [result EXCEPT ![r] = what]

\* One more thing goes wrong.
Fault == faults < MaxFaults /\ faults' = faults + 1

Available == {d \in Drivers : driver[d] = "AVAILABLE"}

\* The order of sort.Slice: by distance, ties by id.
Closer(r, d, e) ==
  \/ Dist[r][d] < Dist[r][e]
  \/ Dist[r][d] = Dist[r][e] /\ d < e

IsNearest(r, d, S) == d \in S /\ \A e \in S \ {d} : Closer(r, d, e)

\* Every statement needs a connection of the pool; a transaction keeps one.
FreeConn == Cardinality({r \in Requests : pc[r] \in HoldsConn}) < MaxConns

\* The UPDATE of r asks for the row lock of d, and waits no longer.
Await(r, d) == at' = [at EXCEPT ![r] = d]
StopWaiting(r) == at' = [at EXCEPT ![r] = None]

\* The end of r's transaction frees its row locks and forgets its writes.
EndTx(r, how) ==
  /\ tx' = [tx EXCEPT ![r] = how]
  /\ lock' = [d \in Drivers |-> IF lock[d] = r THEN None ELSE lock[d]]
  /\ claim' = [claim EXCEPT ![r] = None]
  /\ assign' = [assign EXCEPT ![r] = None]
  /\ StopWaiting(r)

\* Mutation: the UPDATE of trips forgets driver_id.
CommitWithoutDriverId(r) ==
  /\ driver' = [d \in Drivers |-> IF d = claim[r] THEN "BUSY" ELSE driver[d]]
  /\ trip' = IF assign[r] = None THEN trip
             ELSE [trip EXCEPT ![r] = Row("DISPATCHED", None)]
  /\ EndTx(r, "committed")

\* COMMIT takes effect: both writes of the transaction become visible at once.
ApplyCommit(r) ==
  /\ driver' = [d \in Drivers |-> IF d = claim[r] THEN "BUSY" ELSE driver[d]]
  /\ trip' = IF assign[r] = None THEN trip
             ELSE [trip EXCEPT ![r] = Row("DISPATCHED", assign[r])]
  /\ EndTx(r, "committed")

-----------------------------------------------------------------------------
\* The handler

\* trips.Create succeeds.
CreateRow(r) ==
  /\ pc[r] = "new"
  /\ FreeConn
  /\ trip' = [trip EXCEPT ![r] = Row("PENDING", None)]
  /\ Goto(r, "begin")
  /\ UNCHANGED <<driver, txVars, todo, result, faults>>

\* trips.Create fails (500); the INSERT may have been applied all the same.
CreateFails(r) ==
  /\ pc[r] = "new"
  /\ Fault
  /\ \/ trip' = [trip EXCEPT ![r] = Row("PENDING", None)]
     \/ UNCHANGED trip
  /\ Learn(r, "NOT_CREATED")
  /\ Goto(r, "done")
  /\ UNCHANGED <<driver, txVars, todo>>

Begin(r) ==
  /\ pc[r] = "begin"
  /\ FreeConn
  /\ tx' = [tx EXCEPT ![r] = "open"]
  /\ Goto(r, "read")
  /\ UNCHANGED <<dbVars, lock, at, claim, assign, todo, result, faults>>

\* SELECT ... WHERE status = 'AVAILABLE': a plain read of the committed rows.
ReadCandidates(r) ==
  /\ pc[r] = "read"
  /\ todo' = [todo EXCEPT ![r] = Available]
  /\ Goto(r, "claim")
  /\ UNCHANGED <<dbVars, txVars, result, faults>>

\* Mutation: ask again until there is a driver.
AskAgain(r) ==
  /\ pc[r] = "claim"
  /\ todo[r] = {}
  /\ Goto(r, "read")
  /\ UNCHANGED <<dbVars, txVars, todo, result, faults>>

\* There was no candidate, or each was claimed by a concurrent request.
OutOfCandidates(r) ==
  /\ pc[r] = "claim"
  /\ todo[r] = {}
  /\ Learn(r, "NO_DRIVER")
  /\ Goto(r, "rollback")
  /\ UNCHANGED <<dbVars, txVars, todo, faults>>

\* Mutation: the candidates are not sorted.
IssueUnsorted(r) ==
  /\ pc[r] = "claim"
  /\ \E d \in todo[r] \cap Available : Await(r, d)
  /\ Goto(r, "wait")
  /\ UNCHANGED <<dbVars, tx, lock, claim, assign, todo, result, faults>>

\* Mutation: the row is locked by id first and its status looked at afterwards.
IssueLockById(r) ==
  /\ pc[r] = "claim"
  /\ \E d \in todo[r] :
       /\ IsNearest(r, d, todo[r])
       /\ Await(r, d)
  /\ Goto(r, "wait")
  /\ UNCHANGED <<dbVars, tx, lock, claim, assign, todo, result, faults>>

\* The conditional UPDATE of the nearest remaining candidate finds the row
\* AVAILABLE in its statement snapshot and asks for the row lock.
IssueClaim(r) ==
  /\ pc[r] = "claim"
  /\ \E d \in Available :
       /\ IsNearest(r, d, todo[r])
       /\ Await(r, d)
  /\ Goto(r, "wait")
  /\ UNCHANGED <<dbVars, tx, lock, claim, assign, todo, result, faults>>

\* A row no longer AVAILABLE in the snapshot is passed over without a lock.
PassOver(r) ==
  /\ pc[r] = "claim"
  /\ \E d \in Drivers \ Available :
       /\ IsNearest(r, d, todo[r])
       /\ Skip(r, d)
  /\ UNCHANGED <<dbVars, txVars, pc, result, faults>>

\* The row lock is granted to the UPDATE of r.
LockRow(r) ==
  /\ pc[r] = "wait"
  /\ lock[at[r]] \in {None, r}
  /\ lock' = [lock EXCEPT ![at[r]] = r]
  /\ StopWaiting(r)

\* Mutation: UPDATE drivers ... WHERE id = $1, without AND status = 'AVAILABLE'.
ClaimUnconditionally(r) ==
  /\ LockRow(r)
  /\ claim' = [claim EXCEPT ![r] = at[r]]
  /\ EndWalk(r)
  /\ Goto(r, "persist")
  /\ UNCHANGED <<dbVars, tx, assign, result, faults>>

\* Mutation: the claim runs on the pool instead of the transaction.
ClaimOutsideTx(r) ==
  /\ LockRow(r)
  /\ at[r] \in Available
  /\ driver' = [driver EXCEPT ![at[r]] = "BUSY"]
  /\ claim' = [claim EXCEPT ![r] = at[r]]
  /\ EndWalk(r)
  /\ Goto(r, "persist")
  /\ UNCHANGED <<trip, tx, assign, result, faults>>

\* The newest version of the locked row still is AVAILABLE: r makes it BUSY.
ClaimRow(r) ==
  /\ LockRow(r)
  /\ at[r] \in Available
  /\ claim' = [claim EXCEPT ![r] = at[r]]
  /\ EndWalk(r)
  /\ Goto(r, "persist")
  /\ UNCHANGED <<dbVars, tx, assign, result, faults>>

\* Mutation: the first lost race ends the search.
LoseAll(r) ==
  /\ LockRow(r)
  /\ at[r] \notin Available
  /\ EndWalk(r)
  /\ Goto(r, "claim")
  /\ UNCHANGED <<dbVars, tx, claim, assign, result, faults>>

\* It is not, because the previous holder of the lock committed: ErrNoRows.
\* The lock stays with r until its transaction ends.
LoseRow(r) ==
  /\ LockRow(r)
  /\ at[r] \notin Available
  /\ Skip(r, at[r])
  /\ Goto(r, "claim")
  /\ UNCHANGED <<dbVars, tx, claim, assign, result, faults>>

\* UPDATE trips ... WHERE status = 'PENDING'; no row affected is an error.
PersistTrip(r) ==
  /\ pc[r] = "persist"
  /\ IF trip[r].status = "PENDING"
     THEN /\ assign' = [assign EXCEPT ![r] = claim[r]]
          /\ Goto(r, "commit")
          /\ UNCHANGED result
     ELSE /\ Learn(r, "FAILED")
          /\ Goto(r, "rollback")
          /\ UNCHANGED assign
  /\ UNCHANGED <<dbVars, tx, lock, at, claim, todo, faults>>

Commit(r) ==
  /\ pc[r] = "commit"
  /\ ApplyCommit(r)
  /\ Learn(r, "DISPATCHED")
  /\ Goto(r, "respond")
  /\ UNCHANGED <<todo, faults>>

\* Mutation: the error of tx.Commit is ignored.
CommitErrorIgnored(r) ==
  /\ pc[r] = "commit"
  /\ Fault
  /\ tx' = [tx EXCEPT ![r] = "indoubt"]
  /\ Learn(r, "DISPATCHED")
  /\ Goto(r, "respond")
  /\ UNCHANGED <<dbVars, lock, at, claim, assign, todo>>

\* COMMIT was sent and the connection lost before its answer: tx.Commit
\* returns an error although the server may still apply the transaction.
CommitInDoubt(r) ==
  /\ pc[r] = "commit"
  /\ Fault
  /\ tx' = [tx EXCEPT ![r] = "indoubt"]
  /\ Learn(r, "FAILED")
  /\ Goto(r, "respond")
  /\ UNCHANGED <<dbVars, lock, at, claim, assign, todo>>

\* Begin or a statement returns an error, on a connection that survives.
Fail(r) ==
  /\ pc[r] \in {"begin", "read", "claim", "wait", "persist"}
  /\ Fault
  /\ StopWaiting(r)
  /\ EndWalk(r)
  /\ Learn(r, "FAILED")
  /\ Goto(r, IF pc[r] = "begin" THEN "respond" ELSE "rollback")
  /\ UNCHANGED <<dbVars, tx, lock, claim, assign>>

\* The connection breaks under a statement, or pgx closes it because the client
\* left and the request's context ended.
LoseConn(r) ==
  /\ pc[r] \in {"read", "claim", "wait", "persist"}
  /\ IF r \in Impatient /\ pc[r] = "wait" THEN UNCHANGED faults ELSE Fault
  /\ tx' = [tx EXCEPT ![r] = "lost"]
  /\ EndWalk(r)
  /\ Learn(r, "FAILED")
  /\ Goto(r, "rollback")
  /\ UNCHANGED <<dbVars, lock, at, claim, assign>>

\* Mutation: no deferred tx.Rollback; the session stays idle in transaction.
RollbackForgotten(r) ==
  /\ pc[r] = "rollback"
  /\ tx[r] = "open"
  /\ Goto(r, "respond")
  /\ UNCHANGED <<dbVars, txVars, todo, result, faults>>

\* The deferred tx.Rollback, on a live connection.
Rollback(r) ==
  /\ pc[r] = "rollback"
  /\ tx[r] = "open"
  /\ EndTx(r, "aborted")
  /\ Goto(r, "respond")
  /\ UNCHANGED <<dbVars, todo, result, faults>>

\* The connection breaks under the deferred tx.Rollback.
RollbackLost(r) ==
  /\ pc[r] = "rollback"
  /\ tx[r] = "open"
  /\ Fault
  /\ tx' = [tx EXCEPT ![r] = "lost"]
  /\ Goto(r, "respond")
  /\ UNCHANGED <<dbVars, lock, at, claim, assign, todo, result>>

\* The deferred tx.Rollback on a connection that is gone: its error is dropped.
RollbackClosed(r) ==
  /\ pc[r] = "rollback"
  /\ tx[r] # "open"
  /\ Goto(r, "respond")
  /\ UNCHANGED <<dbVars, txVars, todo, result, faults>>

\* Broadcast of trip_created and 201: DISPATCHED after AssignTrip returned a
\* driver, PENDING in every other case.
Respond(r) ==
  /\ pc[r] = "respond"
  /\ Goto(r, "done")
  /\ UNCHANGED <<dbVars, txVars, todo, result, faults>>

-----------------------------------------------------------------------------
\* The server and the process

\* The server notices that the client of a transaction is gone.  It ends no
\* session of a client that is still there, however long that is idle.
Reap(r) ==
  /\ tx[r] \in Detached
  /\ EndTx(r, "aborted")
  /\ UNCHANGED <<dbVars, handlerVars, faults>>

\* An UPDATE without a client is granted the row lock it waits for.
LateLock(r) ==
  /\ tx[r] = "lost"
  /\ at[r] # None
  /\ lock[at[r]] \in {None, r}
  /\ lock' = [lock EXCEPT ![at[r]] = r]
  /\ claim' = IF at[r] \in Available THEN [claim EXCEPT ![r] = at[r]] ELSE claim
  /\ StopWaiting(r)
  /\ UNCHANGED <<dbVars, tx, assign, handlerVars, faults>>

\* A COMMIT whose sender no longer listens takes effect.
Land(r) ==
  /\ tx[r] = "indoubt"
  /\ ApplyCommit(r)
  /\ UNCHANGED <<handlerVars, faults>>

\* The backend dies; a COMMIT may already be on its way. Later requests are
\* served by the restarted process, which re-dispatches nothing.
Crash ==
  /\ Fault
  /\ \E r \in Requests : pc[r] \notin {"new", "done", "dead"}
  /\ \E sent \in SUBSET {r \in Requests : pc[r] = "commit"} :
       tx' = [r \in Requests |-> IF r \in sent THEN "indoubt"
                                 ELSE IF tx[r] = "open" THEN "lost"
                                 ELSE tx[r]]
  /\ pc' = [r \in Requests |-> IF pc[r] \in {"new", "done"} THEN pc[r] ELSE "dead"]
  /\ todo' = [r \in Requests |-> {}]
  /\ UNCHANGED <<dbVars, lock, at, claim, assign, result>>

Handler(r) ==
  \/ Begin(r) \/ ReadCandidates(r) \/ OutOfCandidates(r)
  \/ IssueClaim(r) \/ PassOver(r) \/ ClaimRow(r) \/ LoseRow(r) \/ PersistTrip(r)
  \/ Commit(r) \/ CommitInDoubt(r) \/ Fail(r) \/ LoseConn(r)
  \/ Rollback(r) \/ RollbackLost(r) \/ RollbackClosed(r) \/ Respond(r)

Server(r) == Reap(r) \/ LateLock(r) \/ Land(r)

\* Nothing is left to do.
Quiescent ==
  \A r \in Requests : pc[r] \in {"done", "dead"} /\ tx[r] \notin Detached

Finished == Quiescent /\ UNCHANGED vars

Next ==
  \/ \E r \in Requests : CreateRow(r) \/ CreateFails(r) \/ Handler(r) \/ Server(r)
  \/ Crash
  \/ Finished

Spec == Init /\ [][Next]_vars

\* The steps of the handler that need no fault: an answered statement.
Progress(r) ==
  \/ Begin(r) \/ ReadCandidates(r) \/ OutOfCandidates(r)
  \/ IssueClaim(r) \/ PassOver(r) \/ ClaimRow(r) \/ LoseRow(r) \/ PersistTrip(r)
  \/ Commit(r) \/ Rollback(r) \/ RollbackClosed(r) \/ Respond(r)

\* A session that waits for a lock looks at its client only when it has it.
Attend(r) == LateLock(r) \/ Land(r) \/ (at[r] = None /\ Reap(r))

\* The server answers a statement it can execute, and ends a session that has
\* lost its client. No fault has to happen: a wait for a row lock or for a
\* connection must not need a timeout to end.
Fairness == \A r \in Requests : WF_vars(Progress(r)) /\ WF_vars(Attend(r))

FairSpec == Spec /\ Fairness

-----------------------------------------------------------------------------
\* Properties

\* Every variable keeps its type, and a trip has a driver exactly when it is
\* DISPATCHED (trips.driver_id and trips.status are written together).
TypeOK ==
  /\ driver \in [Drivers -> DriverStatus]
  /\ trip \in [Requests -> [status : TripStatus, driver : Drivers \cup {None}]]
  /\ \A r \in Requests : trip[r].status = "DISPATCHED" <=> trip[r].driver # None
  /\ tx \in [Requests -> TxState]
  /\ lock \in [Drivers -> Requests \cup {None}]
  /\ at \in [Requests -> Drivers \cup {None}]
  /\ claim \in [Requests -> Drivers \cup {None}]
  /\ assign \in [Requests -> Drivers \cup {None}]
  /\ pc \in [Requests -> PC]
  /\ todo \in [Requests -> SUBSET Drivers]
  /\ result \in [Requests -> Result]
  /\ faults \in 0..MaxFaults

\* No driver serves two trips, however the claims of concurrent requests,
\* failed rollbacks, crashes and late commits interleave (driver.go:40-42).
NoDoubleDispatch ==
  \A r, s \in Requests :
    (r # s /\ trip[r].driver # None) => trip[r].driver # trip[s].driver

\* A driver claimed by a running transaction is the nearest of the drivers
\* still AVAILABLE at that moment, although the ranking came from an older read.
NearestClaimed ==
  \A r \in Requests : claim[r] # None => IsNearest(r, claim[r], Available)

\* ErrNoAvailableDrivers is never premature: when a request gives up for lack
\* of drivers, none is AVAILABLE, those locked by others included.
NoDriverJustified ==
  \A r \in Requests : result[r] = "NO_DRIVER" => Available = {}

\* The reply is backed by the committed rows.  A trip answered as DISPATCHED
\* has a driver, who is BUSY; a trip whose creation failed for its client, or
\* that found no driver, never takes one, even if its row was inserted.
ReplyBacked ==
  \A r \in Requests :
    /\ result[r] = "DISPATCHED" =>
         trip[r].status = "DISPATCHED" /\ driver[trip[r].driver] = "BUSY"
    /\ result[r] \in {"NOT_CREATED", "NO_DRIVER"} => trip[r].driver = None

\* Locks kept on skipped rows never close a cycle of transactions that wait
\* for each other, whatever the orders in which they rank the drivers, and
\* with those whose clients are gone.
NoWaitCycle ==
  \A S \in (SUBSET Requests) \ {{}} :
    \E r \in S : ~(at[r] # None /\ lock[at[r]] \in S \ {r})

\* After a failed assignment the log says "trip stays pending"
\* (handlers.go:286) and the reply says PENDING.
StaysPending ==
  \A r \in Requests : result[r] \in {"FAILED", "NO_DRIVER"} => trip[r].status = "PENDING"

\* Every request that got its row is answered, unless the process dies.
EveryRequestAnswered ==
  \A r \in Requests : pc[r] = "begin" ~> pc[r] \in {"done", "dead"}

\* A row lock is always released in the end: by a handler that returns on each
\* of its paths, or by the server when the client is gone.
LocksReleased == \A d \in Drivers : lock[d] # None ~> lock[d] = None

\* What the component promises: see DispatchAbstract.
Abstract == INSTANCE DispatchAbstract WITH driver <- driver, trip <- trip, result <- result
Implements == Abstract!Spec
=============================================================================
