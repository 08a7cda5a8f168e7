--------------------------- MODULE Dispatch_proofs ---------------------------
(***************************************************************************)
(* Proofs about Dispatch, for every fleet, every set of requests and every *)
(* ranking: the safety properties and the implementation of                *)
(* DispatchAbstract follow from one inductive invariant.                   *)
(***************************************************************************)
EXTENDS Dispatch, TLAPS

\* A claim is a lock on a row whose committed status is still AVAILABLE, so
\* nobody else can claim or change it.
ClaimLocked ==
  \A r \in Requests : claim[r] # None =>
    lock[claim[r]] = r /\ driver[claim[r]] = "AVAILABLE"

\* What a request's place in CreateTrip says of its transaction.
Stages ==
  \A r \in Requests :
    /\ pc[r] \in {"new", "begin"} => tx[r] = "none"
    /\ pc[r] \in HoldsConn \ {"rollback"} => tx[r] = "open"
    /\ tx[r] \in {"none", "committed", "aborted"} => claim[r] = None
    /\ at[r] # None => claim[r] = None /\ (tx[r] = "lost" \/ pc[r] = "wait")
    /\ claim[r] = None => assign[r] = None
    /\ assign[r] # None => assign[r] = claim[r]
    /\ tx[r] = "indoubt" => assign[r] # None
    /\ tx[r] = "indoubt" => result[r] \in {"NONE", "FAILED"}
    /\ pc[r] \in {"read", "claim", "wait"} => claim[r] = None
    /\ pc[r] \in {"persist", "commit"} => claim[r] # None
    /\ pc[r] = "commit" => assign[r] # None
    /\ pc[r] = "wait" => at[r] # None
    /\ pc[r] \in (HoldsConn \ {"rollback"}) \cup {"new", "begin"} => result[r] = "NONE"

\* What it says of its trip row.
TripStages ==
  \A r \in Requests :
    /\ pc[r] = "new" => trip[r].status = "ABSENT"
    /\ pc[r] = "new" => tx[r] = "none"
    /\ pc[r] = "begin" => trip[r].status = "PENDING"
    /\ tx[r] \in {"open"} \cup Detached => trip[r].status = "PENDING"

\* A driver given to a trip is BUSY, hence never claimed again.
AssignedBusy ==
  \A r \in Requests : trip[r].driver # None => driver[trip[r].driver] = "BUSY"

\* No AVAILABLE driver has been skipped, and none is closer than the candidate
\* waited for.
Candidates ==
  \A r \in Requests :
    /\ pc[r] \in {"claim", "wait"} => Available \subseteq todo[r]
    /\ at[r] # None => \A e \in Available \ {at[r]} : Closer(r, at[r], e)

IInv ==
  /\ TypeOK
  /\ ClaimLocked
  /\ Stages
  /\ TripStages
  /\ AssignedBusy
  /\ Candidates
  /\ NoDoubleDispatch
  /\ NearestClaimed
  /\ NoDriverJustified
  /\ ReplyBacked

-----------------------------------------------------------------------------
\* The invariant holds in every initial state, whatever statuses the fleet has.
LEMMA InitInv == Init => IInv
BY DispatchAssumption
   DEF Init, IInv, TypeOK, ClaimLocked, Stages, TripStages, AssignedBusy,
       Candidates, NoDoubleDispatch, NearestClaimed, NoDriverJustified,
       ReplyBacked, DriverStatus, TripStatus, Result, PC, HoldsConn, Row,
       TxState, Detached, IsNearest, Available

\* No statement, failure, late commit or crash breaks the invariant: one step
\* of the proof per action, one part per conjunct the action can disturb.
LEMMA StepInv == IInv /\ [Next]_vars => IInv'
<1> SUFFICES ASSUME IInv, [Next]_vars PROVE IInv'
  OBVIOUS
<1> USE DispatchAssumption DEF IInv, dbVars, txVars, handlerVars, Goto, Learn, Row,
      Await, StopWaiting, EndWalk, Skip, TxState, Detached
<1>1. ASSUME NEW r \in Requests, CreateRow(r) PROVE IInv'
  <2>1. TypeOK'
    BY <1>1 DEF CreateRow, TypeOK, DriverStatus, TripStatus, Result, PC,
       HoldsConn
  <2>2. Stages'
    BY <1>1 DEF CreateRow, Stages, TypeOK, HoldsConn
  <2>3. TripStages'
    BY <1>1 DEF CreateRow, TripStages, TypeOK, Stages, HoldsConn
  <2>4. AssignedBusy'
    BY <1>1 DEF CreateRow, AssignedBusy, TypeOK, ClaimLocked, Stages
  <2>5. Candidates'
    BY <1>1 DEF CreateRow, Candidates, TypeOK, IsNearest, Available
  <2>6. NoDoubleDispatch'
    BY <1>1 DEF CreateRow, NoDoubleDispatch, TypeOK, AssignedBusy,
       ClaimLocked, Stages
  <2>7. ReplyBacked'
    BY <1>1 DEF CreateRow, ReplyBacked, TypeOK, TripStages, Stages,
       AssignedBusy, ClaimLocked, HoldsConn
  <2>8. (ClaimLocked /\ NearestClaimed /\ NoDriverJustified)'
    BY <1>1 DEF CreateRow, ClaimLocked, NearestClaimed, IsNearest, Available,
       NoDriverJustified
  <2> QED BY <2>1, <2>2, <2>3, <2>4, <2>5, <2>6, <2>7, <2>8 DEF IInv
<1>2. ASSUME NEW r \in Requests, CreateFails(r) PROVE IInv'
  <2>0. \A q \in Requests : trip'[q].driver = trip[q].driver
    <3>1. trip[r].driver = None
      BY <1>2 DEF CreateFails, TypeOK, TripStages
    <3>2. CASE trip' = trip
      BY <3>2
    <3>3. CASE trip' = [trip EXCEPT ![r] = Row("PENDING", None)]
      BY <3>1, <3>3 DEF TypeOK
    <3> QED BY <1>2, <3>2, <3>3 DEF CreateFails
  <2>1. TypeOK'
    <3>1. trip' = trip \/ trip' = [trip EXCEPT ![r] = Row("PENDING", None)]
      BY <1>2 DEF CreateFails
    <3>2. trip' \in [Requests -> [status : TripStatus, driver : Drivers \cup {None}]]
      <4>1. [status |-> "PENDING", driver |-> None]
              \in [status : TripStatus, driver : Drivers \cup {None}]
        BY DEF TripStatus
      <4>2. CASE trip' = trip
        BY <4>2 DEF TypeOK
      <4>3. CASE trip' = [trip EXCEPT ![r] = Row("PENDING", None)]
        BY <4>1, <4>3 DEF TypeOK
      <4> QED BY <3>1, <4>2, <4>3
    <3>3. \A q \in Requests : trip'[q].status = "DISPATCHED" <=> trip'[q].driver # None
      <4>1. trip[r].driver = None
        BY <1>2 DEF CreateFails, TypeOK, TripStages
      <4>2. CASE trip' = trip
        BY <4>2 DEF TypeOK
      <4>3. CASE trip' = [trip EXCEPT ![r] = Row("PENDING", None)]
        BY <4>3 DEF TypeOK
      <4> QED BY <3>1, <4>2, <4>3
    <3>4. faults' \in 0..MaxFaults
      BY <1>2 DEF CreateFails, Fault, TypeOK
    <3> QED BY <1>2, <3>2, <3>3, <3>4 DEF CreateFails, TypeOK, Result, PC
  <2>2. Stages'
    BY <1>2 DEF CreateFails, Stages, TypeOK, HoldsConn
  <2>3. TripStages'
    BY <1>2 DEF CreateFails, TripStages, TypeOK, Stages, HoldsConn
  <2>4. AssignedBusy'
    BY <1>2, <2>0 DEF CreateFails, AssignedBusy
  <2>5. Candidates'
    BY <1>2 DEF CreateFails, Candidates, TypeOK, IsNearest, Available
  <2>6. NoDoubleDispatch'
    BY <1>2, <2>0 DEF CreateFails, NoDoubleDispatch
  <2>7. NoDriverJustified'
    BY <1>2 DEF CreateFails, NoDriverJustified, TypeOK, Candidates, Available
  <2>8. ReplyBacked'
    BY <1>2 DEF CreateFails, ReplyBacked, TypeOK, TripStages, Stages,
       AssignedBusy, ClaimLocked, HoldsConn
  <2>9. (ClaimLocked /\ NearestClaimed)'
    BY <1>2 DEF CreateFails, ClaimLocked, NearestClaimed, IsNearest,
       Available
  <2> QED BY <2>1, <2>2, <2>3, <2>4, <2>5, <2>6, <2>7, <2>8, <2>9 DEF IInv
<1>3. ASSUME NEW r \in Requests, Begin(r) PROVE IInv'
  <2>1. TypeOK'
    BY <1>3 DEF Begin, TypeOK, DriverStatus, TripStatus, Result, PC,
       HoldsConn
  <2>2. Stages'
    BY <1>3 DEF Begin, Stages, TypeOK, HoldsConn
  <2>3. TripStages'
    BY <1>3 DEF Begin, TripStages, TypeOK, Stages, HoldsConn
  <2>4. Candidates'
    BY <1>3 DEF Begin, Candidates, TypeOK, IsNearest, Available
  <2>5. (ClaimLocked /\ AssignedBusy /\ NoDoubleDispatch /\ NearestClaimed /\ NoDriverJustified /\ ReplyBacked)'
    BY <1>3 DEF Begin, ClaimLocked, AssignedBusy, NoDoubleDispatch,
       NearestClaimed, IsNearest, Available, NoDriverJustified, ReplyBacked
  <2> QED BY <2>1, <2>2, <2>3, <2>4, <2>5 DEF IInv
<1>4. ASSUME NEW r \in Requests, ReadCandidates(r) PROVE IInv'
  <2>1. TypeOK'
    BY <1>4 DEF ReadCandidates, Available, TypeOK, DriverStatus, TripStatus,
       Result, PC, HoldsConn
  <2>2. Stages'
    BY <1>4 DEF ReadCandidates, Available, Stages, TypeOK, HoldsConn
  <2>3. TripStages'
    BY <1>4 DEF ReadCandidates, Available, TripStages, TypeOK, Stages,
       HoldsConn
  <2>4. Candidates'
    BY <1>4 DEF ReadCandidates, Available, Candidates, TypeOK, IsNearest
  <2>5. (ClaimLocked /\ AssignedBusy /\ NoDoubleDispatch /\ NearestClaimed /\ NoDriverJustified /\ ReplyBacked)'
    BY <1>4 DEF ReadCandidates, Available, ClaimLocked, AssignedBusy,
       NoDoubleDispatch, NearestClaimed, IsNearest, NoDriverJustified,
       ReplyBacked
  <2> QED BY <2>1, <2>2, <2>3, <2>4, <2>5 DEF IInv
<1>5. ASSUME NEW r \in Requests, OutOfCandidates(r) PROVE IInv'
  <2>1. TypeOK'
    BY <1>5 DEF OutOfCandidates, TypeOK, DriverStatus, TripStatus, Result,
       PC, HoldsConn
  <2>2. Stages'
    BY <1>5 DEF OutOfCandidates, Stages, TypeOK, HoldsConn
  <2>3. TripStages'
    BY <1>5 DEF OutOfCandidates, TripStages, TypeOK, Stages, HoldsConn
  <2>4. Candidates'
    BY <1>5 DEF OutOfCandidates, Candidates, TypeOK, IsNearest, Available
  <2>5. NoDriverJustified'
    BY <1>5 DEF OutOfCandidates, NoDriverJustified, TypeOK, Candidates,
       Available
  <2>6. ReplyBacked'
    BY <1>5 DEF OutOfCandidates, ReplyBacked, TypeOK, TripStages, Stages,
       AssignedBusy, ClaimLocked, HoldsConn
  <2>7. (ClaimLocked /\ AssignedBusy /\ NoDoubleDispatch /\ NearestClaimed)'
    BY <1>5 DEF OutOfCandidates, ClaimLocked, AssignedBusy, NoDoubleDispatch,
       NearestClaimed, IsNearest, Available
  <2> QED BY <2>1, <2>2, <2>3, <2>4, <2>5, <2>6, <2>7 DEF IInv
<1>6. ASSUME NEW r \in Requests, IssueClaim(r) PROVE IInv'
  <2>1. TypeOK'
    BY <1>6 DEF IssueClaim, Available, TypeOK, DriverStatus, TripStatus,
       Result, PC, HoldsConn
  <2>2. Stages'
    BY <1>6 DEF IssueClaim, Available, Stages, TypeOK, HoldsConn
  <2>3. TripStages'
    BY <1>6 DEF IssueClaim, Available, TripStages, TypeOK, Stages, HoldsConn
  <2>4. Candidates'
    BY <1>6 DEF IssueClaim, Available, Candidates, TypeOK, IsNearest
  <2>5. (ClaimLocked /\ AssignedBusy /\ NoDoubleDispatch /\ NearestClaimed /\ NoDriverJustified /\ ReplyBacked)'
    BY <1>6 DEF IssueClaim, Available, ClaimLocked, AssignedBusy,
       NoDoubleDispatch, NearestClaimed, IsNearest, NoDriverJustified,
       ReplyBacked
  <2> QED BY <2>1, <2>2, <2>3, <2>4, <2>5 DEF IInv
<1>7. ASSUME NEW r \in Requests, PassOver(r) PROVE IInv'
  <2>1. TypeOK'
    BY <1>7 DEF PassOver, TypeOK, DriverStatus, TripStatus, Result, PC,
       HoldsConn
  <2>2. Candidates'
    BY <1>7 DEF PassOver, Candidates, TypeOK, IsNearest, Available
  <2>3. (ClaimLocked /\ Stages /\ TripStages /\ AssignedBusy /\ NoDoubleDispatch /\ NearestClaimed /\ NoDriverJustified /\ ReplyBacked)'
    BY <1>7 DEF PassOver, ClaimLocked, Stages, TripStages, AssignedBusy,
       NoDoubleDispatch, NearestClaimed, IsNearest, Available,
       NoDriverJustified, ReplyBacked
  <2> QED BY <2>1, <2>2, <2>3 DEF IInv
<1>8. ASSUME NEW r \in Requests, ClaimRow(r) PROVE IInv'
  <2>1. TypeOK'
    BY <1>8 DEF ClaimRow, LockRow, Available, TypeOK, DriverStatus,
       TripStatus, Result, PC, HoldsConn
  <2>2. ClaimLocked'
    BY <1>8 DEF ClaimRow, LockRow, Available, ClaimLocked, TypeOK, Stages
  <2>3. Stages'
    BY <1>8 DEF ClaimRow, LockRow, Available, Stages, TypeOK, HoldsConn
  <2>4. TripStages'
    BY <1>8 DEF ClaimRow, LockRow, Available, TripStages, TypeOK, Stages,
       HoldsConn
  <2>5. Candidates'
    BY <1>8 DEF ClaimRow, LockRow, Available, Candidates, TypeOK, IsNearest
  <2>6. NearestClaimed'
    BY <1>8 DEF ClaimRow, LockRow, Available, NearestClaimed, TypeOK,
       Candidates, IsNearest, ClaimLocked
  <2>7. (AssignedBusy /\ NoDoubleDispatch /\ NoDriverJustified /\ ReplyBacked)'
    BY <1>8 DEF ClaimRow, LockRow, Available, AssignedBusy, NoDoubleDispatch,
       NoDriverJustified, ReplyBacked
  <2> QED BY <2>1, <2>2, <2>3, <2>4, <2>5, <2>6, <2>7 DEF IInv
<1>9. ASSUME NEW r \in Requests, LoseRow(r) PROVE IInv'
  <2>1. TypeOK'
    BY <1>9 DEF LoseRow, LockRow, TypeOK, DriverStatus, TripStatus, Result,
       PC, HoldsConn
  <2>2. ClaimLocked'
    BY <1>9 DEF LoseRow, LockRow, ClaimLocked, TypeOK, Stages
  <2>3. Stages'
    BY <1>9 DEF LoseRow, LockRow, Stages, TypeOK, HoldsConn
  <2>4. TripStages'
    BY <1>9 DEF LoseRow, LockRow, TripStages, TypeOK, Stages, HoldsConn
  <2>5. Candidates'
    BY <1>9 DEF LoseRow, LockRow, Candidates, TypeOK, IsNearest, Available
  <2>6. (AssignedBusy /\ NoDoubleDispatch /\ NearestClaimed /\ NoDriverJustified /\ ReplyBacked)'
    BY <1>9 DEF LoseRow, LockRow, AssignedBusy, NoDoubleDispatch,
       NearestClaimed, IsNearest, Available, NoDriverJustified, ReplyBacked
  <2> QED BY <2>1, <2>2, <2>3, <2>4, <2>5, <2>6 DEF IInv
<1>10. ASSUME NEW r \in Requests, PersistTrip(r) PROVE IInv'
  <2>1. TypeOK'
    BY <1>10 DEF PersistTrip, TypeOK, DriverStatus, TripStatus, Result, PC,
       HoldsConn
  <2>2. Stages'
    BY <1>10 DEF PersistTrip, Stages, TypeOK, HoldsConn
  <2>3. TripStages'
    BY <1>10 DEF PersistTrip, TripStages, TypeOK, Stages, HoldsConn
  <2>4. Candidates'
    BY <1>10 DEF PersistTrip, Candidates, TypeOK, IsNearest, Available
  <2>5. NoDriverJustified'
    BY <1>10 DEF PersistTrip, NoDriverJustified, TypeOK, Candidates,
       Available
  <2>6. ReplyBacked'
    BY <1>10 DEF PersistTrip, ReplyBacked, TypeOK, TripStages, Stages,
       AssignedBusy, ClaimLocked, HoldsConn
  <2>7. (ClaimLocked /\ AssignedBusy /\ NoDoubleDispatch /\ NearestClaimed)'
    BY <1>10 DEF PersistTrip, ClaimLocked, AssignedBusy, NoDoubleDispatch,
       NearestClaimed, IsNearest, Available
  <2> QED BY <2>1, <2>2, <2>3, <2>4, <2>5, <2>6, <2>7 DEF IInv
<1>11. ASSUME NEW r \in Requests, Commit(r) PROVE IInv'
  <2>1. TypeOK'
    BY <1>11 DEF Commit, ApplyCommit, EndTx, TypeOK, DriverStatus,
       TripStatus, Result, PC, HoldsConn
  <2>2. ClaimLocked'
    BY <1>11 DEF Commit, ApplyCommit, EndTx, ClaimLocked, TypeOK, Stages
  <2>3. Stages'
    BY <1>11 DEF Commit, ApplyCommit, EndTx, Stages, TypeOK, HoldsConn
  <2>4. TripStages'
    BY <1>11 DEF Commit, ApplyCommit, EndTx, TripStages, TypeOK, Stages,
       HoldsConn
  <2>5. AssignedBusy'
    BY <1>11 DEF Commit, ApplyCommit, EndTx, AssignedBusy, TypeOK,
       ClaimLocked, Stages
  <2>6. Candidates'
    BY <1>11 DEF Commit, ApplyCommit, EndTx, Candidates, TypeOK, IsNearest,
       Available
  <2>7. NoDoubleDispatch'
    BY <1>11 DEF Commit, ApplyCommit, EndTx, NoDoubleDispatch, TypeOK,
       AssignedBusy, ClaimLocked, Stages
  <2>8. NearestClaimed'
    BY <1>11 DEF Commit, ApplyCommit, EndTx, NearestClaimed, TypeOK,
       Candidates, IsNearest, Available, ClaimLocked
  <2>9. NoDriverJustified'
    BY <1>11 DEF Commit, ApplyCommit, EndTx, NoDriverJustified, TypeOK,
       Candidates, Available
  <2>10. ReplyBacked'
    BY <1>11 DEF Commit, ApplyCommit, EndTx, ReplyBacked, TypeOK, TripStages,
       Stages, AssignedBusy, ClaimLocked, HoldsConn
  <2> QED BY <2>1, <2>2, <2>3, <2>4, <2>5, <2>6, <2>7, <2>8, <2>9, <2>10 DEF IInv
<1>12. ASSUME NEW r \in Requests, CommitInDoubt(r) PROVE IInv'
  <2>1. TypeOK'
    BY <1>12 DEF CommitInDoubt, Fault, TypeOK, DriverStatus, TripStatus, Result, PC,
       HoldsConn
  <2>2. Stages'
    BY <1>12 DEF CommitInDoubt, Stages, TypeOK, HoldsConn
  <2>3. TripStages'
    BY <1>12 DEF CommitInDoubt, TripStages, TypeOK, Stages, HoldsConn
  <2>4. Candidates'
    BY <1>12 DEF CommitInDoubt, Candidates, TypeOK, IsNearest, Available
  <2>5. NoDriverJustified'
    BY <1>12 DEF CommitInDoubt, NoDriverJustified, TypeOK, Candidates,
       Available
  <2>6. ReplyBacked'
    BY <1>12 DEF CommitInDoubt, ReplyBacked, TypeOK, TripStages, Stages,
       AssignedBusy, ClaimLocked, HoldsConn
  <2>7. (ClaimLocked /\ AssignedBusy /\ NoDoubleDispatch /\ NearestClaimed)'
    BY <1>12 DEF CommitInDoubt, ClaimLocked, AssignedBusy, NoDoubleDispatch,
       NearestClaimed, IsNearest, Available
  <2> QED BY <2>1, <2>2, <2>3, <2>4, <2>5, <2>6, <2>7 DEF IInv
<1>13. ASSUME NEW r \in Requests, Fail(r) PROVE IInv'
  <2>1. TypeOK'
    BY <1>13 DEF Fail, Fault, TypeOK, DriverStatus, TripStatus, Result, PC,
       HoldsConn
  <2>2. Stages'
    BY <1>13 DEF Fail, Stages, TypeOK, HoldsConn
  <2>3. TripStages'
    BY <1>13 DEF Fail, TripStages, TypeOK, Stages, HoldsConn
  <2>4. Candidates'
    BY <1>13 DEF Fail, Candidates, TypeOK, IsNearest, Available
  <2>5. NoDriverJustified'
    BY <1>13 DEF Fail, NoDriverJustified, TypeOK, Candidates, Available
  <2>6. ReplyBacked'
    BY <1>13 DEF Fail, ReplyBacked, TypeOK, TripStages, Stages, AssignedBusy,
       ClaimLocked, HoldsConn
  <2>7. (ClaimLocked /\ AssignedBusy /\ NoDoubleDispatch /\ NearestClaimed)'
    BY <1>13 DEF Fail, ClaimLocked, AssignedBusy, NoDoubleDispatch,
       NearestClaimed, IsNearest, Available
  <2> QED BY <2>1, <2>2, <2>3, <2>4, <2>5, <2>6, <2>7 DEF IInv
<1>14. ASSUME NEW r \in Requests, LoseConn(r) PROVE IInv'
  <2>1. TypeOK'
    BY <1>14 DEF LoseConn, Fault, TypeOK, DriverStatus, TripStatus, Result,
       PC, HoldsConn
  <2>2. Stages'
    BY <1>14 DEF LoseConn, Stages, TypeOK, HoldsConn
  <2>3. TripStages'
    BY <1>14 DEF LoseConn, TripStages, TypeOK, Stages, HoldsConn
  <2>4. Candidates'
    BY <1>14 DEF LoseConn, Candidates, TypeOK, Closer, Available
  <2>5. NoDriverJustified'
    BY <1>14 DEF LoseConn, NoDriverJustified, TypeOK, Candidates, Available
  <2>6. ReplyBacked'
    BY <1>14 DEF LoseConn, ReplyBacked, TypeOK, TripStages, Stages,
       AssignedBusy, ClaimLocked, HoldsConn
  <2>7. (ClaimLocked /\ AssignedBusy /\ NoDoubleDispatch /\ NearestClaimed)'
    BY <1>14 DEF LoseConn, ClaimLocked, AssignedBusy, NoDoubleDispatch,
       NearestClaimed, IsNearest, Available
  <2> QED BY <2>1, <2>2, <2>3, <2>4, <2>5, <2>6, <2>7 DEF IInv
<1>15. ASSUME NEW r \in Requests, Rollback(r) PROVE IInv'
  <2>1. TypeOK'
    BY <1>15 DEF Rollback, EndTx, TypeOK, DriverStatus, TripStatus, Result,
       PC, HoldsConn
  <2>2. ClaimLocked'
    BY <1>15 DEF Rollback, EndTx, ClaimLocked, TypeOK, Stages
  <2>3. Stages'
    BY <1>15 DEF Rollback, EndTx, Stages, TypeOK, HoldsConn
  <2>4. TripStages'
    BY <1>15 DEF Rollback, EndTx, TripStages, TypeOK, Stages, HoldsConn
  <2>5. Candidates'
    BY <1>15 DEF Rollback, EndTx, Candidates, TypeOK, IsNearest, Available
  <2>6. NearestClaimed'
    BY <1>15 DEF Rollback, EndTx, NearestClaimed, TypeOK, Candidates,
       IsNearest, Available, ClaimLocked
  <2>7. (AssignedBusy /\ NoDoubleDispatch /\ NoDriverJustified /\ ReplyBacked)'
    BY <1>15 DEF Rollback, EndTx, AssignedBusy, NoDoubleDispatch,
       NoDriverJustified, Available, ReplyBacked
  <2> QED BY <2>1, <2>2, <2>3, <2>4, <2>5, <2>6, <2>7 DEF IInv
<1>16. ASSUME NEW r \in Requests, RollbackLost(r) PROVE IInv'
  <2>1. TypeOK'
    BY <1>16 DEF RollbackLost, Fault, TypeOK, DriverStatus, TripStatus, Result, PC,
       HoldsConn
  <2>2. Stages'
    BY <1>16 DEF RollbackLost, Stages, TypeOK, HoldsConn
  <2>3. TripStages'
    BY <1>16 DEF RollbackLost, TripStages, TypeOK, Stages, HoldsConn
  <2>4. Candidates'
    BY <1>16 DEF RollbackLost, Candidates, TypeOK, IsNearest, Available
  <2>5. (ClaimLocked /\ AssignedBusy /\ NoDoubleDispatch /\ NearestClaimed /\ NoDriverJustified /\ ReplyBacked)'
    BY <1>16 DEF RollbackLost, ClaimLocked, AssignedBusy, NoDoubleDispatch,
       NearestClaimed, IsNearest, Available, NoDriverJustified, ReplyBacked
  <2> QED BY <2>1, <2>2, <2>3, <2>4, <2>5 DEF IInv
<1>17. ASSUME NEW r \in Requests, RollbackClosed(r) PROVE IInv'
  <2>1. TypeOK'
    BY <1>17 DEF RollbackClosed, TypeOK, DriverStatus, TripStatus, Result,
       PC, HoldsConn
  <2>2. Stages'
    BY <1>17 DEF RollbackClosed, Stages, TypeOK, HoldsConn
  <2>3. TripStages'
    BY <1>17 DEF RollbackClosed, TripStages, TypeOK, Stages, HoldsConn
  <2>4. Candidates'
    BY <1>17 DEF RollbackClosed, Candidates, TypeOK, Closer, Available
  <2>5. (ClaimLocked /\ AssignedBusy /\ NoDoubleDispatch /\ NearestClaimed /\ NoDriverJustified /\ ReplyBacked)'
    BY <1>17 DEF RollbackClosed, ClaimLocked, AssignedBusy, NoDoubleDispatch,
       NearestClaimed, IsNearest, Available, NoDriverJustified, ReplyBacked
  <2> QED BY <2>1, <2>2, <2>3, <2>4, <2>5 DEF IInv
<1>18. ASSUME NEW r \in Requests, Respond(r) PROVE IInv'
  <2>1. TypeOK'
    BY <1>18 DEF Respond, TypeOK, DriverStatus, TripStatus, Result, PC,
       HoldsConn
  <2>2. Stages'
    BY <1>18 DEF Respond, Stages, TypeOK, HoldsConn
  <2>3. TripStages'
    BY <1>18 DEF Respond, TripStages, TypeOK, Stages, HoldsConn
  <2>4. Candidates'
    BY <1>18 DEF Respond, Candidates, TypeOK, IsNearest, Available
  <2>5. (ClaimLocked /\ AssignedBusy /\ NoDoubleDispatch /\ NearestClaimed /\ NoDriverJustified /\ ReplyBacked)'
    BY <1>18 DEF Respond, ClaimLocked, AssignedBusy, NoDoubleDispatch,
       NearestClaimed, IsNearest, Available, NoDriverJustified, ReplyBacked
  <2> QED BY <2>1, <2>2, <2>3, <2>4, <2>5 DEF IInv
<1>19. ASSUME NEW r \in Requests, Reap(r) PROVE IInv'
  <2>1. TypeOK'
    BY <1>19 DEF Reap, EndTx, TypeOK, DriverStatus, TripStatus,
       Result, PC, HoldsConn
  <2>2. ClaimLocked'
    BY <1>19 DEF Reap, EndTx, ClaimLocked, TypeOK, Stages
  <2>3. Stages'
    BY <1>19 DEF Reap, EndTx, Stages, TypeOK, HoldsConn
  <2>4. TripStages'
    BY <1>19 DEF Reap, EndTx, TripStages, TypeOK, Stages, HoldsConn
  <2>5. NearestClaimed'
    BY <1>19 DEF Reap, EndTx, NearestClaimed, TypeOK, Candidates,
       IsNearest, Available, ClaimLocked
  <2>6. Candidates'
    BY <1>19 DEF Reap, EndTx, Candidates, TypeOK, Closer, Available
  <2>7. (AssignedBusy /\ NoDoubleDispatch /\ NoDriverJustified /\ ReplyBacked)'
    BY <1>19 DEF Reap, EndTx, AssignedBusy, Available, NoDoubleDispatch,
       NoDriverJustified, ReplyBacked
  <2> QED BY <2>1, <2>2, <2>3, <2>4, <2>5, <2>6, <2>7 DEF IInv
<1>20. ASSUME NEW r \in Requests, LateLock(r) PROVE IInv'
  <2>1. TypeOK'
    BY <1>20 DEF LateLock, TypeOK
  <2>2. ClaimLocked'
    BY <1>20 DEF LateLock, Available, ClaimLocked, TypeOK, Stages
  <2>3. Stages'
    BY <1>20 DEF LateLock, Available, Stages, TypeOK, HoldsConn
  <2>4. TripStages'
    BY <1>20 DEF LateLock, TripStages
  <2>5. Candidates'
    BY <1>20 DEF LateLock, Available, Candidates, TypeOK, Closer
  <2>6. NearestClaimed'
    BY <1>20 DEF LateLock, Available, NearestClaimed, TypeOK, Candidates,
       IsNearest, Closer
  <2>7. (AssignedBusy /\ NoDoubleDispatch /\ NoDriverJustified /\ ReplyBacked)'
    BY <1>20 DEF LateLock, Available, AssignedBusy, NoDoubleDispatch,
       NoDriverJustified, ReplyBacked
  <2> QED BY <2>1, <2>2, <2>3, <2>4, <2>5, <2>6, <2>7 DEF IInv
<1>21. ASSUME NEW r \in Requests, Land(r) PROVE IInv'
  <2>1. TypeOK'
    BY <1>21 DEF Land, ApplyCommit, EndTx, TypeOK, DriverStatus, TripStatus,
       Result, PC, HoldsConn
  <2>2. ClaimLocked'
    BY <1>21 DEF Land, ApplyCommit, EndTx, ClaimLocked, TypeOK, Stages
  <2>3. Stages'
    BY <1>21 DEF Land, ApplyCommit, EndTx, Stages, TypeOK, HoldsConn
  <2>4. TripStages'
    BY <1>21 DEF Land, ApplyCommit, EndTx, TripStages, TypeOK, Stages,
       HoldsConn
  <2>5. AssignedBusy'
    BY <1>21 DEF Land, ApplyCommit, EndTx, AssignedBusy, TypeOK, ClaimLocked,
       Stages
  <2>6. Candidates'
    BY <1>21 DEF Land, ApplyCommit, EndTx, Candidates, TypeOK, IsNearest,
       Available
  <2>7. NoDoubleDispatch'
    BY <1>21 DEF Land, ApplyCommit, EndTx, NoDoubleDispatch, TypeOK,
       AssignedBusy, ClaimLocked, Stages
  <2>8. NearestClaimed'
    BY <1>21 DEF Land, ApplyCommit, EndTx, NearestClaimed, TypeOK,
       Candidates, IsNearest, Available, ClaimLocked
  <2>9. NoDriverJustified'
    BY <1>21 DEF Land, ApplyCommit, EndTx, NoDriverJustified, TypeOK,
       Candidates, Available
  <2>10. ReplyBacked'
    <3>1. \A q \in Requests \ {r} : trip'[q] = trip[q]
      BY <1>21 DEF Land, ApplyCommit, TypeOK
    <3>2. result' = result /\ result[r] \in {"NONE", "FAILED"}
      BY <1>21 DEF Land, Stages
    <3>3. \A d \in Drivers : driver[d] = "BUSY" => driver'[d] = "BUSY"
      BY <1>21 DEF Land, ApplyCommit
    <3>4. \A q \in Requests : trip[q].driver \in Drivers \cup {None}
      BY DEF TypeOK
    <3>5. \A q \in Requests : trip[q].status = "DISPATCHED" => trip[q].driver # None
      BY DEF TypeOK
    <3> QED BY <3>1, <3>2, <3>3, <3>4, <3>5 DEF ReplyBacked
  <2> QED BY <2>1, <2>2, <2>3, <2>4, <2>5, <2>6, <2>7, <2>8, <2>9, <2>10 DEF IInv
<1>22. ASSUME Crash PROVE IInv'
  <2>1. TypeOK'
    BY <1>22 DEF Crash, Fault, TypeOK, DriverStatus, TripStatus, Result, PC,
       HoldsConn
  <2>2. Stages'
    BY <1>22 DEF Crash, Stages, TypeOK, HoldsConn
  <2>3. TripStages'
    BY <1>22 DEF Crash, TripStages, TypeOK, Stages, HoldsConn
  <2>4. Candidates'
    BY <1>22 DEF Crash, Candidates, TypeOK, IsNearest, Available
  <2>5. (ClaimLocked /\ AssignedBusy /\ NoDoubleDispatch /\ NearestClaimed /\ NoDriverJustified /\ ReplyBacked)'
    BY <1>22 DEF Crash, ClaimLocked, AssignedBusy, NoDoubleDispatch,
       NearestClaimed, IsNearest, Available, NoDriverJustified, ReplyBacked
  <2> QED BY <2>1, <2>2, <2>3, <2>4, <2>5 DEF IInv
<1>23. ASSUME UNCHANGED vars PROVE IInv'
  BY <1>23
  DEF vars, TypeOK, ClaimLocked, Stages, TripStages, AssignedBusy, Candidates,
      NoDoubleDispatch, NearestClaimed, NoDriverJustified, ReplyBacked,
      IsNearest, Available
<1> QED
  BY <1>1, <1>2, <1>3, <1>4, <1>5, <1>6, <1>7, <1>8, <1>9, <1>10, <1>11,
     <1>12, <1>13, <1>14, <1>15, <1>16, <1>17, <1>18, <1>19, <1>20, <1>21,
     <1>22, <1>23
  DEF Next, Handler, Server, Finished

-----------------------------------------------------------------------------
\* The inductive invariant holds in every reachable state.
THEOREM Invariance == Spec => []IInv
BY InitInv, StepInv, PTL DEF Spec

\* Every variable keeps its type, for any fleet and any number of requests.
THEOREM TypeCorrect == Spec => []TypeOK
<1>1. IInv => TypeOK
  BY DEF IInv
<1> QED BY <1>1, Invariance, PTL

\* No driver is ever given to two trips.
THEOREM NoDoubleDispatchHolds == Spec => []NoDoubleDispatch
<1>1. IInv => NoDoubleDispatch
  BY DEF IInv
<1> QED BY <1>1, Invariance, PTL

\* A claimed driver is the nearest AVAILABLE one at every moment until its
\* transaction ends.
THEOREM NearestClaimedHolds == Spec => []NearestClaimed
<1>1. IInv => NearestClaimed
  BY DEF IInv
<1> QED BY <1>1, Invariance, PTL

\* ErrNoAvailableDrivers means that no driver is AVAILABLE.
THEOREM NoDriverJustifiedHolds == Spec => []NoDriverJustified
<1>1. IInv => NoDriverJustified
  BY DEF IInv
<1> QED BY <1>1, Invariance, PTL

\* A trip reported as DISPATCHED is so in the database, with a BUSY driver, and
\* one that was refused never takes a driver.
THEOREM ReplyBackedHolds == Spec => []ReplyBacked
<1>1. IInv => ReplyBacked
  BY DEF IInv
<1> QED BY <1>1, Invariance, PTL

-----------------------------------------------------------------------------
\* Waits for row locks never close a cycle.

\* Whoever holds the lock of an AVAILABLE row has claimed it, and waits no more.
\* The locks kept on lost rows are on rows that are not AVAILABLE, for which
\* no new wait begins: a new wait is always for a transaction that runs.
FreshLock ==
  \A d \in Drivers : lock[d] # None /\ driver[d] = "AVAILABLE" => claim[lock[d]] = d

\* Of the steps, only IssueClaim begins a wait; a lock that is granted goes to
\* a session that then does not wait.
LEMMA WaitStep ==
  ASSUME IInv, [Next]_vars
  PROVE  /\ \/ \E r \in Requests : IssueClaim(r)
            \/ \A q \in Requests : at'[q] \in {at[q], None}
         /\ \A d \in Drivers : lock'[d] \in {lock[d], None}
                               \/ (lock'[d] \in Requests /\ at'[lock'[d]] = None)
<1> USE DEF dbVars, txVars, handlerVars, StopWaiting
<1>1. /\ lock \in [Drivers -> Requests \cup {None}]
      /\ at \in [Requests -> Drivers \cup {None}]
  BY DEF IInv, TypeOK
<1> DEFINE Quiet(r) == \/ CreateRow(r) \/ CreateFails(r) \/ Begin(r) \/ ReadCandidates(r)
                       \/ OutOfCandidates(r) \/ PassOver(r) \/ PersistTrip(r)
                       \/ CommitInDoubt(r) \/ Fail(r) \/ LoseConn(r)
                       \/ RollbackLost(r) \/ RollbackClosed(r) \/ Respond(r)
           Grant(r) == ClaimRow(r) \/ LoseRow(r) \/ LateLock(r)
           Free(r) == Commit(r) \/ Rollback(r) \/ Reap(r) \/ Land(r)
           Waits == \A q \in Requests : at'[q] \in {at[q], None}
           Locks == \A d \in Drivers : lock'[d] \in {lock[d], None}
                                       \/ (lock'[d] \in Requests /\ at'[lock'[d]] = None)
<1>2. ASSUME NEW r \in Requests, Quiet(r) PROVE Waits /\ Locks
  <2>1. lock' = lock /\ (at' = at \/ at' = [at EXCEPT ![r] = None])
    BY <1>2 DEF CreateRow, CreateFails, Begin, ReadCandidates, OutOfCandidates, PassOver,
                PersistTrip, CommitInDoubt, Fail, LoseConn, RollbackLost, RollbackClosed, Respond
  <2> QED
    BY <1>1, <2>1
<1>3. ASSUME NEW r \in Requests, Grant(r) PROVE Waits /\ Locks
  <2>1. lock' = [lock EXCEPT ![at[r]] = r] /\ at' = [at EXCEPT ![r] = None]
    BY <1>3 DEF ClaimRow, LoseRow, LockRow, LateLock
  <2> QED
    BY <1>1, <2>1
<1>4. ASSUME NEW r \in Requests, Free(r) PROVE Waits /\ Locks
  <2>1. /\ lock' = [d \in Drivers |-> IF lock[d] = r THEN None ELSE lock[d]]
        /\ at' = [at EXCEPT ![r] = None]
    BY <1>4 DEF Commit, Rollback, Reap, Land, ApplyCommit, EndTx
  <2> QED
    BY <1>1, <2>1
<1>5. ASSUME Crash \/ UNCHANGED vars PROVE Waits /\ Locks
  <2>1. UNCHANGED <<lock, at>>
    BY <1>5 DEF Crash, vars
  <2> QED
    BY <2>1
<1>6. ASSUME NEW r \in Requests, IssueClaim(r) PROVE Locks
  BY <1>6 DEF IssueClaim
<1>7. \/ \E r \in Requests : Quiet(r) \/ Grant(r) \/ Free(r) \/ IssueClaim(r)
      \/ Crash \/ UNCHANGED vars
  BY DEF Next, Handler, Server, Finished
<1> HIDE DEF Quiet, Grant, Free, Waits, Locks
<1>8. Locks /\ (Waits \/ \E r \in Requests : IssueClaim(r))
  BY <1>2, <1>3, <1>4, <1>5, <1>6, <1>7
<1> QED
  BY <1>8 DEF Waits, Locks

\* A lock on an AVAILABLE row is taken together with the claim, and freed with it.
LEMMA FreshLockKept ==
  ASSUME IInv, FreshLock, [Next]_vars
  PROVE  FreshLock'
<1> USE DEF dbVars, txVars, handlerVars, Goto
<1>1. /\ pc \in [Requests -> PC] /\ lock \in [Drivers -> Requests \cup {None}]
      /\ at \in [Requests -> Drivers \cup {None}] /\ claim \in [Requests -> Drivers \cup {None}]
      /\ driver \in [Drivers -> DriverStatus] /\ None \notin Drivers /\ None \notin Requests
  BY DispatchAssumption DEF IInv, TypeOK
<1>2. CASE UNCHANGED <<lock, claim, driver>>
  BY <1>2 DEF FreshLock
<1>3. ASSUME NEW r \in Requests, ClaimRow(r) \/ (LateLock(r) /\ at[r] \in Available)
      PROVE  FreshLock'
  <2>1. /\ lock' = [lock EXCEPT ![at[r]] = r] /\ claim' = [claim EXCEPT ![r] = at[r]]
        /\ driver' = driver /\ claim[r] = None
    BY <1>3 DEF ClaimRow, LockRow, LateLock, IInv, Stages
  <2> QED
    BY <1>1, <2>1 DEF FreshLock
<1>4. ASSUME NEW r \in Requests, LoseRow(r) \/ (LateLock(r) /\ at[r] \notin Available)
      PROVE  FreshLock'
  <2>1. /\ lock' = [lock EXCEPT ![at[r]] = r] /\ UNCHANGED <<claim, driver>>
        /\ at[r] \notin Available
    BY <1>4 DEF LoseRow, LockRow, LateLock
  <2> QED
    BY <1>1, <2>1 DEF FreshLock, Available
<1>5. ASSUME NEW r \in Requests, Commit(r) \/ Rollback(r) \/ Reap(r) \/ Land(r) PROVE FreshLock'
  <2>1. /\ lock' = [d \in Drivers |-> IF lock[d] = r THEN None ELSE lock[d]]
        /\ claim' = [claim EXCEPT ![r] = None]
        /\ \A d \in Drivers : driver'[d] = "AVAILABLE" => driver[d] = "AVAILABLE"
    BY <1>1, <1>5 DEF Commit, Rollback, Reap, Land, ApplyCommit, EndTx
  <2> QED
    BY <1>1, <2>1 DEF FreshLock
<1> QED
  <2>1. ASSUME NEW r \in Requests,
               \/ CreateRow(r) \/ CreateFails(r) \/ Begin(r) \/ ReadCandidates(r)
               \/ OutOfCandidates(r) \/ PassOver(r) \/ PersistTrip(r) \/ IssueClaim(r)
               \/ CommitInDoubt(r) \/ Fail(r) \/ LoseConn(r)
               \/ RollbackLost(r) \/ RollbackClosed(r) \/ Respond(r)
        PROVE  UNCHANGED <<lock, claim, driver>>
    BY <2>1 DEF CreateRow, CreateFails, Begin, ReadCandidates, OutOfCandidates, PassOver,
                PersistTrip, IssueClaim, CommitInDoubt, Fail, LoseConn, RollbackLost,
                RollbackClosed, Respond
  <2>2. Crash \/ UNCHANGED vars => UNCHANGED <<lock, claim, driver>>
    BY DEF Crash, vars
  <2> QED
    BY <1>2, <1>3, <1>4, <1>5, <2>1, <2>2 DEF Next, Handler, Server, Finished

\* A set of requests that all wait within the set after a step did so before it.
LEMMA NoCycleKept ==
  ASSUME IInv, FreshLock, NoWaitCycle, [Next]_vars
  PROVE  NoWaitCycle'
<1> SUFFICES ASSUME NEW S \in SUBSET Requests, S # {},
                    \A r \in S : at'[r] # None /\ lock'[at'[r]] \in S \ {r}
             PROVE  FALSE
  BY DEF NoWaitCycle
<1>1. /\ at \in [Requests -> Drivers \cup {None}] /\ at' \in [Requests -> Drivers \cup {None}]
      /\ \A r \in S : at'[r] \in Drivers
      /\ None \notin Requests
  BY StepInv, DispatchAssumption DEF IInv, TypeOK
<1>2. CASE \A q \in Requests : at'[q] \in {at[q], None}
  <2>1. ASSUME NEW q \in S PROVE at[q] # None /\ lock[at[q]] \in S \ {q}
    <3>1. at'[q] = at[q] /\ lock'[at[q]] \in S \ {q}
      BY <1>2, <2>1
    <3>2. at[q] \in Drivers
      BY <1>1, <3>1
    <3>3. lock'[at[q]] # None /\ at'[lock'[at[q]]] # None
      BY <1>1, <3>1
    <3> QED
      BY <1>1, <3>1, <3>2, <3>3, WaitStep
  <2> QED
    BY <2>1 DEF NoWaitCycle
<1>3. ASSUME NEW r \in Requests, IssueClaim(r) PROVE FALSE
  <2>1. PICK d \in Available : at' = [at EXCEPT ![r] = d]
    BY <1>3 DEF IssueClaim, Await
  <2>2. lock' = lock /\ d \in Drivers /\ driver[d] = "AVAILABLE"
    BY <1>3 DEF IssueClaim, Available
  <2>3. CASE r \in S
    <3>1. at'[r] = d
      BY <1>1, <2>1
    <3>2. lock[d] \in S \ {r}
      BY <2>2, <2>3, <3>1
    <3>3. claim[lock[d]] = d /\ d # None
      BY <1>1, <2>2, <3>2, DispatchAssumption DEF FreshLock
    <3>4. at[lock[d]] = None
      BY <3>2, <3>3 DEF IInv, Stages
    <3>5. at'[lock[d]] # None
      BY <3>2
    <3> QED
      BY <1>1, <2>1, <3>2, <3>4, <3>5
  <2>4. CASE r \notin S
    <3>1. \A q \in S : at'[q] = at[q]
      BY <1>1, <2>1, <2>4
    <3>2. \A q \in S : at[q] # None /\ lock[at[q]] \in S \ {q}
      BY <2>2, <3>1
    <3> QED
      BY <3>2 DEF NoWaitCycle
  <2> QED
    BY <2>3, <2>4
<1> QED
  BY <1>2, <1>3, WaitStep

\* No transactions wait for each other in a circle over the rows they lost, for
\* any number of requests and drivers and however each ranks them.
THEOREM NoWaitCycleHolds == Spec => []NoWaitCycle
<1>1. Init => FreshLock /\ NoWaitCycle
  <2>1. Init => FreshLock
    BY DEF Init, FreshLock
  <2>2. ASSUME Init, NEW S \in SUBSET Requests, S # {} PROVE \E r \in S : ~(at[r] # None /\ lock[at[r]] \in S \ {r})
    BY <2>2 DEF Init
  <2> QED
    BY <2>1, <2>2 DEF NoWaitCycle
<1>2. IInv /\ (FreshLock /\ NoWaitCycle) /\ [Next]_vars => (FreshLock /\ NoWaitCycle)'
  BY FreshLockKept, NoCycleKept
<1> QED
  BY <1>1, <1>2, Invariance, PTL DEF Spec

-----------------------------------------------------------------------------
\* The transaction implements the indivisible assignment.

\* Before any request the two specifications agree on the committed rows.
LEMMA InitImplements == Init => Abstract!Init
BY DEF Init, Abstract!Init, DriverStatus, Row

\* A commit of r, whether answered or not, is the abstract assignment.
LEMMA CommitAssigns ==
  ASSUME IInv, NEW r \in Requests, assign[r] # None, tx[r] \in {"open", "indoubt"},
         ApplyCommit(r), result[r] \in {"NONE", "FAILED"},
         result' \in {result, [result EXCEPT ![r] = "DISPATCHED"]}
  PROVE  Abstract!AssignNearest(r)
<1>1. claim[r] \in Drivers /\ assign[r] = claim[r] /\ trip[r].status = "PENDING"
  BY DEF IInv, Stages, TripStages, Detached, TypeOK
<1>2. claim[r] \in Abstract!Free
  BY <1>1, DispatchAssumption DEF IInv, ClaimLocked, Abstract!Free
<1>3. Abstract!Preferred(r, claim[r])
  BY <1>1, DispatchAssumption
  DEF IInv, NearestClaimed, IsNearest, Closer, Available, Abstract!Preferred, Abstract!Free
<1>4. driver' = [driver EXCEPT ![claim[r]] = "BUSY"]
  BY <1>1 DEF ApplyCommit, IInv, TypeOK
<1>5. trip' = [trip EXCEPT ![r] = [status |-> "DISPATCHED", driver |-> claim[r]]]
  BY <1>1 DEF ApplyCommit, Row
<1> QED
  BY <1>1, <1>2, <1>3, <1>4, <1>5 DEF Abstract!AssignNearest

\* Every step of the handlers, the server and the process is a step of the
\* abstract specification or leaves the committed rows alone.
LEMMA StepImplements == IInv /\ [Next]_vars => [Abstract!Next]_(Abstract!absVars)
<1> SUFFICES ASSUME IInv, [Next]_vars PROVE [Abstract!Next]_(Abstract!absVars)
  OBVIOUS
<1> USE DEF dbVars, txVars, handlerVars, Goto, Learn, Row
<1>1. ASSUME NEW r \in Requests, CreateRow(r) PROVE Abstract!Create(r)
  BY <1>1 DEF CreateRow, Abstract!Create, IInv, TripStages
<1>2. ASSUME NEW r \in Requests, CreateFails(r)
      PROVE  Abstract!Create(r) \/ Abstract!GiveUp(r)
  BY <1>2 DEF CreateFails, Abstract!Create, Abstract!GiveUp, IInv, TripStages, Stages
<1>3. ASSUME NEW r \in Requests, OutOfCandidates(r) PROVE Abstract!GiveUp(r)
  <2>1. Abstract!Free = {}
    BY <1>3 DEF OutOfCandidates, IInv, Candidates, Available, Abstract!Free
  <2>2. trip[r].status = "PENDING" /\ result[r] = "NONE"
    BY <1>3 DEF OutOfCandidates, IInv, Stages, TripStages, HoldsConn
  <2> QED BY <1>3, <2>1, <2>2 DEF OutOfCandidates, Abstract!GiveUp
<1>4. ASSUME NEW r \in Requests, Commit(r) PROVE Abstract!AssignNearest(r)
  BY <1>4, CommitAssigns DEF Commit, IInv, Stages, HoldsConn
<1>5. ASSUME NEW r \in Requests, Land(r) PROVE Abstract!AssignNearest(r)
  BY <1>5, CommitAssigns DEF Land, IInv, Stages
<1>6. ASSUME NEW r \in Requests, CommitInDoubt(r) PROVE Abstract!GiveUp(r)
  BY <1>6 DEF CommitInDoubt, Abstract!GiveUp, IInv, Stages, TripStages, HoldsConn
<1>7. ASSUME NEW r \in Requests, Fail(r) \/ LoseConn(r) PROVE Abstract!GiveUp(r)
  BY <1>7 DEF Fail, LoseConn, Abstract!GiveUp, IInv, Stages, TripStages, HoldsConn
<1>8. ASSUME NEW r \in Requests, PersistTrip(r) PROVE UNCHANGED Abstract!absVars
  BY <1>8 DEF PersistTrip, Abstract!absVars, IInv, Stages, TripStages, HoldsConn
<1>9. ASSUME NEW r \in Requests,
             \/ Begin(r) \/ ReadCandidates(r) \/ IssueClaim(r) \/ PassOver(r)
             \/ ClaimRow(r) \/ LoseRow(r) \/ Rollback(r) \/ RollbackLost(r)
             \/ RollbackClosed(r) \/ Respond(r) \/ Reap(r) \/ LateLock(r)
      PROVE  UNCHANGED Abstract!absVars
  BY <1>9 DEF Begin, ReadCandidates, IssueClaim, PassOver, ClaimRow, LoseRow,
              Rollback, RollbackLost, RollbackClosed, Respond, Reap, LateLock,
              EndTx, Abstract!absVars
<1>10. ASSUME Crash \/ UNCHANGED vars PROVE UNCHANGED Abstract!absVars
  BY <1>10 DEF Crash, vars, Abstract!absVars
<1> QED
  BY <1>1, <1>2, <1>3, <1>4, <1>5, <1>6, <1>7, <1>8, <1>9, <1>10
  DEF Next, Handler, Server, Finished, Abstract!Next

\* Transactions, locks, failures and crashes included, trip creation behaves as
\* if each trip took its nearest AVAILABLE driver in one indivisible step.
THEOREM ImplementsAbstract == Spec => Implements
BY InitImplements, StepImplements, Invariance, PTL DEF Spec, Implements, Abstract!Spec
=============================================================================
