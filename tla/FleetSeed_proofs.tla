-------------------------- MODULE FleetSeed_proofs --------------------------
(***************************************************************************)
(* Proofs about FleetSeed, for any number of boots and any fleet.          *)
(***************************************************************************)
EXTENDS FleetSeed, TLAPS

\* What each place in SeedIfEmpty says of the transaction and of the lock.
Stages == \A b \in Boots :
  /\ pc[b] = "new" <=> tx[b] = "none"
  /\ pc[b] \in {"lock", "count", "insert", "commit"} => tx[b] = "open"
  /\ pc[b] = "serving" => tx[b] = "committed" /\ Fleet # {}
  /\ tx[b] = "indoubt" => pc[b] = "exited"
  /\ pc[b] \in {"count", "insert", "commit"} \/ tx[b] = "indoubt" \/ rows[b] # {}
       => lock = b

\* What a boot has read and written: nothing is inserted into a table that has
\* rows, and what COMMIT applies is a whole fleet or nothing.
Writes == \A b \in Boots :
  /\ rows[b] # {} => Fleet = {} /\ pc[b] \notin {"lock", "count"}
  /\ pc[b] = "insert" => Fleet = {} /\ rows[b] \subseteq Own(b)
  /\ pc[b] = "commit" \/ tx[b] = "indoubt" =>
       \/ Fleet = {} /\ rows[b] = Own(b) \cup Legacy
       \/ Fleet # {} /\ rows[b] = {}

IInv == TypeOK /\ Stages /\ Writes /\ OneWholeFleet

-----------------------------------------------------------------------------
\* A boot has drivers of its own, and none of them is a placeholder.
LEMMA OwnDrivers ==
  ASSUME NEW b \in Boots
  PROVE  Own(b) # {} /\ Own(b) \subseteq Ids /\ Own(b) \cap Legacy = {} /\ Legacy \subseteq Ids
<1>1. <<b, 1>> \in Own(b)
  BY FleetSeedAssumption DEF Own
<1>2. Own(b) \subseteq Boots \X (1..DriverCount)
  BY DEF Own
<1> QED
  BY <1>1, <1>2, FleetSeedAssumption DEF Ids

\* The set of the committed drivers depends on nothing but their rows.
LEMMA FleetKept ==
  ASSUME UNCHANGED status
  PROVE  Fleet' = Fleet
BY DEF Fleet, Ids, Own

\* COMMIT (SeedIfEmpty, tx.Commit): a table that was empty holds the whole
\* fleet of the boot, another table is what it was.
LEMMA CommitApplied ==
  ASSUME IInv, NEW b \in Boots, ApplyCommit(b), pc[b] = "commit" \/ tx[b] = "indoubt"
  PROVE  /\ lock = b /\ lock' = None
         /\ \/ Fleet = {} /\ Fleet' = Own(b) \cup Legacy /\ rows[b] = Own(b) \cup Legacy
            \/ Fleet # {} /\ Fleet' = Fleet /\ status' = status
         /\ status' \in [Ids -> {"ABSENT", "AVAILABLE", "BUSY", "OFFLINE"}]
<1>1. lock = b /\ lock' = None
  BY DEF IInv, Stages, ApplyCommit, EndTx
<1>2. status' = [i \in Ids |-> IF i \notin rows[b] THEN status[i]
                               ELSE IF i \in Legacy THEN "OFFLINE" ELSE "AVAILABLE"]
  BY DEF ApplyCommit
<1>3. status' \in [Ids -> {"ABSENT", "AVAILABLE", "BUSY", "OFFLINE"}]
  BY <1>2 DEF IInv, TypeOK
<1>4. CASE Fleet = {} /\ rows[b] = Own(b) \cup Legacy
  <2>1. \A i \in Ids : status[i] = "ABSENT"
    BY <1>4 DEF Fleet
  <2>2. \A i \in Ids : status'[i] # "ABSENT" <=> i \in Own(b) \cup Legacy
    BY <1>2, <1>4, <2>1
  <2>3. Fleet' = {i \in Ids : status'[i] # "ABSENT"}
    BY DEF Fleet, Ids, Own
  <2> QED
    BY <1>1, <1>3, <1>4, <2>2, <2>3, OwnDrivers
<1>5. CASE Fleet # {} /\ rows[b] = {}
  <2>1. status' = status
    BY <1>2, <1>5 DEF IInv, TypeOK
  <2> QED
    BY <1>1, <1>3, <1>5, <2>1, FleetKept
<1> QED
  BY <1>4, <1>5 DEF IInv, Writes

\* The invariant holds in an empty table.
LEMMA InitInv == Init => IInv
<1> SUFFICES ASSUME Init PROVE IInv
  OBVIOUS
<1>1. Fleet = {}
  BY DEF Init, Fleet
<1>2. TypeOK
  BY FleetSeedAssumption DEF Init, TypeOK
<1>3. Stages /\ Writes
  BY FleetSeedAssumption DEF Init, Stages, Writes
<1> QED
  BY <1>1, <1>2, <1>3 DEF IInv, OneWholeFleet

\* Every statement, commit, exit and end of a session preserves it.
LEMMA StepInv == IInv /\ [Next]_vars => IInv'
<1> SUFFICES ASSUME IInv, [Next]_vars PROVE IInv'
  OBVIOUS
<1>a. None \notin Boots
  BY FleetSeedAssumption
<1> USE DEF IInv
<1>1. ASSUME NEW b \in Boots, Begin(b) PROVE IInv'
  <2>1. Fleet' = Fleet
    BY <1>1, FleetKept DEF Begin
  <2> QED
    BY <1>1, <2>1 DEF Begin, Goto, TypeOK, Stages, Writes, OneWholeFleet, Own, Ids
<1>2. ASSUME NEW b \in Boots, TakeLock(b) PROVE IInv'
  <2>1. Fleet' = Fleet
    BY <1>2, FleetKept DEF TakeLock
  <2> QED
    BY <1>2, <2>1, <1>a DEF TakeLock, Goto, TypeOK, Stages, Writes, OneWholeFleet, Own, Ids
<1>3. ASSUME NEW b \in Boots, Count(b) PROVE IInv'
  <2>1. Fleet' = Fleet
    BY <1>3, FleetKept DEF Count
  <2>2. TypeOK'
    BY <1>3 DEF Count, Goto, TypeOK, Own, Ids
  <2>3. Stages'
    BY <1>3, <2>1 DEF Count, Goto, TypeOK, Stages
  <2>4. Writes'
    <3>1. rows[b] = {}
      BY <1>3 DEF Count, Writes
    <3> QED
      BY <1>3, <2>1, <3>1 DEF Count, Goto, TypeOK, Stages, Writes, Own
  <2> QED
    BY <2>1, <2>2, <2>3, <2>4 DEF OneWholeFleet, Own
<1>4. ASSUME NEW b \in Boots, InsertDriver(b) PROVE IInv'
  <2>1. Fleet' = Fleet
    BY <1>4, FleetKept DEF InsertDriver
  <2>2. PICK i \in Own(b) \ rows[b] : rows' = [rows EXCEPT ![b] = @ \cup {i}]
    BY <1>4 DEF InsertDriver
  <2>3. i \in Ids
    BY <2>2, OwnDrivers
  <2>4. TypeOK'
    BY <1>4, <2>2, <2>3 DEF InsertDriver, TypeOK, Stages, Own, Ids
  <2>5. Stages'
    BY <1>4, <2>1, <2>2 DEF InsertDriver, TypeOK, Stages
  <2>6. Writes'
    BY <1>4, <2>1, <2>2 DEF InsertDriver, TypeOK, Stages, Writes, Own
  <2> QED
    BY <2>1, <2>4, <2>5, <2>6 DEF OneWholeFleet, Own
<1>5. ASSUME NEW b \in Boots, InsertPlaceholders(b) PROVE IInv'
  <2>1. Fleet' = Fleet
    BY <1>5, FleetKept DEF InsertPlaceholders
  <2>2. Fleet = {} /\ rows' = [rows EXCEPT ![b] = Own(b) \cup Legacy]
    BY <1>5 DEF InsertPlaceholders, Writes
  <2>3. TypeOK'
    BY <1>5, <2>2, OwnDrivers DEF InsertPlaceholders, Goto, TypeOK, Stages, Own, Ids
  <2>4. Stages'
    BY <1>5, <2>1, <2>2 DEF InsertPlaceholders, Goto, TypeOK, Stages
  <2>5. Writes'
    BY <1>5, <2>1, <2>2 DEF InsertPlaceholders, Goto, TypeOK, Stages, Writes, Own
  <2> QED
    BY <2>1, <2>3, <2>4, <2>5 DEF OneWholeFleet, Own
<1>6. ASSUME NEW b \in Boots, Commit(b) \/ Land(b) PROVE IInv'
  <2>1. /\ ApplyCommit(b) /\ (pc[b] = "commit" \/ tx[b] = "indoubt")
        /\ tx' = [tx EXCEPT ![b] = "committed"] /\ rows' = [rows EXCEPT ![b] = {}]
        /\ \/ pc[b] = "commit" /\ pc' = [pc EXCEPT ![b] = "serving"]
           \/ tx[b] = "indoubt" /\ pc' = pc
    BY <1>6 DEF Commit, Land, Goto, ApplyCommit, EndTx
  <2>2. /\ lock = b /\ lock' = None
        /\ \/ Fleet = {} /\ Fleet' = Own(b) \cup Legacy /\ rows[b] = Own(b) \cup Legacy
           \/ Fleet # {} /\ Fleet' = Fleet /\ status' = status
        /\ status' \in [Ids -> {"ABSENT", "AVAILABLE", "BUSY", "OFFLINE"}]
    BY <2>1, CommitApplied
  <2>3. Fleet' # {}
    BY <2>2, OwnDrivers
  <2>4. \A c \in Boots : c # b => /\ rows'[c] = {} /\ tx'[c] # "indoubt" /\ tx'[c] = tx[c]
                                  /\ pc'[c] \notin {"count", "insert", "commit"} /\ pc'[c] = pc[c]
    BY <2>1, <2>2 DEF TypeOK, Stages
  <2>5. /\ rows'[b] = {} /\ tx'[b] = "committed" /\ pc'[b] \in {"serving", "exited"}
    BY <2>1 DEF TypeOK, Stages
  <2>6. TypeOK'
    <3>1. status' \in [Ids' -> {"ABSENT", "AVAILABLE", "BUSY", "OFFLINE"}]
      BY <2>2 DEF Ids, Own
    <3>2. /\ tx' \in [Boots -> {"none", "open", "indoubt", "committed", "aborted"}]
          /\ rows' \in [Boots -> SUBSET Ids']
          /\ pc' \in [Boots -> {"new", "lock", "count", "insert", "commit", "serving", "exited"}]
      BY <2>1 DEF TypeOK, Ids, Own
    <3> QED
      BY <3>1, <3>2, <2>2, <2>4, <2>5, <1>a DEF TypeOK
  <2>7. Stages'
    BY <2>3, <2>4, <2>5 DEF TypeOK, Stages
  <2>8. Writes'
    BY <2>3, <2>4, <2>5 DEF Writes
  <2>9. OneWholeFleet'
    BY <2>2 DEF OneWholeFleet, Own
  <2> QED
    BY <2>6, <2>7, <2>8, <2>9
<1>7. ASSUME NEW b \in Boots, CommitInDoubt(b) PROVE IInv'
  <2>1. Fleet' = Fleet
    BY <1>7, FleetKept DEF CommitInDoubt
  <2> QED
    BY <1>7, <2>1 DEF CommitInDoubt, Goto, TypeOK, Stages, Writes, OneWholeFleet, Own, Ids
<1>8. ASSUME NEW b \in Boots, Exit(b) PROVE IInv'
  <2>1. Fleet' = Fleet
    BY <1>8, FleetKept DEF Exit
  <2> QED
    BY <1>8, <2>1 DEF Exit, Goto, TypeOK, Stages, Writes, OneWholeFleet, Own, Ids
<1>9. ASSUME NEW b \in Boots, Reap(b) PROVE IInv'
  <2>1. Fleet' = Fleet
    BY <1>9, FleetKept DEF Reap
  <2> QED
    BY <1>9, <2>1, <1>a DEF Reap, EndTx, TypeOK, Stages, Writes, OneWholeFleet, Own, Ids
<1>10. ASSUME NEW b \in Boots, Dispatch(b) PROVE IInv'
  <2>1. PICK i \in Ids : status[i] = "AVAILABLE" /\ status' = [status EXCEPT ![i] = "BUSY"]
    BY <1>10 DEF Dispatch
  <2>2. Fleet' = {k \in Ids : status'[k] # "ABSENT"}
    BY DEF Fleet, Ids, Own
  <2>3. Fleet' = Fleet
    BY <2>1, <2>2 DEF Fleet, TypeOK
  <2> QED
    BY <1>10, <2>1, <2>3 DEF Dispatch, TypeOK, Stages, Writes, OneWholeFleet, Own, Ids
<1>11. CASE UNCHANGED vars
  <2>1. Fleet' = Fleet
    BY <1>11, FleetKept DEF vars
  <2> QED
    BY <1>11, <2>1 DEF vars, TypeOK, Stages, Writes, OneWholeFleet, Own, Ids
<1> QED
  BY <1>1, <1>2, <1>3, <1>4, <1>5, <1>6, <1>7, <1>8, <1>9, <1>10, <1>11 DEF Next, Startup

\* So it holds in every reachable state.
THEOREM SpecInv == Spec => []IInv
<1> QED
  BY InitInv, StepInv, PTL DEF Spec

\* Every variable keeps its type, and only a transaction that has not ended
\* holds the advisory lock or has rows of its own.
THEOREM TypeCorrect == Spec => []TypeOK
<1>1. IInv => TypeOK
  BY DEF IInv
<1> QED
  BY <1>1, SpecInv, PTL

\* However many replicas start, crash and start again, drivers is empty or
\* holds all the drivers of one boot and every placeholder.
THEOREM OneWholeFleetHolds == Spec => []OneWholeFleet
<1>1. IInv => OneWholeFleet
  BY DEF IInv
<1> QED
  BY <1>1, SpecInv, PTL

-----------------------------------------------------------------------------
Phase == [b \in Boots |-> IF pc[b] \in {"serving", "exited"} THEN pc[b] ELSE "starting"]

\* COMMIT of a whole fleet is SeedFleet; of nothing, it is Serve or a stutter.
LEMMA CommitSeeds ==
  ASSUME IInv, NEW b \in Boots, Commit(b) \/ Land(b)
  PROVE  Abstract!SeedFleet(b) \/ Abstract!Serve(b) \/ UNCHANGED <<status, Phase>>
<1>1. /\ ApplyCommit(b) /\ (pc[b] = "commit" \/ tx[b] = "indoubt")
      /\ \/ pc[b] = "commit" /\ pc' = [pc EXCEPT ![b] = "serving"]
         \/ tx[b] = "indoubt" /\ pc' = pc
  BY DEF Commit, Land, Goto
<1>2. \/ Fleet = {} /\ rows[b] = Own(b) \cup Legacy
      \/ Fleet # {} /\ status' = status
  <2>1. ApplyCommit(b)
    BY <1>1
  <2>2. pc[b] = "commit" \/ tx[b] = "indoubt"
    BY <1>1
  <2> QED
    BY <2>1, <2>2, CommitApplied
<1>3. \/ Phase[b] = "starting" /\ Phase' = [Phase EXCEPT ![b] = "serving"]
      \/ Phase[b] = "exited" /\ Phase' = Phase
  BY <1>1 DEF Phase, IInv, TypeOK, Stages
<1>4. CASE Fleet = {} /\ rows[b] = Own(b) \cup Legacy
  <2>1. Abstract!Empty
    BY <1>4 DEF Fleet, Ids, Own, Abstract!Empty, Abstract!Ids, Abstract!Own
  <2>2. \A i \in Ids : status[i] = "ABSENT"
    BY <1>4 DEF Fleet
  <2>3. status' = [i \in Ids |-> IF i \in Own(b) THEN "AVAILABLE"
                                  ELSE IF i \in Legacy THEN "OFFLINE" ELSE "ABSENT"]
    <3>1. \A i \in Ids : (i \in rows[b] <=> i \in Own(b) \/ i \in Legacy)
                        /\ ~(i \in Own(b) /\ i \in Legacy)
      BY <1>4, OwnDrivers
    <3>2. status' = [i \in Ids |-> IF i \notin rows[b] THEN status[i]
                                   ELSE IF i \in Legacy THEN "OFFLINE" ELSE "AVAILABLE"]
      BY <1>1 DEF ApplyCommit
    <3> QED
      BY <2>2, <3>1, <3>2
  <2>4. Abstract!SeedFleet(b)
    BY <1>3, <2>1, <2>3 DEF Abstract!SeedFleet, Abstract!Ids, Abstract!Own, Ids, Own, Phase
  <2> QED
    BY <2>4
<1>5. CASE Fleet # {} /\ status' = status
  <2>1. ~Abstract!Empty
    BY <1>5 DEF Fleet, Ids, Own, Abstract!Empty, Abstract!Ids, Abstract!Own
  <2> QED
    BY <1>3, <1>5, <2>1 DEF Abstract!Serve, Phase
<1> QED
  BY <1>2, <1>4, <1>5

\* Every step of SeedIfEmpty is a step of the abstract seeding or changes
\* nothing that it sees.
LEMMA StepImplements == IInv /\ [Next]_vars => [Abstract!Next]_<<status, Phase>>
<1> SUFFICES ASSUME IInv, [Next]_vars PROVE Abstract!Next \/ UNCHANGED <<status, Phase>>
  BY DEF Abstract!Next
<1>1. ASSUME NEW b \in Boots, Begin(b) \/ (Startup(b) /\ ~Commit(b)) \/ Reap(b)
      PROVE  UNCHANGED <<status, Phase>>
  BY <1>1 DEF Begin, Startup, TakeLock, Count, InsertDriver, InsertPlaceholders, Reap, Goto,
     Phase, IInv, TypeOK
<1>2. ASSUME NEW b \in Boots, Commit(b) \/ Land(b)
      PROVE  Abstract!Next \/ UNCHANGED <<status, Phase>>
  BY <1>2, CommitSeeds DEF Abstract!Next
<1>3. ASSUME NEW b \in Boots, CommitInDoubt(b) \/ Exit(b) PROVE Abstract!Next
  <2>1. pc[b] # "exited" /\ pc' = [pc EXCEPT ![b] = "exited"] /\ status' = status
    BY <1>3 DEF CommitInDoubt, Exit, Goto
  <2>2. Phase[b] # "exited" /\ Phase' = [Phase EXCEPT ![b] = "exited"]
    BY <2>1 DEF Phase, IInv, TypeOK
  <2> QED
    BY <2>1, <2>2 DEF Abstract!Next, Abstract!Exit, Phase
<1>4. ASSUME NEW b \in Boots, Dispatch(b) PROVE Abstract!Next
  <2>1. Phase[b] = "serving" /\ Phase' = Phase
    BY <1>4 DEF Dispatch, Phase
  <2>2. Abstract!Assign(b)
    BY <1>4, <2>1 DEF Dispatch, Abstract!Assign, Abstract!Ids, Abstract!Own, Ids, Own, Phase
  <2> QED
    BY <2>2 DEF Abstract!Next
<1>5. CASE UNCHANGED vars
  BY <1>5 DEF vars, Phase
<1> QED
  BY <1>1, <1>2, <1>3, <1>4, <1>5 DEF Next, Startup

\* Two replicas starting at once never seed two fleets, a crash never leaves
\* half of one, no process serves before there is one and a restart never
\* resets a driver: seeding is one step, taken on an empty table.
THEOREM ImplementsAbstract == Spec => Implements
<1>1. Init => Abstract!Init
  BY DEF Init, Abstract!Init, Abstract!Ids, Abstract!Own, Ids, Own
<1>2. IInv /\ [Next]_vars => [Abstract!Next]_(Abstract!absVars)
  BY StepImplements DEF Abstract!absVars, Phase
<1> QED
  BY <1>1, <1>2, SpecInv, PTL DEF Spec, Implements, Abstract!Spec
=============================================================================
