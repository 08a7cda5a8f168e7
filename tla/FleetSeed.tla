----------------------------- MODULE FleetSeed -----------------------------
(***************************************************************************)
(* SeedIfEmpty at the start of every backend process: concurrent replicas, *)
(* crashes and restarts over one drivers table.  A boot is one start of a  *)
(* process; a restarted replica is another boot.                           *)
(***************************************************************************)
EXTENDS Naturals

CONSTANTS
  Boots,
  DriverCount,  \* DRIVER_COUNT positions generated by every boot, with new ids
  Legacy,       \* driver ids that old trips refer to
  None

ASSUME FleetSeedAssumption ==
  /\ DriverCount \in Nat \ {0}
  /\ None \notin Boots
  /\ Legacy \cap (Boots \X (1..DriverCount)) = {}

Own(b) == {b} \X (1..DriverCount)
Ids == (UNION {Own(b) : b \in Boots}) \cup Legacy

VARIABLES
  status,       \* committed rows of drivers, "ABSENT" when there is none
  tx,           \* "none", "open", "indoubt", "committed", "aborted"
  lock,         \* holder of the advisory lock
  rows,         \* uncommitted inserts of the transaction
  pc

vars == <<status, tx, lock, rows, pc>>

Init ==
  /\ status = [i \in Ids |-> "ABSENT"]
  /\ tx = [b \in Boots |-> "none"]
  /\ lock = None
  /\ rows = [b \in Boots |-> {}]
  /\ pc = [b \in Boots |-> "new"]

Fleet == {i \in Ids : status[i] # "ABSENT"}

Goto(b, label) == pc' = [pc EXCEPT ![b] = label]

\* Mutation: pg_advisory_lock, which belongs to the session of the pool.
EndTxKeepsLock(b, how) ==
  /\ tx' = [tx EXCEPT ![b] = how]
  /\ rows' = [rows EXCEPT ![b] = {}]
  /\ UNCHANGED lock

EndTx(b, how) ==
  /\ tx' = [tx EXCEPT ![b] = how]
  /\ lock' = IF lock = b THEN None ELSE lock
  /\ rows' = [rows EXCEPT ![b] = {}]

ApplyCommit(b) ==
  /\ status' = [i \in Ids |-> IF i \notin rows[b] THEN status[i]
                              ELSE IF i \in Legacy THEN "OFFLINE" ELSE "AVAILABLE"]
  /\ EndTx(b, "committed")

-----------------------------------------------------------------------------
Begin(b) ==
  /\ pc[b] = "new"
  /\ tx' = [tx EXCEPT ![b] = "open"]
  /\ Goto(b, "lock")
  /\ UNCHANGED <<status, lock, rows>>

\* Mutation: no lock.
TakeNoLock(b) ==
  /\ pc[b] = "lock"
  /\ Goto(b, "count")
  /\ UNCHANGED <<status, tx, lock, rows>>

\* pg_advisory_xact_lock: held until the transaction ends.
TakeLock(b) ==
  /\ pc[b] = "lock"
  /\ lock = None
  /\ lock' = b
  /\ Goto(b, "count")
  /\ UNCHANGED <<status, tx, rows>>

\* SELECT count(*): a read of the rows committed by now.
Count(b) ==
  /\ pc[b] = "count"
  /\ Goto(b, IF Fleet = {} THEN "insert" ELSE "commit")
  /\ UNCHANGED <<status, tx, lock, rows>>

InsertDriver(b) ==
  /\ pc[b] = "insert"
  /\ \E i \in Own(b) \ rows[b] : rows' = [rows EXCEPT ![b] = @ \cup {i}]
  /\ UNCHANGED <<status, tx, lock, pc>>

\* INSERT ... SELECT: placeholders for the drivers only trips know of.
InsertPlaceholders(b) ==
  /\ pc[b] = "insert"
  /\ rows[b] = Own(b)
  /\ rows' = [rows EXCEPT ![b] = @ \cup (Legacy \ Fleet)]
  /\ Goto(b, "commit")
  /\ UNCHANGED <<status, tx, lock>>

Commit(b) ==
  /\ pc[b] = "commit"
  /\ ApplyCommit(b)
  /\ Goto(b, "serving")

\* The answer to COMMIT is lost: the process exits, the commit may apply.
CommitInDoubt(b) ==
  /\ pc[b] = "commit"
  /\ tx' = [tx EXCEPT ![b] = "indoubt"]
  /\ Goto(b, "exited")
  /\ UNCHANGED <<status, lock, rows>>

\* An error, the startup deadline of 10 s, or a crash: the process is gone,
\* its session stays until the server notices.
Exit(b) ==
  /\ pc[b] \notin {"new", "exited"}
  /\ Goto(b, "exited")
  /\ UNCHANGED <<status, tx, lock, rows>>

Reap(b) ==
  /\ pc[b] = "exited"
  /\ tx[b] \in {"open", "indoubt"}
  /\ EndTx(b, "aborted")
  /\ UNCHANGED <<status, pc>>

Land(b) ==
  /\ tx[b] = "indoubt"
  /\ ApplyCommit(b)
  /\ UNCHANGED pc

\* A serving process assigns a driver to a trip.
Dispatch(b) ==
  /\ pc[b] = "serving"
  /\ \E i \in Ids : status[i] = "AVAILABLE" /\ status' = [status EXCEPT ![i] = "BUSY"]
  /\ UNCHANGED <<tx, lock, rows, pc>>

Startup(b) ==
  TakeLock(b) \/ Count(b) \/ InsertDriver(b) \/ InsertPlaceholders(b) \/ Commit(b)

Next ==
  \E b \in Boots :
    \/ Begin(b) \/ Startup(b) \/ CommitInDoubt(b) \/ Exit(b) \/ Reap(b) \/ Land(b)
    \/ Dispatch(b)

Spec == Init /\ [][Next]_vars

FairSpec == Spec /\ \A b \in Boots : WF_vars(Startup(b)) /\ WF_vars(Reap(b) \/ Land(b))

-----------------------------------------------------------------------------
\* Properties

\* Every variable keeps its type; only a transaction that has not ended holds
\* the advisory lock or has rows of its own.
TypeOK ==
  /\ status \in [Ids -> {"ABSENT", "AVAILABLE", "BUSY", "OFFLINE"}]
  /\ tx \in [Boots -> {"none", "open", "indoubt", "committed", "aborted"}]
  /\ lock \in Boots \cup {None}
  /\ rows \in [Boots -> SUBSET Ids]
  /\ pc \in [Boots -> {"new", "lock", "count", "insert", "commit", "serving", "exited"}]
  /\ \A b \in Boots :
       lock = b \/ rows[b] # {} => tx[b] \in {"open", "indoubt"}

\* A process that starts serves or exits: a dead holder of the advisory lock
\* does not keep the others waiting for ever.
StartupEnds == \A b \in Boots : pc[b] = "lock" ~> pc[b] \in {"serving", "exited"}

\* Two replicas starting at once never seed two fleets, a crash never leaves
\* half of one, and a restart never resets a driver (postgres_repository.go:
\* 40-43): see FleetAbstract.
Abstract == INSTANCE FleetAbstract WITH
  status <- status,
  phase <- [b \in Boots |-> IF pc[b] \in {"serving", "exited"} THEN pc[b] ELSE "starting"]
Implements == Abstract!Spec

\* What follows from it, and is proved: the table is empty, or it holds all the
\* drivers of one boot and every placeholder.
OneWholeFleet == Fleet = {} \/ \E b \in Boots : Fleet = Own(b) \cup Legacy
=============================================================================
