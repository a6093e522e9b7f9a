------------------------------ MODULE RunLocks ------------------------------
(***************************************************************************)
(* Run locks (internal/api/runlocks.go, internal/db/run_locks.go): a job   *)
(* of a CI run claims a name, and every job of that run is told the value  *)
(* that was claimed first.  A claim is three statements, each its own      *)
(* transaction: delete the locks past their lifetime, insert unless the    *)
(* name is taken, read what is there.  The statements of racing claims     *)
(* interleave.  The module is about one name; names do not interact,       *)
(* except that every claim expires the old locks of all of them.           *)
(***************************************************************************)
EXTENDS Naturals

CONSTANTS
    LockJob,      \* requests of the run's jobs, each served once
    LockValue,    \* values they claim with
    NoLock,       \* no row; nothing answered
    LockLifetime, \* RunLockLifetime, 35 days
    MaxLockTime   \* bound: the clock stops here

ASSUME LockLifetimeAssumption == LockLifetime \in Nat \ {0} /\ MaxLockTime \in Nat
ASSUME NoLockAssumption ==
    /\ NoLock \notin LockValue /\ NoLock \notin LockJob
    /\ NoLock \notin [val : LockValue, created : BOOLEAN, life : Nat]

VARIABLES
    lkNow,     \* the clock
    lkVal,     \* run_locks.value of the row under the name, or NoLock
    lkBorn,    \* run_locks.created_at of the row, or of the last one
    lkAt,      \* the next statement of each request
    lkSince,   \* when the request started: its cutoff is computed from it
    lkMine,    \* the value a request claims with
    lkRows,    \* whether the request's insert wrote the row
    lkTold,    \* what each request was answered
    lkLife,    \* history: how often the row was deleted
    lkWinner   \* history: the request whose insert wrote the row

lkVars == <<lkNow, lkVal, lkBorn, lkAt, lkSince, lkMine, lkRows, lkTold, lkLife, lkWinner>>

LockInit ==
    /\ lkNow = 0
    /\ lkVal = NoLock
    /\ lkBorn = 0
    /\ lkAt = [p \in LockJob |-> "idle"]
    /\ lkSince = [p \in LockJob |-> 0]
    /\ lkMine \in [LockJob -> LockValue]
    /\ lkRows = [p \in LockJob |-> FALSE]
    /\ lkTold = [p \in LockJob |-> NoLock]
    /\ lkLife = 0
    /\ lkWinner = NoLock

\* runLockKey: the token names the run the request names, so the key is the
\* run's.  A request that does not is refused and touches nothing.
BeginClaim(p) ==
    /\ lkAt[p] = "idle"
    /\ lkAt' = [lkAt EXCEPT ![p] = "expire"]
    /\ lkSince' = [lkSince EXCEPT ![p] = lkNow]
    /\ UNCHANGED <<lkNow, lkVal, lkBorn, lkMine, lkRows, lkTold, lkLife, lkWinner>>

\* DeleteRunLocksBefore: created_at < now - RunLockLifetime.
ExpireLocks(p) ==
    /\ lkAt[p] = "expire"
    /\ lkAt' = [lkAt EXCEPT ![p] = "insert"]
    /\ IF lkVal # NoLock /\ lkBorn + LockLifetime < lkSince[p]
       THEN lkVal' = NoLock /\ lkWinner' = NoLock /\ lkLife' = lkLife + 1
       ELSE UNCHANGED <<lkVal, lkWinner, lkLife>>
    /\ UNCHANGED <<lkNow, lkBorn, lkSince, lkMine, lkRows, lkTold>>

\* InsertRunLock, overwriting the value of a name that is taken.
InsertOverwrites(p) ==
    /\ lkAt[p] = "insert"
    /\ lkAt' = [lkAt EXCEPT ![p] = "read"]
    /\ lkVal' = lkMine[p] /\ lkBorn' = lkNow /\ lkWinner' = p
    /\ lkRows' = [lkRows EXCEPT ![p] = TRUE]
    /\ UNCHANGED <<lkNow, lkSince, lkMine, lkTold, lkLife>>

\* InsertRunLock: ON CONFLICT DO NOTHING.
InsertLock(p) ==
    /\ lkAt[p] = "insert"
    /\ lkAt' = [lkAt EXCEPT ![p] = "read"]
    /\ IF lkVal = NoLock
       THEN /\ lkVal' = lkMine[p] /\ lkBorn' = lkNow /\ lkWinner' = p
            /\ lkRows' = [lkRows EXCEPT ![p] = TRUE]
       ELSE UNCHANGED <<lkVal, lkBorn, lkWinner, lkRows>>
    /\ UNCHANGED <<lkNow, lkSince, lkMine, lkTold, lkLife>>

\* GetRunLock after the insert; a row that is gone by then is an error.
ReadBack(p) ==
    /\ lkAt[p] = "read"
    /\ lkAt' = [lkAt EXCEPT ![p] = "done"]
    /\ lkTold' = [lkTold EXCEPT ![p] =
                     IF lkVal = NoLock THEN NoLock
                     ELSE [val |-> lkVal, created |-> lkRows[p], life |-> lkLife]]
    /\ UNCHANGED <<lkNow, lkVal, lkBorn, lkSince, lkMine, lkRows, lkLife, lkWinner>>

\* Handler.GetRunLock: a job asks without claiming.
GetLock(p) ==
    /\ lkAt[p] = "idle"
    /\ lkAt' = [lkAt EXCEPT ![p] = "done"]
    /\ lkTold' = [lkTold EXCEPT ![p] =
                     IF lkVal = NoLock THEN NoLock
                     ELSE [val |-> lkVal, created |-> FALSE, life |-> lkLife]]
    /\ UNCHANGED <<lkNow, lkVal, lkBorn, lkSince, lkMine, lkRows, lkLife, lkWinner>>

\* A request fails on a database error, or its client goes away.
FailClaim(p) ==
    /\ lkAt[p] \notin {"idle", "done"}
    /\ lkAt' = [lkAt EXCEPT ![p] = "done"]
    /\ UNCHANGED <<lkNow, lkVal, lkBorn, lkSince, lkMine, lkRows, lkTold, lkLife, lkWinner>>

\* Time passes; no request takes the lifetime of a lock.
LockTick ==
    /\ lkNow < MaxLockTime
    /\ \A p \in LockJob : lkAt[p] \notin {"idle", "done"} => lkNow < lkSince[p] + LockLifetime
    /\ lkNow' = lkNow + 1
    /\ UNCHANGED <<lkVal, lkBorn, lkAt, lkSince, lkMine, lkRows, lkTold, lkLife, lkWinner>>

LockNext ==
    \/ \E p \in LockJob : \/ BeginClaim(p) \/ ExpireLocks(p) \/ InsertLock(p) \/ ReadBack(p)
                          \/ GetLock(p) \/ FailClaim(p)
    \/ LockTick

LockSpec == LockInit /\ [][LockNext]_lkVars

----------------------------------------------------------------------------
(* Properties.                                                             *)

Register == INSTANCE WriteOnce
    WITH Claim <- LockJob, Val <- LockValue, Unset <- NoLock,
         held <- lkVal, life <- lkLife, winner <- lkWinner, told <- lkTold

\* Racing claims of a run lock behave as claims of a register written once:
\* the three statements of ClaimRunLock implement WriteOnce.
LockIsWriteOnce == Register!WOSpec

============================================================================
