--------------------------- MODULE RunLocksProofs ---------------------------
(***************************************************************************)
(* Proofs about RunLocks, for any jobs, values and lifetime: the three     *)
(* statements of a claim implement a register that is written once, and    *)
(* claims answered in one life of a lock agree.                            *)
(***************************************************************************)
EXTENDS RunLocks, TLAPS

Answered == [val : LockValue, created : BOOLEAN, life : Nat]

\* Types of the row, the requests and the histories.
LockTypeOK ==
    /\ lkNow \in Nat /\ lkBorn \in Nat /\ lkLife \in Nat
    /\ lkVal \in LockValue \cup {NoLock}
    /\ lkAt \in [LockJob -> {"idle", "expire", "insert", "read", "done"}]
    /\ lkSince \in [LockJob -> Nat]
    /\ lkMine \in [LockJob -> LockValue]
    /\ lkRows \in [LockJob -> BOOLEAN]
    /\ lkTold \in [LockJob -> Answered \cup {NoLock}]
    /\ lkWinner \in LockJob \cup {NoLock}

\* A request is younger than a lock's lifetime, and what it wrote is younger
\* than the request.
Timely ==
    \A p \in LockJob :
       /\ lkSince[p] <= lkNow
       /\ lkAt[p] \notin {"idle", "done"} => lkNow <= lkSince[p] + LockLifetime
       /\ lkAt[p] = "read" /\ lkWinner = p => lkSince[p] <= lkBorn

\* A request between its insert and its read that wrote a row wrote the row
\* that is there: no claim under way started a lifetime after it did, so none
\* can have expired the row in between.
WriterIsWinner ==
    /\ lkVal = NoLock <=> lkWinner = NoLock
    /\ \A p \in LockJob :
         /\ lkAt[p] = "read" => (lkRows[p] <=> lkWinner = p)
         /\ lkAt[p] \in {"idle", "expire", "insert"} => lkWinner # p /\ ~lkRows[p]
         /\ lkAt[p] # "done" => lkTold[p] = NoLock

LockInv == LockTypeOK /\ Timely /\ WriterIsWinner

-----------------------------------------------------------------------------

\* An empty table with no request under way.
LEMMA LockInitInv == LockInit => LockInv
BY LockLifetimeAssumption, NoLockAssumption
   DEF LockInit, LockInv, LockTypeOK, Timely, WriterIsWinner, Answered

\* Every statement of a request keeps the invariant; that ExpireLocks does is
\* where Timely is needed.
LEMMA LockStepInv == LockInv /\ [LockNext]_lkVars => LockInv'
<1> SUFFICES ASSUME LockInv, [LockNext]_lkVars PROVE LockInv'
    OBVIOUS
<1> USE LockLifetimeAssumption, NoLockAssumption
<1> USE DEF LockInv, LockTypeOK, Timely, WriterIsWinner
<1>1. ASSUME NEW p \in LockJob, BeginClaim(p) PROVE LockInv'
    BY <1>1 DEF BeginClaim
<1>2. ASSUME NEW p \in LockJob, ExpireLocks(p) PROVE LockInv'
    <2>1. CASE lkVal # NoLock /\ lkBorn + LockLifetime < lkSince[p]
        <3>1. \A q \in LockJob : lkAt[q] = "read" => lkWinner # q
            BY <2>1
        <3>2. lkVal' = NoLock /\ lkWinner' = NoLock /\ lkLife' = lkLife + 1
              /\ UNCHANGED <<lkNow, lkBorn, lkSince, lkMine, lkRows, lkTold>>
              /\ lkAt[p] = "expire" /\ lkAt' = [lkAt EXCEPT ![p] = "insert"]
            BY <1>2, <2>1 DEF ExpireLocks
        <3> QED BY <3>1, <3>2
    <2>2. CASE ~(lkVal # NoLock /\ lkBorn + LockLifetime < lkSince[p])
        BY <1>2, <2>2 DEF ExpireLocks
    <2> QED BY <2>1, <2>2
<1>3. ASSUME NEW p \in LockJob, InsertLock(p) PROVE LockInv'
    <2>1. CASE lkVal = NoLock
        <3>1. /\ lkAt[p] = "insert" /\ lkAt' = [lkAt EXCEPT ![p] = "read"]
              /\ lkVal' = lkMine[p] /\ lkBorn' = lkNow /\ lkWinner' = p
              /\ lkRows' = [lkRows EXCEPT ![p] = TRUE]
              /\ UNCHANGED <<lkNow, lkSince, lkMine, lkTold, lkLife>>
            BY <1>3, <2>1 DEF InsertLock
        <3>2. LockTypeOK' /\ Timely'
            BY <3>1
        <3>3. lkVal' # NoLock /\ lkWinner' # NoLock
            BY <3>1
        <3>4. ASSUME NEW q \in LockJob
              PROVE  /\ lkAt'[q] = "read" => (lkRows'[q] <=> lkWinner' = q)
                     /\ lkAt'[q] \in {"idle", "expire", "insert"} => lkWinner' # q /\ ~lkRows'[q]
                     /\ lkAt'[q] # "done" => lkTold'[q] = NoLock
            <4>1. CASE q = p
                BY <3>1, <4>1
            <4>2. CASE q # p
                <5>1. lkAt'[q] = lkAt[q] /\ lkRows'[q] = lkRows[q] /\ lkTold'[q] = lkTold[q]
                    BY <3>1, <4>2
                <5>2. lkWinner # q /\ lkWinner' # q
                    BY <2>1, <3>1, <4>2
                <5> QED BY <5>1, <5>2
            <4> QED BY <4>1, <4>2
        <3> QED BY <3>2, <3>3, <3>4
    <2>2. CASE lkVal # NoLock
        BY <1>3, <2>2 DEF InsertLock
    <2> QED BY <2>1, <2>2
<1>4. ASSUME NEW p \in LockJob, ReadBack(p) PROVE LockInv'
    BY <1>4 DEF ReadBack, Answered
<1>5. ASSUME NEW p \in LockJob, GetLock(p) PROVE LockInv'
    BY <1>5 DEF GetLock, Answered
<1>6. ASSUME NEW p \in LockJob, FailClaim(p) PROVE LockInv'
    BY <1>6 DEF FailClaim
<1>7. CASE LockTick
    BY <1>7 DEF LockTick
<1>8. CASE UNCHANGED lkVars
    BY <1>8 DEF lkVars
<1> QED BY <1>1, <1>2, <1>3, <1>4, <1>5, <1>6, <1>7, <1>8 DEF LockNext

\* The invariant holds throughout.
LEMMA LockInvariant == LockSpec => []LockInv
BY LockInitInv, LockStepInv, PTL DEF LockSpec

-----------------------------------------------------------------------------
(* The refinement.                                                         *)

\* A table without the name is a register that was never written.
LEMMA RegisterInit == LockInit => Register!WOInit
BY DEF LockInit, Register!WOInit

\* Every statement is a step of the register or leaves it alone: the insert
\* that finds no row writes, a read that finds one tells, an expiry forgets.
LEMMA RegisterStep ==
    LockInv /\ [LockNext]_lkVars => [Register!WONext]_(Register!woVars)
<1> SUFFICES ASSUME LockInv, [LockNext]_lkVars
             PROVE  Register!WONext \/ UNCHANGED Register!woVars
    BY DEF Register!woVars
<1> USE DEF LockInv, LockTypeOK, WriterIsWinner
<1>1. ASSUME NEW p \in LockJob, BeginClaim(p) \/ FailClaim(p)
      PROVE  UNCHANGED Register!woVars
    BY <1>1 DEF BeginClaim, FailClaim, Register!woVars
<1>2. ASSUME NEW p \in LockJob, ExpireLocks(p)
      PROVE  Register!Forget \/ UNCHANGED Register!woVars
    BY <1>2 DEF ExpireLocks, Register!Forget, Register!woVars
<1>3. ASSUME NEW p \in LockJob, InsertLock(p)
      PROVE  Register!Write(p, lkMine[p]) \/ UNCHANGED Register!woVars
    BY <1>3 DEF InsertLock, Register!Write, Register!woVars
<1>4. ASSUME NEW p \in LockJob, ReadBack(p)
      PROVE  Register!Tell(p) \/ UNCHANGED Register!woVars
    <2>1. lkTold[p] = NoLock /\ lkRows[p] = (lkWinner = p)
        BY <1>4 DEF ReadBack
    <2>2. CASE lkVal = NoLock
        <3>1. lkTold' = lkTold
            BY <1>4, <2>1, <2>2 DEF ReadBack
        <3> QED BY <1>4, <3>1 DEF ReadBack, Register!woVars
    <2>3. CASE lkVal # NoLock
        BY <1>4, <2>1, <2>3 DEF ReadBack, Register!Tell
    <2> QED BY <2>2, <2>3
<1>5. ASSUME NEW p \in LockJob, GetLock(p)
      PROVE  Register!Tell(p) \/ UNCHANGED Register!woVars
    <2>1. lkTold[p] = NoLock /\ FALSE = (lkWinner = p)
        BY <1>5 DEF GetLock
    <2>2. CASE lkVal = NoLock
        <3>1. lkTold' = lkTold
            BY <1>5, <2>1, <2>2 DEF GetLock
        <3> QED BY <1>5, <3>1 DEF GetLock, Register!woVars
    <2>3. CASE lkVal # NoLock
        BY <1>5, <2>1, <2>3 DEF GetLock, Register!Tell
    <2> QED BY <2>2, <2>3
<1>6. CASE LockTick \/ UNCHANGED lkVars
    BY <1>6 DEF LockTick, lkVars, Register!woVars
<1>7. \A p \in LockJob : lkMine[p] \in LockValue
    OBVIOUS
<1> QED
    BY <1>1, <1>2, <1>3, <1>4, <1>5, <1>6, <1>7 DEF LockNext, Register!WONext

\* ClaimRunLock and GetRunLock implement a register that is written once: of any
\* number of racing claims one writes, and all are told what it wrote.
THEOREM ClaimsAreWrittenOnce == LockSpec => LockIsWriteOnce
BY LockInvariant, RegisterInit, RegisterStep, PTL
   DEF LockSpec, LockIsWriteOnce, Register!WOSpec

-----------------------------------------------------------------------------
(* What the register promises.                                             *)

\* What was told in this life of the lock is what it holds.
ToldNow ==
    \A p \in LockJob : lkTold[p] # NoLock =>
       /\ lkTold[p].life <= lkLife
       /\ lkTold[p].life = lkLife =>
            /\ lkVal = lkTold[p].val
            /\ lkVal # NoLock
            /\ lkTold[p].created => lkWinner = p

AgreeInv == LockInv /\ ToldNow /\ Register!Agreement

\* Nobody was told anything yet.
LEMMA AgreeInitInv == LockInit => ToldNow /\ Register!Agreement
BY DEF LockInit, ToldNow, Register!Agreement

\* Every step of the register keeps what was told in agreement.
LEMMA AgreeStepInv ==
    AgreeInv /\ [Register!WONext]_(Register!woVars) => (ToldNow /\ Register!Agreement)'
<1> SUFFICES ASSUME AgreeInv, Register!WONext \/ UNCHANGED Register!woVars
             PROVE  (ToldNow /\ Register!Agreement)'
    BY DEF Register!woVars
<1> USE NoLockAssumption
<1> USE DEF AgreeInv, LockInv, LockTypeOK, Answered
<1>1. ASSUME NEW p \in LockJob, NEW v \in LockValue, Register!Write(p, v)
      PROVE  (ToldNow /\ Register!Agreement)'
    BY <1>1 DEF Register!Write, ToldNow, Register!Agreement
<1>2. ASSUME NEW p \in LockJob, Register!Tell(p)
      PROVE  (ToldNow /\ Register!Agreement)'
    <2>1. /\ lkVal # NoLock /\ UNCHANGED <<lkVal, lkLife, lkWinner>>
          /\ lkTold' = [lkTold EXCEPT ![p] =
                           [val |-> lkVal, created |-> lkWinner = p, life |-> lkLife]]
        BY <1>2 DEF Register!Tell
    <2>2. /\ lkTold'[p].val = lkVal /\ lkTold'[p].life = lkLife
          /\ lkTold'[p].created => lkWinner = p
        BY <2>1
    <2>3. \A q \in LockJob \ {p} : lkTold'[q] = lkTold[q]
        BY <2>1
    <2>4. ToldNow'
        BY <2>1, <2>2, <2>3 DEF ToldNow
    <2>5. Register!Agreement'
        BY <2>1, <2>2, <2>3 DEF ToldNow, Register!Agreement
    <2> QED BY <2>4, <2>5
<1>3. CASE Register!Forget
    BY <1>3 DEF Register!Forget, ToldNow, Register!Agreement
<1>4. CASE UNCHANGED Register!woVars
    BY <1>4 DEF Register!woVars, ToldNow, Register!Agreement
<1> QED BY <1>1, <1>2, <1>3, <1>4 DEF Register!WONext

\* Requests answered in one life of a lock were all told one value, and at most
\* one of them that it wrote it (ClaimRunLock), however their statements interleave.
THEOREM ClaimsAgree == LockSpec => []Register!Agreement
<1>1. LockInit => AgreeInv
    BY LockInitInv, AgreeInitInv DEF AgreeInv
<1>2. AgreeInv /\ [LockNext]_lkVars => AgreeInv'
    BY LockStepInv, RegisterStep, AgreeStepInv DEF AgreeInv
<1>3. AgreeInv => Register!Agreement
    BY DEF AgreeInv
<1> QED BY <1>1, <1>2, <1>3, PTL DEF LockSpec
=============================================================================
