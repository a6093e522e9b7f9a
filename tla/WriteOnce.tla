----------------------------- MODULE WriteOnce -----------------------------
(***************************************************************************)
(* What a run lock promises (internal/db/run_locks.go): a name holds the   *)
(* first value a claim records under it, every claim is told that value,   *)
(* and one claim alone is told that it wrote it, until the lock has lived  *)
(* its time and is forgotten.  A life of the lock is the time from one     *)
(* forgetting to the next.                                                 *)
(***************************************************************************)
EXTENDS Naturals

CONSTANTS Claim, Val, Unset

VARIABLES
    held,    \* the value the name holds, or Unset
    life,    \* how many times it was forgotten
    winner,  \* the claim that wrote the value, or Unset
    told     \* what each claim was told: [val, created, life], or Unset

woVars == <<held, life, winner, told>>

WOInit ==
    /\ held = Unset
    /\ life = 0
    /\ winner = Unset
    /\ told = [p \in Claim |-> Unset]

\* The first claim of a life writes its value.
Write(p, v) ==
    /\ held = Unset
    /\ held' = v
    /\ winner' = p
    /\ UNCHANGED <<life, told>>

\* A claim is told the value, and whether it was the one to write it.
Tell(p) ==
    /\ held # Unset
    /\ told[p] = Unset
    /\ told' = [told EXCEPT ![p] = [val |-> held, created |-> winner = p, life |-> life]]
    /\ UNCHANGED <<held, life, winner>>

\* The lock has lived its time.
Forget ==
    /\ held # Unset
    /\ held' = Unset
    /\ winner' = Unset
    /\ life' = life + 1
    /\ UNCHANGED told

WONext ==
    \/ \E p \in Claim : (\E v \in Val : Write(p, v)) \/ Tell(p)
    \/ Forget

WOSpec == WOInit /\ [][WONext]_woVars

\* Claims answered in one life of the lock were told one value, and at most
\* one of them that it wrote it.
Agreement ==
    \A p, q \in Claim :
       told[p] # Unset /\ told[q] # Unset /\ told[p].life = told[q].life
       => /\ told[p].val = told[q].val
          /\ told[p].created /\ told[q].created => p = q
============================================================================
