---------------------------- MODULE MCRegistries ----------------------------
(***************************************************************************)
(* The Go module proxy (GoProxy), the blob directory its zips and all else *)
(* are stored in (BlobFiles) and run locks (RunLocks), for TLC.  They      *)
(* share no state, so a behaviour runs one of them, part, and the others   *)
(* stay where they start.                                                  *)
(* The sets a symmetry permutes, of requests and of contents, are shared   *)
(* by the parts: the group stays small.                                    *)
(***************************************************************************)
EXTENDS GoProxy, BlobFiles, RunLocks

VARIABLE part

mcVars == <<part, goVars, bfVars, lkVars>>

\* What an initial state leaves open is open in the part that runs.
MCInit ==
    /\ part \in {"goproxy", "files", "locks"} /\ GoInit /\ BlobFilesInit /\ LockInit
    /\ part # "goproxy" => goTag = [v \in GoVersion |-> GoNone]
    /\ part # "locks" => lkMine = [p \in LockJob |-> CHOOSE v \in LockValue : TRUE]

MCNext ==
    \/ part = "goproxy" /\ GoNext        /\ UNCHANGED <<part, bfVars, lkVars>>
    \/ part = "files"   /\ BlobFilesNext /\ UNCHANGED <<part, goVars, lkVars>>
    \/ part = "locks"   /\ LockNext      /\ UNCHANGED <<part, goVars, bfVars>>

MCSpec == MCInit /\ [][MCNext]_mcVars

Symmetry == Permutations(GoReq) \cup Permutations(GoCommit)
=============================================================================
