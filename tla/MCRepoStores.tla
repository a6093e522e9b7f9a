---------------------------- MODULE MCRepoStores ----------------------------
(***************************************************************************)
(* What a repository's CI keeps on the server, for TLC: run files          *)
(* (RunFiles), the CI cache (CICache) and the projects its tokens create   *)
(* (Projects).  They share no state, so a behaviour runs one of them, part, *)
(* and the others stay where they start.  The sets a symmetry permutes, of *)
(* callers and of contents, are shared by the parts: the group stays small. *)
(***************************************************************************)
EXTENDS RunFiles, CICache, Projects, TLC

VARIABLE part

mcVars == <<part, vars, ceVars, projVars>>

\* What an initial state leaves open is open in the part that runs.
MCInit ==
    /\ part \in {"files", "cache", "projects"} /\ Init /\ CacheInit /\ ProjInit
    /\ part # "projects" => repo[1] = None

MCNext ==
    \/ part = "files"    /\ Next      /\ UNCHANGED <<part, ceVars, projVars>>
    \/ part = "cache"    /\ CacheNext /\ UNCHANGED <<part, vars, projVars>>
    \/ part = "projects" /\ ProjNext  /\ UNCHANGED <<part, vars, ceVars>>

MCSpec == MCInit /\ [][MCNext]_mcVars

Symmetry == Permutations(Process) \cup Permutations(Owner)
=============================================================================
