----------------------------- MODULE MCRetention ----------------------------
(***************************************************************************)
(* The two stores whose janitor deletes under its readers, for TLC: the    *)
(* numbers of releases (Releases) and the registry mirror (Mirror).  They  *)
(* share no state, so a behaviour runs one of them, part, and the other    *)
(* stays where it starts.                                                  *)
(***************************************************************************)
EXTENDS Releases, Mirror, TLC

VARIABLE part

mcVars == <<part, vars, mrVars>>

MCInit == part \in {"releases", "mirror"} /\ Init /\ MirrorInit

MCNext ==
    \/ part = "releases" /\ Next       /\ UNCHANGED <<part, mrVars>>
    \/ part = "mirror"   /\ MirrorNext /\ UNCHANGED <<part, vars>>

MCSpec == MCInit /\ [][MCNext]_mcVars

Symmetry == Permutations(Pull) \cup Permutations(Digest)
=============================================================================
