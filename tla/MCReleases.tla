----------------------------- MODULE MCReleases -----------------------------
(***************************************************************************)
(* Instances of Releases for TLC.  Processes and tags are interchangeable. *)
(***************************************************************************)
EXTENDS Releases, TLC

Symmetry == Permutations(Process) \cup Permutations(Tag)

=============================================================================
