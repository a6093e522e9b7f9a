----------------------------- MODULE MCRunFiles -----------------------------
(***************************************************************************)
(* Instances of RunFiles for TLC.                                          *)
(***************************************************************************)
EXTENDS RunFiles, TLC

Symmetry == Permutations(Run) \cup Permutations(Name) \cup Permutations(Process)
=============================================================================
