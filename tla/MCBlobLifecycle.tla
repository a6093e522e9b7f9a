-------------------------- MODULE MCBlobLifecycle --------------------------
(***************************************************************************)
(* Instances of BlobLifecycle for TLC.  Each cfg picks the operations, and *)
(* so the tables, whose interleavings it explores.                         *)
(***************************************************************************)
EXTENDS Inventory, TLC

Symmetry == Permutations(Key) \cup Permutations(Process) \cup Permutations(Release)
=============================================================================
