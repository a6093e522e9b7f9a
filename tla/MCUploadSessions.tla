-------------------------- MODULE MCUploadSessions --------------------------
(***************************************************************************)
(* Instances of UploadSessions for TLC.                                    *)
(***************************************************************************)
EXTENDS UploadSessions, TLC

Symmetry == Permutations(Session) \cup Permutations(Handler)
=============================================================================
