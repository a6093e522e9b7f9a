----------------------------- MODULE MCUploads ------------------------------
(***************************************************************************)
(* The three upload protocols for TLC: the chunked sessions of the API     *)
(* (UploadSessions), the publishing client that drives them                *)
(* (PublishClient) and the blob uploads of the OCI registry (OCIUpload).   *)
(* They share no state, so a behaviour runs one of them, part, and the     *)
(* others stay where they start: the runs cost the sum of the three state  *)
(* spaces, not their product.                                              *)
(***************************************************************************)
EXTENDS UploadSessions, OCIUpload, PublishClient

VARIABLE part

mcVars == <<part, vars, ocVars, pubVars>>

\* What an initial state leaves open is open in the part that runs.
MCInit ==
    /\ part \in {"sessions", "oci", "publish"} /\ Init /\ OciInit /\ PubInit
    /\ part # "oci" => ~ocElse
    /\ part # "publish" => \A j \in PubJob : job[j].byHash

MCNext ==
    \/ part = "sessions" /\ Next    /\ UNCHANGED <<part, ocVars, pubVars>>
    \/ part = "oci"      /\ OciNext /\ UNCHANGED <<part, vars, pubVars>>
    \/ part = "publish"  /\ PubNext /\ UNCHANGED <<part, vars, ocVars>>

MCSpec == MCInit /\ [][MCNext]_mcVars

Manifests ==
    <<  <<[slot |-> 1, body |-> "big"],   [slot |-> 2, body |-> "big"]>>,
        <<[slot |-> 3, body |-> "small"], [slot |-> 2, body |-> "small"]>>,
        <<[slot |-> 3, body |-> "small"]>>  >>
=============================================================================
