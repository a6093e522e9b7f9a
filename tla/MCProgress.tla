----------------------------- MODULE MCProgress -----------------------------
(***************************************************************************)
(* What must end, for TLC: pushes to the registry (OCIUpload), publishes   *)
(* (PublishClient), site uploads (SiteUploads), sign-ins (SignIn) and npm  *)
(* metadata (NpmManifests).  They share no state, so a behaviour runs one  *)
(* of them, part, and the others stay where they start; the fairness is    *)
(* each part's own, assumed where the part runs.                           *)
(***************************************************************************)
EXTENDS OCIUpload, PublishClient, SiteUploads, SignIn, NpmManifests

VARIABLE part

mcVars == <<part, ocVars, pubVars, suVars, signVars, npmVars>>

\* What an initial state leaves open is open in the part that runs.
MCInit ==
    /\ part \in {"oci", "publish", "sites", "signin", "npm"}
    /\ OciInit /\ PubInit /\ SitesInit /\ SignInit /\ NpmInit
    /\ part # "oci" => ~ocElse
    /\ part # "publish" => \A j \in PubJob : job[j].byHash
    /\ part # "sites" => \A b \in SiteBranch : suRow[b] = NoSite

MCNext ==
    \/ part = "oci"      /\ OciNext   /\ UNCHANGED <<part, pubVars, suVars, signVars, npmVars>>
    \/ part = "publish"  /\ PubNext   /\ UNCHANGED <<part, ocVars, suVars, signVars, npmVars>>
    \/ part = "sites"    /\ SitesNext /\ UNCHANGED <<part, ocVars, pubVars, signVars, npmVars>>
    \/ part = "signin"   /\ SignNext  /\ UNCHANGED <<part, ocVars, pubVars, suVars, npmVars>>
    \/ part = "npm"      /\ NpmNext   /\ UNCHANGED <<part, ocVars, pubVars, suVars, signVars>>

MCSpec == MCInit /\ [][MCNext]_mcVars

\* Fairness, SignFairness and so on, of the part that runs.
MCFairSpec ==
    /\ MCSpec
    /\ WF_ocVars(part = "oci" /\ Pushes) /\ \A q \in OciSlot : WF_ocVars(part = "oci" /\ Serves(q))
    /\ \A j \in PubJob : WF_pubVars(part = "publish" /\ PubStep(j))
    /\ \A u \in SiteUpload : WF_suVars(part = "sites" /\ UploadStep(u))
    /\ \A t \in Tab : WF_signVars(part = "signin" /\ TabStep(t))
    /\ \A r \in Packument : WF_npmVars(part = "npm" /\ NpmStep(r))

Manifests ==
    <<  <<[slot |-> 1, body |-> "big"],   [slot |-> 2, body |-> "big"]>>,
        <<[slot |-> 3, body |-> "small"], [slot |-> 2, body |-> "small"]>>  >>

\* The first two artifacts share a tarball.
Tarballs == [a \in NpmArtifact |-> IF a = 1 THEN 1 ELSE a - 1]

\* Every upload ends, with the file stored or an error: a push to the registry
\* (pushBlobChunked), a publish (runPublish) and a site (storeTar).
UploadsEnd ==
    /\ part = "oci" => PushEnds
    /\ part = "publish" => PublishesEnd
    /\ SiteUploadsEnd

\* Every npm client is served in the end, and what comes to be cached for good is
\* what the tarball holds (PackumentsConverge, CachedManifestsAreTrue).
NpmConverges == (part = "npm" => PackumentsConverge) /\ CachedManifestsAreTrue
=============================================================================
