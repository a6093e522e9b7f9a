---------------------------- MODULE NpmManifests ----------------------------
(***************************************************************************)
(* The manifest cache behind npm packuments: a request needs the           *)
(* package.json fields of every published npm-package artifact, takes      *)
(* those it finds cached, extracts the others from their blobs with a few  *)
(* workers and within a time budget, and caches what it extracts.  A       *)
(* request over budget answers 503 and its client retries.                 *)
(*                                                                         *)
(* What a manifest says is one of two values: "fields" for what the        *)
(* tarball really holds, "empty" for a map with nothing in it.             *)
(***************************************************************************)
EXTENDS Naturals, FiniteSets

CONSTANTS
    Packument,      \* concurrent requests, each retried by its client
    NpmArtifact,    \* the npm-package artifacts of the project
    NpmBlob,        \* storage keys
    NpmKey,         \* the storage key of each artifact; several may share one
    FillWorkers,    \* manifestFillConcurrency (8)
    BudgetFills,    \* blobs that can be read out within manifestFillBudget (20 s), at least
    NoFields        \* no cached row, no answer yet

ASSUME NpmKeys == NpmKey \in [NpmArtifact -> NpmBlob]
ASSUME NpmBounds == {FillWorkers, BudgetFills} \subseteq Nat \ {0}

VARIABLES
    manifest,   \* packaged_artifacts rows of format npm-manifest
    fill,       \* the requests
    misread     \* history: blobs that opened and whose read then failed, read by no guard

npmVars == <<manifest, fill, misread>>

\* known: what the response will say of each artifact.  filled: blobs read out.
NewFill == [at |-> "get", todo |-> {}, running |-> {}, filled |-> 0, late |-> FALSE,
            known |-> [a \in NpmArtifact |-> NoFields]]

Sharing(b) == {a \in NpmArtifact : NpmKey[a] = b}

\* resolveNPMManifestFields: hits come from the cache, misses are grouped by blob.
BeginPackument(r) ==
    /\ fill[r].at = "get"
    /\ fill' = [fill EXCEPT
         ![r].at = "fill",
         ![r].known = manifest,
         ![r].todo = {NpmKey[a] : a \in {b \in NpmArtifact : manifest[b] = NoFields}}]
    /\ UNCHANGED <<manifest, misread>>

StartFill(r) ==
    /\ fill[r].at = "fill" /\ ~fill[r].late
    /\ Cardinality(fill[r].running) < FillWorkers
    /\ \E b \in fill[r].todo :
         fill' = [fill EXCEPT ![r].todo = @ \ {b}, ![r].running = @ \cup {b}]
    /\ UNCHANGED <<manifest, misread>>

\* Mutant: a blob that does not open is an empty manifest for good.
ExtractFieldsOnce(b, late) ==
    {[fields |-> "fields", cacheable |-> TRUE, failed |-> {}]}
    \cup (IF late THEN {[fields |-> NoFields, cacheable |-> FALSE, failed |-> {}]}
          ELSE {[fields |-> "empty", cacheable |-> TRUE, failed |-> {}]})

\* extractNPMManifestFields: the fields, whether they may be cached, and the
\* blob if its read failed half way.  One that does not open is not cached.  One
\* that opens and cannot be read or parsed is, as empty, unless the deadline
\* has passed, which is then the reason.
ExtractFields(b, late) ==
    {[fields |-> "fields", cacheable |-> TRUE, failed |-> {}]}
    \cup (IF late THEN {[fields |-> NoFields, cacheable |-> FALSE, failed |-> {}]}
          ELSE {[fields |-> "empty", cacheable |-> FALSE, failed |-> {}],
                [fields |-> "empty", cacheable |-> TRUE, failed |-> {b}]})

\* cacheNPMManifestFields: a row for each artifact that shares the blob, written
\* with the request's context, which refuses it after the deadline.
CacheFields(b, got, late) ==
    manifest' = [a \in NpmArtifact |->
        IF a \in Sharing(b) /\ got.cacheable /\ ~late THEN got.fields ELSE manifest[a]]

\* A worker ends.
EndFill(r) ==
    \E b \in fill[r].running : \E got \in ExtractFields(b, fill[r].late) :
        /\ fill' = [fill EXCEPT
             ![r].running = @ \ {b},
             ![r].filled = IF got.cacheable /\ @ < BudgetFills THEN @ + 1 ELSE @,
             ![r].known = [a \in NpmArtifact |->
                 IF a \in Sharing(b) THEN got.fields ELSE fill[r].known[a]]]
        /\ CacheFields(b, got, fill[r].late)
        /\ misread' = misread \cup got.failed

\* The budget is over.
Deadline(r) ==
    /\ fill[r].at = "fill" /\ ~fill[r].late
    /\ fill[r].filled >= BudgetFills
    /\ fill' = [fill EXCEPT ![r].late = TRUE]
    /\ UNCHANGED <<manifest, misread>>

\* 200 with an entry for every artifact, or 503 and Retry-After.
AnswerPackument(r) ==
    /\ fill[r].at = "fill" /\ fill[r].running = {}
    /\ fill[r].late \/ fill[r].todo = {}
    /\ fill' = [fill EXCEPT
         ![r].at = IF \E a \in NpmArtifact : fill[r].known[a] = NoFields THEN "retry" ELSE "served"]
    /\ UNCHANGED <<manifest, misread>>

\* The client asks again after a 503.
RetryPackument(r) ==
    /\ fill[r].at = "retry"
    /\ fill' = [fill EXCEPT ![r] = NewFill]
    /\ UNCHANGED <<manifest, misread>>

NpmInit ==
    /\ manifest = [a \in NpmArtifact |-> NoFields]
    /\ fill = [r \in Packument |-> NewFill]
    /\ misread = {}

NpmStep(r) ==
    \/ BeginPackument(r) \/ StartFill(r) \/ EndFill(r) \/ Deadline(r) \/ AnswerPackument(r)
    \/ RetryPackument(r)

NpmNext == \E r \in Packument : NpmStep(r)

\* Requests run on, and npm retries what Retry-After asks for.
NpmSpec == NpmInit /\ [][NpmNext]_npmVars /\ \A r \in Packument : WF_npmVars(NpmStep(r))

(***************************************************************************)
(* Properties                                                              *)
(***************************************************************************)

\* What the cache comes to say of an artifact for good is what its tarball holds,
\* unless the read of an opened blob failed: no deadline, no missing blob and no
\* row of another artifact hides its dependencies (extractNPMManifestFields,
\* cacheNPMManifestFields).
CachedManifestsAreTrue ==
    [][\A a \in NpmArtifact :
         manifest'[a] # manifest[a] => manifest'[a] = "fields" \/ NpmKey[a] \in misread']_npmVars

\* A cold project converges: rows filled by a request that ran out of budget
\* are there for the next one, so every client is served in the end.
PackumentsConverge == \A r \in Packument : <>(fill[r].at = "served")
=============================================================================
