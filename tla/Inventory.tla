----------------------------- MODULE Inventory -----------------------------
(***************************************************************************)
(* The retention inventory of the dashboard: every file a row names, what  *)
(* holds it, and whether the next eviction would give its bytes back.  The *)
(* report changes nothing, so it is a set of operators over the tables of  *)
(* BlobLifecycle, for one set of releases the policy dooms.  The three     *)
(* reads it makes are taken at one moment.                                 *)
(***************************************************************************)
EXTENDS BlobLifecycle

\* A file that no release holds is listed with the release NoKey.
ASSUME NoReleaseAssumption == NoKey \notin Release

\* One entry: the table that names the key, and the release it belongs to, if any.
File(role, release, k) == [role |-> role, release |-> release, key |-> k]

FilesOf(role, column) == {File(role, NoKey, column[row]) : row \in DOMAIN column}

ListArtifactFiles    == {File("artifact", r, artifact[r]) : r \in Release}
ListPackagedFiles    == {File("packaged", r, packaged[r]) : r \in Release}
ListSiteDetails      == FilesOf("site", site)
ListOCIBlobFiles     == {File("oci-blob", NoKey, k) : k \in ociLink}
ListGoproxyBlobFiles == FilesOf("goproxy", goZip)
ListRunBlobFiles     == FilesOf("run-file", runFile)
ListCacheEntries     == FilesOf("cache", cache)
ListMirrorBlobFiles  == {File("mirror", NoKey, k) : k \in mirror}

\* appendFile: a column with no key is no file.
AppendFile(files) == {f \in files : f.key # NoKey}

\* Mutant: a table the listing forgets.
ListFilesNoRuns ==
    AppendFile(ListArtifactFiles \cup ListPackagedFiles \cup ListSiteDetails \cup ListOCIBlobFiles
               \cup ListGoproxyBlobFiles \cup ListCacheEntries \cup ListMirrorBlobFiles)

ListFiles ==
    AppendFile(ListArtifactFiles \cup ListPackagedFiles \cup ListSiteDetails \cup ListOCIBlobFiles
               \cup ListGoproxyBlobFiles \cup ListRunBlobFiles \cup ListCacheEntries
               \cup ListMirrorBlobFiles)

(***************************************************************************)
(* The dry run of an eviction of S: one transaction that is rolled back.   *)
(***************************************************************************)

\* The keys of a release's artifacts and of what was packaged from them.
ListReleaseBlobKeys(r) == {artifact[r], packaged[r]} \ {NoKey}

\* IsBlobReferenced once the rows of S are gone.
StillReferenced(S, k) ==
    \/ \E r \in Release \ S : k \in ListReleaseBlobKeys(r)
    \/ k \in ociLink \cup mirror
    \/ Holds(site, k) \/ Holds(goZip, k) \/ Holds(runFile, k) \/ Holds(cache, k)

\* Mutant: the dry run judges the releases one by one, as a rolled back batch
\* of one would.
PlanFreedOneByOne(S) ==
    UNION {{k \in ListReleaseBlobKeys(r) : ~StillReferenced({r}, k)} : r \in S}

PlanFreed(S) == {k \in UNION {ListReleaseBlobKeys(r) : r \in S} : ~StillReferenced(S, k)}

(***************************************************************************)
(* What the inventory says of a file                                       *)
(***************************************************************************)

\* The first reason a file is kept while S is doomed and `plan' freed, "none"
\* without one.  Why the policy keeps a release is ReleaseHolds of Releases.
Hold(f, S, plan) ==
    CASE f.release = NoKey -> f.role
      [] f.release # NoKey /\ f.release \notin S -> "release"
      [] f.release \in S /\ f.key \notin plan -> "shared-blob"
      [] OTHER -> "none"

Reclaimable(f, S, plan) == Hold(f, S, plan) = "none" /\ f.key \in plan

\* summarize: a blob is counted once, with the reclaimable ones if the file it
\* is counted at is reclaimable.
Blobs(files) == {f.key : f \in files}

(***************************************************************************)
(* Properties                                                              *)
(***************************************************************************)

\* Whatever the policy dooms, the inventory reports exactly what eviction gives
\* back: a blob is reclaimable when every row that names it, in any table, is
\* of a doomed release.  All files of one blob then agree, so the totals of
\* summarize do not depend on which of them it counts, and every file that is
\* not reclaimable shows a reason.
InventoryIsExact ==
    LET files == ListFiles
    IN  \A S \in SUBSET {r \in Release : relRow[r] = "live"} :
          LET plan  == PlanFreed(S)
              given == {f \in files : Reclaimable(f, S, plan)}
              held  == files \ given
          IN  /\ Blobs(given) = plan
              /\ Blobs(given) \cap Blobs(held) = {}
              /\ Blobs(given) \cup Blobs(held) = Named
              /\ \A f \in held : Hold(f, S, plan) # "none"
              /\ Blobs(held) = {g.key : g \in {f \in files : f.release \notin S}}

\* Eviction commits in batches, the dry run in one transaction: still a batch
\* takes from the plan exactly what it frees, so a run that completes frees
\* what the preview of the releases it listed said.
BatchesFreeThePlan ==
    [][\A p \in Process : pc[p] = "evict" /\ relRow' # relRow =>
         freed[p]' \cup PlanFreed(victims[p])' = freed[p] \cup PlanFreed(victims[p])]_vars
=============================================================================
