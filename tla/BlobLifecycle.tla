--------------------------- MODULE BlobLifecycle ---------------------------
(***************************************************************************)
(* The life of a content-addressed blob: the requests that store one and   *)
(* then record a row that names it, and the requests, janitors and sweeps  *)
(* that delete rows and then the blobs no row names any more.              *)
(*                                                                         *)
(* The SQLite database is one variable per table that holds storage keys.  *)
(* Each statement, or transaction, is one step: the writer pool has a      *)
(* single connection (internal/db/open.go:31).  The blob directory is the  *)
(* set `blobs' of the keys whose file exists; a file appears by a rename   *)
(* and goes by an unlink, so both are one step.  Between two steps of one  *)
(* request any other request may run.  Which releases, runs and entries a  *)
(* sweep picks is policy, left open here.                                  *)
(***************************************************************************)
EXTENDS Naturals, FiniteSets

CONSTANTS
    Key,            \* storage keys: the sha256 of a content
    Process,        \* HTTP handlers, janitor ticks and gc commands
    Release,        \* release ids; SQLite never hands one out twice
    RunFile,        \* names of the files one CI run holds
    CacheEntry,     \* (repo, ref, key) slots of the CI cache
    Site,           \* (project, branch) slots of the sites table
    GoVersion,      \* (module, version) slots of the Go proxy cache
    Ops,            \* the operations this instance exercises
    MaxActive,      \* how many of them may be in progress at once
    EvictBatchSize, \* releases one eviction transaction deletes (25)
    NoKey           \* an empty storage key column, or no row

\* Requests the in-flight counter counts: PUT, POST, PATCH and DELETE.
Counted   == {"upload", "hashref", "runfile", "cache", "site", "unsite", "ocipush", "ocilink"}
\* GET requests that store blobs; the counter does not see them.
Uncounted == {"mirror", "gozip", "package", "digest"}
\* Sweeps that start only when the in-flight counter reads zero.
Gated     == {"retention", "runJanitor", "cacheJanitor", "mirrorJanitor"}
\* `buildhost gc' is another process and reads no counter.
AllOps    == Counted \cup Uncounted \cup Gated \cup {"gc"}

ASSUME NoKeyAssumption == NoKey \notin Key
ASSUME OpsAssumption == Ops \subseteq AllOps
ASSUME BoundsAssumption == MaxActive \in Nat /\ EvictBatchSize \in Nat

VARIABLES
    blobs,      \* keys whose file is in the blob directory
    relRow,     \* releases: "none" (not created yet), "live" or "gone"
    artifact,   \* artifacts.storage_key of a release
    packaged,   \* packaged_artifacts.storage_key of a release's artifact
    runFile,    \* run_files.storage_key
    cache,      \* cache_entries.storage_key
    site,       \* sites.storage_key
    goZip,      \* goproxy_versions.zip_storage_key
    mirror,     \* mirror_blobs rows; their digest is their key
    ociLink,    \* oci_blob_links rows of the project
    pc,         \* the next step of each process
    op,         \* the operation it performs
    key,        \* the content it stores or refers to
    slot,       \* the row it writes or deletes
    victims,    \* the rows a sweep or a branch delete still has to delete
    old,        \* PutRunFile: the key the name held when it was read
    doomed,     \* keys whose row is gone and whose references are unchecked
    freed,      \* keys found unreferenced and not deleted yet
    orphaned,   \* history: keys a failed or refused operation left behind
    raced       \* history: keys a write and a delete held at the same time

tables == <<relRow, artifact, packaged, runFile, cache, site, goZip, mirror, ociLink>>
locals == <<pc, op, key, slot, victims, old, doomed, freed>>
vars   == <<blobs, tables, locals, orphaned, raced>>

KeyOrNone == Key \cup {NoKey}

Labels == {"idle", "owned", "exists", "open", "held", "stored", "put", "rename", "readold",
           "record", "list", "evict", "forget", "check", "delete", "purge"}

(***************************************************************************)
(* Queries                                                                 *)
(***************************************************************************)

Holds(column, k) == \E row \in DOMAIN column : column[row] = k

\* Mutant: the check predates the CI tables.
IsBlobReferencedOld(k) ==
    Holds(artifact, k) \/ Holds(packaged, k) \/ Holds(site, k) \/ k \in ociLink \/ Holds(goZip, k)

\* The global reference check: is the key in ANY table that holds one?
IsBlobReferenced(k) ==
    \/ Holds(artifact, k)
    \/ Holds(packaged, k)
    \/ Holds(site, k)
    \/ k \in ociLink
    \/ Holds(goZip, k)
    \/ Holds(runFile, k)
    \/ Holds(cache, k)
    \/ k \in mirror

BlobBelongsToProject(k) == Holds(artifact, k) \/ Holds(packaged, k) \/ k \in ociLink

\* InflightWrites() > 0.
Busy == \E p \in Process : pc[p] # "idle" /\ op[p] \in Counted

Active == {p \in Process : pc[p] # "idle"}

(***************************************************************************)
(* The windows of a write and of a delete                                  *)
(***************************************************************************)

\* p has found the blob of its key in place and has still to record its row.
Relies(p, k) ==
    /\ key[p] = k
    /\ pc[p] \in {"open", "readold", "record"}

\* Keys some process has found unreferenced and not yet unlinked, while
\* another one relies on their file.
Overlap == {k \in Key : \E p, q \in Process : Relies(p, k) /\ k \in freed[q]}

\* Every step keeps the history of these overlaps.
Observe == raced' = raced \cup Overlap'

(***************************************************************************)
(* Control                                                                 *)
(***************************************************************************)

Goto(p, label) ==
    /\ pc' = [pc EXCEPT ![p] = label]
    /\ UNCHANGED <<op, key, slot, victims, old, doomed, freed>>

\* The handler returns.
Finish(p) ==
    /\ pc' = [pc EXCEPT ![p] = "idle"]
    /\ op' = [op EXCEPT ![p] = "none"]
    /\ key' = [key EXCEPT ![p] = NoKey]
    /\ slot' = [slot EXCEPT ![p] = NoKey]
    /\ victims' = [victims EXCEPT ![p] = {}]
    /\ old' = [old EXCEPT ![p] = NoKey]
    /\ doomed' = [doomed EXCEPT ![p] = {}]
    /\ freed' = [freed EXCEPT ![p] = {}]

\* The rows are written; DeleteBlobIfUnreferenced runs on each key they dropped.
ThenSweep(p, keys) ==
    IF keys \ {NoKey} = {}
    THEN Finish(p)
    ELSE /\ pc' = [pc EXCEPT ![p] = "check"]
         /\ doomed' = [doomed EXCEPT ![p] = keys \ {NoKey}]
         /\ UNCHANGED <<op, key, slot, victims, old, freed>>

Begin(p, o, label, k, s) ==
    /\ pc[p] = "idle"
    /\ o \in Ops
    /\ Cardinality(Active) < MaxActive
    /\ o \in Gated => ~Busy
    /\ pc' = [pc EXCEPT ![p] = label]
    /\ op' = [op EXCEPT ![p] = o]
    /\ key' = [key EXCEPT ![p] = k]
    /\ slot' = [slot EXCEPT ![p] = s]
    /\ UNCHANGED <<blobs, tables, victims, old, doomed, freed, orphaned>>
    /\ Observe

(***************************************************************************)
(* Requests arrive                                                         *)
(***************************************************************************)

BeginUpload(p)  == \E r \in Release, k \in Key :
    relRow[r] = "live" /\ Begin(p, "upload", "put", k, r)
BeginHashRef(p) == \E r \in Release, k \in Key :
    relRow[r] = "live" /\ Begin(p, "hashref", "owned", k, r)
BeginRunFile(p) == \E f \in RunFile, k \in Key : Begin(p, "runfile", "put", k, f)
BeginCache(p)   == \E c \in CacheEntry, k \in Key : Begin(p, "cache", "held", k, c)
BeginSite(p)    == \E s \in Site, k \in Key : Begin(p, "site", "put", k, s)
BeginUnsite(p)  == Begin(p, "unsite", "forget", NoKey, NoKey)
BeginOCIPush(p) == \E k \in Key : Begin(p, "ocipush", "put", k, NoKey)
BeginOCILink(p) == \E k \in Key : Begin(p, "ocilink", "owned", k, NoKey)
BeginMirror(p)  == \E k \in Key : Begin(p, "mirror", "stored", k, NoKey)
BeginGoZip(p)   == \E v \in GoVersion, k \in Key :
    goZip[v] = NoKey /\ Begin(p, "gozip", "put", k, v)
BeginPackage(p) == \E r \in Release, k \in Key :
    artifact[r] # NoKey /\ Begin(p, "package", "put", k, r)
BeginDigest(p)  == \E r \in Release :
    artifact[r] # NoKey /\ Begin(p, "digest", "open", artifact[r], r)
BeginSweep(p)   == \E o \in {"retention", "gc", "runJanitor", "cacheJanitor", "mirrorJanitor"} :
    Begin(p, o, "list", NoKey, NoKey)

BeginRequest(p) ==
    \/ BeginUpload(p)  \/ BeginHashRef(p) \/ BeginRunFile(p) \/ BeginCache(p)
    \/ BeginSite(p)    \/ BeginUnsite(p)  \/ BeginOCIPush(p) \/ BeginOCILink(p)
    \/ BeginMirror(p)  \/ BeginGoZip(p)   \/ BeginPackage(p) \/ BeginDigest(p)

\* A release row appears.
CreateRelease(r) ==
    /\ relRow[r] = "none"
    /\ relRow' = [relRow EXCEPT ![r] = "live"]
    /\ UNCHANGED <<blobs, artifact, packaged, runFile, cache, site, goZip, mirror, ociLink,
                   locals, orphaned>>
    /\ Observe

(***************************************************************************)
(* What a request reads before it stores or records anything               *)
(***************************************************************************)

\* A hash-reference upload, or a pushed manifest's layer, must name a blob the
\* project already has.  Only the upload then looks for the file.
CheckOwned(p) ==
    /\ pc[p] = "owned"
    /\ IF ~BlobBelongsToProject(key[p]) THEN Finish(p)
       ELSE Goto(p, IF op[p] = "hashref" THEN "exists" ELSE "record")
    /\ UNCHANGED <<blobs, tables, orphaned>>
    /\ Observe

\* Store.Exists: a hash reference to a collected blob is a 404; a mirrored
\* blob that is gone has its row dropped and is fetched again.
CheckExists(p) ==
    /\ pc[p] = "exists"
    /\ CASE op[p] = "hashref" /\ key[p] \in blobs -> Goto(p, "open")
         [] op[p] = "mirror" /\ key[p] \notin blobs -> Goto(p, "forget")
         [] OTHER -> Finish(p)
    /\ UNCHANGED <<blobs, tables, orphaned>>
    /\ Observe

\* Store.Get of the blob a hash reference or a cached digest is about.
OpenBlob(p) ==
    /\ pc[p] = "open"
    /\ IF key[p] \in blobs THEN Goto(p, "record") ELSE Finish(p)
    /\ UNCHANGED <<blobs, tables, orphaned>>
    /\ Observe

\* PutCache refuses a key the ref already holds before it reads the body.
CheckCacheHeld(p) ==
    /\ pc[p] = "held"
    /\ IF cache[slot[p]] # NoKey THEN Finish(p) ELSE Goto(p, "put")
    /\ UNCHANGED <<blobs, tables, orphaned>>
    /\ Observe

\* The mirror looks for its row, and fetches from the upstream without one.
CheckStored(p) ==
    /\ pc[p] = "stored"
    /\ Goto(p, IF key[p] \in mirror THEN "exists" ELSE "put")
    /\ UNCHANGED <<blobs, tables, orphaned>>
    /\ Observe

(***************************************************************************)
(* Filesystem.Put                                                          *)
(***************************************************************************)

AfterPut(p) == IF op[p] = "runfile" THEN "readold" ELSE "record"

\* The body is hashed into a temp file.  A file already under the key ends it.
PutStat(p) ==
    /\ pc[p] = "put"
    /\ Goto(p, IF key[p] \in blobs THEN AfterPut(p) ELSE "rename")
    /\ UNCHANGED <<blobs, tables, orphaned>>
    /\ Observe

PutRename(p) ==
    /\ pc[p] = "rename"
    /\ blobs' = blobs \cup {key[p]}
    /\ Goto(p, AfterPut(p))
    /\ UNCHANGED <<tables, orphaned>>
    /\ Observe

(***************************************************************************)
(* A request records its row                                               *)
(***************************************************************************)

\* artifacts: UNIQUE per slot, and a foreign key to the release.
RecordArtifact(p) ==
    /\ pc[p] = "record" /\ op[p] \in {"upload", "hashref"}
    /\ IF relRow[slot[p]] = "live" /\ artifact[slot[p]] = NoKey
       THEN artifact' = [artifact EXCEPT ![slot[p]] = key[p]] /\ UNCHANGED orphaned
       ELSE orphaned' = orphaned \cup {key[p]} /\ UNCHANGED artifact
    /\ Finish(p)
    /\ UNCHANGED <<blobs, relRow, packaged, runFile, cache, site, goZip, mirror, ociLink>>
    /\ Observe

\* packaged_artifacts: INSERT OR REPLACE, with a foreign key to the artifact.
RecordPackaged(p) ==
    /\ pc[p] = "record" /\ op[p] \in {"package", "digest"}
    /\ IF artifact[slot[p]] # NoKey
       THEN /\ packaged' = [packaged EXCEPT ![slot[p]] = key[p]]
            /\ orphaned' = orphaned \cup ({packaged[slot[p]]} \ {NoKey})
       ELSE orphaned' = orphaned \cup {key[p]} /\ UNCHANGED packaged
    /\ Finish(p)
    /\ UNCHANGED <<blobs, relRow, artifact, runFile, cache, site, goZip, mirror, ociLink>>
    /\ Observe

\* PutRunFile reads the name's key, then upserts it: two statements.
ReadOldRunFile(p) ==
    /\ pc[p] = "readold"
    /\ pc' = [pc EXCEPT ![p] = "record"]
    /\ old' = [old EXCEPT ![p] = runFile[slot[p]]]
    /\ UNCHANGED <<blobs, tables, op, key, slot, victims, doomed, freed, orphaned>>
    /\ Observe

RecordRunFile(p) ==
    /\ pc[p] = "record" /\ op[p] = "runfile"
    /\ runFile' = [runFile EXCEPT ![slot[p]] = key[p]]
    /\ ThenSweep(p, {old[p]} \ {key[p]})
    /\ UNCHANGED <<blobs, relRow, artifact, packaged, cache, site, goZip, mirror, ociLink,
                   orphaned>>
    /\ Observe

\* cache_entries: ON CONFLICT DO NOTHING; the loser deletes its own blob.
RecordCache(p) ==
    /\ pc[p] = "record" /\ op[p] = "cache"
    /\ IF cache[slot[p]] = NoKey
       THEN cache' = [cache EXCEPT ![slot[p]] = key[p]] /\ Finish(p)
       ELSE ThenSweep(p, {key[p]}) /\ UNCHANGED cache
    /\ UNCHANGED <<blobs, relRow, artifact, packaged, runFile, site, goZip, mirror, ociLink,
                   orphaned>>
    /\ Observe

\* Mutant: the key the upload replaced is forgotten.
RecordSiteOnly(p) ==
    /\ pc[p] = "record" /\ op[p] = "site"
    /\ site' = [site EXCEPT ![slot[p]] = key[p]]
    /\ Finish(p)
    /\ UNCHANGED <<blobs, relRow, artifact, packaged, runFile, cache, goZip, mirror, ociLink,
                   orphaned>>
    /\ Observe

\* UpsertSite reads the branch's key and replaces it in one transaction.
RecordSite(p) ==
    /\ pc[p] = "record" /\ op[p] = "site"
    /\ site' = [site EXCEPT ![slot[p]] = key[p]]
    /\ ThenSweep(p, {site[slot[p]]} \ {key[p]})
    /\ UNCHANGED <<blobs, relRow, artifact, packaged, runFile, cache, goZip, mirror, ociLink,
                   orphaned>>
    /\ Observe

RecordOCILink(p) ==
    /\ pc[p] = "record" /\ op[p] \in {"ocipush", "ocilink"}
    /\ ociLink' = ociLink \cup {key[p]}
    /\ Finish(p)
    /\ UNCHANGED <<blobs, relRow, artifact, packaged, runFile, cache, site, goZip, mirror,
                   orphaned>>
    /\ Observe

RecordMirror(p) ==
    /\ pc[p] = "record" /\ op[p] = "mirror"
    /\ mirror' = mirror \cup {key[p]}
    /\ Finish(p)
    /\ UNCHANGED <<blobs, relRow, artifact, packaged, runFile, cache, site, goZip, ociLink,
                   orphaned>>
    /\ Observe

\* UpsertGoproxyVersion replaces the zip key and frees nothing.
RecordGoZip(p) ==
    /\ pc[p] = "record" /\ op[p] = "gozip"
    /\ goZip' = [goZip EXCEPT ![slot[p]] = key[p]]
    /\ orphaned' = orphaned \cup ({goZip[slot[p]]} \ {NoKey})
    /\ Finish(p)
    /\ UNCHANGED <<blobs, relRow, artifact, packaged, runFile, cache, site, mirror, ociLink>>
    /\ Observe

(***************************************************************************)
(* Rows are deleted                                                        *)
(***************************************************************************)

\* A site delete takes one branch; a branch-delete webhook takes the branch of
\* every project of the repository, in one transaction.
ForgetSites(p) ==
    /\ pc[p] = "forget" /\ op[p] = "unsite"
    /\ \E S \in SUBSET Site :
         /\ site' = [s \in Site |-> IF s \in S THEN NoKey ELSE site[s]]
         /\ ThenSweep(p, {site[s] : s \in S})
    /\ UNCHANGED <<blobs, relRow, artifact, packaged, runFile, cache, goZip, mirror, ociLink,
                   orphaned>>
    /\ Observe

\* A mirror pull that found a row without its file drops the row.
ForgetMissingMirror(p) ==
    /\ pc[p] = "forget" /\ op[p] = "mirror"
    /\ mirror' = mirror \ {key[p]}
    /\ Goto(p, "put")
    /\ UNCHANGED <<blobs, relRow, artifact, packaged, runFile, cache, site, goZip, ociLink,
                   orphaned>>
    /\ Observe

\* A janitor lists what it will delete; writes may change the rows it listed
\* before it gets to them.  DeleteRun lists the files of one run.
ListForJanitor(p) ==
    /\ pc[p] = "list"
    /\ \/ /\ op[p] = "runJanitor"
          /\ doomed' = [doomed EXCEPT ![p] = {k \in Key : Holds(runFile, k)}]
          /\ UNCHANGED victims
       \/ /\ op[p] = "cacheJanitor"
          /\ \E V \in SUBSET {v \in CacheEntry \X Key : cache[v[1]] = v[2]} :
               V # {} /\ victims' = [victims EXCEPT ![p] = V]
          /\ UNCHANGED doomed
       \/ /\ op[p] = "mirrorJanitor"
          /\ \E V \in SUBSET mirror : V # {} /\ victims' = [victims EXCEPT ![p] = V]
          /\ UNCHANGED doomed
    /\ pc' = [pc EXCEPT ![p] = "forget"]
    /\ UNCHANGED <<blobs, tables, op, key, slot, old, freed, orphaned>>
    /\ Observe

\* DeleteRun deletes every file the run holds by now, not only the listed ones.
ForgetRun(p) ==
    /\ pc[p] = "forget" /\ op[p] = "runJanitor"
    /\ runFile' = [f \in RunFile |-> NoKey]
    /\ ThenSweep(p, doomed[p])
    /\ UNCHANGED <<blobs, relRow, artifact, packaged, cache, site, goZip, mirror, ociLink,
                   orphaned>>
    /\ Observe

\* The next listed row goes, and its listed key is checked.
ForgetVictim(p, v, k) ==
    /\ pc[p] = "forget" /\ v \in victims[p]
    /\ pc' = [pc EXCEPT ![p] = "check"]
    /\ victims' = [victims EXCEPT ![p] = @ \ {v}]
    /\ doomed' = [doomed EXCEPT ![p] = {k}]
    /\ UNCHANGED <<op, key, slot, old, freed>>

ForgetCacheEntry(p) ==
    /\ op[p] = "cacheJanitor"
    /\ \E c \in CacheEntry, k \in Key :
         /\ ForgetVictim(p, <<c, k>>, k)
         /\ cache' = [cache EXCEPT ![c] = NoKey]
    /\ UNCHANGED <<blobs, relRow, artifact, packaged, runFile, site, goZip, mirror, ociLink,
                   orphaned>>
    /\ Observe

ForgetMirrorBlob(p) ==
    /\ op[p] = "mirrorJanitor"
    /\ \E k \in Key :
         /\ ForgetVictim(p, k, k)
         /\ mirror' = mirror \ {k}
    /\ UNCHANGED <<blobs, relRow, artifact, packaged, runFile, cache, site, goZip, ociLink,
                   orphaned>>
    /\ Observe

\* Retention picks its releases (ListAbandonedReleases, ListEvictableReleases).
ListForEviction(p) ==
    /\ pc[p] = "list" /\ op[p] \in {"retention", "gc"}
    /\ \E V \in SUBSET {r \in Release : relRow[r] = "live"} :
         /\ V # {}
         /\ victims' = [victims EXCEPT ![p] = V]
    /\ pc' = [pc EXCEPT ![p] = "evict"]
    /\ UNCHANGED <<blobs, tables, op, key, slot, old, doomed, freed, orphaned>>
    /\ Observe

\* Mutant: every candidate key is freed, shared or not.
EvictBatchUnchecked(p) ==
    /\ pc[p] = "evict"
    /\ \E B \in SUBSET victims[p] :
         /\ B # {} /\ Cardinality(B) <= EvictBatchSize
         /\ relRow' = [r \in Release |-> IF r \in B THEN "gone" ELSE relRow[r]]
         /\ artifact' = [r \in Release |-> IF r \in B THEN NoKey ELSE artifact[r]]
         /\ packaged' = [r \in Release |-> IF r \in B THEN NoKey ELSE packaged[r]]
         /\ UNCHANGED <<blobs, runFile, cache, site, goZip, mirror, ociLink>>
         /\ freed' = [freed EXCEPT ![p] =
                @ \cup {k \in Key : \E r \in B : artifact[r] = k \/ packaged[r] = k}]
         /\ victims' = [victims EXCEPT ![p] = @ \ B]
         /\ pc' = [pc EXCEPT ![p] = IF victims[p] = B THEN "purge" ELSE "evict"]
    /\ UNCHANGED <<op, key, slot, old, doomed, orphaned>>
    /\ Observe

\* evictBatch: one transaction collects the batch's keys, deletes its rows, and
\* keeps the keys no surviving row references.
EvictBatch(p) ==
    /\ pc[p] = "evict"
    /\ \E B \in SUBSET victims[p] :
         /\ B # {} /\ Cardinality(B) <= EvictBatchSize
         /\ relRow' = [r \in Release |-> IF r \in B THEN "gone" ELSE relRow[r]]
         /\ artifact' = [r \in Release |-> IF r \in B THEN NoKey ELSE artifact[r]]
         /\ packaged' = [r \in Release |-> IF r \in B THEN NoKey ELSE packaged[r]]
         /\ UNCHANGED <<blobs, runFile, cache, site, goZip, mirror, ociLink>>
         /\ LET candidates == {k \in Key : \E r \in B : artifact[r] = k \/ packaged[r] = k}
            IN  freed' = [freed EXCEPT ![p] = @ \cup {k \in candidates : ~IsBlobReferenced(k)'}]
         /\ victims' = [victims EXCEPT ![p] = @ \ B]
         /\ pc' = [pc EXCEPT ![p] = IF victims[p] = B THEN "purge" ELSE "evict"]
    /\ UNCHANGED <<op, key, slot, old, doomed, orphaned>>
    /\ Observe

\* A batch that fails is rolled back; the earlier ones keep what they freed.
EvictFails(p) ==
    /\ pc[p] = "evict"
    /\ pc' = [pc EXCEPT ![p] = "purge"]
    /\ victims' = [victims EXCEPT ![p] = {}]
    /\ UNCHANGED <<blobs, tables, op, key, slot, old, doomed, freed, orphaned>>
    /\ Observe

(***************************************************************************)
(* Blobs are deleted                                                       *)
(***************************************************************************)

\* DeleteBlobIfUnreferenced, first half: the reference check, in a query of
\* its own.
CheckReferences(p) ==
    /\ pc[p] = "check"
    /\ \E k \in doomed[p] :
         /\ doomed' = [doomed EXCEPT ![p] = @ \ {k}]
         /\ freed' = [freed EXCEPT ![p] = IF IsBlobReferenced(k) THEN {} ELSE {k}]
         /\ pc' = [pc EXCEPT ![p] = "delete"]
    /\ UNCHANGED <<blobs, tables, op, key, slot, victims, old, orphaned>>
    /\ Observe

\* Second half: the unlink of the key that had no reference.
DeleteBlob(p) ==
    /\ pc[p] = "delete"
    /\ blobs' = blobs \ freed[p]
    /\ IF doomed[p] = {} /\ victims[p] = {}
       THEN Finish(p)
       ELSE /\ pc' = [pc EXCEPT ![p] = IF doomed[p] = {} THEN "forget" ELSE "check"]
            /\ freed' = [freed EXCEPT ![p] = {}]
            /\ UNCHANGED <<op, key, slot, victims, old, doomed>>
    /\ UNCHANGED <<tables, orphaned>>
    /\ Observe

\* Retention unlinks the keys its transactions freed, one by one, with no
\* second check.
PurgeFreed(p) ==
    /\ pc[p] = "purge"
    /\ IF freed[p] = {}
       THEN Finish(p) /\ UNCHANGED blobs
       ELSE \E k \in freed[p] :
              /\ blobs' = blobs \ {k}
              /\ freed' = [freed EXCEPT ![p] = @ \ {k}]
              /\ UNCHANGED <<pc, op, key, slot, victims, old, doomed>>
    /\ UNCHANGED <<tables, orphaned>>
    /\ Observe

(***************************************************************************)
(* A request fails part way (an I/O or database error, a client that goes  *)
(* away, a killed server): what it already wrote stays.                    *)
(***************************************************************************)
Abort(p) ==
    /\ pc[p] # "idle"
    /\ orphaned' = orphaned \cup ({key[p], old[p]} \ {NoKey}) \cup doomed[p] \cup freed[p]
    /\ Finish(p)
    /\ UNCHANGED <<blobs, tables>>
    /\ Observe

Init ==
    /\ blobs = {} /\ mirror = {} /\ ociLink = {} /\ orphaned = {} /\ raced = {}
    /\ relRow = [r \in Release |-> "none"]
    /\ artifact = [r \in Release |-> NoKey]
    /\ packaged = [r \in Release |-> NoKey]
    /\ runFile = [f \in RunFile |-> NoKey]
    /\ cache = [c \in CacheEntry |-> NoKey]
    /\ site = [s \in Site |-> NoKey]
    /\ goZip = [v \in GoVersion |-> NoKey]
    /\ pc = [p \in Process |-> "idle"]
    /\ op = [p \in Process |-> "none"]
    /\ key = [p \in Process |-> NoKey]
    /\ slot = [p \in Process |-> NoKey]
    /\ victims = [p \in Process |-> {}]
    /\ old = [p \in Process |-> NoKey]
    /\ doomed = [p \in Process |-> {}]
    /\ freed = [p \in Process |-> {}]

Reads(p) ==
    \/ CheckOwned(p) \/ CheckExists(p) \/ OpenBlob(p) \/ CheckCacheHeld(p) \/ CheckStored(p)
Puts(p) == PutStat(p) \/ PutRename(p)
Records(p) ==
    \/ RecordArtifact(p) \/ RecordPackaged(p) \/ ReadOldRunFile(p) \/ RecordRunFile(p)
    \/ RecordCache(p) \/ RecordSite(p) \/ RecordOCILink(p) \/ RecordMirror(p) \/ RecordGoZip(p)
Forgets(p) ==
    \/ ForgetSites(p) \/ ForgetMissingMirror(p) \/ ListForJanitor(p) \/ ForgetRun(p)
    \/ ForgetCacheEntry(p) \/ ForgetMirrorBlob(p) \/ ListForEviction(p) \/ EvictBatch(p)
    \/ EvictFails(p)
Deletes(p) == CheckReferences(p) \/ DeleteBlob(p) \/ PurgeFreed(p)

Next ==
    \/ \E r \in Release : CreateRelease(r)
    \/ \E p \in Process :
         BeginRequest(p) \/ BeginSweep(p) \/ Reads(p) \/ Puts(p) \/ Records(p) \/ Forgets(p)
         \/ Deletes(p) \/ Abort(p)

Spec == Init /\ [][Next]_vars

(***************************************************************************)
(* Properties                                                              *)
(***************************************************************************)

StorageTypeOK ==
    /\ blobs \subseteq Key /\ mirror \subseteq Key /\ ociLink \subseteq Key
    /\ orphaned \subseteq Key /\ raced \subseteq Key
    /\ relRow \in [Release -> {"none", "live", "gone"}]
    /\ artifact \in [Release -> KeyOrNone]
    /\ packaged \in [Release -> KeyOrNone]
    /\ runFile \in [RunFile -> KeyOrNone]
    /\ cache \in [CacheEntry -> KeyOrNone]
    /\ site \in [Site -> KeyOrNone]
    /\ goZip \in [GoVersion -> KeyOrNone]

ProcessTypeOK ==
    /\ pc \in [Process -> Labels]
    /\ op \in [Process -> AllOps \cup {"none"}]
    /\ key \in [Process -> KeyOrNone]
    /\ old \in [Process -> KeyOrNone]
    /\ slot \in [Process -> Release \cup RunFile \cup CacheEntry \cup Site \cup GoVersion \cup {NoKey}]
    /\ victims \in [Process -> SUBSET (Release \cup Key \cup (CacheEntry \X Key))]
    /\ doomed \in [Process -> SUBSET Key]
    /\ freed \in [Process -> SUBSET Key]

\* Every variable has its type: no empty storage key is ever stored as a blob,
\* checked for references or unlinked.
TypeOK == StorageTypeOK /\ ProcessTypeOK

\* The keys the rows of all tables name.
Named == {k \in Key : \/ Holds(artifact, k) \/ Holds(packaged, k) \/ Holds(site, k)
                      \/ Holds(goZip, k) \/ Holds(runFile, k) \/ Holds(cache, k)}
         \cup ociLink \cup mirror

\* A row never names a blob that is gone: whatever a table references can be
\* served.  Holds when no two operations overlap (MaxActive = 1), whatever
\* step a crash or an error interrupts; an empty key is never taken for one
\* (TypeOK).
RowsHaveBlobs == TypeOK /\ Named \subseteq blobs

\* However many operations interleave, a row that names a blob that is gone
\* got there one way only: at some moment one operation had checked that
\* nothing references the key and had not unlinked it yet, and another one had
\* found the file in place and had not recorded its row yet.
LostOnlyByOverlap == Named \subseteq blobs \cup raced

\* When everything is at rest, a file no row references was left by an
\* operation that failed, was refused after it stored its body, or replaced a
\* key without freeing it.  Nothing else leaks while operations do not overlap.
GarbageIsExplained ==
    Active = {} => blobs \subseteq Named \cup orphaned
=============================================================================
