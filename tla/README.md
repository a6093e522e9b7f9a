# buildhost in TLA+

buildhost is a self-hosted package registry: a CI job uploads a release artifact once, and
the server hands it out in many packaging formats. This directory holds TLA+ models of the
parts of it in which steps of several actors meet, the TLC configurations that check them on
small instances, and TLAPS proofs for every size. Paths below are relative to the repository
(`src/` in `PROJECT.json`).

Run TLC with `tlc -workers 2 -config <run>.cfg <module>` (the runs and their modules are
listed below) and the proofs with `tlapm <module>.tla` for `BlobLifecycleProofs`,
`RunFilesProofs`, `RunLocksProofs`, `UploadSessionsProofs`, `PublishingProofs`,
`RegistriesProofs`, `RepositoriesProofs` and `ReleasesProofs`.

## 1. The system

One Go process serves HTTP, keeps its state in a SQLite database and a directory of
content-addressed blobs, and runs background sweeps. A second process, `buildhost gc`, may
work on the same database and directory.

| Component | State it keeps | Operations |
|---|---|---|
| Blob storage (`internal/storage`) | files named by the sha256 of their content, temp files | Put, Get, Exists, Delete, SweepTemp |
| Blob references and garbage collection (`internal/retention/sweep.go`, `internal/db/retention.go`) | the storage keys in eight tables | IsBlobReferenced, DeleteBlobIfUnreferenced, evictBatch and the unlinks after it |
| In-flight gate (`internal/admin/inflight.go`) | a counter of PUT, POST, PATCH and DELETE requests | TrackInflight, InflightWrites |
| Releases (`internal/api/releases.go`, `publish.go`, `internal/db/releases.go`) | releases: version, number, branch, published, draft | create (number picked or given), publish, latest, branch tip |
| Artifacts (`internal/api/artifacts.go`) | artifacts, artifact_platforms, packaged_artifacts | upload a body, refer to a stored hash, repackage |
| Retention (`internal/retention`) | settings; nothing else of its own | keep-N and abandoned-upload sweep, deleted-branch pass, dry run |
| Chunked uploads (`internal/uploads`) | session table in memory, spool files | create, append, status, finalize by reference, abort, sweep |
| Publish and upload clients (`cmd/buildhost`, `internal/uploadclient`, `internal/ociclient`) | offset of the next chunk, session | create, chunked send with resume, publish |
| OCI registry (`internal/oci`) | oci_blob_links, oci_manifests, oci_tags, upload files | blob push, manifest push, tag, pull, delete |
| Run files, run locks (`internal/runfiles`, `internal/db/run_files.go`, `run_locks.go`) | run_storage_runs, run_files, run_locks | put, get, list, delete a run, janitor; claim a lock |
| CI cache (`internal/cicache`, `internal/db/cache_entries.go`) | cache_entries | save, restore by key and prefix, scope rules, janitor |
| Sites (`internal/sites`) | sites | deploy, replace, delete, convert old archives |
| Registry mirror (`internal/mirror`) | mirror_blobs, tag cache in memory | pull through, self-repair, janitor |
| Go module proxy (`internal/goproxy`) | goproxy_versions | resolve, build a zip, cache it |
| Format front ends (`internal/brew`, `apt`, `npm`, `repackage`) | packaged_artifacts, caches in memory | render indexes, build packages on a GET |
| Downloads (`internal/dl`, `internal/static`) | download_counts, download_events | resolve latest, branch, exact version; serve; count |
| Homebrew tap (`internal/brew/tap*.go`) | lineages: objects, refs and tip on disk, entries in memory | refresh in the background, serve packs and files, evict |
| Projects (`internal/db/projects.go`, `merge.go`) | projects, aliases, dependencies, pinned repository ids | ensure, adopt, rename, depend, merge |
| Visibility (`internal/db/visibility.go`, `internal/admin/visibility.go`) | overrides of projects and folders, `is_private` | sync from GitHub, set a mode, set a folder rule |
| Authentication (`internal/auth`) | GitHub answers and App tokens cached, session cookies, parked handoffs | authenticate, look up, sign in across two domains |
| Admin, web pages, telemetry, secrets | sessions, caches | read-only pages, retention buttons |

How they interact:

* Every feature that keeps bytes goes through `storage.Put`, which answers success at once
  when the file exists, and then records a row with the key. Nothing ties the two together.
* Every feature that drops a row asks `IsBlobReferenced` and then unlinks. The check and the
  unlink are two steps, and eviction unlinks after its transaction has committed.
* The sweeps read the in-flight counter once, when they start. GET requests that store blobs
  are not counted; `buildhost gc` reads no counter.
* A release is created, filled and published by separate requests. Retention lists releases
  in two queries and deletes them later, in batches.
* An upload request may name a chunked session instead of sending a body; the middleware
  replaces the body by the session's spool and removes the session after a 2xx.

What is hard here, and hard to test: the windows between these steps (who runs in them), an
operation that stops half way, lists that are stale when they are used, clients that send a
request twice, locks held while a body arrives, and number lines shared by several projects.
`PROJECT.json` lists each such place under `hazards`, with the properties that cover it.

What makes the parts correct:

* storage: a row never names a missing blob; a blob nothing names is either removed or was
  left by an operation that stopped;
* releases: `latest` never moves back, a branch's newest build stays, drafts stay, numbers
  are unique in a family, an exact version always means the same build;
* uploads: a spool is a prefix of the file whatever arrives, the bytes that were hashed are
  the ones that are used, a session is used at most once, no spool leaks, every request ends;
* run files: the files of a run stay while its jobs use them and go once it is over, and the
  janitor finds every file there is;
* run locks: one claim writes, all are told what it wrote; the CI cache: a job gets the entry it
  found, and what was just used is not evicted;
* projects: a name once good keeps leading to its builds, a pinned project never changes
  hands, a merge loses nothing; visibility: what readers check is what the overrides say;
* clients: a publish that reports success shipped every file, and every client ends;
* caches in front of others (mirror tags, GitHub answers, Go versions, npm manifests, the tap):
  never older than they may be, never wrong for good, and of use when the origin is away.

## 2. The modules

### BlobLifecycle

The life of a blob across all features. State: `blobs`, the keys whose file exists; one
variable per table that names keys (`artifact`, `packaged`, `runFile`, `cache`, `site`,
`goZip`, `mirror`, `ociLink`); and for each process its program counter and locals. One step
is one SQL statement or transaction (the writer pool has one connection,
`internal/db/open.go:31`), one rename or one unlink.

| Actions | Code |
|---|---|
| `BeginUpload`, `BeginHashRef`, `CheckOwned`, `CheckExists`, `OpenBlob`, `RecordArtifact` | `UploadArtifact`, `storeUpload`, `resolveHashRef`, `createArtifacts` |
| `PutStat`, `PutRename` | `Filesystem.Put`: the file exists, or a temp file is renamed |
| `BeginRunFile`, `ReadOldRunFile`, `RecordRunFile` | `PutRunFile`, and the sweep of the key it replaced |
| `BeginCache`, `CheckCacheHeld`, `RecordCache` | `PutCache` |
| `BeginSite`, `RecordSite`, `BeginUnsite`, `ForgetSites` | site deploys, and deletes by site or by branch |
| `BeginOCIPush`, `BeginOCILink`, `RecordOCILink` | blob uploads, mounts and manifests |
| `BeginMirror`, `CheckStored`, `ForgetMissingMirror`, `RecordMirror` | mirror pulls and their self-repair |
| `BeginGoZip`, `RecordGoZip`, `BeginPackage`, `BeginDigest`, `RecordPackaged` | GET requests that store blobs |
| `BeginSweep`, `ListForJanitor`, `ForgetRun`, `ForgetCacheEntry`, `ForgetMirrorBlob` | the three janitors |
| `ListForEviction`, `EvictBatch`, `EvictFails`, `PurgeFreed` | retention and `gc` |
| `CheckReferences`, `DeleteBlob` | `DeleteBlobIfUnreferenced` |
| `Abort` | an error, a cancelled request or a killed server at any step |

Which rows a sweep picks is left open: any choice of the policy is a choice of the model.
`raced` and `orphaned` are history variables; no action reads them. `MaxActive` bounds how
many operations are in progress; with 1 they do not overlap.

### UploadSessions

Chunked upload sessions at the level of the two mutexes (`Store.mu`, `Session.mu`). A critical
section that cannot block is one step. Two can block and are several: an append reads its
body under the session's mutex, and a sweep waits for sessions' mutexes under the table's.
The file is the sequence 1, 2, ..., `FileSize`; an append carries the bytes that follow its
offset, may be cut short, may be late or repeated, and may run past the end of the file or the
cap. `GetForAppend`, `BeginAppend`, `CopyByte`, `EndAppend` are `handleAppend` and
`Store.Append`; `GetForFinalize`, `BeginFinalize`, `HashSpool`, `RunEndpoint`, `EndFinalize`
are `ResolveSessionBody`; `BeginSweep` ... `SweepUnlock` are `SweepExpired`, called by the
janitor and by each create; `RemoveUnmap`, `RemoveUnlink` are `Store.Remove`; `Restart` is a
new process, which empties the spool directory (`NewStore`). `GET` of a session changes
nothing and is left out.

### Releases

The releases of the auto-versioned projects of one family, `repo` and `repo/<binary>`.
`rows` holds every row ever inserted (SQLite ids only grow) and `live` the ids that still
exist; `published`, `draft`, `old` (created before the cutoff) are sets of ids. A release of
an auto project has its number as its version, so one field stands for both.

| Actions | Code |
|---|---|
| `BeginCreate`, `Insert`, `Repick` | `CreateRelease` and its retry after a conflict |
| `BeginPush`, `BeginRetag`, `DockerArtifact`, `DockerPublish`, `SetTag` | `PutManifest` by tag, `createDockerRelease` |
| `BeginUpload`, `RecordArtifact` | the release check and the insert of both upload endpoints |
| `BeginPublish`, `ListArtifacts`, `PublishRelease` | `PublishRelease` |
| `BeginDownload`, `RecordDownload` | `static` serving an exact version, then its download event |
| `BeginSweep`, `ListEvictable`, `EvictBatch` | `Retention.run`, `db.EvictReleases` |
| `BeginDeletedBranches`, `AskGitHub` | `Retention.deletedBranches`; no answer keeps the branch |
| `Age`, `DropBranch`, `PushBranch` | time; branches at GitHub |
| `Fail` | a statement fails or the client goes away |

The cutoff is computed once per run, so `cutoff` keeps the value of `old` at that moment.

### RunFiles

The run and file rows of run files, the clock, what GitHub says of each run, and the janitor.
`row` is `run_storage_runs` (a run without a row is `NoRun`), `files` the names `run_files`
holds for each run; the blobs behind them are in `BlobLifecycle`. The locals of a pass are
`jnow` (the time it started), `toCheck`, `asked`, `unknown`, `due`, `pressed` and `deleting`.

| Actions | Code |
|---|---|
| `BeginPut`, `RecordFile` | `PutRunFile`: the run is touched, the body stored, the file recorded |
| `BeginGet`, `TouchGet` | `GetRunFile`: the file is found, then the run touched |
| `Fail` | a body that breaks off, a statement that fails |
| `BeginSweep`, `RunsToCheck` | `Janitor.Start` with no write in flight; `ListRunsToCheck` |
| `AskGitHub`, `MarkRunChecked` | `checkRuns`: GitHub's answer, and its later storing |
| `ListRuns` | `sweep`: the list, with the rules `Expired`, `Unused`, `Lost` |
| `DeleteFiles`, `DeleteRunRow`, `DeleteFails`, `EndSweep` | `relievePressure`, `deleteRun`, `DB.DeleteRun` |
| `Tick`, `Complete`, `ReRun` | time; a run completes or is re-run at GitHub |

Which ended run goes first under disk pressure is left open, and so is whether disk is low. The
read counters are left out. `reported`, `overtaken` and `raced` are histories no guard reads:
the runs GitHub reported complete since their last use; the runs used after the janitor had
asked about or listed them; the runs a put was writing to while the janitor had them listed.

### Inventory

The storage inventory of the dashboard and the bytes a retention plan frees
(`internal/retention/inventory.go`, `internal/db/inventory.go`). It changes nothing, so it is a
set of operators over the tables of `BlobLifecycle`, for any set of releases the policy dooms:
`ListFiles` is what the listing shows, `PlanFreed` what a dry run reports. The reasons it gives
for keeping a release depend on the policy and are in `Releases` (`HoldsMatchPlan`).

### BlobFiles

The blob directory below `BlobLifecycle`: temp files, compression and renames. A put creates a
temp file (`CreateTemp`), copies (`CopyBlock`), looks for the blob (`StatBlob`), compresses into
a second temp file (`PackBlock`) and renames (`RenameBlob`); `DeleteBlob`, `SweepTemp`, a kill of
the server and time interleave with it.

### PublishClient

`buildhost publish` against the server: the jobs of a CI run create one version, each upload the
files of their manifest (by hash, directly, or through a chunked session) and publish it.
`SendChunk`, `AskSize` and `FinalizeUpload` are the resuming loop of `internal/uploadclient`
with its retries; a request may be cut short, its answer lost, and a chunk
may arrive after its sender gave it up (`DeliverOverdue`). `LoseSessions` is expiry or a
restart. The server's side of a session is what `UploadSessions` promises, a prefix of the file.

### OCIUpload and OCIImages

`OCIUpload` composes the chunked push of `internal/ociclient` with the registry's upload store
(`internal/oci/upload.go`, `push.go`): `HeadBlob`, `StartSession`, `NextChunk`, `AskStatus`,
`ReadReply` are the client; each request in a slot is served in the steps of its handler
(`FindSession`, `PatchBlobUpload`, `PutBody`, `Finalize`, `LinkBlob`, ...), so that one which was
given up on can still take effect. Idle sessions are swept and restarts drop all.

`OCIImages` is what a push leaves: `PutManifest` and the statements after it (`ReferencedBlob`,
`SameTag`, `ReleaseForDigest`, `CreateDockerRelease`, `CreateDockerArtifact`, `PublishImage`,
`SetOCITag`), images synthesized from binaries on a pull, and retention of untagged releases.

### SiteUploads and SiteURLs

`SiteUploads`: the two goroutines of `storeTar` around their pipe (`Block` is one write met by
one read), the row, deletes, and `ConvertTarSites` at startup beside publishes. `SiteURLs`: how
a URL under each of four schemes resolves, by longest match, to a project, a branch and a file,
and what `canonicalURLFor` and `apexURLFor` redirect it to; the tables change by publishes,
deletes and new projects, and the property quantifies over every URL up to `PathLength`. A
segment is a number, negative behind the sigil `@`; `Sigil` puts a ref there or takes it off.

### Mirror and GoProxy

`Mirror` follows one tag of an upstream registry: pulls by tag and by digest, statement by
statement, the janitor, retags and outages upstream. `GoProxy` follows a module's versions: each
request serves from a row, joins a flight or leads one (`Join`, `Recheck`, `Resolve`, `Build`,
`Put`, `Close`, `Delete`, `Wake`), for the three endpoints and `@latest`, while tags are
created, moved and deleted and sources fail.

### RunLocks and WriteOnce

`RunLocks` is a claim as its three statements (`ExpireLocks`, `InsertLock`, `ReadBack`) beside
reads, failures and time. `WriteOnce` is what a lock promises, with one action for a write, one
for an answer and one for forgetting. `LockIsWriteOnce` is the refinement, through
`Register == INSTANCE WriteOnce WITH held <- lkVal, ...`. The history variables
`lkLife` and `lkWinner` give the abstract state its values; no guard reads them.

### CICache, Projects

`CICache`: saves (`BeginSave` checks, `EndSave` inserts unless the key is held), restores by key
or prefix in the caller's scopes (`Find`, `Get`), and the janitor's two rules over a list it
read earlier. `Projects`: one request is its chain of statements, from the move of a
repository's projects to the token's name (`ListProjects`, `ProbeName`, `RenameProject`),
resolution and provisioning, and the identity guard, to the write itself, a dependency
(`CheckDepends`, `StoreDepends`) or a merge (`PlanMerge`, `RecheckMerge`, `ApplyMerge`).
Repositories are renamed, and replaced by others under their old name, at any moment.
Three histories no guard reads: `contested`, the projects whose pin was replaced by a request
that had read them unpinned; `shadowed`, the names taken over while they led to another project;
`loose`, the projects a loop of dependencies may pass through.

### Visibility, GitHubLookups, SignIn

`Visibility`: overrides, folder rules and syncs as separate statements, and `is_private`, the
value readers check. `GitHubLookups`: the four caches of GitHub's answers, each with its own
locking and times; a behaviour follows one (`kind`). `SignIn`: tabs of one browser through the
OAuth round trip and the handoff to the site domain, with revoked tokens, sign-outs and restarts.

### NpmManifests, BrewTap

`NpmManifests`: a packument's cache misses filled by workers within a time budget, 503 and
retry. `misread` is a history of blobs whose read failed half way. `BrewTap`: the tap's lineage
on disk, refreshed in the background while clones fetch packs or files, with evictions,
failing refreshes and crashes between any two file writes.

### MC modules

The parts of one `MC` module share no state. A behaviour runs one of them, named by `part`, and
the others stay at a fixed initial state, so a run costs the sum of their state spaces. A
property over a part that does not run holds at its initial state. `RedirectsKeepTheFile` is
costly to evaluate, so the run checks it as `ChangesKeepRedirects`, of the tables each step that
changes them starts from; every table has such a step. Deadlock is not checked in those runs,
nor does it mean anything there: clients and bounded clocks may all be done.

## 3. The runs

`expect: pass`:

| Run | Instance | What it shows |
|---|---|---|
| BlobSerial | every operation but the cache's and the Go proxy's (which BlobConcurrent and the proofs have), one at a time, interrupted anywhere; two releases, two contents, batches of one | `RowsHaveBlobs`: no row names a missing blob, and no empty key is taken for one. `GarbageIsExplained`: a file nothing names was left by an operation that failed, was refused after storing its body, or replaced a key without freeing it. `InventoryIsExact`: for every set of doomed releases, the inventory calls reclaimable exactly what eviction gives back. `BatchesFreeThePlan`: batches that commit one by one free what the one-transaction dry run said |
| BlobConcurrent | every operation, two at a time, one content | `LostOnlyByOverlap`: a row loses its blob only if, at some moment, one operation had found the key unreferenced and not yet unlinked it, and another had found the file in place and not yet recorded its row |
| UploadSafety | sessions: three handlers, file of 2 bytes, cap 3. Registry: a push of 3 units in chunks of 2, two sessions, two requests under way. Publish: three jobs, one a draft, files of 3 bytes in chunks of 2 | `SpoolIsPrefix`, `SessionIsPrefix`, `VerifiedIsFile`, `NoSpoolLeak`, `FinalizesWhole`; `SuccessIsShipped`: a publish that reports success left the version published with every file under its platform |
| UploadLiveness | three handlers, file of 1 byte | `HandlersFinish`: every request, create and sweep ends |
| Progress | one push, two publishing jobs, two site uploads, two tabs, two npm clients over three artifacts and two tarballs | `UploadsEnd`, `VisitsEnd`, `NpmConverges` under fairness; `SitesAreLastPublished`: neither a failed body nor a conversion replaces what was published |
| ReleasesNumbers | one request at a time, two projects of a family, given and picked numbers, docker pushes, evictions; two mirror pulls of a tag over two digests | `FamilyNumbersUnique`; `HoldsMatchPlan`: the inventory (Go) and the sweep (SQL) agree which releases stay; `TagsAreRecent`: a tag answered from the cache was named by the upstream no longer ago than the cache time; `OutageServesHeld`: in an outage a pull of what is held succeeds |
| ReleasesRetention | two processes, two branches, two releases, keep_n = 0, batches of one, drafts, docker pushes, deleted branches, downloads, failing statements | `LatestNeverRegresses`, `OwnersBuildsAreKept`, and `TypeOK`: the foreign keys hold and no release is both a draft and published |
| RunFilesJanitor | one run, two requests; two cache jobs over two refs; two repositories, two owners, two projects, three requests | `FilesGoWhenDone`, `StrayFilesRaced`; `RestoresWhatWasFound`, `EvictionSparesTheUsed`; `PinsStick`, `ProjectsAreWhole`: names keep resolving, dependencies stay acyclic unless a loop passes through the target of a merge or a project requests raced for, and merges lose nothing |
| Registries | three Go requests, one version, two commits; three puts of two contents; three claims of a lock over two lifetimes | `FlightsLand`, `RowsAreOfOneCommit`, `ZipsStayCached`; `StoredBlobsRead`: a returned key reads as its content until it is deleted; `LockIsWriteOnce`: the refinement |
| Delivery | two projects under folder rules; two requests per GitHub cache; two project names and three branches one of which extends another; an image, an index, two tags, two pushes; a client of the tap that fetches packs, or one that fetches files | `PrivateIsResolved`, `OverridesSurvive`, `LookupsAreCurrent`, `TaggedImagesPull`, `ClonesFastForward`; `ChangesKeepRedirects`: the redirect of a site's URL leads to the same file and never round in a circle |

`expect: violation`: each states what the repository says of the program, and TLC finds a run
of the code that contradicts it (the quotes are in `PROJECT.json` under `findings`).

| Run | What happens |
|---|---|
| ReleasesDownloadPin | a downloaded release cannot be evicted: `download_events` still refers to its artifact, so the batch rolls back and the run stops, now and on every later run |
| RunFilesReRun | a job of a re-run receives a file after the janitor asked about its run, or listed it, and the janitor deletes the files of the live run. `docs/run-files.md` says a receive makes the run live again |

### Bounds, and why they are enough

* Keys, rows and processes. A loss needs one content, one row that goes and one that comes,
  and two operations; these are in every blob run. Two contents and two releases are there for
  what one cannot show: replaced keys, shared keys, and a batch that fails after another has
  committed. The proofs drop these bounds.
* `EvictBatchSize` is 25 in the code; 1 makes several batches happen with two releases.
* Uploads. Two bytes give a first and a second chunk and a chunk cut short, a cap of three an
  overrun; three handlers give an append, a finalize and a sweep at once. One session is
  enough: sessions share only the table's mutex, and a handler works on one. A registry blob of
  3 units has a chunk that can land by half and a last short one; two sessions let a push start
  over. `OciTries` and `PubTries` are 2 and 3 where the code has 4: the last try is reached.
* `MaxReleases` and `MaxNum` bound rows and numbers: two releases give a tip and one it
  replaces, and an eviction in two batches; three numbers leave room for a second pick.
  `DockerTries` is 5 in the code; 2 makes the last try reachable. `ReleasesNumbers` runs one
  process, since two break its property (see the observations).
* Run files. The runs share nothing but the pass, so one run is enough; two requests give a
  put beside a get. `Keep` 2, `CheckInterval` 1 and `MaxRunLifetime` 3 keep the order of the
  code's hours, and a clock that stops at 3 (`MaxTime`) reaches all three deletion rules. The
  other clocks (`MaxCacheTime`, `MaxMirrorTime`, `MaxBlobTime`, `MaxLockTime`) likewise run past
  the times they are compared with.
* `MaxProjects`, `MaxMoves`, `MaxCalls`: two projects are a merge or a rename onto a taken name;
  one rename or replacement of a repository can come before, between or after three requests.
* Go proxy: three requests are a leader, one that waits and one that comes when the flight is
  done. Mirror: two pulls are one that writes the tag and one that reads it.
* Site URLs: names `1` and `1/2`, branches `1`, `2` and `1/2` make every longest match ambiguous
  somewhere; three segments hold a project, a branch and a file, and one may look like a commit.
* Tap: two releases and two refreshes are an append to a lineage that exists and a rebuild after
  an eviction; one crash falls between any two writes.
* Symmetry is used for sets whose members no definition tells apart, and never with liveness.

### Fairness

* `UploadLiveness`: `WF(Running(h))`: a handler that can run runs. The one step that waits for a
  client is the copy of a body, which the server's read timeout ends
  (`internal/server/server.go:109`). `SF(Locking(h))`: a mutex that becomes free again and again
  is obtained, which is what the starvation mode of Go's `sync.Mutex` gives.
* `Progress`: weak fairness of each actor that has begun: the steps of a push's client and of
  each request it made (a lost answer is noticed by a timeout), of a publishing job, of a site
  upload's two goroutines, of a browser's tab, of an npm request. npm retries a 503 with
  Retry-After. Nothing is assumed of new uploads, visits, sign-outs, expiry, restarts or losses,
  and the retry limits of the clients are the code's, so nothing is assumed of the network.

## 4. The proofs

`BlobLifecycleProofs` proves, for any sets of keys, rows and processes and any `Ops`:

* `TypeCorrect`: `Spec => []TypeOK`. The inductive invariant `TypeInv` adds to the types what
  the label and the operation of a process say of its locals (`LocalOK`): without it, a row
  recorded by a process could be an empty key.
* `OnlyOverlapLosesBlobs`: `Spec => []LostOnlyByOverlap`. The property is not inductive: it
  does not say that the file a writer is about to record is there, nor that the keys a delete
  is about to unlink are unnamed. `SafeInv` adds both, each up to `raced`. Instead of checking
  every action against every conjunct, the proof has one lemma (`ShapeIsSafe`) that a step of a
  certain shape preserves `SafeInv`, and one lemma per group of actions that its steps have
  that shape (`StepShape`): a row gains only a key its process relies on, a file goes only if a
  delete had found it unnamed, a process comes to rely on a file only if it is there or a row
  names it, a key is marked for deletion only if no row names it.
* `SerialRowsHaveBlobs`: with `MaxActive = 1` and finitely many processes,
  `Spec => []RowsHaveBlobs`. The strengthening is that at most one process is active, so that
  `raced` stays empty.
* `SerialGarbageExplained`: under the same hypotheses `Spec => []GarbageIsExplained`. The property
  speaks of rest; `GarbageInv` says of every moment that each stored key is named by a row,
  `orphaned`, or answered for by the locals of the one process at work (`Answers`), and that what
  this process has read still stands (`MidwayOK`).
* `InventoryAlwaysExact`: `Spec => []InventoryIsExact`. It follows from the types alone, for any
  rows: the listing and the plan find the same keys named elsewhere (`NamedElsewhere`).
* `SerialBatchesFreeThePlan`: `Spec => BatchesFreeThePlan` under the serial hypotheses, from
  `GarbageInv`: no other operation writes between the batches.

`RunFilesProofs` proves, for any sets of runs, names and requests and any times:

* `TypeCorrect`: `Spec => []TypeOK`. `TypeOK` is inductive.
* `StrayFilesAlwaysRaced`: `Spec => []StrayFilesRaced`. The strengthening `StrayInv` adds the
  requests on their way: a put that has touched its run finds the row still there, or raced,
  when it records its file; and the run whose files are gone and whose row is not has none,
  or raced.
* `FilesGoOnlyWhenDone`: `Spec => FilesGoWhenDone`, an action property. `DoneInv` says that
  each run the janitor has listed may be deleted by what is known of it now, or was overtaken,
  and that a row counts as ended only on a report since the last use, or when overtaken. The
  step then needs only that `DeleteFiles` is the one action that removes files.

`RunLocksProofs` proves, for any jobs, values and lifetime:

* `ClaimsAreWrittenOnce`: `LockSpec => LockIsWriteOnce`, the refinement. A claim's answer says
  `created` from a local it set at its insert, which the abstract register reads off the
  current row: the two agree only if that row is still the one the claim wrote. The invariant
  `LockInv` says so (`WriterIsWinner`) and why: a claim ends within a lifetime of its start
  (`Timely`), so no other claim's cutoff can pass the row it wrote.
* `ClaimsAgree`: `LockSpec => []Register!Agreement`. The strengthening says that the claims
  answered in the present life were told the row as it is.

`UploadSessionsProofs` proves, for any sessions, handlers, file and cap:

* `TypesAndCap`, `SpoolsArePrefixes` (`SpoolIsPrefix`), `FinalizesAreExact` (`VerifiedIsFile`) and
  `SpoolsDoNotLeak` (`NoSpoolLeak`), all from one inductive invariant `IInv`. Its parts: `LocksOK`, an
  append in its copy holds the mutex of its session, which is not busy and has the size the
  append started at; `PrefixOK`, a spool holds the committed bytes and those of the append under
  way; `FinalsOK`, a session has at most one finalizer, no bytes are added while it has one, and
  once consumed it is busy for ever; `FilesOK`, a file that is not in the table belongs to a
  handler that will insert or unlink it.

`PublishingProofs` is about what clients send and what it leaves:

* `SuccessMeansShipped`, `FinalizesAreWhole` (`PublishClient`), for any jobs, manifests, sizes and
  retry limits. `PubInv`: at artifact `i` of a job's manifest all earlier ones are shipped and stay
  so (`DoneOK`); a late chunk never runs past the end (`ChunksOK`).
* `SitesStayPublished` (`SiteUploads`). `SitesInv`: the producer of a tar reports success only after
  all of it was read, the consumer only after the producer, and the conversion's list still says
  what each row it compares with held (`UpOK`, `ConvOK`).
* `TagsAlwaysPull` (`OCIImages`). `ImageInv`: a push has linked what it has looked at so far; its
  unpublished release is its own (`OwnReleases`) and therefore not in reach of retention.
* `RegistryHoldsPrefixes` (`OCIUpload`). `OciInv`: each request under way, also one the client has
  given up, carries bytes of the blob from its offset on; a push that fits in one request meets
  only sessions nothing was written to (`OneChunk`), since its PUT names no offset.
* `RedirectsReachTheFile` (`SiteURLs`): `SiteURLsSpec => []RedirectsKeepTheFile /\ ChangesKeepRedirects`, for
  any names that extend one another in any way and URLs of any length. The inductive part is small,
  the types of the tables and one row per branch (`SiteTables`); the rest is about the splitting
  functions. A ref that spells its branch is the branch and the file put together (`SplitSiteBranchIs`); the
  sigil comes off where it was put on, also at the apex, where the project's own segments must not
  be taken for it (`SigilTwice`, `SigilApex`); a bare URL is answered where it stands (`BareSubdomain`,
  `BareApex`), at the apex because `apexURLFor` asks for the split it relies on. `RedirectKept` goes through
  the four schemes. The proof found the model's `Redirect` to be a `CASE` whose guards overlapped
  for a missing file: TLC takes the first, TLA+ does not say. It is a chain of conditions now, as
  in the code.

`RegistriesProofs`:

* `MirrorTagsAreRecent`, `MirrorOutlivesUpstream` (`Mirror`), for any times, digests and pulls.
  `MirrorInv`: what a lookup was told, the upstream named since the lookup began (`LookupsOK`), and a
  pull that began in an outage with all it needs held is still on the way that serves it
  (`SureOK`).
* `BlobsStayReadable` (`BlobFiles`), for any contents and puts. `FilesInv`: every blob file is whole
  whatever was killed, since it gets its name by a rename of a whole temp file, and a returned key
  has a file.
* `FlightsAlwaysLand`, `RowsServeOneCommit`, `CachedZipsStay` (`GoProxy`), for any requests, versions
  and commits. `GoInv`: each flight has exactly the leader that will close and delete it, and who
  waits waits for a request that led or leads (`FlightsOK`); what a fetch carries is of the
  commit its version names, unless its tag was touched since (`CommitsOK`).
* `ClonesAlwaysFollow` (`BrewTap`), for any clients, releases, refreshes and crashes. A commit is the
  sequence of the trees up to it, so an ancestor is a prefix (`Under`, `AncestorIff`). `TapInv`: the commit a
  refresh is about to make the tip is ahead of the present one and whole with the objects still to
  write (`RefreshOK`), which is why objects must come before refs; what a client of packs was told is
  still behind the tip, or its lineage is gone (`ReqOK`); a clone has the parent of each commit
  it has, up to where it was cut (`CloneOK`). `AppendedChain` is the fact about the commits a refresh adds:
  one chain on top of the tip.

`RepositoriesProofs` is about what a repository keeps on the server and who may read it:

* `RestoresAreOfTheFound`, `EvictionsSpareTheUsed` (`CICache`), for any keys, refs and jobs.
  `CacheInv`: a slot the janitor has listed still holds the listed entry, used no later than then or
  in `ceSince` (`ListedOK`); a slot a job has found holds that entry or a later one (`FoundOK`).
* `LookupsStayCurrent` (`GitHubLookups`). `LookInv`: an old answer in the cache or on its way expires
  within the allowed staleness of the moment it stopped being true (`CachedOK`, `OneAsk`).
* `PinsAreKept` (`Projects`), for any repositories, owners and requests. `PinInv`: a request that
  read a pin finds it there when it writes, unless the project is `contested` (`SeenOK`); ids are
  handed out in order and never twice (`RowsOK`), so the project is still the same one.
* `ProjectsStayWhole` (`Projects`): `ProjSpec => []ProjectsAreWhole`, for any projects, names, releases and
  requests. `WholeInv` keeps `PinInv` and adds what a request that waits between two statements
  still knows (`WaitOK`): a rename goes from a name that was given to another (`RenameOK`); the
  releases of a merge plan are the source's and keep their order (`PlanOK`); a list that was checked
  closes no loop when it is stored (`CheckedOK`). Acyclicity is about paths of any length, and no
  induction over them is to be had here, so it is stated of sets: `Reach` is the least set the walk of
  `refuseDependsCycle` closes, a loop is a set of projects each of which depends on one in it
  (`Loop`), and a checked list has a closed set that holds what it leads to and not the project itself
  (`Clear`). A set that would become a loop by the store meets that closed set in a loop that was there
  before. A renamed or merged project keeps its dependents because a name is rewritten where the
  row changes (`RenameDepends`).
* `ReadersSeeTheResolved`, `ModesAreTheOperators` (`Visibility`). `VisInv`: a request that met no other
  has read what the tables still hold (`AloneOK`); each project is `unsettled`, still to be written
  by a request that runs, or resolved (`Settled`).

`ReleasesProofs` proves, for any projects, branches, processes and keep-N:

* `TypeCorrect`: the foreign keys hold, no release is both a draft and published. Inductive.
* `OwnersKeepTheirBuilds`, `LatestOnlyAdvances`: action properties. `ListsOK` says what is still true
  of a list when it is used: the deleted-branch pass lists no build of the default branch, a
  policy run no draft, and a listed release that is published is not the newest of the
  default branch, unless one was published while listed (`overtaken`).
* `HoldsAlwaysMatchPlan`: the inventory's reasons against the sweep's query, from the types; the
  lemma `HoldsAgree` compares the two counts of newer builds.
* `SerialNumbersUnique`: with at most one process. `PickedIsNext`: a number picked and not yet
  inserted is above all live ones.

### Assumptions

TLC evaluates each of them in the runs.

* A marker for "nothing" is none of the values it stands beside (`NoKey`, `NoRun`, `NoLock`,
  `None`, `NoRow`, `NoBlob`, `NoEntry`, `GoNone`, `NoDigest`, `NoPub`, `NoSite`, `NoOci`, `NoImage`,
  `Nothing`): the code has NULL, nil or the empty string there, which is no sha256, name or id.
* The names of projects and branches are not empty and have ordinary segments (`SiteNames`). The code
  rules it out for projects; a branch with a segment that begins with `@` is not modelled.
* Times, sizes, bounds and ids are natural numbers; a file, chunk or retry limit that would make a
  loop of the code empty is positive.
* `CacheTimes`: `PressureGrace`, 24 hours in the code, is positive and at most `CacheKeep`, a week
  unless `BUILDHOST_CACHE_KEEP` says otherwise. A shorter keep would let expiry take what the
  grace protects, which is what that setting asks for.
* `LookupTimes`: a lookup (5 seconds) is shorter than the time an answer is kept (minutes to an
  hour), and the token buffer (a minute) than a token's life.
* There is a last cache key and a last Go version: both sets are finite at any time.
* A client of the tap fetches packs or files, not both (`TapClients`).
* A document has one media type (`DocKinds`); the default ref is a ref, the default branch a
  branch; there is a project.
* The serial theorems assume that operations do not overlap (`MaxActive = 1`, or one process):
  with two the properties fail, as section 5 says, and `LostOnlyByOverlap` says exactly when.

### Only model-checked

* Liveness (`HandlersFinish`, `UploadsEnd`, `VisitsEnd`, `NpmConverges`): fairness is out of the
  prover's reach.

Every safety property a run checks is stated by a theorem.

## 5. Observations

Places where the models reach a state one would not want, beside the two findings above. Each
is left out of the properties by name (a history variable, or a condition in the property).

* A hash-reference upload may validate a blob an eviction is about to unlink and record it
  (`raced` in `BlobLifecycle`): the in-flight check is made once, at the start
  (`docs/retention.md:11`, and for the cache `docs/cache.md:49`, say it rules this out).
* The identity guard (`requireProject`, `internal/auth/middleware.go:313`) reads a project and writes the
  pin in two statements. A request that read it unpinned can replace a pin another has written
  in between, and one that had read the replaced pin can write it back (`contested`). This came
  up when the step of `PinsStick` did not go through; TLC then showed it with four requests.
* A rename probes the new name and renames in two statements, and a merge is planned long before it
  is applied. A request between them can give one of the names to another project; the rewritten
  dependencies then lead to that one, and a loop may close that `refuseDependsCycle` never saw. A merge
  closes one by itself when the target depends on a dependent of the source (`internal/db/merge.go:204`
  does not ask). Such projects are in `loose`; the proof of `DependsAcyclic` showed which they are.
* A release listed as abandoned can be published before its batch runs and is then deleted as the
  tip of its branch (`internal/db/queries/retention.sql:63`).
* Two concurrent creates in two projects of a family read the same maximum and both insert it: the
  unique constraint is per project (`internal/db/queries/releases.sql:7`,
  `internal/api/releases.go:156`). The number of an evicted highest release can be given again
  (`internal/db/releases.go:39`).
* A request that waited for another's flight in the Go proxy returns a record nobody set, without
  an error (`internal/goproxy/fetch.go:73`), and its caller dereferences it (`Wake`, `Answer` in
  `GoProxy`). A panic inside a flight never closes it.
* `PutManifest` stores and links a manifest before it checks what the manifest refers to
  (`internal/oci/putmanifest.go:94`, `:109`): a refused manifest stays linked, so an index may
  name a child whose own push was refused. A release may be evicted between its publish and
  `SetOCITag`.
* The registry's upload files of a killed server stay for ever (`newUploadStore`, `internal/oci/handler.go:25`),
  while those of chunked sessions are removed at start.
* A read of an opened tarball that fails half way is cached as an empty manifest
  (`misread` in `NpmManifests`); `docs/npm-packument-manifest-cache.md` says that "only a failure
  to READ the blob is left uncached".
* A clone of the tap that fetches files rather than packs may read refs and objects of two
  refreshes and then not fast-forward; `ClonesFastForward` speaks of pack clients.
* The redirect of a commit's URL can be taken over by a longer branch name, and an apex URL whose
  file path begins with `@` names another branch (`Ambiguous` in `SiteURLs`).
* A publish that is retried under the same version after a lost answer meets 409 and reports
  failure though the release is complete; a refused finalize leaves its session to expire.
* Two concurrent puts of one run file can both replace the same old key and leak the other
  (`internal/db/run_files.go:48`).
* `PutUncompressed` of a content already stored compressed keeps the compressed file; `Put`
  renames without an fsync (`internal/storage/filesystem.go`).
* The dashboard's storage page plans with the configured keep-N, not the stored setting
  (`internal/admin/api.go:406`); inventory and plan read the clock separately, so a release can
  fall between them and is shown as held for an unknown reason.

## 6. What is not modelled

* The bytes: compression, archive, package and executable formats (`internal/runarchive`,
  `internal/repackage`, `internal/strip`), HTML, JSON, APT and Homebrew rendering, TLS, flags,
  telemetry, secrets. They are functions of their input with no state to interleave.
* `internal/auth/oidc.go` and the token checks of the middleware: parsing and cryptography. The
  models start from an authenticated request; what it may touch is in `Projects`, `Visibility`.
* Crashes that lose a rename or a write already made (no fsync model).
* Semver projects, service settings, platform expansion and folding, signed download links,
  HTTP ranges and media type negotiation.
* GitHub storage records and deployments, which follow an eviction or a publish and never
  change the state modelled here.
* Read counters of run files, and which ended run goes first under disk pressure.
* The read-only pages of the web and admin front ends and their statistics queries.

## 7. Plan

Done: the modules above, and a theorem for every safety property the runs check.

Worth proving next: type correctness and the label invariants as theorems of their own where
they are now parts of another, and `BlobFiles` as a refinement of the blob set of
`BlobLifecycle`.

Worth modelling next: semver numbers and platform matching as functions with reference
definitions.
