------------------------------ MODULE Releases ------------------------------
(***************************************************************************)
(* Releases of the auto-versioned projects of one family ("repo" and       *)
(* "repo/<binary>"): how they are numbered, filled, published, resolved    *)
(* and downloaded, and how the keep-N sweep and the deleted-branch pass    *)
(* evict them.                                                             *)
(*                                                                         *)
(* One step is one SQL statement or transaction, or one answer of GitHub;  *)
(* between two steps of a request any other request may run.  A release of *)
(* an auto project has its number, in decimal, as its version, so a number *)
(* stands for both.  What eviction does to blobs is in BlobLifecycle.      *)
(***************************************************************************)
EXTENDS Naturals, Sequences, FiniteSets, FiniteSetsExt

CONSTANTS
    Process,        \* HTTP requests, sweeps and gc commands
    Project,        \* the auto-versioned projects of the family
    Branch,         \* git branches builds run on
    DefaultBranch,  \* projects.default_branch, also GitHub's
    NoBranch,       \* git_branch = '': what a docker push records
    Tag,            \* names of docker tags
    Ops,            \* the operations this instance exercises
    Named,          \* version numbers a request may name itself
    UploadKinds,    \* kinds of the artifacts that are uploaded
    KeepN,          \* retention_settings.keep_n; 0 is allowed
    EvictBatchSize, \* releases one eviction transaction deletes (25)
    DockerTries,    \* attempts of createDockerRelease (5)
    Faults,         \* may a statement fail or a client go away?
    MaxReleases,    \* bound: rows ever inserted
    MaxNum          \* bound: highest version number

\* PUT, POST, PATCH and DELETE requests, which the in-flight counter counts.
\* A "draft" is a create with draft = true.
Counted == {"create", "draft", "docker", "upload", "publish"}
\* Evictions that start only when the in-flight counter reads zero.
Gated   == {"sweep", "branches"}
AllOps  == Counted \cup Gated \cup {"gc", "download"}

ASSUME OpsAssumption == Ops \subseteq AllOps /\ UploadKinds \subseteq {"binary", "docker"}
ASSUME BranchAssumption == DefaultBranch \in Branch /\ NoBranch \notin Branch
ASSUME FaultsAssumption == Faults \in BOOLEAN
ASSUME BoundsAssumption ==
    {KeepN, EvictBatchSize, DockerTries, MaxReleases, MaxNum} \subseteq Nat /\ EvictBatchSize > 0 /\ Named \subseteq 1..MaxNum
ASSUME ProjectAssumption == Project # {} /\ MaxNum > 0

VARIABLES
    rows,       \* every release row ever inserted; the index is the id
    live,       \* ids whose row still exists
    published,  \* releases.published = 1
    draft,      \* releases.draft = 1
    old,        \* created before the recency cutoff
    artifact,   \* artifacts: <<release id, kind>>
    downloaded, \* releases with a download_events row
    tag,        \* oci_tags: <<project, tag>> to release id, 0 for no row
    remote,     \* branches GitHub has
    pc,         \* the next step of each process
    op,         \* the operation it performs
    req,        \* create, docker: the row it is about to insert
    tries,      \* docker: inserts refused so far
    target,     \* the release or the tag's release it works on
    victims,    \* eviction: the releases it has listed
    cutoff,     \* eviction: `old' when it computed its cutoff
    toAsk,      \* deleted branches: <<project, branch>> GitHub is still to be asked about
    overtaken   \* history: releases published while an eviction had them listed

tables == <<rows, live, published, draft, old, artifact, downloaded, tag, remote>>
locals == <<pc, op, req, tries, target, victims, cutoff, toAsk>>
vars   == <<tables, locals, overtaken>>

Release  == DOMAIN rows
Versions == 1..MaxNum

Row == [project : Project, num : Versions, branch : Branch \cup {NoBranch}, picked : BOOLEAN]

NoReq == [project |-> CHOOSE p \in Project : TRUE, num |-> 1, branch |-> NoBranch, picked |-> FALSE]

Kinds == {"binary", "docker"}

Labels == {"idle", "insert", "repick", "dartifact", "dpublish", "dtag", "artifact", "list",
           "publish", "event", "evictable", "ask", "evict"}

(***************************************************************************)
(* Queries                                                                 *)
(***************************************************************************)

\* Mutant: the number line is the project's own.
NextVersionNumOfProject(project) ==
    Max({0} \cup {rows[r].num : r \in {s \in live : rows[s].project = project}}) + 1

\* GetMaxVersionNum over the family, plus one.
NextVersionNum(project) == Max({0} \cup {rows[r].num : r \in live}) + 1

SameLine(r, s) == rows[r].project = rows[s].project /\ rows[r].branch = rows[s].branch

NewerPublished(r) == {s \in live \cap published : SameLine(r, s) /\ rows[s].num > rows[r].num}

\* GetLatestPublishedReleaseByBranch: no release, or the one with the highest number.
BranchTip(project, branch) ==
    {r \in live \cap published :
        /\ rows[r].project = project
        /\ rows[r].branch = branch
        /\ NewerPublished(r) = {}}

\* GetLatestRelease.
Latest(project) == BranchTip(project, DefaultBranch)

Tagged == {tag[t] : t \in DOMAIN tag}

\* Mutant: drafts look abandoned.
AbandonedWithDrafts(before) == (live \cap before) \ published

ListAbandonedReleases(before) == (live \cap before) \ (published \cup draft)

\* Mutant: no floor under keep_n.
EvictableNoFloor(before) ==
    {r \in live \cap published \cap before :
        /\ r \notin Tagged
        /\ <<r, "docker">> \notin artifact
        /\ Cardinality(NewerPublished(r)) >= KeepN}

ListEvictableReleases(before) ==
    {r \in live \cap published \cap before :
        /\ r \notin Tagged
        /\ <<r, "docker">> \notin artifact
        /\ Cardinality(NewerPublished(r)) >= Max({KeepN, 1})}

\* Mutant: the report keeps one release more than the policy does.
ReleaseHoldsOneMore(r, before) ==
    IF r \notin published
    THEN IF r \in draft THEN {"draft"} ELSE {h \in {"recency"} : r \notin before}
    ELSE {h \in {"oci-tag", "docker", "branch-tip", "keep-n", "recency"} :
            \/ h = "oci-tag" /\ r \in Tagged
            \/ h = "docker" /\ <<r, "docker">> \in artifact
            \/ h = "branch-tip" /\ NewerPublished(r) = {}
            \/ h = "keep-n" /\ Cardinality(NewerPublished(r)) \in 1..Max({KeepN, 1})
            \/ h = "recency" /\ r \notin before}

\* releaseHolds: the reasons the inventory gives for keeping a release, from the
\* facts ListReleaseRetentionFacts counts; none for a release eviction takes.
ReleaseHolds(r, before) ==
    IF r \notin published
    THEN IF r \in draft THEN {"draft"} ELSE {h \in {"recency"} : r \notin before}
    ELSE {h \in {"oci-tag", "docker", "branch-tip", "keep-n", "recency"} :
            \/ h = "oci-tag" /\ r \in Tagged
            \/ h = "docker" /\ <<r, "docker">> \in artifact
            \/ h = "branch-tip" /\ NewerPublished(r) = {}
            \/ h = "keep-n" /\ Cardinality(NewerPublished(r)) \in 1..(Max({KeepN, 1}) - 1)
            \/ h = "recency" /\ r \notin before}

ListNonDefaultBranchReleases(before) ==
    {r \in live \cap before : rows[r].branch \notin {NoBranch, DefaultBranch}}

\* InflightWrites() > 0.
Busy == \E p \in Process : op[p] \in Counted

\* Requests whose row is still to be inserted; the bound on rows counts them.
Pending == {p \in Process : pc[p] \in {"insert", "repick"}}

(***************************************************************************)
(* Control                                                                 *)
(***************************************************************************)

Begin(p, o) ==
    /\ pc[p] = "idle"
    /\ o \in Ops
    /\ op' = [op EXCEPT ![p] = o]

Goto(p, label) == pc' = [pc EXCEPT ![p] = label]

\* The request or sweep ends and its locals are gone.
Finish(p) ==
    /\ pc' = [pc EXCEPT ![p] = "idle"]
    /\ op' = [op EXCEPT ![p] = "none"]
    /\ req' = [req EXCEPT ![p] = NoReq]
    /\ tries' = [tries EXCEPT ![p] = 0]
    /\ target' = [target EXCEPT ![p] = 0]
    /\ victims' = [victims EXCEPT ![p] = {}]
    /\ cutoff' = [cutoff EXCEPT ![p] = {}]
    /\ toAsk' = [toAsk EXCEPT ![p] = {}]

\* A statement fails, or the client goes away and cancels its context.
Fail(p) ==
    /\ Faults
    /\ pc[p] # "idle"
    /\ Finish(p)
    /\ UNCHANGED <<tables, overtaken>>

(***************************************************************************)
(* Creating a release                                                      *)
(***************************************************************************)

\* CreateRelease up to its insert.  num = 0 stands for a request that names no
\* version: the server picks the next number of the family.
BeginCreate(p) ==
    \E o \in {"create", "draft"}, project \in Project, branch \in Branch, num \in {0} \cup Named :
        LET next == NextVersionNum(project) IN
        /\ Begin(p, o)
        /\ Cardinality(Pending) + Len(rows) < MaxReleases
        /\ num = 0 => next \in Versions
        /\ req' = [req EXCEPT ![p] = [project |-> project,
                                      num |-> IF num = 0 THEN next ELSE num,
                                      branch |-> branch,
                                      picked |-> num = 0]]
        /\ Goto(p, "insert")
        /\ UNCHANGED <<tables, tries, target, victims, cutoff, toAsk, overtaken>>

\* UNIQUE(project_id, version)
Conflict(p) ==
    \E r \in live : rows[r].project = req[p].project /\ rows[r].num = req[p].num

\* INSERT INTO releases.  A picked number that is taken is picked again, an
\* explicit one is answered 409; a docker push gives up after its tries.
Insert(p) ==
    LET id == Len(rows) + 1 IN
    /\ pc[p] = "insert"
    /\ IF Conflict(p)
       THEN /\ IF req[p].picked /\ (op[p] = "docker" => tries[p] + 1 < DockerTries)
               THEN /\ Goto(p, "repick")
                    /\ tries' = [tries EXCEPT ![p] =
                                    IF op[p] = "docker" THEN tries[p] + 1 ELSE 0]
                    /\ UNCHANGED <<op, req, target, victims, cutoff, toAsk>>
               ELSE Finish(p)
            /\ UNCHANGED <<rows, live, draft>>
       ELSE /\ rows' = Append(rows, req[p])
            /\ live' = live \cup {id}
            /\ draft' = IF op[p] = "draft" THEN draft \cup {id} ELSE draft
            /\ IF op[p] = "docker"
               THEN /\ Goto(p, "dartifact")
                    /\ target' = [target EXCEPT ![p] = id]
                    /\ UNCHANGED <<op, req, tries, victims, cutoff, toAsk>>
               ELSE Finish(p)
    /\ UNCHANGED <<published, old, artifact, downloaded, tag, remote, overtaken>>

\* NextVersionNum after a conflict; a create also passes the number it tried.
Repick(p) ==
    LET next == NextVersionNum(req[p].project)
        num  == IF op[p] = "docker" THEN next ELSE Max({next, req[p].num + 1})
    IN
    /\ pc[p] = "repick"
    /\ num \in Versions
    /\ req' = [req EXCEPT ![p].num = num]
    /\ Goto(p, "insert")
    /\ UNCHANGED <<tables, op, tries, target, victims, cutoff, toAsk, overtaken>>

(***************************************************************************)
(* Docker pushes                                                           *)
(***************************************************************************)

\* PutManifest of an image no tag has: createDockerRelease reads a number.
BeginPush(p) ==
    \E project \in Project :
        LET next == NextVersionNum(project) IN
        /\ Begin(p, "docker")
        /\ Cardinality(Pending) + Len(rows) < MaxReleases
        /\ next \in Versions
        /\ req' = [req EXCEPT ![p] = [project |-> project, num |-> next, branch |-> NoBranch,
                                      picked |-> TRUE]]
        /\ Goto(p, "insert")
        /\ UNCHANGED <<tables, tries, target, victims, cutoff, toAsk, overtaken>>

\* PutManifest of an image a tag already has: releaseForDigest found its release.
BeginRetag(p) ==
    \E t \in DOMAIN tag :
        /\ Begin(p, "docker")
        /\ tag[t] # 0
        /\ target' = [target EXCEPT ![p] = tag[t]]
        /\ req' = [req EXCEPT ![p] = rows[tag[t]]]
        /\ Goto(p, "dtag")
        /\ UNCHANGED <<tables, tries, victims, cutoff, toAsk, overtaken>>

\* createDockerArtifact drops its error.
DockerArtifact(p) ==
    /\ pc[p] = "dartifact"
    /\ \/ target[p] \in live /\ artifact' = artifact \cup {<<target[p], "docker">>}
       \/ (target[p] \in live => Faults) /\ UNCHANGED artifact
    /\ Goto(p, "dpublish")
    /\ UNCHANGED <<rows, live, published, draft, old, downloaded, tag, remote>>
    /\ UNCHANGED <<op, req, tries, target, victims, cutoff, toAsk, overtaken>>

\* Mutant: publishing leaves the draft flag set.
MarkPublishedKeepsDraft(r) ==
    /\ published' = IF r \in live THEN published \cup {r} ELSE published
    /\ overtaken' = IF r \in live /\ \E p \in Process : r \in victims[p]
                    THEN overtaken \cup {r}
                    ELSE overtaken
    /\ UNCHANGED draft

\* db.PublishRelease: an UPDATE by id, which changes nothing when the row is gone.
MarkPublished(r) ==
    /\ published' = IF r \in live THEN published \cup {r} ELSE published
    /\ draft' = draft \ {r}
    /\ overtaken' = IF r \in live /\ \E p \in Process : r \in victims[p]
                    THEN overtaken \cup {r}
                    ELSE overtaken

DockerPublish(p) ==
    /\ pc[p] = "dpublish"
    /\ MarkPublished(target[p])
    /\ Goto(p, "dtag")
    /\ UNCHANGED <<rows, live, old, artifact, downloaded, tag, remote>>
    /\ UNCHANGED <<op, req, tries, target, victims, cutoff, toAsk>>

\* SetOCITag; its foreign key refuses a release that is gone.
SetTag(p) ==
    /\ pc[p] = "dtag"
    /\ \E name \in Tag :
        tag' = IF target[p] \in live
               THEN [tag EXCEPT ![<<req[p].project, name>>] = target[p]]
               ELSE tag
    /\ Finish(p)
    /\ UNCHANGED <<rows, live, published, draft, old, artifact, downloaded, remote, overtaken>>

(***************************************************************************)
(* Filling, publishing and downloading a release                           *)
(***************************************************************************)

\* UploadArtifact and UploadMultiPlatformArtifact: the release is read first...
BeginUpload(p) ==
    \E r \in live \ published :
        /\ Begin(p, "upload")
        /\ target' = [target EXCEPT ![p] = r]
        /\ Goto(p, "artifact")
        /\ UNCHANGED <<tables, req, tries, victims, cutoff, toAsk, overtaken>>

\* ... and the row inserted once the body has been stored.
RecordArtifact(p) ==
    /\ pc[p] = "artifact"
    /\ \E kind \in UploadKinds :
        artifact' = IF target[p] \in live THEN artifact \cup {<<target[p], kind>>} ELSE artifact
    /\ Finish(p)
    /\ UNCHANGED <<rows, live, published, draft, old, downloaded, tag, remote, overtaken>>

\* PublishRelease reads the release, lists its artifacts, then updates the row.
BeginPublish(p) ==
    \E r \in live \ published :
        /\ Begin(p, "publish")
        /\ target' = [target EXCEPT ![p] = r]
        /\ Goto(p, "list")
        /\ UNCHANGED <<tables, req, tries, victims, cutoff, toAsk, overtaken>>

ListArtifacts(p) ==
    /\ pc[p] = "list"
    /\ IF \E kind \in Kinds : <<target[p], kind>> \in artifact
       THEN Goto(p, "publish") /\ UNCHANGED <<op, req, tries, target, victims, cutoff, toAsk>>
       ELSE Finish(p)
    /\ UNCHANGED <<tables, overtaken>>

PublishRelease(p) ==
    /\ pc[p] = "publish"
    /\ MarkPublished(target[p])
    /\ Finish(p)
    /\ UNCHANGED <<rows, live, old, artifact, downloaded, tag, remote>>

\* static serves an artifact of an exact version...
BeginDownload(p) ==
    \E r \in live :
        /\ Begin(p, "download")
        /\ <<r, "binary">> \in artifact
        /\ target' = [target EXCEPT ![p] = r]
        /\ Goto(p, "event")
        /\ UNCHANGED <<tables, req, tries, victims, cutoff, toAsk, overtaken>>

\* ... and then records who fetched it.
RecordDownload(p) ==
    /\ pc[p] = "event"
    /\ downloaded' = IF target[p] \in live THEN downloaded \cup {target[p]} ELSE downloaded
    /\ Finish(p)
    /\ UNCHANGED <<rows, live, published, draft, old, artifact, tag, remote, overtaken>>

(***************************************************************************)
(* Evicting releases                                                       *)
(***************************************************************************)

\* Retention.run: the sweeper, the dashboard's run button (both gated) or gc.
BeginSweep(p) ==
    \E o \in {"sweep", "gc"} :
        /\ Begin(p, o)
        /\ o \in Gated => ~Busy
        /\ victims' = [victims EXCEPT ![p] = ListAbandonedReleases(old)]
        /\ cutoff' = [cutoff EXCEPT ![p] = old]
        /\ Goto(p, "evictable")
        /\ UNCHANGED <<tables, req, tries, target, toAsk, overtaken>>

ListEvictable(p) ==
    LET ids == victims[p] \cup ListEvictableReleases(cutoff[p]) IN
    /\ pc[p] = "evictable"
    /\ IF ids = {}
       THEN Finish(p)
       ELSE /\ victims' = [victims EXCEPT ![p] = ids]
            /\ cutoff' = [cutoff EXCEPT ![p] = {}]
            /\ Goto(p, "evict")
            /\ UNCHANGED <<op, req, tries, target, toAsk>>
    /\ UNCHANGED <<tables, overtaken>>

\* Retention.deletedBranches lists the builds of every other branch...
BeginDeletedBranches(p) ==
    LET ids == ListNonDefaultBranchReleases(old) IN
    /\ Begin(p, "branches")
    /\ ~Busy
    /\ ids # {}
    /\ victims' = [victims EXCEPT ![p] = ids]
    /\ toAsk' = [toAsk EXCEPT ![p] = {<<rows[r].project, rows[r].branch>> : r \in ids}]
    /\ Goto(p, "ask")
    /\ UNCHANGED <<tables, req, tries, target, cutoff, overtaken>>

\* ... and asks GitHub about each; no answer keeps the branch.
AskGitHub(p) ==
    /\ pc[p] = "ask"
    /\ \E q \in toAsk[p], answered \in BOOLEAN :
        LET on == {r \in victims[p] : <<rows[r].project, rows[r].branch>> = q}
            ids == IF answered /\ q[2] \notin remote THEN victims[p] ELSE victims[p] \ on
        IN
        /\ IF toAsk[p] = {q} /\ ids = {}
           THEN Finish(p)
           ELSE /\ victims' = [victims EXCEPT ![p] = ids]
                /\ toAsk' = [toAsk EXCEPT ![p] = toAsk[p] \ {q}]
                /\ Goto(p, IF toAsk[p] = {q} THEN "evict" ELSE "ask")
                /\ UNCHANGED <<op, req, tries, target, cutoff>>
    /\ UNCHANGED <<tables, overtaken>>

\* deleteReleaseRows: the release with its artifacts and tags, and not its
\* download events.
DeleteRows(batch) ==
    /\ live' = live \ batch
    /\ published' = published \ batch
    /\ draft' = draft \ batch
    /\ old' = old \ batch
    /\ artifact' = {a \in artifact : a[1] \notin batch}
    /\ tag' = [t \in DOMAIN tag |-> IF tag[t] \in batch THEN 0 ELSE tag[t]]

\* One transaction of db.EvictReleases.  A download event still refers to its
\* artifact, so the foreign key fails, the batch rolls back and the run stops.
EvictBatch(p) ==
    /\ pc[p] = "evict"
    /\ \E batch \in SUBSET victims[p] :
        /\ Cardinality(batch) = Min({EvictBatchSize, Cardinality(victims[p])})
        /\ IF batch \cap live \cap downloaded # {}
           THEN Finish(p) /\ UNCHANGED <<live, published, draft, old, artifact, tag>>
           ELSE /\ DeleteRows(batch)
                /\ IF batch = victims[p]
                   THEN Finish(p)
                   ELSE /\ victims' = [victims EXCEPT ![p] = victims[p] \ batch]
                        /\ UNCHANGED <<pc, op, req, tries, target, cutoff, toAsk>>
    /\ UNCHANGED <<rows, downloaded, remote, overtaken>>

(***************************************************************************)
(* The outside world                                                       *)
(***************************************************************************)

\* Time passes and a release leaves the recency guard.
Age ==
    /\ \E r \in live \ old : old' = old \cup {r}
    /\ UNCHANGED <<rows, live, published, draft, artifact, downloaded, tag, remote>>
    /\ UNCHANGED <<locals, overtaken>>

DropBranch ==
    /\ \E b \in remote \ {DefaultBranch} : remote' = remote \ {b}
    /\ UNCHANGED <<rows, live, published, draft, old, artifact, downloaded, tag>>
    /\ UNCHANGED <<locals, overtaken>>

PushBranch ==
    /\ \E b \in Branch \ remote : remote' = remote \cup {b}
    /\ UNCHANGED <<rows, live, published, draft, old, artifact, downloaded, tag>>
    /\ UNCHANGED <<locals, overtaken>>

Init ==
    /\ rows = <<>>
    /\ live = {} /\ published = {} /\ draft = {} /\ old = {}
    /\ artifact = {} /\ downloaded = {}
    /\ tag = [t \in Project \X Tag |-> 0]
    /\ remote = Branch
    /\ pc = [p \in Process |-> "idle"]
    /\ op = [p \in Process |-> "none"]
    /\ req = [p \in Process |-> NoReq]
    /\ tries = [p \in Process |-> 0]
    /\ target = [p \in Process |-> 0]
    /\ victims = [p \in Process |-> {}]
    /\ cutoff = [p \in Process |-> {}]
    /\ toAsk = [p \in Process |-> {}]
    /\ overtaken = {}

Step(p) ==
    \/ BeginCreate(p) \/ Insert(p) \/ Repick(p)
    \/ BeginPush(p) \/ BeginRetag(p) \/ DockerArtifact(p) \/ DockerPublish(p) \/ SetTag(p)
    \/ BeginUpload(p) \/ RecordArtifact(p)
    \/ BeginPublish(p) \/ ListArtifacts(p) \/ PublishRelease(p)
    \/ BeginDownload(p) \/ RecordDownload(p)
    \/ BeginSweep(p) \/ ListEvictable(p) \/ BeginDeletedBranches(p) \/ AskGitHub(p)
    \/ EvictBatch(p)
    \/ Fail(p)

Next == (\E p \in Process : Step(p)) \/ Age \/ DropBranch \/ PushBranch

Spec == Init /\ [][Next]_vars

(***************************************************************************)
(* Properties                                                              *)
(***************************************************************************)

\* Type invariant of the tables and of the processes.  The foreign keys of
\* artifacts, download_events and oci_tags hold, and no release is both a
\* draft and in the release stream.
TypeOK ==
    /\ rows \in Seq(Row)
    /\ live \subseteq Release /\ published \subseteq live /\ old \subseteq live
    /\ draft \subseteq live \ published
    /\ artifact \subseteq live \X Kinds
    /\ downloaded \subseteq live
    /\ tag \in [Project \X Tag -> live \cup {0}]
    /\ remote \subseteq Branch
    /\ pc \in [Process -> Labels]
    /\ op \in [Process -> AllOps \cup {"none"}]
    /\ req \in [Process -> Row]
    /\ tries \in [Process -> Nat]
    /\ target \in [Process -> Release \cup {0}]
    /\ victims \in [Process -> SUBSET Release]
    /\ cutoff \in [Process -> SUBSET Release]
    /\ toAsk \in [Process -> SUBSET (Project \X Branch)]
    /\ overtaken \subseteq Release

\* The releases the step deletes.
Evicted == live \ live'

\* The process whose step this is evicts by policy, not for a deleted branch.
ByPolicy(r) == \E p \in Process : op[p] \in {"sweep", "gc"} /\ r \in victims[p] /\ pc[p] = "evict"

\* Apex "latest" never goes back to a lower number and never stops resolving:
\* whatever is created, published, aged and evicted in whatever order, unless an
\* eviction had listed a release of the default branch as abandoned and it was
\* published before its batch ran (GetLatestRelease, ListEvictableReleases).
LatestNeverRegresses ==
    [][\A project \in Project : \A r \in Latest(project) :
          (\A s \in overtaken : rows[s].project = project => rows[s].branch # DefaultBranch)
          => \E s \in Latest(project)' : rows'[s].num >= rows[r].num]_vars

\* A draft leaves only with its deleted branch, and a build of the default
\* branch or a pushed image never leaves with one (ListAbandonedReleases,
\* ListNonDefaultBranchReleases).
OwnersBuildsAreKept ==
    [][\A r \in Evicted :
          /\ r \in draft => ~ByPolicy(r)
          /\ rows[r].branch \in {DefaultBranch, NoBranch} => ByPolicy(r)]_vars

\* Without failing statements an eviction that ends has deleted every release of
\* its list, as the comment on db.EvictReleases says.
EvictionIsTotal ==
    [][\A p \in Process :
          pc[p] = "evict" /\ pc'[p] = "idle" => victims[p] \cap live' = {}]_vars

\* Two releases whose numbers the server picked never share a number anywhere
\* in the family (GetMaxVersionNum).
FamilyNumbersUnique ==
    \A r, s \in live : rows[r].picked /\ rows[s].picked /\ rows[r].num = rows[s].num => r = s

\* What the inventory says keeps a release and what eviction takes are computed
\* apart, in Go and in SQL, and never disagree over one state: a release has no
\* hold exactly when the sweep lists it (Retention.Inventory, HoldUnknown).
HoldsMatchPlan ==
    \A r \in live :
        ReleaseHolds(r, old) = {} <=> r \in ListAbandonedReleases(old) \cup ListEvictableReleases(old)
=============================================================================
