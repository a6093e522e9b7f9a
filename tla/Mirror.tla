------------------------------- MODULE Mirror -------------------------------
(***************************************************************************)
(* The pull-through registry mirror (internal/mirror, internal/db/mirror): *)
(* a pull by tag resolves the tag, from the cached answer while it is      *)
(* young and from the upstream otherwise, then serves the manifest of that *)
(* digest, fetching and storing it when the mirror does not hold it; a     *)
(* pull by digest starts at the second half.  A janitor evicts rows and    *)
(* then the bytes nothing references.  One step is one statement, one      *)
(* access of the store or one answer of the upstream.                      *)
(*                                                                         *)
(* The module follows one tag of one repository.  The upstream moves and   *)
(* deletes it, and fails for a while.  Digests it named stay fetchable.    *)
(***************************************************************************)
EXTENDS Naturals, FiniteSets

CONSTANTS
    Pull,          \* requests; one that has ended may be made again
    Digest,        \* contents
    NoDigest,      \* no digest, no row
    TagTTL,        \* how long a tag's digest is used without asking
    LookupTime,    \* bound: a lookup of a tag takes no longer
    MaxMirrorTime  \* bound: the clock stops here

ASSUME MirrorTimes == TagTTL \in Nat /\ LookupTime \in Nat /\ MaxMirrorTime \in Nat
ASSUME NoDigestAssumption == NoDigest \notin Digest

VARIABLES
    mrNow,      \* the clock
    mrDown,     \* the upstream fails
    mrNames,    \* the digest the upstream's tag names, or NoDigest
    mrTag,      \* mirror_tags: [digest, checked], digest NoDigest for no row
    mrRow,      \* mirror_blobs: digests with a row
    mrFile,     \* digests whose bytes are in the store
    mrPull,     \* the pulls; since: the start of a lookup under way
    mrEvict,    \* the janitor: the digest it deletes and its next step
    mrLast      \* history: when the upstream last named each digest, per digest

mrVars == <<mrNow, mrDown, mrNames, mrTag, mrRow, mrFile, mrPull, mrEvict, mrLast>>

NoPull == [at |-> "new", digest |-> NoDigest, since |-> 0, sure |-> FALSE]

MirrorInit ==
    /\ mrNow = 0
    /\ mrDown = FALSE
    /\ mrNames = NoDigest
    /\ mrTag = [digest |-> NoDigest, checked |-> 0]
    /\ mrRow = {}
    /\ mrFile = {}
    /\ mrPull = [p \in Pull |-> NoPull]
    /\ mrEvict = [digest |-> NoDigest, at |-> "idle"]
    /\ mrLast = [d \in Digest |-> MaxMirrorTime + 1]

----------------------------------------------------------------------------
(* Pulls.                                                                  *)

PullTo(p, f) == mrPull' = [mrPull EXCEPT ![p] = [k \in DOMAIN @ |-> IF k \in DOMAIN f THEN f[k] ELSE @[k]]]

Failed(p) == PullTo(p, [at |-> "failed", digest |-> NoDigest, since |-> 0])

Free == {"new", "failed"}

\* History: the mirror holds the tag and the content it names.
HoldsTag == mrTag.digest \in mrRow \cap mrFile

TagFresh == mrTag.digest # NoDigest /\ mrNow - mrTag.checked < TagTTL

\* resolveTag: GetMirrorTag, answered from the row while it is fresh.
PullTag(p) ==
    /\ mrPull[p].at \in Free
    /\ PullTo(p, [at |-> IF TagFresh THEN "stored" ELSE "head",
                digest |-> mrTag.digest, since |-> IF TagFresh THEN 0 ELSE mrNow,
                sure |-> HoldsTag /\ mrDown /\ mrEvict.at = "idle"])
    /\ UNCHANGED <<mrNow, mrDown, mrNames, mrTag, mrRow, mrFile, mrEvict, mrLast>>

\* A manifest or a blob is pulled by digest.
PullDigest(p) ==
    /\ mrPull[p].at \in Free
    /\ \E d \in Digest : PullTo(p, [at |-> "stored", digest |-> d, since |-> 0, sure |-> FALSE])
    /\ UNCHANGED <<mrNow, mrDown, mrNames, mrTag, mrRow, mrFile, mrEvict, mrLast>>

\* resolveTag when the upstream does not answer, without the fallback.
UpstreamFailedGivesUp(p) == Failed(p)

\* resolveTag when the upstream does not answer: the digest it named last serves.
UpstreamFailed(p) ==
    IF mrPull[p].digest # NoDigest THEN PullTo(p, [at |-> "stored", since |-> 0]) ELSE Failed(p)

\* headManifest: the upstream names a digest, has no such tag, or fails.
HeadManifest(p) ==
    /\ mrPull[p].at = "head"
    /\ \/ mrDown /\ UpstreamFailed(p)
       \/ ~mrDown /\ mrNames # NoDigest /\ PullTo(p, [at |-> "put", digest |-> mrNames])
       \/ ~mrDown /\ mrNames = NoDigest /\ Failed(p)
    /\ UNCHANGED <<mrNow, mrDown, mrNames, mrTag, mrRow, mrFile, mrEvict, mrLast>>

\* UpsertMirrorTag, keeping the time of the first answer.
PutTagOnce(p) ==
    /\ mrPull[p].at = "put"
    /\ mrTag' = [digest |-> IF mrTag.digest = NoDigest THEN mrPull[p].digest ELSE mrTag.digest,
                 checked |-> mrNow]
    /\ PullTo(p, [at |-> "stored", since |-> 0])
    /\ UNCHANGED <<mrNow, mrDown, mrNames, mrRow, mrFile, mrEvict, mrLast>>

\* UpsertMirrorTag.
PutTag(p) ==
    /\ mrPull[p].at = "put"
    /\ mrTag' = [digest |-> mrPull[p].digest, checked |-> mrNow]
    /\ PullTo(p, [at |-> "stored", since |-> 0])
    /\ UNCHANGED <<mrNow, mrDown, mrNames, mrRow, mrFile, mrEvict, mrLast>>

\* DeleteMirrorTagsForDigest.
ForgetTags(d) == mrTag' = IF mrTag.digest = d THEN [digest |-> NoDigest, checked |-> 0] ELSE mrTag

\* stored: a row whose bytes are gone is dropped with its tags, and the content fetched again.
Stored(p) ==
    LET d == mrPull[p].digest
    IN  /\ mrPull[p].at = "stored"
        /\ \/ /\ d \in mrRow \cap mrFile
              /\ PullTo(p, [at |-> "serve"])
              /\ UNCHANGED <<mrRow, mrTag>>
           \/ /\ d \in mrRow \ mrFile
              /\ mrRow' = mrRow \ {d} /\ ForgetTags(d)
              /\ PullTo(p, [at |-> "fetch"])
           \/ /\ d \notin mrRow
              /\ PullTo(p, [at |-> "fetch"])
              /\ UNCHANGED <<mrRow, mrTag>>
        /\ UNCHANGED <<mrNow, mrDown, mrNames, mrFile, mrEvict, mrLast>>

\* fetchManifest, fetchBlob: content that does not match its digest fails and
\* is not stored.
Fetch(p) ==
    /\ mrPull[p].at = "fetch"
    /\ \/ ~mrDown /\ PullTo(p, [at |-> "store"])
       \/ Failed(p)
    /\ UNCHANGED <<mrNow, mrDown, mrNames, mrTag, mrRow, mrFile, mrEvict, mrLast>>

\* save: the bytes, and then the row; an existing row is kept (DO NOTHING).
StoreBytes(p) ==
    /\ mrPull[p].at = "store"
    /\ mrFile' = mrFile \cup {mrPull[p].digest}
    /\ PullTo(p, [at |-> "insert"])
    /\ UNCHANGED <<mrNow, mrDown, mrNames, mrTag, mrRow, mrEvict, mrLast>>

InsertRow(p) ==
    /\ mrPull[p].at = "insert"
    /\ mrRow' = mrRow \cup {mrPull[p].digest}
    /\ PullTo(p, [at |-> "serve"])
    /\ UNCHANGED <<mrNow, mrDown, mrNames, mrTag, mrFile, mrEvict, mrLast>>

\* serveStored: opening the bytes fails when they went in between.
ServeStored(p) ==
    /\ mrPull[p].at = "serve"
    /\ IF mrPull[p].digest \in mrFile THEN mrPull' = [mrPull EXCEPT ![p] = NoPull] ELSE Failed(p)
    /\ UNCHANGED <<mrNow, mrDown, mrNames, mrTag, mrRow, mrFile, mrEvict, mrLast>>

----------------------------------------------------------------------------
(* The janitor.  Idle rows go, and under disk pressure any row may: which  *)
(* one is next is left open.                                               *)

\* History: an eviction or an upstream that answers makes no pull a sure one.
Unsure == mrPull' = [p \in Pull |-> [mrPull[p] EXCEPT !.sure = FALSE]]

\* DeleteMirrorBlob, first statement.
EvictTags ==
    /\ mrEvict.at = "idle"
    /\ \E d \in mrRow :
          /\ ForgetTags(d)
          /\ mrEvict' = [digest |-> d, at |-> "row"]
    /\ Unsure
    /\ UNCHANGED <<mrNow, mrDown, mrNames, mrRow, mrFile, mrLast>>

\* Its second statement.
EvictRow ==
    /\ mrEvict.at = "row"
    /\ mrRow' = mrRow \ {mrEvict.digest}
    /\ mrEvict' = [mrEvict EXCEPT !.at = "check"]
    /\ UNCHANGED <<mrNow, mrDown, mrNames, mrTag, mrFile, mrPull, mrLast>>

\* DeleteBlobIfUnreferenced: the reference check, and then the delete.
EvictCheck ==
    /\ mrEvict.at = "check"
    /\ mrEvict' = IF mrEvict.digest \in mrRow THEN [digest |-> NoDigest, at |-> "idle"]
                  ELSE [mrEvict EXCEPT !.at = "bytes"]
    /\ UNCHANGED <<mrNow, mrDown, mrNames, mrTag, mrRow, mrFile, mrPull, mrLast>>

EvictBytes ==
    /\ mrEvict.at = "bytes"
    /\ mrFile' = mrFile \ {mrEvict.digest}
    /\ mrEvict' = [digest |-> NoDigest, at |-> "idle"]
    /\ UNCHANGED <<mrNow, mrDown, mrNames, mrTag, mrRow, mrPull, mrLast>>

----------------------------------------------------------------------------
(* The upstream and time (external).                                       *)

Retag ==
    /\ \E d \in Digest \cup {NoDigest} : d # mrNames /\ mrNames' = d
    /\ mrLast' = [d \in Digest |-> IF d \in {mrNames, mrNames'} THEN mrNow ELSE mrLast[d]]
    /\ UNCHANGED <<mrNow, mrDown, mrTag, mrRow, mrFile, mrPull, mrEvict>>

Outage ==
    /\ mrDown' = ~mrDown
    /\ Unsure
    /\ UNCHANGED <<mrNow, mrNames, mrTag, mrRow, mrFile, mrEvict, mrLast>>

MirrorTick ==
    /\ mrNow < MaxMirrorTime
    /\ \A p \in Pull : mrPull[p].at \in {"head", "put"} => mrNow < mrPull[p].since + LookupTime
    /\ mrNow' = mrNow + 1
    /\ mrLast' = [d \in Digest |-> IF d = mrNames THEN mrNow + 1 ELSE mrLast[d]]
    /\ UNCHANGED <<mrDown, mrNames, mrTag, mrRow, mrFile, mrPull, mrEvict>>

MirrorNext ==
    \/ \E p \in Pull : \/ PullTag(p) \/ PullDigest(p) \/ HeadManifest(p) \/ PutTag(p) \/ Stored(p)
                       \/ Fetch(p) \/ StoreBytes(p) \/ InsertRow(p) \/ ServeStored(p)
    \/ EvictTags \/ EvictRow \/ EvictCheck \/ EvictBytes
    \/ Retag \/ Outage \/ MirrorTick

MirrorSpec == MirrorInit /\ [][MirrorNext]_mrVars

----------------------------------------------------------------------------
(* Properties.                                                             *)

\* Types of the tables and the pulls.
MirrorTypeOK ==
    /\ mrTag \in [digest : Digest \cup {NoDigest}, checked : 0..MaxMirrorTime]
    /\ mrRow \subseteq Digest /\ mrFile \subseteq Digest
    /\ mrPull \in [Pull -> [at : {"new", "head", "put", "stored", "fetch", "store", "insert", "serve", "failed"},
                            digest : Digest \cup {NoDigest}, since : 0..MaxMirrorTime,
                            sure : BOOLEAN]]
    /\ mrEvict \in [digest : Digest \cup {NoDigest}, at : {"idle", "row", "check", "bytes"}]

\* A tag the mirror answers from its row was named by the upstream no longer
\* ago than the age of the row allows, also when the upstream moved the tag
\* between another pull's HEAD and its write (resolveTag, PutMirrorTag).
TagsAreRecent ==
    /\ MirrorTypeOK
    /\ mrTag.digest # NoDigest =>
         /\ mrLast[mrTag.digest] <= MaxMirrorTime
         /\ mrTag.checked <= mrLast[mrTag.digest] + LookupTime

\* "A registry outage does not stop a pull the mirror already holds": a pull
\* of a tag that began in an outage with the tag and its content held, and
\* saw no eviction and no end of the outage, does not fail (resolveTag).
OutageServesHeld == \A p \in Pull : mrPull[p].sure => mrPull[p].at # "failed"
=============================================================================
