------------------------ MODULE BlobLifecycleProofs ------------------------
(***************************************************************************)
(* Proofs about BlobLifecycle and Inventory, for any number of processes,  *)
(* keys and rows.                                                          *)
(***************************************************************************)
EXTENDS Inventory, FiniteSetTheorems, TLAPS

(***************************************************************************)
(* Types                                                                   *)
(***************************************************************************)

\* Operations that carry the key they store or refer to.
Writers == {"upload", "hashref", "runfile", "cache", "site", "ocipush", "ocilink",
            "mirror", "gozip", "package", "digest"}

WriteLabels == {"owned", "exists", "open", "held", "stored", "put", "rename", "readold", "record"}

\* What the label and the operation of a process say about its other locals.
LocalOK(l, o, k, s, f) ==
    /\ o \in Writers => k \in Key
    /\ o \in {"upload", "hashref", "package", "digest"} => s \in Release
    /\ o = "runfile" => s \in RunFile
    /\ o = "cache" => s \in CacheEntry
    /\ o = "site" => s \in Site
    /\ o = "gozip" => s \in GoVersion
    /\ l \in WriteLabels => o \in Writers
    /\ l = "readold" => o = "runfile"
    /\ l \notin {"evict", "purge", "delete"} => f = {}

LocalsOK == \A p \in Process : LocalOK(pc[p], op[p], key[p], slot[p], freed[p])

ProcessOK == ProcessTypeOK /\ LocalsOK

\* A handler that returns leaves its locals well formed.
LEMMA FinishOK ==
    ASSUME ProcessOK, NEW p \in Process, Finish(p)
    PROVE  ProcessOK'
BY DEF ProcessOK, ProcessTypeOK, LocalsOK, LocalOK, Finish, Labels, Writers, WriteLabels, KeyOrNone

\* A jump to another label of the same operation.
LEMMA GotoOK ==
    ASSUME ProcessOK, NEW p \in Process, NEW l \in Labels, Goto(p, l),
           LocalOK(l, op[p], key[p], slot[p], freed[p])
    PROVE  ProcessOK'
BY DEF ProcessOK, ProcessTypeOK, LocalsOK, Goto

\* The sweep of the keys a request dropped starts with real keys only.
LEMMA ThenSweepOK ==
    ASSUME ProcessOK, NEW p \in Process, NEW K \in SUBSET KeyOrNone, ThenSweep(p, K),
           freed[p] = {}
    PROVE  ProcessOK'
<1>1. CASE K \ {NoKey} = {}
  BY <1>1, FinishOK DEF ThenSweep
<1>2. CASE K \ {NoKey} # {}
  <2>1. K \ {NoKey} \in SUBSET Key
    BY DEF KeyOrNone
  <2>2. /\ pc' = [pc EXCEPT ![p] = "check"]
        /\ doomed' = [doomed EXCEPT ![p] = K \ {NoKey}]
        /\ UNCHANGED <<op, key, slot, victims, old, freed>>
    BY <1>2 DEF ThenSweep
  <2>3. ProcessTypeOK'
    BY <2>1, <2>2 DEF ProcessOK, ProcessTypeOK, Labels
  <2>4. LocalsOK'
    BY <2>2 DEF ProcessOK, ProcessTypeOK, LocalsOK, LocalOK, WriteLabels
  <2>. QED BY <2>3, <2>4 DEF ProcessOK
<1>. QED BY <1>1, <1>2

TypeInv == StorageTypeOK /\ ProcessOK

\* The history variable only ever collects keys.
LEMMA ObserveOK ==
    ASSUME raced \subseteq Key, Observe
    PROVE  raced' \subseteq Key
BY DEF Observe, Overlap

\* A request or a sweep that starts with well-formed locals.
LEMMA BeginOK ==
    ASSUME TypeInv, NEW p \in Process, NEW o \in AllOps, NEW l \in Labels, NEW k \in KeyOrNone,
           NEW s \in Release \cup RunFile \cup CacheEntry \cup Site \cup GoVersion \cup {NoKey},
           Begin(p, o, l, k, s), LocalOK(l, o, k, s, {})
    PROVE  TypeInv'
<1>1. StorageTypeOK'
  BY ObserveOK DEF TypeInv, StorageTypeOK, Begin, tables
<1>2. freed[p] = {}
  BY DEF TypeInv, ProcessOK, LocalsOK, LocalOK, Begin
<1>3. ProcessTypeOK'
  BY DEF TypeInv, ProcessOK, ProcessTypeOK, Begin
<1>4. LocalsOK'
  BY <1>2 DEF TypeInv, ProcessOK, ProcessTypeOK, LocalsOK, Begin
<1>. QED BY <1>1, <1>3, <1>4 DEF TypeInv, ProcessOK

\* Every request starts with well-formed locals.
LEMMA BeginRequestType ==
    ASSUME TypeInv, NEW p \in Process, BeginRequest(p)
    PROVE  TypeInv'
<1>. USE DEF LocalOK, Writers, WriteLabels, AllOps, Counted, Uncounted, Labels, KeyOrNone
<1>1. CASE BeginUpload(p)
  BY <1>1, BeginOK DEF BeginUpload
<1>2. CASE BeginHashRef(p)
  BY <1>2, BeginOK DEF BeginHashRef
<1>3. CASE BeginRunFile(p)
  BY <1>3, BeginOK DEF BeginRunFile
<1>4. CASE BeginCache(p)
  BY <1>4, BeginOK DEF BeginCache
<1>5. CASE BeginSite(p)
  BY <1>5, BeginOK DEF BeginSite
<1>6. CASE BeginUnsite(p)
  BY <1>6, BeginOK DEF BeginUnsite
<1>7. CASE BeginOCIPush(p)
  BY <1>7, BeginOK DEF BeginOCIPush
<1>8. CASE BeginOCILink(p)
  BY <1>8, BeginOK DEF BeginOCILink
<1>9. CASE BeginMirror(p)
  BY <1>9, BeginOK DEF BeginMirror
<1>10. CASE BeginGoZip(p)
  BY <1>10, BeginOK DEF BeginGoZip
<1>11. CASE BeginPackage(p)
  BY <1>11, BeginOK DEF BeginPackage
<1>12. CASE BeginDigest(p)
  <2>1. PICK r \in Release : artifact[r] # NoKey /\ Begin(p, "digest", "open", artifact[r], r)
    BY <1>12 DEF BeginDigest
  <2>2. artifact[r] \in Key
    BY <2>1 DEF TypeInv, StorageTypeOK
  <2>. QED BY <2>1, <2>2, BeginOK
<1>. QED BY <1>1, <1>2, <1>3, <1>4, <1>5, <1>6, <1>7, <1>8, <1>9, <1>10, <1>11, <1>12
         DEF BeginRequest

\* So does every sweep.
LEMMA BeginSweepType ==
    ASSUME TypeInv, NEW p \in Process, BeginSweep(p)
    PROVE  TypeInv'
BY BeginOK DEF BeginSweep, LocalOK, Writers, WriteLabels, AllOps, Gated, Labels, KeyOrNone

\* The read steps (ownership, existence, opening a blob) keep the types.
LEMMA ReadsType ==
    ASSUME TypeInv, NEW p \in Process, Reads(p)
    PROVE  TypeInv'
<1>. USE DEF Labels, LocalOK, WriteLabels, Writers
<1>0. /\ StorageTypeOK /\ ProcessOK
      /\ LocalOK(pc[p], op[p], key[p], slot[p], freed[p])
  BY DEF TypeInv, ProcessOK, LocalsOK
<1>1. CASE CheckOwned(p)
  <2>1. StorageTypeOK'
    BY <1>0, <1>1, ObserveOK DEF StorageTypeOK, CheckOwned, tables
  <2>2. ProcessOK'
    BY <1>0, <1>1, FinishOK, GotoOK DEF CheckOwned
  <2>. QED BY <2>1, <2>2 DEF TypeInv
<1>2. CASE CheckExists(p)
  <2>1. StorageTypeOK'
    BY <1>0, <1>2, ObserveOK DEF StorageTypeOK, CheckExists, tables
  <2>2. Finish(p) \/ (op[p] = "hashref" /\ Goto(p, "open")) \/ (op[p] = "mirror" /\ Goto(p, "forget"))
    BY <1>2 DEF CheckExists
  <2>3. ProcessOK'
    BY <1>0, <1>2, <2>2, FinishOK, GotoOK DEF CheckExists
  <2>. QED BY <2>1, <2>3 DEF TypeInv
<1>3. CASE OpenBlob(p)
  <2>1. StorageTypeOK'
    BY <1>0, <1>3, ObserveOK DEF StorageTypeOK, OpenBlob, tables
  <2>2. ProcessOK'
    BY <1>0, <1>3, FinishOK, GotoOK DEF OpenBlob
  <2>. QED BY <2>1, <2>2 DEF TypeInv
<1>4. CASE CheckCacheHeld(p)
  <2>1. StorageTypeOK'
    BY <1>0, <1>4, ObserveOK DEF StorageTypeOK, CheckCacheHeld, tables
  <2>2. ProcessOK'
    BY <1>0, <1>4, FinishOK, GotoOK DEF CheckCacheHeld
  <2>. QED BY <2>1, <2>2 DEF TypeInv
<1>5. CASE CheckStored(p)
  <2>1. StorageTypeOK'
    BY <1>0, <1>5, ObserveOK DEF StorageTypeOK, CheckStored, tables
  <2>2. ProcessOK'
    BY <1>0, <1>5, GotoOK DEF CheckStored
  <2>. QED BY <2>1, <2>2 DEF TypeInv
<1>. QED BY <1>1, <1>2, <1>3, <1>4, <1>5 DEF Reads

\* Storage.Put keeps the types: it adds only the key of its content.
LEMMA PutsType ==
    ASSUME TypeInv, NEW p \in Process, Puts(p)
    PROVE  TypeInv'
<1>. USE DEF Labels, LocalOK, WriteLabels, Writers
<1>0. /\ StorageTypeOK /\ ProcessOK
      /\ LocalOK(pc[p], op[p], key[p], slot[p], freed[p])
  BY DEF TypeInv, ProcessOK, LocalsOK
<1>1. CASE PutStat(p)
  <2>1. StorageTypeOK'
    BY <1>0, <1>1, ObserveOK DEF StorageTypeOK, PutStat, tables
  <2>2. ProcessOK'
    BY <1>0, <1>1, GotoOK DEF PutStat, AfterPut
  <2>. QED BY <2>1, <2>2 DEF TypeInv
<1>2. CASE PutRename(p)
  <2>1. StorageTypeOK'
    BY <1>0, <1>2, ObserveOK DEF StorageTypeOK, PutRename, tables
  <2>2. ProcessOK'
    BY <1>0, <1>2, GotoOK DEF PutRename, AfterPut
  <2>. QED BY <2>1, <2>2 DEF TypeInv
<1>. QED BY <1>1, <1>2 DEF Puts

\* The inserts and upserts keep the types.
LEMMA RecordsType ==
    ASSUME TypeInv, NEW p \in Process, Records(p)
    PROVE  TypeInv'
<1>. USE DEF Labels, LocalOK, WriteLabels, Writers
<1>0. /\ StorageTypeOK /\ ProcessOK
      /\ LocalOK(pc[p], op[p], key[p], slot[p], freed[p])
  BY DEF TypeInv, ProcessOK, LocalsOK
<1>1. CASE RecordArtifact(p)
  <2>1. StorageTypeOK'
    BY <1>0, <1>1, ObserveOK DEF StorageTypeOK, KeyOrNone, RecordArtifact, tables
  <2>2. ProcessOK'
    BY <1>0, <1>1, FinishOK DEF RecordArtifact
  <2>. QED BY <2>1, <2>2 DEF TypeInv
<1>2. CASE RecordPackaged(p)
  <2>1. StorageTypeOK'
    BY <1>0, <1>2, ObserveOK DEF StorageTypeOK, KeyOrNone, RecordPackaged, tables
  <2>2. ProcessOK'
    BY <1>0, <1>2, FinishOK DEF RecordPackaged
  <2>. QED BY <2>1, <2>2 DEF TypeInv
<1>3. CASE ReadOldRunFile(p)
  <2>1. StorageTypeOK'
    BY <1>0, <1>3, ObserveOK DEF StorageTypeOK, KeyOrNone, ReadOldRunFile, tables
  <2>2. ProcessOK'
    BY <1>0, <1>3 DEF ReadOldRunFile, ProcessOK, ProcessTypeOK, LocalsOK, StorageTypeOK
  <2>. QED BY <2>1, <2>2 DEF TypeInv
<1>4. CASE RecordRunFile(p)
  <2>1. StorageTypeOK'
    BY <1>0, <1>4, ObserveOK DEF StorageTypeOK, KeyOrNone, RecordRunFile, tables
  <2>2. ProcessOK'
    BY <1>0, <1>4, ThenSweepOK, FinishOK DEF RecordRunFile, KeyOrNone, StorageTypeOK, ProcessOK, ProcessTypeOK
  <2>. QED BY <2>1, <2>2 DEF TypeInv
<1>5. CASE RecordCache(p)
  <2>1. StorageTypeOK'
    BY <1>0, <1>5, ObserveOK DEF StorageTypeOK, KeyOrNone, RecordCache, tables
  <2>2. ProcessOK'
    BY <1>0, <1>5, ThenSweepOK, FinishOK DEF RecordCache, KeyOrNone, StorageTypeOK, ProcessOK, ProcessTypeOK
  <2>. QED BY <2>1, <2>2 DEF TypeInv
<1>6. CASE RecordSite(p)
  <2>1. StorageTypeOK'
    BY <1>0, <1>6, ObserveOK DEF StorageTypeOK, KeyOrNone, RecordSite, tables
  <2>2. ProcessOK'
    BY <1>0, <1>6, ThenSweepOK, FinishOK DEF RecordSite, KeyOrNone, StorageTypeOK, ProcessOK, ProcessTypeOK
  <2>. QED BY <2>1, <2>2 DEF TypeInv
<1>7. CASE RecordOCILink(p)
  <2>1. StorageTypeOK'
    BY <1>0, <1>7, ObserveOK DEF StorageTypeOK, KeyOrNone, RecordOCILink, tables
  <2>2. ProcessOK'
    BY <1>0, <1>7, FinishOK DEF RecordOCILink
  <2>. QED BY <2>1, <2>2 DEF TypeInv
<1>8. CASE RecordMirror(p)
  <2>1. StorageTypeOK'
    BY <1>0, <1>8, ObserveOK DEF StorageTypeOK, KeyOrNone, RecordMirror, tables
  <2>2. ProcessOK'
    BY <1>0, <1>8, FinishOK DEF RecordMirror
  <2>. QED BY <2>1, <2>2 DEF TypeInv
<1>9. CASE RecordGoZip(p)
  <2>1. StorageTypeOK'
    BY <1>0, <1>9, ObserveOK DEF StorageTypeOK, KeyOrNone, RecordGoZip, tables
  <2>2. ProcessOK'
    BY <1>0, <1>9, FinishOK DEF RecordGoZip
  <2>. QED BY <2>1, <2>2 DEF TypeInv
<1>. QED BY <1>1, <1>2, <1>3, <1>4, <1>5, <1>6, <1>7, <1>8, <1>9 DEF Records

\* The deletes of rows keep the types.
LEMMA ForgetsType ==
    ASSUME TypeInv, NEW p \in Process, Forgets(p)
    PROVE  TypeInv'
<1>. USE DEF Labels, LocalOK, WriteLabels, Writers
<1>0. /\ StorageTypeOK /\ ProcessOK
      /\ LocalOK(pc[p], op[p], key[p], slot[p], freed[p])
  BY DEF TypeInv, ProcessOK, LocalsOK
<1>1. CASE ForgetSites(p)
  <2>1. StorageTypeOK'
    BY <1>0, <1>1, ObserveOK DEF StorageTypeOK, KeyOrNone, ForgetSites, tables
  <2>2. ProcessOK'
    BY <1>0, <1>1, ThenSweepOK, FinishOK DEF ForgetSites, KeyOrNone, StorageTypeOK, ProcessOK, ProcessTypeOK
  <2>. QED BY <2>1, <2>2 DEF TypeInv
<1>2. CASE ForgetMissingMirror(p)
  <2>1. StorageTypeOK'
    BY <1>0, <1>2, ObserveOK DEF StorageTypeOK, KeyOrNone, ForgetMissingMirror, tables
  <2>2. ProcessOK'
    BY <1>0, <1>2, GotoOK DEF ForgetMissingMirror
  <2>. QED BY <2>1, <2>2 DEF TypeInv
<1>3. CASE ListForJanitor(p)
  <2>1. StorageTypeOK'
    BY <1>0, <1>3, ObserveOK DEF StorageTypeOK, KeyOrNone, ListForJanitor, tables
  <2>2. ProcessOK'
    BY <1>0, <1>3 DEF ListForJanitor, ProcessOK, ProcessTypeOK, LocalsOK, StorageTypeOK
  <2>. QED BY <2>1, <2>2 DEF TypeInv
<1>4. CASE ForgetRun(p)
  <2>1. StorageTypeOK'
    BY <1>0, <1>4, ObserveOK DEF StorageTypeOK, KeyOrNone, ForgetRun, tables
  <2>2. ProcessOK'
    BY <1>0, <1>4, ThenSweepOK, FinishOK DEF ForgetRun, KeyOrNone, StorageTypeOK, ProcessOK, ProcessTypeOK
  <2>. QED BY <2>1, <2>2 DEF TypeInv
<1>5. CASE ForgetCacheEntry(p)
  <2>1. StorageTypeOK'
    BY <1>0, <1>5, ObserveOK DEF StorageTypeOK, KeyOrNone, ForgetCacheEntry, tables
  <2>2. ProcessOK'
    BY <1>0, <1>5 DEF ForgetCacheEntry, ProcessOK, ProcessTypeOK, LocalsOK, StorageTypeOK, ForgetVictim
  <2>. QED BY <2>1, <2>2 DEF TypeInv
<1>6. CASE ForgetMirrorBlob(p)
  <2>1. StorageTypeOK'
    BY <1>0, <1>6, ObserveOK DEF StorageTypeOK, KeyOrNone, ForgetMirrorBlob, tables
  <2>2. ProcessOK'
    BY <1>0, <1>6 DEF ForgetMirrorBlob, ProcessOK, ProcessTypeOK, LocalsOK, StorageTypeOK, ForgetVictim
  <2>. QED BY <2>1, <2>2 DEF TypeInv
<1>7. CASE ListForEviction(p)
  <2>1. StorageTypeOK'
    BY <1>0, <1>7, ObserveOK DEF StorageTypeOK, KeyOrNone, ListForEviction, tables
  <2>2. ProcessOK'
    BY <1>0, <1>7 DEF ListForEviction, ProcessOK, ProcessTypeOK, LocalsOK, StorageTypeOK
  <2>. QED BY <2>1, <2>2 DEF TypeInv
<1>8. CASE EvictBatch(p)
  <2>1. StorageTypeOK'
    BY <1>0, <1>8, ObserveOK DEF StorageTypeOK, KeyOrNone, EvictBatch, tables
  <2>2. ProcessOK'
    BY <1>0, <1>8 DEF EvictBatch, ProcessOK, ProcessTypeOK, LocalsOK, StorageTypeOK
  <2>. QED BY <2>1, <2>2 DEF TypeInv
<1>9. CASE EvictFails(p)
  <2>1. StorageTypeOK'
    BY <1>0, <1>9, ObserveOK DEF StorageTypeOK, KeyOrNone, EvictFails, tables
  <2>2. ProcessOK'
    BY <1>0, <1>9 DEF EvictFails, ProcessOK, ProcessTypeOK, LocalsOK, StorageTypeOK
  <2>. QED BY <2>1, <2>2 DEF TypeInv
<1>. QED BY <1>1, <1>2, <1>3, <1>4, <1>5, <1>6, <1>7, <1>8, <1>9 DEF Forgets

\* The reference check and the unlinks keep the types.
LEMMA DeletesType ==
    ASSUME TypeInv, NEW p \in Process, Deletes(p)
    PROVE  TypeInv'
<1>. USE DEF Labels, LocalOK, WriteLabels, Writers
<1>0. /\ StorageTypeOK /\ ProcessOK
      /\ LocalOK(pc[p], op[p], key[p], slot[p], freed[p])
  BY DEF TypeInv, ProcessOK, LocalsOK
<1>1. CASE CheckReferences(p)
  <2>1. StorageTypeOK'
    BY <1>0, <1>1, ObserveOK DEF StorageTypeOK, KeyOrNone, CheckReferences, tables
  <2>2. ProcessOK'
    BY <1>0, <1>1 DEF CheckReferences, ProcessOK, ProcessTypeOK, LocalsOK, StorageTypeOK
  <2>. QED BY <2>1, <2>2 DEF TypeInv
<1>2. CASE DeleteBlob(p)
  <2>1. StorageTypeOK'
    BY <1>0, <1>2, ObserveOK DEF StorageTypeOK, KeyOrNone, DeleteBlob, tables
  <2>2. ProcessOK'
    BY <1>0, <1>2, FinishOK DEF DeleteBlob, ProcessOK, ProcessTypeOK, LocalsOK, StorageTypeOK
  <2>. QED BY <2>1, <2>2 DEF TypeInv
<1>3. CASE PurgeFreed(p)
  <2>1. StorageTypeOK'
    BY <1>0, <1>3, ObserveOK DEF StorageTypeOK, KeyOrNone, PurgeFreed, tables
  <2>2. ProcessOK'
    BY <1>0, <1>3, FinishOK DEF PurgeFreed, ProcessOK, ProcessTypeOK, LocalsOK, StorageTypeOK
  <2>. QED BY <2>1, <2>2 DEF TypeInv
<1>. QED BY <1>1, <1>2, <1>3 DEF Deletes

\* A failure or a cancelled request keeps the types.
LEMMA AbortType ==
    ASSUME TypeInv, NEW p \in Process, Abort(p)
    PROVE  TypeInv'
<1>1. StorageTypeOK'
  BY ObserveOK DEF TypeInv, StorageTypeOK, ProcessOK, ProcessTypeOK, KeyOrNone, Abort, tables
<1>2. ProcessOK'
  BY FinishOK DEF TypeInv, Abort
<1>. QED BY <1>1, <1>2 DEF TypeInv

\* A new release keeps the types.
LEMMA CreateReleaseType ==
    ASSUME TypeInv, NEW r \in Release, CreateRelease(r)
    PROVE  TypeInv'
<1>1. StorageTypeOK'
  BY ObserveOK DEF TypeInv, StorageTypeOK, CreateRelease
<1>2. ProcessOK'
  BY DEF TypeInv, ProcessOK, ProcessTypeOK, LocalsOK, CreateRelease, locals
<1>. QED BY <1>1, <1>2 DEF TypeInv

\* The empty database is well typed.
LEMMA TypeInit == Init => TypeInv
<1>. SUFFICES ASSUME Init PROVE TypeInv
  OBVIOUS
<1>1. StorageTypeOK
  BY DEF Init, StorageTypeOK, KeyOrNone
<1>2. ProcessTypeOK
  BY DEF Init, ProcessTypeOK, KeyOrNone, Labels
<1>3. LocalsOK
  BY DEF Init, LocalsOK, LocalOK, WriteLabels, Writers
<1>. QED BY <1>1, <1>2, <1>3 DEF TypeInv, ProcessOK

\* The type invariant is inductive: one case per group of actions.
LEMMA TypeStep == TypeInv /\ [Next]_vars => TypeInv'
<1>. SUFFICES ASSUME TypeInv, [Next]_vars PROVE TypeInv'
  OBVIOUS
<1>1. CASE UNCHANGED vars
  BY <1>1 DEF TypeInv, StorageTypeOK, ProcessOK, ProcessTypeOK, LocalsOK, vars, tables, locals
<1>2. CASE Next
  BY <1>2, CreateReleaseType, BeginRequestType, BeginSweepType, ReadsType, PutsType,
     RecordsType, ForgetsType, DeletesType, AbortType DEF Next
<1>. QED BY <1>1, <1>2

\* Type correctness: no step of any request, janitor or sweep stores, checks or
\* unlinks anything that is not a storage key.
THEOREM TypeCorrect == Spec => []TypeOK
<1>1. TypeInv => TypeOK
  BY DEF TypeInv, TypeOK, ProcessOK
<1>. QED BY <1>1, TypeInit, TypeStep, PTL DEF Spec

(***************************************************************************)
(* A blob is lost only when a write's window and a delete's window overlap *)
(***************************************************************************)

\* The inductive invariant.  LostOnlyByOverlap alone is not inductive: what a
\* write relies on, and what a delete is about to unlink, has to be tied to
\* the rows as well.
SafeInv ==
    /\ LostOnlyByOverlap
    /\ \A p \in Process, k \in Key : Relies(p, k) => k \in blobs \cup raced
    /\ \A q \in Process : freed[q] \cap Named \subseteq raced
    /\ Overlap \subseteq raced

\* Every step has this shape: a row is recorded only for a key the process
\* relies on, a file goes only if it was found unreferenced, a process comes to
\* rely on a file only if it is there or a row names it, and a key is marked
\* for deletion only if no row names it.
StepShape ==
    /\ Named' \subseteq Named \cup {k \in Key : \E p \in Process : Relies(p, k)}
    /\ blobs \ blobs' \subseteq UNION {freed[q] : q \in Process}
    /\ \A p \in Process, k \in Key : Relies(p, k)' => Relies(p, k) \/ k \in blobs' \/ k \in Named
    /\ \A q \in Process : freed'[q] \cap Named' \subseteq freed[q]
    /\ Observe

\* A step of that shape preserves the invariant.
LEMMA ShapeIsSafe ==
    ASSUME TypeInv, TypeInv', SafeInv, StepShape
    PROVE  SafeInv'
<1>0. raced \subseteq raced' /\ Overlap' \subseteq raced'
  BY DEF StepShape, Observe
<1>1. \A k \in Key : k \in Named \cap (blobs \cup raced) => k \in blobs' \cup raced'
  BY <1>0 DEF SafeInv, StepShape
<1>2. \A p \in Process, k \in Key : Relies(p, k) => k \in blobs' \cup raced'
  BY <1>0 DEF SafeInv, StepShape, Overlap
<1>3. Named \subseteq Key /\ Named' \subseteq Key
  BY DEF Named, TypeInv, StorageTypeOK
<1>4. LostOnlyByOverlap'
  BY <1>1, <1>2, <1>3 DEF SafeInv, StepShape, LostOnlyByOverlap
<1>5. \A p \in Process, k \in Key : Relies(p, k)' => k \in blobs' \cup raced'
  BY <1>1, <1>2 DEF SafeInv, StepShape, LostOnlyByOverlap
<1>6. \A q \in Process : freed'[q] \cap Named' \subseteq raced'
  BY <1>0, <1>3 DEF SafeInv, StepShape, Overlap
<1>. QED BY <1>0, <1>4, <1>5, <1>6 DEF SafeInv

\* The reference check looks at every table that names keys.
LEMMA NamedIsReferenced ==
    ASSUME TypeInv, NEW k \in Key
    PROVE  k \in Named <=> IsBlobReferenced(k)
BY DEF Named, IsBlobReferenced

\* Tables that do not change name the same keys.
LEMMA NamedFrame ==
    ASSUME UNCHANGED tables
    PROVE  Named' = Named
BY DEF Named, Holds, tables

ReliesFrame == \A p \in Process, k \in Key : Relies(p, k)' => Relies(p, k)
FreedFrame  == \A q \in Process : freed'[q] \subseteq freed[q]

\* A handler that returns relies on nothing and frees nothing more.
LEMMA FinishShape ==
    ASSUME TypeInv, NEW p \in Process, Finish(p)
    PROVE  ReliesFrame /\ FreedFrame
BY DEF TypeInv, ProcessOK, ProcessTypeOK, ReliesFrame, FreedFrame, Relies, Finish

\* Neither does a request that goes on to check what it dropped.
LEMMA ThenSweepShape ==
    ASSUME TypeInv, NEW p \in Process, NEW K, ThenSweep(p, K)
    PROVE  ReliesFrame /\ FreedFrame
BY FinishShape DEF TypeInv, ProcessOK, ProcessTypeOK, ReliesFrame, FreedFrame, Relies, ThenSweep

\* A jump can only make the process itself rely on its own key.
LEMMA GotoShape ==
    ASSUME TypeInv, NEW p \in Process, NEW l, Goto(p, l),
           l \in {"open", "readold", "record"} =>
               Relies(p, key[p]) \/ key[p] \in blobs' \/ key[p] \in Named
    PROVE  /\ \A q \in Process, k \in Key : Relies(q, k)' => Relies(q, k) \/ k \in blobs' \/ k \in Named
           /\ FreedFrame
BY DEF TypeInv, ProcessOK, ProcessTypeOK, FreedFrame, Relies, Goto

\* Starting an operation relies on no blob and frees none.
LEMMA BeginShape ==
    ASSUME TypeInv, NEW p \in Process, NEW o, NEW l, NEW k, NEW s, Begin(p, o, l, k, s),
           l \in {"open", "readold", "record"} => k \in Named
    PROVE  StepShape
<1>1. Named' = Named
  BY NamedFrame DEF Begin
<1>2. \A q \in Process, c \in Key : Relies(q, c)' => Relies(q, c) \/ c \in Named
  BY DEF TypeInv, ProcessOK, ProcessTypeOK, Relies, Begin
<1>. QED BY <1>1, <1>2 DEF StepShape, Begin

\* Starting any request has the safe shape.
LEMMA BeginRequestShape ==
    ASSUME TypeInv, NEW p \in Process, BeginRequest(p)
    PROVE  StepShape
<1>1. CASE BeginDigest(p)
  <2>1. PICK r \in Release : artifact[r] # NoKey /\ Begin(p, "digest", "open", artifact[r], r)
    BY <1>1 DEF BeginDigest
  <2>2. artifact[r] \in Named
    BY <2>1 DEF TypeInv, StorageTypeOK, KeyOrNone, Named, Holds
  <2>. QED BY <2>1, <2>2, BeginShape
<1>2. CASE ~BeginDigest(p)
  BY <1>2, BeginShape DEF BeginRequest, BeginUpload, BeginHashRef, BeginRunFile, BeginCache,
     BeginSite, BeginUnsite, BeginOCIPush, BeginOCILink, BeginMirror, BeginGoZip, BeginPackage
<1>. QED BY <1>1, <1>2

\* Starting any sweep has the safe shape.
LEMMA BeginSweepShape ==
    ASSUME TypeInv, NEW p \in Process, BeginSweep(p)
    PROVE  StepShape
BY BeginShape DEF BeginSweep

\* Creating a release has the safe shape: it names no key.
LEMMA CreateReleaseShape ==
    ASSUME TypeInv, NEW r \in Release, CreateRelease(r)
    PROVE  StepShape
<1>1. Named' = Named
  BY DEF CreateRelease, Named, Holds
<1>2. ReliesFrame /\ FreedFrame
  BY DEF ReliesFrame, FreedFrame, Relies, CreateRelease, locals
<1>. QED BY <1>1, <1>2 DEF StepShape, ReliesFrame, FreedFrame, CreateRelease

\* A read that finds a blob makes its process rely on that key only.
LEMMA ReadsShape ==
    ASSUME TypeInv, NEW p \in Process, Reads(p)
    PROVE  StepShape
<1>1. Named' = Named /\ blobs' = blobs /\ Observe
  BY NamedFrame DEF Reads, CheckOwned, CheckExists, OpenBlob, CheckCacheHeld, CheckStored
<1>2. SUFFICES /\ \A q \in Process, k \in Key :
                     Relies(q, k)' => Relies(q, k) \/ k \in blobs' \/ k \in Named
               /\ FreedFrame
  BY <1>1 DEF StepShape, FreedFrame
<1>3. CASE CheckOwned(p)
  <2>1. BlobBelongsToProject(key[p]) /\ key[p] \in Key => key[p] \in Named
    BY DEF BlobBelongsToProject, Named
  <2>2. key[p] \in Key
    BY <1>3 DEF CheckOwned, TypeInv, ProcessOK, LocalsOK, LocalOK, WriteLabels, Writers
  <2>. QED BY <1>3, <2>1, <2>2, FinishShape, GotoShape DEF CheckOwned, ReliesFrame
<1>4. CASE CheckExists(p)
  <2>1. Finish(p) \/ (Goto(p, "open") /\ key[p] \in blobs) \/ Goto(p, "forget")
    BY <1>4 DEF CheckExists
  <2>. QED BY <1>1, <2>1, FinishShape, GotoShape DEF ReliesFrame
<1>5. CASE OpenBlob(p)
  BY <1>1, <1>5, FinishShape, GotoShape DEF OpenBlob, ReliesFrame
<1>6. CASE CheckCacheHeld(p)
  BY <1>6, FinishShape, GotoShape DEF CheckCacheHeld, ReliesFrame
<1>7. CASE CheckStored(p)
  BY <1>7, GotoShape DEF CheckStored
<1>. QED BY <1>3, <1>4, <1>5, <1>6, <1>7 DEF Reads

\* Put makes its process rely on a key that is stored afterwards.
LEMMA PutsShape ==
    ASSUME TypeInv, NEW p \in Process, Puts(p)
    PROVE  StepShape
<1>1. Named' = Named /\ blobs \subseteq blobs' /\ Observe
  BY NamedFrame DEF Puts, PutStat, PutRename
<1>2. PICK l : Goto(p, l) /\ (l = "rename" \/ key[p] \in blobs')
  BY DEF Puts, PutStat, PutRename
<1>. QED BY <1>1, <1>2, GotoShape DEF StepShape, FreedFrame

\* A row that gains a key names the one its process relies on.
LEMMA RecordsShape ==
    ASSUME TypeInv, NEW p \in Process, Records(p)
    PROVE  StepShape
<1>1. blobs' = blobs /\ Observe
  BY DEF Records, RecordArtifact, RecordPackaged, ReadOldRunFile, RecordRunFile, RecordCache,
     RecordSite, RecordOCILink, RecordMirror, RecordGoZip
<1>2. Relies(p, key[p]) /\ key[p] \in Key
  BY DEF Records, RecordArtifact, RecordPackaged, ReadOldRunFile, RecordRunFile, RecordCache,
     RecordSite, RecordOCILink, RecordMirror, RecordGoZip, Relies,
     TypeInv, ProcessOK, LocalsOK, LocalOK, WriteLabels, Writers
<1>3. SUFFICES Named' \subseteq Named \cup {key[p]} /\ ReliesFrame /\ FreedFrame
  BY <1>1, <1>2 DEF StepShape, ReliesFrame, FreedFrame
<1>. USE DEF Named, Holds, tables
<1>4. CASE RecordArtifact(p)
  BY <1>4, FinishShape DEF RecordArtifact, TypeInv, StorageTypeOK
<1>5. CASE RecordPackaged(p)
  BY <1>5, FinishShape DEF RecordPackaged, TypeInv, StorageTypeOK
<1>6. CASE ReadOldRunFile(p)
  BY <1>6 DEF ReadOldRunFile, ReliesFrame, FreedFrame, Relies, TypeInv, ProcessOK, ProcessTypeOK
<1>7. CASE RecordRunFile(p)
  BY <1>7, ThenSweepShape DEF RecordRunFile, TypeInv, StorageTypeOK
<1>8. CASE RecordCache(p)
  BY <1>8, FinishShape, ThenSweepShape DEF RecordCache, TypeInv, StorageTypeOK
<1>9. CASE RecordSite(p)
  BY <1>9, ThenSweepShape DEF RecordSite, TypeInv, StorageTypeOK
<1>10. CASE RecordOCILink(p)
  BY <1>10, FinishShape DEF RecordOCILink
<1>11. CASE RecordMirror(p)
  BY <1>11, FinishShape DEF RecordMirror
<1>12. CASE RecordGoZip(p)
  BY <1>12, FinishShape DEF RecordGoZip, TypeInv, StorageTypeOK
<1>. QED BY <1>4, <1>5, <1>6, <1>7, <1>8, <1>9, <1>10, <1>11, <1>12 DEF Records

\* Deleting rows names no new key, and an eviction frees only keys no row names.
LEMMA ForgetsShape ==
    ASSUME TypeInv, NEW p \in Process, Forgets(p)
    PROVE  StepShape
<1>1. blobs' = blobs /\ Observe
  BY DEF Forgets, ForgetSites, ForgetMissingMirror, ListForJanitor, ForgetRun, ForgetCacheEntry,
     ForgetMirrorBlob, ListForEviction, EvictBatch, EvictFails
<1>2. CASE EvictBatch(p)
  <2>1. Named' \subseteq Named
    BY <1>2, NoKeyAssumption DEF EvictBatch, Named, Holds, TypeInv, StorageTypeOK
  <2>2. ReliesFrame
    BY <1>2 DEF EvictBatch, ReliesFrame, Relies, TypeInv, ProcessOK, ProcessTypeOK
  <2>3. \A k \in Key : k \in Named' => IsBlobReferenced(k)'
    BY DEF Named, IsBlobReferenced
  <2>4. \A q \in Process : freed'[q] \cap Named' \subseteq freed[q]
    BY <1>2, <2>3 DEF EvictBatch, TypeInv, ProcessOK, ProcessTypeOK
  <2>. QED BY <1>1, <2>1, <2>2, <2>4 DEF StepShape, ReliesFrame
<1>3. SUFFICES ASSUME ~EvictBatch(p)
               PROVE  Named' \subseteq Named /\ ReliesFrame /\ FreedFrame
  BY <1>1, <1>2 DEF StepShape, ReliesFrame, FreedFrame
<1>. USE DEF ReliesFrame, FreedFrame, tables
<1>4. CASE ForgetSites(p)
  BY <1>4, NoKeyAssumption, ThenSweepShape DEF ForgetSites, TypeInv, StorageTypeOK, Named, Holds
<1>5. CASE ForgetMissingMirror(p)
  BY <1>5 DEF ForgetMissingMirror, Goto, Named, Holds, Relies, TypeInv, ProcessOK, ProcessTypeOK
<1>6. CASE ListForJanitor(p)
  BY <1>6, NamedFrame DEF ListForJanitor, Relies, TypeInv, ProcessOK, ProcessTypeOK
<1>7. CASE ForgetRun(p)
  BY <1>7, NoKeyAssumption, ThenSweepShape DEF ForgetRun, TypeInv, StorageTypeOK, Named, Holds
<1>8. CASE ForgetCacheEntry(p)
  <2>1. Named' \subseteq Named
    BY <1>8, NoKeyAssumption DEF ForgetCacheEntry, Named, Holds, TypeInv, StorageTypeOK
  <2>2. ReliesFrame /\ FreedFrame
    BY <1>8 DEF ForgetCacheEntry, ForgetVictim, Relies, TypeInv, ProcessOK, ProcessTypeOK
  <2>. QED BY <2>1, <2>2
<1>9. CASE ForgetMirrorBlob(p)
  <2>1. Named' \subseteq Named
    BY <1>9 DEF ForgetMirrorBlob, Named, Holds
  <2>2. ReliesFrame /\ FreedFrame
    BY <1>9 DEF ForgetMirrorBlob, ForgetVictim, Relies, TypeInv, ProcessOK, ProcessTypeOK
  <2>. QED BY <2>1, <2>2
<1>10. CASE ListForEviction(p)
  BY <1>10, NamedFrame DEF ListForEviction, Relies, TypeInv, ProcessOK, ProcessTypeOK
<1>11. CASE EvictFails(p)
  BY <1>11, NamedFrame DEF EvictFails, Relies, TypeInv, ProcessOK, ProcessTypeOK
<1>. QED BY <1>3, <1>4, <1>5, <1>6, <1>7, <1>8, <1>9, <1>10, <1>11 DEF Forgets

\* A key is unlinked only after a check that found it unreferenced.
LEMMA DeletesShape ==
    ASSUME TypeInv, NEW p \in Process, Deletes(p)
    PROVE  StepShape
<1>1. Named' = Named /\ Observe
  BY NamedFrame DEF Deletes, CheckReferences, DeleteBlob, PurgeFreed
<1>2. blobs \ blobs' \subseteq freed[p]
  BY DEF Deletes, CheckReferences, DeleteBlob, PurgeFreed
<1>3. SUFFICES ReliesFrame /\ \A q \in Process : freed'[q] \cap Named' \subseteq freed[q]
  BY <1>1, <1>2 DEF StepShape, ReliesFrame
<1>4. CASE CheckReferences(p)
  <2>1. PICK k \in doomed[p] :
          /\ freed' = [freed EXCEPT ![p] = IF IsBlobReferenced(k) THEN {} ELSE {k}]
          /\ pc' = [pc EXCEPT ![p] = "delete"]
          /\ key' = key
    BY <1>4 DEF CheckReferences
  <2>2. k \in Key
    BY DEF TypeInv, ProcessOK, ProcessTypeOK
  <2>3. ReliesFrame
    BY <2>1 DEF ReliesFrame, Relies, TypeInv, ProcessOK, ProcessTypeOK
  <2>4. \A q \in Process : freed'[q] \cap Named' \subseteq freed[q]
    BY <1>1, <2>1, <2>2, NamedIsReferenced DEF TypeInv, ProcessOK, ProcessTypeOK
  <2>. QED BY <2>3, <2>4
<1>5. CASE DeleteBlob(p)
  BY <1>5, FinishShape DEF DeleteBlob, ReliesFrame, FreedFrame, Relies, TypeInv, ProcessOK, ProcessTypeOK
<1>6. CASE PurgeFreed(p)
  BY <1>6, FinishShape DEF PurgeFreed, ReliesFrame, FreedFrame, Relies, TypeInv, ProcessOK, ProcessTypeOK
<1>. QED BY <1>4, <1>5, <1>6 DEF Deletes

\* A failure relies on no blob and frees none.
LEMMA AbortShape ==
    ASSUME TypeInv, NEW p \in Process, Abort(p)
    PROVE  StepShape
BY FinishShape, NamedFrame DEF Abort, StepShape, ReliesFrame, FreedFrame

\* Nothing is named, relied on or doomed at the start.
LEMMA SafeInit == Init => SafeInv
BY NoKeyAssumption DEF Init, SafeInv, LostOnlyByOverlap, Named, Holds, Overlap, Relies

\* The safety invariant is inductive: every action has the safe shape.
LEMMA SafeStep == TypeInv /\ SafeInv /\ [Next]_vars => SafeInv'
<1>. SUFFICES ASSUME TypeInv, SafeInv, [Next]_vars PROVE SafeInv'
  OBVIOUS
<1>1. CASE UNCHANGED vars
  BY <1>1 DEF SafeInv, LostOnlyByOverlap, Named, Holds, Overlap, Relies, vars, tables, locals
<1>2. CASE Next
  <2>1. StepShape
    BY <1>2, CreateReleaseShape, BeginRequestShape, BeginSweepShape, ReadsShape, PutsShape,
       RecordsShape, ForgetsShape, DeletesShape, AbortShape DEF Next
  <2>. QED BY <2>1, TypeStep, ShapeIsSafe
<1>. QED BY <1>1, <1>2

\* However many requests, janitors, sweeps and gc commands interleave, and
\* wherever they fail, a row names a missing blob only if a write held the blob
\* between finding it and recording its row while a delete held it between its
\* reference check and the unlink.
THEOREM OnlyOverlapLosesBlobs == Spec => []LostOnlyByOverlap
<1>1. SafeInv => LostOnlyByOverlap
  BY DEF SafeInv
<1>. QED BY <1>1, TypeInit, TypeStep, SafeInit, SafeStep, PTL DEF Spec

(***************************************************************************)
(* One operation at a time                                                 *)
(***************************************************************************)

AtMostOne == \A p, q \in Process : pc[p] # "idle" /\ pc[q] # "idle" => p = q

SerialInv == AtMostOne /\ raced = {}

\* With room for one operation, one starts only when all are idle.
LEMMA BeginAlone ==
    ASSUME MaxActive = 1, IsFiniteSet(Process), TypeInv, NEW p \in Process,
           NEW o, NEW l, NEW k, NEW s, Begin(p, o, l, k, s)
    PROVE  AtMostOne'
<1>1. IsFiniteSet(Active)
  BY FS_Subset DEF Active
<1>2. Cardinality(Active) = 0
  BY <1>1, FS_CardinalityType DEF Begin
<1>3. Active = {}
  BY <1>1, <1>2, FS_EmptySet
<1>. QED BY <1>3 DEF Begin, Active, AtMostOne, TypeInv, ProcessOK, ProcessTypeOK

\* Only an active process goes on.
LEMMA ActorIsActive ==
    ASSUME NEW p \in Process,
           Reads(p) \/ Puts(p) \/ Records(p) \/ Forgets(p) \/ Deletes(p) \/ Abort(p)
    PROVE  pc[p] # "idle"
BY DEF Reads, CheckOwned, CheckExists, OpenBlob, CheckCacheHeld, CheckStored, Puts, PutStat,
     PutRename, Records, RecordArtifact, RecordPackaged, ReadOldRunFile, RecordRunFile,
     RecordCache, RecordSite, RecordOCILink, RecordMirror, RecordGoZip, Forgets, ForgetSites,
     ForgetMissingMirror, ListForJanitor, ForgetRun, ForgetCacheEntry, ForgetMirrorBlob,
     ForgetVictim, ListForEviction, EvictBatch, EvictFails, Deletes, CheckReferences, DeleteBlob,
     PurgeFreed, Abort

\* Only a Begin makes an idle process active.
LEMMA OthersStayIdle ==
    ASSUME TypeInv, NEW p \in Process,
           Reads(p) \/ Puts(p) \/ Records(p) \/ Forgets(p) \/ Deletes(p) \/ Abort(p)
    PROVE  \A q \in Process : pc'[q] # "idle" => pc[q] # "idle"
<1>1. pc[p] # "idle"
  BY ActorIsActive
<1>2. SUFFICES \A q \in Process : q # p => pc'[q] = pc[q]
  BY <1>1
<1>. USE DEF TypeInv, ProcessOK, ProcessTypeOK, Goto, Finish, ThenSweep
<1>3. CASE Reads(p)
  <2>1. CASE CheckExists(p)
    <3>1. Finish(p) \/ Goto(p, "open") \/ Goto(p, "forget")
      BY <2>1 DEF CheckExists
    <3>. QED BY <3>1
  <2>. QED BY <1>3, <2>1 DEF Reads, CheckOwned, OpenBlob, CheckCacheHeld, CheckStored
<1>4. CASE Puts(p)
  BY <1>4 DEF Puts, PutStat, PutRename
<1>5. CASE Records(p)
  BY <1>5 DEF Records, RecordArtifact, RecordPackaged, ReadOldRunFile, RecordRunFile,
     RecordCache, RecordSite, RecordOCILink, RecordMirror, RecordGoZip
<1>6. CASE Forgets(p)
  <2>1. CASE ForgetSites(p) \/ ForgetRun(p) \/ ForgetMissingMirror(p)
    BY <2>1 DEF ForgetSites, ForgetRun, ForgetMissingMirror
  <2>2. CASE ForgetCacheEntry(p) \/ ForgetMirrorBlob(p)
    BY <2>2 DEF ForgetCacheEntry, ForgetMirrorBlob, ForgetVictim
  <2>3. CASE ListForJanitor(p) \/ ListForEviction(p) \/ EvictFails(p)
    BY <2>3 DEF ListForJanitor, ListForEviction, EvictFails
  <2>4. CASE EvictBatch(p)
    BY <2>4 DEF EvictBatch
  <2>. QED BY <1>6, <2>1, <2>2, <2>3, <2>4 DEF Forgets
<1>7. CASE Deletes(p)
  BY <1>7 DEF Deletes, CheckReferences, DeleteBlob, PurgeFreed
<1>8. CASE Abort(p)
  BY <1>8 DEF Abort
<1>. QED BY <1>3, <1>4, <1>5, <1>6, <1>7, <1>8

\* With room for one operation, at most one process is active and no two overlap.
LEMMA SerialStep ==
    ASSUME MaxActive = 1, IsFiniteSet(Process)
    PROVE  TypeInv /\ SerialInv /\ [Next]_vars => SerialInv'
<1>. SUFFICES ASSUME TypeInv, SerialInv, [Next]_vars PROVE SerialInv'
  OBVIOUS
<1>1. CASE UNCHANGED vars
  BY <1>1 DEF SerialInv, AtMostOne, vars, locals
<1>2. CASE Next
  <2>1. AtMostOne'
    <3>1. ASSUME NEW r \in Release, CreateRelease(r) PROVE AtMostOne'
      BY <3>1 DEF CreateRelease, locals, SerialInv, AtMostOne
    <3>2. ASSUME NEW p \in Process, BeginRequest(p) PROVE AtMostOne'
      BY <3>2, BeginAlone DEF BeginRequest, BeginUpload, BeginHashRef, BeginRunFile, BeginCache,
         BeginSite, BeginUnsite, BeginOCIPush, BeginOCILink, BeginMirror, BeginGoZip,
         BeginPackage, BeginDigest
    <3>3. ASSUME NEW p \in Process, BeginSweep(p) PROVE AtMostOne'
      BY <3>3, BeginAlone DEF BeginSweep
    <3>4. ASSUME NEW p \in Process,
                 Reads(p) \/ Puts(p) \/ Records(p) \/ Forgets(p) \/ Deletes(p) \/ Abort(p)
          PROVE  AtMostOne'
      BY <3>4, OthersStayIdle DEF SerialInv, AtMostOne
    <3>. QED BY <1>2, <3>1, <3>2, <3>3, <3>4 DEF Next
  <2>2. Observe
    BY <1>2, CreateReleaseShape, BeginRequestShape, BeginSweepShape, ReadsShape, PutsShape,
       RecordsShape, ForgetsShape, DeletesShape, AbortShape DEF Next, StepShape
  <2>3. LocalsOK'
    BY TypeStep DEF TypeInv, ProcessOK
  <2>4. Overlap' = {}
    BY <2>1, <2>3 DEF AtMostOne, LocalsOK, LocalOK, Overlap, Relies
  <2>. QED BY <2>1, <2>2, <2>4 DEF SerialInv, Observe
<1>. QED BY <1>1, <1>2

\* When operations do not overlap, every row names a blob that exists, whatever
\* the operations are and at whatever step they fail.
THEOREM SerialRowsHaveBlobs ==
    ASSUME MaxActive = 1, IsFiniteSet(Process)
    PROVE  Spec => []RowsHaveBlobs
<1>1. Init => SerialInv
  BY DEF Init, SerialInv, AtMostOne
<1>2. TypeInv /\ SafeInv /\ SerialInv => RowsHaveBlobs
  <2>1. TypeInv => TypeOK
    BY DEF TypeInv, TypeOK, ProcessOK
  <2>2. SafeInv /\ SerialInv => Named \subseteq blobs
    BY DEF SafeInv, SerialInv, LostOnlyByOverlap
  <2>. QED BY <2>1, <2>2 DEF RowsHaveBlobs
<1>. QED BY <1>1, <1>2, TypeInit, TypeStep, SafeInit, SafeStep, SerialStep, PTL DEF Spec

(***************************************************************************)
(* What nothing names was left behind                                      *)
(***************************************************************************)

\* The keys a process still has to name, to check or to unlink.
Answers(p) ==
    (IF pc[p] \in {"readold", "record"} THEN {key[p]} ELSE {}) \cup doomed[p] \cup freed[p]

\* What a process has read still stands while no other runs.
MidwayOK(p) ==
    /\ pc[p] = "idle" => victims[p] = {}
    /\ doomed[p] # {} => pc[p] \in {"check", "delete"} \/ (pc[p] = "forget" /\ op[p] = "runJanitor")
    /\ pc[p] = "record" /\ op[p] = "runfile" => old[p] = runFile[slot[p]]
    /\ pc[p] = "forget" /\ op[p] = "runJanitor" => \A k \in Key : Holds(runFile, k) => k \in doomed[p]
    /\ op[p] = "cacheJanitor" => \A c \in CacheEntry, k \in Key : <<c, k>> \in victims[p] => cache[c] = k
    /\ pc[p] = "forget" /\ op[p] = "mirror" => key[p] \notin blobs
    /\ pc[p] \in {"owned", "exists", "open", "stored"} => op[p] # "runfile"
    /\ pc[p] \in {"evict", "purge"} => op[p] \in {"retention", "gc"}
    /\ pc[p] = "evict" => victims[p] \subseteq Release
    /\ victims[p] # {} => op[p] \in {"cacheJanitor", "mirrorJanitor", "retention", "gc"}

\* GarbageIsExplained alone speaks of rest only.
GarbageInv ==
    /\ blobs \subseteq Named \cup orphaned \cup UNION {Answers(p) : p \in Process}
    /\ \A p \in Process : MidwayOK(p)

\* What a step of p leaves of the processes that are at rest.
RestFrame(p) ==
    \A q \in Process \ {p} :
        pc'[q] = pc[q] /\ victims'[q] = victims[q] /\ doomed'[q] = doomed[q] /\ freed'[q] = freed[q]

\* Only p is active: it alone answers for what nothing names.
AloneOK(p) ==
    /\ \A q \in Process \ {p} : pc[q] = "idle"
    /\ \A k \in blobs : k \in Named \/ k \in orphaned \/ k \in Answers(p)
    /\ MidwayOK(p)

\* A step of the process that is active, or of one while all are idle.
LEMMA AloneIs ==
    ASSUME TypeInv, GarbageInv, NEW p \in Process, \A q \in Process \ {p} : pc[q] = "idle"
    PROVE  AloneOK(p)
<1>1. \A q \in Process \ {p} : Answers(q) = {}
  BY DEF GarbageInv, MidwayOK, Answers, TypeInv, ProcessOK, LocalsOK, LocalOK
<1>. QED BY <1>1 DEF GarbageInv, AloneOK

\* Such a step restores the invariant if it accounts for every blob itself.
LEMMA AloneStep ==
    ASSUME TypeInv, GarbageInv, NEW p \in Process, \A q \in Process \ {p} : pc[q] = "idle",
           RestFrame(p), MidwayOK(p)',
           \A k \in blobs' : k \in Named' \/ k \in orphaned' \/ k \in Answers(p)'
    PROVE  GarbageInv'
<1>1. ASSUME NEW q \in Process \ {p} PROVE MidwayOK(q)'
  BY <1>1 DEF GarbageInv, MidwayOK, RestFrame
<1>. QED BY <1>1 DEF GarbageInv

\* What the two ends of a handler leave.
LEMMA FinishGarbage ==
    ASSUME TypeInv, NEW p \in Process, Finish(p)
    PROVE  RestFrame(p) /\ MidwayOK(p)'
BY DEF TypeInv, ProcessOK, ProcessTypeOK, Finish, RestFrame, MidwayOK

\* A jump keeps the locals; the process answers for its key once it is stored.
LEMMA GotoGarbage ==
    ASSUME TypeInv, NEW p \in Process, NEW l, Goto(p, l)
    PROVE  /\ RestFrame(p)
           /\ pc'[p] = l /\ op'[p] = op[p] /\ key'[p] = key[p] /\ slot'[p] = slot[p]
           /\ victims'[p] = victims[p] /\ old'[p] = old[p]
           /\ doomed'[p] = doomed[p] /\ freed'[p] = freed[p]
BY DEF TypeInv, ProcessOK, ProcessTypeOK, Goto, RestFrame

\* The keys that were dropped are all checked.
LEMMA ThenSweepGarbage ==
    ASSUME TypeInv, NEW p \in Process, MidwayOK(p), NEW K, ThenSweep(p, K), op[p] # "cacheJanitor"
    PROVE  /\ RestFrame(p) /\ MidwayOK(p)'
           /\ \A k \in K : k # NoKey => k \in Answers(p)'
<1>1. CASE K \ {NoKey} = {}
  BY <1>1, FinishGarbage DEF ThenSweep
<1>2. CASE K \ {NoKey} # {}
  <2>1. /\ pc' = [pc EXCEPT ![p] = "check"]
        /\ doomed' = [doomed EXCEPT ![p] = K \ {NoKey}]
        /\ UNCHANGED <<op, key, slot, victims, old, freed>>
    BY <1>2 DEF ThenSweep
  <2>. QED BY <2>1 DEF TypeInv, ProcessOK, ProcessTypeOK, RestFrame, MidwayOK, Answers
<1>. QED BY <1>1, <1>2

\* Starting an operation changes no table and no file.
LEMMA BeginGarbage ==
    ASSUME TypeInv, NEW p \in Process, AloneOK(p), NEW o, NEW l, NEW c, NEW s, Begin(p, o, l, c, s),
           l \notin {"readold", "record", "forget", "evict", "purge"} \/ (o = "unsite" /\ l = "forget"),
           o = "runfile" => l = "put"
    PROVE  /\ RestFrame(p) /\ MidwayOK(p)'
           /\ \A k \in blobs' : k \in Named' \/ k \in orphaned' \/ k \in Answers(p)'
<1>1. Named' = Named /\ blobs' = blobs /\ orphaned' = orphaned /\ cache' = cache /\ runFile' = runFile
  BY NamedFrame DEF Begin, tables
<1>2. /\ pc[p] = "idle" /\ pc'[p] = l /\ op'[p] = o
      /\ victims' = victims /\ doomed' = doomed /\ freed' = freed
      /\ \A q \in Process \ {p} : pc'[q] = pc[q]
  BY DEF Begin, TypeInv, ProcessOK, ProcessTypeOK
<1>3. victims[p] = {} /\ doomed[p] = {} /\ freed[p] = {}
  BY <1>2 DEF AloneOK, MidwayOK, TypeInv, ProcessOK, LocalsOK, LocalOK
<1>4. MidwayOK(p)'
  BY <1>2, <1>3 DEF MidwayOK
<1>5. Answers(p) = {}
  BY <1>2, <1>3 DEF Answers
<1>. QED BY <1>1, <1>2, <1>4, <1>5 DEF RestFrame, AloneOK

\* A read stores nothing and drops nothing.
LEMMA ReadsGarbage ==
    ASSUME TypeInv, NEW p \in Process, AloneOK(p), Reads(p)
    PROVE  /\ RestFrame(p) /\ MidwayOK(p)'
           /\ \A k \in blobs' : k \in Named' \/ k \in orphaned' \/ k \in Answers(p)'
<1>1. Named' = Named /\ blobs' = blobs /\ orphaned' = orphaned /\ UNCHANGED tables
  BY NamedFrame DEF Reads, CheckOwned, CheckExists, OpenBlob, CheckCacheHeld, CheckStored
<1>2. pc[p] \in {"owned", "exists", "open", "held", "stored"}
  BY DEF Reads, CheckOwned, CheckExists, OpenBlob, CheckCacheHeld, CheckStored
<1>3. doomed[p] = {} /\ freed[p] = {} /\ Answers(p) = {} /\ op[p] \in Writers /\ victims[p] = {}
  BY <1>2 DEF AloneOK, MidwayOK, Answers, TypeInv, ProcessOK, LocalsOK, LocalOK, WriteLabels,
     Writers
<1>4. CASE Finish(p)
  BY <1>1, <1>3, <1>4, FinishGarbage DEF AloneOK
<1>5. ASSUME NEW l, Goto(p, l), l # "idle",
             l \in {"record", "exists", "open"} => op[p] # "runfile",
             l \notin {"owned", "stored", "evict", "purge"},
             l = "forget" => op[p] = "mirror" /\ key[p] \notin blobs
      PROVE  RestFrame(p) /\ MidwayOK(p)'
  BY <1>1, <1>3, <1>5, GotoGarbage DEF MidwayOK, Writers
<1>6. CASE CheckOwned(p)
  <2>1. op[p] # "runfile"
    BY <1>6 DEF CheckOwned, AloneOK, MidwayOK
  <2>2. Finish(p) \/ Goto(p, "exists") \/ Goto(p, "record")
    BY <1>6 DEF CheckOwned
  <2>. QED BY <1>1, <1>3, <1>4, <1>5, <2>1, <2>2 DEF AloneOK
<1>7. CASE CheckExists(p)
  <2>1. op[p] # "runfile"
    BY <1>7 DEF CheckExists, AloneOK, MidwayOK
  <2>2. Finish(p) \/ Goto(p, "open") \/ (op[p] = "mirror" /\ key[p] \notin blobs /\ Goto(p, "forget"))
    BY <1>7 DEF CheckExists
  <2>. QED BY <1>1, <1>3, <1>4, <1>5, <2>1, <2>2 DEF AloneOK
<1>8. CASE OpenBlob(p)
  <2>1. op[p] # "runfile"
    BY <1>8 DEF OpenBlob, AloneOK, MidwayOK
  <2>2. Finish(p) \/ Goto(p, "record")
    BY <1>8 DEF OpenBlob
  <2>. QED BY <1>1, <1>3, <1>4, <1>5, <2>1, <2>2 DEF AloneOK
<1>9. CASE CheckCacheHeld(p)
  <2>1. Finish(p) \/ Goto(p, "put")
    BY <1>9 DEF CheckCacheHeld
  <2>. QED BY <1>1, <1>3, <1>4, <1>5, <2>1 DEF AloneOK
<1>10. CASE CheckStored(p)
  <2>1. op[p] # "runfile"
    BY <1>10 DEF CheckStored, AloneOK, MidwayOK
  <2>2. Goto(p, "exists") \/ Goto(p, "put")
    BY <1>10 DEF CheckStored
  <2>. QED BY <1>1, <1>3, <1>5, <2>1, <2>2 DEF AloneOK
<1>. QED BY <1>6, <1>7, <1>8, <1>9, <1>10 DEF Reads

\* The file that Put leaves is one its process answers for.
LEMMA PutsGarbage ==
    ASSUME TypeInv, NEW p \in Process, AloneOK(p), Puts(p)
    PROVE  /\ RestFrame(p) /\ MidwayOK(p)'
           /\ \A k \in blobs' : k \in Named' \/ k \in orphaned' \/ k \in Answers(p)'
<1>1. /\ Named' = Named /\ orphaned' = orphaned /\ UNCHANGED tables
      /\ pc[p] \in {"put", "rename"}
  BY NamedFrame DEF Puts, PutStat, PutRename
<1>2. doomed[p] = {} /\ freed[p] = {} /\ Answers(p) = {} /\ op[p] \in Writers /\ victims[p] = {}
  BY <1>1 DEF AloneOK, MidwayOK, Answers, TypeInv, ProcessOK, LocalsOK, LocalOK, WriteLabels,
     Writers
<1>3. PICK l \in {"rename", "readold", "record"} :
        /\ Goto(p, l) /\ blobs' \subseteq blobs \cup {key[p]}
        /\ l = "record" => op[p] # "runfile"
        /\ l = "rename" => blobs' = blobs
  BY DEF Puts, PutStat, PutRename, AfterPut
<1>4. MidwayOK(p)'
  BY <1>1, <1>2, <1>3, GotoGarbage DEF MidwayOK, Writers
<1>5. ASSUME NEW k \in blobs' PROVE k \in Named' \/ k \in orphaned' \/ k \in Answers(p)'
  BY <1>1, <1>2, <1>3, <1>5, GotoGarbage DEF AloneOK, Answers
<1>. QED BY <1>3, <1>4, <1>5, GotoGarbage

\* A row that is recorded names the key its process answered for; the key it replaced
\* is named elsewhere, checked next or left behind.
LEMMA RecordsGarbage ==
    ASSUME TypeInv, NEW p \in Process, AloneOK(p), Records(p)
    PROVE  /\ RestFrame(p) /\ MidwayOK(p)'
           /\ \A k \in blobs' : k \in Named' \/ k \in orphaned' \/ k \in Answers(p)'
<1>1. /\ blobs' = blobs /\ pc[p] \in {"readold", "record"} /\ op[p] # "cacheJanitor"
      /\ orphaned \subseteq orphaned'
  BY DEF Records, RecordArtifact, RecordPackaged, ReadOldRunFile, RecordRunFile, RecordCache,
     RecordSite, RecordOCILink, RecordMirror, RecordGoZip, TypeInv, ProcessOK, LocalsOK, LocalOK
<1>2. /\ doomed[p] = {} /\ freed[p] = {} /\ Answers(p) = {key[p]} /\ op[p] \in Writers
      /\ victims[p] = {} /\ key[p] \in Key
  BY <1>1 DEF AloneOK, MidwayOK, Answers, TypeInv, ProcessOK, LocalsOK, LocalOK, WriteLabels,
     Writers
<1>3. \A k \in blobs : k \in Named \/ k \in orphaned \/ k = key[p]
  BY <1>2 DEF AloneOK
<1>. blobs \subseteq Key
  BY DEF TypeInv, StorageTypeOK
<1>4. CASE RecordArtifact(p)
  <2>1. \A k \in Key : k \in Named => k \in Named'
    BY <1>4, NoKeyAssumption DEF RecordArtifact, Named, Holds, TypeInv, StorageTypeOK
  <2>2. key[p] \in Named' \cup orphaned'
    <3>1. slot[p] \in Release
      BY <1>4 DEF RecordArtifact, TypeInv, ProcessOK, LocalsOK, LocalOK
    <3>. QED BY <1>2, <1>4, <3>1 DEF RecordArtifact, Named, Holds, TypeInv, StorageTypeOK
  <2>. QED BY <1>1, <1>3, <1>4, <2>1, <2>2, FinishGarbage DEF RecordArtifact
<1>5. CASE RecordPackaged(p)
  <2>0. slot[p] \in Release
    BY <1>5 DEF RecordPackaged, TypeInv, ProcessOK, LocalsOK, LocalOK
  <2>1. \A k \in Key : k \in Named => k \in Named' \cup orphaned'
    BY <1>5, <2>0, NoKeyAssumption DEF RecordPackaged, Named, Holds, TypeInv, StorageTypeOK
  <2>2. key[p] \in Named' \cup orphaned'
    BY <1>2, <1>5, <2>0 DEF RecordPackaged, Named, Holds, TypeInv, StorageTypeOK
  <2>. QED BY <1>1, <1>3, <1>5, <2>1, <2>2, FinishGarbage DEF RecordPackaged
<1>6. CASE ReadOldRunFile(p)
  <2>1. op[p] = "runfile" /\ Named' = Named /\ UNCHANGED tables
    BY <1>6, NamedFrame DEF ReadOldRunFile, TypeInv, ProcessOK, LocalsOK, LocalOK
  <2>2. /\ pc'[p] = "record" /\ op'[p] = op[p] /\ key'[p] = key[p] /\ slot'[p] = slot[p]
        /\ old'[p] = runFile[slot[p]] /\ doomed'[p] = doomed[p] /\ victims' = victims
        /\ RestFrame(p)
    BY <1>6 DEF ReadOldRunFile, TypeInv, ProcessOK, ProcessTypeOK, RestFrame
  <2>3. MidwayOK(p)'
    BY <1>2, <2>1, <2>2 DEF MidwayOK, tables
  <2>. QED BY <1>1, <1>3, <2>1, <2>2, <2>3 DEF Answers
<1>7. CASE RecordRunFile(p)
  <2>0. slot[p] \in RunFile /\ old[p] = runFile[slot[p]]
    BY <1>7 DEF RecordRunFile, TypeInv, ProcessOK, LocalsOK, LocalOK, AloneOK, MidwayOK
  <2>1. \A k \in Key : k \in Named => k \in Named' \/ k = old[p]
    BY <1>7, <2>0 DEF RecordRunFile, Named, Holds, TypeInv, StorageTypeOK
  <2>2. key[p] \in Named'
    BY <1>2, <1>7, <2>0 DEF RecordRunFile, Named, Holds, TypeInv, StorageTypeOK
  <2>3. RestFrame(p) /\ MidwayOK(p)' /\ \A k \in {old[p]} \ {key[p]} : k # NoKey => k \in Answers(p)'
    BY <1>1, <1>7, ThenSweepGarbage DEF AloneOK, RecordRunFile
  <2>. QED BY <1>1, <1>3, <2>1, <2>2, <2>3, NoKeyAssumption
<1>8. CASE RecordCache(p)
  <2>0. slot[p] \in CacheEntry
    BY <1>8 DEF RecordCache, TypeInv, ProcessOK, LocalsOK, LocalOK
  <2>1. \A k \in Key : k \in Named => k \in Named'
    BY <1>8, <2>0, NoKeyAssumption DEF RecordCache, Named, Holds, TypeInv, StorageTypeOK
  <2>2. CASE cache[slot[p]] = NoKey
    <3>1. key[p] \in Named'
      BY <1>2, <1>8, <2>0, <2>2 DEF RecordCache, Named, Holds, TypeInv, StorageTypeOK
    <3>. QED BY <1>1, <1>3, <1>8, <2>1, <2>2, <3>1, FinishGarbage DEF RecordCache
  <2>3. CASE cache[slot[p]] # NoKey
    <3>1. RestFrame(p) /\ MidwayOK(p)' /\ \A k \in {key[p]} : k # NoKey => k \in Answers(p)'
      BY <1>1, <1>8, <2>3, ThenSweepGarbage DEF AloneOK, RecordCache
    <3>. QED BY <1>1, <1>2, <1>3, <2>1, <3>1, NoKeyAssumption
  <2>. QED BY <2>2, <2>3
<1>9. CASE RecordSite(p)
  <2>0. slot[p] \in Site
    BY <1>9 DEF RecordSite, TypeInv, ProcessOK, LocalsOK, LocalOK
  <2>1. \A k \in Key : k \in Named => k \in Named' \/ k = site[slot[p]]
    BY <1>9, <2>0 DEF RecordSite, Named, Holds, TypeInv, StorageTypeOK
  <2>2. key[p] \in Named'
    BY <1>2, <1>9, <2>0 DEF RecordSite, Named, Holds, TypeInv, StorageTypeOK
  <2>3. /\ RestFrame(p) /\ MidwayOK(p)'
        /\ \A k \in {site[slot[p]]} \ {key[p]} : k # NoKey => k \in Answers(p)'
    BY <1>1, <1>9, ThenSweepGarbage DEF AloneOK, RecordSite
  <2>. QED BY <1>1, <1>3, <2>1, <2>2, <2>3, NoKeyAssumption
<1>10. CASE RecordOCILink(p)
  <2>1. \A k \in Key : k \in Named \/ k = key[p] => k \in Named'
    BY <1>10 DEF RecordOCILink, Named, Holds
  <2>. QED BY <1>1, <1>2, <1>3, <1>10, <2>1, FinishGarbage DEF RecordOCILink
<1>11. CASE RecordMirror(p)
  <2>1. \A k \in Key : k \in Named \/ k = key[p] => k \in Named'
    BY <1>11 DEF RecordMirror, Named, Holds
  <2>. QED BY <1>1, <1>2, <1>3, <1>11, <2>1, FinishGarbage DEF RecordMirror
<1>12. CASE RecordGoZip(p)
  <2>0. slot[p] \in GoVersion
    BY <1>12 DEF RecordGoZip, TypeInv, ProcessOK, LocalsOK, LocalOK
  <2>1. \A k \in Key : k \in Named => k \in Named' \cup orphaned'
    BY <1>12, <2>0, NoKeyAssumption DEF RecordGoZip, Named, Holds, TypeInv, StorageTypeOK
  <2>2. key[p] \in Named'
    BY <1>2, <1>12, <2>0 DEF RecordGoZip, Named, Holds, TypeInv, StorageTypeOK
  <2>. QED BY <1>1, <1>3, <1>12, <2>1, <2>2, FinishGarbage DEF RecordGoZip
<1>. QED BY <1>4, <1>5, <1>6, <1>7, <1>8, <1>9, <1>10, <1>11, <1>12 DEF Records

\* A key whose row goes is named by another, checked next or freed.
LEMMA ForgetsGarbage ==
    ASSUME TypeInv, NEW p \in Process, AloneOK(p), Forgets(p)
    PROVE  /\ RestFrame(p) /\ MidwayOK(p)'
           /\ \A k \in blobs' : k \in Named' \/ k \in orphaned' \/ k \in Answers(p)'
<1>1. blobs' = blobs /\ orphaned' = orphaned /\ pc[p] \in {"forget", "list", "evict"}
  BY DEF Forgets, ForgetSites, ForgetMissingMirror, ListForJanitor, ForgetRun, ForgetCacheEntry,
     ForgetMirrorBlob, ForgetVictim, ListForEviction, EvictBatch, EvictFails
<1>2. /\ ~(pc[p] = "forget" /\ op[p] = "runJanitor") => doomed[p] = {}
      /\ \A k \in blobs : k \in Named \/ k \in orphaned \/ k \in doomed[p] \/ k \in freed[p]
      /\ pc[p] # "evict" => freed[p] = {}
  BY <1>1 DEF AloneOK, MidwayOK, Answers, TypeInv, ProcessOK, LocalsOK, LocalOK
<1>. blobs \subseteq Key
  BY DEF TypeInv, StorageTypeOK
<1>3. CASE ForgetSites(p)
  <2>1. PICK S \in SUBSET Site :
          /\ site' = [s \in Site |-> IF s \in S THEN NoKey ELSE site[s]]
          /\ ThenSweep(p, {site[s] : s \in S})
    BY <1>3 DEF ForgetSites
  <2>2. \A k \in Key : k \in Named => k \in Named' \/ k \in {site[s] : s \in S}
    BY <1>3, <2>1 DEF ForgetSites, Named, Holds, TypeInv, StorageTypeOK
  <2>3. RestFrame(p) /\ MidwayOK(p)' /\ \A k \in {site[s] : s \in S} : k # NoKey => k \in Answers(p)'
    BY <1>3, <2>1, ThenSweepGarbage DEF AloneOK, ForgetSites
  <2>. QED BY <1>1, <1>2, <1>3, <2>2, <2>3, NoKeyAssumption DEF ForgetSites
<1>4. CASE ForgetMissingMirror(p)
  <2>1. key[p] \notin blobs
    BY <1>4 DEF ForgetMissingMirror, AloneOK, MidwayOK
  <2>2. \A k \in Key : k \in Named /\ k # key[p] => k \in Named'
    BY <1>4 DEF ForgetMissingMirror, Named, Holds
  <2>3. op[p] = "mirror" /\ doomed[p] = {} /\ freed[p] = {} /\ victims[p] = {} /\ Goto(p, "put")
    BY <1>1, <1>2, <1>4 DEF ForgetMissingMirror, AloneOK, MidwayOK
  <2>4. RestFrame(p) /\ MidwayOK(p)'
    BY <2>3, GotoGarbage DEF MidwayOK
  <2>. QED BY <1>1, <1>2, <2>1, <2>2, <2>3, <2>4
<1>5. CASE ListForJanitor(p)
  <2>1. Named' = Named /\ UNCHANGED tables /\ doomed[p] = {} /\ freed[p] = {}
    BY <1>2, <1>5, NamedFrame DEF ListForJanitor
  <2>2. RestFrame(p) /\ pc'[p] = "forget" /\ op'[p] = op[p]
    BY <1>5 DEF ListForJanitor, TypeInv, ProcessOK, ProcessTypeOK, RestFrame
  <2>3. op[p] \in {"runJanitor", "cacheJanitor", "mirrorJanitor"}
    BY <1>5 DEF ListForJanitor
  <2>4. CASE op[p] = "runJanitor"
    <3>1. doomed'[p] = {k \in Key : Holds(runFile, k)} /\ victims'[p] = {}
      BY <1>5, <2>4 DEF ListForJanitor, TypeInv, ProcessOK, ProcessTypeOK, AloneOK, MidwayOK
    <3>2. MidwayOK(p)'
      BY <2>1, <2>2, <2>4, <3>1 DEF MidwayOK, tables, Holds
    <3>. QED BY <1>1, <1>2, <2>1, <2>2, <3>2
  <2>5. CASE op[p] = "cacheJanitor"
    <3>1. doomed'[p] = {}
      BY <1>5, <2>1, <2>5 DEF ListForJanitor
    <3>2. \A c \in CacheEntry, k \in Key : <<c, k>> \in victims'[p] => cache[c] = k
      <4>1. PICK V \in SUBSET {v \in CacheEntry \X Key : cache[v[1]] = v[2]} :
              victims' = [victims EXCEPT ![p] = V]
        BY <1>5, <2>5 DEF ListForJanitor
      <4>. QED BY <4>1 DEF TypeInv, ProcessOK, ProcessTypeOK
    <3>3. MidwayOK(p)'
      BY <2>1, <2>2, <2>5, <3>1, <3>2 DEF MidwayOK, tables
    <3>. QED BY <1>1, <1>2, <2>1, <2>2, <3>3
  <2>6. CASE op[p] = "mirrorJanitor"
    <3>1. doomed'[p] = {}
      BY <1>5, <2>1, <2>6 DEF ListForJanitor
    <3>2. MidwayOK(p)'
      BY <2>2, <2>6, <3>1 DEF MidwayOK
    <3>. QED BY <1>1, <1>2, <2>1, <2>2, <3>2
  <2>. QED BY <2>3, <2>4, <2>5, <2>6
<1>6. CASE ForgetRun(p)
  <2>1. \A k \in Key : k \in Named => k \in Named' \/ Holds(runFile, k)
    BY <1>6 DEF ForgetRun, Named, Holds, TypeInv, StorageTypeOK
  <2>2. \A k \in Key : Holds(runFile, k) => k \in doomed[p]
    BY <1>6 DEF ForgetRun, AloneOK, MidwayOK
  <2>3. RestFrame(p) /\ MidwayOK(p)' /\ \A k \in doomed[p] : k # NoKey => k \in Answers(p)'
    BY <1>6, ThenSweepGarbage DEF AloneOK, ForgetRun
  <2>. QED BY <1>1, <1>2, <1>6, <2>1, <2>2, <2>3, NoKeyAssumption DEF ForgetRun
<1>7. ASSUME NEW v, NEW k \in Key, ForgetVictim(p, v, k), op[p] # "runJanitor"
      PROVE  /\ RestFrame(p) /\ k \in Answers(p)' /\ doomed[p] = {} /\ freed[p] = {}
             /\ pc'[p] = "check" /\ op'[p] = op[p]
             /\ victims'[p] = victims[p] \ {v} /\ v \in victims[p]
  BY <1>2, <1>7 DEF ForgetVictim, TypeInv, ProcessOK, ProcessTypeOK, RestFrame, Answers
<1>8. CASE ForgetCacheEntry(p)
  <2>1. PICK c \in CacheEntry, k \in Key :
          ForgetVictim(p, <<c, k>>, k) /\ cache' = [cache EXCEPT ![c] = NoKey]
    BY <1>8 DEF ForgetCacheEntry
  <2>2. op[p] = "cacheJanitor"
    BY <1>8 DEF ForgetCacheEntry
  <2>3. cache[c] = k /\ \A d \in CacheEntry, h \in Key : <<d, h>> \in victims[p] => cache[d] = h
    BY <1>7, <2>1, <2>2 DEF AloneOK, MidwayOK
  <2>4. \A h \in Key : h \in Named => h \in Named' \/ h = k
    BY <1>8, <2>1, <2>3 DEF ForgetCacheEntry, Named, Holds, TypeInv, StorageTypeOK
  <2>5. \A d \in CacheEntry, h \in Key : <<d, h>> \in victims'[p] => cache'[d] = h
    BY <1>7, <2>1, <2>2, <2>3 DEF TypeInv, StorageTypeOK
  <2>6. MidwayOK(p)'
    BY <1>7, <2>1, <2>2, <2>5 DEF MidwayOK
  <2>. QED BY <1>1, <1>2, <1>7, <2>1, <2>2, <2>4, <2>6
<1>9. CASE ForgetMirrorBlob(p)
  <2>1. PICK k \in Key : ForgetVictim(p, k, k) /\ mirror' = mirror \ {k}
    BY <1>9 DEF ForgetMirrorBlob
  <2>2. op[p] = "mirrorJanitor"
    BY <1>9 DEF ForgetMirrorBlob
  <2>3. \A h \in Key : h \in Named => h \in Named' \/ h = k
    BY <1>9, <2>1 DEF ForgetMirrorBlob, Named, Holds
  <2>4. MidwayOK(p)'
    BY <1>7, <2>1, <2>2 DEF MidwayOK
  <2>. QED BY <1>1, <1>2, <1>7, <2>1, <2>2, <2>3, <2>4
<1>10. CASE ListForEviction(p)
  <2>1. Named' = Named
    BY <1>10, NamedFrame DEF ListForEviction
  <2>2. /\ RestFrame(p) /\ pc'[p] = "evict" /\ op'[p] \in {"retention", "gc"} /\ doomed'[p] = {}
        /\ doomed[p] = {} /\ freed[p] = {} /\ victims'[p] \subseteq Release
    BY <1>2, <1>10 DEF ListForEviction, TypeInv, ProcessOK, ProcessTypeOK, RestFrame
  <2>3. MidwayOK(p)'
    BY <2>2 DEF MidwayOK
  <2>. QED BY <1>1, <1>2, <2>1, <2>2, <2>3
<1>11. CASE EvictBatch(p)
  <2>1. PICK B \in SUBSET victims[p] :
          /\ artifact' = [r \in Release |-> IF r \in B THEN NoKey ELSE artifact[r]]
          /\ packaged' = [r \in Release |-> IF r \in B THEN NoKey ELSE packaged[r]]
          /\ UNCHANGED <<blobs, runFile, cache, site, goZip, mirror, ociLink>>
          /\ LET candidates == {k \in Key : \E r \in B : artifact[r] = k \/ packaged[r] = k}
             IN  freed' = [freed EXCEPT ![p] = @ \cup {k \in candidates : ~IsBlobReferenced(k)'}]
          /\ victims' = [victims EXCEPT ![p] = @ \ B]
          /\ pc' = [pc EXCEPT ![p] = IF victims[p] = B THEN "purge" ELSE "evict"]
    BY <1>11 DEF EvictBatch
  <2>2. /\ RestFrame(p) /\ pc'[p] \in {"purge", "evict"} /\ op' = op /\ doomed' = doomed
    BY <1>11, <2>1 DEF EvictBatch, TypeInv, ProcessOK, ProcessTypeOK, RestFrame
  <2>3. freed'[p] = freed[p] \cup {k \in Key : (\E r \in B : artifact[r] = k \/ packaged[r] = k)
                                               /\ ~IsBlobReferenced(k)'}
    BY <2>1 DEF TypeInv, ProcessOK, ProcessTypeOK
  <2>4. \A k \in Key : IsBlobReferenced(k)' => k \in Named'
    BY DEF Named, IsBlobReferenced
  <2>5. \A k \in Key : k \in Named => k \in Named' \/ \E r \in B : artifact[r] = k \/ packaged[r] = k
    BY <2>1 DEF Named, Holds, TypeInv, StorageTypeOK
  <2>6. \A k \in Key : k \in Named \/ k \in freed[p] => k \in Named' \/ k \in freed'[p]
    BY <2>3, <2>4, <2>5
  <2>7. doomed[p] = {} /\ op[p] \in {"retention", "gc"} /\ victims'[p] \subseteq Release
    BY <1>2, <1>11, <2>1 DEF EvictBatch, AloneOK, MidwayOK, TypeInv, ProcessOK, ProcessTypeOK
  <2>8. MidwayOK(p)'
    BY <2>2, <2>7 DEF MidwayOK
  <2>. QED BY <1>1, <1>2, <2>2, <2>6, <2>7, <2>8 DEF Answers
<1>12. CASE EvictFails(p)
  <2>1. Named' = Named
    BY <1>12, NamedFrame DEF EvictFails
  <2>2. /\ RestFrame(p) /\ pc'[p] = "purge" /\ op' = op /\ doomed' = doomed /\ freed' = freed
        /\ victims'[p] = {}
    BY <1>12 DEF EvictFails, TypeInv, ProcessOK, ProcessTypeOK, RestFrame
  <2>3. MidwayOK(p)'
    BY <1>2, <1>12, <2>2 DEF MidwayOK, EvictFails, AloneOK
  <2>. QED BY <1>1, <1>2, <1>12, <2>1, <2>2, <2>3 DEF Answers, EvictFails
<1>. QED BY <1>3, <1>4, <1>5, <1>6, <1>8, <1>9, <1>10, <1>11, <1>12 DEF Forgets

\* A key leaves the checks unlinked or still named.
LEMMA DeletesGarbage ==
    ASSUME TypeInv, NEW p \in Process, AloneOK(p), Deletes(p)
    PROVE  /\ RestFrame(p) /\ MidwayOK(p)'
           /\ \A k \in blobs' : k \in Named' \/ k \in orphaned' \/ k \in Answers(p)'
<1>1. /\ Named' = Named /\ UNCHANGED tables /\ orphaned' = orphaned
      /\ pc[p] \in {"check", "delete", "purge"}
  BY NamedFrame DEF Deletes, CheckReferences, DeleteBlob, PurgeFreed
<1>2. \A k \in blobs : k \in Named \/ k \in orphaned \/ k \in doomed[p] \/ k \in freed[p]
  BY <1>1 DEF AloneOK, Answers
<1>3. CASE CheckReferences(p)
  <2>1. PICK k \in doomed[p] :
          /\ doomed' = [doomed EXCEPT ![p] = @ \ {k}]
          /\ freed' = [freed EXCEPT ![p] = IF IsBlobReferenced(k) THEN {} ELSE {k}]
          /\ pc' = [pc EXCEPT ![p] = "delete"]
    BY <1>3 DEF CheckReferences
  <2>2. k \in Key /\ (IsBlobReferenced(k) => k \in Named)
    BY NamedIsReferenced DEF TypeInv, ProcessOK, ProcessTypeOK
  <2>3. /\ RestFrame(p) /\ pc'[p] = "delete" /\ doomed'[p] = doomed[p] \ {k}
        /\ freed'[p] = (IF IsBlobReferenced(k) THEN {} ELSE {k})
        /\ blobs' = blobs /\ op' = op /\ victims' = victims
    BY <1>3, <2>1 DEF CheckReferences, TypeInv, ProcessOK, ProcessTypeOK, RestFrame
  <2>4. freed[p] = {}
    BY <1>3 DEF CheckReferences, TypeInv, ProcessOK, LocalsOK, LocalOK
  <2>5. MidwayOK(p)'
    BY <1>1, <2>3 DEF MidwayOK, tables, AloneOK
  <2>. QED BY <1>1, <1>2, <2>2, <2>3, <2>4, <2>5 DEF Answers
<1>4. CASE DeleteBlob(p)
  <2>1. blobs' = blobs \ freed[p]
    BY <1>4 DEF DeleteBlob
  <2>2. CASE doomed[p] = {} /\ victims[p] = {}
    BY <1>1, <1>2, <1>4, <2>1, <2>2, FinishGarbage DEF DeleteBlob
  <2>3. CASE ~(doomed[p] = {} /\ victims[p] = {})
    <3>1. /\ RestFrame(p) /\ pc'[p] = (IF doomed[p] = {} THEN "forget" ELSE "check")
          /\ op' = op /\ doomed' = doomed /\ victims' = victims
      BY <1>4, <2>3 DEF DeleteBlob, TypeInv, ProcessOK, ProcessTypeOK, RestFrame
    <3>2. doomed[p] = {} => op[p] \in {"cacheJanitor", "mirrorJanitor", "retention", "gc"}
      BY <2>3 DEF AloneOK, MidwayOK
    <3>3. MidwayOK(p)'
      BY <1>1, <1>4, <3>1, <3>2 DEF MidwayOK, tables, AloneOK, DeleteBlob
    <3>. QED BY <1>1, <1>2, <2>1, <3>1, <3>3 DEF Answers
  <2>. QED BY <2>2, <2>3
<1>5. CASE PurgeFreed(p)
  <2>1. doomed[p] = {}
    BY <1>5 DEF PurgeFreed, AloneOK, MidwayOK
  <2>2. CASE freed[p] = {}
    BY <1>1, <1>2, <1>5, <2>1, <2>2, FinishGarbage DEF PurgeFreed
  <2>3. CASE freed[p] # {}
    <3>1. PICK k \in freed[p] :
            /\ blobs' = blobs \ {k}
            /\ freed' = [freed EXCEPT ![p] = @ \ {k}]
            /\ UNCHANGED <<pc, op, key, slot, victims, old, doomed>>
      BY <1>5, <2>3 DEF PurgeFreed
    <3>2. RestFrame(p) /\ freed'[p] = freed[p] \ {k}
      BY <3>1 DEF TypeInv, ProcessOK, ProcessTypeOK, RestFrame
    <3>3. MidwayOK(p)'
      BY <1>1, <1>5, <3>1 DEF MidwayOK, tables, AloneOK, PurgeFreed
    <3>. QED BY <1>1, <1>2, <3>1, <3>2, <3>3 DEF Answers
  <2>. QED BY <2>2, <2>3
<1>. QED BY <1>3, <1>4, <1>5 DEF Deletes

\* A failure leaves what its process answered for, and says so.
LEMMA AbortGarbage ==
    ASSUME TypeInv, NEW p \in Process, AloneOK(p), Abort(p)
    PROVE  /\ RestFrame(p) /\ MidwayOK(p)'
           /\ \A k \in blobs' : k \in Named' \/ k \in orphaned' \/ k \in Answers(p)'
<1>1. Named' = Named
  BY NamedFrame DEF Abort
<1>. blobs \subseteq Key
  BY DEF TypeInv, StorageTypeOK
<1>2. \A k \in blobs : k \in Answers(p) => k \in orphaned'
  BY NoKeyAssumption DEF Abort, Answers
<1>. QED BY <1>1, <1>2, FinishGarbage DEF Abort, AloneOK

\* While no two operations overlap, every step accounts for every blob.
LEMMA GarbageStep ==
    ASSUME MaxActive = 1, IsFiniteSet(Process)
    PROVE  TypeInv /\ SerialInv /\ GarbageInv /\ [Next]_vars => GarbageInv'
<1>. SUFFICES ASSUME TypeInv, SerialInv, GarbageInv, [Next]_vars PROVE GarbageInv'
  OBVIOUS
<1>1. CASE UNCHANGED vars
  BY <1>1 DEF GarbageInv, Named, Holds, Answers, MidwayOK, vars, tables, locals
<1>2. ASSUME NEW r \in Release, CreateRelease(r) PROVE GarbageInv'
  <2>1. Named' = Named
    BY <1>2 DEF CreateRelease, Named, Holds
  <2>2. \A p \in Process : Answers(p)' = Answers(p) /\ MidwayOK(p)'
    BY <1>2 DEF CreateRelease, Answers, MidwayOK, Holds, GarbageInv, locals
  <2>. QED BY <1>2, <2>1, <2>2 DEF CreateRelease, GarbageInv
<1>3. ASSUME NEW p \in Process, NEW o, NEW l, NEW c, NEW s, Begin(p, o, l, c, s),
             l \notin {"readold", "record", "forget", "evict", "purge"} \/ (o = "unsite" /\ l = "forget"),
             o = "runfile" => l = "put"
      PROVE  GarbageInv'
  <2>1. IsFiniteSet(Active)
    BY FS_Subset DEF Active
  <2>2. Cardinality(Active) = 0
    BY <1>3, <2>1, FS_CardinalityType DEF Begin
  <2>3. \A q \in Process : pc[q] = "idle"
    BY <2>1, <2>2, FS_EmptySet DEF Active
  <2>4. AloneOK(p)
    BY <2>3, AloneIs
  <2>. QED BY <1>3, <2>3, <2>4, BeginGarbage, AloneStep
<1>4. ASSUME NEW p \in Process, BeginRequest(p) PROVE GarbageInv'
  <2>1. PICK o, l, c, s : Begin(p, o, l, c, s) /\ (o = "runfile" => l = "put")
          /\ (l \in {"put", "owned", "held", "stored", "open"} \/ (o = "unsite" /\ l = "forget"))
    BY <1>4 DEF BeginRequest, BeginUpload, BeginHashRef, BeginRunFile, BeginCache,
       BeginSite, BeginUnsite, BeginOCIPush, BeginOCILink, BeginMirror, BeginGoZip,
       BeginPackage, BeginDigest
  <2>. QED BY <1>3, <2>1
<1>5. ASSUME NEW p \in Process, BeginSweep(p) PROVE GarbageInv'
  <2>1. PICK o \in {"retention", "gc", "runJanitor", "cacheJanitor", "mirrorJanitor"} :
          Begin(p, o, "list", NoKey, NoKey)
    BY <1>5 DEF BeginSweep
  <2>. QED BY <1>3, <2>1
<1>6. ASSUME NEW p \in Process,
             Reads(p) \/ Puts(p) \/ Records(p) \/ Forgets(p) \/ Deletes(p) \/ Abort(p)
      PROVE  GarbageInv'
  <2>1. \A q \in Process \ {p} : pc[q] = "idle"
    BY <1>6, ActorIsActive DEF SerialInv, AtMostOne
  <2>2. AloneOK(p)
    BY <2>1, AloneIs
  <2>3. /\ RestFrame(p) /\ MidwayOK(p)'
        /\ \A k \in blobs' : k \in Named' \/ k \in orphaned' \/ k \in Answers(p)'
    BY <1>6, <2>2, ReadsGarbage, PutsGarbage, RecordsGarbage, ForgetsGarbage, DeletesGarbage, AbortGarbage
  <2>. QED BY <2>1, <2>3, AloneStep
<1>. QED BY <1>1, <1>2, <1>4, <1>5, <1>6 DEF Next

\* While operations do not overlap, the only files no row names, once all is at rest,
\* are those an operation that failed, was refused or replaced a key left behind
\* (DeleteBlobIfUnreferenced, evictBatch and the requests that drop rows).
THEOREM SerialGarbageExplained ==
    ASSUME MaxActive = 1, IsFiniteSet(Process)
    PROVE  Spec => []GarbageIsExplained
<1>1. Init => SerialInv /\ GarbageInv
  BY DEF Init, SerialInv, AtMostOne, GarbageInv, MidwayOK
<1>2. TypeInv /\ GarbageInv => GarbageIsExplained
  <2>. SUFFICES ASSUME TypeInv, GarbageInv, Active = {} PROVE blobs \subseteq Named \cup orphaned
    BY DEF GarbageIsExplained
  <2>1. \A p \in Process : pc[p] = "idle"
    BY DEF Active
  <2>2. \A p \in Process : Answers(p) = {}
    BY <2>1 DEF GarbageInv, MidwayOK, Answers, TypeInv, ProcessOK, LocalsOK, LocalOK
  <2>. QED BY <2>2 DEF GarbageInv
<1>. QED BY <1>1, <1>2, TypeInit, TypeStep, SerialStep, GarbageStep, PTL DEF Spec

(***************************************************************************)
(* The inventory and the plan                                              *)
(***************************************************************************)

\* Rows that no release holds name the key.
NamedElsewhere(k) ==
    \/ k \in ociLink \cup mirror
    \/ Holds(site, k) \/ Holds(goZip, k) \/ Holds(runFile, k) \/ Holds(cache, k)

\* Every listed file is of a row that names its key.
LEMMA FilesAreOfRows ==
    ASSUME TypeInv, NEW f \in ListFiles
    PROVE  /\ f.key \in Key /\ f.role # "none"
           /\ \/ f.release \in Release /\ f.key \in ListReleaseBlobKeys(f.release)
              \/ f.release = NoKey /\ NamedElsewhere(f.key)
<1>. USE DEF TypeInv, StorageTypeOK, KeyOrNone
<1>1. f.key # NoKey
  BY DEF ListFiles, AppendFile
<1>2. CASE f \in ListArtifactFiles \cup ListPackagedFiles
  BY <1>1, <1>2 DEF ListArtifactFiles, ListPackagedFiles, File, ListReleaseBlobKeys
<1>3. CASE f \in ListOCIBlobFiles \cup ListMirrorBlobFiles
  BY <1>1, <1>3 DEF ListOCIBlobFiles, ListMirrorBlobFiles, File, NamedElsewhere
<1>4. CASE f \in ListSiteDetails \cup ListGoproxyBlobFiles
  BY <1>1, <1>4 DEF ListSiteDetails, ListGoproxyBlobFiles, FilesOf, File, NamedElsewhere, Holds
<1>5. CASE f \in ListRunBlobFiles \cup ListCacheEntries
  BY <1>1, <1>5 DEF ListRunBlobFiles, ListCacheEntries, FilesOf, File, NamedElsewhere, Holds
<1>. QED BY <1>2, <1>3, <1>4, <1>5 DEF ListFiles, AppendFile

\* Every row of a release that names a key is listed with that release.
LEMMA ReleaseRowsAreListed ==
    ASSUME TypeInv, NEW r \in Release, NEW k \in ListReleaseBlobKeys(r)
    PROVE  \E f \in ListFiles : f.release = r /\ f.key = k
<1>1. CASE artifact[r] = k
  <2>1. File("artifact", r, k) \in ListFiles
    BY <1>1 DEF ListFiles, AppendFile, ListArtifactFiles, File, ListReleaseBlobKeys
  <2>. QED BY <2>1 DEF File
<1>2. CASE packaged[r] = k
  <2>1. File("packaged", r, k) \in ListFiles
    BY <1>2 DEF ListFiles, AppendFile, ListPackagedFiles, File, ListReleaseBlobKeys
  <2>. QED BY <2>1 DEF File
<1>. QED BY <1>1, <1>2 DEF ListReleaseBlobKeys

\* Every other row is listed with none.
LEMMA OtherRowsAreListed ==
    ASSUME TypeInv, NEW k \in Key, NamedElsewhere(k)
    PROVE  \E f \in ListFiles : f.release = NoKey /\ f.key = k
<1>1. ASSUME NEW role, File(role, NoKey, k) \in ListFiles
      PROVE  \E f \in ListFiles : f.release = NoKey /\ f.key = k
  BY <1>1 DEF File
<1>. k # NoKey
  BY NoKeyAssumption
<1>. USE DEF ListFiles, AppendFile, File
<1>2. CASE k \in ociLink
  <2>1. File("oci-blob", NoKey, k) \in ListFiles
    BY <1>2 DEF ListOCIBlobFiles
  <2>. QED BY <1>1, <2>1
<1>3. CASE k \in mirror
  <2>1. File("mirror", NoKey, k) \in ListFiles
    BY <1>3 DEF ListMirrorBlobFiles
  <2>. QED BY <1>1, <2>1
<1>4. CASE Holds(site, k)
  <2>1. File("site", NoKey, k) \in ListSiteDetails
    BY <1>4 DEF ListSiteDetails, FilesOf, Holds
  <2>. QED BY <1>1, <2>1
<1>5. CASE Holds(goZip, k)
  <2>1. File("goproxy", NoKey, k) \in ListGoproxyBlobFiles
    BY <1>5 DEF ListGoproxyBlobFiles, FilesOf, Holds
  <2>. QED BY <1>1, <2>1
<1>6. CASE Holds(runFile, k)
  <2>1. File("run-file", NoKey, k) \in ListRunBlobFiles
    BY <1>6 DEF ListRunBlobFiles, FilesOf, Holds
  <2>. QED BY <1>1, <2>1
<1>7. CASE Holds(cache, k)
  <2>1. File("cache", NoKey, k) \in ListCacheEntries
    BY <1>7 DEF ListCacheEntries, FilesOf, Holds
  <2>. QED BY <1>1, <2>1
<1>. QED BY <1>2, <1>3, <1>4, <1>5, <1>6, <1>7 DEF NamedElsewhere

\* A file is held unless its release is doomed and its key is freed.
LEMMA HoldIsNone ==
    ASSUME NEW f, NEW S \in SUBSET Release, NEW plan, f.role # "none",
           f.release \in Release \/ f.release = NoKey
    PROVE  Hold(f, S, plan) = "none" <=> f.release \in S /\ f.key \in plan
<1>1. CASE f.release = NoKey
  BY <1>1, NoReleaseAssumption DEF Hold
<1>2. CASE f.release # NoKey /\ f.release \notin S
  BY <1>2 DEF Hold
<1>3. CASE f.release # NoKey /\ f.release \in S /\ f.key \notin plan
  BY <1>3 DEF Hold
<1>4. CASE f.release # NoKey /\ f.release \in S /\ f.key \in plan
  BY <1>4 DEF Hold
<1>. QED BY <1>1, <1>2, <1>3, <1>4

\* Named is what releases and the other rows name.
LEMMA NamedByRows ==
    ASSUME TypeInv, NEW k \in Key
    PROVE  k \in Named <=> NamedElsewhere(k) \/ \E r \in Release : k \in ListReleaseBlobKeys(r)
BY NoKeyAssumption DEF Named, NamedElsewhere, ListReleaseBlobKeys, Holds, TypeInv, StorageTypeOK

\* In every reachable state, and for every set of releases the policy may doom,
\* the inventory calls reclaimable exactly the blobs that the eviction frees, and
\* its totals do not depend on which file of a blob they count
\* (Retention.Inventory, summarize, db.PlanEviction).
THEOREM InventoryAlwaysExact == Spec => []InventoryIsExact
<1>1. TypeInv => InventoryIsExact
  <2>. SUFFICES ASSUME TypeInv, NEW S \in SUBSET {r \in Release : relRow[r] = "live"}
                PROVE  LET plan  == PlanFreed(S)
                           given == {f \in ListFiles : Reclaimable(f, S, plan)}
                           held  == ListFiles \ given
                       IN  /\ Blobs(given) = plan
                           /\ Blobs(given) \cap Blobs(held) = {}
                           /\ Blobs(given) \cup Blobs(held) = Named
                           /\ \A f \in held : Hold(f, S, plan) # "none"
                           /\ Blobs(held) = {g.key : g \in {f \in ListFiles : f.release \notin S}}
    BY DEF InventoryIsExact
  <2>. DEFINE plan  == PlanFreed(S)
              given == {f \in ListFiles : Reclaimable(f, S, plan)}
              held  == ListFiles \ given
  <2>1. \A f \in ListFiles : Hold(f, S, plan) = "none" <=> f.release \in S /\ f.key \in plan
    <3>. HIDE DEF plan
    <3>. QED BY FilesAreOfRows, HoldIsNone
  <2>2. \A f \in ListFiles : f \in given <=> f.release \in S /\ f.key \in plan
    BY <2>1 DEF Reclaimable
  <2>3. \A k : k \in plan <=> /\ \E r \in S : k \in ListReleaseBlobKeys(r)
                              /\ ~NamedElsewhere(k)
                              /\ \A r \in Release \ S : k \notin ListReleaseBlobKeys(r)
    BY DEF PlanFreed, StillReferenced, NamedElsewhere
  <2>. HIDE DEF plan
  <2>4. \A f \in ListFiles : f.release \notin S => f.key \notin plan
    BY <2>3, FilesAreOfRows
  <2>5. \A k \in plan : \E f \in given : f.key = k
    BY <2>2, <2>3, ReleaseRowsAreListed
  <2>6. \A f \in held : f.key \notin plan /\ f \in ListFiles
    BY <2>2, <2>4
  <2>7. \A f \in given : f.key \in plan
    BY <2>2
  <2>8. Blobs(given) = plan
    BY <2>5, <2>7 DEF Blobs
  <2>9. Blobs(given) \cap Blobs(held) = {}
    BY <2>6, <2>8 DEF Blobs
  <2>10. Blobs(given) \cup Blobs(held) = Named
    <3>1. Named \subseteq Key
      BY DEF Named, TypeInv, StorageTypeOK
    <3>2. \A f \in ListFiles : f.key \in Named
      BY FilesAreOfRows, NamedByRows
    <3>3. \A k \in Named : \E f \in ListFiles : f.key = k
      BY <3>1, NamedByRows, ReleaseRowsAreListed, OtherRowsAreListed
    <3>. QED BY <3>2, <3>3 DEF Blobs
  <2>11. \A f \in held : Hold(f, S, plan) # "none"
    BY <2>1, <2>2
  <2>12. ASSUME NEW f \in held PROVE \E g \in ListFiles : g.release \notin S /\ g.key = f.key
    <3>1. CASE f.release \notin S
      BY <3>1
    <3>2. CASE f.release \in S
      <4>1. f.key \in Key /\ f.key \in ListReleaseBlobKeys(f.release) /\ f.key \notin plan
        BY <2>6, <3>2, FilesAreOfRows, NoReleaseAssumption
      <4>2. NamedElsewhere(f.key) \/ \E r \in Release \ S : f.key \in ListReleaseBlobKeys(r)
        BY <2>3, <3>2, <4>1
      <4>. QED BY <4>1, <4>2, ReleaseRowsAreListed, OtherRowsAreListed, NoReleaseAssumption
    <3>. QED BY <3>1, <3>2
  <2>13. \A g \in ListFiles : g.release \notin S => g \in held
    BY <2>2
  <2>14. Blobs(held) = {g.key : g \in {f \in ListFiles : f.release \notin S}}
    <3>. HIDE DEF held
    <3>. QED BY <2>12, <2>13 DEF Blobs
  <2>. QED BY <2>8, <2>9, <2>10, <2>11, <2>14 DEF plan
<1>. QED BY <1>1, TypeInit, TypeStep, PTL DEF Spec

\* A batch takes from the plan what it frees.
LEMMA BatchFreesItsPart ==
    ASSUME TypeInv, NEW p \in Process, EvictBatch(p), victims[p] \subseteq Release
    PROVE  freed'[p] \cup PlanFreed(victims[p])' = freed[p] \cup PlanFreed(victims[p])
<1>1. PICK B \in SUBSET victims[p] :
        /\ artifact' = [r \in Release |-> IF r \in B THEN NoKey ELSE artifact[r]]
        /\ packaged' = [r \in Release |-> IF r \in B THEN NoKey ELSE packaged[r]]
        /\ UNCHANGED <<blobs, runFile, cache, site, goZip, mirror, ociLink>>
        /\ LET candidates == {k \in Key : \E r \in B : artifact[r] = k \/ packaged[r] = k}
           IN  freed' = [freed EXCEPT ![p] = @ \cup {k \in candidates : ~IsBlobReferenced(k)'}]
        /\ victims' = [victims EXCEPT ![p] = @ \ B]
  BY DEF EvictBatch
<1>. DEFINE V == victims[p]
<1>2. victims'[p] = V \ B /\ V \subseteq Release
  BY <1>1 DEF TypeInv, ProcessOK, ProcessTypeOK
<1>3. /\ \A r \in B : ListReleaseBlobKeys(r)' = {}
      /\ \A r \in Release \ B : ListReleaseBlobKeys(r)' = ListReleaseBlobKeys(r)
      /\ \A r \in Release : ListReleaseBlobKeys(r) \subseteq Key
      /\ \A r \in Release : \A k \in Key : artifact[r] = k \/ packaged[r] = k <=> k \in ListReleaseBlobKeys(r)
  BY <1>1, <1>2, NoKeyAssumption DEF ListReleaseBlobKeys, TypeInv, StorageTypeOK, KeyOrNone
<1>4. \A k : NamedElsewhere(k)' <=> NamedElsewhere(k)
  BY <1>1 DEF NamedElsewhere, Holds
<1>5. \A k \in Key : IsBlobReferenced(k)' <=>
        NamedElsewhere(k) \/ \E r \in Release \ B : k \in ListReleaseBlobKeys(r)
  <2>1. TypeInv'
    BY TypeStep DEF Next, Forgets
  <2>2. \A k \in Key : IsBlobReferenced(k)' <=> (k \in Named)'
    BY DEF Named, IsBlobReferenced
  <2>3. \A k \in Key : (k \in Named)' <=>
          NamedElsewhere(k)' \/ \E r \in Release : k \in ListReleaseBlobKeys(r)'
    BY <2>1, NoKeyAssumption DEF Named, NamedElsewhere, ListReleaseBlobKeys, Holds, TypeInv, StorageTypeOK
  <2>. QED BY <1>2, <1>3, <1>4, <2>2, <2>3
<1>6. freed'[p] = freed[p] \cup {k \in Key : (\E r \in B : k \in ListReleaseBlobKeys(r))
                                            /\ ~IsBlobReferenced(k)'}
  <2>1. freed'[p] = freed[p] \cup {k \in Key : (\E r \in B : artifact[r] = k \/ packaged[r] = k)
                                               /\ ~IsBlobReferenced(k)'}
    BY <1>1 DEF TypeInv, ProcessOK, ProcessTypeOK
  <2>. QED BY <1>2, <1>3, <2>1
<1>7. \A k : k \in PlanFreed(V) <=> /\ \E r \in V : k \in ListReleaseBlobKeys(r)
                                   /\ ~NamedElsewhere(k)
                                   /\ \A r \in Release \ V : k \notin ListReleaseBlobKeys(r)
  BY DEF PlanFreed, StillReferenced, NamedElsewhere
<1>8. \A k : k \in PlanFreed(victims[p])' <=>
        /\ \E r \in victims'[p] : k \in ListReleaseBlobKeys(r)'
        /\ ~NamedElsewhere(k)'
        /\ \A r \in Release \ victims'[p] : k \notin ListReleaseBlobKeys(r)'
  BY DEF PlanFreed, StillReferenced, NamedElsewhere
<1>9. \A k : k \in PlanFreed(victims[p])' <=>
        /\ \E r \in V \ B : k \in ListReleaseBlobKeys(r)
        /\ ~NamedElsewhere(k)
        /\ \A r \in Release \ V : k \notin ListReleaseBlobKeys(r)
  <2>. SUFFICES ASSUME NEW k
                PROVE  /\ (\E r \in victims'[p] : k \in ListReleaseBlobKeys(r)') <=>
                             \E r \in V \ B : k \in ListReleaseBlobKeys(r)
                       /\ (\A r \in Release \ victims'[p] : k \notin ListReleaseBlobKeys(r)') <=>
                             \A r \in Release \ V : k \notin ListReleaseBlobKeys(r)
    BY <1>4, <1>8
  <2>. HIDE DEF V
  <2>1. \A r \in V \ B : ListReleaseBlobKeys(r)' = ListReleaseBlobKeys(r)
    BY <1>2, <1>3
  <2>2. \A r \in Release \ V : r \in Release \ (V \ B) /\ ListReleaseBlobKeys(r)' = ListReleaseBlobKeys(r)
    BY <1>1, <1>2, <1>3 DEF V
  <2>3. \A r \in Release \ (V \ B) : r \in B \/ r \in Release \ V
    OBVIOUS
  <2>. QED BY <1>2, <1>3, <2>1, <2>2, <2>3
<1>10. \A k : k \in freed'[p] <=> k \in freed[p] \/
        /\ \E r \in B : k \in ListReleaseBlobKeys(r)
        /\ ~NamedElsewhere(k)
        /\ \A r \in Release \ B : k \notin ListReleaseBlobKeys(r)
  BY <1>2, <1>3, <1>5, <1>6
<1>. HIDE DEF V
<1>11. B \subseteq V
  BY <1>1 DEF V
<1>12. ASSUME NEW k, k \in freed'[p] \/ k \in PlanFreed(victims[p])'
       PROVE  k \in freed[p] \/ k \in PlanFreed(V)
  BY <1>2, <1>7, <1>9, <1>10, <1>11, <1>12
<1>13. ASSUME NEW k, k \in PlanFreed(V) PROVE k \in freed'[p] \/ k \in PlanFreed(victims[p])'
  <2>1. CASE \E r \in V \ B : k \in ListReleaseBlobKeys(r)
    BY <1>7, <1>9, <1>13, <2>1
  <2>2. CASE \A r \in V \ B : k \notin ListReleaseBlobKeys(r)
    BY <1>2, <1>7, <1>10, <1>11, <1>13, <2>2
  <2>. QED BY <2>1, <2>2
<1>14. \A k \in freed[p] : k \in freed'[p]
  BY <1>10
<1>15. freed'[p] \cup PlanFreed(victims[p])' = freed[p] \cup PlanFreed(V)
  BY <1>12, <1>13, <1>14
<1>. QED BY <1>15 DEF V

\* Eviction in batches frees what the dry run of one transaction said, for any
\* batch size, when nothing runs between the batches (db.EvictReleases, evictBatch).
THEOREM SerialBatchesFreeThePlan ==
    ASSUME MaxActive = 1, IsFiniteSet(Process)
    PROVE  Spec => BatchesFreeThePlan
<1>1. Init => SerialInv /\ GarbageInv
  BY DEF Init, SerialInv, AtMostOne, GarbageInv, MidwayOK
<1>2. TypeInv /\ SerialInv /\ GarbageInv /\ [Next]_vars =>
        [\A p \in Process : pc[p] = "evict" /\ relRow' # relRow =>
           freed[p]' \cup PlanFreed(victims[p])' = freed[p] \cup PlanFreed(victims[p])]_vars
  <2>. SUFFICES ASSUME TypeInv, SerialInv, GarbageInv, Next, NEW p \in Process, pc[p] = "evict",
                       relRow' # relRow
                PROVE  freed[p]' \cup PlanFreed(victims[p])' = freed[p] \cup PlanFreed(victims[p])
    OBVIOUS
  <2>1. ASSUME NEW r \in Release, CreateRelease(r)
        PROVE  freed[p]' \cup PlanFreed(victims[p])' = freed[p] \cup PlanFreed(victims[p])
    BY <2>1 DEF CreateRelease, locals, PlanFreed, StillReferenced, ListReleaseBlobKeys, Holds
  <2>2. ASSUME NEW q \in Process, EvictBatch(q)
        PROVE  freed[p]' \cup PlanFreed(victims[p])' = freed[p] \cup PlanFreed(victims[p])
    <3>1. p = q
      BY <2>2 DEF SerialInv, AtMostOne, EvictBatch
    <3>2. victims[p] \subseteq Release
      BY DEF GarbageInv, MidwayOK
    <3>. QED BY <2>2, <3>1, <3>2, BatchFreesItsPart
  <2>3. ASSUME NEW q \in Process, ~EvictBatch(q),
               BeginRequest(q) \/ BeginSweep(q) \/ Reads(q) \/ Puts(q) \/ Records(q) \/ Forgets(q)
                 \/ Deletes(q) \/ Abort(q)
        PROVE  relRow' = relRow
    <3>. USE DEF tables
    <3>1. CASE BeginRequest(q) \/ BeginSweep(q)
      BY <3>1 DEF BeginRequest, BeginSweep, BeginUpload, BeginHashRef, BeginRunFile, BeginCache,
         BeginSite, BeginUnsite, BeginOCIPush, BeginOCILink, BeginMirror, BeginGoZip,
         BeginPackage, BeginDigest, Begin
    <3>2. CASE Reads(q) \/ Puts(q) \/ Deletes(q) \/ Abort(q)
      BY <3>2 DEF Reads, CheckOwned, CheckExists, OpenBlob, CheckCacheHeld, CheckStored, Puts, PutStat,
         PutRename, Deletes, CheckReferences, DeleteBlob, PurgeFreed, Abort
    <3>3. CASE Records(q)
      BY <3>3 DEF Records, RecordArtifact, RecordPackaged, ReadOldRunFile, RecordRunFile, RecordCache,
         RecordSite, RecordOCILink, RecordMirror, RecordGoZip
    <3>4. CASE Forgets(q)
      BY <2>3, <3>4 DEF Forgets, ForgetSites, ForgetMissingMirror, ListForJanitor, ForgetRun,
         ForgetCacheEntry, ForgetMirrorBlob, ListForEviction, EvictFails
    <3>. QED BY <2>3, <3>1, <3>2, <3>3, <3>4
  <2>. QED BY <2>1, <2>2, <2>3 DEF Next, Forgets
<1>. QED BY <1>1, <1>2, TypeInit, TypeStep, SerialStep, GarbageStep, PTL DEF Spec, BatchesFreeThePlan
=============================================================================
