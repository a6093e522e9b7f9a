-------------------------- MODULE PublishingProofs --------------------------
(***************************************************************************)
(* Proofs about the publish command (PublishClient), the publishing of     *)
(* sites (SiteUploads) and of images (OCIImages), the uploads of an        *)
(* image's layers (OCIUpload) and the URLs of sites (SiteURLs), for any    *)
(* number of jobs, artifacts, chunks, uploads, branches, pushes, tags,     *)
(* releases, projects and segments.                                        *)
(***************************************************************************)
EXTENDS PublishClient, SiteUploads, OCIImages, OCIUpload, SiteURLs, SequenceTheorems,
        WellFoundedInduction, TLAPS

(***************************************************************************)
(* The publish command                                                     *)
(***************************************************************************)

JobType == [at : PubLabels, byHash : BOOLEAN, item : Nat, sent : SUBSET PubBody,
            offset : 0..PubSize, failures : 0..PubTries, asks : 0..PubTries]
Overdue == [offset : 0..PubSize, bytes : 1..PubChunk]

\* Steps that work on an artifact of the manifest, and steps after the last one.
AtItem == {"hashref", "direct", "session", "send", "ask", "finalize", "record"}
AtEnd  == {"publish", "mark", "ok"}

\* Types.
PubTypes ==
    /\ version \in {"none", "open", "published"}
    /\ shipped \in [PubSlot -> PubBody \cup {NoPub}]
    /\ upload \in [PubJob -> 0..PubSize \cup {NoPub}]
    /\ overdue \in [PubJob -> Overdue \cup {NoPub}]
    /\ job \in [PubJob -> JobType]

\* Where the command stands in its manifest, and how often it may still try.
PlaceOK(j) ==
    /\ job[j].item > 0
    /\ job[j].at \in AtItem => job[j].item <= Len(Manifest[j])
    /\ job[j].at \in AtEnd => job[j].item > Len(Manifest[j])
    /\ job[j].at \in {"send", "ask"} => job[j].offset < PubSize
    /\ job[j].at \notin {"abort", "failed"} => job[j].failures < PubTries /\ job[j].asks < PubTries

\* Every artifact before the present one is under its platform.
DoneOK(j) == \A i \in DOMAIN Manifest[j] :
    i < job[j].item => shipped[Manifest[j][i].slot] = Manifest[j][i].body

\* A late chunk ends within the file, and a whole session is left alone.
ChunksOK(j) ==
    /\ overdue[j] # NoPub => overdue[j].offset + overdue[j].bytes <= PubSize
    /\ job[j].at = "finalize" => upload[j] \in {PubSize, NoPub}

\* Only a published version is reported as published.
MarkedOK(j) == job[j].at = "ok" /\ j \notin DraftJob => version = "published"

PubInv == PubTypes /\ \A j \in PubJob : PlaceOK(j) /\ DoneOK(j) /\ ChunksOK(j) /\ MarkedOK(j)

\* The step moves one command.
OneJob(j) == job' \in [PubJob -> JobType] /\ \A k \in PubJob \ {j} : job'[k] = job[k]
\* ... in its manifest not at all.
SameItem(j) == job'[j].item = job[j].item /\ job'[j].offset = job[j].offset

\* A step to another label keeps the rest.
LEMMA JobToFacts ==
    ASSUME PubTypes, NEW j \in PubJob, NEW l \in PubLabels, JobTo(j, l)
    PROVE  /\ OneJob(j) /\ job'[j].at = l /\ SameItem(j)
           /\ job'[j].failures = job[j].failures /\ job'[j].asks = job[j].asks
<1>. DEFINE n == [job[j] EXCEPT !.at = l]
<1>1. job[j] \in JobType /\ job' = [job EXCEPT ![j] = n]
  BY DEF JobTo, PubTypes
<1>2. /\ n \in JobType /\ n.at = l /\ n.item = job[j].item /\ n.offset = job[j].offset
      /\ n.failures = job[j].failures /\ n.asks = job[j].asks
  BY <1>1 DEF JobType
<1>. HIDE DEF n
<1>. QED BY <1>1, <1>2 DEF OneJob, SameItem, PubTypes

\* The artifact at hand.
LEMMA ItemFacts ==
    ASSUME PubInv, NEW j \in PubJob, job[j].at \in AtItem
    PROVE  /\ job[j].item \in DOMAIN Manifest[j] /\ job[j].item \in Nat
           /\ Item(j) = Manifest[j][job[j].item]
           /\ Item(j).slot \in PubSlot /\ Item(j).body \in PubBody
<1>1. Manifest[j] \in Seq([slot : PubSlot, body : PubBody])
  BY PubManifests
<1>2. job[j].item \in 1..Len(Manifest[j]) /\ job[j].item \in Nat
  BY <1>1 DEF PubInv, PubTypes, JobType, PlaceOK
<1>3. Manifest[j][job[j].item] \in [slot : PubSlot, body : PubBody]
  <2>. DEFINE S == [slot : PubSlot, body : PubBody]
  <2>1. Manifest[j] \in Seq(S)
    BY <1>1
  <2>. HIDE DEF S
  <2>2. Manifest[j][job[j].item] \in S
    BY <1>2, <2>1
  <2>. QED BY <2>2 DEF S
<1>. QED BY <1>1, <1>2, <1>3 DEF Item

\* The command goes on to the next artifact.
LEMMA ItemDoneFacts ==
    ASSUME PubInv, NEW j \in PubJob, job[j].at \in AtItem, ItemDone(j)
    PROVE  /\ OneJob(j) /\ job'[j].at = "item" /\ job'[j].item = job[j].item + 1
           /\ job'[j].failures = job[j].failures /\ job'[j].asks = job[j].asks
<1>. DEFINE i == job[j].item + 1
            s == job[j].sent \cup {Item(j).body}
            n == [job[j] EXCEPT !.at = "item", !.item = i, !.sent = s]
<1>1. job[j] \in JobType /\ job' = [job EXCEPT ![j] = n]
  BY DEF ItemDone, PubInv, PubTypes
<1>2. i \in Nat /\ s \in SUBSET PubBody /\ "item" \in PubLabels
  BY <1>1, ItemFacts DEF JobType, PubLabels
<1>. HIDE DEF i, s
<1>3. /\ n \in JobType /\ n.at = "item" /\ n.item = i
      /\ n.failures = job[j].failures /\ n.asks = job[j].asks
  BY <1>1, <1>2 DEF JobType
<1>. HIDE DEF n
<1>. QED BY <1>1, <1>3 DEF OneJob, PubInv, PubTypes, i

\* A step of the command that leaves its artifacts and its session alone.
LEMMA LabelStep ==
    ASSUME PubInv, NEW j \in PubJob, NEW l \in PubLabels, JobTo(j, l),
           UNCHANGED <<shipped, overdue>>, upload' = upload \/ upload' = [upload EXCEPT ![j] = NoPub],
           version' \in {"none", "open", "published"}, version = "published" => version' = "published",
           l \in AtItem => job[j].item <= Len(Manifest[j]),
           l \in AtEnd => job[j].item > Len(Manifest[j]),
           l # "finalize", l \in {"send", "ask"} => job[j].offset < PubSize,
           job[j].at \in {"abort", "failed"} => l \in {"abort", "failed"},
           l = "ok" /\ j \notin DraftJob => version' = "published"
    PROVE  PubInv'
<1>1. /\ OneJob(j) /\ job'[j].at = l /\ SameItem(j)
      /\ job'[j].failures = job[j].failures /\ job'[j].asks = job[j].asks
  BY JobToFacts DEF PubInv
<1>2. upload' \in [PubJob -> 0..PubSize \cup {NoPub}] /\ \A k \in PubJob : upload'[k] = upload[k] \/ upload'[k] = NoPub
  BY DEF PubInv, PubTypes
<1>3. PubTypes'
  BY <1>1, <1>2 DEF PubInv, PubTypes, OneJob
<1>4. ASSUME NEW k \in PubJob PROVE (PlaceOK(k) /\ DoneOK(k) /\ ChunksOK(k) /\ MarkedOK(k))'
  <2>1. PlaceOK(k) /\ DoneOK(k) /\ ChunksOK(k) /\ MarkedOK(k)
    BY DEF PubInv
  <2>2. CASE k = j
    <3>1. PlaceOK(k)'
      BY <1>1, <2>1, <2>2 DEF PlaceOK, SameItem
    <3>2. DoneOK(k)'
      BY <1>1, <2>1, <2>2 DEF DoneOK, SameItem
    <3>3. ChunksOK(k)' /\ MarkedOK(k)'
      BY <1>1, <2>1, <2>2 DEF ChunksOK, MarkedOK
    <3>. QED BY <3>1, <3>2, <3>3
  <2>3. CASE k # j
    <3>1. job'[k] = job[k]
      BY <1>1, <2>3 DEF OneJob
    <3>. QED BY <1>2, <2>1, <3>1 DEF PlaceOK, DoneOK, ChunksOK, MarkedOK
  <2>. QED BY <2>2, <2>3
<1>. QED BY <1>3, <1>4 DEF PubInv

\* Putting a blob under a free platform keeps what is under the others.
LEMMA ShipStep ==
    ASSUME PubInv, NEW s \in PubSlot, NEW b \in PubBody, shipped[s] = NoPub,
           shipped' = [shipped EXCEPT ![s] = b]
    PROVE  /\ shipped' \in [PubSlot -> PubBody \cup {NoPub}] /\ shipped'[s] = b
           /\ \A j \in PubJob : \A i \in DOMAIN Manifest[j] :
                shipped[Manifest[j][i].slot] = Manifest[j][i].body
                  => shipped'[Manifest[j][i].slot] = Manifest[j][i].body
<1>1. ASSUME NEW j \in PubJob, NEW i \in DOMAIN Manifest[j]
      PROVE  Manifest[j][i].slot \in PubSlot /\ Manifest[j][i].body \in PubBody
  <2>. DEFINE S == [slot : PubSlot, body : PubBody]
  <2>1. Manifest[j] \in Seq(S)
    BY PubManifests
  <2>. HIDE DEF S
  <2>2. Manifest[j][i] \in S
    BY <1>1, <2>1
  <2>. QED BY <2>2 DEF S
<1>. QED BY <1>1, PubManifests DEF PubInv, PubTypes

\* A step that ships the artifact at hand, whether the command hears of it or not.
LEMMA ShippingStep ==
    ASSUME PubInv, NEW j \in PubJob, job[j].at \in AtItem, shipped[Item(j).slot] = NoPub,
           shipped' = [shipped EXCEPT ![Item(j).slot] = Item(j).body],
           upload' = upload \/ upload' = [upload EXCEPT ![j] = NoPub], UNCHANGED <<version, overdue>>,
           ItemDone(j) \/ JobTo(j, "failed") \/ JobTo(j, "abort")
    PROVE  PubInv'
<1>1. /\ job[j].item \in DOMAIN Manifest[j] /\ job[j].item \in Nat
      /\ Item(j) = Manifest[j][job[j].item] /\ Item(j).slot \in PubSlot /\ Item(j).body \in PubBody
  BY ItemFacts
<1>2. /\ shipped' \in [PubSlot -> PubBody \cup {NoPub}] /\ shipped'[Item(j).slot] = Item(j).body
      /\ \A k \in PubJob : \A i \in DOMAIN Manifest[k] :
            shipped[Manifest[k][i].slot] = Manifest[k][i].body => shipped'[Manifest[k][i].slot] = Manifest[k][i].body
  BY <1>1, ShipStep
<1>3. /\ OneJob(j) /\ job'[j].failures = job[j].failures /\ job'[j].asks = job[j].asks
      /\ \/ job'[j].at = "item" /\ job'[j].item = job[j].item + 1
         \/ job'[j].at \in {"failed", "abort"} /\ job'[j].item = job[j].item
  <2>1. "failed" \in PubLabels /\ "abort" \in PubLabels
    BY DEF PubLabels
  <2>. QED BY <2>1, JobToFacts, ItemDoneFacts DEF SameItem, PubInv
<1>4. upload' \in [PubJob -> 0..PubSize \cup {NoPub}] /\ \A k \in PubJob : upload'[k] = upload[k] \/ upload'[k] = NoPub
  BY DEF PubInv, PubTypes
<1>5. PubTypes'
  BY <1>2, <1>3, <1>4 DEF PubInv, PubTypes, OneJob
<1>6. ASSUME NEW k \in PubJob PROVE (PlaceOK(k) /\ DoneOK(k) /\ ChunksOK(k) /\ MarkedOK(k))'
  <2>1. PlaceOK(k) /\ DoneOK(k) /\ ChunksOK(k) /\ MarkedOK(k)
    BY DEF PubInv
  <2>2. CASE k = j
    <3>1. PlaceOK(k)'
      BY <1>1, <1>3, <2>1, <2>2 DEF PlaceOK, AtItem, AtEnd
    <3>2. DoneOK(k)'
      <4>. SUFFICES ASSUME NEW i \in DOMAIN Manifest[j], i < job'[j].item
                    PROVE  shipped'[Manifest[j][i].slot] = Manifest[j][i].body
        BY <2>2 DEF DoneOK
      <4>1. i \in Nat
        BY PubManifests
      <4>2. i < job[j].item \/ i = job[j].item
        BY <1>1, <1>3, <4>1
      <4>. QED BY <1>1, <1>2, <2>1, <2>2, <4>2 DEF DoneOK
    <3>3. ChunksOK(k)' /\ MarkedOK(k)'
      BY <1>3, <2>1, <2>2 DEF ChunksOK, MarkedOK
    <3>. QED BY <3>1, <3>2, <3>3
  <2>3. CASE k # j
    <3>1. job'[k] = job[k]
      BY <1>3, <2>3 DEF OneJob
    <3>2. DoneOK(k)'
      BY <1>2, <2>1, <3>1 DEF DoneOK
    <3>. QED BY <1>4, <2>1, <3>1, <3>2 DEF PlaceOK, ChunksOK, MarkedOK
  <2>. QED BY <2>2, <2>3
<1>. QED BY <1>5, <1>6 DEF PubInv

\* The steps outside of the chunks.
LEMMA PlainActions ==
    ASSUME PubInv, NEW j \in PubJob,
           \/ CreateVersion(j) \/ NextItem(j) \/ UploadByHash(j) \/ SendDirect(j)
           \/ RecordShipped(j) \/ AbortSession(j) \/ PublishVersion(j) \/ MarkVersion(j)
    PROVE  PubInv'
<1>1. /\ version \in {"none", "open", "published"} /\ PlaceOK(j) /\ job[j].item \in Nat
      /\ Len(Manifest[j]) \in Nat
  BY PubManifests DEF PubInv, PubTypes, JobType
<1>2. PubLabels = {"create", "item", "hashref", "direct", "session", "send", "ask", "finalize",
                   "record", "abort", "publish", "mark", "ok", "failed"}
  BY DEF PubLabels
<1>3. CASE CreateVersion(j)
  <2>1. /\ version' \in {"none", "open", "published"} /\ (version = "published" => version' = "published")
        /\ UNCHANGED <<shipped, upload, overdue>> /\ job[j].at = "create"
        /\ JobTo(j, "item") \/ JobTo(j, "failed")
    BY <1>1, <1>3 DEF CreateVersion, JobStops
  <2>. QED BY <1>2, <2>1, LabelStep DEF AtItem, AtEnd
<1>4. CASE NextItem(j)
  <2>1. PICK l \in {"publish", "hashref", "session", "direct"} :
          JobTo(j, l) /\ (l = "publish" <=> job[j].item > Len(Manifest[j]))
    BY <1>4 DEF NextItem
  <2>2. UNCHANGED <<version, shipped, upload, overdue>> /\ job[j].at = "item"
    BY <1>4 DEF NextItem
  <2>. QED BY <1>1, <1>2, <2>1, <2>2, LabelStep DEF AtItem, AtEnd
<1>5. CASE UploadByHash(j)
  <2>1. job[j].at = "hashref" /\ UNCHANGED <<version, upload, overdue>> /\ job[j].item <= Len(Manifest[j])
    BY <1>1, <1>5 DEF UploadByHash, PlaceOK, AtItem
  <2>2. CASE /\ shipped[Item(j).slot] = NoPub
             /\ shipped' = [shipped EXCEPT ![Item(j).slot] = Item(j).body]
             /\ ItemDone(j) \/ JobStops(j)
    BY <2>1, <2>2, ShippingStep DEF AtItem, JobStops
  <2>3. CASE UNCHANGED shipped /\ \E l \in {"failed", "session", "direct"} : JobTo(j, l)
    BY <1>1, <1>2, <2>1, <2>3, LabelStep DEF AtItem, AtEnd
  <2>4. UNCHANGED shipped /\ JobStops(j) => \E l \in {"failed", "session", "direct"} : JobTo(j, l)
    BY DEF JobStops
  <2>. QED BY <1>5, <2>2, <2>3, <2>4 DEF UploadByHash
<1>6. CASE SendDirect(j)
  <2>1. PICK l \in {"failed", "record"} : JobTo(j, l)
    BY <1>6 DEF SendDirect, JobStops
  <2>2. UNCHANGED <<version, shipped, upload, overdue>> /\ job[j].at = "direct" /\ job[j].item <= Len(Manifest[j])
    BY <1>1, <1>6 DEF SendDirect, PlaceOK, AtItem
  <2>. QED BY <1>1, <1>2, <2>1, <2>2, LabelStep DEF AtItem, AtEnd
<1>7. CASE RecordShipped(j)
  <2>1. job[j].at = "record" /\ UNCHANGED <<version, overdue>>
    BY <1>7 DEF RecordShipped
  <2>2. CASE shipped[Item(j).slot] = NoPub
    BY <1>7, <2>1, <2>2, ShippingStep DEF AtItem, RecordShipped
  <2>3. CASE shipped[Item(j).slot] # NoPub
    <3>1. JobTo(j, "failed") /\ UNCHANGED <<shipped, upload>>
      BY <1>7, <2>3 DEF RecordShipped, JobStops
    <3>. QED BY <1>1, <1>2, <2>1, <3>1, LabelStep DEF AtItem, AtEnd
  <2>. QED BY <2>2, <2>3
<1>8. CASE AbortSession(j)
  <2>1. /\ JobTo(j, "failed") /\ UNCHANGED <<version, shipped, overdue>>
        /\ upload' = upload \/ upload' = [upload EXCEPT ![j] = NoPub]
    BY <1>8 DEF AbortSession, JobStops
  <2>. QED BY <1>1, <1>2, <2>1, LabelStep DEF AtItem, AtEnd
<1>9. CASE PublishVersion(j)
  <2>1. PICK l \in {"ok", "mark", "failed"} : JobTo(j, l) /\ (l = "ok" => j \in DraftJob)
    BY <1>9 DEF PublishVersion, JobStops
  <2>2. UNCHANGED <<version, shipped, upload, overdue>> /\ job[j].at = "publish" /\ job[j].item > Len(Manifest[j])
    BY <1>1, <1>9 DEF PublishVersion, PlaceOK, AtEnd
  <2>. QED BY <1>1, <1>2, <2>1, <2>2, LabelStep DEF AtItem, AtEnd
<1>10. CASE MarkVersion(j)
  <2>1. PICK l \in {"ok", "failed"} : JobTo(j, l)
    BY <1>10 DEF MarkVersion, JobStops
  <2>2. /\ version' = "published" /\ UNCHANGED <<shipped, upload, overdue>>
        /\ job[j].at = "mark" /\ job[j].item > Len(Manifest[j])
    BY <1>1, <1>10 DEF MarkVersion, PlaceOK, AtEnd
  <2>. QED BY <1>1, <1>2, <2>1, <2>2, LabelStep DEF AtItem, AtEnd
<1>. QED BY <1>3, <1>4, <1>5, <1>6, <1>7, <1>8, <1>9, <1>10

\* Append leaves a session within the file, and a whole or a lost one as it is.
LEMMA AppendFacts ==
    ASSUME PubInv, NEW j \in PubJob, NEW offset \in 0..PubSize, NEW landed \in Nat,
           offset + landed <= PubSize, AppendTo(j, offset, landed)
    PROVE  /\ upload' \in [PubJob -> 0..PubSize \cup {NoPub}]
           /\ \A k \in PubJob \ {j} : upload'[k] = upload[k]
           /\ upload[j] # NoPub => upload'[j] \in 0..PubSize
           /\ upload[j] \in {PubSize, NoPub} => upload'[j] = upload[j]
<1>. DEFINE n == IF upload[j] = offset THEN upload[j] + landed ELSE upload[j]
<1>1. upload[j] \in 0..PubSize \cup {NoPub} /\ upload' = [upload EXCEPT ![j] = n]
  BY DEF AppendTo, PubInv, PubTypes
<1>2. /\ n \in 0..PubSize \cup {NoPub}
      /\ upload[j] # NoPub => n \in 0..PubSize
      /\ upload[j] \in {PubSize, NoPub} => n = upload[j]
  BY <1>1, PubBounds, NoPubAssumption
<1>. HIDE DEF n
<1>3. upload \in [PubJob -> 0..PubSize \cup {NoPub}]
  BY DEF PubInv, PubTypes
<1>4. upload'[j] = n /\ \A k \in PubJob \ {j} : upload'[k] = upload[k]
  BY <1>1, <1>3
<1>5. upload' \in [PubJob -> 0..PubSize \cup {NoPub}]
  BY <1>1, <1>2, <1>3
<1>. QED BY <1>2, <1>4, <1>5

\* The client goes on from the size it was told, gives up, or is at the end.
LEMMA ResumeFacts ==
    ASSUME PubInv, NEW j \in PubJob, job[j].at \in {"send", "ask"}, NEW n \in 0..PubSize, ResumeFrom(j, n)
    PROVE  /\ OneJob(j) /\ job'[j].item = job[j].item /\ job'[j].at \in {"abort", "finalize", "send"}
           /\ job'[j].at = "finalize" => n = PubSize
           /\ job'[j].at = "send" => job'[j].offset < PubSize
           /\ job'[j].at # "abort" => job'[j].failures < PubTries /\ job'[j].asks < PubTries
<1>. DEFINE stuck == n <= job[j].offset
            f == IF stuck THEN job[j].failures + 1 ELSE 0
            a == IF stuck /\ job[j].failures + 1 >= PubTries THEN "abort"
                 ELSE IF n >= PubSize THEN "finalize" ELSE "send"
            new == [job[j] EXCEPT !.offset = n, !.asks = 0, !.failures = f, !.at = a]
<1>1. job[j] \in JobType /\ job' = [job EXCEPT ![j] = new]
  BY DEF ResumeFrom, PubInv, PubTypes
<1>2. /\ f \in 0..PubTries /\ a \in {"abort", "finalize", "send"} /\ a \in PubLabels
      /\ a = "finalize" => n = PubSize
      /\ a = "send" => n < PubSize
      /\ a # "abort" => f < PubTries
  <2>1. job[j].failures \in Nat /\ job[j].failures < PubTries /\ job[j].offset \in Nat /\ n \in Nat
    BY <1>1, PubBounds DEF JobType, PubInv, PlaceOK
  <2>. QED BY <2>1, PubBounds DEF PubLabels
<1>3. 0 \in 0..PubTries /\ 0 < PubTries
  BY PubBounds
<1>. HIDE DEF f, a, stuck
<1>4. new \in JobType /\ new.at = a /\ new.offset = n /\ new.asks = 0 /\ new.failures = f /\ new.item = job[j].item
  BY <1>1, <1>2, <1>3 DEF JobType
<1>. HIDE DEF new
<1>. QED BY <1>1, <1>2, <1>3, <1>4 DEF OneJob, PubInv, PubTypes

\* What a step of one command's session has to show.
LEMMA SessionStep ==
    ASSUME PubInv, NEW j \in PubJob, OneJob(j), UNCHANGED <<version, shipped>>,
           upload' \in [PubJob -> 0..PubSize \cup {NoPub}], \A k \in PubJob \ {j} : upload'[k] = upload[k],
           overdue' \in [PubJob -> Overdue \cup {NoPub}], \A k \in PubJob \ {j} : overdue'[k] = overdue[k],
           job'[j].item = job[j].item, PlaceOK(j)', ChunksOK(j)', job'[j].at # "ok"
    PROVE  PubInv'
<1>1. PubTypes'
  BY DEF PubInv, PubTypes, OneJob
<1>2. ASSUME NEW k \in PubJob PROVE (PlaceOK(k) /\ DoneOK(k) /\ ChunksOK(k) /\ MarkedOK(k))'
  <2>1. PlaceOK(k) /\ DoneOK(k) /\ ChunksOK(k) /\ MarkedOK(k)
    BY DEF PubInv
  <2>2. CASE k = j
    BY <2>1, <2>2 DEF DoneOK, MarkedOK
  <2>3. CASE k # j
    <3>1. job'[k] = job[k] /\ upload'[k] = upload[k] /\ overdue'[k] = overdue[k]
      BY <2>3 DEF OneJob
    <3>. QED BY <2>1, <3>1 DEF PlaceOK, DoneOK, ChunksOK, MarkedOK
  <2>. QED BY <2>2, <2>3
<1>. QED BY <1>1, <1>2 DEF PubInv

\* The steps of a session.
LEMMA SessionActions ==
    ASSUME PubInv, NEW j \in PubJob, OpenUploadSession(j) \/ SendChunk(j) \/ AskSize(j) \/ FinalizeUpload(j)
    PROVE  PubInv'
<1>0. /\ PubTypes /\ PlaceOK(j) /\ ChunksOK(j) /\ job[j] \in JobType /\ job[j].item \in Nat
      /\ upload[j] \in 0..PubSize \cup {NoPub} /\ job[j].item > 0
      /\ job[j].item <= Len(Manifest[j]) /\ UNCHANGED <<version, shipped>>
      /\ job[j].at \in {"session", "send", "ask", "finalize"}
  BY DEF PubInv, PubTypes, JobType, PlaceOK, AtItem, OpenUploadSession, SendChunk, AskSize, FinalizeUpload
<1>1. PubLabels = {"create", "item", "hashref", "direct", "session", "send", "ask", "finalize",
                   "record", "abort", "publish", "mark", "ok", "failed"}
  BY DEF PubLabels
<1>2. CASE OpenUploadSession(j)
  <2>1. CASE /\ upload' = [upload EXCEPT ![j] = 0]
             /\ job' = [job EXCEPT ![j].at = "send", ![j].offset = 0, ![j].failures = 0]
             /\ overdue' = [overdue EXCEPT ![j] = NoPub]
    <3>. DEFINE new == [job[j] EXCEPT !.at = "send", !.offset = 0, !.failures = 0]
    <3>0. job' = [job EXCEPT ![j] = new]
      BY <1>0, <2>1 DEF PubTypes
    <3>1. job' = [job EXCEPT ![j] = new] /\ 0 \in 0..PubSize /\ 0 \in 0..PubTries /\ "send" \in PubLabels
      BY <1>1, <3>0, PubBounds
    <3>2. /\ new \in JobType /\ new.at = "send" /\ new.offset = 0 /\ new.failures = 0
          /\ new.asks = job[j].asks /\ new.item = job[j].item
      BY <1>0, <3>1 DEF JobType
    <3>. HIDE DEF new
    <3>3. OneJob(j) /\ job'[j] = new
      BY <1>0, <3>1, <3>2 DEF OneJob, PubTypes
    <3>4. job[j].asks < PubTries /\ 0 < PubTries /\ 0 < PubSize
      BY <1>0, <1>2, PubBounds DEF PlaceOK, OpenUploadSession
    <3>5. PlaceOK(j)'
      BY <1>0, <3>2, <3>3, <3>4 DEF PlaceOK, AtItem, AtEnd
    <3>6. /\ upload' \in [PubJob -> 0..PubSize \cup {NoPub}] /\ \A k \in PubJob \ {j} : upload'[k] = upload[k]
          /\ overdue' \in [PubJob -> Overdue \cup {NoPub}] /\ \A k \in PubJob \ {j} : overdue'[k] = overdue[k]
          /\ overdue'[j] = NoPub
      BY <1>0, <2>1, <3>1 DEF PubTypes
    <3>7. ChunksOK(j)'
      BY <3>2, <3>3, <3>6 DEF ChunksOK
    <3>. QED BY <1>0, <3>2, <3>3, <3>5, <3>6, <3>7, SessionStep
  <2>2. CASE JobTo(j, "failed") /\ UNCHANGED <<upload, overdue>>
    BY <1>0, <1>1, <2>2, LabelStep DEF AtItem, AtEnd, PubTypes
  <2>. QED BY <1>2, <2>1, <2>2 DEF OpenUploadSession, JobStops
<1>3. CASE AskSize(j)
  <2>1. /\ UNCHANGED <<upload, overdue>> /\ job[j].at = "ask"
        /\ upload' \in [PubJob -> 0..PubSize \cup {NoPub}] /\ overdue' \in [PubJob -> Overdue \cup {NoPub}]
    BY <1>0, <1>3 DEF AskSize, PubTypes
  <2>2. CASE upload[j] # NoPub /\ ResumeFrom(j, upload[j])
    <3>1. upload[j] \in 0..PubSize
      BY <1>0, <2>2
    <3>2. /\ OneJob(j) /\ job'[j].item = job[j].item /\ job'[j].at \in {"abort", "finalize", "send"}
          /\ job'[j].at = "finalize" => upload[j] = PubSize
          /\ job'[j].at = "send" => job'[j].offset < PubSize
          /\ job'[j].at # "abort" => job'[j].failures < PubTries /\ job'[j].asks < PubTries
      BY <2>1, <2>2, <3>1, ResumeFacts
    <3>3. PlaceOK(j)' /\ ChunksOK(j)'
      BY <1>0, <2>1, <3>2 DEF PlaceOK, ChunksOK, AtItem, AtEnd
    <3>. QED BY <1>0, <2>1, <3>2, <3>3, SessionStep
  <2>3. CASE job' = [job EXCEPT ![j].asks = @ + 1, ![j].at = IF job[j].asks + 1 >= PubTries THEN "abort" ELSE "ask"]
    <3>. DEFINE n == job[j].asks + 1
                a == IF n >= PubTries THEN "abort" ELSE "ask"
                new == [job[j] EXCEPT !.asks = n, !.at = a]
    <3>1. job' = [job EXCEPT ![j] = new]
      BY <1>0, <2>3 DEF PubTypes
    <3>2. n \in 0..PubTries /\ a \in {"abort", "ask"} /\ a \in PubLabels /\ (a = "ask" => n < PubTries)
      <4>1. job[j].asks \in Nat /\ job[j].asks < PubTries
        BY <1>0, <2>1, PubBounds DEF JobType, PlaceOK
      <4>. QED BY <1>1, <4>1, PubBounds
    <3>. HIDE DEF n, a
    <3>3. /\ new \in JobType /\ new.at = a /\ new.asks = n /\ new.failures = job[j].failures
          /\ new.offset = job[j].offset /\ new.item = job[j].item
      BY <1>0, <3>2 DEF JobType
    <3>. HIDE DEF new
    <3>4. OneJob(j) /\ job'[j] = new
      BY <1>0, <3>1, <3>3 DEF OneJob, PubTypes
    <3>5. PlaceOK(j)' /\ ChunksOK(j)'
      BY <1>0, <2>1, <3>2, <3>3, <3>4 DEF PlaceOK, ChunksOK, AtItem, AtEnd
    <3>. QED BY <1>0, <2>1, <3>2, <3>3, <3>4, <3>5, SessionStep
  <2>. QED BY <1>3, <2>2, <2>3 DEF AskSize
<1>4. CASE FinalizeUpload(j)
  <2>1. PICK l \in {"record", "failed", "abort"} : JobTo(j, l)
    BY <1>4 DEF FinalizeUpload
  <2>2. UNCHANGED <<upload, overdue>>
    BY <1>4 DEF FinalizeUpload
  <2>. QED BY <1>0, <1>1, <1>4, <2>1, <2>2, LabelStep DEF AtItem, AtEnd, PubTypes, FinalizeUpload
<1>5. CASE SendChunk(j)
  <2>. DEFINE offset == job[j].offset
              length == ChunkLength(offset)
  <2>1. /\ job[j].at = "send" /\ offset \in 0..PubSize /\ offset < PubSize
        /\ length \in 1..PubChunk /\ offset + length <= PubSize
    BY <1>0, <1>5, PubBounds DEF SendChunk, PlaceOK, JobType, ChunkLength
  <2>2. CASE upload[j] # NoPub /\ AppendTo(j, offset, length) /\ ResumeFrom(j, upload'[j]) /\ UNCHANGED overdue
    <3>. HIDE DEF offset, length
    <3>1. length \in Nat
      BY <2>1, PubBounds
    <3>2. /\ upload' \in [PubJob -> 0..PubSize \cup {NoPub}]
          /\ \A k \in PubJob \ {j} : upload'[k] = upload[k]
          /\ upload'[j] \in 0..PubSize
      BY <2>1, <2>2, <3>1, AppendFacts
    <3>3. /\ OneJob(j) /\ job'[j].item = job[j].item /\ job'[j].at \in {"abort", "finalize", "send"}
          /\ job'[j].at = "finalize" => upload'[j] = PubSize
          /\ job'[j].at = "send" => job'[j].offset < PubSize
          /\ job'[j].at # "abort" => job'[j].failures < PubTries /\ job'[j].asks < PubTries
      BY <2>1, <2>2, <3>2, ResumeFacts
    <3>4. PlaceOK(j)' /\ ChunksOK(j)'
      BY <1>0, <2>2, <3>3 DEF PlaceOK, ChunksOK, AtItem, AtEnd
    <3>. QED BY <1>0, <2>2, <3>2, <3>3, <3>4, SessionStep DEF PubTypes
  <2>3. CASE JobTo(j, "abort") /\ UNCHANGED <<upload, overdue>>
    BY <1>0, <1>1, <2>3, LabelStep DEF AtItem, AtEnd, PubTypes
  <2>4. CASE JobTo(j, "ask") /\ UNCHANGED overdue /\ \E landed \in 0..length : AppendTo(j, offset, landed)
    <3>1. PICK landed \in 0..length : AppendTo(j, offset, landed)
      BY <2>4
    <3>. HIDE DEF offset, length
    <3>2. landed \in Nat /\ offset + landed <= PubSize
      BY <2>1, PubBounds
    <3>3. upload' \in [PubJob -> 0..PubSize \cup {NoPub}] /\ \A k \in PubJob \ {j} : upload'[k] = upload[k]
      BY <2>1, <3>1, <3>2, AppendFacts
    <3>4. /\ OneJob(j) /\ job'[j].at = "ask" /\ SameItem(j)
          /\ job'[j].failures = job[j].failures /\ job'[j].asks = job[j].asks
      BY <1>0, <1>1, <2>4, JobToFacts
    <3>5. PlaceOK(j)' /\ ChunksOK(j)'
      BY <1>0, <2>1, <2>4, <3>4 DEF PlaceOK, ChunksOK, AtItem, AtEnd, SameItem, offset
    <3>. QED BY <1>0, <2>4, <3>3, <3>4, <3>5, SessionStep DEF PubTypes, SameItem
  <2>5. CASE /\ overdue' = [overdue EXCEPT ![j] = [offset |-> offset, bytes |-> length]]
             /\ JobTo(j, "ask") /\ UNCHANGED upload
    <3>. DEFINE late == [offset |-> offset, bytes |-> length]
    <3>. HIDE DEF offset, length
    <3>1. late \in Overdue /\ late.offset + late.bytes <= PubSize
      BY <2>1 DEF Overdue
    <3>2. overdue' = [overdue EXCEPT ![j] = late]
      BY <2>5
    <3>. HIDE DEF late
    <3>3. /\ overdue' \in [PubJob -> Overdue \cup {NoPub}] /\ overdue'[j] = late
          /\ \A k \in PubJob \ {j} : overdue'[k] = overdue[k]
      BY <1>0, <3>1, <3>2 DEF PubTypes
    <3>4. /\ OneJob(j) /\ job'[j].at = "ask" /\ SameItem(j)
          /\ job'[j].failures = job[j].failures /\ job'[j].asks = job[j].asks
      BY <1>0, <1>1, <2>5, JobToFacts
    <3>5. PlaceOK(j)' /\ ChunksOK(j)'
      BY <1>0, <2>1, <3>1, <3>3, <3>4 DEF PlaceOK, ChunksOK, AtItem, AtEnd, SameItem, offset
    <3>. QED BY <1>0, <2>5, <3>3, <3>4, <3>5, SessionStep DEF PubTypes, SameItem
  <2>. QED BY <1>5, <2>2, <2>3, <2>4, <2>5 DEF SendChunk
<1>. QED BY <1>2, <1>3, <1>4, <1>5

\* What happens without the command: a late chunk, a sweep or a restart.
LEMMA ServerActions ==
    ASSUME PubInv, LoseSessions \/ \E j \in PubJob : DeliverOverdue(j)
    PROVE  PubInv'
<1>1. CASE LoseSessions
  <2>1. PubTypes'
    BY <1>1 DEF LoseSessions, PubInv, PubTypes
  <2>2. ASSUME NEW k \in PubJob PROVE (PlaceOK(k) /\ DoneOK(k) /\ ChunksOK(k) /\ MarkedOK(k))'
    BY <1>1 DEF LoseSessions, PubInv, PlaceOK, DoneOK, ChunksOK, MarkedOK
  <2>. QED BY <2>1, <2>2 DEF PubInv
<1>2. ASSUME NEW j \in PubJob, DeliverOverdue(j) PROVE PubInv'
  <2>1. /\ overdue[j] # NoPub /\ AppendTo(j, overdue[j].offset, overdue[j].bytes)
        /\ overdue' = [overdue EXCEPT ![j] = NoPub] /\ UNCHANGED <<version, shipped, job>>
    BY <1>2 DEF DeliverOverdue
  <2>2. overdue[j] \in Overdue /\ overdue[j].offset + overdue[j].bytes <= PubSize
    BY <2>1 DEF PubInv, PubTypes, ChunksOK
  <2>3. overdue[j].offset \in 0..PubSize /\ overdue[j].bytes \in Nat
    BY <2>2, PubBounds DEF Overdue
  <2>4. /\ upload' \in [PubJob -> 0..PubSize \cup {NoPub}]
        /\ \A k \in PubJob \ {j} : upload'[k] = upload[k]
        /\ upload[j] \in {PubSize, NoPub} => upload'[j] = upload[j]
    BY <2>1, <2>2, <2>3, AppendFacts
  <2>5. PubTypes'
    BY <2>1, <2>4 DEF PubInv, PubTypes
  <2>6. ASSUME NEW k \in PubJob PROVE (PlaceOK(k) /\ DoneOK(k) /\ ChunksOK(k) /\ MarkedOK(k))'
    <3>1. PlaceOK(k) /\ DoneOK(k) /\ ChunksOK(k) /\ MarkedOK(k)
      BY DEF PubInv
    <3>2. ChunksOK(k)'
      BY <2>1, <2>4, <3>1 DEF ChunksOK, PubInv, PubTypes
    <3>. QED BY <2>1, <3>1, <3>2 DEF PlaceOK, DoneOK, MarkedOK
  <2>. QED BY <2>5, <2>6 DEF PubInv
<1>. QED BY <1>1, <1>2

\* Before the first request.
LEMMA PubInvInit == PubInit => PubInv
<1>. SUFFICES ASSUME PubInit PROVE PubInv
  OBVIOUS
<1>1. PICK byHash \in BOOLEAN : job = [j \in PubJob |-> NewJob(byHash)]
  BY DEF PubInit
<1>2. /\ NewJob(byHash) \in JobType /\ NewJob(byHash).at = "create" /\ NewJob(byHash).item = 1
      /\ NewJob(byHash).failures = 0 /\ NewJob(byHash).asks = 0
  <2>1. "create" \in PubLabels /\ 0 \in 0..PubSize /\ 0 \in 0..PubTries /\ {} \in SUBSET PubBody
    BY PubBounds DEF PubLabels
  <2>. QED BY <2>1 DEF NewJob, JobType
<1>3. \A j \in PubJob : job[j] = NewJob(byHash)
  BY <1>1
<1>4. PubTypes
  BY <1>1, <1>2 DEF PubInit, PubTypes
<1>5. ASSUME NEW j \in PubJob PROVE PlaceOK(j) /\ DoneOK(j) /\ ChunksOK(j) /\ MarkedOK(j)
  <2>1. PlaceOK(j)
    BY <1>2, <1>3, PubBounds DEF PlaceOK, AtItem, AtEnd
  <2>2. \A i \in DOMAIN Manifest[j] : i \in Nat /\ i >= 1
    BY PubManifests
  <2>3. DoneOK(j)
    BY <1>2, <1>3, <2>2 DEF DoneOK
  <2>4. ChunksOK(j) /\ MarkedOK(j)
    BY <1>2, <1>3 DEF PubInit, ChunksOK, MarkedOK
  <2>. QED BY <2>1, <2>3, <2>4
<1>. QED BY <1>4, <1>5 DEF PubInv

\* The invariant holds of every behaviour.
LEMMA PubInvHolds == PubSpec => []PubInv
<1>1. PubInv /\ [PubNext]_pubVars => PubInv'
  <2>. SUFFICES ASSUME PubInv, [PubNext]_pubVars PROVE PubInv'
    OBVIOUS
  <2>1. CASE UNCHANGED pubVars
    BY <2>1 DEF pubVars, PubInv, PubTypes, PlaceOK, DoneOK, ChunksOK, MarkedOK
  <2>. QED BY <2>1, PlainActions, SessionActions, ServerActions DEF PubNext, PubStep
<1>. QED BY <1>1, PubInvInit, PTL DEF PubSpec

\* A publish that reports success left all of its manifest on the server.
THEOREM SuccessMeansShipped == PubSpec => []SuccessIsShipped
<1>1. ASSUME PubInv PROVE SuccessIsShipped
  <2>. SUFFICES ASSUME NEW j \in PubJob, job[j].at = "ok"
                PROVE  /\ j \notin DraftJob => version = "published"
                       /\ \A i \in DOMAIN Manifest[j] : shipped[Manifest[j][i].slot] = Manifest[j][i].body
    BY DEF SuccessIsShipped
  <2>1. PlaceOK(j) /\ DoneOK(j) /\ MarkedOK(j) /\ job[j].item \in Nat /\ job[j].item > Len(Manifest[j])
    BY <1>1 DEF PubInv, PubTypes, JobType, PlaceOK, AtEnd
  <2>2. \A i \in DOMAIN Manifest[j] : i < job[j].item
    BY <2>1, PubManifests
  <2>. QED BY <2>1, <2>2 DEF DoneOK, MarkedOK
<1>. QED BY <1>1, PubInvHolds, PTL

\* A session is finalized only when it is whole or gone.
THEOREM FinalizesAreWhole == PubSpec => []FinalizesWhole
<1>1. PubInv => FinalizesWhole
  BY DEF PubInv, ChunksOK, FinalizesWhole, PubTypeOK, PubTypes, JobType, Overdue
<1>. QED BY <1>1, PubInvHolds, PTL

(***************************************************************************)
(* Sites                                                                   *)
(***************************************************************************)

SiteJob == [at : {"pipe", "upsert"}, branch : SiteBranch, body : 1..MaxBlocks, bad : 0..MaxBlocks,
            read : 0..MaxBlocks, prod : {"run", "ok", "bad"}, cons : {"run", "ok", "bad"}]

\* The producer is content only after the whole body, the consumer only after
\* the producer, and only then is there anything to record.
UpOK(j) ==
    \/ j = NoUpload
    \/ /\ j \in SiteJob /\ j.read <= j.body
       /\ j.prod = "ok" => j.read = j.body
       /\ j.cons = "ok" => j.prod = "ok"
       /\ j.at = "upsert" => j.read = j.body

SiteTable == [SiteBranch -> SiteRow \cup {NoSite}]

\* The conversion works on rows that were there when it listed them.
ConvOK(c) ==
    \/ c = [at |-> "list", todo |-> {}]
    \/ c \in [at : {"next"}, todo : SUBSET SiteBranch, key : SiteTable] /\ \A b \in c.todo : c.key[b] # NoSite
    \/ /\ c \in [at : {"replace"}, todo : SUBSET SiteBranch, key : SiteTable, branch : SiteBranch]
       /\ c.key[c.branch] # NoSite /\ \A b \in c.todo : c.key[b] # NoSite

\* What is published to a branch is what its row holds.
PublishedOK == \A b \in SiteBranch : suPub[b] = IF suRow[b] = NoSite THEN 0 ELSE suRow[b].blocks

SitesInv ==
    /\ suRow \in SiteTable
    /\ PublishedOK /\ suPub = [b \in SiteBranch |-> suPub[b]]
    /\ DOMAIN suUp = SiteUpload /\ \A u \in SiteUpload : UpOK(suUp[u])
    /\ ConvOK(suConv)

\* The uploads stay well formed when the one that moves does.
LEMMA UpGoFacts ==
    ASSUME SitesInv, NEW u \in SiteUpload, NEW j, UpOK(j), UpGo(u, j)
    PROVE  DOMAIN suUp' = SiteUpload /\ \A v \in SiteUpload : UpOK(suUp'[v])
<1>1. suUp' = [suUp EXCEPT ![u] = j]
  BY DEF UpGo
<1>2. \A v \in SiteUpload : suUp'[v] = IF v = u THEN j ELSE suUp[v]
  BY <1>1 DEF SitesInv
<1>. QED BY <1>1, <1>2 DEF SitesInv

\* The steps of the pipeline touch their upload only.
LEMMA PipeActions ==
    ASSUME SitesInv, NEW u \in SiteUpload,
           UploadSite(u) \/ Block(u) \/ ProducerEnds(u) \/ ConsumerFails(u) \/ ConsumerEnds(u) \/ StoreArchive(u)
    PROVE  SitesInv'
<1>. DEFINE j == suUp[u]
<1>1. UpOK(j) /\ UpOK(NoUpload) /\ NoUpload.at = "idle"
  BY DEF SitesInv, UpOK, NoUpload
<1>2. UNCHANGED <<suRow, suConv, suPub>>
  BY DEF UploadSite, Block, ProducerEnds, ConsumerFails, ConsumerEnds, StoreArchive
<1>3. \E k : UpOK(k) /\ UpGo(u, k)
  <2>1. CASE UploadSite(u)
    <3>1. PICK b \in SiteBranch, n \in 1..MaxBlocks, bad \in 0..MaxBlocks :
            UpGo(u, [at |-> "pipe", branch |-> b, body |-> n, bad |-> bad, read |-> 0,
                     prod |-> "run", cons |-> "run"])
      BY <2>1 DEF UploadSite
    <3>2. UpOK([at |-> "pipe", branch |-> b, body |-> n, bad |-> bad, read |-> 0,
                     prod |-> "run", cons |-> "run"])
      BY SiteBlocks DEF UpOK, SiteJob
    <3>. QED BY <3>1, <3>2
  <2>2. CASE Block(u)
    <3>. DEFINE n == j.read + 1
    <3>1. j.at = "pipe" /\ j.prod = "run" /\ j.cons = "run" /\ j.read < j.body /\ UpGo(u, [j EXCEPT !.read = n])
      BY <2>2 DEF Block
    <3>2. j \in SiteJob /\ n \in 0..MaxBlocks /\ n <= j.body
      BY <1>1, <3>1, SiteBlocks DEF UpOK, SiteJob
    <3>. DEFINE k == [j EXCEPT !.read = n]
    <3>. HIDE DEF n, j
    <3>3. k \in SiteJob /\ k.read = n /\ k.body = j.body /\ k.prod = "run" /\ k.cons = "run" /\ k.at = "pipe"
      BY <3>1, <3>2 DEF SiteJob
    <3>4. UpOK(k)
      BY <3>2, <3>3 DEF UpOK
    <3>. QED BY <3>1, <3>4
  <2>3. CASE ProducerEnds(u)
    <3>1. PICK x \in {"ok", "bad"} : /\ UpGo(u, [j EXCEPT !.prod = x]) /\ (x = "ok" => j.read = j.body /\ j.cons = "run")
                                     /\ j.at = "pipe" /\ j.prod = "run"
      BY <2>3 DEF ProducerEnds
    <3>. DEFINE k == [j EXCEPT !.prod = x]
    <3>2. j \in SiteJob /\ j.read <= j.body /\ j.cons # "ok"
      BY <1>1, <3>1 DEF UpOK
    <3>. HIDE DEF j
    <3>3. k \in SiteJob /\ k.read = j.read /\ k.body = j.body /\ k.prod = x /\ k.cons = j.cons /\ k.at = "pipe"
      BY <3>1, <3>2 DEF SiteJob
    <3>4. UpOK(k)
      BY <3>1, <3>2, <3>3 DEF UpOK
    <3>. QED BY <3>1, <3>4
  <2>4. CASE ConsumerFails(u) \/ ConsumerEnds(u)
    <3>1. PICK x \in {"ok", "bad"} : /\ UpGo(u, [j EXCEPT !.cons = x]) /\ (x = "ok" => j.prod = "ok")
                                     /\ j.at = "pipe"
      <4>1. j.at = "pipe" => j.prod \in {"run", "ok", "bad"}
        BY <1>1 DEF UpOK, SiteJob
      <4>. QED BY <2>4, <4>1 DEF ConsumerFails, ConsumerEnds
    <3>. DEFINE k == [j EXCEPT !.cons = x]
    <3>2. j \in SiteJob /\ j.read <= j.body /\ (j.prod = "ok" => j.read = j.body)
      BY <1>1, <3>1 DEF UpOK
    <3>. HIDE DEF j
    <3>3. k \in SiteJob /\ k.read = j.read /\ k.body = j.body /\ k.prod = j.prod /\ k.cons = x /\ k.at = "pipe"
      BY <3>1, <3>2 DEF SiteJob
    <3>4. UpOK(k)
      BY <3>1, <3>2, <3>3 DEF UpOK
    <3>. QED BY <3>1, <3>4
  <2>5. CASE StoreArchive(u)
    <3>1. CASE UpGo(u, NoUpload)
      BY <1>1, <3>1
    <3>2. CASE j.prod = "ok" /\ j.cons = "ok" /\ UpGo(u, [j EXCEPT !.at = "upsert"])
      <4>. DEFINE k == [j EXCEPT !.at = "upsert"]
      <4>1. j \in SiteJob /\ j.read = j.body /\ j.read <= j.body
        BY <1>1, <2>5, <3>2 DEF UpOK, StoreArchive
      <4>. HIDE DEF j
      <4>2. k \in SiteJob /\ k.read = j.read /\ k.body = j.body /\ k.prod = "ok" /\ k.cons = "ok" /\ k.at = "upsert"
        BY <3>2, <4>1 DEF SiteJob
      <4>3. UpOK(k)
        BY <4>1, <4>2 DEF UpOK
      <4>. QED BY <3>2, <4>3
    <3>. QED BY <2>5, <3>1, <3>2 DEF StoreArchive
  <2>. QED BY <2>1, <2>2, <2>3, <2>4, <2>5
<1>4. DOMAIN suUp' = SiteUpload /\ \A v \in SiteUpload : UpOK(suUp'[v])
  BY <1>3, UpGoFacts
<1>. QED BY <1>2, <1>4 DEF SitesInv, PublishedOK

\* The row that is recorded is of the whole body.
LEMMA UpsertAction ==
    ASSUME SitesInv, NEW u \in SiteUpload, UpsertSite(u)
    PROVE  SitesInv'
<1>. DEFINE j == suUp[u]
            row == [kind |-> "archive", blocks |-> j.read]
<1>1. /\ j.at = "upsert" /\ UpGo(u, NoUpload) /\ UNCHANGED suConv
      /\ \/ suRow' = [suRow EXCEPT ![j.branch] = row] /\ suPub' = [suPub EXCEPT ![j.branch] = j.body]
         \/ UNCHANGED <<suRow, suPub>>
  BY DEF UpsertSite
<1>2. j \in SiteJob /\ j.read = j.body
  BY <1>1 DEF SitesInv, UpOK, NoUpload
<1>3. j.branch \in SiteBranch /\ row \in SiteRow /\ row # NoSite /\ row.blocks = j.body
  BY <1>2, NoSiteAssumption DEF SiteJob, SiteRow
<1>4. DOMAIN suUp' = SiteUpload /\ \A v \in SiteUpload : UpOK(suUp'[v])
  BY <1>1, UpGoFacts DEF UpOK
<1>. HIDE DEF row, j
<1>5. suRow' \in SiteTable /\ suPub' = [b \in SiteBranch |-> suPub'[b]] /\ PublishedOK'
  BY <1>1, <1>3 DEF SitesInv, SiteTable, PublishedOK
<1>. QED BY <1>1, <1>4, <1>5 DEF SitesInv

\* Deletions, and the conversion of old sites.
LEMMA RowActions ==
    ASSUME SitesInv, DeleteSite \/ ListAllSites \/ ConvertSite \/ ReplaceSiteBlob
    PROVE  SitesInv'
<1>1. CASE DeleteSite
  BY <1>1 DEF DeleteSite, SitesInv, SiteTable, PublishedOK
<1>2. CASE ListAllSites
  <2>1. ConvOK(suConv)'
    BY <1>2 DEF ListAllSites, SitesInv, ConvOK
  <2>. QED BY <1>2, <2>1 DEF ListAllSites, SitesInv, PublishedOK
<1>3. CASE ConvertSite
  <2>1. PICK b \in suConv.todo :
         \/ suConv' = [at |-> "replace", todo |-> suConv.todo \ {b}, key |-> suConv.key, branch |-> b]
         \/ suConv' = [suConv EXCEPT !.todo = @ \ {b}]
    BY <1>3 DEF ConvertSite
  <2>2. suConv \in [at : {"next"}, todo : SUBSET SiteBranch, key : SiteTable] /\ \A c \in suConv.todo : suConv.key[c] # NoSite
    BY <1>3 DEF ConvertSite, SitesInv, ConvOK
  <2>3. ConvOK(suConv)'
    <3>1. CASE suConv' = [at |-> "replace", todo |-> suConv.todo \ {b}, key |-> suConv.key, branch |-> b]
      BY <2>2, <3>1 DEF ConvOK
    <3>2. CASE suConv' = [suConv EXCEPT !.todo = @ \ {b}]
      <4>1. /\ suConv' \in [at : {"next"}, todo : SUBSET SiteBranch, key : SiteTable]
            /\ suConv'.key = suConv.key /\ suConv'.todo = suConv.todo \ {b}
        BY <2>2, <3>2
      <4>. QED BY <2>2, <4>1 DEF ConvOK
    <3>. QED BY <2>1, <3>1, <3>2
  <2>. QED BY <1>3, <2>3 DEF ConvertSite, SitesInv, PublishedOK
<1>4. CASE ReplaceSiteBlob
  <2>. DEFINE b == suConv.branch
  <2>1. /\ suRow' = IF suRow[b] = suConv.key[b] THEN [suRow EXCEPT ![b].kind = "archive"] ELSE suRow
        /\ suConv' = [at |-> "next", todo |-> suConv.todo, key |-> suConv.key]
        /\ UNCHANGED <<suUp, suPub>> /\ suConv.at = "replace"
    BY <1>4 DEF ReplaceSiteBlob
  <2>2. /\ suConv \in [at : {"replace"}, todo : SUBSET SiteBranch, key : SiteTable, branch : SiteBranch]
        /\ suConv.key[b] # NoSite /\ \A c \in suConv.todo : suConv.key[c] # NoSite
    BY <2>1 DEF SitesInv, ConvOK
  <2>3. ConvOK(suConv)'
    BY <2>1, <2>2 DEF ConvOK
  <2>4. suRow' \in SiteTable /\ PublishedOK'
    <3>1. CASE suRow[b] = suConv.key[b]
      <4>. DEFINE row == [suRow[b] EXCEPT !.kind = "archive"]
      <4>1. suRow[b] \in SiteRow /\ b \in SiteBranch
        BY <2>2, <3>1 DEF SitesInv, SiteTable
      <4>2. row \in SiteRow /\ row.blocks = suRow[b].blocks /\ row # NoSite
        BY <4>1, NoSiteAssumption DEF SiteRow
      <4>3. suRow' = [suRow EXCEPT ![b] = row]
        BY <2>1, <3>1
      <4>. HIDE DEF row, b
      <4>. QED BY <2>1, <2>2, <3>1, <4>1, <4>2, <4>3, NoSiteAssumption DEF SitesInv, SiteTable, PublishedOK
    <3>2. CASE suRow[b] # suConv.key[b]
      BY <2>1, <3>2 DEF SitesInv, PublishedOK
    <3>. QED BY <3>1, <3>2
  <2>. QED BY <2>1, <2>3, <2>4 DEF SitesInv
<1>. QED BY <1>1, <1>2, <1>3, <1>4

\* A site is all of the body last published to its branch.
THEOREM SitesStayPublished == SitesSpec => []SitesAreLastPublished
<1>1. SitesInit => SitesInv
  BY DEF SitesInit, SitesInv, SiteTable, PublishedOK, UpOK, ConvOK
<1>2. SitesInv /\ [SitesNext]_suVars => SitesInv'
  <2>. SUFFICES ASSUME SitesInv, [SitesNext]_suVars PROVE SitesInv'
    OBVIOUS
  <2>1. CASE UNCHANGED suVars
    BY <2>1 DEF suVars, SitesInv, PublishedOK
  <2>. QED BY <2>1, PipeActions, UpsertAction, RowActions DEF SitesNext, UploadStep
<1>3. SitesInv => SitesAreLastPublished
  <2>. SUFFICES ASSUME SitesInv PROVE SitesAreLastPublished
    OBVIOUS
  <2>1. suPub \in [SiteBranch -> 0..MaxBlocks]
    <3>1. \A b \in SiteBranch : suPub[b] \in 0..MaxBlocks
      BY SiteBlocks DEF SitesInv, PublishedOK, SiteTable, SiteRow
    <3>. QED BY <3>1 DEF SitesInv
  <2>2. suConv.at \in {"list", "next", "replace"} /\ suConv.todo \subseteq SiteBranch
    BY DEF SitesInv, ConvOK
  <2>3. ASSUME NEW u \in SiteUpload
        PROVE  \/ suUp[u].at \in {"idle", "upsert"}
               \/ suUp[u].at = "pipe" /\ suUp[u].prod \in {"run", "ok", "bad"} /\ suUp[u].read \in 0..suUp[u].body
    BY SiteBlocks DEF SitesInv, UpOK, NoUpload, SiteJob
  <2>. QED BY <2>1, <2>2, <2>3 DEF SitesInv, SiteTable, PublishedOK, SitesAreLastPublished, SitesTypeOK
<1>. QED BY <1>1, <1>2, <1>3, PTL DEF SitesSpec

(***************************************************************************)
(* Images                                                                  *)
(***************************************************************************)

\* A push after its first statement.
PushJob == [at : {"refs", "find", "create", "artifact", "publish", "settag"}, doc : Doc,
            tag : ImageTag \cup {NoImage}, todo : SUBSET (Layer \cup ImageDoc), rel : ImageRelease \cup {0}]

\* The documents of a release of d.
ImagesOf(d) == {d} \cup imRefs[d]

\* A document names what its kind may name.
RefsOK ==
    /\ imRefs \in [Doc -> SUBSET (Layer \cup ImageDoc)]
    /\ \A d \in ImageDoc : imRefs[d] \subseteq Layer
    /\ \A d \in IndexDoc : imRefs[d] \subseteq ImageDoc

\* Links, packaged layers and releases; what retention has listed is published.
StoresOK ==
    /\ imLink \subseteq Layer \cup Doc
    /\ imPack \subseteq Layer
    /\ imRel \in [ImageRelease -> [st : {"none", "row", "evicted"}, docs : SUBSET Doc, published : BOOLEAN]]
    /\ imListed \subseteq ImageRelease
    /\ \A r \in imListed : imRel[r].st = "row" /\ imRel[r].published

\* A release that a tag may name for d.
GoodFor(r, d) ==
    /\ r \in ImageRelease /\ imRel[r].st = "row" /\ imRel[r].published
    /\ imRel[r].docs \subseteq ImagesOf(d)

\* A document and all it names is linked to the project.
Linked(d) == d \in imLink /\ imRefs[d] \subseteq imLink

\* A tag.
OneTag(t) ==
    imTag[t] # NoImage =>
        imTag[t] \in [doc : Doc, rel : ImageRelease] /\ Linked(imTag[t].doc) /\ GoodFor(imTag[t].rel, imTag[t].doc)

\* A push has linked what it has looked at, makes a release of its own that
\* nothing else knows until it is published, and tags only with a good one.
OnePush(p) ==
    LET j == imJob[p] IN
    /\ j = NoPush \/ j \in PushJob
    /\ j # NoPush => j.doc \in imLink /\ imRefs[j.doc] \ j.todo \subseteq imLink
    /\ j # NoPush /\ j.at # "refs" => j.todo = {} /\ j.tag \in ImageTag
    /\ j.at \in {"artifact", "publish"} => /\ j.rel \in ImageRelease
                                           /\ imRel[j.rel].st = "row" /\ ~imRel[j.rel].published
    /\ j.at = "publish" => imRel[j.rel].docs \subseteq ImagesOf(j.doc)
    /\ j.at = "settag" => /\ j.rel \in ImageRelease /\ imRel[j.rel].st # "none"
                          /\ imRel[j.rel].st = "row" => GoodFor(j.rel, j.doc)

\* Of every tag and of every push.
TagsOK == imTag = [t \in ImageTag |-> imTag[t]] /\ \A t \in ImageTag : OneTag(t)
PushesOK == imJob = [p \in ImagePush |-> imJob[p]] /\ \A p \in ImagePush : OnePush(p)

\* Two pushes do not make one release.
OwnReleases ==
    \A p, q \in ImagePush :
        /\ imJob[p].at \in {"artifact", "publish"} /\ imJob[q].at \in {"artifact", "publish"}
        /\ imJob[p].rel = imJob[q].rel
        => p = q

\* The inductive invariant of the registry.
ImageInv == RefsOK /\ StoresOK /\ TagsOK /\ PushesOK /\ OwnReleases

\* No tag, no push and no release: what holds of them holds of none.
LEMMA ImageInvInit == ImageInit => ImageInv
<1> SUFFICES ASSUME ImageInit PROVE ImageInv OBVIOUS
<1> USE DEF ImageInit
<1>1. RefsOK BY DocKinds DEF RefsOK, Doc
<1>2. StoresOK BY DEF StoresOK, NoRelease
<1>3. TagsOK BY DEF TagsOK, OneTag
<1>4. PushesOK BY DEF PushesOK, OnePush, NoPush
<1>5. OwnReleases BY DEF OwnReleases, NoPush
<1> QED BY <1>1, <1>2, <1>3, <1>4, <1>5 DEF ImageInv

\* A tag that a step leaves alone stays good when links grow and releases stay.
LEMMA TagFrame ==
    ASSUME NEW t \in ImageTag, OneTag(t), UNCHANGED <<imRefs, imRel>>, imLink \subseteq imLink', imTag'[t] = imTag[t]
    PROVE  OneTag(t)'
BY DEF OneTag, Linked, GoodFor, ImagesOf

\* The same of a push.
LEMMA JobFrame ==
    ASSUME NEW p \in ImagePush, OnePush(p), UNCHANGED <<imRefs, imRel>>, imLink \subseteq imLink', imJob'[p] = imJob[p]
    PROVE  OnePush(p)'
BY DEF OnePush, GoodFor, ImagesOf

\* A step of one push that leaves tags and releases alone.
LEMMA PushStep ==
    ASSUME ImageInv, NEW p \in ImagePush, NEW j, JobGo(p, j), UNCHANGED <<imRefs, imPack, imTag, imRel, imListed>>,
           imLink \subseteq imLink', imLink' \subseteq Layer \cup Doc, OnePush(p)',
           j.at \in {"artifact", "publish"} => imJob[p].at \in {"artifact", "publish"} /\ j.rel = imJob[p].rel
    PROVE  ImageInv'
<1> USE DEF ImageInv
<1>1. imJob' = [imJob EXCEPT ![p] = j] BY DEF JobGo
<1>2. imJob'[p] = j /\ \A q \in ImagePush : q # p => imJob'[q] = imJob[q] BY <1>1 DEF PushesOK
<1>3. RefsOK' BY DEF RefsOK
<1>4. StoresOK' BY DEF StoresOK
<1>5. TagsOK' BY TagFrame DEF TagsOK
<1>6. PushesOK'
  <2>1. imJob' = [q \in ImagePush |-> imJob'[q]] BY <1>1 DEF PushesOK
  <2>2. ASSUME NEW q \in ImagePush, q # p PROVE OnePush(q)' BY <1>2, <2>2, JobFrame DEF PushesOK
  <2> QED BY <2>1, <2>2 DEF PushesOK
<1>7. OwnReleases' BY <1>2 DEF OwnReleases
<1> QED BY <1>3, <1>4, <1>5, <1>6, <1>7

\* A push gives up.
LEMMA PushGivesUp ==
    ASSUME ImageInv, NEW p \in ImagePush, JobGo(p, NoPush), UNCHANGED <<imRefs, imLink, imPack, imTag, imRel, imListed>>
    PROVE  ImageInv'
<1>1. imJob'[p] = NoPush BY DEF JobGo, ImageInv, PushesOK
<1>2. OnePush(p)' BY <1>1 DEF OnePush, NoPush
<1> QED BY <1>2, PushStep DEF NoPush, ImageInv, StoresOK

\* A push that has begun has its locals.
LEMMA PushLocals ==
    ASSUME ImageInv, NEW p \in ImagePush, ~JobAt(p, "idle")
    PROVE  imJob[p] \in PushJob /\ imJob[p] # NoPush /\ OnePush(p)
BY DEF ImageInv, PushesOK, OnePush, JobAt, NoPush, PushJob

\* The first statements of a push.
LEMMA RefActions ==
    ASSUME ImageInv, NEW p \in ImagePush, PutManifest(p) \/ ReferencedBlob(p) \/ SameTag(p) \/ ReleaseForDigest(p) \/ PushFails(p)
    PROVE  ImageInv'
<1>r. /\ imRefs \in [Doc -> SUBSET (Layer \cup ImageDoc)] /\ imLink \subseteq Layer \cup Doc
      /\ ImageDoc \subseteq Doc
  BY DEF ImageInv, RefsOK, StoresOK, Doc
<1>f. \A j : JobGo(p, j) => imJob'[p] = j BY DEF JobGo, ImageInv, PushesOK
<1>1. CASE PutManifest(p)
  <2>1. PICK d \in Doc, t \in ImageTag \cup {NoImage} :
          /\ JobGo(p, [at |-> "refs", doc |-> d, tag |-> t, todo |-> imRefs[d], rel |-> 0])
          /\ imLink' = imLink \cup {d}
    BY <1>1 DEF PutManifest
  <2> DEFINE j == [at |-> "refs", doc |-> d, tag |-> t, todo |-> imRefs[d], rel |-> 0]
  <2>2. imJob'[p] = j /\ UNCHANGED <<imRefs, imPack, imTag, imRel, imListed>> BY <1>1, <1>f, <2>1 DEF PutManifest
  <2>3. j \in PushJob BY <1>r DEF PushJob
  <2>4. OnePush(p)' BY <2>1, <2>2, <2>3 DEF OnePush
  <2>5. imLink' \subseteq Layer \cup Doc /\ imLink \subseteq imLink' BY <1>r, <2>1
  <2>6. j.at \notin {"artifact", "publish"} OBVIOUS
  <2>7. JobGo(p, j) BY <2>1
  <2> HIDE DEF j
  <2> QED BY <2>2, <2>4, <2>5, <2>6, <2>7, PushStep
<1>2. CASE ReferencedBlob(p)
  <2>0. imJob[p] \in PushJob /\ OnePush(p) /\ imJob[p].at = "refs" /\ imJob[p] # NoPush
    BY <1>2, PushLocals DEF ReferencedBlob, JobAt
  <2>1. PICK b \in imJob[p].todo :
         IF Belongs(b)
         THEN JobGo(p, [imJob[p] EXCEPT !.todo = @ \ {b}]) /\ imLink' = imLink \cup {b}
         ELSE JobGo(p, NoPush) /\ UNCHANGED imLink
    BY <1>2 DEF ReferencedBlob
  <2>2. CASE ~Belongs(b) BY <1>2, <2>1, <2>2, PushGivesUp DEF ReferencedBlob
  <2>3. CASE Belongs(b)
    <3> DEFINE j == [imJob[p] EXCEPT !.todo = imJob[p].todo \ {b}]
    <3>1. JobGo(p, j) /\ imLink' = imLink \cup {b} BY <2>1, <2>3
    <3>2. /\ imJob'[p] = j /\ UNCHANGED <<imRefs, imPack, imTag, imRel, imListed>>
      BY <1>2, <1>f, <3>1 DEF ReferencedBlob
    <3>3. j \in PushJob /\ j.at = "refs" /\ j.doc = imJob[p].doc /\ j.todo = imJob[p].todo \ {b}
      BY <2>0 DEF PushJob
    <3> HIDE DEF j
    <3>4. OnePush(p)' BY <2>0, <3>1, <3>2, <3>3 DEF OnePush
    <3>5. imLink' \subseteq Layer \cup Doc BY <1>r, <2>0, <3>1 DEF PushJob
    <3> QED BY <3>1, <3>2, <3>3, <3>4, <3>5, PushStep
  <2> QED BY <2>2, <2>3
<1>3. CASE SameTag(p)
  <2>0. imJob[p] \in PushJob /\ OnePush(p) /\ imJob[p].at = "refs" /\ imJob[p] # NoPush /\ imJob[p].todo = {}
    BY <1>3, PushLocals DEF SameTag, JobAt
  <2>u. UNCHANGED <<imRefs, imLink, imPack, imTag, imRel, imListed>> BY <1>3 DEF SameTag
  <2>1. CASE JobGo(p, NoPush) BY <2>1, <2>u, PushGivesUp
  <2>2. CASE PushTo(p, "find") /\ imJob[p].tag # NoImage
    <3> DEFINE j == [imJob[p] EXCEPT !.at = "find"]
    <3>1. JobGo(p, j) BY <2>2 DEF PushTo, JobGo
    <3>2. imJob'[p] = j BY <1>f, <3>1
    <3>3. j \in PushJob /\ j.at = "find" /\ j.doc = imJob[p].doc /\ j.todo = {} /\ j.tag \in ImageTag
      BY <2>0, <2>2 DEF PushJob
    <3> HIDE DEF j
    <3>4. OnePush(p)' BY <2>0, <2>u, <3>2, <3>3 DEF OnePush
    <3> QED BY <1>r, <2>u, <3>1, <3>3, <3>4, PushStep
  <2> QED BY <1>3, <2>1, <2>2 DEF SameTag
<1>4. CASE ReleaseForDigest(p)
  <2>0. imJob[p] \in PushJob /\ OnePush(p) /\ imJob[p].at = "find" /\ imJob[p] # NoPush
    BY <1>4, PushLocals DEF ReleaseForDigest, JobAt
  <2>u. UNCHANGED <<imRefs, imLink, imPack, imTag, imRel, imListed>> BY <1>4 DEF ReleaseForDigest
  <2>1. CASE PushTo(p, "create")
    <3> DEFINE j == [imJob[p] EXCEPT !.at = "create"]
    <3>1. JobGo(p, j) BY <2>1 DEF PushTo, JobGo
    <3>2. imJob'[p] = j BY <1>f, <3>1
    <3>3. j \in PushJob /\ j.at = "create" /\ j.doc = imJob[p].doc /\ j.todo = imJob[p].todo /\ j.tag = imJob[p].tag
      BY <2>0 DEF PushJob
    <3> HIDE DEF j
    <3>4. OnePush(p)' BY <2>0, <2>u, <3>2, <3>3 DEF OnePush, NoPush
    <3> QED BY <1>r, <2>u, <3>1, <3>3, <3>4, PushStep
  <2>2. ASSUME NEW t \in ImageTag, imTag[t] # NoImage, imTag[t].doc = imJob[p].doc,
               JobGo(p, [imJob[p] EXCEPT !.at = "settag", !.rel = imTag[t].rel])
        PROVE  ImageInv'
    <3> DEFINE j == [imJob[p] EXCEPT !.at = "settag", !.rel = imTag[t].rel]
    <3>1. JobGo(p, j) BY <2>2
    <3>2. imJob'[p] = j BY <1>f, <3>1
    <3>t. OneTag(t) BY DEF ImageInv, TagsOK
    <3>3. /\ j \in PushJob /\ j.at = "settag" /\ j.doc = imJob[p].doc /\ j.todo = imJob[p].todo
          /\ j.tag = imJob[p].tag /\ j.rel = imTag[t].rel
      BY <2>0, <2>2, <3>t DEF PushJob, OneTag
    <3> HIDE DEF j
    <3>4. GoodFor(j.rel, j.doc) BY <2>2, <3>3, <3>t DEF OneTag
    <3>5. OnePush(p)' BY <2>0, <2>u, <3>2, <3>3, <3>4 DEF OnePush, NoPush, GoodFor, ImagesOf
    <3> QED BY <1>r, <2>u, <3>1, <3>3, <3>5, PushStep
  <2> QED BY <1>4, <2>1, <2>2 DEF ReleaseForDigest
<1>5. CASE PushFails(p) BY <1>5, PushGivesUp DEF PushFails
<1> QED BY <1>1, <1>2, <1>3, <1>4, <1>5

\* A push changes a release no tag and no other push knows.
LEMMA ReleaseStep ==
    ASSUME ImageInv, NEW p \in ImagePush, NEW j, JobGo(p, j), UNCHANGED <<imRefs, imLink, imPack, imTag, imListed>>,
           NEW r \in ImageRelease, NEW rel \in [st : {"row"}, docs : SUBSET Doc, published : BOOLEAN],
           imRel' = [imRel EXCEPT ![r] = rel],
           imRel[r].st = "none" \/ (imJob[p].at \in {"artifact", "publish"} /\ imJob[p].rel = r),
           j.at \in {"artifact", "publish", "settag"}, j.rel = r, OnePush(p)'
    PROVE  ImageInv'
<1> USE DEF ImageInv
<1>1. imJob' = [imJob EXCEPT ![p] = j] BY DEF JobGo
<1>2. imJob'[p] = j /\ \A q \in ImagePush : q # p => imJob'[q] = imJob[q] BY <1>1 DEF PushesOK
<1>3. imRel'[r] = rel /\ \A s \in ImageRelease : s # r => imRel'[s] = imRel[s] BY DEF StoresOK
<1>4. imRel[r].st = "none" \/ (imRel[r].st = "row" /\ ~imRel[r].published)
  BY DEF PushesOK, OnePush
<1>5. ASSUME NEW q \in ImagePush, q # p, imJob[q].at \in {"artifact", "publish", "settag"} PROVE imJob[q].rel # r
  <2>1. OnePush(q) /\ OnePush(p) BY DEF PushesOK
  <2>2. CASE imJob[q].at = "settag" BY <1>4, <2>1, <2>2 DEF OnePush, GoodFor
  <2>3. CASE imJob[q].at # "settag"
    <3>1. imRel[imJob[q].rel].st = "row" BY <1>5, <2>1, <2>3 DEF OnePush
    <3> QED BY <1>5, <2>3, <3>1 DEF OwnReleases
  <2> QED BY <2>2, <2>3
<1>6. RefsOK' BY DEF RefsOK
<1>7. StoresOK'
  <2>1. rel \in [st : {"none", "row", "evicted"}, docs : SUBSET Doc, published : BOOLEAN] OBVIOUS
  <2>2. imRel' \in [ImageRelease -> [st : {"none", "row", "evicted"}, docs : SUBSET Doc, published : BOOLEAN]]
    BY <2>1 DEF StoresOK
  <2>3. \A s \in imListed : imRel'[s].st = "row" /\ imRel'[s].published BY <1>3, <1>4 DEF StoresOK
  <2> QED BY <2>2, <2>3 DEF StoresOK
<1>8. TagsOK'
  <2>1. ASSUME NEW t \in ImageTag PROVE OneTag(t)'
    <3>1. OneTag(t) BY DEF TagsOK
    <3>2. CASE imTag[t] = NoImage BY <3>2 DEF OneTag
    <3>3. CASE imTag[t] # NoImage
      <4>1. imTag[t].rel # r /\ imTag[t].rel \in ImageRelease BY <1>4, <3>1, <3>3 DEF OneTag, GoodFor
      <4>2. imRel'[imTag[t].rel] = imRel[imTag[t].rel] BY <1>3, <4>1
      <4> QED BY <3>1, <3>3, <4>2 DEF OneTag, GoodFor, Linked, ImagesOf
    <3> QED BY <3>2, <3>3
  <2> QED BY <2>1 DEF TagsOK
<1>9. PushesOK'
  <2>1. imJob' = [q \in ImagePush |-> imJob'[q]] BY <1>1 DEF PushesOK
  <2>2. ASSUME NEW q \in ImagePush, q # p PROVE OnePush(q)'
    <3>1. OnePush(q) /\ imJob'[q] = imJob[q] BY <1>2, <2>2 DEF PushesOK
    <3>2. CASE imJob[q].at \in {"artifact", "publish", "settag"}
      <4>1. imRel'[imJob[q].rel] = imRel[imJob[q].rel] BY <1>3, <1>5, <2>2, <3>1, <3>2 DEF OnePush
      <4> QED BY <3>1, <3>2, <4>1 DEF OnePush, GoodFor, ImagesOf
    <3>3. CASE imJob[q].at \notin {"artifact", "publish", "settag"} BY <3>1, <3>3 DEF OnePush
    <3> QED BY <3>2, <3>3
  <2> QED BY <2>1, <2>2 DEF PushesOK
<1>10. OwnReleases' BY <1>2, <1>5 DEF OwnReleases
<1> QED BY <1>6, <1>7, <1>8, <1>9, <1>10

\* A push makes its release, fills it and publishes it.
LEMMA ReleaseActions ==
    ASSUME ImageInv, NEW p \in ImagePush, CreateDockerRelease(p) \/ CreateDockerArtifact(p) \/ PublishImage(p)
    PROVE  ImageInv'
<1>f. \A j : JobGo(p, j) => imJob'[p] = j BY DEF JobGo, ImageInv, PushesOK
<1>t. imRel \in [ImageRelease -> [st : {"none", "row", "evicted"}, docs : SUBSET Doc, published : BOOLEAN]]
  BY DEF ImageInv, StoresOK
<1>u. UNCHANGED <<imRefs, imLink, imPack, imTag, imListed>>
  BY DEF CreateDockerRelease, CreateDockerArtifact, PublishImage
<1>0. imJob[p] \in PushJob /\ OnePush(p) /\ imJob[p].at \in {"create", "artifact", "publish"} /\ imJob[p] # NoPush
  BY PushLocals DEF CreateDockerRelease, CreateDockerArtifact, PublishImage, JobAt
<1>d. imJob[p].doc \in Doc BY <1>0 DEF PushJob
<1>1. CASE CreateDockerRelease(p)
  <2>1. PICK r \in ImageRelease :
         /\ imRel[r].st = "none"
         /\ imRel' = [imRel EXCEPT ![r] = [NoRelease EXCEPT !.st = "row"]]
         /\ JobGo(p, [imJob[p] EXCEPT !.at = "artifact", !.rel = r])
    BY <1>1 DEF CreateDockerRelease
  <2> DEFINE j == [imJob[p] EXCEPT !.at = "artifact", !.rel = r]
             rel == [NoRelease EXCEPT !.st = "row"]
  <2>2. /\ j \in PushJob /\ j.at = "artifact" /\ j.doc = imJob[p].doc /\ j.todo = imJob[p].todo /\ j.tag = imJob[p].tag
        /\ j.rel = r
    BY <1>0 DEF PushJob
  <2>3. rel \in [st : {"row"}, docs : SUBSET Doc, published : BOOLEAN] /\ rel.st = "row" /\ ~rel.published
    BY DEF NoRelease
  <2>4. JobGo(p, j) /\ imRel' = [imRel EXCEPT ![r] = rel] BY <2>1
  <2> HIDE DEF j, rel
  <2>5. imRel'[r] = rel /\ imJob'[p] = j BY <1>f, <1>t, <2>4
  <2>6. OnePush(p)' BY <1>0, <1>u, <2>2, <2>3, <2>5 DEF OnePush, NoPush
  <2>7. imRel[r].st = "none" BY <2>1
  <2>8. j.at \in {"artifact", "publish", "settag"} BY <2>2
  <2> QED BY <1>u, <2>2, <2>3, <2>4, <2>6, <2>7, <2>8, ReleaseStep
<1>2. CASE CreateDockerArtifact(p)
  <2>0. imJob[p].at = "artifact" BY <1>2 DEF CreateDockerArtifact, JobAt
  <2>1. PICK made \in SUBSET (IF imJob[p].doc \in IndexDoc THEN imRefs[imJob[p].doc] ELSE {imJob[p].doc}) :
          imRel' = [imRel EXCEPT ![imJob[p].rel].docs = made]
    BY <1>2 DEF CreateDockerArtifact
  <2> DEFINE r == imJob[p].rel
             j == [imJob[p] EXCEPT !.at = "publish"]
             rel == [imRel[r] EXCEPT !.docs = made]
  <2>2. /\ j \in PushJob /\ j.at = "publish" /\ j.doc = imJob[p].doc /\ j.todo = imJob[p].todo /\ j.tag = imJob[p].tag
        /\ j.rel = r
    BY <1>0 DEF PushJob
  <2>3. r \in ImageRelease /\ imRel[r].st = "row" /\ ~imRel[r].published BY <1>0, <2>0 DEF OnePush
  <2>4. made \subseteq ImagesOf(imJob[p].doc) BY <2>1 DEF ImagesOf
  <2>5. made \subseteq Doc BY <1>d, <2>1 DEF ImageInv, RefsOK, Doc
  <2>6. /\ rel \in [st : {"row"}, docs : SUBSET Doc, published : BOOLEAN]
        /\ rel.st = "row" /\ ~rel.published /\ rel.docs = made
    <3> HIDE DEF r
    <3>1. imRel[r] \in [st : {"none", "row", "evicted"}, docs : SUBSET Doc, published : BOOLEAN] BY <1>t, <2>3
    <3> QED BY <2>3, <2>5, <3>1
  <2>7. JobGo(p, j) /\ imRel' = [imRel EXCEPT ![r] = rel] BY <1>2, <2>1 DEF CreateDockerArtifact, PushTo, JobGo
  <2> HIDE DEF j, rel, r
  <2>8. imRel'[r] = rel /\ imJob'[p] = j BY <1>f, <1>t, <2>3, <2>7
  <2>9. OnePush(p)' BY <1>0, <1>u, <2>0, <2>2, <2>3, <2>4, <2>6, <2>8 DEF OnePush, NoPush, ImagesOf
  <2> QED BY <1>u, <2>0, <2>2, <2>3, <2>6, <2>7, <2>9, ReleaseStep DEF r
<1>3. CASE PublishImage(p)
  <2>0. imJob[p].at = "publish" BY <1>3 DEF PublishImage, JobAt
  <2> DEFINE r == imJob[p].rel
             j == [imJob[p] EXCEPT !.at = "settag"]
             rel == [imRel[r] EXCEPT !.published = TRUE]
  <2>2. /\ j \in PushJob /\ j.at = "settag" /\ j.doc = imJob[p].doc /\ j.todo = imJob[p].todo /\ j.tag = imJob[p].tag
        /\ j.rel = r
    BY <1>0 DEF PushJob
  <2>3. r \in ImageRelease /\ imRel[r].st = "row" /\ imRel[r].docs \subseteq ImagesOf(imJob[p].doc)
    BY <1>0, <2>0 DEF OnePush
  <2>6. /\ rel \in [st : {"row"}, docs : SUBSET Doc, published : BOOLEAN]
        /\ rel.st = "row" /\ rel.published /\ rel.docs = imRel[r].docs
    <3> HIDE DEF r
    <3>1. imRel[r] \in [st : {"none", "row", "evicted"}, docs : SUBSET Doc, published : BOOLEAN] BY <1>t, <2>3
    <3> QED BY <2>3, <3>1
  <2>7. JobGo(p, j) /\ imRel' = [imRel EXCEPT ![r] = rel] BY <1>3 DEF PublishImage, PushTo, JobGo
  <2> HIDE DEF j, rel, r
  <2>8. imRel'[r] = rel /\ imJob'[p] = j BY <1>f, <1>t, <2>3, <2>7
  <2>9. OnePush(p)' BY <1>0, <1>u, <2>0, <2>2, <2>3, <2>6, <2>8 DEF OnePush, NoPush, GoodFor, ImagesOf
  <2> QED BY <1>u, <2>0, <2>2, <2>3, <2>6, <2>7, <2>9, ReleaseStep DEF r
<1> QED BY <1>1, <1>2, <1>3

\* The tag is set, if the release is still there.
LEMMA SetTagAction ==
    ASSUME ImageInv, NEW p \in ImagePush, SetOCITag(p)
    PROVE  ImageInv'
<1> DEFINE j == imJob[p]
<1>0. j \in PushJob /\ OnePush(p) /\ j.at = "settag" /\ j # NoPush BY PushLocals DEF SetOCITag, JobAt
<1>u. UNCHANGED <<imRefs, imLink, imPack, imRel, imListed>> /\ JobGo(p, NoPush) BY DEF SetOCITag
<1>1. CASE j.rel \notin Live BY <1>1, <1>u, PushGivesUp DEF SetOCITag
<1>2. CASE j.rel \in Live
  <2>2. j.tag \in ImageTag /\ j.doc \in Doc /\ Linked(j.doc) /\ GoodFor(j.rel, j.doc)
    BY <1>0, <1>2 DEF OnePush, PushJob, Linked, Live
  <2>1. PICK tag \in ImageTag, d \in Doc, r \in ImageRelease : tag = j.tag /\ d = j.doc /\ r = j.rel
    BY <2>2 DEF GoodFor
  <2>3. imTag' = [imTag EXCEPT ![tag] = [doc |-> d, rel |-> r]] BY <1>2, <2>1 DEF SetOCITag
  <2>s. imTag'[tag] = [doc |-> d, rel |-> r] /\ \A t \in ImageTag : t # tag => imTag'[t] = imTag[t]
    BY <2>3 DEF ImageInv, TagsOK
  <2>g. Linked(d) /\ GoodFor(r, d) BY <2>1, <2>2
  <2>4. OneTag(tag)' BY <1>u, <2>g, <2>s DEF OneTag, Linked, GoodFor, ImagesOf
  <2>5. TagsOK'
    <3>1. imTag' = [t \in ImageTag |-> imTag'[t]] BY <2>3 DEF ImageInv, TagsOK
    <3>2. ASSUME NEW t \in ImageTag, t # tag PROVE OneTag(t)' BY <1>u, <2>s, <3>2, TagFrame DEF ImageInv, TagsOK
    <3> QED BY <2>4, <3>1, <3>2 DEF TagsOK
  <2>6. imJob' = [imJob EXCEPT ![p] = NoPush] BY <1>u DEF JobGo
  <2>7. imJob'[p] = NoPush /\ \A q \in ImagePush : q # p => imJob'[q] = imJob[q] BY <2>6 DEF ImageInv, PushesOK
  <2>8. PushesOK'
    <3>1. imJob' = [q \in ImagePush |-> imJob'[q]] BY <2>6 DEF ImageInv, PushesOK
    <3>2. ASSUME NEW q \in ImagePush, q # p PROVE OnePush(q)' BY <1>u, <2>7, <3>2, JobFrame DEF ImageInv, PushesOK
    <3>3. OnePush(p)' BY <2>7 DEF OnePush, NoPush
    <3> QED BY <3>1, <3>2, <3>3 DEF PushesOK
  <2>9. OwnReleases' BY <2>7 DEF ImageInv, OwnReleases, NoPush
  <2> QED BY <1>u, <2>5, <2>8, <2>9 DEF ImageInv, RefsOK, StoresOK
<1> QED BY <1>1, <1>2

\* Layers come and go, and pulls make images: links only grow.
LEMMA LinkActions ==
    ASSUME ImageInv, LinkLayer \/ SynthesizeImage \/ ServeIndex \/ EvictBinary \/ UNCHANGED imVars
    PROVE  ImageInv'
<1>1. UNCHANGED <<imRefs, imTag, imRel, imJob, imListed>>
  BY DEF LinkLayer, SynthesizeImage, ServeIndex, EvictBinary, imVars
<1>2. imLink \subseteq imLink' /\ imLink' \subseteq Layer \cup Doc
  BY DEF LinkLayer, SynthesizeImage, ServeIndex, EvictBinary, imVars, ImageInv, StoresOK, Doc
<1>3. imPack' \subseteq Layer
  BY DEF LinkLayer, SynthesizeImage, ServeIndex, EvictBinary, imVars, ImageInv, StoresOK, RefsOK
<1>4. TagsOK' BY <1>1, <1>2, TagFrame DEF ImageInv, TagsOK
<1>5. PushesOK' BY <1>1, <1>2, JobFrame DEF ImageInv, PushesOK
<1> QED BY <1>1, <1>2, <1>3, <1>4, <1>5 DEF ImageInv, StoresOK, RefsOK, OwnReleases

\* Retention lists published releases, and deletes them with their tags.
LEMMA RetentionActions ==
    ASSUME ImageInv, ListUntagged \/ EvictImages
    PROVE  ImageInv'
<1>1. CASE ListUntagged
  <2>1. UNCHANGED <<imRefs, imLink, imPack, imTag, imRel, imJob>> BY <1>1 DEF ListUntagged
  <2>2. StoresOK' BY <1>1, <2>1 DEF ListUntagged, Live, ImageInv, StoresOK
  <2>3. TagsOK' BY <2>1, TagFrame DEF ImageInv, TagsOK
  <2>4. PushesOK' BY <2>1, JobFrame DEF ImageInv, PushesOK
  <2> QED BY <2>1, <2>2, <2>3, <2>4 DEF ImageInv, RefsOK, OwnReleases
<1>2. CASE EvictImages
  <2> DEFINE gone == [NoRelease EXCEPT !.st = "evicted"]
  <2>1. UNCHANGED <<imRefs, imLink, imPack, imJob>> /\ imListed' = {} BY <1>2 DEF EvictImages
  <2>2. /\ imRel' = [r \in ImageRelease |-> IF r \in imListed THEN gone ELSE imRel[r]]
        /\ imTag' = [t \in ImageTag |-> IF imTag[t] # NoImage /\ imTag[t].rel \in imListed THEN NoImage ELSE imTag[t]]
    BY <1>2 DEF EvictImages
  <2>3. gone.st = "evicted" /\ gone \in [st : {"none", "row", "evicted"}, docs : SUBSET Doc, published : BOOLEAN]
    BY DEF NoRelease
  <2> HIDE DEF gone
  <2>4. StoresOK' BY <2>1, <2>2, <2>3 DEF ImageInv, StoresOK
  <2>5. \A r \in ImageRelease : imRel'[r] = imRel[r] \/ (r \in imListed /\ imRel'[r].st = "evicted")
    BY <2>2, <2>3
  <2>6. TagsOK'
    <3>1. ASSUME NEW t \in ImageTag PROVE OneTag(t)'
      <4>1. OneTag(t) BY DEF ImageInv, TagsOK
      <4>2. CASE imTag'[t] = NoImage BY <4>2 DEF OneTag
      <4>3. CASE imTag'[t] # NoImage
        <5>1. imTag'[t] = imTag[t] /\ imTag[t].rel \notin imListed BY <2>2, <4>3
        <5>2. imTag[t].rel \in ImageRelease /\ imRel'[imTag[t].rel] = imRel[imTag[t].rel]
          BY <2>5, <4>1, <4>3, <5>1 DEF OneTag, GoodFor
        <5> QED BY <2>1, <4>1, <4>3, <5>1, <5>2 DEF OneTag, GoodFor, Linked, ImagesOf
      <4> QED BY <4>2, <4>3
    <3>2. imTag' = [t \in ImageTag |-> imTag'[t]] BY <2>2
    <3> QED BY <3>1, <3>2 DEF TagsOK
  <2>7. PushesOK'
    <3>1. ASSUME NEW q \in ImagePush PROVE OnePush(q)'
      <4>1. OnePush(q) /\ imJob'[q] = imJob[q] BY <2>1 DEF ImageInv, PushesOK
      <4>2. CASE imJob[q].at \in {"artifact", "publish"}
        <5>1. imRel'[imJob[q].rel] = imRel[imJob[q].rel]
          BY <2>5, <4>1, <4>2 DEF OnePush, ImageInv, StoresOK
        <5> QED BY <2>1, <4>1, <4>2, <5>1 DEF OnePush, ImagesOf
      <4>3. CASE imJob[q].at = "settag"
        <5>1. imRel'[imJob[q].rel] = imRel[imJob[q].rel] \/ imRel'[imJob[q].rel].st = "evicted"
          BY <2>5, <4>1, <4>3 DEF OnePush
        <5> QED BY <2>1, <4>1, <4>3, <5>1 DEF OnePush, GoodFor, ImagesOf
      <4>4. CASE imJob[q].at \notin {"artifact", "publish", "settag"} BY <2>1, <4>1, <4>4 DEF OnePush
      <4> QED BY <4>2, <4>3, <4>4
    <3> QED BY <2>1, <3>1 DEF ImageInv, PushesOK
  <2> QED BY <2>1, <2>4, <2>6, <2>7 DEF ImageInv, RefsOK, OwnReleases
<1> QED BY <1>1, <1>2

\* Every action of the registry preserves it.
LEMMA ImageInvStep == ImageInv /\ [ImageNext]_imVars => ImageInv'
BY RefActions, ReleaseActions, SetTagAction, LinkActions, RetentionActions DEF ImageNext

\* However pushes, pulls and retention interleave, a tag names an image that is the
\* project's with all it refers to, and a release that is there, published and of
\* that image alone (PutManifest's order of checks and writes, evictBatch).
THEOREM TagsAlwaysPull == ImageSpec => []TaggedImagesPull
<1>1. ImageInv => TaggedImagesPull
  <2> SUFFICES ASSUME ImageInv PROVE TaggedImagesPull OBVIOUS
  <2>1. ImageTypeOK
    <3>1. \A p \in ImagePush :
            imJob[p].at \in {"idle", "refs", "find", "create", "artifact", "publish", "settag"}
      BY DEF ImageInv, PushesOK, OnePush, PushJob, NoPush
    <3> QED BY <3>1 DEF ImageTypeOK, ImageInv, StoresOK, TagsOK, OneTag
  <2>2. ASSUME NEW t \in ImageTag, imTag[t] # NoImage
        PROVE  /\ Served(imTag[t].doc)
               /\ imTag[t].rel \in Live
               /\ imRel[imTag[t].rel].published
               /\ imRel[imTag[t].rel].docs \subseteq {imTag[t].doc} \cup imRefs[imTag[t].doc]
    BY <2>2 DEF ImageInv, TagsOK, OneTag, Linked, GoodFor, ImagesOf, Served, Belongs, Live
  <2> QED BY <2>1, <2>2 DEF TaggedImagesPull
<1> QED BY <1>1, ImageInvInit, ImageInvStep, PTL DEF ImageSpec

(***************************************************************************)
(* Registry uploads                                                        *)
(***************************************************************************)

\* The client of a push.
PusherType ==
    [at : {"head", "start", "next", "ask", "post", "patch", "status", "put", "done", "failed"},
     sess : OciSession \cup {0}, off : 0..OciSize, fails : 0..OciTries, drops : Nat, asks : 0..OciTries,
     req : OciSlot \cup {NoOci}]

\* Every session holds a prefix of the blob.
Prefix(sess) == Len(sess.bytes) <= OciSize /\ \A i \in 1..Len(sess.bytes) : sess.bytes[i] = i

UploadsOK ==
    /\ ocSess \in [OciSession -> RegistrySession \cup {NoOci}]
    /\ \A s \in OciSession : ~Fresh(s) => Prefix(ocSess[s])

\* No session has a byte yet.
Untouched == \A s \in OciSession : ~Fresh(s) => Len(ocSess[s].bytes) = 0

\* A request has found its session, ends within the blob, and is told a committed size.
OneReq(q) ==
    LET r == ocReq[q] IN
    r # NoOci =>
        /\ r \in RegistryRequest
        /\ r.pc \in {"have", "drop", "finalize"} => r.s \in OciSession /\ ~Fresh(r.s)
        /\ r.op = "patch" => r.from + r.n <= OciSize
        /\ r.op = "put" => r.n = IF OciSize <= OciChunk THEN OciSize ELSE 0
        /\ r.pc = "sweep" => r.op = "post"
        /\ r.pc = "sweep" => r.told \subseteq OciSession /\ \A s \in r.told : ~Fresh(s)
        /\ r.pc = "reply" /\ r.op \in {"patch", "status"} /\ r.code \in {202, 204, 416} => r.told \in 0..OciSize
        /\ r.pc = "reply" /\ r.op = "post" /\ r.code = 202 => r.told \in OciSession

ReqsOK == ocReq = [q \in OciSlot |-> ocReq[q]] /\ \A q \in OciSlot : OneReq(q)

\* The client waits for a request of the kind it sent, and has tries left until it fails.
PusherOK ==
    /\ ocPush \in PusherType
    /\ ocPush.at \notin {"done", "failed"} => ocPush.fails < OciTries /\ ocPush.asks < OciTries
    /\ ocPush.req # NoOci => ocReq[ocPush.req] # NoOci /\ ocReq[ocPush.req].op = ocPush.at

\* A blob of one chunk is sent once, with the finalize.
OneChunk ==
    OciSize <= OciChunk =>
        /\ ocPush.at \notin {"patch", "ask", "status"}
        /\ \A q \in OciSlot : ocReq[q] # NoOci => ocReq[q].op \in {"post", "put"}
        /\ ocPush.at \in {"head", "start", "post", "next"} =>
              Untouched /\ \A q \in OciSlot : ocReq[q] # NoOci => ocReq[q].op # "put"
        /\ \A q \in OciSlot : ocReq[q] # NoOci /\ ocReq[q].op = "put" =>
              /\ ocReq[q].pc \in {"sent", "have"} => Untouched
              /\ \A p \in OciSlot : ocReq[p] # NoOci /\ ocReq[p].op = "put" => p = q

\* The rest of the registry's state.
StoreOK ==
    /\ ocLinked \in BOOLEAN /\ ocElse \in BOOLEAN
    /\ ocOther \subseteq OciSession /\ \A s \in ocOther : ~Fresh(s)
    /\ ocStored \in {NoOci, Whole}

\* The inductive invariant.
OciInv == UploadsOK /\ ReqsOK /\ PusherOK /\ OneChunk /\ StoreOK

\* Nothing is there in the beginning.
LEMMA OciInvInit == OciInit => OciInv
<1> SUFFICES ASSUME OciInit PROVE OciInv OBVIOUS
<1> USE OciSizes DEF OciInit
<1>1. UploadsOK BY DEF UploadsOK, Fresh
<1>2. ReqsOK BY DEF ReqsOK, OneReq
<1>3. PusherOK BY DEF PusherOK, NewPush, PusherType
<1>4. OneChunk BY DEF OneChunk, NewPush, Untouched, Fresh
<1>5. StoreOK BY DEF StoreOK
<1> QED BY <1>1, <1>2, <1>3, <1>4, <1>5 DEF OciInv

\* A chunk that is appended at the end of a prefix leaves a prefix.
LEMMA ChunkFacts ==
    ASSUME NEW sess \in RegistrySession, Prefix(sess), NEW from \in Nat, NEW n \in Nat,
           from + n <= OciSize \/ from # Len(sess.bytes)
    PROVE  LET r == AppendChunkAt(sess, from, n) IN
           r.sess \in RegistrySession /\ Prefix(r.sess) /\ r.code \in {202, 400, 416}
<1> DEFINE chunk == [i \in 1..n |-> from + i]
           grown == sess.bytes \o chunk
<1>1. chunk \in Seq(Nat) /\ Len(chunk) = n /\ \A i \in 1..n : chunk[i] = from + i OBVIOUS
<1>2. sess.bytes \in Seq(Nat) /\ Len(sess.bytes) \in Nat BY DEF RegistrySession
<1>3. /\ grown \in Seq(Nat) /\ Len(grown) = Len(sess.bytes) + n
      /\ \A i \in 1..Len(sess.bytes) : grown[i] = sess.bytes[i]
      /\ \A i \in 1..n : grown[Len(sess.bytes) + i] = chunk[i]
  <2> HIDE DEF chunk
  <2>1. /\ grown \in Seq(Nat) /\ Len(grown) = Len(sess.bytes) + Len(chunk)
        /\ \A i \in 1..Len(sess.bytes) + Len(chunk) : grown[i] =
              IF i <= Len(sess.bytes) THEN sess.bytes[i] ELSE chunk[i - Len(sess.bytes)]
    BY <1>1, <1>2, ConcatProperties
  <2> HIDE DEF grown
  <2>2. ASSUME NEW i \in 1..n PROVE grown[Len(sess.bytes) + i] = chunk[i]
    <3> DEFINE m == Len(sess.bytes) + i
    <3>1. m \in 1..Len(sess.bytes) + Len(chunk) /\ ~(m <= Len(sess.bytes)) /\ m - Len(sess.bytes) = i
      BY <1>1, <1>2
    <3> HIDE DEF m
    <3>2. grown[m] = chunk[m - Len(sess.bytes)] BY <2>1, <3>1, Zenon
    <3>3. grown[m] = chunk[i] BY <3>1, <3>2
    <3> QED BY <3>3 DEF m
  <2>3. ASSUME NEW i \in 1..Len(sess.bytes) PROVE grown[i] = sess.bytes[i]
    <3>1. i \in 1..Len(sess.bytes) + Len(chunk) /\ i <= Len(sess.bytes) BY <1>1, <1>2
    <3> QED BY <2>1, <3>1, Zenon
  <2>4. Len(grown) = Len(sess.bytes) + n BY <1>1, <2>1
  <2> QED BY <2>1, <2>2, <2>3, <2>4
<1>5. CASE from # Len(sess.bytes)
  <2> DEFINE t == [sess EXCEPT !.idle = FALSE]
  <2>1. t \in RegistrySession /\ t.bytes = sess.bytes BY DEF RegistrySession
  <2>2. AppendChunkAt(sess, from, n) = [code |-> 416, sess |-> t] BY <1>5 DEF AppendChunkAt
  <2> HIDE DEF t
  <2> QED BY <2>1, <2>2 DEF Prefix
<1>6. CASE from = Len(sess.bytes) /\ ~sess.open /\ n > 0
  BY <1>6 DEF AppendChunkAt
<1>7. CASE from = Len(sess.bytes) /\ ~(~sess.open /\ n > 0)
  <2> DEFINE t == [sess EXCEPT !.bytes = grown, !.idle = FALSE]
  <2>0. AppendChunkAt(sess, from, n) = [code |-> 202, sess |-> t] BY <1>7, Zenon DEF AppendChunkAt
  <2> HIDE DEF grown
  <2>1. t \in RegistrySession /\ t.bytes = grown BY <1>3 DEF RegistrySession
  <2>2. Len(grown) <= OciSize
    <3>1. Len(grown) = from + n /\ from + n <= OciSize BY <1>3, <1>7
    <3> QED BY <3>1
  <2>3. ASSUME NEW i \in 1..Len(grown) PROVE grown[i] = i
    <3>1. CASE i <= Len(sess.bytes)
      <4> HIDE DEF chunk
      <4>1. i \in 1..Len(sess.bytes) BY <1>2, <3>1
      <4>2. grown[i] = sess.bytes[i] /\ sess.bytes[i] = i BY <1>3, <4>1, Zenon DEF Prefix
      <4> QED BY <4>2
    <3>2. CASE i > Len(sess.bytes)
      <4> DEFINE k == i - Len(sess.bytes)
      <4>1. k \in 1..n /\ i = Len(sess.bytes) + k BY <1>2, <1>3, <3>2
      <4> HIDE DEF k
      <4>2. grown[i] = chunk[k] /\ chunk[k] = from + k BY <4>1, <1>3, <1>1
      <4> HIDE DEF chunk
      <4> QED BY <4>1, <4>2, <1>7, <1>2
    <3> QED BY <3>1, <3>2, <1>2
  <2> HIDE DEF t
  <2> QED BY <2>0, <2>1, <2>2, <2>3 DEF Prefix
<1> QED BY <1>5, <1>6, <1>7

\* A handler's step: one request moves on, the client does not.  No session is lost,
\* and only the one finalize of a blob of one chunk touches the first bytes.
LEMMA ServeStep ==
    ASSUME OciInv, NEW q \in OciSlot, NEW r \in RegistryRequest, ocReq[q] # NoOci,
           ocReq' = [ocReq EXCEPT ![q] = r], r.op = ocReq[q].op, OneReq(q)',
           UNCHANGED <<ocPush, ocElse, ocOther>>, UploadsOK', \A s \in OciSession : Fresh(s)' => Fresh(s),
           ocLinked' \in BOOLEAN, ocStored' \in {NoOci, Whole},
           OciSize <= OciChunk =>
               (Untouched => Untouched') \/ (ocReq[q].op = "put" /\ r.pc \notin {"sent", "have"}),
           r.pc \in {"sent", "have"} => ocReq[q].pc \in {"sent", "have"}
    PROVE  OciInv'
<1> USE DEF OciInv
<1>n. r # NoOci BY NoOciAssumption
<1>1. ocReq'[q] = r /\ \A p \in OciSlot : p # q => ocReq'[p] = ocReq[p] BY DEF ReqsOK
<1>2. ReqsOK'
  <2>1. ocReq' = [p \in OciSlot |-> ocReq'[p]] BY DEF ReqsOK
  <2>2. ASSUME NEW p \in OciSlot, p # q PROVE OneReq(p)'
    <3>1. ocReq'[p] = ocReq[p] /\ OneReq(p) BY <2>2, <1>1 DEF ReqsOK
    <3> QED BY <3>1 DEF OneReq
  <2> QED BY <2>1, <2>2 DEF ReqsOK
<1>3. PusherOK'
  <2>1. ocPush.req # NoOci => ocPush.req \in OciSlot BY DEF PusherOK, PusherType
  <2> QED BY <1>1, <1>n, <2>1 DEF PusherOK
<1>4. OneChunk' BY <1>1, <1>n DEF OneChunk
<1>5. StoreOK' BY DEF StoreOK, Whole, Unit
<1> QED BY <1>2, <1>3, <1>4, <1>5

\* A request under way, as record.
LEMMA ReqLocals ==
    ASSUME OciInv, NEW q \in OciSlot, ocReq[q] # NoOci
    PROVE  ocReq[q] \in RegistryRequest /\ OneReq(q)
BY DEF OciInv, ReqsOK, OneReq

\* An answer.
LEMMA ReplyFacts ==
    ASSUME OciInv, NEW q \in OciSlot, ocReq[q] # NoOci, NEW code \in Nat, NEW told \in Nat, Reply(q, code, told)
    PROVE  \E r \in RegistryRequest :
              /\ ocReq' = [ocReq EXCEPT ![q] = r] /\ ocReq'[q] = r
              /\ r.op = ocReq[q].op /\ r.s = ocReq[q].s /\ r.from = ocReq[q].from /\ r.n = ocReq[q].n
              /\ r.pc = "reply" /\ r.code = code /\ r.told = told
<1> DEFINE r == [ocReq[q] EXCEPT !.pc = "reply", !.code = code, !.told = told]
<1>0. ocReq[q] \in RegistryRequest BY ReqLocals
<1>1. ocReq' = [ocReq EXCEPT ![q] = r] BY DEF Reply
<1>2. r \in RegistryRequest BY <1>0 DEF RegistryRequest
<1>3. /\ r.op = ocReq[q].op /\ r.s = ocReq[q].s /\ r.from = ocReq[q].from /\ r.n = ocReq[q].n
      /\ r.pc = "reply" /\ r.code = code /\ r.told = told
  BY <1>0 DEF RegistryRequest
<1> HIDE DEF r
<1>4. ocReq'[q] = r BY <1>1 DEF OciInv, ReqsOK
<1> QED BY <1>1, <1>2, <1>3, <1>4

\* A request moves on.
LEMMA OntoFacts ==
    ASSUME OciInv, NEW q \in OciSlot, ocReq[q] # NoOci, NEW pc \in {"have", "drop", "finalize", "link"}, Onto(q, pc)
    PROVE  \E r \in RegistryRequest :
              /\ ocReq' = [ocReq EXCEPT ![q] = r] /\ ocReq'[q] = r
              /\ r.op = ocReq[q].op /\ r.s = ocReq[q].s /\ r.from = ocReq[q].from /\ r.n = ocReq[q].n
              /\ r.pc = pc /\ r.code = ocReq[q].code /\ r.told = ocReq[q].told
<1> DEFINE r == [ocReq[q] EXCEPT !.pc = pc]
<1>0. ocReq[q] \in RegistryRequest BY ReqLocals
<1>1. ocReq' = [ocReq EXCEPT ![q] = r] BY DEF Onto
<1>2. r \in RegistryRequest BY <1>0 DEF RegistryRequest
<1>3. /\ r.op = ocReq[q].op /\ r.s = ocReq[q].s /\ r.from = ocReq[q].from /\ r.n = ocReq[q].n
      /\ r.pc = pc /\ r.code = ocReq[q].code /\ r.told = ocReq[q].told
  BY <1>0 DEF RegistryRequest
<1> HIDE DEF r
<1>4. ocReq'[q] = r BY <1>1 DEF OciInv, ReqsOK
<1> QED BY <1>1, <1>2, <1>3, <1>4

\* One session gets other bytes or flags.
LEMMA RegistrySessionStep ==
    ASSUME OciInv, NEW s \in OciSession, ~Fresh(s), NEW t \in RegistrySession, Prefix(t), ocSess' = [ocSess EXCEPT ![s] = t]
    PROVE  /\ UploadsOK' /\ \A x \in OciSession : Fresh(x)' => Fresh(x)
           /\ t.bytes = ocSess[s].bytes => (Untouched => Untouched')
<1>1. ocSess \in [OciSession -> RegistrySession \cup {NoOci}] BY DEF OciInv, UploadsOK
<1>2. ocSess' \in [OciSession -> RegistrySession \cup {NoOci}] BY <1>1
<1>3. t # NoOci BY NoOciAssumption
<1>4. ocSess'[s] = t /\ \A x \in OciSession : x # s => ocSess'[x] = ocSess[x] BY <1>1
<1>5. \A x \in OciSession : Fresh(x)' => Fresh(x) BY <1>3, <1>4 DEF Fresh
<1>6. \A x \in OciSession : ~Fresh(x)' => Prefix(ocSess'[x]) BY <1>4 DEF Fresh, OciInv, UploadsOK
<1>7. ASSUME t.bytes = ocSess[s].bytes, Untouched PROVE Untouched'
  BY <1>4, <1>7 DEF Untouched, Fresh
<1> QED BY <1>2, <1>5, <1>6, <1>7 DEF UploadsOK

\* A session that is there, as record.
LEMMA SessionLocals ==
    ASSUME OciInv, NEW s \in OciSession, ~Fresh(s)
    PROVE  ocSess[s] \in RegistrySession /\ Prefix(ocSess[s]) /\ Len(ocSess[s].bytes) \in 0..OciSize
BY OciSizes DEF OciInv, UploadsOK, Fresh, Prefix, RegistrySession

\* remove.
LEMMA RemovedFacts ==
    ASSUME OciInv, NEW s \in OciSession, ~Fresh(s), Removed(s)
    PROVE  UploadsOK' /\ (\A x \in OciSession : Fresh(x)' => Fresh(x)) /\ (Untouched => Untouched')
<1> DEFINE t == [ocSess[s] EXCEPT !.known = FALSE, !.open = FALSE]
<1>0. ocSess[s] \in RegistrySession /\ Prefix(ocSess[s]) BY SessionLocals
<1>1. ocSess' = [ocSess EXCEPT ![s] = t] BY DEF Removed
<1>2. t \in RegistrySession /\ t.bytes = ocSess[s].bytes BY <1>0 DEF RegistrySession
<1> HIDE DEF t
<1>3. Prefix(t) BY <1>0, <1>2 DEF Prefix
<1> QED BY <1>1, <1>2, <1>3, RegistrySessionStep

\* The handlers that look a session up, drop it or tell its size.
LEMMA LookActions ==
    ASSUME OciInv, NEW q \in OciSlot, FindSession(q) \/ DropSession(q) \/ GetBlobUploadStatus(q)
    PROVE  OciInv'
<1>0. ocReq[q] # NoOci BY DEF FindSession, DropSession, GetBlobUploadStatus, At
<1>r. ocReq[q] \in RegistryRequest /\ OneReq(q) BY <1>0, ReqLocals
<1>s. StoreOK /\ UploadsOK BY DEF OciInv
<1>1. CASE FindSession(q)
  <2>0. UNCHANGED <<ocSess, ocPush, ocLinked, ocElse, ocOther, ocStored>> /\ ocReq[q].pc = "sent"
    BY <1>1 DEF FindSession, At
  <2>b. ocLinked' \in BOOLEAN /\ ocStored' \in {NoOci, Whole} BY <2>0, <1>s DEF StoreOK
  <2>u. UploadsOK' /\ (\A x \in OciSession : Fresh(x)' => Fresh(x)) /\ (Untouched => Untouched')
    BY <2>0, <1>s DEF UploadsOK, Fresh, Untouched
  <2>1. CASE ocReq[q].s \in Known /\ Onto(q, "have")
    <3>1. PICK r \in RegistryRequest :
              /\ ocReq' = [ocReq EXCEPT ![q] = r] /\ ocReq'[q] = r
              /\ r.op = ocReq[q].op /\ r.s = ocReq[q].s /\ r.from = ocReq[q].from /\ r.n = ocReq[q].n
              /\ r.pc = "have" /\ r.code = ocReq[q].code /\ r.told = ocReq[q].told
      BY <1>0, <2>1, OntoFacts
    <3>2. OneReq(q)' BY <3>1, <1>r, <2>0, <2>1, <1>0 DEF OneReq, Known, Fresh
    <3> QED BY <1>0, <3>1, <3>2, <2>0, <2>u, <2>b, ServeStep
  <2>2. CASE Reply(q, 404, 0)
    <3>1. PICK r \in RegistryRequest :
              /\ ocReq' = [ocReq EXCEPT ![q] = r] /\ ocReq'[q] = r
              /\ r.op = ocReq[q].op /\ r.s = ocReq[q].s /\ r.from = ocReq[q].from /\ r.n = ocReq[q].n
              /\ r.pc = "reply" /\ r.code = 404 /\ r.told = 0
      BY <1>0, <2>2, ReplyFacts
    <3>2. OneReq(q)' BY <3>1, <1>r, <1>0 DEF OneReq
    <3> QED BY <1>0, <3>1, <3>2, <2>0, <2>u, <2>b, ServeStep
  <2> QED BY <1>1, <2>1, <2>2 DEF FindSession, Req
<1>2. CASE DropSession(q)
  <2>0. /\ UNCHANGED <<ocPush, ocLinked, ocElse, ocOther, ocStored>> /\ ocReq[q].pc = "drop"
        /\ Removed(ocReq[q].s) /\ Reply(q, 400, 0)
    BY <1>2 DEF DropSession, At, Req
  <2>b. ocLinked' \in BOOLEAN /\ ocStored' \in {NoOci, Whole} BY <2>0, <1>s DEF StoreOK
  <2>u. UploadsOK' /\ (\A x \in OciSession : Fresh(x)' => Fresh(x)) /\ (Untouched => Untouched')
    BY <1>0, <1>r, <2>0, RemovedFacts DEF OneReq
  <2>1. PICK r \in RegistryRequest :
              /\ ocReq' = [ocReq EXCEPT ![q] = r] /\ ocReq'[q] = r
              /\ r.op = ocReq[q].op /\ r.s = ocReq[q].s /\ r.from = ocReq[q].from /\ r.n = ocReq[q].n
              /\ r.pc = "reply" /\ r.code = 400 /\ r.told = 0
    BY <1>0, <2>0, ReplyFacts
  <2>2. OneReq(q)' BY <2>1, <1>r, <1>0 DEF OneReq
  <2> QED BY <1>0, <2>0, <2>1, <2>2, <2>u, <2>b, ServeStep
<1>3. CASE GetBlobUploadStatus(q)
  <2> DEFINE s == ocReq[q].s
             t == [ocSess[s] EXCEPT !.idle = FALSE]
  <2>0. /\ UNCHANGED <<ocPush, ocLinked, ocElse, ocOther, ocStored>> /\ ocReq[q].pc = "have"
        /\ ocSess' = [ocSess EXCEPT ![s] = t] /\ Reply(q, 204, Len(ocSess[s].bytes))
    BY <1>3 DEF GetBlobUploadStatus, At, Req
  <2>b. ocLinked' \in BOOLEAN /\ ocStored' \in {NoOci, Whole} BY <2>0, <1>s DEF StoreOK
  <2>s. s \in OciSession /\ ~Fresh(s) BY <1>0, <1>r, <2>0 DEF OneReq
  <2>l. ocSess[s] \in RegistrySession /\ Prefix(ocSess[s]) /\ Len(ocSess[s].bytes) \in 0..OciSize
    BY <2>s, SessionLocals
  <2>t. t \in RegistrySession /\ t.bytes = ocSess[s].bytes BY <2>l DEF RegistrySession
  <2> HIDE DEF t, s
  <2>p. Prefix(t) BY <2>l, <2>t DEF Prefix
  <2>u. UploadsOK' /\ (\A x \in OciSession : Fresh(x)' => Fresh(x)) /\ (Untouched => Untouched')
    BY <2>s, <2>0, <2>t, <2>p, RegistrySessionStep
  <2>1. PICK r \in RegistryRequest :
              /\ ocReq' = [ocReq EXCEPT ![q] = r] /\ ocReq'[q] = r
              /\ r.op = ocReq[q].op /\ r.s = ocReq[q].s /\ r.from = ocReq[q].from /\ r.n = ocReq[q].n
              /\ r.pc = "reply" /\ r.code = 204 /\ r.told = Len(ocSess[s].bytes)
    BY <1>0, <2>0, <2>l, OciSizes, ReplyFacts
  <2>2. OneReq(q)' BY <2>1, <1>r, <1>0, <2>l DEF OneReq
  <2> QED BY <1>0, <2>0, <2>1, <2>2, <2>u, <2>b, ServeStep
<1> QED BY <1>1, <1>2, <1>3

\* The handlers that append.
LEMMA AppendActions ==
    ASSUME OciInv, NEW q \in OciSlot, PatchBlobUpload(q) \/ PutBody(q)
    PROVE  OciInv'
<1>0. ocReq[q] # NoOci /\ ocReq[q].pc = "have" BY DEF PatchBlobUpload, PutBody, At
<1>r. ocReq[q] \in RegistryRequest /\ OneReq(q) BY <1>0, ReqLocals
<1>i. StoreOK /\ UploadsOK BY DEF OciInv
<1>s. PICK s \in OciSession : s = ocReq[q].s /\ ~Fresh(s) BY <1>0, <1>r DEF OneReq
<1>l. ocSess[s] \in RegistrySession /\ Prefix(ocSess[s]) /\ Len(ocSess[s].bytes) \in 0..OciSize
  BY <1>s, SessionLocals
<1>m. ocReq[q].n \in Nat /\ ocReq[q].from \in Nat BY <1>r DEF RegistryRequest
<1>1. CASE PatchBlobUpload(q)
  <2>1. PICK n \in 0..ocReq[q].n :
          LET a == AppendChunkAt(ocSess[ocReq[q].s], ocReq[q].from, n)
          IN  /\ ocSess' = [ocSess EXCEPT ![ocReq[q].s] = a.sess]
              /\ IF a.code = 416 \/ (a.code = 202 /\ n = ocReq[q].n)
                 THEN Reply(q, a.code, Len(a.sess.bytes)) ELSE Onto(q, "drop")
    BY <1>1, ZenonT(30) DEF PatchBlobUpload, Req
  <2> DEFINE a == AppendChunkAt(ocSess[s], ocReq[q].from, n)
             t == a.sess
             c == a.code
  <2>2. ocSess' = [ocSess EXCEPT ![s] = t] /\ (Reply(q, c, Len(t.bytes)) \/ Onto(q, "drop")) BY <1>s, <2>1
  <2>3. ocReq[q].op = "patch" /\ UNCHANGED <<ocPush, ocLinked, ocElse, ocOther, ocStored>>
    BY <1>1 DEF PatchBlobUpload, Req
  <2>b. ocLinked' \in BOOLEAN /\ ocStored' \in {NoOci, Whole} BY <2>3, <1>i DEF StoreOK
  <2>4. n \in Nat /\ ocReq[q].from + n <= OciSize BY <1>0, <1>r, <1>m, <2>3, OciSizes DEF OneReq
  <2>5. t \in RegistrySession /\ Prefix(t) /\ c \in {202, 400, 416}
    <3> HIDE DEF a
    <3>1. a.sess \in RegistrySession /\ Prefix(a.sess) /\ a.code \in {202, 400, 416}
      BY <2>4, <1>l, <1>m, ChunkFacts DEF a
    <3> QED BY <3>1
  <2> HIDE DEF t, c, a
  <2>6. UploadsOK' /\ (\A x \in OciSession : Fresh(x)' => Fresh(x))
    <3>1. ocSess' = [ocSess EXCEPT ![s] = t] /\ t \in RegistrySession /\ Prefix(t) BY <2>2, <2>5
    <3> QED BY <1>s, <3>1, RegistrySessionStep
  <2>7. Len(t.bytes) \in 0..OciSize BY <2>5, OciSizes DEF Prefix, RegistrySession
  <2>8. \E r \in RegistryRequest :
              /\ ocReq' = [ocReq EXCEPT ![q] = r] /\ ocReq'[q] = r
              /\ r.op = ocReq[q].op /\ r.s = ocReq[q].s /\ r.from = ocReq[q].from /\ r.n = ocReq[q].n
              /\ r.pc = "drop" \/ (r.pc = "reply" /\ r.told = Len(t.bytes))
    <3>1. CASE Reply(q, c, Len(t.bytes)) BY <1>0, <3>1, <2>5, <2>7, OciSizes, ReplyFacts
    <3>2. CASE Onto(q, "drop") BY <1>0, <3>2, OntoFacts
    <3> QED BY <3>1, <3>2, <2>2
  <2>9. PICK r \in RegistryRequest :
              /\ ocReq' = [ocReq EXCEPT ![q] = r] /\ ocReq'[q] = r
              /\ r.op = ocReq[q].op /\ r.s = ocReq[q].s /\ r.from = ocReq[q].from /\ r.n = ocReq[q].n
              /\ r.pc = "drop" \/ (r.pc = "reply" /\ r.told = Len(t.bytes))
    BY <2>8
  <2>10. ~Fresh(s)'
    <3>1. ocSess'[s] = t BY <2>2, <1>s, <1>i DEF UploadsOK
    <3> QED BY <3>1, <2>5, NoOciAssumption DEF Fresh
  <2>11. OneReq(q)' BY <2>9, <2>10, <1>r, <1>0, <1>s, <2>3, <2>7 DEF OneReq
  <2>12. ~(OciSize <= OciChunk) BY <1>0, <2>3 DEF OciInv, OneChunk
  <2> QED BY <1>0, <2>3, <2>6, <2>9, <2>11, <2>12, <2>b, ServeStep
<1>2. CASE PutBody(q)
  <2> DEFINE from == Len(ocSess[s].bytes)
  <2>1. PICK n \in 0..ocReq[q].n :
          LET a == AppendChunkAt(ocSess[ocReq[q].s], Len(ocSess[ocReq[q].s].bytes), n)
          IN  /\ ocSess' = [ocSess EXCEPT ![ocReq[q].s] = a.sess]
              /\ Onto(q, IF a.code = 202 /\ n = ocReq[q].n THEN "finalize" ELSE "drop")
    BY <1>2, ZenonT(30) DEF PutBody, Req
  <2> DEFINE a == AppendChunkAt(ocSess[s], from, n)
             t == a.sess
             l == IF a.code = 202 /\ n = ocReq[q].n THEN "finalize" ELSE "drop"
  <2>2. ocSess' = [ocSess EXCEPT ![s] = t] /\ Onto(q, l) BY <1>s, <2>1
  <2>3. ocReq[q].op = "put" /\ UNCHANGED <<ocPush, ocLinked, ocElse, ocOther, ocStored>>
    BY <1>2 DEF PutBody, Req
  <2>b. ocLinked' \in BOOLEAN /\ ocStored' \in {NoOci, Whole} BY <2>3, <1>i DEF StoreOK
  <2>l. l \in {"finalize", "drop"} OBVIOUS
  <2>4. n \in Nat /\ from + n <= OciSize
    <3>1. CASE OciSize <= OciChunk
      <4>1. Untouched BY <1>0, <2>3, <3>1 DEF OciInv, OneChunk
      <4>2. from = 0 BY <4>1, <1>s DEF Untouched
      <4> QED BY <4>2, <1>0, <1>r, <2>3, <3>1, OciSizes DEF OneReq
    <3>2. CASE ~(OciSize <= OciChunk)
      <4>1. n = 0 BY <1>0, <1>r, <2>3, <3>2 DEF OneReq
      <4> QED BY <4>1, <1>l, OciSizes
    <3> QED BY <3>1, <3>2
  <2>5. t \in RegistrySession /\ Prefix(t)
    <3>1. from \in Nat BY <1>l, OciSizes
    <3> HIDE DEF a, from
    <3>2. a.sess \in RegistrySession /\ Prefix(a.sess) BY <3>1, <2>4, <1>l, ChunkFacts DEF a
    <3> QED BY <3>2
  <2> HIDE DEF t, l, a
  <2>6. UploadsOK' /\ (\A x \in OciSession : Fresh(x)' => Fresh(x)) BY <1>s, <2>2, <2>5, RegistrySessionStep
  <2>9. PICK r \in RegistryRequest :
              /\ ocReq' = [ocReq EXCEPT ![q] = r] /\ ocReq'[q] = r
              /\ r.op = ocReq[q].op /\ r.s = ocReq[q].s /\ r.from = ocReq[q].from /\ r.n = ocReq[q].n
              /\ r.pc = l
    BY <1>0, <2>l, <2>2, OntoFacts
  <2>10. ~Fresh(s)'
    <3>1. ocSess'[s] = t BY <2>2, <1>s, <1>i DEF UploadsOK
    <3> QED BY <3>1, <2>5, NoOciAssumption DEF Fresh
  <2>11. OneReq(q)' BY <2>9, <2>10, <1>r, <1>0, <1>s, <2>3, <2>l DEF OneReq
  <2> QED BY <1>0, <2>3, <2>6, <2>9, <2>11, <2>l, <2>b, ServeStep
<1> QED BY <1>1, <1>2

\* The handlers that finish an upload.
LEMMA FinishActions ==
    ASSUME OciInv, NEW q \in OciSlot, Finalize(q) \/ LinkBlob(q)
    PROVE  OciInv'
<1>0. ocReq[q] # NoOci BY DEF Finalize, LinkBlob, At
<1>r. ocReq[q] \in RegistryRequest /\ OneReq(q) BY <1>0, ReqLocals
<1>i. StoreOK /\ UploadsOK BY DEF OciInv
<1>1. CASE Finalize(q)
  <2>s. PICK s \in OciSession : s = ocReq[q].s /\ ~Fresh(s) BY <1>0, <1>r, <1>1 DEF OneReq, Finalize, At
  <2>0. /\ Removed(s) /\ UNCHANGED <<ocPush, ocLinked, ocElse, ocOther>>
        /\ \/ ocStored' = Whole /\ Onto(q, "link")
           \/ Reply(q, 400, 0) /\ UNCHANGED ocStored
    BY <1>1, <2>s DEF Finalize, Req
  <2>b. ocLinked' \in BOOLEAN /\ ocStored' \in {NoOci, Whole} BY <2>0, <1>i DEF StoreOK
  <2>u. UploadsOK' /\ (\A x \in OciSession : Fresh(x)' => Fresh(x)) /\ (Untouched => Untouched')
    BY <2>s, <2>0, RemovedFacts
  <2>1. CASE Onto(q, "link")
    <3>1. PICK r \in RegistryRequest :
              /\ ocReq' = [ocReq EXCEPT ![q] = r] /\ ocReq'[q] = r
              /\ r.op = ocReq[q].op /\ r.s = ocReq[q].s /\ r.from = ocReq[q].from /\ r.n = ocReq[q].n
              /\ r.pc = "link"
      BY <1>0, <2>1, OntoFacts
    <3>2. OneReq(q)' BY <3>1, <1>r, <1>0 DEF OneReq
    <3> QED BY <1>0, <3>1, <3>2, <2>0, <2>u, <2>b, ServeStep
  <2>2. CASE Reply(q, 400, 0)
    <3>1. PICK r \in RegistryRequest :
              /\ ocReq' = [ocReq EXCEPT ![q] = r] /\ ocReq'[q] = r
              /\ r.op = ocReq[q].op /\ r.s = ocReq[q].s /\ r.from = ocReq[q].from /\ r.n = ocReq[q].n
              /\ r.pc = "reply" /\ r.code = 400
      BY <1>0, <2>2, ReplyFacts
    <3>2. OneReq(q)' BY <3>1, <1>r, <1>0 DEF OneReq
    <3> QED BY <1>0, <3>1, <3>2, <2>0, <2>u, <2>b, ServeStep
  <2> QED BY <2>0, <2>1, <2>2
<1>2. CASE LinkBlob(q)
  <2>0. UNCHANGED <<ocSess, ocPush, ocElse, ocOther, ocStored>> /\ ocReq[q].pc = "link" BY <1>2 DEF LinkBlob, At
  <2>b. ocLinked' \in BOOLEAN /\ ocStored' \in {NoOci, Whole} BY <1>2, <1>i DEF LinkBlob, StoreOK
  <2>u. UploadsOK' /\ (\A x \in OciSession : Fresh(x)' => Fresh(x)) /\ (Untouched => Untouched')
    BY <2>0, <1>i DEF UploadsOK, Fresh, Untouched
  <2>1. PICK code \in {201, 500} : Reply(q, code, 0) BY <1>2 DEF LinkBlob
  <2>2. PICK r \in RegistryRequest :
              /\ ocReq' = [ocReq EXCEPT ![q] = r] /\ ocReq'[q] = r
              /\ r.op = ocReq[q].op /\ r.s = ocReq[q].s /\ r.from = ocReq[q].from /\ r.n = ocReq[q].n
              /\ r.pc = "reply" /\ r.code = code
    BY <1>0, <2>1, ReplyFacts
  <2>3. OneReq(q)' BY <2>2, <1>r, <1>0 DEF OneReq
  <2> QED BY <1>0, <2>0, <2>2, <2>3, <2>u, <2>b, ServeStep
<1> QED BY <1>1, <1>2

\* Sessions of a set are taken out of the table.
LEMMA SweptFacts ==
    ASSUME OciInv, NEW G, \A s \in G : s \in OciSession => ~Fresh(s)
    PROVE  /\ Swept(G) \in [OciSession -> RegistrySession \cup {NoOci}]
           /\ \A s \in OciSession : /\ Fresh(s) => Swept(G)[s] = NoOci
                                    /\ ~Fresh(s) => /\ Swept(G)[s] # NoOci /\ Prefix(Swept(G)[s])
                                                    /\ Swept(G)[s].bytes = ocSess[s].bytes
<1>1. ASSUME NEW s \in OciSession
      PROVE  /\ Swept(G)[s] \in RegistrySession \cup {NoOci}
             /\ Fresh(s) => Swept(G)[s] = NoOci
             /\ ~Fresh(s) => Swept(G)[s] # NoOci /\ Prefix(Swept(G)[s]) /\ Swept(G)[s].bytes = ocSess[s].bytes
  <2>1. CASE s \in G
    <3> DEFINE t == [ocSess[s] EXCEPT !.known = FALSE, !.open = FALSE]
    <3>1. ocSess[s] \in RegistrySession /\ Prefix(ocSess[s]) /\ ~Fresh(s) BY <2>1, SessionLocals
    <3>2. Swept(G)[s] = t BY <2>1 DEF Swept
    <3>3. t \in RegistrySession /\ t.bytes = ocSess[s].bytes BY <3>1 DEF RegistrySession
    <3> HIDE DEF t
    <3>4. t # NoOci /\ Prefix(t) BY <3>1, <3>3, NoOciAssumption DEF Prefix
    <3> QED BY <3>1, <3>2, <3>3, <3>4
  <2>2. CASE s \notin G
    <3>1. Swept(G)[s] = ocSess[s] BY <2>2 DEF Swept
    <3> QED BY <3>1 DEF Fresh, OciInv, UploadsOK
  <2> QED BY <2>1, <2>2
<1>2. Swept(G) = [s \in OciSession |-> Swept(G)[s]] BY DEF Swept
<1> QED BY <1>1, <1>2

\* The handlers that open a session.
LEMMA OpenActions ==
    ASSUME OciInv, NEW q \in OciSlot, StartBlobUpload(q) \/ OpenRegistrySession(q)
    PROVE  OciInv'
<1>0. ocReq[q] # NoOci BY DEF StartBlobUpload, OpenRegistrySession, At
<1>r. ocReq[q] \in RegistryRequest /\ OneReq(q) BY <1>0, ReqLocals
<1>i. StoreOK /\ UploadsOK BY DEF OciInv
<1>1. CASE StartBlobUpload(q)
  <2>0. UNCHANGED <<ocSess, ocPush, ocElse, ocOther, ocStored>> /\ ocReq[q].pc = "sent" /\ ocReq[q].op = "post"
    BY <1>1 DEF StartBlobUpload, At, Req
  <2>b. ocLinked' \in BOOLEAN /\ ocStored' \in {NoOci, Whole} BY <1>1, <1>i DEF StartBlobUpload, StoreOK
  <2>u. UploadsOK' /\ (\A x \in OciSession : Fresh(x)' => Fresh(x)) /\ (Untouched => Untouched')
    BY <2>0, <1>i DEF UploadsOK, Fresh, Untouched
  <2>1. CASE Reply(q, 201, 0)
    <3>1. PICK r \in RegistryRequest :
              /\ ocReq' = [ocReq EXCEPT ![q] = r] /\ ocReq'[q] = r
              /\ r.op = ocReq[q].op /\ r.s = ocReq[q].s /\ r.from = ocReq[q].from /\ r.n = ocReq[q].n
              /\ r.pc = "reply" /\ r.code = 201
      BY <1>0, <2>1, ReplyFacts
    <3>2. OneReq(q)' BY <3>1, <1>r, <1>0 DEF OneReq
    <3> QED BY <1>0, <3>1, <3>2, <2>0, <2>u, <2>b, ServeStep
  <2>2. CASE ocReq' = [ocReq EXCEPT ![q].pc = "sweep", ![q].told = {s \in Known : ocSess[s].idle}]
    <3>1. PICK idle \in SUBSET OciSession : idle = {s \in Known : ocSess[s].idle} BY DEF Known
    <3> DEFINE r == [ocReq[q] EXCEPT !.pc = "sweep", !.told = idle]
    <3>2. ocReq' = [ocReq EXCEPT ![q] = r] BY <2>2, <3>1
    <3>3. r \in RegistryRequest /\ r.op = ocReq[q].op /\ r.pc = "sweep" /\ r.told = idle
      BY <1>r DEF RegistryRequest
    <3> HIDE DEF r
    <3>4. ocReq'[q] = r BY <3>2 DEF OciInv, ReqsOK
    <3>5. OneReq(q)' BY <3>1, <3>3, <3>4, <2>0 DEF OneReq, Fresh, Known
    <3> QED BY <1>0, <3>2, <3>3, <3>5, <2>0, <2>u, <2>b, ServeStep
  <2> QED BY <1>1, <2>1, <2>2 DEF StartBlobUpload
<1>2. CASE OpenRegistrySession(q)
  <2>g. PICK G : G = ocReq[q].told OBVIOUS
  <2>w. PICK swept : swept = Swept(G) OBVIOUS
  <2> DEFINE opened == [known |-> TRUE, open |-> TRUE, bytes |-> << >>, idle |-> FALSE]
  <2>0. UNCHANGED <<ocPush, ocLinked, ocElse, ocOther, ocStored>> /\ ocReq[q].pc = "sweep"
    BY <1>2 DEF OpenRegistrySession, At
  <2>1. \/ \E s \in OciSession : Fresh(s) /\ ocSess' = [swept EXCEPT ![s] = opened] /\ Reply(q, 202, s)
        \/ ocSess' = swept /\ Reply(q, 500, 0)
    BY <1>2, <2>g, <2>w DEF OpenRegistrySession, Req
  <2>2. G \subseteq OciSession /\ \A s \in G : ~Fresh(s) BY <2>g, <2>0, <1>0, <1>r DEF OneReq
  <2>3. /\ swept \in [OciSession -> RegistrySession \cup {NoOci}]
        /\ \A s \in OciSession : /\ Fresh(s) => swept[s] = NoOci
                                 /\ ~Fresh(s) => swept[s] # NoOci /\ Prefix(swept[s]) /\ swept[s].bytes = ocSess[s].bytes
    BY <2>2, <2>w, SweptFacts
  <2>o. opened \in RegistrySession /\ opened.bytes = << >> BY DEF RegistrySession
  <2> HIDE DEF opened
  <2>n. opened # NoOci /\ Prefix(opened) BY <2>o, NoOciAssumption, OciSizes DEF Prefix
  <2>b. ocLinked' \in BOOLEAN /\ ocStored' \in {NoOci, Whole} BY <2>0, <1>i DEF StoreOK
  <2>4. CASE ocSess' = swept /\ Reply(q, 500, 0)
    <3>u. UploadsOK' /\ (\A x \in OciSession : Fresh(x)' => Fresh(x)) /\ (Untouched => Untouched')
      BY <2>3, <2>4 DEF UploadsOK, Fresh, Untouched
    <3>1. PICK r \in RegistryRequest :
              /\ ocReq' = [ocReq EXCEPT ![q] = r] /\ ocReq'[q] = r
              /\ r.op = ocReq[q].op /\ r.s = ocReq[q].s /\ r.from = ocReq[q].from /\ r.n = ocReq[q].n
              /\ r.pc = "reply" /\ r.code = 500
      BY <1>0, <2>4, ReplyFacts
    <3>2. OneReq(q)' BY <3>1, <1>r, <1>0 DEF OneReq
    <3> QED BY <1>0, <3>1, <3>2, <2>0, <3>u, <2>b, ServeStep
  <2>5. ASSUME NEW s \in OciSession, Fresh(s), ocSess' = [swept EXCEPT ![s] = opened], Reply(q, 202, s)
        PROVE  OciInv'
    <3>s. ocSess' \in [OciSession -> RegistrySession \cup {NoOci}] BY <2>3, <2>5, <2>o
    <3>t. ocSess'[s] = opened /\ \A x \in OciSession : x # s => ocSess'[x] = swept[x] BY <2>3, <2>5
    <3>u. UploadsOK' /\ (\A x \in OciSession : Fresh(x)' => Fresh(x)) /\ (Untouched => Untouched')
      <4>1. \A x \in OciSession : Fresh(x)' => Fresh(x) BY <3>t, <2>n, <2>3 DEF Fresh
      <4>2. \A x \in OciSession : ~Fresh(x)' => Prefix(ocSess'[x]) BY <3>t, <2>n, <2>3 DEF Fresh
      <4>3. Untouched => Untouched' BY <3>t, <2>o, <2>3 DEF Fresh, Untouched
      <4> QED BY <3>s, <4>1, <4>2, <4>3 DEF UploadsOK
    <3>1. PICK r \in RegistryRequest :
              /\ ocReq' = [ocReq EXCEPT ![q] = r] /\ ocReq'[q] = r
              /\ r.op = ocReq[q].op /\ r.s = ocReq[q].s /\ r.from = ocReq[q].from /\ r.n = ocReq[q].n
              /\ r.pc = "reply" /\ r.code = 202 /\ r.told = s
      BY <1>0, <2>5, OciSizes, ReplyFacts
    <3>p. ocReq[q].op = "post" BY <1>0, <1>r, <2>0 DEF OneReq
    <3>2. OneReq(q)' BY <3>1, <3>p, <1>r, <1>0, <2>0 DEF OneReq
    <3> QED BY <1>0, <3>1, <3>2, <2>0, <3>u, <2>b, ServeStep
  <2> QED BY <2>1, <2>4, <2>5
<1> QED BY <1>1, <1>2

\* The client sends a request: it waits for none, and a chunk ends within the blob.
LEMMA SendStep ==
    ASSUME OciInv, NEW op \in {"post", "patch", "status", "put"}, NEW from \in Nat, NEW n \in Nat, Send(op, from, n),
           UNCHANGED <<ocSess, ocLinked, ocElse, ocOther, ocStored>>, ocPush.at \in {"start", "next", "ask"},
           op = "patch" => from + n <= OciSize,
           op = "put" => n = IF OciSize <= OciChunk THEN OciSize ELSE 0,
           OciSize <= OciChunk => (op = "post" \/ (op = "put" /\ ocPush.at = "next"))
    PROVE  OciInv'
<1> USE DEF OciInv
<1>1. PICK q \in OciSlot :
        /\ ocReq[q] = NoOci
        /\ ocReq' = [ocReq EXCEPT ![q] = [op |-> op, s |-> ocPush.sess, from |-> from, n |-> n,
                                          pc |-> "sent", code |-> 0, told |-> 0]]
        /\ ocPush' = [ocPush EXCEPT !.req = q, !.at = op]
  BY DEF Send
<1> DEFINE r == [op |-> op, s |-> ocPush.sess, from |-> from, n |-> n, pc |-> "sent", code |-> 0, told |-> 0]
           c == [ocPush EXCEPT !.req = q, !.at = op]
<1>2. r \in RegistryRequest /\ r.op = op /\ r.from = from /\ r.n = n /\ r.pc = "sent"
  BY DEF PusherOK, PusherType, RegistryRequest
<1>3. /\ c \in PusherType /\ c.req = q /\ c.at = op /\ c.fails = ocPush.fails /\ c.asks = ocPush.asks
  BY DEF PusherOK, PusherType
<1>4. ocReq' = [ocReq EXCEPT ![q] = r] /\ ocPush' = c BY <1>1
<1> HIDE DEF r, c
<1>5. ocReq'[q] = r /\ \A p \in OciSlot : p # q => ocReq'[p] = ocReq[p] BY <1>4 DEF ReqsOK
<1>6. r # NoOci /\ q # NoOci BY <1>2, NoOciAssumption
<1>7. UploadsOK' BY DEF UploadsOK, Fresh
<1>8. ReqsOK'
  <2>1. ocReq' = [p \in OciSlot |-> ocReq'[p]] BY <1>4 DEF ReqsOK
  <2>2. OneReq(q)' BY <1>2, <1>5 DEF OneReq
  <2>3. ASSUME NEW p \in OciSlot, p # q PROVE OneReq(p)'
    <3>1. OneReq(p) /\ ocReq'[p] = ocReq[p] BY <2>3, <1>5 DEF ReqsOK
    <3> QED BY <3>1 DEF OneReq, Fresh
  <2> QED BY <2>1, <2>2, <2>3 DEF ReqsOK
<1>9. PusherOK' BY <1>2, <1>3, <1>4, <1>5, <1>6 DEF PusherOK
<1>10. OneChunk'
  <2> SUFFICES ASSUME OciSize <= OciChunk PROVE OneChunk' BY DEF OneChunk
  <2>1. Untouched /\ \A p \in OciSlot : ocReq[p] # NoOci => ocReq[p].op = "post" /\ ocReq[p].op # "put"
    BY DEF OneChunk
  <2>2. Untouched' BY <2>1 DEF Untouched, Fresh
  <2> QED BY <2>1, <2>2, <1>2, <1>3, <1>4, <1>5 DEF OneChunk
<1>11. StoreOK' BY DEF StoreOK, Fresh
<1> QED BY <1>7, <1>8, <1>9, <1>10, <1>11

\* The client goes on without a request of its own; requests may be gone.
LEMMA ClientStep ==
    ASSUME OciInv, NEW c \in PusherType, ocPush' = c, c.req = NoOci,
           c.at \notin {"done", "failed"} => c.fails < OciTries /\ c.asks < OciTries,
           UNCHANGED <<ocSess, ocLinked, ocElse, ocOther, ocStored>>,
           ocReq' = [q \in OciSlot |-> ocReq'[q]], \A q \in OciSlot : ocReq'[q] \in {ocReq[q], NoOci},
           OciSize <= OciChunk => /\ c.at \notin {"patch", "ask", "status"}
                                  /\ c.at \in {"head", "start", "post", "next"} => ocPush.at \in {"head", "start", "post", "next"}
    PROVE  OciInv'
<1> USE DEF OciInv
<1>1. UploadsOK' BY DEF UploadsOK, Fresh
<1>2. ASSUME NEW q \in OciSlot PROVE OneReq(q)'
  <2>1. OneReq(q) /\ ocReq'[q] \in {ocReq[q], NoOci} BY DEF ReqsOK
  <2> QED BY <2>1 DEF OneReq, Fresh
<1>3. ReqsOK' BY <1>2 DEF ReqsOK
<1>4. PusherOK' BY DEF PusherOK
<1>5. OneChunk'
  <2> SUFFICES ASSUME OciSize <= OciChunk PROVE OneChunk' BY DEF OneChunk
  <2>1. Untouched => Untouched' BY DEF Untouched, Fresh
  <2> QED BY <2>1 DEF OneChunk
<1>6. StoreOK' BY DEF StoreOK, Fresh
<1> QED BY <1>1, <1>3, <1>4, <1>5, <1>6

\* The client's next locals, when it ends or asks.
LEMMA SettleFacts ==
    ASSUME ocPush \in PusherType, NEW at \in {"done", "failed", "ask"}
    PROVE  /\ Settle(at) \in PusherType /\ Settle(at).at = at /\ Settle(at).req = NoOci
           /\ Settle(at).asks = 0 /\ Settle(at).fails = ocPush.fails
<1>1. 0 \in 0..OciTries BY OciSizes
<1> QED BY <1>1 DEF Settle, PusherType

\* After a session or status that was not answered.
LEMMA AskAgainFacts ==
    ASSUME ocPush \in PusherType, NEW at \in {"start", "ask"}, ocPush.asks < OciTries
    PROVE  /\ AskAgain(at) \in PusherType /\ AskAgain(at).req = NoOci /\ AskAgain(at).fails = ocPush.fails
           /\ AskAgain(at).at \in {at, "failed"} /\ (AskAgain(at).at = at => AskAgain(at).asks < OciTries)
<1> DEFINE n == ocPush.asks + 1
           l == IF n < OciTries THEN at ELSE "failed"
           d == [ocPush EXCEPT !.at = l, !.asks = n, !.req = NoOci]
<1>1. AskAgain(at) = d BY DEF AskAgain, PusherType
<1>2. n \in 0..OciTries /\ l \in {at, "failed"} /\ (l = at => n < OciTries) BY OciSizes DEF PusherType
<1> HIDE DEF n, l
<1>3. d \in PusherType /\ d.at = l /\ d.asks = n /\ d.req = NoOci /\ d.fails = ocPush.fails BY <1>2 DEF PusherType
<1> QED BY <1>1, <1>2, <1>3

\* After a session that is gone.
LEMMA GoneFacts ==
    ASSUME ocPush \in PusherType
    PROVE  /\ SessionGone \in PusherType /\ SessionGone.req = NoOci /\ SessionGone.fails = 0 /\ SessionGone.asks = 0
           /\ SessionGone.at \in {"start", "failed"} /\ (SessionGone.at = "start" => OciSize > OciChunk)
<1> DEFINE n == ocPush.drops + 1
           l == IF OciSize > OciChunk /\ n < OciTries THEN "start" ELSE "failed"
           d == [ocPush EXCEPT !.at = l, !.drops = n, !.off = 0, !.fails = 0, !.asks = 0, !.req = NoOci]
<1>1. SessionGone = d BY DEF SessionGone, PusherType
<1>2. n \in Nat /\ l \in {"start", "failed"} /\ (l = "start" => OciSize > OciChunk) BY DEF PusherType
<1> HIDE DEF n, l
<1>z. 0 \in 0..OciTries /\ 0 \in 0..OciSize BY OciSizes
<1>3. d \in PusherType /\ d.at = l /\ d.fails = 0 /\ d.asks = 0 /\ d.req = NoOci BY <1>2, <1>z DEF PusherType
<1> QED BY <1>1, <1>2, <1>3

\* After a committed size.
LEMMA AdvanceFacts ==
    ASSUME ocPush \in PusherType, NEW told \in 0..OciSize, ocPush.fails < OciTries
    PROVE  /\ Advance(told) \in PusherType /\ Advance(told).req = NoOci /\ Advance(told).asks = 0
           /\ Advance(told).at \in {"next", "failed"} /\ (Advance(told).at = "next" => Advance(told).fails < OciTries)
<1> DEFINE n == IF told <= ocPush.off THEN ocPush.fails + 1 ELSE 0
           l == IF n >= OciTries THEN "failed" ELSE "next"
           d == [ocPush EXCEPT !.at = l, !.off = told, !.fails = n, !.asks = 0, !.req = NoOci]
<1>1. Advance(told) = d BY DEF Advance
<1>2. n \in 0..OciTries /\ l \in {"next", "failed"} /\ (l = "next" => n < OciTries) BY OciSizes DEF PusherType
<1> HIDE DEF n, l
<1>z. 0 \in 0..OciTries BY OciSizes
<1>3. d \in PusherType /\ d.at = l /\ d.fails = n /\ d.asks = 0 /\ d.req = NoOci BY <1>2, <1>z DEF PusherType
<1> QED BY <1>1, <1>2, <1>3

\* What the client makes of an answer, or of none, is well typed, and a blob of one
\* chunk is not sent again.
LEMMA AnsweredFacts ==
    ASSUME OciInv, ocPush.req # NoOci, NEW c,
           c = Unanswered \/ (ocReq[ocPush.req].pc = "reply" /\ c = Answered(ocReq[ocPush.req]))
    PROVE  /\ c \in PusherType /\ c.req = NoOci
           /\ c.at \notin {"done", "failed"} => c.fails < OciTries /\ c.asks < OciTries
           /\ OciSize <= OciChunk => /\ c.at \notin {"patch", "ask", "status"}
                                     /\ c.at \in {"head", "start", "post", "next"} => ocPush.at \in {"head", "start", "post", "next"}
<1>0. PICK q \in OciSlot : q = ocPush.req BY DEF OciInv, PusherOK, PusherType
<1>1. ocPush \in PusherType /\ ocReq[q] # NoOci /\ ocReq[q].op = ocPush.at BY <1>0 DEF OciInv, PusherOK
<1>2. ocReq[q] \in RegistryRequest /\ OneReq(q) BY <1>1, ReqLocals
<1>3. ocPush.at \in {"post", "patch", "status", "put"} BY <1>1, <1>2 DEF RegistryRequest
<1>4. ocPush.fails < OciTries /\ ocPush.asks < OciTries BY <1>3 DEF OciInv, PusherOK
<1>5. OciSize <= OciChunk => ocPush.at \in {"post", "put"} BY <1>3 DEF OciInv, OneChunk
<1> DEFINE Good(d) ==
    /\ d \in PusherType /\ d.req = NoOci
    /\ d.at \notin {"done", "failed"} => d.fails < OciTries /\ d.asks < OciTries
    /\ OciSize <= OciChunk => /\ d.at \notin {"patch", "ask", "status"}
                              /\ d.at \in {"head", "start", "post", "next"} => ocPush.at \in {"head", "start", "post", "next"}
<1>6. Good(Settle("done")) /\ Good(Settle("failed"))
  BY <1>1, SettleFacts
<1>7. ocPush.at = "patch" => Good(Settle("ask"))
  BY <1>1, <1>4, <1>5, OciSizes, SettleFacts
<1>8. ocPush.at = "post" => Good(AskAgain("start"))
  BY <1>1, <1>4, <1>5, AskAgainFacts
<1>9. ocPush.at = "status" => Good(AskAgain("ask"))
  BY <1>1, <1>4, <1>5, AskAgainFacts
<1>10. ocPush.at # "post" => Good(SessionGone)
  <2>1. OciSize > OciChunk => ~(OciSize <= OciChunk) BY OciSizes DEF OciChunk
  <2> QED BY <1>1, <2>1, OciSizes, GoneFacts
<1>11. ASSUME NEW told \in 0..OciSize, ocPush.at \in {"patch", "status"} PROVE Good(Advance(told))
  BY <1>1, <1>4, <1>5, <1>11, OciSizes, AdvanceFacts
<1>12. ASSUME NEW s \in OciSession, ocPush.at = "post"
       PROVE  Good([ocPush EXCEPT !.sess = s, !.at = "next", !.asks = 0, !.req = NoOci])
  <2> DEFINE d == [ocPush EXCEPT !.sess = s, !.at = "next", !.asks = 0, !.req = NoOci]
  <2>1. d \in PusherType /\ d.at = "next" /\ d.asks = 0 /\ d.req = NoOci /\ d.fails = ocPush.fails
    <3>1. 0 \in 0..OciTries BY OciSizes
    <3> QED BY <1>1, <3>1 DEF PusherType
  <2> HIDE DEF d
  <2>2. Good(d) BY <2>1, <1>4, <1>12, OciSizes
  <2> QED BY <2>2 DEF d
<1> HIDE DEF Good
<1>13. c = Unanswered => Good(c) BY <1>3, <1>6, <1>7, <1>8, <1>9 DEF Unanswered
<1>14. ASSUME ocReq[q].pc = "reply", c = Answered(ocReq[q]) PROVE Good(c)
  <2>1. ocReq[q].op \in {"patch", "status"} /\ ocReq[q].code \in {202, 204, 416} => ocReq[q].told \in 0..OciSize
    BY <1>1, <1>2, <1>14 DEF OneReq
  <2>2. ocReq[q].op = "post" /\ ocReq[q].code = 202 => ocReq[q].told \in OciSession
    BY <1>1, <1>2, <1>14 DEF OneReq
  <2>3. CASE ocPush.at = "post"
    <3> DEFINE d == [ocPush EXCEPT !.sess = ocReq[q].told, !.at = "next", !.asks = 0, !.req = NoOci]
    <3>1. CASE ocReq[q].code = 202 /\ Answered(ocReq[q]) = d
      <4>1. Good(d) BY <2>2, <2>3, <3>1, <1>1, <1>12
      <4> HIDE DEF d
      <4> QED BY <4>1, <3>1, <1>14
    <3>2. CASE Answered(ocReq[q]) \in {Settle("done"), AskAgain("start"), Settle("failed")}
      BY <2>3, <3>2, <1>6, <1>8, <1>14
    <3>3. ocReq[q].op = "post" BY <2>3, <1>1
    <3> QED BY <3>1, <3>2, <3>3 DEF Answered
  <2>4. CASE ocPush.at = "put" BY <2>4, <1>1, <1>6, <1>10, <1>14 DEF Answered
  <2>5. CASE ocPush.at \in {"patch", "status"}
    <3>1. CASE ocReq[q].code \in {202, 204, 416} /\ Answered(ocReq[q]) = Advance(ocReq[q].told)
      BY <2>1, <2>5, <3>1, <1>1, <1>11, <1>14
    <3>2. CASE Answered(ocReq[q]) \in {SessionGone, Settle("failed")}
      BY <2>5, <3>2, <1>6, <1>10, <1>14
    <3> QED BY <2>5, <3>1, <3>2, <1>1 DEF Answered
  <2> QED BY <2>3, <2>4, <2>5, <1>3
<1>15. Good(c) BY <1>0, <1>13, <1>14
<1> QED BY <1>15 DEF Good

\* The client's actions.
LEMMA ClientActions ==
    ASSUME OciInv, HeadBlob \/ StartSession \/ NextChunk \/ AskStatus \/ ReadReply \/ LoseReply
    PROVE  OciInv'
<1>0. ocPush \in PusherType BY DEF OciInv, PusherOK
<1>q. ocReq = [q \in OciSlot |-> ocReq[q]] BY DEF OciInv, ReqsOK
<1>1. CASE HeadBlob
  <2> DEFINE c == [ocPush EXCEPT !.at = IF ocLinked THEN "done" ELSE "start"]
  <2>1. ocPush.at = "head" /\ ocPush' = c /\ UNCHANGED <<ocSess, ocReq, ocLinked, ocElse, ocOther, ocStored>>
    BY <1>1 DEF HeadBlob
  <2>2. c \in PusherType /\ c.at \in {"done", "start"} /\ c.req = ocPush.req /\ c.fails = ocPush.fails /\ c.asks = ocPush.asks
    BY <1>0 DEF PusherType
  <2> HIDE DEF c
  <2>3. ocPush.req = NoOci
    <3>1. ocPush.req # NoOci => ocPush.req \in OciSlot BY <1>0 DEF PusherType
    <3> QED BY <3>1, <2>1, ReqLocals DEF OciInv, PusherOK, RegistryRequest
  <2>4. ocPush.fails < OciTries /\ ocPush.asks < OciTries BY <2>1 DEF OciInv, PusherOK
  <2> QED BY <2>1, <2>2, <2>3, <2>4, <1>q, ClientStep
<1>2. CASE StartSession
  <2>1. PICK n \in {0, 1} : Send("post", 0, n) BY <1>2 DEF StartSession
  <2> QED BY <2>1, <1>2, SendStep DEF StartSession
<1>3. CASE NextChunk
  <2>0. ocPush.off \in 0..OciSize BY <1>0 DEF PusherType
  <2>1. CASE OciSize <= OciChunk
    <3>1. Send("put", 0, OciSize) BY <1>3, <2>1 DEF NextChunk
    <3> QED BY <3>1, <2>1, <1>3, OciSizes, SendStep DEF NextChunk
  <2>2. CASE ~(OciSize <= OciChunk) /\ ocPush.off < OciSize
    <3>1. PICK n \in Nat : Send("patch", ocPush.off, n) /\ ocPush.off + n <= OciSize
      BY <1>3, <2>0, <2>2, OciSizes DEF NextChunk, OciChunk
    <3> QED BY <3>1, <2>0, <2>2, <1>3, OciSizes, SendStep DEF NextChunk
  <2>3. CASE ~(OciSize <= OciChunk) /\ ~(ocPush.off < OciSize)
    <3>1. Send("put", 0, 0) BY <1>3, <2>3 DEF NextChunk
    <3> QED BY <3>1, <2>3, <1>3, OciSizes, SendStep DEF NextChunk
  <2> QED BY <2>1, <2>2, <2>3
<1>4. CASE AskStatus
  <2>1. ~(OciSize <= OciChunk) BY <1>4 DEF OciInv, OneChunk, AskStatus
  <2> QED BY <2>1, <1>4, SendStep DEF AskStatus
<1>5. CASE ReadReply
  <2>1. PICK c : c = Answered(ocReq[ocPush.req]) OBVIOUS
  <2>2. /\ ocPush.req # NoOci /\ ocReq[ocPush.req].pc = "reply" /\ ocPush' = c
        /\ ocReq' = [ocReq EXCEPT ![ocPush.req] = NoOci] /\ UNCHANGED <<ocSess, ocLinked, ocElse, ocOther, ocStored>>
    BY <1>5, <2>1 DEF ReadReply, Req
  <2>3. ocReq' = [q \in OciSlot |-> ocReq'[q]] /\ \A q \in OciSlot : ocReq'[q] \in {ocReq[q], NoOci}
    BY <2>2, <1>q
  <2> QED BY <2>1, <2>2, <2>3, AnsweredFacts, ClientStep
<1>6. CASE LoseReply
  <2>1. PICK c : c = Unanswered OBVIOUS
  <2>2. /\ ocPush.req # NoOci /\ ocPush' = c
        /\ ocReq' = [ocReq EXCEPT ![ocPush.req] = NoOci] \/ ocReq' = ocReq
        /\ UNCHANGED <<ocSess, ocLinked, ocElse, ocOther, ocStored>>
    BY <1>6, <2>1 DEF LoseReply, Req
  <2>3. ocReq' = [q \in OciSlot |-> ocReq'[q]] /\ \A q \in OciSlot : ocReq'[q] \in {ocReq[q], NoOci}
    BY <2>2, <1>q
  <2> QED BY <2>1, <2>2, <2>3, AnsweredFacts, ClientStep
<1> QED BY <1>1, <1>2, <1>3, <1>4, <1>5, <1>6

\* A request nobody waits for is gone.
LEMMA DropActions ==
    ASSUME OciInv, NEW q \in OciSlot, AnswerNobody(q) \/ LoseRequest(q)
    PROVE  OciInv'
<1> USE DEF OciInv
<1>0. /\ ocPush.req # q /\ ocReq' = [ocReq EXCEPT ![q] = NoOci]
      /\ UNCHANGED <<ocSess, ocPush, ocLinked, ocElse, ocOther, ocStored>>
  BY DEF AnswerNobody, LoseRequest
<1>1. ocReq'[q] = NoOci /\ \A p \in OciSlot : p # q => ocReq'[p] = ocReq[p] BY <1>0 DEF ReqsOK
<1>2. UploadsOK' BY <1>0 DEF UploadsOK, Fresh
<1>3. ReqsOK'
  <2>1. ocReq' = [p \in OciSlot |-> ocReq'[p]] BY <1>0 DEF ReqsOK
  <2>2. ASSUME NEW p \in OciSlot PROVE OneReq(p)'
    <3>1. OneReq(p) /\ ocReq'[p] \in {ocReq[p], NoOci} BY <1>1 DEF ReqsOK
    <3> QED BY <3>1, <1>0 DEF OneReq, Fresh
  <2> QED BY <2>1, <2>2 DEF ReqsOK
<1>4. PusherOK'
  <2>1. ocPush.req # NoOci => ocPush.req \in OciSlot BY DEF PusherOK, PusherType
  <2> QED BY <1>0, <1>1, <2>1 DEF PusherOK
<1>5. OneChunk'
  <2> SUFFICES ASSUME OciSize <= OciChunk PROVE OneChunk' BY DEF OneChunk
  <2>1. Untouched => Untouched' BY <1>0 DEF Untouched, Fresh
  <2> QED BY <2>1, <1>0, <1>1 DEF OneChunk
<1>6. StoreOK' BY <1>0 DEF StoreOK, Fresh
<1> QED BY <1>2, <1>3, <1>4, <1>5, <1>6

\* Sessions idle and are swept; requests and the client stay where they are.
LEMMA QuietSessions ==
    ASSUME OciInv, UNCHANGED <<ocReq, ocPush, ocLinked, ocElse, ocStored>>, UploadsOK',
           \A s \in OciSession : Fresh(s)' => Fresh(s), Untouched => Untouched',
           ocOther' \subseteq OciSession, \A s \in ocOther' : ~Fresh(s)
    PROVE  OciInv'
<1> USE DEF OciInv
<1>1. ASSUME NEW p \in OciSlot PROVE OneReq(p)'
  <2>1. OneReq(p) BY DEF ReqsOK
  <2> QED BY <2>1 DEF OneReq
<1>2. ReqsOK' BY <1>1 DEF ReqsOK
<1>3. PusherOK' BY DEF PusherOK
<1>4. OneChunk' BY DEF OneChunk
<1>5. StoreOK' BY DEF StoreOK
<1> QED BY <1>2, <1>3, <1>4, <1>5

\* Time, other uploads and restarts.
LEMMA OtherActions ==
    ASSUME OciInv, OtherFinds \/ OtherRemoves \/ RestartRegistry \/ \E s \in OciSession : SessionIdles(s)
    PROVE  OciInv'
<1>i. UploadsOK /\ StoreOK /\ ReqsOK /\ PusherOK BY DEF OciInv
<1>1. CASE OtherFinds
  <2>1. UploadsOK' /\ (\A x \in OciSession : Fresh(x)' => Fresh(x)) /\ (Untouched => Untouched')
    BY <1>1, <1>i DEF OtherFinds, UploadsOK, Fresh, Untouched
  <2>2. ocOther' \subseteq OciSession /\ \A s \in ocOther' : ~Fresh(s) BY <1>1 DEF OtherFinds, Known
  <2> QED BY <1>1, <2>1, <2>2, QuietSessions DEF OtherFinds
<1>s. ASSUME NEW G \in SUBSET OciSession, \A s \in G : ~Fresh(s), ocSess' = Swept(G)
      PROVE  UploadsOK' /\ (\A x \in OciSession : Fresh(x)' => Fresh(x)) /\ (Untouched => Untouched')
  <2>1. PICK w : w = Swept(G) OBVIOUS
  <2>2. /\ w \in [OciSession -> RegistrySession \cup {NoOci}]
        /\ \A s \in OciSession : ~Fresh(s) => w[s] # NoOci /\ Prefix(w[s]) /\ w[s].bytes = ocSess[s].bytes
        /\ \A s \in OciSession : Fresh(s) => w[s] = NoOci
    BY <1>s, <2>1, SweptFacts
  <2> QED BY <1>s, <2>1, <2>2 DEF UploadsOK, Fresh, Untouched
<1>2. CASE OtherRemoves
  <2>1. ocOther \subseteq OciSession /\ \A s \in ocOther : ~Fresh(s) BY <1>i DEF StoreOK
  <2>2. UploadsOK' /\ (\A x \in OciSession : Fresh(x)' => Fresh(x)) /\ (Untouched => Untouched')
    BY <1>2, <2>1, <1>s DEF OtherRemoves
  <2> QED BY <1>2, <2>2, QuietSessions DEF OtherRemoves
<1>3. ASSUME NEW s \in OciSession, SessionIdles(s) PROVE OciInv'
  <2> DEFINE t == [ocSess[s] EXCEPT !.idle = TRUE]
  <2>0. ~Fresh(s) /\ ocSess' = [ocSess EXCEPT ![s] = t] /\ UNCHANGED <<ocReq, ocPush, ocLinked, ocElse, ocOther, ocStored>>
    BY <1>3 DEF SessionIdles, Known
  <2>1. ocSess[s] \in RegistrySession /\ Prefix(ocSess[s]) BY <2>0, SessionLocals
  <2>2. t \in RegistrySession /\ t.bytes = ocSess[s].bytes BY <2>1 DEF RegistrySession
  <2> HIDE DEF t
  <2>3. Prefix(t) BY <2>1, <2>2 DEF Prefix
  <2>4. UploadsOK' /\ (\A x \in OciSession : Fresh(x)' => Fresh(x)) /\ (Untouched => Untouched')
    BY <2>0, <2>2, <2>3, RegistrySessionStep
  <2> QED BY <2>0, <2>4, <1>i, QuietSessions DEF StoreOK
<1>4. CASE RestartRegistry
  <2>0. /\ ocReq' = [q \in OciSlot |-> NoOci] /\ ocOther' = {} /\ UNCHANGED <<ocLinked, ocElse, ocStored>>
        /\ ocSess' = Swept({s \in OciSession : ~Fresh(s)})
        /\ ocPush' = IF ocPush.req = NoOci THEN ocPush ELSE Unanswered
    BY <1>4 DEF RestartRegistry
  <2>u. UploadsOK' /\ (Untouched => Untouched')
    <3>1. PICK G \in SUBSET OciSession : G = {s \in OciSession : ~Fresh(s)} OBVIOUS
    <3> QED BY <2>0, <3>1, <1>s
  <2>1. ReqsOK' BY <2>0 DEF ReqsOK, OneReq
  <2>2. PICK c : c = ocPush' OBVIOUS
  <2>3. /\ c \in PusherType /\ c.req = NoOci
        /\ c.at \notin {"done", "failed"} => c.fails < OciTries /\ c.asks < OciTries
        /\ OciSize <= OciChunk => /\ c.at \notin {"patch", "ask", "status"}
                                  /\ c.at \in {"head", "start", "post", "next"} => ocPush.at \in {"head", "start", "post", "next"}
    <3>1. CASE ocPush.req = NoOci BY <2>0, <2>2, <3>1 DEF OciInv, PusherOK, OneChunk
    <3>2. CASE ocPush.req # NoOci BY <2>0, <2>2, <3>2, AnsweredFacts
    <3> QED BY <3>1, <3>2
  <2>4. PusherOK' BY <2>2, <2>3 DEF PusherOK
  <2>5. OneChunk'
    <3> SUFFICES ASSUME OciSize <= OciChunk PROVE OneChunk' BY DEF OneChunk
    <3>1. \A q \in OciSlot : ocReq'[q] = NoOci BY <2>0
    <3>2. c.at \in {"head", "start", "post", "next"} => Untouched' BY <2>3, <2>u DEF OciInv, OneChunk
    <3> QED BY <2>2, <2>3, <3>1, <3>2 DEF OneChunk
  <2>6. StoreOK' BY <2>0, <1>i DEF StoreOK
  <2> QED BY <2>u, <2>1, <2>4, <2>5, <2>6 DEF OciInv
<1> QED BY <1>1, <1>2, <1>3, <1>4

\* Every action of client and registry preserves it.
LEMMA OciInvStep == OciInv /\ [OciNext]_ocVars => OciInv'
<1> SUFFICES ASSUME OciInv, [OciNext]_ocVars PROVE OciInv' OBVIOUS
<1>1. CASE UNCHANGED ocVars
  <2>1. UploadsOK' /\ (\A x \in OciSession : Fresh(x)' => Fresh(x)) /\ (Untouched => Untouched')
    BY <1>1 DEF OciInv, UploadsOK, Fresh, Untouched, ocVars
  <2> QED BY <1>1, <2>1, QuietSessions DEF ocVars, OciInv, StoreOK
<1>2. CASE Pushes \/ LoseReply BY <1>2, ClientActions DEF Pushes
<1>3. ASSUME NEW q \in OciSlot, Serves(q) \/ LoseRequest(q) PROVE OciInv'
  BY <1>3, LookActions, AppendActions, FinishActions, OpenActions, DropActions DEF Serves
<1>4. CASE OtherFinds \/ OtherRemoves \/ RestartRegistry \/ \E s \in OciSession : SessionIdles(s)
  BY <1>4, OtherActions
<1> QED BY <1>1, <1>2, <1>3, <1>4 DEF OciNext

\* Whatever the client repeats, the network delays and sweeps, removals and restarts
\* take away, an upload session of the registry holds a prefix of the blob, within
\* its size, and the client believes no more (appendChunkAt, uploadChunks).
THEOREM RegistryHoldsPrefixes == OciSpec => []SessionIsPrefix
<1>1. OciInv => SessionIsPrefix
  <2> SUFFICES ASSUME OciInv PROVE SessionIsPrefix OBVIOUS
  <2>1. ASSUME NEW s \in OciSession, ~Fresh(s)
        PROVE  /\ ocSess[s].bytes = SubSeq(Whole, 1, Len(ocSess[s].bytes))
               /\ ocSess[s] \in RegistrySession
               /\ \A i \in DOMAIN ocSess[s].bytes : ocSess[s].bytes[i] \in Unit
    <3>1. PICK b \in Seq(Nat) : b = ocSess[s].bytes BY <2>1, SessionLocals DEF RegistrySession
    <3>2. Len(b) \in 0..OciSize /\ \A i \in 1..Len(b) : b[i] = i BY <2>1, <3>1, SessionLocals DEF Prefix
    <3>3. Whole \in Seq(Nat) /\ Len(Whole) = OciSize /\ \A i \in 1..OciSize : Whole[i] = i
      BY OciSizes DEF Whole, Unit
    <3>4. b = SubSeq(Whole, 1, Len(b)) BY <3>2, <3>3, OciSizes
    <3>5. \A i \in DOMAIN b : b[i] \in Unit BY <3>2, OciSizes DEF Unit
    <3> QED BY <2>1, <3>1, <3>4, <3>5, SessionLocals
  <2>2. OciTypeOK
    <3>1. \A s \in OciSession : ~Fresh(s) =>
            /\ ocSess[s].known \in BOOLEAN /\ ocSess[s].open \in BOOLEAN /\ ocSess[s].idle \in BOOLEAN
            /\ \A i \in DOMAIN ocSess[s].bytes : ocSess[s].bytes[i] \in Unit
      BY <2>1 DEF RegistrySession
    <3>2. \A q \in OciSlot : ocReq[q] = NoOci
            \/ /\ ocReq[q].pc \in {"sent", "have", "drop", "sweep", "finalize", "link", "reply"}
               /\ ocReq[q].op \in {"post", "patch", "status", "put"}
      BY ReqLocals DEF RegistryRequest
    <3>3. /\ ocPush.at \in {"head", "start", "next", "ask", "post", "patch", "status", "put", "done", "failed"}
          /\ ocPush.off \in 0..OciSize /\ ocPush.fails \in 0..OciTries /\ ocPush.asks \in 0..OciTries
      BY DEF OciInv, PusherOK, PusherType
    <3> QED BY <3>1, <3>2, <3>3 DEF OciTypeOK, OciInv, StoreOK
  <2> QED BY <2>1, <2>2 DEF SessionIsPrefix
<1> QED BY <1>1, OciInvInit, OciInvStep, PTL DEF OciSpec

(***************************************************************************)
(* The URLs of sites                                                       *)
(***************************************************************************)

\* The longest beginning of a sequence that is in a set.
LEMMA LongestInIs ==
    ASSUME NEW seq \in Seq(Int), NEW S
    PROVE  /\ LongestIn(seq, S) \in 0..Len(seq)
           /\ LongestIn(seq, S) # 0 => Upto(seq, LongestIn(seq, S)) \in S
           /\ LongestIn(seq, S) = 0 => \A i \in 1..Len(seq) : Upto(seq, i) \notin S
<1>. DEFINE ns == {i \in 1..Len(seq) : Upto(seq, i) \in S}
            far == {m \in Nat : Len(seq) - m \in ns}
<1>0. Len(seq) \in Nat
  OBVIOUS
<1>1. CASE ns = {}
  <2>1. LongestIn(seq, S) = 0
    BY <1>1 DEF LongestIn
  <2>. QED BY <1>0, <1>1, <2>1
<1>2. CASE ns # {}
  <2>1. \A i \in ns : i \in 1..Len(seq) /\ Len(seq) - i \in Nat /\ Len(seq) - (Len(seq) - i) = i
    BY <1>0
  <2>2. far # {} /\ far \subseteq Nat
    BY <1>2, <2>1
  <2>3. PICK m \in far : \A k \in far : ~(<<k, m>> \in OpToRel(<, Nat))
    <3>. HIDE DEF far
    <3>. QED BY <2>2, NatLessThanWellFounded, WFMin
  <2>4. \A k \in far : ~(k < m)
    BY <2>3 DEF OpToRel
  <2>5. Len(seq) - m \in ns
    OBVIOUS
  <2>6. ASSUME NEW k \in ns PROVE k <= Len(seq) - m
    <3>1. Len(seq) - k \in far
      BY <2>1
    <3>2. m \in Nat /\ k \in Nat /\ ~(Len(seq) - k < m)
      <4>1. ~(Len(seq) - k < m)
        BY <2>4, <3>1
      <4>2. m \in Nat
        BY <2>2
      <4>. QED BY <2>1, <4>1, <4>2
    <3>. QED BY <1>0, <3>2
  <2>. HIDE DEF far, ns
  <2>7. LongestIn(seq, S) \in ns
    <3>1. LongestIn(seq, S) = CHOOSE i \in ns : \A k \in ns : k <= i
      BY <1>2 DEF LongestIn, ns
    <3>. QED BY <2>5, <2>6, <3>1
  <2>8. LongestIn(seq, S) \in 1..Len(seq) /\ Upto(seq, LongestIn(seq, S)) \in S
    BY <2>7 DEF ns
  <2>. QED BY <1>0, <2>8
<1>. QED BY <1>1, <1>2

\* A sequence is its beginning and what follows.
LEMMA UptoAfter ==
    ASSUME NEW seq \in Seq(Int), NEW i \in 0..Len(seq)
    PROVE  /\ Upto(seq, i) \in Seq(Int) /\ After(seq, i) \in Seq(Int)
           /\ Len(Upto(seq, i)) = i /\ Len(After(seq, i)) = Len(seq) - i
           /\ \A k \in 1..i : Upto(seq, i)[k] = seq[k]
           /\ \A k \in 1..(Len(seq) - i) : After(seq, i)[k] = seq[i + k]
           /\ Upto(seq, i) \o After(seq, i) = seq
<1>1. Len(seq) \in Nat /\ \A k \in 1..Len(seq) : seq[k] \in Int
  OBVIOUS
<1>2. /\ Upto(seq, i) \in Seq(Int) /\ Len(Upto(seq, i)) = i
      /\ \A k \in 1..i : Upto(seq, i)[k] = seq[k]
  <2>1. \A k \in 1..i : seq[k] \in Int
    BY <1>1
  <2>2. /\ SubSeq(seq, 1, i) \in Seq(Int)
        /\ Len(SubSeq(seq, 1, i)) = IF 1 <= i THEN i - 1 + 1 ELSE 0
        /\ \A k \in 1..(i - 1 + 1) : SubSeq(seq, 1, i)[k] = seq[1 + k - 1]
    BY <2>1, SubSeqProperties
  <2>. QED BY <1>1, <2>2 DEF Upto
<1>3. /\ After(seq, i) \in Seq(Int) /\ Len(After(seq, i)) = Len(seq) - i
      /\ \A k \in 1..(Len(seq) - i) : After(seq, i)[k] = seq[i + k]
  <2>1. \A k \in (i + 1)..Len(seq) : seq[k] \in Int
    BY <1>1
  <2>2. /\ SubSeq(seq, i + 1, Len(seq)) \in Seq(Int)
        /\ Len(SubSeq(seq, i + 1, Len(seq))) = IF i + 1 <= Len(seq) THEN Len(seq) - (i + 1) + 1 ELSE 0
        /\ \A k \in 1..(Len(seq) - (i + 1) + 1) : SubSeq(seq, i + 1, Len(seq))[k] = seq[i + 1 + k - 1]
    BY <1>1, <2>1, SubSeqProperties
  <2>. QED BY <1>1, <2>2 DEF After
<1>. DEFINE a == Upto(seq, i)
            b == After(seq, i)
<1>. HIDE DEF a, b
<1>4. a \o b \in Seq(Int) /\ Len(a \o b) = Len(seq) /\ \A k \in 1..Len(seq) : (a \o b)[k] = seq[k]
  <2>1. a \in Seq(Int) /\ b \in Seq(Int) /\ Len(a) = i /\ Len(b) = Len(seq) - i
    BY <1>2, <1>3 DEF a, b
  <2>a. /\ a \o b \in Seq(Int) /\ Len(a \o b) = Len(a) + Len(b)
        /\ \A k \in 1..(Len(a) + Len(b)) : (a \o b)[k] = IF k <= Len(a) THEN a[k] ELSE b[k - Len(a)]
    BY <2>1, ConcatProperties
  <2>b. i + (Len(seq) - i) = Len(seq)
    BY <1>1
  <2>2. /\ a \o b \in Seq(Int) /\ Len(a \o b) = Len(seq)
        /\ \A k \in 1..Len(seq) : (a \o b)[k] = IF k <= i THEN a[k] ELSE b[k - i]
    BY <2>1, <2>a, <2>b
  <2>3. \A k \in 1..i : a[k] = seq[k]
    BY <1>2 DEF a
  <2>4. \A k \in 1..(Len(seq) - i) : b[k] = seq[i + k]
    BY <1>3 DEF b
  <2>5. ASSUME NEW k \in 1..Len(seq) PROVE (a \o b)[k] = seq[k]
    <3>1. CASE k <= i
      BY <1>1, <2>2, <2>3, <3>1
    <3>2. CASE ~(k <= i)
      <4>1. k - i \in 1..(Len(seq) - i) /\ i + (k - i) = k
        BY <1>1, <3>2
      <4>. QED BY <2>2, <2>4, <3>2, <4>1
    <3>. QED BY <3>1, <3>2
  <2>. QED BY <2>2, <2>5
<1>5. a \o b = seq
  BY <1>1, <1>4, SeqEqual
<1>. QED BY <1>2, <1>3, <1>5 DEF a, b

\* The least of a set of numbers.
LEMMA MinIs ==
    ASSUME NEW I \in SUBSET Nat, I # {}
    PROVE  Min(I) \in I /\ \A k \in I : Min(I) <= k
<1>1. PICK i \in I : \A k \in I : ~(<<k, i>> \in OpToRel(<, Nat))
  BY NatLessThanWellFounded, WFMin
<1>2. \A k \in I : ~(k < i)
  BY <1>1 DEF OpToRel
<1>3. \A k \in I : i =< k
  BY <1>2
<1>. QED BY <1>3 DEF Min

\* What a ref names is a site of the project, and a ref that spells its branch is the
\* branch and the file.
Split(m, p, ref) ==
    \/ m.k # "file" /\ m = Nowhere
    \/ /\ m = Place(p, m.branch, m.path) /\ m.k = "file" /\ m.path \in Seq(Int)
       /\ RefNamesBranch(ref, m.branch) =>
            m.branch \in Seq(Int) \ {<<>>} /\ m.branch \o m.path = ref

\* A ref is split so.
LEMMA SplitSiteBranchIs ==
    ASSUME SiteURLsTypeOK, NEW p \in surProjects, NEW ref \in Seq(Int), ref # <<>>,
           NEW m, m = SplitSiteBranch(p, ref)
    PROVE  Split(m, p, ref)
<1>. DEFINE rows == surSites[p]
            branches == {rows[i].branch : i \in DOMAIN rows}
            n == LongestIn(ref, branches)
            at == {i \in DOMAIN rows : rows[i].commit # 0 /\ rows[i].commit = ref[1]}
            c == Min(at)
<1>1. /\ rows \in Seq([branch : SiteRef, commit : CommitSegment \cup {0}])
      /\ \A i \in DOMAIN rows : i \in Nat /\ rows[i].branch \in SiteRef
  <2>1. p \in SiteName /\ rows \in Seq([branch : SiteRef, commit : CommitSegment \cup {0}])
    BY DEF SiteURLsTypeOK
  <2>. HIDE DEF rows
  <2>2. DOMAIN rows = 1..Len(rows) /\ Len(rows) \in Nat
    BY <2>1
  <2>3. ASSUME NEW i \in 1..Len(rows) PROVE i \in Nat /\ rows[i].branch \in SiteRef
    <3>1. rows[i] \in [branch : SiteRef, commit : CommitSegment \cup {0}]
      BY <2>1, ElementOfSeq
    <3>. QED BY <2>2, <3>1
  <2>. QED BY <2>1, <2>2, <2>3
<1>2. m = IF n > 0 THEN Place(p, Upto(ref, n), After(ref, n))
          ELSE IF at # {} THEN Place(p, rows[c].branch, Tail(ref))
          ELSE Nowhere
  BY DEF SplitSiteBranch
<1>. HIDE DEF rows, branches, at
<1>3. /\ n \in 0..Len(ref) /\ Len(ref) \in Nat
      /\ n # 0 => Upto(ref, n) \in branches
      /\ n = 0 => \A i \in 1..Len(ref) : Upto(ref, i) \notin branches
  BY LongestInIs
<1>. HIDE DEF n
<1>4. CASE n > 0
  <2>1. m = Place(p, Upto(ref, n), After(ref, n))
    BY <1>2, <1>4
  <2>2. m.k = "file" /\ m.branch = Upto(ref, n) /\ m.path = After(ref, n)
    BY <2>1 DEF Place
  <2>3. /\ Upto(ref, n) \in Seq(Int) /\ After(ref, n) \in Seq(Int) /\ Len(Upto(ref, n)) = n
        /\ Upto(ref, n) \o After(ref, n) = ref
    BY <1>3, UptoAfter
  <2>4. Upto(ref, n) # <<>>
    BY <1>4, <2>3
  <2>. QED BY <2>1, <2>2, <2>3, <2>4 DEF Split
<1>5. CASE n = 0 /\ at # {}
  <2>1. m = Place(p, rows[c].branch, Tail(ref))
    BY <1>2, <1>5
  <2>2. m.k = "file" /\ m.branch = rows[c].branch /\ m.path = Tail(ref)
    BY <2>1 DEF Place
  <2>3. Tail(ref) \in Seq(Int)
    BY HeadTailProperties
  <2>4. c \in DOMAIN rows
    <3>1. at \in SUBSET Nat
      BY <1>1 DEF at
    <3>2. c \in at
      BY <1>5, <3>1, MinIs
    <3>. QED BY <3>2 DEF at
  <2>5. ~RefNamesBranch(ref, m.branch)
    <3>1. SUFFICES ASSUME IsPrefix(m.branch, ref) PROVE FALSE
      BY DEF RefNamesBranch
    <3>. DEFINE b == m.branch
    <3>2. b \in branches /\ b \in Seq(SiteSegment) /\ b # <<>>
      BY <1>1, <2>2, <2>4, SiteNames DEF branches
    <3>. HIDE DEF b
    <3>3. Len(b) \in 1..Len(ref) /\ SubSeq(b, 1, Len(b)) = Upto(ref, Len(b))
      BY <1>3, <3>1, <3>2, EmptySeq DEF IsPrefix, Upto, b
    <3>4. SubSeq(b, 1, Len(b)) = b
      BY <3>2, SubSeqFull
    <3>. QED BY <1>3, <1>5, <3>2, <3>3, <3>4
  <2>. QED BY <2>1, <2>2, <2>3, <2>5 DEF Split
<1>6. CASE n = 0 /\ ~(at # {})
  <2>1. m = Nowhere
    BY <1>2, <1>6
  <2>2. Nowhere.k # "file"
    BY DEF Nowhere
  <2>. QED BY <2>1, <2>2 DEF Split
<1>7. n > 0 \/ n = 0
  BY <1>3
<1>. QED BY <1>4, <1>5, <1>6, <1>7, Zenon

\* A URL is one of the four spellings.
LEMMA SiteURLShapes ==
    ASSUME SiteURLsTypeOK, NEW u \in SiteURL
    PROVE  /\ u = [scheme |-> u.scheme, project |-> u.project, path |-> u.path]
           /\ u.path \in Seq(Int) /\ u.path # <<>>
           /\ \/ u.scheme = "apex" /\ u.project = <<>>
              \/ /\ u.scheme \in {"legacy", "tilde"} /\ u.project \in surProjects
                 /\ \A i \in 1..Len(u.path) : u.path[i] \in Nat \ {0}
              \/ u.scheme = "sub" /\ u.project \in surProjects
<1>1. ASSUME NEW n \in Int, NEW q \in Plain(n)
      PROVE  /\ q \in Seq(Int) /\ q # <<>> /\ Len(q) > 0
             /\ \A i \in 1..Len(q) : q[i] \in Nat \ {0}
             /\ DOMAIN q = 1..Len(q)
  <2>1. PICK k \in 1..n : q \in [1..k -> SiteSegment]
    BY DEF Plain
  <2>2. q \in Seq(SiteSegment) /\ Len(q) = k
    BY <2>1
  <2>3. q \in Seq(Int)
    <3>1. SiteSegment \subseteq Int
      BY SiteSegments
    <3>. QED BY <2>2, <3>1, SeqMonotonic
  <2>. QED BY <2>1, <2>2, <2>3, SiteSegments
<1>2. ASSUME NEW n \in Int, NEW q \in Signed(n) PROVE q \in Seq(Int) /\ q # <<>>
  <2>1. CASE q \in Plain(n)
    BY <1>1, <2>1
  <2>2. CASE \E r \in Plain(n) : \E i \in DOMAIN r : q = [r EXCEPT ![i] = -r[i]]
    <3>1. PICK r \in Plain(n) : \E i \in DOMAIN r : q = [r EXCEPT ![i] = -r[i]]
      BY <2>2
    <3>2. PICK i \in 1..Len(r) : q = [r EXCEPT ![i] = -r[i]]
      BY <1>1, <3>1
    <3>3. r \in Seq(Int) /\ Len(r) > 0 /\ -r[i] \in Int
      BY <1>1, <3>2
    <3>4. q \in Seq(Int) /\ Len(q) = Len(r)
      BY <3>2, <3>3, ExceptSeq
    <3>. QED BY <3>3, <3>4
  <2>. QED BY <2>1, <2>2 DEF Signed
<1>3. PathLength \in Int /\ PathLength - 1 \in Int
  BY SitePaths
<1>4. CASE u \in [scheme : {"apex"}, project : {<<>>}, path : Signed(PathLength)]
  <2>1. u = [scheme |-> u.scheme, project |-> u.project, path |-> u.path] /\ u.path \in Signed(PathLength)
        /\ u.scheme = "apex" /\ u.project = <<>>
    BY <1>4
  <2>. QED BY <1>2, <1>3, <2>1
<1>5. CASE u \in [scheme : {"legacy", "tilde"}, project : surProjects, path : Plain(PathLength - 1)]
  <2>1. u = [scheme |-> u.scheme, project |-> u.project, path |-> u.path] /\ u.path \in Plain(PathLength - 1)
        /\ u.scheme \in {"legacy", "tilde"} /\ u.project \in surProjects
    BY <1>5
  <2>. QED BY <1>1, <1>3, <2>1
<1>6. CASE u \in [scheme : {"sub"}, project : surProjects, path : Signed(PathLength - 1)]
  <2>1. u = [scheme |-> u.scheme, project |-> u.project, path |-> u.path] /\ u.path \in Signed(PathLength - 1)
        /\ u.scheme = "sub" /\ u.project \in surProjects
    BY <1>6
  <2>. QED BY <1>2, <1>3, <2>1
<1>7. \/ u \in [scheme : {"apex"}, project : {<<>>}, path : Signed(PathLength)]
      \/ u \in [scheme : {"legacy", "tilde"}, project : surProjects, path : Plain(PathLength - 1)]
      \/ u \in [scheme : {"sub"}, project : surProjects, path : Signed(PathLength - 1)]
  BY DEF SiteURL
<1>. QED BY <1>4, <1>5, <1>6, <1>7

\* Names of projects have positive segments.
LEMMA ProjectSegments ==
    ASSUME SiteURLsTypeOK, NEW p \in surProjects
    PROVE  p \in Seq(Int) /\ p # <<>> /\ Len(p) \in Nat \ {0} /\ \A i \in 1..Len(p) : p[i] \in Nat \ {0}
<1>1. p \in Seq(SiteSegment) /\ p # <<>>
  BY SiteNames DEF SiteURLsTypeOK
<1>2. Len(p) \in Nat \ {0}
  BY <1>1, EmptySeq
<1>3. \A i \in 1..Len(p) : p[i] \in SiteSegment
  BY <1>1, ElementOfSeq
<1>4. p \in Seq(Int)
  <2>1. SiteSegment \subseteq Int
    BY SiteSegments
  <2>. QED BY <1>1, <2>1, SeqMonotonic
<1>. QED BY <1>1, <1>2, <1>3, <1>4, SiteSegments

\* The URL of a file in the default branch's site, under the site domain.
LEMMA BareSubdomain ==
    ASSUME NEW p \in surProjects, NEW f \in Seq(Int), \A i \in 1..Len(f) : ~(f[i] < 0),
           NEW w, w = [scheme |-> "sub", project |-> p, path |-> f]
    PROVE  /\ Means(w) = Place(p, ResolveRootBranch(p), f)
           /\ Redirect(w) = w
<1>1. w.scheme = "sub" /\ w.project = p /\ w.path = f
  OBVIOUS
<1>2. ~(f # <<>> /\ f[1] < 0)
  BY EmptySeq
<1>3. SubdomainRoute(w) = [project |-> p, ref |-> <<>>, path |-> f]
  BY <1>1, <1>2 DEF SubdomainRoute
<1>4. Route(w) = [project |-> p, ref |-> <<>>, path |-> f]
  BY <1>1, <1>3 DEF Route
<1>5. Route(w).project = p /\ Route(w).ref = <<>> /\ Route(w).path = f
  BY <1>4
<1>6. Means(w) = Place(p, ResolveRootBranch(p), f)
  BY <1>5 DEF Means
<1>7. SubdomainRedirect(w) = w
  BY <1>1, <1>5 DEF SubdomainRedirect
<1>8. Redirect(w) = w
  BY <1>1, <1>7 DEF Redirect
<1>. QED BY <1>6, <1>8

\* The URL of such a file at the apex.
LEMMA BareApex ==
    ASSUME SiteURLsTypeOK, NEW p \in surProjects, NEW f \in Seq(Int), \A i \in 1..Len(f) : ~(f[i] < 0),
           ApexAddresses(p, f),
           NEW v, v = [scheme |-> "apex", project |-> <<>>, path |-> p \o f]
    PROVE  /\ Means(v) = Place(p, ResolveRootBranch(p), f)
           /\ Redirect(v) = v
<1>1. v.scheme = "apex" /\ v.path = p \o f
  OBVIOUS
<1>2. SplitBranchSigil(v.path) = 0
  <2>1. p \in Seq(Int) /\ \A i \in 1..Len(p) : p[i] \in Nat \ {0}
    BY ProjectSegments
  <2>2. DOMAIN (p \o f) = 1..(Len(p) + Len(f)) /\ Len(p) \in Nat /\ Len(f) \in Nat
    BY <2>1, ConcatProperties
  <2>3. ASSUME NEW i \in 1..(Len(p) + Len(f)) PROVE ~((p \o f)[i] < 0)
    <3>1. (p \o f)[i] = IF i <= Len(p) THEN p[i] ELSE f[i - Len(p)]
      BY <2>1, <2>3, ConcatProperties
    <3>2. CASE i <= Len(p)
      BY <2>1, <2>2, <3>1, <3>2
    <3>3. CASE ~(i <= Len(p))
      <4>1. i - Len(p) \in 1..Len(f)
        BY <2>2, <3>3
      <4>. QED BY <3>1, <3>3, <4>1
    <3>. QED BY <3>2, <3>3
  <2>4. {i \in DOMAIN (p \o f) : (p \o f)[i] < 0} = {}
    BY <2>2, <2>3
  <2>. QED BY <1>1, <2>4 DEF SplitBranchSigil
<1>3. SplitProjectPath(v.path) = [project |-> p, path |-> f]
  BY <1>1 DEF ApexAddresses
<1>4. Route(v) = [project |-> p, ref |-> <<>>, path |-> f]
  BY <1>1, <1>2, <1>3 DEF Route
<1>5. Route(v).project = p /\ Route(v).ref = <<>> /\ Route(v).path = f
  BY <1>4
<1>6. Means(v) = Place(p, ResolveRootBranch(p), f)
  BY <1>5 DEF Means
<1>7. Redirect(v) = v
  BY <1>1, <1>5 DEF Redirect
<1>. QED BY <1>6, <1>7

\* The sigil comes off again.
LEMMA SigilTwice ==
    ASSUME NEW s \in Seq(Int), s # <<>>
    PROVE  /\ Sigil(s) \in Seq(Int) /\ Sigil(s) # <<>> /\ Len(Sigil(s)) = Len(s)
           /\ Sigil(s)[1] = -s[1] /\ \A i \in 2..Len(s) : Sigil(s)[i] = s[i]
           /\ Sigil(Sigil(s)) = s
<1>1. Len(s) \in Nat \ {0} /\ 1 \in 1..Len(s) /\ DOMAIN s = 1..Len(s) /\ \A i \in 1..Len(s) : s[i] \in Int
  BY EmptySeq
<1>2. -s[1] \in Int /\ -(-s[1]) = s[1]
  BY <1>1
<1>3. /\ Sigil(s) \in Seq(Int) /\ Len(Sigil(s)) = Len(s)
      /\ \A j \in 1..Len(s) : Sigil(s)[j] = IF j = 1 THEN -s[1] ELSE s[j]
  BY <1>1, <1>2, ExceptSeq DEF Sigil
<1>4. PICK t \in Seq(Int) : t = Sigil(s) /\ Len(t) = Len(s) /\ t[1] = -s[1] /\ \A i \in 2..Len(s) : t[i] = s[i]
  <2>1. \A i \in 2..Len(s) : i \in 1..Len(s) /\ i # 1
    BY <1>1
  <2>. QED BY <1>1, <1>3, <2>1
<1>5. /\ Sigil(t) \in Seq(Int) /\ Len(Sigil(t)) = Len(s)
      /\ \A j \in 1..Len(s) : Sigil(t)[j] = IF j = 1 THEN -t[1] ELSE t[j]
  <2>1. -t[1] \in Int /\ 1 \in 1..Len(t)
    BY <1>1, <1>2, <1>4
  <2>. QED BY <1>4, <2>1, ExceptSeq DEF Sigil
<1>6. ASSUME NEW j \in 1..Len(s) PROVE Sigil(t)[j] = s[j]
  <2>1. j # 1 => j \in 2..Len(s)
    BY <1>1
  <2>. QED BY <1>2, <1>4, <1>5, <2>1
<1>7. Sigil(t) = s
  BY <1>5, <1>6, SeqEqual
<1>8. t # <<>>
  BY <1>1, <1>4
<1>. QED BY <1>4, <1>7, <1>8

\* Two sequences put together come apart again.
LEMMA ConcatParts ==
    ASSUME NEW p \in Seq(Int), NEW s \in Seq(Int)
    PROVE  Upto(p \o s, Len(p)) = p /\ After(p \o s, Len(p)) = s
<1>1. Len(p) \in Nat /\ Len(s) \in Nat
  OBVIOUS
<1>2. PICK q \in Seq(Int) : /\ q = p \o s /\ Len(q) = Len(p) + Len(s)
                            /\ \A i \in 1..(Len(p) + Len(s)) : q[i] = IF i <= Len(p) THEN p[i] ELSE s[i - Len(p)]
  <2>1. /\ p \o s \in Seq(Int) /\ Len(p \o s) = Len(p) + Len(s)
        /\ \A i \in 1..(Len(p) + Len(s)) : (p \o s)[i] = IF i <= Len(p) THEN p[i] ELSE s[i - Len(p)]
    BY ConcatProperties
  <2>. QED BY <2>1
<1>3. Len(p) \in 0..Len(q) /\ Len(q) - Len(p) = Len(s)
  BY <1>1, <1>2
<1>4. PICK a \in Seq(Int), b \in Seq(Int) :
        /\ a = Upto(q, Len(p)) /\ b = After(q, Len(p)) /\ Len(a) = Len(p) /\ Len(b) = Len(s)
        /\ \A k \in 1..Len(p) : a[k] = q[k]
        /\ \A k \in 1..Len(s) : b[k] = q[Len(p) + k]
  <2>1. /\ Upto(q, Len(p)) \in Seq(Int) /\ After(q, Len(p)) \in Seq(Int)
        /\ Len(Upto(q, Len(p))) = Len(p) /\ Len(After(q, Len(p))) = Len(q) - Len(p)
        /\ \A k \in 1..Len(p) : Upto(q, Len(p))[k] = q[k]
        /\ \A k \in 1..(Len(q) - Len(p)) : After(q, Len(p))[k] = q[Len(p) + k]
    BY <1>3, UptoAfter
  <2>. QED BY <1>3, <2>1
<1>5. ASSUME NEW k \in 1..Len(p) PROVE a[k] = p[k]
  <2>1. k \in 1..(Len(p) + Len(s)) /\ k <= Len(p)
    BY <1>1
  <2>. QED BY <1>2, <1>4, <2>1
<1>6. ASSUME NEW k \in 1..Len(s) PROVE b[k] = s[k]
  <2>1. Len(p) + k \in 1..(Len(p) + Len(s)) /\ ~(Len(p) + k <= Len(p)) /\ (Len(p) + k) - Len(p) = k
    BY <1>1
  <2>. QED BY <1>2, <1>4, <2>1
<1>7. a = p
  BY <1>4, <1>5, SeqEqual
<1>8. b = s
  BY <1>4, <1>6, SeqEqual
<1>. QED BY <1>2, <1>4, <1>7, <1>8

\* A ref behind the sigil at the apex.
LEMMA SigilApex ==
    ASSUME SiteURLsTypeOK, NEW p \in surProjects, NEW ref \in Seq(Int), ref # <<>>,
           \A i \in 1..Len(ref) : ref[i] \in Nat \ {0},
           NEW v, v = [scheme |-> "apex", project |-> <<>>, path |-> p \o Sigil(ref)]
    PROVE  Route(v) = [project |-> p, ref |-> ref, path |-> <<>>]
<1>1. p \in Seq(Int) /\ Len(p) \in Nat \ {0} /\ \A i \in 1..Len(p) : p[i] \in Nat \ {0}
  BY ProjectSegments
<1>2. PICK s \in Seq(Int) : /\ s = Sigil(ref) /\ Len(s) = Len(ref) /\ Len(s) \in Nat \ {0} /\ s[1] < 0
                            /\ \A i \in 2..Len(s) : s[i] \in Nat
                            /\ Sigil(s) = ref
  <2>1. Len(ref) \in Nat \ {0}
    BY EmptySeq
  <2>2. /\ Sigil(ref) \in Seq(Int) /\ Len(Sigil(ref)) = Len(ref)
        /\ Sigil(ref)[1] = -ref[1] /\ \A i \in 2..Len(ref) : Sigil(ref)[i] = ref[i]
        /\ Sigil(Sigil(ref)) = ref
    BY SigilTwice
  <2>3. ref[1] \in Nat \ {0} /\ \A i \in 2..Len(ref) : ref[i] \in Nat
    BY <2>1
  <2>. QED BY <2>1, <2>2, <2>3
<1>3. PICK n \in Nat \ {0}, l \in Nat \ {0} : n = Len(p) /\ l = Len(s)
  BY <1>1, <1>2
<1>4. PICK q \in Seq(Int) : /\ q = p \o s /\ DOMAIN q = 1..(n + l)
                            /\ \A i \in 1..(n + l) : q[i] = IF i <= n THEN p[i] ELSE s[i - n]
  <2>1. /\ p \o s \in Seq(Int) /\ Len(p \o s) = n + l
        /\ \A i \in 1..(n + l) : (p \o s)[i] = IF i <= n THEN p[i] ELSE s[i - n]
    BY <1>1, <1>3, ConcatProperties
  <2>2. DOMAIN (p \o s) = 1..(n + l)
    BY <2>1, LenProperties
  <2>. QED BY <2>1, <2>2
<1>5. n + 1 \in DOMAIN q /\ q[n + 1] < 0
  <2>1. n + 1 \in 1..(n + l) /\ ~(n + 1 <= n) /\ (n + 1) - n = 1
    BY <1>3
  <2>. QED BY <1>2, <1>4, <2>1
<1>6. ASSUME NEW i \in 1..(n + l), i # n + 1 PROVE ~(q[i] < 0)
  <2>1. CASE i <= n
    <3>1. p[i] \in Nat
      BY <1>1, <1>3, <2>1
    <3>2. q[i] = p[i]
      BY <1>4, <2>1
    <3>. QED BY <3>1, <3>2
  <2>2. CASE ~(i <= n)
    <3>0. i \in Int /\ i <= n + l /\ i >= n + 2
      BY <1>3, <1>6, <2>2
    <3>a. i - n \in 2..l
      BY <1>3, <3>0
    <3>1. PICK k \in 2..l : k = i - n
      BY <3>a
    <3>2. s[k] \in Nat
      BY <1>2, <1>3
    <3>3. q[i] = s[k]
      BY <1>4, <2>2, <3>1
    <3>. QED BY <3>2, <3>3
  <2>. QED BY <2>1, <2>2
<1>7. SplitBranchSigil(q) = n + 1
  <2>1. {i \in DOMAIN q : q[i] < 0} = {n + 1}
    BY <1>4, <1>5, <1>6
  <2>2. 1 # n + 1 /\ n + 1 <= n + 1
    BY <1>3
  <2>3. (CHOOSE i \in {n + 1} : \A k \in {n + 1} : i <= k) = n + 1
    BY <2>2
  <2>. QED BY <2>1, <2>2, <2>3 DEF SplitBranchSigil
<1>8. Upto(q, n) = p /\ After(q, n) = s
  BY <1>1, <1>3, <1>4, ConcatParts
<1>9. v.path = q /\ v.scheme = "apex" /\ (n + 1) - 1 = n /\ n + 1 > 0
  BY <1>2, <1>3, <1>4
<1>. QED BY <1>2, <1>7, <1>8, <1>9 DEF Route

\* A sequence without one of its elements.
LEMMA RemoveAtIs ==
    ASSUME NEW S, NEW s \in Seq(S), NEW i \in 1..Len(s)
    PROVE  /\ RemoveAt(s, i) \in Seq(S) /\ Len(RemoveAt(s, i)) = Len(s) - 1
           /\ \A k \in 1..(Len(s) - 1) : RemoveAt(s, i)[k] = IF k < i THEN s[k] ELSE s[k + 1]
<1>1. Len(s) \in Nat /\ i \in Int /\ 1 <= i /\ i <= Len(s) /\ \A k \in 1..Len(s) : s[k] \in S
  <2>1. Len(s) \in Nat
    OBVIOUS
  <2>2. \A k \in 1..Len(s) : s[k] \in S
    BY ElementOfSeq
  <2>. QED BY <2>1, <2>2
<1>2. PICK a \in Seq(S) : /\ a = SubSeq(s, 1, i - 1) /\ Len(a) = i - 1
                          /\ \A k \in 1..(i - 1) : a[k] = s[k]
  <2>1. i - 1 \in Int /\ 1 \in Int /\ \A k \in 1..(i - 1) : s[k] \in S
    BY <1>1
  <2>2. /\ SubSeq(s, 1, i - 1) \in Seq(S)
        /\ Len(SubSeq(s, 1, i - 1)) = IF 1 <= i - 1 THEN i - 1 - 1 + 1 ELSE 0
        /\ \A k \in 1..(i - 1 - 1 + 1) : SubSeq(s, 1, i - 1)[k] = s[1 + k - 1]
    BY <2>1, SubSeqProperties
  <2>3. (IF 1 <= i - 1 THEN i - 1 - 1 + 1 ELSE 0) = i - 1 /\ i - 1 - 1 + 1 = i - 1 /\ \A k \in 1..(i - 1) : 1 + k - 1 = k
    BY <1>1
  <2>. QED BY <2>2, <2>3
<1>3. PICK b \in Seq(S) : /\ b = SubSeq(s, i + 1, Len(s)) /\ Len(b) = Len(s) - i
                          /\ \A k \in 1..(Len(s) - i) : b[k] = s[i + k]
  <2>1. i + 1 \in Int /\ Len(s) \in Int /\ \A k \in (i + 1)..Len(s) : s[k] \in S
    BY <1>1
  <2>2. /\ SubSeq(s, i + 1, Len(s)) \in Seq(S)
        /\ Len(SubSeq(s, i + 1, Len(s))) = IF i + 1 <= Len(s) THEN Len(s) - (i + 1) + 1 ELSE 0
        /\ \A k \in 1..(Len(s) - (i + 1) + 1) : SubSeq(s, i + 1, Len(s))[k] = s[i + 1 + k - 1]
    BY <2>1, SubSeqProperties
  <2>3. /\ (IF i + 1 <= Len(s) THEN Len(s) - (i + 1) + 1 ELSE 0) = Len(s) - i
        /\ Len(s) - (i + 1) + 1 = Len(s) - i /\ \A k \in 1..(Len(s) - i) : i + 1 + k - 1 = i + k
    BY <1>1
  <2>4. \A k \in 1..(Len(s) - i) : SubSeq(s, i + 1, Len(s))[k] = s[i + k]
    BY <2>2, <2>3
  <2>5. Len(SubSeq(s, i + 1, Len(s))) = Len(s) - i
    BY <2>2, <2>3
  <2>. QED BY <2>2, <2>4, <2>5
<1>4. /\ a \o b \in Seq(S) /\ Len(a \o b) = Len(a) + Len(b)
      /\ \A k \in 1..(Len(a) + Len(b)) : (a \o b)[k] = IF k <= Len(a) THEN a[k] ELSE b[k - Len(a)]
  BY ConcatProperties
<1>5. Len(a) + Len(b) = Len(s) - 1
  <2>1. (i - 1) + (Len(s) - i) = Len(s) - 1
    BY <1>1
  <2>. QED BY <1>2, <1>3, <2>1
<1>6. ASSUME NEW k \in 1..(Len(s) - 1) PROVE (a \o b)[k] = IF k < i THEN s[k] ELSE s[k + 1]
  <2>1. (a \o b)[k] = IF k <= i - 1 THEN a[k] ELSE b[k - (i - 1)]
    BY <1>2, <1>4, <1>5
  <2>2. CASE k < i
    <3>1. k <= i - 1 /\ k \in 1..(i - 1)
      BY <1>1, <2>2
    <3>. QED BY <1>2, <2>1, <2>2, <3>1
  <2>3. CASE ~(k < i)
    <3>1. ~(k <= i - 1) /\ k - (i - 1) \in 1..(Len(s) - i) /\ i + (k - (i - 1)) = k + 1
      BY <1>1, <2>3
    <3>. QED BY <1>3, <2>1, <2>3, <3>1
  <2>. QED BY <2>2, <2>3
<1>7. RemoveAt(s, i) = a \o b
  BY <1>2, <1>3 DEF RemoveAt
<1>. QED BY <1>4, <1>5, <1>6, <1>7

\* The rows of a project's sites: one for each branch.
Rows == {s \in Seq([branch : SiteRef, commit : CommitSegment \cup {0}]) :
            \A i, j \in 1..Len(s) : s[i].branch = s[j].branch => i = j}

\* Taking a row away leaves such rows, none of its branch.
LEMMA RowsWithout ==
    ASSUME NEW s \in Rows, NEW i \in 1..Len(s)
    PROVE  /\ RemoveAt(s, i) \in Rows
           /\ \A k \in 1..Len(RemoveAt(s, i)) : RemoveAt(s, i)[k].branch # s[i].branch
<1>. DEFINE S == [branch : SiteRef, commit : CommitSegment \cup {0}]
<1>1. s \in Seq(S) /\ \A j, k \in 1..Len(s) : s[j].branch = s[k].branch => j = k
  BY DEF Rows
<1>. HIDE DEF S
<1>2. PICK n \in Nat : n = Len(s)
  BY <1>1
<1>3. PICK t \in Seq(S) : /\ t = RemoveAt(s, i) /\ Len(t) = n - 1
                          /\ \A k \in 1..(n - 1) : t[k] = IF k < i THEN s[k] ELSE s[k + 1]
  BY <1>1, <1>2, RemoveAtIs
<1>4. ASSUME NEW k \in 1..(n - 1)
      PROVE  \E m \in 1..n : m # i /\ m = (IF k < i THEN k ELSE k + 1) /\ t[k] = s[m]
  <2>1. k \in 1..n /\ k + 1 \in 1..n /\ i \in 1..n /\ (k < i => k # i) /\ (~(k < i) => k + 1 # i)
    BY <1>2
  <2>. QED BY <1>3, <2>1
<1>5. ASSUME NEW k \in 1..(n - 1) PROVE t[k].branch # s[i].branch
  <2>1. PICK m \in 1..n : m # i /\ t[k] = s[m]
    BY <1>4
  <2>. QED BY <1>1, <1>2, <2>1
<1>6. ASSUME NEW j \in 1..(n - 1), NEW k \in 1..(n - 1), t[j].branch = t[k].branch PROVE j = k
  <2>1. PICK m \in 1..n : m = (IF j < i THEN j ELSE j + 1) /\ t[j] = s[m]
    BY <1>4
  <2>2. PICK o \in 1..n : o = (IF k < i THEN k ELSE k + 1) /\ t[k] = s[o]
    BY <1>4
  <2>3. m = o
    BY <1>1, <1>2, <1>6, <2>1, <2>2
  <2>4. j \in Int /\ k \in Int /\ i \in Int
    BY <1>2
  <2>. QED BY <2>1, <2>2, <2>3, <2>4
<1>7. t \in Rows
  BY <1>3, <1>6 DEF Rows, S
<1>. QED BY <1>3, <1>5, <1>7

\* Putting a row of a new branch first does so too.
LEMMA RowsWith ==
    ASSUME NEW s \in Rows, NEW e \in [branch : SiteRef, commit : CommitSegment \cup {0}],
           \A k \in 1..Len(s) : s[k].branch # e.branch
    PROVE  <<e>> \o s \in Rows
<1>. DEFINE S == [branch : SiteRef, commit : CommitSegment \cup {0}]
<1>1. s \in Seq(S) /\ e \in S /\ \A j, k \in 1..Len(s) : s[j].branch = s[k].branch => j = k
  BY DEF Rows
<1>. HIDE DEF S
<1>2. PICK n \in Nat : n = Len(s)
  BY <1>1
<1>3. PICK t \in Seq(S) : /\ t = <<e>> \o s /\ Len(t) = n + 1
                          /\ \A k \in 1..(n + 1) : t[k] = IF k <= 1 THEN e ELSE s[k - 1]
  <2>1. <<e>> \in Seq(S) /\ Len(<<e>>) = 1 /\ <<e>>[1] = e
    BY <1>1
  <2>2. PICK o \in Seq(S) : o = <<e>> /\ Len(o) = 1 /\ o[1] = e
    BY <2>1
  <2>3. /\ o \o s \in Seq(S) /\ Len(o \o s) = Len(o) + Len(s)
        /\ \A k \in 1..(Len(o) + Len(s)) : (o \o s)[k] = IF k <= Len(o) THEN o[k] ELSE s[k - Len(o)]
    BY <1>1, ConcatProperties
  <2>4. 1 + n = n + 1 /\ \A k \in 1..(n + 1) : k <= 1 => k = 1
    BY <1>2
  <2>5. /\ Len(o \o s) = n + 1
        /\ \A k \in 1..(n + 1) : (o \o s)[k] = IF k <= 1 THEN o[k] ELSE s[k - 1]
    BY <1>2, <2>2, <2>3, <2>4
  <2>6. \A k \in 1..(n + 1) : (o \o s)[k] = IF k <= 1 THEN e ELSE s[k - 1]
    BY <2>2, <2>4, <2>5
  <2>. QED BY <2>2, <2>3, <2>5, <2>6
<1>4. ASSUME NEW j \in 1..(n + 1), NEW k \in 1..(n + 1), t[j].branch = t[k].branch PROVE j = k
  <2>1. j \in Int /\ k \in Int /\ (j > 1 => j - 1 \in 1..n) /\ (k > 1 => k - 1 \in 1..n)
        /\ (j <= 1 => j = 1) /\ (k <= 1 => k = 1) /\ (j > 1 <=> ~(j <= 1)) /\ (k > 1 <=> ~(k <= 1))
    BY <1>2
  <2>2. t[j] = (IF j <= 1 THEN e ELSE s[j - 1]) /\ t[k] = (IF k <= 1 THEN e ELSE s[k - 1])
    BY <1>3
  <2>3. CASE j > 1 /\ k > 1
    <3>1. s[j - 1].branch = s[k - 1].branch
      BY <1>4, <2>1, <2>2, <2>3
    <3>2. j - 1 = k - 1
      BY <1>1, <1>2, <2>1, <2>3, <3>1
    <3>. QED BY <2>1, <3>2
  <2>4. CASE j > 1 /\ k <= 1
    BY <1>2, <1>4, <2>1, <2>2, <2>4
  <2>5. CASE j <= 1 /\ k > 1
    BY <1>2, <1>4, <2>1, <2>2, <2>5
  <2>6. CASE j <= 1 /\ k <= 1
    BY <2>1, <2>6
  <2>. QED BY <2>1, <2>3, <2>4, <2>5, <2>6
<1>. QED BY <1>3, <1>4 DEF Rows, S

\* The table's type, project by project.
LEMMA RowsType ==
    ASSUME NEW t
    PROVE  t \in [SiteName -> Rows] <=>
             /\ t \in [SiteName -> Seq([branch : SiteRef, commit : CommitSegment \cup {0}])]
             /\ \A p \in SiteName : \A i, j \in DOMAIN t[p] : t[p][i].branch = t[p][j].branch => i = j
<1>. DEFINE T == Seq([branch : SiteRef, commit : CommitSegment \cup {0}])
<1>1. ASSUME NEW s \in T PROVE DOMAIN s = 1..Len(s)
  BY LenProperties
<1>2. ASSUME NEW s
      PROVE  s \in Rows <=> s \in T /\ \A i, j \in DOMAIN s : s[i].branch = s[j].branch => i = j
  BY <1>1 DEF Rows
<1>. HIDE DEF T
<1>3. t \in [SiteName -> Rows] <=>
        /\ t \in [SiteName -> T]
        /\ \A p \in SiteName : \A i, j \in DOMAIN t[p] : t[p][i].branch = t[p][j].branch => i = j
  BY <1>2
<1>. QED BY <1>3 DEF T

\* Publishing, deleting and new projects keep the tables well formed.
LEMMA SiteTables == SiteURLsSpec => []SiteURLsTypeOK
<1>1. SiteURLsInit => SiteURLsTypeOK
  <2>1. <<>> \in Rows
    BY DEF Rows
  <2>2. SiteURLsInit => surSites \in [SiteName -> Rows]
    BY <2>1 DEF SiteURLsInit
  <2>. QED BY <2>2, RowsType DEF SiteURLsInit, SiteURLsTypeOK
<1>2. SiteURLsTypeOK /\ [SiteURLsNext]_surVars => SiteURLsTypeOK'
  <2>. SUFFICES ASSUME SiteURLsTypeOK, [SiteURLsNext]_surVars PROVE SiteURLsTypeOK'
    OBVIOUS
  <2>1. /\ surProjects \subseteq SiteName /\ surSites \in [SiteName -> Rows]
        /\ surDefault \in [SiteName -> {<<>>} \cup SiteRef]
    BY RowsType DEF SiteURLsTypeOK
  <2>. SUFFICES /\ surProjects' \subseteq SiteName /\ surSites' \in [SiteName -> Rows]
                /\ surDefault' \in [SiteName -> {<<>>} \cup SiteRef]
    BY RowsType DEF SiteURLsTypeOK
  <2>2. CASE NewProject
    BY <2>1, <2>2 DEF NewProject
  <2>3. ASSUME NEW p \in surProjects, Publish(p) PROVE surSites' \in [SiteName -> Rows]
    <3>0. PICK s \in Rows : s = surSites[p]
      BY <2>1
    <3>a. PICK b \in SiteRef, c \in CommitSegment \cup {0} :
            \E old \in {{i \in DOMAIN s : s[i].branch = b}} :
              surSites' = [surSites EXCEPT ![p] = <<[branch |-> b, commit |-> c]>> \o
                                                  (IF old = {} THEN s ELSE RemoveAt(s, Min(old)))]
      BY <2>3, <3>0 DEF Publish
    <3>b. PICK old \in {{i \in DOMAIN s : s[i].branch = b}} :
              surSites' = [surSites EXCEPT ![p] = <<[branch |-> b, commit |-> c]>> \o
                                                  (IF old = {} THEN s ELSE RemoveAt(s, Min(old)))]
      BY <3>a
    <3>1. PICK rest \in {IF old = {} THEN s ELSE RemoveAt(s, Min(old))} :
              surSites' = [surSites EXCEPT ![p] = <<[branch |-> b, commit |-> c]>> \o rest]
      BY <3>b
    <3>2. DOMAIN s = 1..Len(s) /\ Len(s) \in Nat /\ old = {i \in 1..Len(s) : s[i].branch = b}
      <4>1. DOMAIN s = 1..Len(s) /\ Len(s) \in Nat
        BY LenProperties DEF Rows
      <4>. QED BY <3>1, <4>1
    <3>3. rest \in Rows /\ \A k \in 1..Len(rest) : rest[k].branch # b
      <4>1. CASE old = {}
        <5>1. rest = s
          BY <4>1
        <5>. QED BY <3>2, <4>1, <5>1
      <4>2. CASE old # {}
        <5>1. old \in SUBSET Nat
          BY <3>2
        <5>2. PICK m \in old : m = Min(old)
          BY <4>2, <5>1, MinIs
        <5>3. m \in 1..Len(s) /\ s[m].branch = b /\ rest = RemoveAt(s, m)
          BY <3>2, <4>2, <5>2
        <5>. QED BY <5>3, RowsWithout
      <4>. QED BY <4>1, <4>2
    <3>4. PICK e \in [branch : SiteRef, commit : CommitSegment \cup {0}] : e = [branch |-> b, commit |-> c] /\ e.branch = b
      <4>1. [branch |-> b, commit |-> c] \in [branch : SiteRef, commit : CommitSegment \cup {0}]
        OBVIOUS
      <4>2. [branch |-> b, commit |-> c].branch = b
        OBVIOUS
      <4>. QED BY <4>1, <4>2
    <3>5. <<e>> \o rest \in Rows
      BY <3>3, <3>4, RowsWith
    <3>. QED BY <2>1, <3>1, <3>4, <3>5
  <2>4. ASSUME NEW p \in surProjects, Unpublish(p) PROVE surSites' \in [SiteName -> Rows]
    <3>0. PICK s \in Rows : s = surSites[p]
      BY <2>1
    <3>1. PICK i \in DOMAIN s : surSites' = [surSites EXCEPT ![p] = RemoveAt(s, i)]
      BY <2>4, <3>0 DEF Unpublish
    <3>2. i \in 1..Len(s)
      BY LenProperties DEF Rows
    <3>3. RemoveAt(s, i) \in Rows
      BY <3>2, RowsWithout
    <3>. QED BY <2>1, <3>1, <3>3
  <2>5. CASE \E p \in surProjects : Publish(p) \/ Unpublish(p)
    BY <2>1, <2>3, <2>4, <2>5 DEF Publish, Unpublish
  <2>6. CASE UNCHANGED surVars
    BY <2>1, <2>6 DEF surVars
  <2>. QED BY <2>2, <2>5, <2>6 DEF SiteURLsNext
<1>. QED BY <1>1, <1>2, PTL DEF SiteURLsSpec

\* Where the branch of a path starts.
LEMMA SigilPlace ==
    ASSUME NEW path \in Seq(Int)
    PROVE  SplitBranchSigil(path) \in 0..Len(path)
<1>. DEFINE at == {i \in DOMAIN path : path[i] < 0}
<1>1. DOMAIN path = 1..Len(path) /\ Len(path) \in Nat
  OBVIOUS
<1>2. at \in SUBSET Nat /\ at \subseteq 0..Len(path)
  BY <1>1
<1>3. SplitBranchSigil(path) = IF at = {} \/ 1 \in at THEN 0 ELSE Min(at)
  BY DEF SplitBranchSigil, Min
<1>. HIDE DEF at
<1>4. at # {} => Min(at) \in at
  BY <1>2, MinIs
<1>5. at # {} => Min(at) \in 0..Len(path)
  BY <1>2, <1>4
<1>6. 0 \in 0..Len(path)
  BY <1>1
<1>. QED BY <1>3, <1>5, <1>6

\* What a ref names, unless it is ambiguous: nothing, or a site's file whose path has
\* no sigil and which the ref spells.
Named(u, p, ref) ==
    \/ Means(u) = Nowhere /\ Means(u).k = "missing"
    \/ \E b \in Seq(Int) \ {<<>>}, f \in Seq(Int) :
         /\ Means(u) = Place(p, b, f) /\ b \o f = ref
         /\ \A i \in 1..Len(f) : ~(f[i] < 0)

\* So it is with every ref.
LEMMA PlainlyNamed ==
    ASSUME SiteURLsTypeOK, NEW u, NEW p \in surProjects, NEW ref \in Seq(Int), ref # <<>>,
           Route(u) = [project |-> p, ref |-> ref, path |-> <<>>], ~Ambiguous(u)
    PROVE  Named(u, p, ref)
<1>1. Route(u).project = p /\ Route(u).ref = ref
  OBVIOUS
<1>2. Means(u) = SplitSiteBranch(p, ref)
  BY <1>1 DEF Means
<1>3. PICK m \in {Means(u)} : TRUE
  OBVIOUS
<1>4. m = SplitSiteBranch(p, ref)
  BY <1>2, <1>3
<1>5. \/ m.k # "file" /\ m = Nowhere
      \/ /\ m = Place(p, m.branch, m.path) /\ m.k = "file" /\ m.path \in Seq(Int)
         /\ RefNamesBranch(ref, m.branch) =>
              m.branch \in Seq(Int) \ {<<>>} /\ m.branch \o m.path = ref
  <2>1. Split(m, p, ref)
    BY <1>4, SplitSiteBranchIs
  <2>. QED BY <2>1 DEF Split
<1>6. CASE m = Nowhere
  <2>1. m.k = "missing"
    BY <1>6 DEF Nowhere
  <2>. QED BY <1>3, <1>6, <2>1 DEF Named
<1>7. CASE m = Place(p, m.branch, m.path) /\ m.k = "file" /\ m.path \in Seq(Int)
           /\ (RefNamesBranch(ref, m.branch) =>
                 m.branch \in Seq(Int) \ {<<>>} /\ m.branch \o m.path = ref)
  <2>1. /\ ~\E i \in DOMAIN m.path : m.path[i] < 0
        /\ RefNamesBranch(ref, m.branch)
    BY <1>1, <1>3, <1>7 DEF Ambiguous
  <2>2. DOMAIN m.path = 1..Len(m.path)
    BY <1>7
  <2>3. \A i \in 1..Len(m.path) : ~(m.path[i] < 0)
    BY <2>1, <2>2
  <2>4. m.branch \in Seq(Int) \ {<<>>} /\ m.branch \o m.path = ref
    BY <1>7, <2>1
  <2>. QED BY <1>3, <1>7, <2>3, <2>4 DEF Named
<1>. QED BY <1>5, <1>6, <1>7

\* Under the site domain a redirect is answered at once.
LEMMA SubdomainKept ==
    ASSUME SiteURLsTypeOK, NEW p \in surProjects, NEW path \in Seq(Int), path # <<>>,
           NEW u, u = [scheme |-> "sub", project |-> p, path |-> path], ~Ambiguous(u)
    PROVE  Means(Redirect(u)) = Means(u) /\ Redirect(Redirect(u)) = Redirect(u)
<1>1. u.scheme = "sub" /\ u.project = p /\ u.path = path
  OBVIOUS
<1>2. Route(u) = SubdomainRoute(u) /\ Redirect(u) = SubdomainRedirect(u)
  BY <1>1 DEF Route, Redirect
<1>3. CASE path[1] < 0
  <2>1. PICK ref \in Seq(Int) : ref = Sigil(path) /\ ref # <<>>
    BY SigilTwice
  <2>2. Route(u) = [project |-> p, ref |-> ref, path |-> <<>>]
    BY <1>1, <1>2, <1>3, <2>1 DEF SubdomainRoute
  <2>3. CASE Means(u).k = "missing"
    <3>1. Redirect(u) = u
      BY <1>1, <1>2, <2>3 DEF SubdomainRedirect
    <3>. QED BY <3>1
  <2>4. ASSUME NEW b \in Seq(Int) \ {<<>>}, NEW f \in Seq(Int),
               Means(u) = Place(p, b, f), b \o f = ref, \A i \in 1..Len(f) : ~(f[i] < 0)
        PROVE  Means(Redirect(u)) = Means(u) /\ Redirect(Redirect(u)) = Redirect(u)
    <3>1. Means(u).k = "file" /\ Means(u).project = p /\ Means(u).branch = b /\ Means(u).path = f
      BY <2>4 DEF Place
    <3>2. Redirect(u) = u \/ (Redirect(u) = [u EXCEPT !.path = f] /\ b = ResolveRootBranch(p))
      BY <1>1, <1>2, <3>1 DEF SubdomainRedirect
    <3>3. CASE Redirect(u) = u
      BY <3>3
    <3>4. CASE Redirect(u) = [u EXCEPT !.path = f] /\ b = ResolveRootBranch(p)
      <4>1. Redirect(u) = [scheme |-> "sub", project |-> p, path |-> f]
        BY <3>4
      <4>2. Means(Redirect(u)) = Place(p, ResolveRootBranch(p), f) /\ Redirect(Redirect(u)) = Redirect(u)
        BY <2>4, <4>1, BareSubdomain
      <4>. QED BY <2>4, <3>4, <4>2
    <3>. QED BY <3>2, <3>3, <3>4
  <2>5. Named(u, p, ref)
    BY <2>1, <2>2, PlainlyNamed
  <2>. QED BY <2>3, <2>4, <2>5 DEF Named
<1>4. CASE ~(path[1] < 0)
  <2>1. Route(u).ref = <<>>
    BY <1>1, <1>2, <1>4 DEF SubdomainRoute
  <2>2. Redirect(u) = u
    BY <1>1, <1>2, <2>1 DEF SubdomainRedirect
  <2>. QED BY <2>2
<1>. QED BY <1>3, <1>4

\* Routes alike, files alike, and as ambiguous.
LEMMA SameRoute ==
    ASSUME NEW u, NEW v, Route(v) = Route(u)
    PROVE  Means(v) = Means(u) /\ (Ambiguous(v) <=> Ambiguous(u))
<1>1. Means(v) = Means(u)
  BY DEF Means
<1>. QED BY <1>1 DEF Ambiguous

\* A redirect of any URL keeps the file.
LEMMA RedirectKept ==
    ASSUME SiteURLsTypeOK, NEW u \in SiteURL, ~Ambiguous(u)
    PROVE  \/ Redirect(u) = u
           \/ /\ Means(Redirect(u)) = Means(u)
              /\ Redirect(Redirect(Redirect(u))) = Redirect(Redirect(u))
              /\ Means(Redirect(Redirect(u))) = Means(u)
<1>. DEFINE Kept == \/ Redirect(u) = u
                    \/ /\ Means(Redirect(u)) = Means(u)
                       /\ Redirect(Redirect(Redirect(u))) = Redirect(Redirect(u))
                       /\ Means(Redirect(Redirect(u))) = Means(u)
<1>1. /\ u = [scheme |-> u.scheme, project |-> u.project, path |-> u.path]
      /\ u.path \in Seq(Int) /\ u.path # <<>>
      /\ \/ u.scheme = "apex" /\ u.project = <<>>
         \/ /\ u.scheme \in {"legacy", "tilde"} /\ u.project \in surProjects
            /\ \A i \in 1..Len(u.path) : u.path[i] \in Nat \ {0}
         \/ u.scheme = "sub" /\ u.project \in surProjects
  BY SiteURLShapes
<1>2. ASSUME Means(Redirect(u)) = Means(u) /\ Redirect(Redirect(u)) = Redirect(u) PROVE Kept
  BY <1>2
<1>3. CASE u.scheme = "sub" /\ u.project \in surProjects
  <2>1. PICK p \in surProjects, path \in Seq(Int) :
          path # <<>> /\ u = [scheme |-> "sub", project |-> p, path |-> path]
    BY <1>1, <1>3
  <2>2. Means(Redirect(u)) = Means(u) /\ Redirect(Redirect(u)) = Redirect(u)
    BY <2>1, SubdomainKept
  <2>. QED BY <1>2, <2>2
<1>4. CASE u.scheme = "tilde" /\ u.project \in surProjects /\ \A i \in 1..Len(u.path) : u.path[i] \in Nat \ {0}
  <2>1. PICK p \in surProjects, path \in Seq(Int) :
          /\ path # <<>> /\ u = [scheme |-> "tilde", project |-> p, path |-> path] /\ path[1] \in Nat \ {0}
    <3>1. 1 \in 1..Len(u.path)
      BY <1>1, EmptySeq
    <3>. QED BY <1>1, <1>4, <3>1
  <2>2. PICK s \in Seq(Int) : s = Sigil(path) /\ s # <<>> /\ s[1] = -path[1] /\ Sigil(s) = path
    BY <2>1, SigilTwice
  <2>3. PICK v \in {[scheme |-> "sub", project |-> p, path |-> s]} : TRUE
    OBVIOUS
  <2>4. Redirect(u) = v
    <3>1. u.scheme = "tilde" /\ u.path = path
      BY <2>1
    <3>2. Redirect(u) = SubdomainRedirect(u)
      BY <3>1 DEF Redirect
    <3>3. SubdomainRedirect(u) = [u EXCEPT !.scheme = "sub", !.path = Sigil(path)]
      BY <3>1 DEF SubdomainRedirect
    <3>. QED BY <2>1, <2>2, <2>3, <3>2, <3>3
  <2>5. Route(v) = [project |-> p, ref |-> path, path |-> <<>>]
    <3>1. v.scheme = "sub" /\ v.project = p /\ v.path = s /\ s[1] < 0
      BY <2>1, <2>2, <2>3
    <3>2. SubdomainRoute(v) = [project |-> p, ref |-> Sigil(s), path |-> <<>>]
      BY <2>2, <3>1 DEF SubdomainRoute
    <3>. QED BY <2>2, <3>1, <3>2 DEF Route
  <2>6. Route(u) = [project |-> p, ref |-> path, path |-> <<>>]
    BY <2>1 DEF Route
  <2>7. Means(v) = Means(u) /\ ~Ambiguous(v)
    BY <2>5, <2>6, SameRoute
  <2>8. Means(Redirect(v)) = Means(v) /\ Redirect(Redirect(v)) = Redirect(v)
    BY <2>2, <2>3, <2>7, SubdomainKept
  <2>. QED BY <2>4, <2>7, <2>8
<1>5. CASE u.scheme = "legacy" /\ u.project \in surProjects /\ \A i \in 1..Len(u.path) : u.path[i] \in Nat \ {0}
  <2>1. PICK p \in surProjects, path \in Seq(Int) :
          /\ path # <<>> /\ u = [scheme |-> "legacy", project |-> p, path |-> path]
          /\ \A i \in 1..Len(path) : path[i] \in Nat \ {0}
    BY <1>1, <1>5
  <2>2. u.scheme = "legacy"
    BY <2>1
  <2>3. Route(u) = [project |-> p, ref |-> path, path |-> <<>>]
    BY <2>1 DEF Route
  <2>4. CASE Means(u).k = "missing"
    BY <2>2, <2>4 DEF Redirect
  <2>5. ASSUME NEW b \in Seq(Int) \ {<<>>}, NEW f \in Seq(Int),
               Means(u) = Place(p, b, f), b \o f = path, \A i \in 1..Len(f) : ~(f[i] < 0)
        PROVE  Kept
    <3>1. Means(u).k = "file" /\ Means(u).project = p /\ Means(u).branch = b /\ Means(u).path = f
      BY <2>5 DEF Place
    <3>2. CASE b = ResolveRootBranch(p) /\ ApexAddresses(p, f)
      <4>1. Redirect(u) = [scheme |-> "apex", project |-> <<>>, path |-> p \o f]
        BY <2>2, <3>1, <3>2 DEF Redirect
      <4>2. Means(Redirect(u)) = Place(p, ResolveRootBranch(p), f) /\ Redirect(Redirect(u)) = Redirect(u)
        BY <2>5, <3>2, <4>1, BareApex
      <4>. QED BY <1>2, <2>5, <3>2, <4>2
    <3>3. CASE ~(b = ResolveRootBranch(p) /\ ApexAddresses(p, f))
      <4>1. PICK v \in {[scheme |-> "apex", project |-> <<>>, path |-> p \o Sigil(path)]} : v = Redirect(u)
        BY <2>2, <2>5, <3>1, <3>3 DEF Redirect
      <4>2. Route(v) = [project |-> p, ref |-> path, path |-> <<>>]
        BY <2>1, <4>1, SigilApex
      <4>3. Means(v) = Means(u)
        BY <2>3, <4>2, SameRoute
      <4>4. v.scheme = "apex" /\ Means(v).k = "file" /\ Means(v).project = p /\ Means(v).branch = b /\ Means(v).path = f
        BY <3>1, <4>1, <4>3
      <4>5. Redirect(v) = v
        BY <3>3, <4>4 DEF Redirect
      <4>. QED BY <1>2, <4>1, <4>3, <4>5
    <3>. QED BY <3>2, <3>3
  <2>6. Named(u, p, path)
    BY <2>1, <2>3, PlainlyNamed
  <2>. QED BY <2>4, <2>5, <2>6 DEF Named
<1>6. CASE u.scheme = "apex"
  <2>0. PICK path \in Seq(Int) : path = u.path /\ path # <<>>
    BY <1>1
  <2>1. PICK i \in 0..Len(path) : i = SplitBranchSigil(path)
    BY SigilPlace
  <2>2. i \in Nat /\ Len(path) \in Nat
    BY <2>1
  <2>3. CASE i = 0
    <3>1. ~(SplitBranchSigil(u.path) > 0)
      BY <2>0, <2>1, <2>3
    <3>2. Route(u).ref = <<>>
      BY <1>6, <3>1 DEF Route
    <3>. QED BY <1>6, <3>2 DEF Redirect
  <2>4. CASE i > 0
    <3>1. i - 1 \in 0..Len(path) /\ Len(path) - (i - 1) > 0
      BY <2>1, <2>2, <2>4
    <3>2. PICK p \in Seq(Int), s \in Seq(Int) : p = Upto(path, i - 1) /\ s = After(path, i - 1) /\ s # <<>>
      <4>1. /\ Upto(path, i - 1) \in Seq(Int) /\ After(path, i - 1) \in Seq(Int)
            /\ Len(After(path, i - 1)) = Len(path) - (i - 1)
        BY <3>1, UptoAfter
      <4>2. After(path, i - 1) # <<>>
        BY <3>1, <4>1, EmptySeq
      <4>. QED BY <4>1, <4>2
    <3>3. PICK ref \in Seq(Int) : ref = Sigil(s) /\ ref # <<>>
      BY <3>2, SigilTwice
    <3>4. Route(u) = [project |-> p, ref |-> ref, path |-> <<>>]
      BY <1>6, <2>0, <2>1, <2>4, <3>2, <3>3 DEF Route
    <3>5. CASE p \notin surProjects
      <4>1. Route(u).project = p
        BY <3>4
      <4>2. Means(u) = Nowhere
        BY <3>5, <4>1 DEF Means
      <4>3. Means(u).k = "missing"
        BY <4>2 DEF Nowhere
      <4>. QED BY <1>6, <4>3 DEF Redirect
    <3>6. CASE p \in surProjects
      <4>1. CASE Means(u).k = "missing"
        BY <1>6, <4>1 DEF Redirect
      <4>2. ASSUME NEW b \in Seq(Int) \ {<<>>}, NEW f \in Seq(Int),
                   Means(u) = Place(p, b, f), b \o f = ref, \A k \in 1..Len(f) : ~(f[k] < 0)
            PROVE  Kept
        <5>1. Means(u).k = "file" /\ Means(u).project = p /\ Means(u).branch = b /\ Means(u).path = f
          BY <4>2 DEF Place
        <5>2. CASE Redirect(u) = u
          BY <5>2
        <5>3. CASE /\ Redirect(u) = [scheme |-> "apex", project |-> <<>>, path |-> p \o f]
                   /\ b = ResolveRootBranch(p) /\ ApexAddresses(p, f)
          <6>1. Means(Redirect(u)) = Place(p, ResolveRootBranch(p), f) /\ Redirect(Redirect(u)) = Redirect(u)
            BY <3>6, <4>2, <5>3, BareApex
          <6>. QED BY <1>2, <4>2, <5>3, <6>1
        <5>4. \/ Redirect(u) = u
              \/ /\ Redirect(u) = [scheme |-> "apex", project |-> <<>>, path |-> p \o f]
                 /\ b = ResolveRootBranch(p) /\ ApexAddresses(p, f)
          BY <1>6, <5>1 DEF Redirect
        <5>. QED BY <5>2, <5>3, <5>4
      <4>3. Named(u, p, ref)
        BY <3>3, <3>4, <3>6, PlainlyNamed
      <4>. QED BY <4>1, <4>2, <4>3 DEF Named
    <3>. QED BY <3>5, <3>6
  <2>. QED BY <2>2, <2>3, <2>4
<1>. QED BY <1>1, <1>3, <1>4, <1>5, <1>6

\* Whatever is published, deleted or created, a redirect of a site's URL leads to the
\* same file and then to an answer, for any names of projects and branches, however
\* they extend one another, and URLs of any length (Serve, RedirectLegacyBranch,
\* ServeSubdomain, canonicalURLFor, apexURLFor).
THEOREM RedirectsReachTheFile == SiteURLsSpec => []RedirectsKeepTheFile /\ ChangesKeepRedirects
<1>1. ASSUME SiteURLsTypeOK PROVE RedirectsKeepTheFile
  <2>1. ASSUME NEW u \in SiteURL
        PROVE  Ambiguous(u) \/ \E v \in {Redirect(u)} :
                 v = u \/ /\ Means(v) = Means(u)
                          /\ \E w \in {Redirect(v)} : Redirect(w) = w /\ Means(w) = Means(u)
    BY <1>1, RedirectKept
  <2>. QED BY <1>1, <2>1 DEF RedirectsKeepTheFile
<1>2. SiteURLsTypeOK => RedirectsKeepTheFile
  BY <1>1
<1>3. RedirectsKeepTheFile => [surVars' # surVars => RedirectsKeepTheFile]_surVars
  OBVIOUS
<1>4. []RedirectsKeepTheFile => ChangesKeepRedirects
  BY <1>3, PTL DEF ChangesKeepRedirects
<1>. QED BY <1>2, <1>4, SiteTables, PTL
=============================================================================
