--------------------------- MODULE PublishClient ---------------------------
(***************************************************************************)
(* The publish command against the server: jobs of one CI run that each    *)
(* create the same version, upload the files of their manifest and publish *)
(* it, over a network that cuts requests short, loses answers and delivers *)
(* a chunk after its sender has given it up.                               *)
(*                                                                         *)
(* A file over the direct limit goes through an upload session in chunks;  *)
(* the client resumes from the size the server reports.  The session is    *)
(* what UploadSessions promises: the bytes of a prefix of the file, so the *)
(* prefix's length stands for it.  A file with the bytes of an earlier one *)
(* of the manifest is uploaded by its hash.                                *)
(***************************************************************************)
EXTENDS Integers, Sequences

CONSTANTS
    PubJob,     \* CI jobs that publish the version
    PubSlot,    \* the platforms artifacts are for
    PubBody,    \* the contents of the files
    LargeBody,  \* those longer than the direct limit
    DraftJob,   \* jobs run with --draft
    Manifest,   \* the artifacts of each job, as records of a slot and a body
    PubSize,    \* bytes of a large file
    PubChunk,   \* bytes of one chunk (64 MiB)
    PubTries,   \* retryAttempts (4)
    NoPub       \* an empty slot, no session, no chunk under way

ASSUME PubBounds == {PubSize, PubChunk, PubTries} \subseteq Nat \ {0}
ASSUME PubManifests ==
    /\ LargeBody \subseteq PubBody /\ DraftJob \subseteq PubJob /\ NoPub \notin PubBody
    /\ Manifest \in [PubJob -> Seq([slot : PubSlot, body : PubBody])]

\* No session and no chunk is none of the sizes and chunks there are.
ASSUME NoPubAssumption ==
    NoPub \notin 0..PubSize /\ NoPub \notin [offset : 0..PubSize, bytes : 1..PubChunk]

VARIABLES
    version,    \* the release row: "none", "open" or "published"
    shipped,    \* artifacts: slot to body
    upload,     \* server: bytes of each job's upload session, NoPub without one
    overdue,    \* the chunk of each job the network may still deliver
    job         \* the client: its next step and its counters

pubVars == <<version, shipped, upload, overdue, job>>

PubLabels == {"create", "item", "hashref", "direct", "session", "send", "ask", "finalize",
              "record", "abort", "publish", "mark", "ok", "failed"}

\* byHash: the server advertises hash references.  sent: blobs uploaded so far.
NewJob(byHash) == [at |-> "create", byHash |-> byHash, item |-> 1, sent |-> {},
                   offset |-> 0, failures |-> 0, asks |-> 0]

Item(j) == Manifest[j][job[j].item]

JobTo(j, label) == job' = [job EXCEPT ![j].at = label]

\* The command stops with an error; what it did on the server stays.
JobStops(j) == JobTo(j, "failed")

(***************************************************************************)
(* The server's upload session (UploadSessions)                            *)
(***************************************************************************)

\* Append commits `landed' bytes of a chunk at its offset, none at another one.
AppendTo(j, offset, landed) ==
    upload' = [upload EXCEPT ![j] = IF @ = offset THEN @ + landed ELSE @]

\* The proxy delivers a chunk whose sender has gone on.
DeliverOverdue(j) ==
    /\ overdue[j] # NoPub
    /\ AppendTo(j, overdue[j].offset, overdue[j].bytes)
    /\ overdue' = [overdue EXCEPT ![j] = NoPub]
    /\ UNCHANGED <<version, shipped, job>>

\* The sweep of expired sessions, or a restart of the server.
LoseSessions ==
    /\ upload' = [j \in PubJob |-> NoPub]
    /\ UNCHANGED <<version, shipped, overdue, job>>

(***************************************************************************)
(* The command                                                             *)
(***************************************************************************)

\* createdRelease takes 201 and 409 alike: another job may have been first.
CreateVersion(j) ==
    /\ job[j].at = "create"
    /\ version' = IF version = "none" THEN "open" ELSE version
    /\ JobTo(j, "item") \/ JobStops(j)
    /\ UNCHANGED <<shipped, upload, overdue>>

\* The next artifact of the manifest, or the end of it.
NextItem(j) ==
    /\ job[j].at = "item"
    /\ JobTo(j, IF job[j].item > Len(Manifest[j]) THEN "publish"
                ELSE IF job[j].byHash /\ Item(j).body \in job[j].sent THEN "hashref"
                ELSE IF Item(j).body \in LargeBody THEN "session" ELSE "direct")
    /\ UNCHANGED <<version, shipped, upload, overdue>>

ItemDone(j) ==
    job' = [job EXCEPT ![j].at = "item", ![j].item = @ + 1, ![j].sent = @ \cup {Item(j).body}]

\* Mutant: a conflict means the artifact is there already.
UploadByHashTolerant(j) ==
    /\ job[j].at = "hashref"
    /\ \/ /\ IF version # "published" /\ shipped[Item(j).slot] = NoPub
             THEN shipped' = [shipped EXCEPT ![Item(j).slot] = Item(j).body]
             ELSE UNCHANGED shipped
          /\ ItemDone(j)
       \/ JobStops(j) /\ UNCHANGED shipped
    /\ UNCHANGED <<version, upload, overdue>>

\* An empty request that names the blob.  201 registers it, a conflict stops the
\* command, anything else sends the bytes after all.
UploadByHash(j) ==
    /\ job[j].at = "hashref"
    /\ \/ /\ version # "published" /\ shipped[Item(j).slot] = NoPub
          /\ Item(j).body \in {shipped[s] : s \in PubSlot}
          /\ shipped' = [shipped EXCEPT ![Item(j).slot] = Item(j).body]
          /\ ItemDone(j) \/ JobStops(j)
       \/ /\ version = "published" \/ shipped[Item(j).slot] # NoPub
          /\ JobStops(j)
          /\ UNCHANGED shipped
       \/ /\ JobStops(j) \/ JobTo(j, IF Item(j).body \in LargeBody THEN "session" ELSE "direct")
          /\ UNCHANGED shipped
    /\ UNCHANGED <<version, upload, overdue>>

\* A small file: the server refuses a published release, then reads the body.
SendDirect(j) ==
    /\ job[j].at = "direct"
    /\ JobTo(j, IF version = "published" THEN "failed" ELSE "record") \/ JobStops(j)
    /\ UNCHANGED <<version, shipped, upload, overdue>>

OpenUploadSession(j) ==
    /\ job[j].at = "session"
    /\ \/ /\ upload' = [upload EXCEPT ![j] = 0]
          /\ job' = [job EXCEPT ![j].at = "send", ![j].offset = 0, ![j].failures = 0]
          /\ overdue' = [overdue EXCEPT ![j] = NoPub]
       \/ JobStops(j) /\ UNCHANGED <<upload, overdue>>
    /\ UNCHANGED <<version, shipped>>

\* Mutant: a chunk that was answered counts as sent, whatever size came back.
ResumeBlindly(j, newOffset) ==
    job' = [job EXCEPT
        ![j].offset = @ + PubChunk,
        ![j].asks = 0,
        ![j].at = IF job[j].offset + PubChunk < PubSize THEN "send" ELSE "finalize"]

\* sendChunks goes on from the size the server has, and counts the chunks in a
\* row that did not move it.
ResumeFrom(j, newOffset) ==
    LET stuck == newOffset <= job[j].offset
    IN  job' = [job EXCEPT
            ![j].offset = newOffset,
            ![j].asks = 0,
            ![j].failures = IF stuck THEN @ + 1 ELSE 0,
            ![j].at = IF stuck /\ job[j].failures + 1 >= PubTries THEN "abort"
                      ELSE IF newOffset >= PubSize THEN "finalize" ELSE "send"]

ChunkLength(offset) == IF PubSize - offset < PubChunk THEN PubSize - offset ELSE PubChunk

\* appendChunk: 200 and 409 carry the committed size; after a 5xx or a broken
\* connection, with part of the chunk landed or the rest of it still on its
\* way, the client asks for it; a 404 is the end.
SendChunk(j) ==
    /\ job[j].at = "send"
    /\ LET offset == job[j].offset
           length == ChunkLength(offset)
       IN  \/ /\ upload[j] # NoPub
              /\ AppendTo(j, offset, length)
              /\ ResumeFrom(j, upload'[j])
              /\ UNCHANGED <<overdue>>
           \/ /\ upload[j] = NoPub
              /\ JobTo(j, "abort")
              /\ UNCHANGED <<upload, overdue>>
           \/ /\ \E landed \in 0..length : AppendTo(j, offset, landed)
              /\ JobTo(j, "ask")
              /\ UNCHANGED overdue
           \/ /\ overdue' = [overdue EXCEPT ![j] = [offset |-> offset, bytes |-> length]]
              /\ JobTo(j, "ask")
              /\ UNCHANGED upload
    /\ UNCHANGED <<version, shipped>>

\* sessionSize tries a few times, a missing session included.
AskSize(j) ==
    /\ job[j].at = "ask"
    /\ \/ upload[j] # NoPub /\ ResumeFrom(j, upload[j])
       \/ job' = [job EXCEPT ![j].asks = @ + 1,
                             ![j].at = IF job[j].asks + 1 >= PubTries THEN "abort" ELSE "ask"]
    /\ UNCHANGED <<version, shipped, upload, overdue>>

\* The upload request again, empty, naming the session and the file's hash.  A
\* refusal (404, 400 for another hash, 409) ends the command and leaves the
\* session to expire; no answer at all aborts it.
FinalizeUpload(j) ==
    /\ job[j].at = "finalize"
    /\ \/ JobTo(j, IF upload[j] = PubSize /\ version # "published" THEN "record" ELSE "failed")
       \/ JobTo(j, "abort")
    /\ UNCHANGED <<version, shipped, upload, overdue>>

\* The endpoint has the body stored and inserts the row; a slot that is taken
\* is a conflict, and a session is consumed by success only.  The answer of a
\* row that was inserted may be lost.
RecordShipped(j) ==
    /\ job[j].at = "record"
    /\ IF shipped[Item(j).slot] = NoPub
       THEN /\ shipped' = [shipped EXCEPT ![Item(j).slot] = Item(j).body]
            /\ upload' = [upload EXCEPT ![j] = NoPub]
            /\ ItemDone(j) \/ JobTo(j, IF Item(j).body \in LargeBody THEN "abort" ELSE "failed")
       ELSE JobStops(j) /\ UNCHANGED <<shipped, upload>>
    /\ UNCHANGED <<version, overdue>>

\* abortSession: a delete nobody checks.
AbortSession(j) ==
    /\ job[j].at = "abort"
    /\ \/ upload' = [upload EXCEPT ![j] = NoPub]
       \/ UNCHANGED upload
    /\ JobStops(j)
    /\ UNCHANGED <<version, shipped, overdue>>

\* A draft stops here.  The publish endpoint refuses a published release and one
\* without artifacts, and marks it in a statement of its own.
PublishVersion(j) ==
    /\ job[j].at = "publish"
    /\ \/ j \in DraftJob /\ JobTo(j, "ok")
       \/ j \notin DraftJob /\ JobTo(j, IF version = "open" /\ \E s \in PubSlot : shipped[s] # NoPub THEN "mark" ELSE "failed")
       \/ j \notin DraftJob /\ JobStops(j)
    /\ UNCHANGED <<version, shipped, upload, overdue>>

MarkVersion(j) ==
    /\ job[j].at = "mark"
    /\ version' = "published"
    /\ JobTo(j, "ok") \/ JobStops(j)
    /\ UNCHANGED <<shipped, upload, overdue>>

PubInit ==
    /\ version = "none"
    /\ shipped = [s \in PubSlot |-> NoPub]
    /\ upload = [j \in PubJob |-> NoPub]
    /\ overdue = [j \in PubJob |-> NoPub]
    /\ \E byHash \in BOOLEAN : job = [j \in PubJob |-> NewJob(byHash)]

PubStep(j) ==
    \/ CreateVersion(j) \/ NextItem(j) \/ UploadByHash(j) \/ SendDirect(j) \/ OpenUploadSession(j)
    \/ SendChunk(j) \/ AskSize(j) \/ FinalizeUpload(j) \/ RecordShipped(j) \/ AbortSession(j)
    \/ PublishVersion(j) \/ MarkVersion(j)

PubNext == (\E j \in PubJob : PubStep(j) \/ DeliverOverdue(j)) \/ LoseSessions

PubSpec == PubInit /\ [][PubNext]_pubVars

\* The command is a sequential program with bounded waits: http.Client returns.
FairPubSpec == PubSpec /\ \A j \in PubJob : WF_pubVars(PubStep(j))

(***************************************************************************)
(* Properties                                                              *)
(***************************************************************************)

PubTypeOK ==
    /\ version \in {"none", "open", "published"}
    /\ shipped \in [PubSlot -> PubBody \cup {NoPub}]
    /\ upload \in [PubJob -> 0..PubSize \cup {NoPub}]
    /\ overdue \in [PubJob -> [offset : 0..PubSize, bytes : 1..PubChunk] \cup {NoPub}]
    /\ job \in [PubJob -> [at : PubLabels, byHash : BOOLEAN, item : Nat, sent : SUBSET PubBody,
                           offset : 0..PubSize, failures : 0..PubTries, asks : 0..PubTries]]

\* A publish that reports success left the version published (a draft: open or
\* published by another job) with every file of its manifest under its platform,
\* whatever the network lost or delivered twice and whichever other job wrote to
\* the version (runPublish).
SuccessIsShipped ==
    \A j \in PubJob : job[j].at = "ok" =>
        /\ j \notin DraftJob => version = "published"
        /\ \A i \in DOMAIN Manifest[j] : shipped[Manifest[j][i].slot] = Manifest[j][i].body

\* The client asks for the upload to be finalized only once the session holds
\* the whole file, or is gone: no chunk is skipped after a partial, a lost or a
\* late one (sendChunks, appendChunk, sessionSize).
FinalizesWhole ==
    PubTypeOK /\ \A j \in PubJob : job[j].at = "finalize" => upload[j] \in {PubSize, NoPub}

\* Every publish ends: a session that makes no progress is given up.
PublishesEnd == \A j \in PubJob : <>(job[j].at \in {"ok", "failed"})
=============================================================================
