----------------------------- MODULE OCIUpload -----------------------------
(***************************************************************************)
(* Pushing a layer to the OCI registry: the chunked upload of ociclient    *)
(* against the upload sessions of internal/oci.                            *)
(*                                                                         *)
(* A session lives in memory, with a temp file and a running hash; it is   *)
(* dropped by an error, by its finalize, by a sweep of idle sessions and   *)
(* by a restart.  The client appends chunks at the offset the server last  *)
(* told it, asks for the committed size when an answer is lost, and starts *)
(* over when the session is gone.  A request the client gave up on may     *)
(* still arrive, late.  A chunk is two units, so that half a chunk can     *)
(* land.                                                                   *)
(***************************************************************************)
EXTENDS Integers, Sequences, FiniteSets

CONSTANTS
    OciSize,         \* units of the blob
    OciTries,        \* retryAttempts
    OciSession,      \* upload sessions, in the order they are opened: 1..n
    OciSlot,         \* requests under way at once
    NoOci

ASSUME OciSizes == OciSize \in Nat \ {0} /\ OciTries \in Nat \ {0} /\ 1 \in OciSession /\ OciSession \subseteq Nat

OciChunk == 2

\* A session of the store, and a request.
RegistrySession == [known : BOOLEAN, open : BOOLEAN, bytes : Seq(Nat), idle : BOOLEAN]
RegistryRequest ==
    [op : {"post", "patch", "status", "put"}, s : OciSession \cup {0}, from : Nat, n : Nat,
     pc : {"sent", "have", "drop", "sweep", "finalize", "link", "reply"}, code : Nat,
     told : Nat \cup SUBSET OciSession]

ASSUME NoOciAssumption == NoOci \notin OciSlot \cup RegistrySession \cup RegistryRequest

VARIABLES
    ocSess,     \* the sessions: whether the store knows it, its file is open, the bytes, idle for long
    ocReq,      \* the requests
    ocPush,     \* the client: its step and its locals
    ocLinked,   \* oci_blob_links: the project has the blob
    ocElse,     \* another project the caller may read has the blob
    ocOther,    \* the sessions a sweep of another upload found idle
    ocStored    \* the bytes stored under the blob's digest

ocVars == <<ocSess, ocReq, ocPush, ocLinked, ocElse, ocOther, ocStored>>

Unit  == 1..OciSize
Whole == [i \in Unit |-> i]
Fresh(s) == ocSess[s] = NoOci
Known == {s \in OciSession : ~Fresh(s) /\ ocSess[s].known}

NewPush == [at |-> "head", sess |-> 0, off |-> 0, fails |-> 0, drops |-> 0, asks |-> 0, req |-> NoOci]

OciInit ==
    /\ ocSess = [s \in OciSession |-> NoOci]
    /\ ocReq = [q \in OciSlot |-> NoOci]
    /\ ocPush = NewPush
    /\ ocLinked = FALSE
    /\ ocElse \in BOOLEAN
    /\ ocOther = {}
    /\ ocStored = NoOci

----------------------------------------------------------------------------
(* The store of upload sessions.                                           *)

\* remove: out of the table, the file closed and deleted.  It does not take the
\* session's mutex.
Removed(s) == ocSess' = [ocSess EXCEPT ![s].known = FALSE, ![s].open = FALSE]

\* The sessions a sweep found idle are removed.
Swept(found) == [s \in OciSession |-> IF s \in found THEN [ocSess[s] EXCEPT !.known = FALSE, !.open = FALSE]
                                     ELSE ocSess[s]]

\* Mutant: a chunk is appended wherever it was to start.
AppendChunkAnywhere(sess, from, n) ==
    IF ~sess.open /\ n > 0 THEN [code |-> 400, sess |-> sess]
    ELSE [code |-> 202, sess |-> [sess EXCEPT !.bytes = @ \o [i \in 1..n |-> from + i], !.idle = FALSE]]

\* appendChunkAt of n units, under the session's mutex: 416 unless it starts
\* where the session ends, an error if the file was closed.
AppendChunkAt(sess, from, n) ==
    IF from # Len(sess.bytes) THEN [code |-> 416, sess |-> [sess EXCEPT !.idle = FALSE]]
    ELSE IF ~sess.open /\ n > 0 THEN [code |-> 400, sess |-> sess]
    ELSE [code |-> 202, sess |-> [sess EXCEPT !.bytes = @ \o [i \in 1..n |-> from + i], !.idle = FALSE]]

----------------------------------------------------------------------------
(* The handlers.  A request is [op, s, from, n, pc, code, told].           *)

Req(q)     == ocReq[q]
At(q, pc)  == ocReq[q] # NoOci /\ ocReq[q].pc = pc
Reply(q, code, told) == ocReq' = [ocReq EXCEPT ![q].pc = "reply", ![q].code = code, ![q].told = told]
Onto(q, pc) == ocReq' = [ocReq EXCEPT ![q].pc = pc]

\* uploads.get.
FindSession(q) ==
    /\ At(q, "sent") /\ Req(q).op # "post"
    /\ IF Req(q).s \in Known THEN Onto(q, "have") ELSE Reply(q, 404, 0)
    /\ UNCHANGED <<ocSess, ocPush, ocLinked, ocElse, ocOther, ocStored>>

\* PatchBlobUpload: all of the chunk, or the part that arrived before the
\* connection or the disk failed; then the session is removed.
PatchBlobUpload(q) ==
    /\ At(q, "have") /\ Req(q).op = "patch"
    /\ \E n \in 0..Req(q).n :
         LET r == AppendChunkAt(ocSess[Req(q).s], Req(q).from, n)
         IN  /\ ocSess' = [ocSess EXCEPT ![Req(q).s] = r.sess]
             /\ IF r.code = 416 \/ (r.code = 202 /\ n = Req(q).n)
                THEN Reply(q, r.code, Len(r.sess.bytes)) ELSE Onto(q, "drop")
    /\ UNCHANGED <<ocPush, ocLinked, ocElse, ocOther, ocStored>>

\* The error path of PatchBlobUpload and PutBlobUpload, after the unlock.
DropSession(q) ==
    /\ At(q, "drop")
    /\ Removed(Req(q).s)
    /\ Reply(q, 400, 0)
    /\ UNCHANGED <<ocPush, ocLinked, ocElse, ocOther, ocStored>>

\* GetBlobUploadStatus.
GetBlobUploadStatus(q) ==
    /\ At(q, "have") /\ Req(q).op = "status"
    /\ ocSess' = [ocSess EXCEPT ![Req(q).s].idle = FALSE]
    /\ Reply(q, 204, Len(ocSess[Req(q).s].bytes))
    /\ UNCHANGED <<ocPush, ocLinked, ocElse, ocOther, ocStored>>

\* PutBlobUpload appends its body, if it has one.
PutBody(q) ==
    /\ At(q, "have") /\ Req(q).op = "put"
    /\ \E n \in 0..Req(q).n :
         LET r == AppendChunkAt(ocSess[Req(q).s], Len(ocSess[Req(q).s].bytes), n)
         IN  /\ ocSess' = [ocSess EXCEPT ![Req(q).s] = r.sess]
             /\ Onto(q, IF r.code = 202 /\ n = Req(q).n THEN "finalize" ELSE "drop")
    /\ UNCHANGED <<ocPush, ocLinked, ocElse, ocOther, ocStored>>

\* finalize: the hash of what was appended is the digest, or the upload fails;
\* the session is removed before the mutex is free.
Finalize(q) ==
    LET sess == ocSess[Req(q).s]
    IN  /\ At(q, "finalize")
        /\ Removed(Req(q).s)
        /\ \/ /\ sess.bytes = Whole /\ sess.open
              /\ ocStored' = sess.bytes
              /\ Onto(q, "link")
           \/ /\ Reply(q, 400, 0)
              /\ UNCHANGED ocStored
        /\ UNCHANGED <<ocPush, ocLinked, ocElse, ocOther>>

\* LinkOCIBlob, or a database that fails.
LinkBlob(q) ==
    /\ At(q, "link")
    /\ \/ ocLinked' = TRUE /\ Reply(q, 201, 0)
       \/ UNCHANGED ocLinked /\ Reply(q, 500, 0)
    /\ UNCHANGED <<ocSess, ocPush, ocElse, ocOther, ocStored>>

\* StartBlobUpload: a blob another project has is mounted (mountBlob); else start
\* looks for the idle sessions, each under its mutex...
StartBlobUpload(q) ==
    /\ At(q, "sent") /\ Req(q).op = "post"
    /\ \/ /\ Req(q).n = 1 /\ ocElse
          /\ ocLinked' = TRUE
          /\ Reply(q, 201, 0)
       \/ /\ Req(q).n = 0 \/ ~ocElse
          /\ ocReq' = [ocReq EXCEPT ![q].pc = "sweep", ![q].told = {s \in Known : ocSess[s].idle}]
          /\ UNCHANGED ocLinked
    /\ UNCHANGED <<ocSess, ocPush, ocElse, ocOther, ocStored>>

\* ... removes those it found, and opens a session.
OpenRegistrySession(q) ==
    LET new == {s \in OciSession : Fresh(s) /\ \A t \in OciSession : Fresh(t) => s <= t}
    IN  /\ At(q, "sweep")
        /\ \/ \E s \in new :
                /\ ocSess' = [Swept(Req(q).told) EXCEPT ![s] = [known |-> TRUE, open |-> TRUE, bytes |-> << >>, idle |-> FALSE]]
                /\ Reply(q, 202, s)
           \/ ocSess' = Swept(Req(q).told) /\ Reply(q, 500, 0)
        /\ UNCHANGED <<ocPush, ocLinked, ocElse, ocOther, ocStored>>

----------------------------------------------------------------------------
(* The client.                                                             *)

\* Pusher.do.
Send(op, from, n) ==
    \E q \in OciSlot :
        /\ ocReq[q] = NoOci /\ \A p \in OciSlot : ocReq[p] = NoOci => q <= p
        /\ ocReq' = [ocReq EXCEPT ![q] = [op |-> op, s |-> ocPush.sess, from |-> from, n |-> n,
                                          pc |-> "sent", code |-> 0, told |-> 0]]
        /\ ocPush' = [ocPush EXCEPT !.req = q, !.at = op]

\* pushBlob asks for the blob first (blobExists), then opens a session that may
\* mount it.
HeadBlob ==
    /\ ocPush.at = "head"
    /\ ocPush' = [ocPush EXCEPT !.at = IF ocLinked THEN "done" ELSE "start"]
    /\ UNCHANGED <<ocSess, ocReq, ocLinked, ocElse, ocOther, ocStored>>

\* startSession: the first session asks for a mount.
StartSession ==
    /\ ocPush.at = "start"
    /\ Send("post", 0, IF ocPush.drops = 0 THEN 1 ELSE 0)
    /\ UNCHANGED <<ocSess, ocLinked, ocElse, ocOther, ocStored>>

\* uploadChunks: the next chunk, or the finalize.  A blob of one chunk is the
\* body of its finalize (putSessionBlob).
NextChunk ==
    /\ ocPush.at = "next"
    /\ IF OciSize <= OciChunk THEN Send("put", 0, OciSize)
       ELSE IF ocPush.off < OciSize
       THEN Send("patch", ocPush.off, IF OciSize - ocPush.off < OciChunk THEN OciSize - ocPush.off ELSE OciChunk)
       ELSE Send("put", 0, 0)
    /\ UNCHANGED <<ocSess, ocLinked, ocElse, ocOther, ocStored>>

\* sessionStatus.
AskStatus ==
    /\ ocPush.at = "ask"
    /\ Send("status", 0, 0)
    /\ UNCHANGED <<ocSess, ocLinked, ocElse, ocOther, ocStored>>

\* What uploadChunks does with a committed size: no progress is counted.
Advance(committed) ==
    LET fails == IF committed <= ocPush.off THEN ocPush.fails + 1 ELSE 0
    IN  [ocPush EXCEPT !.at = IF fails >= OciTries THEN "failed" ELSE "next",
                       !.off = committed, !.fails = fails, !.asks = 0, !.req = NoOci]

\* pushBlobChunked on errSessionGone.
SessionGone ==
    [ocPush EXCEPT !.at = IF OciSize > OciChunk /\ ocPush.drops + 1 < OciTries THEN "start" ELSE "failed",
                   !.drops = @ + 1, !.off = 0, !.fails = 0, !.asks = 0, !.req = NoOci]

\* An attempt at a session or a status that failed, up to retryAttempts.
AskAgain(at) ==
    [ocPush EXCEPT !.at = IF ocPush.asks + 1 < OciTries THEN at ELSE "failed", !.asks = @ + 1, !.req = NoOci]

Settle(at) == [ocPush EXCEPT !.at = at, !.asks = 0, !.req = NoOci]

\* startSession, patchChunk, sessionStatus and the finalize read an answer.
Answered(r) ==
    IF r.op \in {"post", "put"} /\ r.code = 201 THEN Settle("done")
    ELSE IF r.op = "post" /\ r.code = 202 THEN [ocPush EXCEPT !.sess = r.told, !.at = "next", !.asks = 0, !.req = NoOci]
    ELSE IF r.op = "post" /\ r.code = 500 THEN AskAgain("start")
    ELSE IF (r.op = "patch" /\ r.code \in {202, 416}) \/ (r.op = "status" /\ r.code = 204) THEN Advance(r.told)
    ELSE IF r.op # "post" /\ r.code = 404 THEN SessionGone
    ELSE Settle("failed")

ReadReply ==
    /\ ocPush.req # NoOci
    /\ Req(ocPush.req).pc = "reply"
    /\ ocPush' = Answered(Req(ocPush.req))
    /\ ocReq' = [ocReq EXCEPT ![ocPush.req] = NoOci]
    /\ UNCHANGED <<ocSess, ocLinked, ocElse, ocOther, ocStored>>

\* What they do without an answer.
Unanswered ==
    IF ocPush.at = "patch" THEN Settle("ask")
    ELSE IF ocPush.at = "post" THEN AskAgain("start")
    ELSE IF ocPush.at = "status" THEN AskAgain("ask")
    ELSE Settle("failed")

\* The connection fails: the request, or its answer, may be lost or late.
LoseReply ==
    /\ ocPush.req # NoOci
    /\ ocPush' = Unanswered
    /\ ocReq' = IF Req(ocPush.req).pc = "reply" THEN [ocReq EXCEPT ![ocPush.req] = NoOci] ELSE ocReq
    /\ UNCHANGED <<ocSess, ocLinked, ocElse, ocOther, ocStored>>

----------------------------------------------------------------------------
(* The network, time and the process.                                      *)

\* A request nobody waits for is lost on its way...
LoseRequest(q) ==
    /\ ocPush.req # q
    /\ At(q, "sent")
    /\ ocReq' = [ocReq EXCEPT ![q] = NoOci]
    /\ UNCHANGED <<ocSess, ocPush, ocLinked, ocElse, ocOther, ocStored>>

\* ... or answered for nobody.
AnswerNobody(q) ==
    /\ ocPush.req # q
    /\ At(q, "reply")
    /\ ocReq' = [ocReq EXCEPT ![q] = NoOci]
    /\ UNCHANGED <<ocSess, ocPush, ocLinked, ocElse, ocOther, ocStored>>

\* Another client starts an upload, in any project: the store is one, and its
\* sweep finds the idle sessions, and removes them later.
OtherFinds ==
    /\ ocOther = {} /\ ocOther' = {s \in Known : ocSess[s].idle}
    /\ UNCHANGED <<ocSess, ocReq, ocPush, ocLinked, ocElse, ocStored>>

OtherRemoves ==
    /\ ocOther # {} /\ ocOther' = {}
    /\ ocSess' = Swept(ocOther)
    /\ UNCHANGED <<ocReq, ocPush, ocLinked, ocElse, ocStored>>

\* Two hours pass for a session.
SessionIdles(s) ==
    /\ s \in Known /\ ~ocSess[s].idle
    /\ ocSess' = [ocSess EXCEPT ![s].idle = TRUE]
    /\ UNCHANGED <<ocReq, ocPush, ocLinked, ocElse, ocOther, ocStored>>

\* The process restarts: sessions and requests are gone, blobs and rows stay.
RestartRegistry ==
    /\ Known # {}
    /\ ocSess' = Swept({s \in OciSession : ~Fresh(s)})
    /\ ocReq' = [q \in OciSlot |-> NoOci]
    /\ ocPush' = IF ocPush.req = NoOci THEN ocPush ELSE Unanswered
    /\ ocOther' = {}
    /\ UNCHANGED <<ocLinked, ocElse, ocStored>>

Serves(q) == \/ FindSession(q) \/ PatchBlobUpload(q) \/ DropSession(q) \/ GetBlobUploadStatus(q)
             \/ PutBody(q) \/ Finalize(q) \/ LinkBlob(q) \/ StartBlobUpload(q) \/ OpenRegistrySession(q) \/ AnswerNobody(q)

Pushes == HeadBlob \/ StartSession \/ NextChunk \/ AskStatus \/ ReadReply

OciNext ==
    \/ Pushes \/ LoseReply \/ OtherFinds \/ OtherRemoves \/ RestartRegistry
    \/ \E q \in OciSlot : Serves(q) \/ LoseRequest(q)
    \/ \E s \in OciSession : SessionIdles(s)

\* The handlers run, and the client goes on when it has an answer.
OciFairness == WF_ocVars(Pushes) /\ \A q \in OciSlot : WF_ocVars(Serves(q))

OciSpec == OciInit /\ [][OciNext]_ocVars
FairOciSpec == OciSpec /\ OciFairness

----------------------------------------------------------------------------
(* Properties.                                                             *)

\* Every session, request and local of a push has its type.
OciTypeOK ==
    /\ \A s \in OciSession : ~Fresh(s) =>
          /\ ocSess[s].known \in BOOLEAN /\ ocSess[s].open \in BOOLEAN /\ ocSess[s].idle \in BOOLEAN
          /\ \A i \in DOMAIN ocSess[s].bytes : ocSess[s].bytes[i] \in Unit
    /\ \A q \in OciSlot : ocReq[q] = NoOci
          \/ /\ ocReq[q].pc \in {"sent", "have", "drop", "sweep", "finalize", "link", "reply"}
             /\ ocReq[q].op \in {"post", "patch", "status", "put"}
    /\ ocPush.at \in {"head", "start", "next", "ask", "post", "patch", "status", "put", "done", "failed"}
    /\ ocPush.off \in 0..OciSize /\ ocPush.fails \in 0..OciTries /\ ocPush.asks \in 0..OciTries
    /\ ocLinked \in BOOLEAN /\ ocElse \in BOOLEAN /\ ocOther \subseteq OciSession
    /\ ocStored \in {NoOci, Whole}

\* Whatever is repeated, late or cut off, the bytes of a session are a prefix of
\* the blob (appendChunkAt's offset check), so that the finalize of a push that
\* saw every byte committed meets the digest.
SessionIsPrefix ==
    OciTypeOK /\ \A s \in OciSession : ~Fresh(s) => ocSess[s].bytes = SubSeq(Whole, 1, Len(ocSess[s].bytes))

\* Every push ends, with the blob or with an error: the chunk loop, the status
\* reads and the restarts of a session are each bounded (uploadChunks,
\* sessionStatus, pushBlobChunked).
PushEnds == <>(ocPush.at \in {"done", "failed"})

=============================================================================
