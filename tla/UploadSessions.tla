--------------------------- MODULE UploadSessions ---------------------------
(***************************************************************************)
(* Chunked upload sessions: the in-memory session table, one spool file    *)
(* per session, and the handlers that create, append to, finalize, abort   *)
(* and sweep sessions concurrently.                                        *)
(*                                                                         *)
(* The store has one mutex over the table and each session one over its    *)
(* fields.  A critical section that cannot block inside is one step,       *)
(* enabled while the mutex is free.  Two can block: an append reads the    *)
(* request body with its session's mutex held, and a sweep waits for each  *)
(* session's mutex with the table's mutex held.  Those hold `storeLock'    *)
(* and `lock' over several steps.                                          *)
(*                                                                         *)
(* Every client of a session uploads the same file, whose bytes are        *)
(* 1, 2, ..., FileSize in that order: a chunk sent at an offset carries    *)
(* the bytes after it.  Requests are arbitrary: late, duplicated, at any   *)
(* offset, cut short, past the end of the file.                            *)
(***************************************************************************)
EXTENDS Integers, Sequences

CONSTANTS
    Session,    \* session ids; random, never handed out twice
    Handler,    \* concurrent requests and the janitor
    FileSize,   \* bytes of the file being uploaded
    MaxSize,    \* BUILDHOST_MAX_UPLOAD_SIZE
    MaxChunk,   \* longest request body of an append
    None        \* no session, no holder of a mutex

ASSUME SizesAssumption == FileSize \in Nat /\ MaxSize \in Nat /\ MaxChunk \in Nat
ASSUME NoneAssumption == None \notin Session \cup Handler

VARIABLES
    used,       \* session ids handed out so far
    sessions,   \* Store.sessions
    disk,       \* sessions whose spool file is linked in the spool directory
    spool,      \* the bytes of each spool file, also while it is only an open handle
    size,       \* Session.size, the committed bytes
    busy,       \* Session.busy, a finalize owns the spool
    closed,     \* Session.file = nil
    expired,    \* sessions older than the store's TTL
    storeLock,  \* holder of Store.mu
    lock,       \* holder of each Session.mu
    pc,         \* the next step of each handler
    op,         \* what it is doing
    target,     \* the session it got from the table
    off,        \* append: the offset in the request
    len,        \* append: the bytes the request body will deliver
    wrote,      \* append: the bytes written so far
    todo,       \* sweep: sessions still to look at
    stale,      \* sessions still to remove
    consumed,   \* history: endpoint runs over a session's spool that answered 2xx
    verified    \* history: what endpoints read from a spool whose sha256 matched

table  == <<used, sessions, disk, spool, size, busy, closed, expired>>
locals == <<pc, op, target, off, len, wrote, todo, stale>>
history == <<consumed, verified>>
vars   == <<table, storeLock, lock, locals, history>>

File == [i \in 1..FileSize |-> i]

Labels == {"idle", "sweep", "scan", "create", "insert", "get", "append", "copy", "finalize",
           "hash", "run", "runVerified", "end", "unmap", "unlink"}

(***************************************************************************)
(* Control                                                                 *)
(***************************************************************************)

Goto(h, label) ==
    /\ pc' = [pc EXCEPT ![h] = label]
    /\ UNCHANGED <<op, target, off, len, wrote, todo, stale>>

\* The handler answers.
Answer(h) ==
    /\ pc' = [pc EXCEPT ![h] = "idle"]
    /\ op' = [op EXCEPT ![h] = "none"]
    /\ target' = [target EXCEPT ![h] = None]
    /\ off' = [off EXCEPT ![h] = 0]
    /\ len' = [len EXCEPT ![h] = 0]
    /\ wrote' = [wrote EXCEPT ![h] = 0]
    /\ UNCHANGED <<todo, stale>>

Unlocked(s) == lock[s] = None

\* What follows a scan or a removal: the next removal of a sweep, the create the
\* sweep was for, or the answer.
AfterSweep(h) ==
    IF stale[h] # {} THEN Goto(h, "unmap")
    ELSE IF op[h] = "create" THEN Goto(h, "create") ELSE Answer(h)

(***************************************************************************)
(* SweepExpired                                                            *)
(***************************************************************************)

\* POST /api/v1/uploads sweeps before it creates; the janitor only sweeps.
BeginSweep(h) ==
    /\ pc[h] = "idle"
    /\ \E o \in {"create", "janitor"} : op' = [op EXCEPT ![h] = o]
    /\ pc' = [pc EXCEPT ![h] = "sweep"]
    /\ UNCHANGED <<table, storeLock, lock, target, off, len, wrote, todo, stale, history>>

SweepLock(h) ==
    /\ pc[h] = "sweep"
    /\ storeLock = None
    /\ storeLock' = h
    /\ todo' = [todo EXCEPT ![h] = sessions]
    /\ pc' = [pc EXCEPT ![h] = "scan"]
    /\ UNCHANGED <<table, lock, op, target, off, len, wrote, stale, history>>

\* Each session's mutex is taken for a moment, to read busy.
SweepScan(h) ==
    /\ pc[h] = "scan"
    /\ \E s \in todo[h] :
         /\ Unlocked(s)
         /\ todo' = [todo EXCEPT ![h] = @ \ {s}]
         /\ stale' = [stale EXCEPT ![h] = IF ~busy[s] /\ s \in expired THEN @ \cup {s} ELSE @]
    /\ UNCHANGED <<table, storeLock, lock, pc, op, target, off, len, wrote, history>>

\* Mutant: the stale sessions are removed with the table's mutex held.
SweepUnlockLate(h) ==
    /\ pc[h] = "scan" /\ todo[h] = {}
    /\ storeLock' = IF stale[h] = {} THEN None ELSE storeLock
    /\ AfterSweep(h)
    /\ UNCHANGED <<table, lock, history>>

SweepUnlock(h) ==
    /\ pc[h] = "scan" /\ todo[h] = {}
    /\ storeLock' = None
    /\ AfterSweep(h)
    /\ UNCHANGED <<table, lock, history>>

(***************************************************************************)
(* Create                                                                  *)
(***************************************************************************)

CreateSpool(h) ==
    /\ pc[h] = "create"
    /\ \E s \in Session \ used :
         /\ used' = used \cup {s}
         /\ disk' = disk \cup {s}
         /\ target' = [target EXCEPT ![h] = s]
    /\ pc' = [pc EXCEPT ![h] = "insert"]
    /\ UNCHANGED <<sessions, spool, size, busy, closed, expired, storeLock, lock, op, off, len,
                   wrote, todo, stale, history>>

\* No random bytes, or no file.
CreateFails(h) ==
    /\ pc[h] = "create"
    /\ Answer(h)
    /\ UNCHANGED <<table, storeLock, lock, history>>

CreateInsert(h) ==
    /\ pc[h] = "insert"
    /\ storeLock = None
    /\ sessions' = sessions \cup {target[h]}
    /\ Answer(h)
    /\ UNCHANGED <<used, disk, spool, size, busy, closed, expired, storeLock, lock, history>>

\* The TTL of a session passes.
Expire(s) ==
    /\ s \in used \ expired
    /\ expired' = expired \cup {s}
    /\ UNCHANGED <<used, sessions, disk, spool, size, busy, closed, storeLock, lock, locals, history>>

(***************************************************************************)
(* Append                                                                  *)
(***************************************************************************)

\* Get: the session must be in the table when the request looks it up, and
\* may leave it any time after.  The owner check is not modelled.
GetSession(h, o, label) ==
    /\ pc[h] = "idle"
    /\ storeLock = None
    /\ \E s \in sessions : target' = [target EXCEPT ![h] = s]
    /\ op' = [op EXCEPT ![h] = o]
    /\ pc' = [pc EXCEPT ![h] = label]
    /\ UNCHANGED <<table, storeLock, lock, wrote, todo, stale, history>>

GetForAppend(h) ==
    /\ GetSession(h, "append", "append")
    /\ \E o \in 0..MaxSize, n \in 0..MaxChunk :
         off' = [off EXCEPT ![h] = o] /\ len' = [len EXCEPT ![h] = n]
GetForFinalize(h) == GetSession(h, "finalize", "finalize") /\ UNCHANGED <<off, len>>
GetForAbort(h)    == GetSession(h, "abort", "unmap") /\ UNCHANGED <<off, len>>

\* Mutant: the offset is not compared with the committed size.
BeginAppendAnywhere(h) ==
    /\ pc[h] = "append" /\ Unlocked(target[h])
    /\ IF busy[target[h]]
       THEN Answer(h) /\ UNCHANGED lock
       ELSE lock' = [lock EXCEPT ![target[h]] = h] /\ Goto(h, "copy")
    /\ UNCHANGED <<table, storeLock, history>>

\* Mutant: an append does not look at busy.
BeginAppendBusy(h) ==
    /\ pc[h] = "append" /\ Unlocked(target[h])
    /\ IF off[h] # size[target[h]]
       THEN Answer(h) /\ UNCHANGED lock
       ELSE lock' = [lock EXCEPT ![target[h]] = h] /\ Goto(h, "copy")
    /\ UNCHANGED <<table, storeLock, history>>

\* A busy session and a wrong offset are refused with the committed size.
BeginAppend(h) ==
    /\ pc[h] = "append" /\ Unlocked(target[h])
    /\ IF busy[target[h]] \/ off[h] # size[target[h]]
       THEN Answer(h) /\ UNCHANGED lock
       ELSE lock' = [lock EXCEPT ![target[h]] = h] /\ Goto(h, "copy")
    /\ UNCHANGED <<table, storeLock, history>>

\* io.Copy through the capped reader: it delivers at most one byte over the
\* cap.  A write to a closed file fails.
CopyByte(h) ==
    /\ pc[h] = "copy"
    /\ wrote[h] < len[h] /\ size[target[h]] + wrote[h] <= MaxSize
    /\ target[h] \notin closed
    /\ spool' = [spool EXCEPT ![target[h]] = Append(@, off[h] + wrote[h] + 1)]
    /\ wrote' = [wrote EXCEPT ![h] = @ + 1]
    /\ UNCHANGED <<used, sessions, disk, size, busy, closed, expired, storeLock, lock, pc, op, target,
                   off, len, todo, stale, history>>

\* The body ended, was cut short, or went over the cap.  What landed is
\* committed, but a chunk over the cap is rolled back as a whole.
EndAppend(h) ==
    /\ pc[h] = "copy"
    /\ IF size[target[h]] + wrote[h] > MaxSize
       THEN /\ spool' = [spool EXCEPT ![target[h]] = SubSeq(@, 1, off[h])]
            /\ UNCHANGED size
       ELSE /\ size' = [size EXCEPT ![target[h]] = @ + wrote[h]]
            /\ UNCHANGED spool
    /\ lock' = [lock EXCEPT ![target[h]] = None]
    /\ Answer(h)
    /\ UNCHANGED <<used, sessions, disk, busy, closed, expired, storeLock, history>>

(***************************************************************************)
(* Finalize (ResolveSessionBody)                                           *)
(***************************************************************************)

\* The spool is opened by its path: a removed session cannot be finalized.
\* The sha256 of the request is optional.
BeginFinalize(h) ==
    /\ pc[h] = "finalize" /\ Unlocked(target[h])
    /\ IF busy[target[h]] \/ target[h] \notin disk
       THEN Answer(h) /\ UNCHANGED busy
       ELSE /\ busy' = [busy EXCEPT ![target[h]] = TRUE]
            /\ Goto(h, "hash") \/ Goto(h, "run")
    /\ UNCHANGED <<used, sessions, disk, spool, size, closed, expired, storeLock, lock, history>>

HashSpool(h) ==
    /\ pc[h] = "hash"
    /\ Goto(h, IF spool[target[h]] = File THEN "runVerified" ELSE "end")
    /\ UNCHANGED <<table, storeLock, lock, history>>

\* The upload endpoint reads the spool as its body.  A 2xx answer consumes the
\* session, any other keeps it.
RunEndpoint(h) ==
    /\ pc[h] \in {"run", "runVerified"}
    /\ verified' = IF pc[h] = "runVerified" THEN verified \cup {spool[target[h]]} ELSE verified
    /\ \/ Goto(h, "unmap") /\ consumed' = [consumed EXCEPT ![target[h]] = @ + 1]
       \/ Goto(h, "end") /\ UNCHANGED consumed
    /\ UNCHANGED <<table, storeLock, lock>>

EndFinalize(h) ==
    /\ pc[h] = "end" /\ Unlocked(target[h])
    /\ busy' = [busy EXCEPT ![target[h]] = FALSE]
    /\ Answer(h)
    /\ UNCHANGED <<used, sessions, disk, spool, size, closed, expired, storeLock, lock, history>>

(***************************************************************************)
(* Remove: an abort, a consumed session, or each session a sweep collected *)
(***************************************************************************)

\* A sweep takes the next session of its list.
RemoveUnmap(h) ==
    /\ pc[h] = "unmap"
    /\ storeLock = None
    /\ \E s \in IF op[h] \in {"create", "janitor"} THEN stale[h] ELSE {target[h]} :
         /\ sessions' = sessions \ {s}
         /\ target' = [target EXCEPT ![h] = s]
         /\ stale' = [stale EXCEPT ![h] = @ \ {s}]
    /\ pc' = [pc EXCEPT ![h] = "unlink"]
    /\ UNCHANGED <<used, disk, spool, size, busy, closed, expired, storeLock, lock, op, off, len,
                   wrote, todo, history>>

\* Mutant: the spool file of an expired session is left behind.
RemoveUnlinkKeepsFile(h) ==
    /\ pc[h] = "unlink" /\ Unlocked(target[h])
    /\ closed' = closed \cup {target[h]}
    /\ disk' = IF op[h] = "janitor" THEN disk ELSE disk \ {target[h]}
    /\ AfterSweep(h)
    /\ UNCHANGED <<used, sessions, spool, size, busy, expired, storeLock, lock, history>>

RemoveUnlink(h) ==
    /\ pc[h] = "unlink" /\ Unlocked(target[h])
    /\ closed' = closed \cup {target[h]}
    /\ disk' = disk \ {target[h]}
    /\ AfterSweep(h)
    /\ UNCHANGED <<used, sessions, spool, size, busy, expired, storeLock, lock, history>>

(***************************************************************************)
(* The server stops at any point.  The next one starts with an empty table *)
(* and NewStore deletes every spool file it finds.                         *)
(***************************************************************************)
Restart ==
    /\ sessions' = {} /\ disk' = {} /\ storeLock' = None
    /\ lock' = [s \in Session |-> None]
    /\ pc' = [h \in Handler |-> "idle"]
    /\ op' = [h \in Handler |-> "none"]
    /\ target' = [h \in Handler |-> None]
    /\ off' = [h \in Handler |-> 0]
    /\ len' = [h \in Handler |-> 0]
    /\ wrote' = [h \in Handler |-> 0]
    /\ todo' = [h \in Handler |-> {}]
    /\ stale' = [h \in Handler |-> {}]
    /\ UNCHANGED <<used, spool, size, busy, closed, expired, history>>

Init ==
    /\ used = {} /\ sessions = {} /\ disk = {} /\ closed = {} /\ expired = {} /\ verified = {}
    /\ spool = [s \in Session |-> <<>>]
    /\ size = [s \in Session |-> 0]
    /\ busy = [s \in Session |-> FALSE]
    /\ storeLock = None
    /\ lock = [s \in Session |-> None]
    /\ pc = [h \in Handler |-> "idle"]
    /\ op = [h \in Handler |-> "none"]
    /\ target = [h \in Handler |-> None]
    /\ off = [h \in Handler |-> 0]
    /\ len = [h \in Handler |-> 0]
    /\ wrote = [h \in Handler |-> 0]
    /\ todo = [h \in Handler |-> {}]
    /\ stale = [h \in Handler |-> {}]
    /\ consumed = [s \in Session |-> 0]

Begins(h) == BeginSweep(h) \/ GetForAppend(h) \/ GetForFinalize(h) \/ GetForAbort(h)
\* Steps that wait for a mutex.
Locking(h) ==
    \/ SweepLock(h) \/ SweepScan(h) \/ CreateInsert(h) \/ BeginAppend(h) \/ BeginFinalize(h)
    \/ EndFinalize(h) \/ RemoveUnmap(h) \/ RemoveUnlink(h)
\* Steps that do not.
Running(h) ==
    \/ SweepUnlock(h) \/ CreateSpool(h) \/ CreateFails(h) \/ CopyByte(h) \/ EndAppend(h)
    \/ HashSpool(h) \/ RunEndpoint(h)

Next ==
    \/ \E h \in Handler : Begins(h) \/ Locking(h) \/ Running(h)
    \/ \E s \in Session : Expire(s)
    \/ Restart

Spec == Init /\ [][Next]_vars

\* A handler that can run runs: the server's read timeout ends every request
\* body.  A Go mutex hands itself to a waiter that has starved, so a handler
\* whose mutex is free again and again gets it.
Fairness == \A h \in Handler : WF_vars(Running(h)) /\ SF_vars(Locking(h))
FairSpec == Spec /\ Fairness

(***************************************************************************)
(* Properties                                                              *)
(***************************************************************************)

\* Every variable has its type; no session grows past the cap.
TypeOK ==
    /\ sessions \subseteq used /\ disk \subseteq used /\ used \subseteq Session
    /\ closed \subseteq used /\ expired \subseteq used
    /\ spool \in [Session -> Seq(Nat)]
    /\ size \in [Session -> 0..MaxSize]
    /\ busy \in [Session -> BOOLEAN]
    /\ storeLock \in Handler \cup {None}
    /\ lock \in [Session -> Handler \cup {None}]
    /\ pc \in [Handler -> Labels]
    /\ op \in [Handler -> {"none", "create", "janitor", "append", "finalize", "abort"}]
    /\ target \in [Handler -> Session \cup {None}]
    /\ off \in [Handler -> 0..MaxSize]
    /\ len \in [Handler -> 0..MaxChunk]
    /\ wrote \in [Handler -> 0..MaxChunk]
    /\ todo \in [Handler -> SUBSET Session]
    /\ stale \in [Handler -> SUBSET Session]
    /\ consumed \in [Session -> Nat]
    /\ verified \in SUBSET Seq(Nat)

\* Whatever appends arrive, late, twice, cut short or at a wrong offset, a
\* spool no append is writing holds exactly the first `size' bytes of what is
\* being uploaded, in order, and no append takes a session past the cap (TypeOK).
SpoolIsPrefix ==
    /\ TypeOK
    /\ \A s \in sessions : Unlocked(s) =>
         Len(spool[s]) = size[s] /\ \A i \in 1..Len(spool[s]) : spool[s][i] = i

\* A finalize whose sha256 matched hands the endpoint the very bytes that were
\* hashed: nothing changes the spool in between, not even a removal, and racing
\* finalizes, aborts and sweeps never let two endpoint runs consume one session.
VerifiedIsFile == verified \subseteq {File} /\ \A s \in Session : consumed[s] <= 1

\* With no request in progress the spool directory holds the spools of the
\* live sessions and nothing else, also after aborts, sweeps and restarts.
NoSpoolLeak == (\A h \in Handler : pc[h] = "idle") => disk = sessions

\* Every request, create, sweep and removal ends: no handler waits forever for
\* a mutex, although a sweep holds the table's while it waits for a session's.
HandlersFinish == \A h \in Handler : pc[h] # "idle" ~> pc[h] = "idle"
=============================================================================
