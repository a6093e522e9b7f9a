------------------------ MODULE UploadSessionsProofs ------------------------
(***************************************************************************)
(* Proofs about UploadSessions, for any number of sessions and handlers,   *)
(* any file and any cap.                                                   *)
(*                                                                         *)
(* The invariant has one part per mechanism of the code: what a handler    *)
(* knows at each step (LocalsOK), what a session's mutex protects          *)
(* (LocksOK, PrefixOK), what busy protects (FinalsOK) and what the order   *)
(* of table and spool directory in Create and Remove keeps (FilesOK).      *)
(***************************************************************************)
EXTENDS UploadSessions, TLAPS

Sweeps     == {"create", "janitor"}
Targeting  == {"insert", "append", "copy", "finalize", "hash", "run", "runVerified", "end", "unlink"}
Writing    == {"insert", "append", "copy"}
Finalizing == {"hash", "run", "runVerified", "end"}

\* A handler targets, and a sweep lists, only sessions that were handed out.
LocalsOK ==
    \A h \in Handler :
        /\ target[h] \in used \cup {None} /\ todo[h] \subseteq used /\ stale[h] \subseteq used
        /\ pc[h] \in Targeting => target[h] \in Session
        /\ pc[h] = "unmap" => op[h] \in Sweeps \/ target[h] \in Session
        /\ pc[h] \in {"sweep", "scan"} => op[h] \in Sweeps
        /\ pc[h] # "copy" => wrote[h] = 0

\* An append in its copy holds its session's mutex, the only one that does, of
\* a session that is not busy and whose size is the offset it was sent for.
LocksOK ==
    /\ \A h \in Handler : pc[h] = "copy" =>
           lock[target[h]] = h /\ ~busy[target[h]] /\ off[h] = size[target[h]]
    /\ \A s \in Session : lock[s] # None => pc[lock[s]] = "copy" /\ target[lock[s]] = s

\* Sessions a request may still append to.  A restart leaves none.
Writable(s) == s \in sessions \/ \E h \in Handler : target[h] = s /\ pc[h] \in Writing

\* The bytes of an append under way, on top of the committed ones.
Extra(s) == IF lock[s] = None THEN 0 ELSE wrote[lock[s]]

\* Every spool is in order; one that can still be appended to holds the committed
\* bytes and those of the append under way.
PrefixOK ==
    \A s \in Session :
        /\ \A i \in 1..Len(spool[s]) : spool[s][i] = i
        /\ s \notin used => spool[s] = <<>> /\ size[s] = 0
        /\ Writable(s) => Len(spool[s]) = size[s] + Extra(s)

\* A session has at most one finalizer, which makes it busy, and none once it
\* is consumed: it is busy forever.
FinalsOK ==
    /\ verified \subseteq {File}
    /\ \A s \in Session : consumed[s] # 0 => consumed[s] = 1 /\ busy[s]
    /\ \A h \in Handler : pc[h] \in Finalizing => busy[target[h]] /\ consumed[target[h]] = 0
    /\ \A g, h \in Handler :
           pc[g] \in Finalizing /\ pc[h] \in Finalizing /\ target[g] = target[h] => g = h
    /\ \A h \in Handler : pc[h] = "runVerified" => spool[target[h]] = File

\* A session in the table has its file.  A file without an entry has a handler
\* that will insert the one or unlink the other, and nothing else knows a
\* session that is not inserted yet.
OnDisk   == sessions \subseteq disk
Owned    == \A s \in disk \ sessions : \E h \in Handler : target[h] = s /\ pc[h] \in {"insert", "unlink"}
Unmapped == \A h \in Handler : pc[h] = "unlink" => target[h] \notin sessions
Fresh    == \A h \in Handler : pc[h] = "insert" =>
                /\ target[h] \in disk \ sessions
                /\ \A g \in Handler : /\ target[h] \notin todo[g] \cup stale[g]
                                      /\ target[g] = target[h] => g = h
FilesOK  == OnDisk /\ Owned /\ Unmapped /\ Fresh

\* The inductive invariant.
IInv == TypeOK /\ LocalsOK /\ LocksOK /\ PrefixOK /\ FinalsOK /\ FilesOK

(***************************************************************************)
(* What a step of one handler does to the locals                           *)
(***************************************************************************)

\* The types of the handlers' locals.
LocalsType ==
    /\ pc \in [Handler -> Labels]
    /\ op \in [Handler -> {"none", "create", "janitor", "append", "finalize", "abort"}]
    /\ target \in [Handler -> Session \cup {None}]
    /\ off \in [Handler -> 0..MaxSize]
    /\ len \in [Handler -> 0..MaxChunk]
    /\ wrote \in [Handler -> 0..MaxChunk]
    /\ todo \in [Handler -> SUBSET Session]
    /\ stale \in [Handler -> SUBSET Session]

\* The types of what the handlers share.
TableType ==
    /\ sessions \subseteq used /\ disk \subseteq used /\ used \subseteq Session
    /\ closed \subseteq used /\ expired \subseteq used
    /\ spool \in [Session -> Seq(Nat)]
    /\ size \in [Session -> 0..MaxSize]
    /\ busy \in [Session -> BOOLEAN]
    /\ storeLock \in Handler \cup {None}
    /\ lock \in [Session -> Handler \cup {None}]
    /\ consumed \in [Session -> Nat]
    /\ verified \in SUBSET Seq(Nat)

\* The type invariant is that of the locals and that of the table, now and after a step.
LEMMA TypeSplit == TypeOK <=> LocalsType /\ TableType
BY DEF TypeOK, LocalsType, TableType

\* The same of the next state.
LEMMA TypeSplitNext == TypeOK' <=> LocalsType' /\ TableType'
BY DEF TypeOK, LocalsType, TableType

\* The other handlers stay where they are.
Alone(h) ==
    \A g \in Handler \ {h} :
        /\ pc'[g] = pc[g] /\ op'[g] = op[g] /\ target'[g] = target[g] /\ off'[g] = off[g]
        /\ len'[g] = len[g] /\ wrote'[g] = wrote[g] /\ todo'[g] = todo[g] /\ stale'[g] = stale[g]

\* Goto moves one handler and nothing else of it.
LEMMA GotoFacts ==
    ASSUME LocalsType, NEW h \in Handler, NEW label \in Labels, Goto(h, label)
    PROVE  /\ LocalsType' /\ Alone(h) /\ pc'[h] = label /\ op'[h] = op[h] /\ target'[h] = target[h]
           /\ off'[h] = off[h] /\ wrote'[h] = wrote[h] /\ todo'[h] = todo[h] /\ stale'[h] = stale[h]
BY DEF LocalsType, Goto, Alone

\* An answer resets the handler.
LEMMA AnswerFacts ==
    ASSUME LocalsType, NEW h \in Handler, Answer(h)
    PROVE  /\ LocalsType' /\ Alone(h) /\ pc'[h] = "idle" /\ target'[h] = None /\ wrote'[h] = 0
           /\ todo'[h] = todo[h] /\ stale'[h] = stale[h]
BY SizesAssumption DEF LocalsType, Answer, Alone, Labels

\* After a scan or a removal the sweep goes on, or the handler is done.
LEMMA AfterSweepFacts ==
    ASSUME LocalsType, NEW h \in Handler, AfterSweep(h)
    PROVE  /\ LocalsType' /\ Alone(h) /\ pc'[h] \in {"unmap", "create", "idle"}
           /\ pc'[h] = "unmap" => op'[h] = op[h] /\ target'[h] = target[h]
           /\ target'[h] \in {None, target[h]}
           /\ wrote'[h] \in {0, wrote[h]} /\ todo'[h] = todo[h] /\ stale'[h] = stale[h]
<1>1. CASE stale[h] # {}
  BY <1>1, GotoFacts DEF AfterSweep, Labels
<1>2. CASE stale[h] = {} /\ op[h] = "create"
  BY <1>2, GotoFacts DEF AfterSweep, Labels
<1>3. CASE stale[h] = {} /\ op[h] # "create"
  BY <1>3, AnswerFacts DEF AfterSweep
<1>. QED BY <1>1, <1>2, <1>3

(***************************************************************************)
(* What a step of one handler preserves when it stays out of the way       *)
(***************************************************************************)

\* Nobody takes or leaves a session's mutex, and busy moves only on a free one.
LEMMA LocksKept ==
    ASSUME TypeOK, LocksOK, NEW h \in Handler, Alone(h), UNCHANGED <<lock, size>>,
           pc[h] # "copy", pc'[h] # "copy", \A s \in Session : lock[s] # None => busy'[s] = busy[s],
           LocalsOK
    PROVE  LocksOK' /\ \A s \in Session : Extra(s)' = Extra(s)
<1>1. \A s \in Session : lock[s] # None => lock[s] \in Handler \ {h}
  BY DEF LocksOK, TypeOK
<1>2. ASSUME NEW g \in Handler, pc'[g] = "copy"
      PROVE  (lock[target[g]] = g /\ ~busy[target[g]] /\ off[g] = size[target[g]])'
  <2>1. g # h /\ pc[g] = "copy" /\ target'[g] = target[g] /\ off'[g] = off[g] /\ target[g] \in Session
    BY <1>2 DEF Alone, LocalsOK, Targeting
  <2>. QED BY <2>1, NoneAssumption DEF LocksOK
<1>3. ASSUME NEW s \in Session, lock'[s] # None
      PROVE  (pc[lock[s]] = "copy" /\ target[lock[s]] = s)'
  BY <1>1, <1>3 DEF LocksOK, Alone
<1>4. \A s \in Session : Extra(s)' = Extra(s)
  BY <1>1 DEF Extra, Alone
<1>. QED BY <1>2, <1>3, <1>4 DEF LocksOK

\* The finalizers stay what they are; the spools of busy sessions stay as they are.
LEMMA FinalsKept ==
    ASSUME LocalsOK, FinalsOK, NEW h \in Handler, Alone(h), UNCHANGED <<busy, consumed, verified>>,
           pc'[h] \in Finalizing => pc[h] \in Finalizing /\ target'[h] = target[h],
           pc'[h] = "runVerified" => spool[target[h]] = File,
           \A s \in Session : busy[s] => spool'[s] = spool[s]
    PROVE  FinalsOK'
<1>1. ASSUME NEW g \in Handler, pc'[g] \in Finalizing
      PROVE  pc[g] \in Finalizing /\ target'[g] = target[g] /\ target[g] \in Session
  BY <1>1 DEF Alone, LocalsOK, Targeting, Finalizing
<1>2. ASSUME NEW g \in Handler, pc'[g] = "runVerified"
      PROVE  spool'[target'[g]] = File
  <2>1. spool[target[g]] = File
    BY <1>2 DEF Alone, FinalsOK
  <2>. QED BY <1>1, <1>2, <2>1 DEF FinalsOK, Finalizing
<1>. QED BY <1>1, <1>2 DEF FinalsOK

\* Table and directory stay as they are, and h neither inserts nor unlinks.
LEMMA FilesKept ==
    ASSUME LocalsOK, FilesOK, NEW h \in Handler, Alone(h), UNCHANGED <<sessions, disk>>,
           pc[h] \notin {"insert", "unlink"}, pc'[h] \notin {"insert", "unlink"},
           todo'[h] \cup stale'[h] \subseteq todo[h] \cup stale[h] \cup sessions,
           target'[h] \in {None, target[h]} \cup sessions
    PROVE  FilesOK'
<1>1. OnDisk' /\ Owned' /\ Unmapped'
  BY DEF FilesOK, OnDisk, Owned, Unmapped, Alone
<1>2. Fresh'
  BY NoneAssumption DEF FilesOK, Fresh, Alone, LocalsOK, Targeting
<1>. QED BY <1>1, <1>2 DEF FilesOK

\* Most waits, refusals and looks at the table are quiet: the locals of one
\* handler change, and nothing that handlers share.
LEMMA QuietStep ==
    ASSUME IInv, NEW h \in Handler, LocalsType', Alone(h),
           UNCHANGED <<table, lock, history>>, storeLock' \in Handler \cup {None},
           pc[h] \notin {"insert", "unlink", "copy"}, pc'[h] \notin {"insert", "unlink", "copy"},
           todo'[h] \cup stale'[h] \subseteq todo[h] \cup stale[h] \cup sessions,
           target'[h] \in {None, target[h]} \cup sessions,
           pc'[h] \in Targeting => target'[h] # None,
           pc'[h] = "append" => target'[h] \in sessions,
           pc'[h] = "unmap" => op'[h] \in Sweeps \/ target'[h] # None,
           pc'[h] \in {"sweep", "scan"} => op'[h] \in Sweeps,
           wrote'[h] = 0,
           pc'[h] \in Finalizing => pc[h] \in Finalizing /\ target'[h] = target[h],
           pc'[h] = "runVerified" => spool[target[h]] = File
    PROVE  IInv'
<1>. USE DEF IInv, table, history
<1>1. TypeOK'
  BY TypeSplit, TypeSplitNext DEF TableType
<1>2. LocalsOK'
  BY TypeSplit, NoneAssumption DEF LocalsOK, Alone, TableType, LocalsType, Targeting, Sweeps
<1>3. LocksOK' /\ \A s \in Session : Extra(s)' = Extra(s)
  BY LocksKept
<1>4. PrefixOK'
  <2>1. \A s \in Session : Writable(s)' => Writable(s)
    BY DEF Writable, Writing, Alone
  <2>. QED BY <1>3, <2>1 DEF PrefixOK
<1>5. FinalsOK'
  BY FinalsKept
<1>6. FilesOK'
  BY FilesKept
<1>. QED BY <1>1, <1>2, <1>3, <1>4, <1>5, <1>6

\* Each quiet action is one.
LEMMA QuietActions ==
    ASSUME IInv, NEW h \in Handler,
           \/ BeginSweep(h) \/ SweepLock(h) \/ SweepScan(h) \/ SweepUnlock(h) \/ CreateFails(h)
           \/ GetForAppend(h) \/ GetForFinalize(h) \/ GetForAbort(h) \/ HashSpool(h)
    PROVE  IInv'
<1>. USE TypeSplit, NoneAssumption DEF IInv
<1>a. /\ storeLock \in Handler \cup {None} /\ sessions \subseteq Session
      /\ target[h] = None => pc[h] \notin Targeting
  BY DEF TableType, LocalsOK
<1>1. CASE BeginSweep(h)
  <2>1. LocalsType' /\ Alone(h)
    BY <1>1 DEF BeginSweep, LocalsType, Labels, Alone
  <2>2. /\ pc[h] = "idle" /\ pc'[h] = "sweep" /\ op'[h] \in Sweeps
        /\ UNCHANGED <<table, lock, storeLock, history, target, wrote, todo, stale>>
    BY <1>1 DEF BeginSweep, LocalsType, Sweeps
  <2>3. wrote[h] = 0
    BY <2>2 DEF LocalsOK
  <2>. QED BY <1>a, <2>1, <2>2, <2>3, QuietStep DEF Targeting, Finalizing
<1>2. CASE SweepLock(h)
  <2>1. LocalsType' /\ Alone(h)
    BY <1>2, <1>a DEF SweepLock, LocalsType, Labels, Alone
  <2>2. /\ pc[h] = "sweep" /\ pc'[h] = "scan" /\ todo'[h] = sessions /\ storeLock' = h
        /\ UNCHANGED <<table, lock, history, op, target, wrote, stale>>
    BY <1>2 DEF SweepLock, LocalsType
  <2>3. wrote[h] = 0 /\ op[h] \in Sweeps
    BY <2>2 DEF LocalsOK
  <2>. QED BY <1>a, <2>1, <2>2, <2>3, QuietStep DEF Targeting, Finalizing
<1>3. CASE SweepScan(h)
  <2>1. LocalsType' /\ Alone(h)
    BY <1>3, <1>a DEF SweepScan, LocalsType, Alone
  <2>2. /\ pc[h] = "scan" /\ todo'[h] \cup stale'[h] \subseteq todo[h] \cup stale[h]
        /\ UNCHANGED <<table, lock, storeLock, history, pc, op, target, wrote>>
    BY <1>3 DEF SweepScan, LocalsType
  <2>3. wrote[h] = 0 /\ op[h] \in Sweeps
    BY <2>2 DEF LocalsOK
  <2>. QED BY <1>a, <2>1, <2>2, <2>3, QuietStep DEF Targeting, Finalizing
<1>4. CASE SweepUnlock(h)
  <2>1. /\ pc[h] = "scan" /\ storeLock' = None /\ UNCHANGED <<table, lock, history>> /\ AfterSweep(h)
    BY <1>4 DEF SweepUnlock
  <2>2. wrote[h] = 0 /\ op[h] \in Sweeps
    BY <2>1 DEF LocalsOK
  <2>. QED BY <1>a, <2>1, <2>2, QuietStep, AfterSweepFacts DEF Targeting, Finalizing
<1>5. CASE CreateFails(h)
  <2>1. pc[h] = "create" /\ Answer(h) /\ UNCHANGED <<table, storeLock, lock, history>>
    BY <1>5 DEF CreateFails
  <2>. QED BY <1>a, <2>1, QuietStep, AnswerFacts DEF Targeting, Finalizing
<1>6. CASE GetForAppend(h) \/ GetForFinalize(h) \/ GetForAbort(h)
  <2>1. LocalsType' /\ Alone(h)
    BY <1>6, <1>a DEF GetForAppend, GetForFinalize, GetForAbort, GetSession, LocalsType, Labels, Alone
  <2>2. /\ pc[h] = "idle" /\ pc'[h] \in {"append", "finalize", "unmap"} /\ target'[h] \in sessions
        /\ UNCHANGED <<table, lock, storeLock, history, wrote, todo, stale>>
    BY <1>6 DEF GetForAppend, GetForFinalize, GetForAbort, GetSession, LocalsType
  <2>3. wrote[h] = 0 /\ target'[h] # None
    BY <1>a, <2>2 DEF LocalsOK
  <2>. QED BY <1>a, <2>1, <2>2, <2>3, QuietStep DEF Targeting, Finalizing
<1>7. CASE HashSpool(h)
  <2>1. /\ pc[h] = "hash" /\ UNCHANGED <<table, storeLock, lock, history>>
        /\ Goto(h, IF spool[target[h]] = File THEN "runVerified" ELSE "end")
    BY <1>7 DEF HashSpool
  <2>2. wrote[h] = 0
    BY <2>1 DEF LocalsOK
  <2>3. CASE spool[target[h]] = File
    BY <1>a, <2>1, <2>2, <2>3, QuietStep, GotoFacts DEF Targeting, Finalizing, Labels
  <2>4. CASE spool[target[h]] # File
    BY <1>a, <2>1, <2>2, <2>4, QuietStep, GotoFacts DEF Targeting, Finalizing, Labels
  <2>. QED BY <2>3, <2>4
<1>. QED BY <1>1, <1>2, <1>3, <1>4, <1>5, <1>6, <1>7

(***************************************************************************)
(* Appends                                                                 *)
(***************************************************************************)

\* A refused append answers; an accepted one takes the session's mutex.
LEMMA BeginAppendStep ==
    ASSUME IInv, NEW h \in Handler, BeginAppend(h)
    PROVE  IInv'
<1>. DEFINE t == target[h]
<1>1. /\ TypeOK /\ LocalsType /\ TableType /\ LocalsOK /\ LocksOK /\ PrefixOK /\ FinalsOK /\ FilesOK
      /\ pc[h] = "append" /\ lock[t] = None /\ UNCHANGED <<table, storeLock, history>>
      /\ t \in Session /\ t # None /\ wrote[h] = 0
  BY TypeSplit, NoneAssumption DEF IInv, BeginAppend, Unlocked, LocalsOK, Targeting
<1>2. CASE busy[t] \/ off[h] # size[t]
  <2>1. Answer(h) /\ UNCHANGED lock
    BY <1>2 DEF BeginAppend
  <2>2. storeLock' \in Handler \cup {None}
    BY <1>1 DEF TableType
  <2>. QED BY <1>1, <2>1, <2>2, AnswerFacts, QuietStep DEF Targeting, Finalizing
<1>3. CASE ~busy[t] /\ off[h] = size[t]
  <2>1. lock' = [lock EXCEPT ![t] = h] /\ Goto(h, "copy")
    BY <1>3 DEF BeginAppend
  <2>2. /\ LocalsType' /\ Alone(h) /\ pc'[h] = "copy" /\ op'[h] = op[h] /\ target'[h] = t
        /\ off'[h] = off[h] /\ wrote'[h] = 0 /\ todo'[h] = todo[h] /\ stale'[h] = stale[h]
    BY <1>1, <2>1, GotoFacts DEF Labels
  <2>3. lock' \in [Session -> Handler \cup {None}] /\ lock'[t] = h /\ \A s \in Session \ {t} : lock'[s] = lock[s]
    BY <1>1, <2>1 DEF TableType
  <2>4. /\ used' = used /\ sessions' = sessions /\ disk' = disk /\ spool' = spool /\ size' = size
        /\ busy' = busy /\ consumed' = consumed /\ verified' = verified
    BY <1>1 DEF table, history
  <2>5. TypeOK'
    BY <1>1, <2>2, <2>3, TypeSplitNext DEF TableType, table, history
  <2>6. LocalsOK'
    BY <1>1, <2>2, <2>4 DEF LocalsOK, Alone, Targeting
  <2>7. LocksOK'
    <3>1. ASSUME NEW g \in Handler, pc'[g] = "copy", g # h
          PROVE  (lock[target[g]] = g /\ ~busy[target[g]] /\ off[g] = size[target[g]])'
      <4>1. pc[g] = "copy" /\ target'[g] = target[g] /\ off'[g] = off[g]
        BY <2>2, <3>1 DEF Alone
      <4>2. target[g] \in Session /\ lock[target[g]] = g /\ ~busy[target[g]] /\ off[g] = size[target[g]]
        BY <1>1, <4>1 DEF LocksOK, LocalsOK, Targeting
      <4>3. target[g] # t
        BY <1>1, <4>2, NoneAssumption
      <4>. QED BY <2>3, <2>4, <4>1, <4>2, <4>3
    <3>2. ASSUME NEW s \in Session \ {t}, lock'[s] # None
          PROVE  (pc[lock[s]] = "copy" /\ target[lock[s]] = s)'
      <4>1. lock[s] \in Handler /\ pc[lock[s]] = "copy" /\ target[lock[s]] = s
        BY <1>1, <2>3, <3>2 DEF LocksOK, TableType
      <4>. QED BY <1>1, <2>2, <2>3, <4>1 DEF Alone
    <3>. QED BY <1>1, <1>3, <2>2, <2>3, <2>4, <3>1, <3>2 DEF LocksOK
  <2>8. PrefixOK'
    <3>1. \A s \in Session : Writable(s)' => Writable(s)
      BY <1>1, <2>2, <2>4 DEF Writable, Writing, Alone
    <3>2. \A s \in Session : s = t => Extra(s)' = Extra(s)
      BY <1>1, <2>2, <2>3, NoneAssumption DEF Extra
    <3>3. ASSUME NEW s \in Session \ {t} PROVE Extra(s)' = Extra(s)
      <4>1. lock[s] # None => lock[s] \in Handler \ {h}
        BY <1>1 DEF LocksOK, TableType
      <4>. QED BY <2>2, <2>3, <4>1 DEF Extra, Alone
    <3>. QED BY <1>1, <2>4, <3>1, <3>2, <3>3 DEF PrefixOK
  <2>9. FinalsOK'
    BY <1>1, <2>2, <2>4, FinalsKept DEF Finalizing
  <2>10. FilesOK'
    BY <1>1, <2>2, <2>4, FilesKept
  <2>. QED BY <2>5, <2>6, <2>7, <2>8, <2>9, <2>10 DEF IInv
<1>. QED BY <1>2, <1>3

\* A byte lands behind the ones that are there: the append began at the end of
\* the spool and no other append or finalize got in.
LEMMA CopyByteStep ==
    ASSUME IInv, NEW h \in Handler, CopyByte(h)
    PROVE  IInv'
<1>. DEFINE t == target[h]
<1>1. /\ TypeOK /\ LocalsType /\ TableType /\ LocalsOK /\ LocksOK /\ PrefixOK /\ FinalsOK /\ FilesOK
      /\ pc[h] = "copy" /\ t \in Session /\ lock[t] = h /\ ~busy[t] /\ off[h] = size[t]
  BY TypeSplit DEF IInv, CopyByte, LocalsOK, LocksOK, Targeting
<1>2. /\ wrote[h] < len[h]
      /\ spool' = [spool EXCEPT ![t] = Append(@, off[h] + wrote[h] + 1)]
      /\ wrote' = [wrote EXCEPT ![h] = @ + 1]
      /\ UNCHANGED <<used, sessions, disk, size, busy, closed, expired, storeLock, lock, pc, op, target,
                     off, len, todo, stale, consumed, verified>>
  BY DEF CopyByte, history
<1>3. wrote[h] \in Nat /\ len[h] \in 0..MaxChunk /\ off[h] \in Nat /\ spool[t] \in Seq(Nat) /\ size[t] \in Nat
  BY <1>1, SizesAssumption DEF LocalsType, TableType
<1>4. /\ spool'[t] = Append(spool[t], off[h] + wrote[h] + 1)
      /\ \A s \in Session \ {t} : spool'[s] = spool[s]
      /\ spool' \in [Session -> Seq(Nat)]
  BY <1>1, <1>2, <1>3 DEF TableType
<1>5. LocalsType' /\ Alone(h) /\ wrote'[h] = wrote[h] + 1
  BY <1>1, <1>2, <1>3, SizesAssumption DEF LocalsType, Alone
<1>6. TypeOK'
  BY <1>1, <1>2, <1>4, <1>5, TypeSplitNext DEF TableType
<1>7. LocalsOK'
  BY <1>1, <1>2, <1>5 DEF LocalsOK, Alone, Targeting
<1>8. LocksOK'
  BY <1>1, <1>2 DEF LocksOK
<1>9. PrefixOK'
  <2>1. \A s \in Session : Writable(s)' <=> Writable(s)
    BY <1>2 DEF Writable
  <2>2. t \in used /\ Writable(t)
    BY <1>1, NoneAssumption DEF LocalsOK, Writable, Writing, TableType
  <2>3. Len(spool[t]) = size[t] + wrote[h] /\ \A i \in 1..Len(spool[t]) : spool[t][i] = i
    BY <1>1, <2>2, NoneAssumption DEF PrefixOK, Extra
  <2>4. /\ Len(spool'[t]) = Len(spool[t]) + 1
        /\ \A i \in 1..Len(spool'[t]) : spool'[t][i] = i
    BY <1>1, <1>3, <1>4, <2>3
  <2>5. Extra(t)' = wrote[h] + 1
    BY <1>1, <1>2, <1>5, NoneAssumption DEF Extra
  <2>6. ASSUME NEW s \in Session \ {t} PROVE Extra(s)' = Extra(s)
    <3>1. lock[s] # None => lock[s] \in Handler \ {h}
      BY <1>1 DEF LocksOK, TableType
    <3>. QED BY <1>2, <1>5, <3>1 DEF Extra, Alone
  <2>7. Len(spool'[t]) = size'[t] + Extra(t)'
    BY <1>2, <1>3, <2>3, <2>4, <2>5
  <2>. QED BY <1>1, <1>2, <1>4, <2>1, <2>2, <2>4, <2>6, <2>7 DEF PrefixOK
<1>10. FinalsOK'
  BY <1>1, <1>2, <1>4, <1>5, FinalsKept DEF Finalizing
<1>11. FilesOK'
  BY <1>1, <1>2, <1>5, FilesKept
<1>. QED BY <1>6, <1>7, <1>8, <1>9, <1>10, <1>11 DEF IInv

\* The first n elements of a sequence.
LEMMA HeadOfSeq ==
    ASSUME NEW q \in Seq(Nat), NEW n \in Nat, n <= Len(q)
    PROVE  /\ SubSeq(q, 1, n) \in Seq(Nat) /\ Len(SubSeq(q, 1, n)) = n
           /\ \A i \in 1..n : SubSeq(q, 1, n)[i] = q[i]
OBVIOUS

\* What landed is committed, or all of it is taken back.
LEMMA EndAppendStep ==
    ASSUME IInv, NEW h \in Handler, EndAppend(h)
    PROVE  IInv'
<1>. DEFINE t == target[h]
<1>1. /\ TypeOK /\ LocalsType /\ TableType /\ LocalsOK /\ LocksOK /\ PrefixOK /\ FinalsOK /\ FilesOK
      /\ pc[h] = "copy" /\ t \in Session /\ lock[t] = h /\ ~busy[t] /\ off[h] = size[t]
  BY TypeSplit DEF IInv, EndAppend, LocalsOK, LocksOK, Targeting
<1>2. /\ Answer(h) /\ lock' = [lock EXCEPT ![t] = None]
      /\ UNCHANGED <<used, sessions, disk, busy, closed, expired, storeLock, consumed, verified>>
  BY DEF EndAppend, history
<1>3. wrote[h] \in Nat /\ spool[t] \in Seq(Nat) /\ size[t] \in 0..MaxSize
  BY <1>1, SizesAssumption DEF LocalsType, TableType
<1>4. /\ LocalsType' /\ Alone(h) /\ pc'[h] = "idle" /\ target'[h] = None /\ wrote'[h] = 0
      /\ todo'[h] = todo[h] /\ stale'[h] = stale[h]
  BY <1>1, <1>2, AnswerFacts
<1>5. /\ lock' \in [Session -> Handler \cup {None}] /\ lock'[t] = None
      /\ \A s \in Session \ {t} : lock'[s] = lock[s]
  BY <1>1, <1>2 DEF TableType
<1>6. Len(spool[t]) = size[t] + wrote[h] /\ \A i \in 1..Len(spool[t]) : spool[t][i] = i
  <2>1. Writable(t) /\ Extra(t) = wrote[h]
    BY <1>1, NoneAssumption DEF Writable, Writing, Extra
  <2>. QED BY <1>1, <2>1 DEF PrefixOK
<1>7. /\ spool' \in [Session -> Seq(Nat)] /\ size' \in [Session -> 0..MaxSize]
      /\ Len(spool'[t]) = size'[t] /\ \A i \in 1..Len(spool'[t]) : spool'[t][i] = i
      /\ \A s \in Session \ {t} : spool'[s] = spool[s] /\ size'[s] = size[s]
  <2>1. CASE size[t] + wrote[h] > MaxSize
    <3>1. spool' = [spool EXCEPT ![t] = SubSeq(@, 1, off[h])] /\ size' = size
      BY <2>1 DEF EndAppend
    <3>2. /\ SubSeq(spool[t], 1, off[h]) \in Seq(Nat) /\ Len(SubSeq(spool[t], 1, off[h])) = size[t]
          /\ \A i \in 1..size[t] : SubSeq(spool[t], 1, off[h])[i] = i
      <4>1. size[t] \in Nat /\ size[t] <= Len(spool[t]) /\ off[h] = size[t]
        BY <1>1, <1>3, <1>6, SizesAssumption
      <4>2. /\ SubSeq(spool[t], 1, size[t]) \in Seq(Nat) /\ Len(SubSeq(spool[t], 1, size[t])) = size[t]
            /\ \A i \in 1..size[t] : SubSeq(spool[t], 1, size[t])[i] = spool[t][i]
        BY <1>3, <4>1, HeadOfSeq
      <4>3. \A i \in 1..size[t] : spool[t][i] = i
        BY <1>3, <1>6, <4>1
      <4>. QED BY <4>1, <4>2, <4>3
    <3>. QED BY <1>1, <3>1, <3>2 DEF TableType
  <2>2. CASE size[t] + wrote[h] <= MaxSize
    <3>1. size' = [size EXCEPT ![t] = @ + wrote[h]] /\ spool' = spool
      BY <1>3, <2>2, SizesAssumption DEF EndAppend
    <3>2. size[t] + wrote[h] \in 0..MaxSize
      BY <1>3, <2>2, SizesAssumption
    <3>. QED BY <1>1, <1>6, <3>1, <3>2 DEF TableType
  <2>. QED BY <1>3, <2>1, <2>2, SizesAssumption
<1>8. TypeOK'
  BY <1>1, <1>2, <1>4, <1>5, <1>7, TypeSplitNext DEF TableType
<1>9. LocalsOK'
  BY <1>1, <1>2, <1>4 DEF LocalsOK, Alone, Targeting
<1>10. LocksOK'
  <2>1. ASSUME NEW g \in Handler, pc'[g] = "copy"
        PROVE  (lock[target[g]] = g /\ ~busy[target[g]] /\ off[g] = size[target[g]])'
    <3>1. g # h /\ pc[g] = "copy" /\ target'[g] = target[g] /\ off'[g] = off[g]
      BY <1>4, <2>1 DEF Alone
    <3>2. target[g] \in Session /\ lock[target[g]] = g /\ ~busy[target[g]] /\ off[g] = size[target[g]]
      BY <1>1, <3>1 DEF LocksOK, LocalsOK, Targeting
    <3>3. target[g] # t
      BY <1>1, <3>1, <3>2
    <3>. QED BY <1>2, <1>5, <1>7, <3>1, <3>2, <3>3
  <2>2. ASSUME NEW s \in Session, lock'[s] # None
        PROVE  (pc[lock[s]] = "copy" /\ target[lock[s]] = s)'
    <3>1. s # t /\ lock'[s] = lock[s]
      BY <1>5, <2>2
    <3>2. lock[s] \in Handler /\ pc[lock[s]] = "copy" /\ target[lock[s]] = s
      BY <1>1, <2>2, <3>1 DEF LocksOK, TableType
    <3>. QED BY <1>4, <3>1, <3>2 DEF Alone
  <2>. QED BY <2>1, <2>2 DEF LocksOK
<1>11. PrefixOK'
  <2>1. \A s \in Session : Writable(s)' => Writable(s)
    BY <1>2, <1>4 DEF Writable, Writing, Alone
  <2>2. \A s \in Session : s = t => Extra(s)' = 0
    BY <1>5 DEF Extra
  <2>3. ASSUME NEW s \in Session \ {t} PROVE Extra(s)' = Extra(s)
    <3>1. lock[s] # None => lock[s] \in Handler \ {h}
      BY <1>1 DEF LocksOK, TableType
    <3>. QED BY <1>4, <1>5, <3>1 DEF Extra, Alone
  <2>4. t \in used
    BY <1>1, NoneAssumption DEF LocalsOK
  <2>5. size'[t] \in Nat
    BY <1>1, <1>7, SizesAssumption
  <2>6. ASSUME NEW s \in Session
        PROVE  /\ \A i \in 1..Len(spool'[s]) : spool'[s][i] = i
               /\ s \notin used' => spool'[s] = <<>> /\ size'[s] = 0
               /\ Writable(s)' => Len(spool'[s]) = size'[s] + Extra(s)'
    <3>1. CASE s = t
      BY <1>2, <1>7, <2>2, <2>4, <2>5, <3>1
    <3>2. CASE s # t
      BY <1>1, <1>2, <1>7, <2>1, <2>3, <3>2 DEF PrefixOK
    <3>. QED BY <3>1, <3>2
  <2>. QED BY <2>6 DEF PrefixOK
<1>12. FinalsOK'
  BY <1>1, <1>2, <1>4, <1>7, FinalsKept DEF Finalizing
<1>13. FilesOK'
  BY <1>1, <1>2, <1>4, FilesKept
<1>. QED BY <1>8, <1>9, <1>10, <1>11, <1>12, <1>13 DEF IInv

(***************************************************************************)
(* Finalizes                                                               *)
(***************************************************************************)

\* A refused finalize answers; an accepted one is the session's only one.
LEMMA BeginFinalizeStep ==
    ASSUME IInv, NEW h \in Handler, BeginFinalize(h)
    PROVE  IInv'
<1>. DEFINE t == target[h]
<1>1. /\ TypeOK /\ LocalsType /\ TableType /\ LocalsOK /\ LocksOK /\ PrefixOK /\ FinalsOK /\ FilesOK
      /\ pc[h] = "finalize" /\ lock[t] = None /\ t \in Session /\ t # None /\ wrote[h] = 0
      /\ UNCHANGED <<used, sessions, disk, spool, size, closed, expired, storeLock, lock, history>>
  BY TypeSplit, NoneAssumption DEF IInv, BeginFinalize, Unlocked, LocalsOK, Targeting
<1>2. CASE busy[t] \/ t \notin disk
  <2>1. Answer(h) /\ UNCHANGED table
    BY <1>1, <1>2 DEF BeginFinalize, table
  <2>2. storeLock' \in Handler \cup {None}
    BY <1>1 DEF TableType
  <2>. QED BY <1>1, <2>1, <2>2, AnswerFacts, QuietStep DEF Targeting, Finalizing
<1>3. CASE ~busy[t] /\ t \in disk
  <2>1. /\ busy' = [busy EXCEPT ![t] = TRUE] /\ consumed' = consumed /\ verified' = verified
        /\ Goto(h, "hash") \/ Goto(h, "run")
    BY <1>1, <1>3 DEF BeginFinalize, history
  <2>2. /\ LocalsType' /\ Alone(h) /\ pc'[h] \in {"hash", "run"} /\ op'[h] = op[h] /\ target'[h] = t
        /\ wrote'[h] = 0 /\ todo'[h] = todo[h] /\ stale'[h] = stale[h]
    BY <1>1, <2>1, GotoFacts DEF Labels
  <2>3. busy' \in [Session -> BOOLEAN] /\ busy'[t] /\ \A s \in Session \ {t} : busy'[s] = busy[s]
    BY <1>1, <2>1 DEF TableType
  <2>4. TypeOK'
    BY <1>1, <2>1, <2>2, <2>3, TypeSplitNext DEF TableType
  <2>5. LocalsOK'
    BY <1>1, <2>2 DEF LocalsOK, Alone, Targeting
  <2>6. LocksOK' /\ \A s \in Session : Extra(s)' = Extra(s)
    BY <1>1, <2>2, <2>3, LocksKept
  <2>7. PrefixOK'
    <3>1. \A s \in Session : Writable(s)' => Writable(s)
      BY <1>1, <2>2 DEF Writable, Writing, Alone
    <3>. QED BY <1>1, <2>6, <3>1 DEF PrefixOK
  <2>8. FinalsOK'
    <3>1. consumed[t] = 0
      BY <1>1, <1>3 DEF FinalsOK
    <3>2. ASSUME NEW g \in Handler \ {h}, pc'[g] \in Finalizing
          PROVE  /\ pc[g] \in Finalizing /\ target'[g] = target[g] /\ target[g] # t /\ target[g] \in Session
                 /\ busy[target[g]] /\ consumed[target[g]] = 0
      BY <1>1, <1>3, <2>2, <3>2 DEF Alone, FinalsOK, LocalsOK, Targeting, Finalizing
    <3>3. \A g \in Handler : pc'[g] \in Finalizing => busy'[target'[g]] /\ consumed'[target'[g]] = 0
      BY <2>1, <2>2, <2>3, <3>1, <3>2
    <3>4. \A f, g \in Handler :
              pc'[f] \in Finalizing /\ pc'[g] \in Finalizing /\ target'[f] = target'[g] => f = g
      BY <1>1, <2>2, <3>2 DEF FinalsOK
    <3>5. \A g \in Handler : pc'[g] = "runVerified" => spool'[target'[g]] = File
      BY <1>1, <2>2, <3>2 DEF FinalsOK, Alone
    <3>. QED BY <1>1, <2>1, <2>3, <3>1, <3>3, <3>4, <3>5 DEF FinalsOK
  <2>9. FilesOK'
    BY <1>1, <2>2, FilesKept
  <2>. QED BY <2>4, <2>5, <2>6, <2>7, <2>8, <2>9 DEF IInv
<1>. QED BY <1>2, <1>3

\* The endpoint reads the bytes that were hashed.  A 2xx answer consumes the
\* session for good: its busy stays set.
LEMMA RunEndpointStep ==
    ASSUME IInv, NEW h \in Handler, RunEndpoint(h)
    PROVE  IInv'
<1>. DEFINE t == target[h]
<1>1. /\ TypeOK /\ LocalsType /\ TableType /\ LocalsOK /\ LocksOK /\ PrefixOK /\ FinalsOK /\ FilesOK
      /\ pc[h] \in {"run", "runVerified"} /\ t \in Session /\ t # None /\ wrote[h] = 0
      /\ UNCHANGED <<used, sessions, disk, spool, size, busy, closed, expired, storeLock, lock>>
  BY TypeSplit, NoneAssumption DEF IInv, RunEndpoint, LocalsOK, Targeting, table
<1>2. /\ verified' = IF pc[h] = "runVerified" THEN verified \cup {spool[t]} ELSE verified
      /\ \/ Goto(h, "unmap") /\ consumed' = [consumed EXCEPT ![t] = @ + 1]
         \/ Goto(h, "end") /\ UNCHANGED consumed
  BY DEF RunEndpoint
<1>3. /\ LocalsType' /\ Alone(h) /\ pc'[h] \in {"unmap", "end"} /\ op'[h] = op[h] /\ target'[h] = t
      /\ wrote'[h] = 0 /\ todo'[h] = todo[h] /\ stale'[h] = stale[h]
  BY <1>1, <1>2, GotoFacts DEF Labels
<1>4. busy[t] /\ consumed[t] = 0 /\ (pc[h] = "runVerified" => spool[t] = File)
  BY <1>1 DEF FinalsOK, Finalizing
<1>5. /\ consumed' \in [Session -> Nat] /\ \A s \in Session \ {t} : consumed'[s] = consumed[s]
      /\ consumed'[t] = IF pc'[h] = "unmap" THEN 1 ELSE 0
  <2>1. CASE Goto(h, "unmap") /\ consumed' = [consumed EXCEPT ![t] = @ + 1]
    BY <1>1, <1>4, <2>1, GotoFacts DEF TableType, Labels
  <2>2. CASE Goto(h, "end") /\ UNCHANGED consumed
    BY <1>1, <1>4, <2>2, GotoFacts DEF TableType, Labels
  <2>. QED BY <1>2, <2>1, <2>2
<1>6. verified' \in SUBSET Seq(Nat) /\ verified' \subseteq {File}
  BY <1>1, <1>2, <1>4 DEF TableType, FinalsOK
<1>7. TypeOK'
  BY <1>1, <1>3, <1>5, <1>6, TypeSplitNext DEF TableType
<1>8. LocalsOK'
  BY <1>1, <1>3 DEF LocalsOK, Alone, Targeting
<1>9. LocksOK' /\ \A s \in Session : Extra(s)' = Extra(s)
  BY <1>1, <1>3, LocksKept
<1>10. PrefixOK'
  <2>1. \A s \in Session : Writable(s)' => Writable(s)
    BY <1>1, <1>3 DEF Writable, Writing, Alone
  <2>. QED BY <1>1, <1>9, <2>1 DEF PrefixOK
<1>11. FinalsOK'
  <2>1. ASSUME NEW g \in Handler, pc'[g] \in Finalizing
        PROVE  /\ pc[g] \in Finalizing /\ target'[g] = target[g] /\ target[g] \in Session
               /\ target[g] = t => pc'[h] = "end"
    <3>1. pc[g] \in Finalizing /\ target'[g] = target[g] /\ target[g] \in Session
      BY <1>1, <1>3, <2>1 DEF Alone, LocalsOK, Targeting, Finalizing
    <3>2. target[g] = t => g = h
      BY <1>1, <3>1 DEF FinalsOK, Finalizing
    <3>. QED BY <1>3, <2>1, <3>1, <3>2 DEF Finalizing
  <2>2. \A g \in Handler : pc'[g] \in Finalizing => busy'[target'[g]] /\ consumed'[target'[g]] = 0
    BY <1>1, <1>5, <2>1 DEF FinalsOK
  <2>3. \A f, g \in Handler :
            pc'[f] \in Finalizing /\ pc'[g] \in Finalizing /\ target'[f] = target'[g] => f = g
    BY <1>1, <2>1 DEF FinalsOK
  <2>4. \A g \in Handler : pc'[g] = "runVerified" => spool'[target'[g]] = File
    BY <1>1, <1>3 DEF FinalsOK, Alone
  <2>5. \A s \in Session : consumed'[s] # 0 => consumed'[s] = 1 /\ busy'[s]
    BY <1>1, <1>4, <1>5 DEF FinalsOK
  <2>. QED BY <1>6, <2>2, <2>3, <2>4, <2>5 DEF FinalsOK
<1>12. FilesOK'
  BY <1>1, <1>3, FilesKept
<1>. QED BY <1>7, <1>8, <1>9, <1>10, <1>11, <1>12 DEF IInv

\* A finalize that was refused by the endpoint, or whose hash differs, gives
\* the session back.
LEMMA EndFinalizeStep ==
    ASSUME IInv, NEW h \in Handler, EndFinalize(h)
    PROVE  IInv'
<1>. DEFINE t == target[h]
<1>1. /\ TypeOK /\ LocalsType /\ TableType /\ LocalsOK /\ LocksOK /\ PrefixOK /\ FinalsOK /\ FilesOK
      /\ pc[h] = "end" /\ lock[t] = None /\ t \in Session
      /\ Answer(h) /\ busy' = [busy EXCEPT ![t] = FALSE]
      /\ UNCHANGED <<used, sessions, disk, spool, size, closed, expired, storeLock, lock, consumed, verified>>
  BY TypeSplit DEF IInv, EndFinalize, Unlocked, LocalsOK, Targeting, history
<1>2. /\ LocalsType' /\ Alone(h) /\ pc'[h] = "idle" /\ target'[h] = None /\ wrote'[h] = 0
      /\ todo'[h] = todo[h] /\ stale'[h] = stale[h]
  BY <1>1, AnswerFacts
<1>3. busy' \in [Session -> BOOLEAN] /\ \A s \in Session \ {t} : busy'[s] = busy[s]
  BY <1>1 DEF TableType
<1>4. TypeOK'
  BY <1>1, <1>2, <1>3, TypeSplitNext DEF TableType
<1>5. LocalsOK'
  BY <1>1, <1>2 DEF LocalsOK, Alone, Targeting
<1>6. LocksOK' /\ \A s \in Session : Extra(s)' = Extra(s)
  BY <1>1, <1>2, <1>3, LocksKept
<1>7. PrefixOK'
  <2>1. \A s \in Session : Writable(s)' => Writable(s)
    BY <1>1, <1>2 DEF Writable, Writing, Alone
  <2>. QED BY <1>1, <1>6, <2>1 DEF PrefixOK
<1>8. FinalsOK'
  <2>1. ASSUME NEW g \in Handler, pc'[g] \in Finalizing
        PROVE  /\ pc[g] \in Finalizing /\ pc'[g] = pc[g] /\ target'[g] = target[g]
               /\ target[g] \in Session \ {t}
    <3>1. g # h /\ pc[g] \in Finalizing /\ pc'[g] = pc[g] /\ target'[g] = target[g] /\ target[g] \in Session
      BY <1>1, <1>2, <2>1 DEF Alone, LocalsOK, Targeting, Finalizing
    <3>2. target[g] = t => g = h
      BY <1>1, <3>1 DEF FinalsOK, Finalizing
    <3>. QED BY <3>1, <3>2
  <2>2. \A g \in Handler : pc'[g] \in Finalizing => busy'[target'[g]] /\ consumed'[target'[g]] = 0
    BY <1>1, <1>3, <2>1 DEF FinalsOK
  <2>3. \A f, g \in Handler :
            pc'[f] \in Finalizing /\ pc'[g] \in Finalizing /\ target'[f] = target'[g] => f = g
    BY <1>1, <2>1 DEF FinalsOK
  <2>4. \A g \in Handler : pc'[g] = "runVerified" => spool'[target'[g]] = File
    BY <1>1, <2>1 DEF FinalsOK, Finalizing
  <2>5. consumed[t] = 0
    BY <1>1 DEF FinalsOK, Finalizing
  <2>6. \A s \in Session : consumed'[s] # 0 => consumed'[s] = 1 /\ busy'[s]
    BY <1>1, <1>3, <2>5 DEF FinalsOK
  <2>. QED BY <1>1, <2>2, <2>3, <2>4, <2>6 DEF FinalsOK
<1>9. FilesOK'
  BY <1>1, <1>2, FilesKept
<1>. QED BY <1>4, <1>5, <1>6, <1>7, <1>8, <1>9 DEF IInv

(***************************************************************************)
(* Table and spool directory                                               *)
(***************************************************************************)

\* A new id is known to nobody but the handler that drew it.
LEMMA CreateSpoolStep ==
    ASSUME IInv, NEW h \in Handler, CreateSpool(h)
    PROVE  IInv'
<1>1. /\ TypeOK /\ LocalsType /\ TableType /\ LocalsOK /\ LocksOK /\ PrefixOK /\ FinalsOK /\ FilesOK
      /\ pc[h] = "create" /\ pc' = [pc EXCEPT ![h] = "insert"] /\ wrote[h] = 0
      /\ UNCHANGED <<sessions, spool, size, busy, closed, expired, storeLock, lock, op, off, len,
                     wrote, todo, stale, consumed, verified>>
  BY TypeSplit DEF IInv, CreateSpool, history, LocalsOK
<1>2. PICK s \in Session \ used :
          used' = used \cup {s} /\ disk' = disk \cup {s} /\ target' = [target EXCEPT ![h] = s]
  BY DEF CreateSpool
<1>3. LocalsType' /\ Alone(h) /\ pc'[h] = "insert" /\ target'[h] = s /\ s # None
  BY <1>1, <1>2, NoneAssumption DEF LocalsType, Labels, Alone
<1>4. TypeOK'
  BY <1>1, <1>2, <1>3, TypeSplitNext DEF TableType
<1>5. LocalsOK'
  BY <1>1, <1>2, <1>3 DEF LocalsOK, Alone, Targeting
<1>6. LocksOK' /\ \A r \in Session : Extra(r)' = Extra(r)
  BY <1>1, <1>3, LocksKept
<1>7. PrefixOK'
  <2>1. \A r \in Session \ {s} : Writable(r)' => Writable(r)
    BY <1>1, <1>3 DEF Writable, Alone
  <2>2. spool[s] = <<>> /\ size[s] = 0
    BY <1>1 DEF PrefixOK
  <2>3. lock[s] = None
    <3>1. lock[s] # None => lock[s] \in Handler /\ target[lock[s]] = s
      BY <1>1 DEF LocksOK, TableType
    <3>. QED BY <1>1, <1>3, <3>1 DEF LocalsOK
  <2>4. Len(spool[s]) = 0 /\ Extra(s) = 0
    BY <2>2, <2>3 DEF Extra
  <2>. QED BY <1>1, <1>2, <1>6, <2>1, <2>2, <2>4 DEF PrefixOK
<1>8. FinalsOK'
  BY <1>1, <1>3, FinalsKept DEF Finalizing
<1>9. FilesOK'
  <2>1. OnDisk'
    BY <1>1, <1>2 DEF FilesOK, OnDisk
  <2>2. Owned'
    BY <1>1, <1>2, <1>3 DEF FilesOK, Owned, Alone
  <2>3. Unmapped'
    BY <1>1, <1>3 DEF FilesOK, Unmapped, Alone
  <2>4. \A g \in Handler \ {h} : target'[g] = target[g] /\ target[g] # s
    BY <1>2, <1>1, <1>3 DEF LocalsOK, Alone
  <2>5. \A g \in Handler : todo'[g] \cup stale'[g] = todo[g] \cup stale[g] /\ s \notin todo[g] \cup stale[g]
    BY <1>1, <1>2 DEF LocalsOK
  <2>6. s \notin sessions
    BY <1>1, <1>2 DEF TableType
  <2>7. Fresh'
    BY <1>1, <1>2, <1>3, <2>4, <2>5, <2>6 DEF FilesOK, Fresh, Alone
  <2>. QED BY <2>1, <2>2, <2>3, <2>7 DEF FilesOK
<1>. QED BY <1>4, <1>5, <1>6, <1>7, <1>8, <1>9 DEF IInv

\* It enters the table with its file.
LEMMA CreateInsertStep ==
    ASSUME IInv, NEW h \in Handler, CreateInsert(h)
    PROVE  IInv'
<1>. DEFINE t == target[h]
<1>1. /\ TypeOK /\ LocalsType /\ TableType /\ LocalsOK /\ LocksOK /\ PrefixOK /\ FinalsOK /\ FilesOK
      /\ pc[h] = "insert" /\ Answer(h) /\ sessions' = sessions \cup {t} /\ t \in Session
      /\ UNCHANGED <<used, disk, spool, size, busy, closed, expired, storeLock, lock, consumed, verified>>
  BY TypeSplit DEF IInv, CreateInsert, history, LocalsOK, Targeting
<1>2. /\ LocalsType' /\ Alone(h) /\ pc'[h] = "idle" /\ target'[h] = None /\ wrote'[h] = 0
      /\ todo'[h] = todo[h] /\ stale'[h] = stale[h]
  BY <1>1, AnswerFacts
<1>3. t \in disk \ sessions /\ \A g \in Handler \ {h} : target[g] # t
  BY <1>1 DEF FilesOK, Fresh
<1>4. TypeOK'
  BY <1>1, <1>2, <1>3, TypeSplitNext DEF TableType
<1>5. LocalsOK'
  BY <1>1, <1>2 DEF LocalsOK, Alone, Targeting
<1>6. LocksOK' /\ \A s \in Session : Extra(s)' = Extra(s)
  BY <1>1, <1>2, LocksKept
<1>7. PrefixOK'
  <2>1. \A s \in Session : Writable(s)' => Writable(s)
    BY <1>1, <1>2 DEF Writable, Writing, Alone
  <2>. QED BY <1>1, <1>6, <2>1 DEF PrefixOK
<1>8. FinalsOK'
  BY <1>1, <1>2, FinalsKept DEF Finalizing
<1>9. FilesOK'
  <2>1. OnDisk'
    BY <1>1, <1>3 DEF FilesOK, OnDisk
  <2>2. Owned'
    BY <1>1, <1>2 DEF FilesOK, Owned, Alone
  <2>3. Unmapped'
    BY <1>1, <1>2, <1>3 DEF FilesOK, Unmapped, Alone
  <2>4. Fresh'
    BY <1>1, <1>2, <1>3, NoneAssumption DEF FilesOK, Fresh, Alone, LocalsOK, Targeting
  <2>. QED BY <2>1, <2>2, <2>3, <2>4 DEF FilesOK
<1>. QED BY <1>4, <1>5, <1>6, <1>7, <1>8, <1>9 DEF IInv

\* A removed session leaves the table before its file goes.
LEMMA RemoveUnmapStep ==
    ASSUME IInv, NEW h \in Handler, RemoveUnmap(h)
    PROVE  IInv'
<1>1. /\ TypeOK /\ LocalsType /\ TableType /\ LocalsOK /\ LocksOK /\ PrefixOK /\ FinalsOK /\ FilesOK
      /\ pc[h] = "unmap" /\ pc' = [pc EXCEPT ![h] = "unlink"] /\ wrote[h] = 0
      /\ UNCHANGED <<used, disk, spool, size, busy, closed, expired, storeLock, lock, op, off, len,
                     wrote, todo, consumed, verified>>
  BY TypeSplit DEF IInv, RemoveUnmap, history, LocalsOK
<1>2. PICK s \in IF op[h] \in {"create", "janitor"} THEN stale[h] ELSE {target[h]} :
          /\ sessions' = sessions \ {s} /\ target' = [target EXCEPT ![h] = s]
          /\ stale' = [stale EXCEPT ![h] = @ \ {s}]
  BY DEF RemoveUnmap
<1>3. s \in used /\ s \in Session /\ (s \in stale[h] \/ s = target[h])
  BY <1>1, <1>2, NoneAssumption DEF LocalsOK, TableType, Sweeps
<1>4. /\ LocalsType' /\ Alone(h) /\ pc'[h] = "unlink" /\ target'[h] = s
      /\ todo'[h] = todo[h] /\ stale'[h] \subseteq stale[h]
  BY <1>1, <1>2, <1>3 DEF LocalsType, Labels, Alone
<1>5. TypeOK'
  BY <1>1, <1>2, <1>4, TypeSplitNext DEF TableType
<1>6. LocalsOK'
  BY <1>1, <1>3, <1>4 DEF LocalsOK, Alone, Targeting
<1>7. LocksOK' /\ \A r \in Session : Extra(r)' = Extra(r)
  BY <1>1, <1>4, LocksKept
<1>8. PrefixOK'
  <2>1. \A r \in Session : Writable(r)' => Writable(r)
    BY <1>2, <1>4 DEF Writable, Writing, Alone
  <2>. QED BY <1>1, <1>7, <2>1 DEF PrefixOK
<1>9. FinalsOK'
  BY <1>1, <1>4, FinalsKept DEF Finalizing
<1>10. FilesOK'
  <2>1. OnDisk'
    BY <1>1, <1>2 DEF FilesOK, OnDisk
  <2>2. Owned'
    BY <1>1, <1>2, <1>4 DEF FilesOK, Owned, Alone
  <2>3. Unmapped'
    BY <1>1, <1>2, <1>4 DEF FilesOK, Unmapped, Alone
  <2>4. ASSUME NEW g \in Handler, pc'[g] = "insert"
        PROVE  /\ target'[g] \in disk' \ sessions'
               /\ \A f \in Handler : /\ target'[g] \notin todo'[f] \cup stale'[f]
                                     /\ target'[f] = target'[g] => f = g
    <3>1. g # h /\ pc[g] = "insert" /\ target'[g] = target[g]
      BY <1>4, <2>4 DEF Alone
    <3>2. /\ target[g] \in disk \ sessions /\ target[g] \notin todo[h] \cup stale[h] /\ target[h] # target[g]
          /\ \A f \in Handler : target[g] \notin todo[f] \cup stale[f] /\ (target[f] = target[g] => f = g)
      BY <1>1, <3>1 DEF FilesOK, Fresh
    <3>3. target[g] # s
      BY <1>3, <3>2
    <3>. QED BY <1>1, <1>2, <1>4, <3>1, <3>2, <3>3 DEF Alone
  <2>5. Fresh'
    BY <2>4 DEF Fresh
  <2>. QED BY <2>1, <2>2, <2>3, <2>5 DEF FilesOK
<1>. QED BY <1>5, <1>6, <1>7, <1>8, <1>9, <1>10 DEF IInv

\* The file of a session that left the table goes; nothing can insert it again.
LEMMA RemoveUnlinkStep ==
    ASSUME IInv, NEW h \in Handler, RemoveUnlink(h)
    PROVE  IInv'
<1>. DEFINE t == target[h]
<1>1. /\ TypeOK /\ LocalsType /\ TableType /\ LocalsOK /\ LocksOK /\ PrefixOK /\ FinalsOK /\ FilesOK
      /\ pc[h] = "unlink" /\ t \in Session /\ t \in used /\ t # None /\ wrote[h] = 0 /\ AfterSweep(h)
      /\ closed' = closed \cup {t} /\ disk' = disk \ {t}
      /\ UNCHANGED <<used, sessions, spool, size, busy, expired, storeLock, lock, consumed, verified>>
  BY TypeSplit, NoneAssumption DEF IInv, RemoveUnlink, history, LocalsOK, Targeting
<1>2. /\ LocalsType' /\ Alone(h) /\ pc'[h] \in {"unmap", "create", "idle"}
      /\ pc'[h] = "unmap" => op'[h] = op[h] /\ target'[h] = t
      /\ target'[h] \in {None, t} /\ wrote'[h] = 0 /\ todo'[h] = todo[h] /\ stale'[h] = stale[h]
  BY <1>1, AfterSweepFacts
<1>3. TypeOK'
  BY <1>1, <1>2, TypeSplitNext DEF TableType
<1>4. LocalsOK'
  BY <1>1, <1>2 DEF LocalsOK, Alone, Targeting
<1>5. LocksOK' /\ \A s \in Session : Extra(s)' = Extra(s)
  BY <1>1, <1>2, LocksKept
<1>6. PrefixOK'
  <2>1. \A s \in Session : Writable(s)' => Writable(s)
    BY <1>1, <1>2 DEF Writable, Writing, Alone
  <2>. QED BY <1>1, <1>5, <2>1 DEF PrefixOK
<1>7. FinalsOK'
  BY <1>1, <1>2, FinalsKept DEF Finalizing
<1>8. FilesOK'
  <2>1. OnDisk'
    BY <1>1 DEF FilesOK, OnDisk, Unmapped
  <2>2. Owned'
    BY <1>1, <1>2 DEF FilesOK, Owned, Alone
  <2>3. Unmapped'
    BY <1>1, <1>2 DEF FilesOK, Unmapped, Alone
  <2>4. ASSUME NEW g \in Handler, pc'[g] = "insert"
        PROVE  /\ target'[g] \in disk' \ sessions'
               /\ \A f \in Handler : /\ target'[g] \notin todo'[f] \cup stale'[f]
                                     /\ target'[f] = target'[g] => f = g
    <3>1. g # h /\ pc[g] = "insert" /\ target'[g] = target[g] /\ target[g] # None
      BY <1>1, <1>2, <2>4, NoneAssumption DEF Alone, LocalsOK, Targeting
    <3>2. /\ target[g] \in disk \ sessions /\ t # target[g]
          /\ \A f \in Handler : target[g] \notin todo[f] \cup stale[f] /\ (target[f] = target[g] => f = g)
      BY <1>1, <3>1 DEF FilesOK, Fresh
    <3>. QED BY <1>1, <1>2, <3>1, <3>2 DEF Alone
  <2>5. Fresh'
    BY <2>4 DEF Fresh
  <2>. QED BY <2>1, <2>2, <2>3, <2>5 DEF FilesOK
<1>. QED BY <1>3, <1>4, <1>5, <1>6, <1>7, <1>8 DEF IInv

(***************************************************************************)
(* The invariant                                                           *)
(***************************************************************************)

\* The empty store.
LEMMA InvInit == Init => IInv
<1>. SUFFICES ASSUME Init PROVE IInv
  OBVIOUS
<1>1. TypeOK
  BY SizesAssumption DEF Init, TypeOK, Labels
<1>2. LocalsOK /\ LocksOK /\ FinalsOK /\ FilesOK
  BY DEF Init, LocalsOK, LocksOK, FinalsOK, FilesOK, OnDisk, Owned, Unmapped, Fresh, Targeting, Finalizing
<1>3. PrefixOK
  <2>1. \A s \in Session : ~Writable(s)
    BY DEF Init, Writable, Writing
  <2>2. \A s \in Session : spool[s] = <<>> /\ size[s] = 0
    BY DEF Init
  <2>3. 1..Len(<<>>) = {}
    OBVIOUS
  <2>. QED BY <2>1, <2>2, <2>3 DEF PrefixOK
<1>. QED BY <1>1, <1>2, <1>3 DEF IInv

\* Every step keeps the invariant.
LEMMA InvStep == IInv /\ [Next]_vars => IInv'
<1>. SUFFICES ASSUME IInv, [Next]_vars PROVE IInv'
  OBVIOUS
<1>1. ASSUME NEW h \in Handler, Begins(h) \/ Locking(h) \/ Running(h) PROVE IInv'
  BY <1>1, QuietActions, BeginAppendStep, CopyByteStep, EndAppendStep, BeginFinalizeStep, RunEndpointStep,
     EndFinalizeStep, CreateSpoolStep, CreateInsertStep, RemoveUnmapStep, RemoveUnlinkStep
     DEF Begins, Locking, Running
<1>2. ASSUME NEW s \in Session, Expire(s) PROVE IInv'
  <2>1. TypeOK'
    BY <1>2 DEF IInv, TypeOK, Expire, locals, history
  <2>2. LocalsOK' /\ LocksOK' /\ FinalsOK' /\ FilesOK'
    BY <1>2 DEF IInv, Expire, locals, history, LocalsOK, LocksOK, FinalsOK, FilesOK, OnDisk, Owned, Unmapped, Fresh
  <2>3. PrefixOK'
    BY <1>2 DEF IInv, Expire, locals, history, PrefixOK, Writable, Extra
  <2>. QED BY <2>1, <2>2, <2>3 DEF IInv
<1>3. CASE Restart
  <2>1. TypeOK'
    BY <1>3, SizesAssumption DEF IInv, TypeOK, Restart, Labels, history
  <2>2. LocalsOK' /\ LocksOK' /\ FilesOK'
    BY <1>3 DEF Restart, LocalsOK, LocksOK, FilesOK, OnDisk, Owned, Unmapped, Fresh, Targeting
  <2>3. PrefixOK'
    BY <1>3 DEF IInv, Restart, PrefixOK, Writable, Writing
  <2>4. FinalsOK'
    BY <1>3 DEF IInv, Restart, FinalsOK, Finalizing, history
  <2>. QED BY <2>1, <2>2, <2>3, <2>4 DEF IInv
<1>4. CASE UNCHANGED vars
  BY <1>4 DEF IInv, vars, table, locals, history, TypeOK, LocalsOK, LocksOK, PrefixOK, Writable, Extra,
              FinalsOK, FilesOK, OnDisk, Owned, Unmapped, Fresh
<1>. QED BY <1>1, <1>2, <1>3, <1>4 DEF Next

\* It holds in every reachable state.
LEMMA InvHolds == Spec => []IInv
BY InvInit, InvStep, PTL DEF Spec

\* Every reachable state is well typed: no interleaving of appends takes a
\* session past the cap.
THEOREM TypesAndCap == Spec => []TypeOK
BY InvHolds, PTL DEF IInv

\* A spool no append is writing is the first `size' bytes of the upload, in
\* order, whatever appends were sent, refused, cut short or rolled back.
THEOREM SpoolsArePrefixes == Spec => []SpoolIsPrefix
<1>1. ASSUME IInv, NEW s \in sessions, Unlocked(s)
      PROVE  Len(spool[s]) = size[s] /\ \A i \in 1..Len(spool[s]) : spool[s][i] = i
  <2>1. s \in Session /\ size[s] \in Nat /\ Writable(s) /\ Extra(s) = 0
    BY <1>1, SizesAssumption DEF IInv, TypeOK, Writable, Extra, Unlocked
  <2>. QED BY <1>1, <2>1 DEF IInv, PrefixOK
<1>2. IInv => SpoolIsPrefix
  BY <1>1 DEF SpoolIsPrefix, IInv
<1>. QED BY <1>2, InvHolds, PTL

\* The endpoint of a finalize whose sha256 matched reads what was hashed, and no
\* two endpoint runs consume one session.
THEOREM FinalizesAreExact == Spec => []VerifiedIsFile
<1>1. IInv => VerifiedIsFile
  BY DEF IInv, VerifiedIsFile, FinalsOK
<1>. QED BY <1>1, InvHolds, PTL

\* Between requests the spool directory holds the files of the live sessions
\* and no others.
THEOREM SpoolsDoNotLeak == Spec => []NoSpoolLeak
<1>1. IInv => NoSpoolLeak
  BY DEF IInv, NoSpoolLeak, FilesOK, OnDisk, Owned
<1>. QED BY <1>1, InvHolds, PTL
=============================================================================
