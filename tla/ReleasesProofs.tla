--------------------------- MODULE ReleasesProofs ---------------------------
(***************************************************************************)
(* Proofs about Releases, for any projects, branches, processes and        *)
(* settings, and any number of releases.                                   *)
(***************************************************************************)
EXTENDS Releases, FiniteSetTheorems, SequenceTheorems, WellFoundedInduction, TLAPS

(***************************************************************************)
(* Types                                                                   *)
(***************************************************************************)

\* The tables, and the history of what was published while listed.
TablesOK ==
    /\ rows \in Seq(Row)
    /\ live \subseteq Release /\ published \subseteq live /\ old \subseteq live
    /\ draft \subseteq live \ published
    /\ artifact \subseteq live \X Kinds
    /\ downloaded \subseteq live
    /\ tag \in [Project \X Tag -> live \cup {0}]
    /\ remote \subseteq Branch
    /\ overtaken \subseteq Release

\* The locals of the processes.
LocalsOK ==
    /\ pc \in [Process -> Labels]
    /\ op \in [Process -> AllOps \cup {"none"}]
    /\ req \in [Process -> Row]
    /\ tries \in [Process -> Nat]
    /\ target \in [Process -> Release \cup {0}]
    /\ victims \in [Process -> SUBSET Release]
    /\ cutoff \in [Process -> SUBSET Release]
    /\ toAsk \in [Process -> SUBSET (Project \X Branch)]

\* The type invariant has two parts.
LEMMA TypeSplit == TypeOK <=> TablesOK /\ LocalsOK
BY DEF TypeOK, TablesOK, LocalsOK

\* So has it after a step.
LEMMA TypeSplitNext == TypeOK' <=> TablesOK' /\ LocalsOK'
BY DEF TypeOK, TablesOK, LocalsOK

\* The placeholder of a request is a row.
LEMMA NoReqIsRow == NoReq \in Row
<1>1. (CHOOSE p \in Project : TRUE) \in Project BY ProjectAssumption
<1>2. 1 \in Versions BY ProjectAssumption, BoundsAssumption DEF Versions
<1> QED BY <1>1, <1>2 DEF NoReq, Row

\* A process that ends.
LEMMA FinishTypes ==
    ASSUME LocalsOK, NEW p \in Process, Finish(p), Release \subseteq Release'
    PROVE  LocalsOK'
BY NoReqIsRow DEF LocalsOK, Finish, Labels

\* A new row.
LEMMA AppendedRow ==
    ASSUME rows \in Seq(Row), NEW r \in Row, rows' = Append(rows, r)
    PROVE  /\ rows' \in Seq(Row)
           /\ Len(rows') = Len(rows) + 1
           /\ Release = 1..Len(rows) /\ Release' = 1..(Len(rows) + 1)
           /\ Len(rows) + 1 \notin Release
           /\ Release \subseteq Release'
           /\ \A i \in Release : rows'[i] = rows[i]
           /\ rows'[Len(rows) + 1] = r
<1>1. Len(rows) \in Nat BY DEF Row
<1>2. /\ Append(rows, r) \in Seq(Row) /\ Len(Append(rows, r)) = Len(rows) + 1
      /\ \A i \in 1..Len(rows) : Append(rows, r)[i] = rows[i]
      /\ Append(rows, r)[Len(rows) + 1] = r
  BY AppendProperties
<1>3. DOMAIN rows = 1..Len(rows) /\ DOMAIN rows' = 1..Len(rows') BY <1>2, LenProperties
<1> QED BY <1>1, <1>2, <1>3 DEF Release

\* The empty database.
LEMMA TypeInit == Init => TypeOK
BY NoReqIsRow, BranchAssumption DEF Init, TypeOK, Release, Labels

\* A row to insert is picked, or picked again.
LEMMA CreateTypes ==
    ASSUME TypeOK, NEW p \in Process, BeginCreate(p) \/ BeginPush(p) \/ BeginRetag(p) \/ Repick(p)
    PROVE  TypeOK'
<1> USE TypeSplit
<1>0. TablesOK /\ LocalsOK OBVIOUS
<1>1. ASSUME NEW o \in AllOps, NEW r \in Row, NEW l \in Labels, NEW t \in Release \cup {0},
             op' = [op EXCEPT ![p] = o] \/ UNCHANGED op, req' = [req EXCEPT ![p] = r], Goto(p, l),
             target' = [target EXCEPT ![p] = t] \/ UNCHANGED target,
             UNCHANGED <<tables, tries, victims, cutoff, toAsk, overtaken>>
      PROVE  TypeOK'
  <2>1. TablesOK' BY <1>0, <1>1 DEF TablesOK, tables, Release
  <2>2. LocalsOK' BY <1>0, <1>1 DEF LocalsOK, tables, Release, Goto
  <2> QED BY <2>1, <2>2, TypeSplitNext
<1>2. CASE BeginCreate(p)
  <2>1. PICK o \in {"create", "draft"}, project \in Project, branch \in Branch, num \in {0} \cup Named :
          LET next == NextVersionNum(project) IN
            /\ Begin(p, o)
            /\ Cardinality(Pending) + Len(rows) < MaxReleases
            /\ num = 0 => next \in Versions
            /\ req' = [req EXCEPT ![p] = [project |-> project,
                                          num |-> IF num = 0 THEN next ELSE num,
                                          branch |-> branch, picked |-> num = 0]]
            /\ Goto(p, "insert")
            /\ UNCHANGED <<tables, tries, target, victims, cutoff, toAsk, overtaken>>
    BY <1>2, ZenonT(30) DEF BeginCreate
  <2> DEFINE n == IF num = 0 THEN NextVersionNum(project) ELSE num
             r == [project |-> project, num |-> n, branch |-> branch, picked |-> num = 0]
  <2>2. n \in Versions BY <2>1, BoundsAssumption DEF Versions
  <2>3. r \in Row BY <2>2 DEF Row
  <2> QED BY <1>1, <2>1, <2>3 DEF Begin, AllOps, Counted, Labels
<1>3. CASE BeginPush(p)
  <2>1. PICK project \in Project :
          LET next == NextVersionNum(project) IN
            /\ Begin(p, "docker")
            /\ next \in Versions
            /\ req' = [req EXCEPT ![p] = [project |-> project, num |-> next, branch |-> NoBranch, picked |-> TRUE]]
            /\ Goto(p, "insert")
            /\ UNCHANGED <<tables, tries, target, victims, cutoff, toAsk, overtaken>>
    BY <1>3, Zenon DEF BeginPush
  <2>3. [project |-> project, num |-> NextVersionNum(project), branch |-> NoBranch, picked |-> TRUE] \in Row
    BY <2>1 DEF Row
  <2> QED BY <1>1, <2>1, <2>3 DEF Begin, AllOps, Counted, Labels
<1>4. CASE BeginRetag(p)
  <2>1. PICK t \in DOMAIN tag :
        /\ Begin(p, "docker")
        /\ tag[t] # 0
        /\ target' = [target EXCEPT ![p] = tag[t]]
        /\ req' = [req EXCEPT ![p] = rows[tag[t]]]
        /\ Goto(p, "dtag")
        /\ UNCHANGED <<tables, tries, victims, cutoff, toAsk, overtaken>>
    BY <1>4 DEF BeginRetag
  <2>2. tag[t] \in Release BY <1>0, <2>1 DEF TablesOK
  <2>3. rows[tag[t]] \in Row BY <1>0, <2>2 DEF TablesOK, Release
  <2> QED BY <1>1, <2>1, <2>2, <2>3 DEF Begin, AllOps, Counted, Labels
<1>5. CASE Repick(p)
  <2> DEFINE num == IF op[p] = "docker" THEN NextVersionNum(req[p].project)
                    ELSE Max({NextVersionNum(req[p].project), req[p].num + 1})
  <2>1. /\ num \in Versions
        /\ req' = [req EXCEPT ![p].num = num]
        /\ Goto(p, "insert")
        /\ UNCHANGED <<tables, op, tries, target, victims, cutoff, toAsk, overtaken>>
    BY <1>5, Zenon DEF Repick
  <2> HIDE DEF num
  <2>2. [req[p] EXCEPT !.num = num] \in Row BY <1>0, <2>1 DEF LocalsOK, Row
  <2>3. req' = [req EXCEPT ![p] = [req[p] EXCEPT !.num = num]] BY <2>1
  <2> QED BY <1>1, <2>1, <2>2, <2>3 DEF AllOps, Counted, Labels
<1> QED BY <1>2, <1>3, <1>4, <1>5

\* The insert of a row, or its refusal.
LEMMA InsertTypes ==
    ASSUME TypeOK, NEW p \in Process, Insert(p)
    PROVE  TypeOK'
<1>0. TablesOK /\ LocalsOK BY TypeSplit
<1>1. UNCHANGED <<published, old, artifact, downloaded, tag, remote, overtaken>> BY DEF Insert
<1>2. CASE Conflict(p)
  <2>1. UNCHANGED <<rows, live, draft>> BY <1>2 DEF Insert
  <2>2. TablesOK' BY <1>0, <1>1, <2>1 DEF TablesOK, Release
  <2>3. CASE Finish(p) BY <1>0, <2>1, <2>2, <2>3, FinishTypes, TypeSplitNext DEF Release
  <2>4. CASE /\ Goto(p, "repick")
             /\ tries' = [tries EXCEPT ![p] = IF op[p] = "docker" THEN tries[p] + 1 ELSE 0]
             /\ UNCHANGED <<op, req, target, victims, cutoff, toAsk>>
    <3>1. (IF op[p] = "docker" THEN tries[p] + 1 ELSE 0) \in Nat BY <1>0 DEF LocalsOK
    <3>2. LocalsOK' BY <1>0, <2>1, <2>4, <3>1 DEF LocalsOK, Release, Goto, Labels
    <3> QED BY <2>2, <3>2, TypeSplitNext
  <2> QED BY <1>2, <2>3, <2>4 DEF Insert
<1>3. CASE ~Conflict(p)
  <2> DEFINE id == Len(rows) + 1
  <2>1. /\ rows' = Append(rows, req[p])
        /\ live' = live \cup {id}
        /\ draft' = IF op[p] = "draft" THEN draft \cup {id} ELSE draft
    BY <1>3 DEF Insert
  <2>r. req[p] \in Row /\ rows \in Seq(Row) BY <1>0 DEF LocalsOK, TablesOK
  <2>2. /\ rows' \in Seq(Row) /\ id \notin Release /\ id \in Release' /\ Release \subseteq Release'
    BY <2>1, <2>r, AppendedRow
  <2> HIDE DEF id
  <2>3. TablesOK'
    <3>1. artifact' \subseteq live' \X Kinds BY <1>0, <1>1, <2>1 DEF TablesOK
    <3>2. tag' \in [Project \X Tag -> live' \cup {0}] BY <1>0, <1>1, <2>1 DEF TablesOK
    <3> QED BY <1>0, <1>1, <2>1, <2>2, <3>1, <3>2 DEF TablesOK
  <2>4. CASE Finish(p) BY <1>0, <2>2, <2>3, <2>4, FinishTypes, TypeSplitNext
  <2>5. CASE /\ Goto(p, "dartifact")
             /\ target' = [target EXCEPT ![p] = id]
             /\ UNCHANGED <<op, req, tries, victims, cutoff, toAsk>>
    <3>2. LocalsOK' BY <1>0, <2>2, <2>5 DEF LocalsOK, Goto, Labels
    <3> QED BY <2>3, <3>2, TypeSplitNext
  <2> QED BY <1>3, <2>4, <2>5 DEF Insert, id
<1> QED BY <1>2, <1>3

\* Docker pushes after their insert.
LEMMA DockerTypes ==
    ASSUME TypeOK, NEW p \in Process, DockerArtifact(p) \/ DockerPublish(p) \/ SetTag(p)
    PROVE  TypeOK'
<1>0. TablesOK /\ LocalsOK BY TypeSplit
<1>1. CASE DockerArtifact(p)
  <2>1. artifact' \subseteq live \X Kinds BY <1>0, <1>1 DEF DockerArtifact, TablesOK, Kinds
  <2>2. TablesOK' BY <1>0, <1>1, <2>1 DEF DockerArtifact, TablesOK, Release
  <2>3. LocalsOK' BY <1>0, <1>1 DEF DockerArtifact, LocalsOK, Release, Goto, Labels
  <2> QED BY <2>2, <2>3, TypeSplitNext
<1>2. CASE DockerPublish(p)
  <2>1. /\ published' \subseteq live /\ draft' \subseteq live \ published' /\ overtaken' \subseteq Release
    BY <1>0, <1>2 DEF DockerPublish, MarkPublished, TablesOK
  <2>2. TablesOK' BY <1>0, <1>2, <2>1 DEF DockerPublish, TablesOK, Release
  <2>3. LocalsOK' BY <1>0, <1>2 DEF DockerPublish, LocalsOK, Release, Goto, Labels
  <2> QED BY <2>2, <2>3, TypeSplitNext
<1>3. CASE SetTag(p)
  <2>1. tag' \in [Project \X Tag -> live \cup {0}]
    <3>1. PICK name \in Tag : tag' = IF target[p] \in live
                                     THEN [tag EXCEPT ![<<req[p].project, name>>] = target[p]] ELSE tag
      BY <1>3 DEF SetTag
    <3> QED BY <1>0, <3>1 DEF TablesOK
  <2>2. TablesOK' BY <1>0, <1>3, <2>1 DEF SetTag, TablesOK, Release
  <2>3. LocalsOK' BY <1>0, <1>3, FinishTypes DEF SetTag, Release
  <2> QED BY <2>2, <2>3, TypeSplitNext
<1> QED BY <1>1, <1>2, <1>3

\* Uploads, publishes and downloads.
LEMMA RequestTypes ==
    ASSUME TypeOK, NEW p \in Process,
           \/ BeginUpload(p) \/ RecordArtifact(p) \/ BeginPublish(p) \/ ListArtifacts(p)
           \/ PublishRelease(p) \/ BeginDownload(p) \/ RecordDownload(p)
    PROVE  TypeOK'
<1>0. TablesOK /\ LocalsOK BY TypeSplit
<1>1. ASSUME NEW o \in AllOps, NEW r \in live, NEW l \in Labels, op' = [op EXCEPT ![p] = o], Goto(p, l),
             target' = [target EXCEPT ![p] = r],
             UNCHANGED <<tables, req, tries, victims, cutoff, toAsk, overtaken>>
      PROVE  TypeOK'
  <2>1. TablesOK' BY <1>0, <1>1 DEF TablesOK, tables, Release
  <2>2. r \in Release BY <1>0 DEF TablesOK
  <2>3. LocalsOK' BY <1>0, <1>1, <2>2 DEF LocalsOK, tables, Release, Goto
  <2> QED BY <2>1, <2>3, TypeSplitNext
<1>2. CASE BeginUpload(p) BY <1>2, <1>1 DEF BeginUpload, Begin, AllOps, Counted, Labels
<1>3. CASE BeginPublish(p) BY <1>3, <1>1 DEF BeginPublish, Begin, AllOps, Counted, Labels
<1>4. CASE BeginDownload(p) BY <1>4, <1>1 DEF BeginDownload, Begin, AllOps, Counted, Labels
<1>5. CASE RecordArtifact(p)
  <2>1. artifact' \subseteq live \X Kinds
    BY <1>0, <1>5, OpsAssumption DEF RecordArtifact, TablesOK, Kinds
  <2>2. TablesOK' BY <1>0, <1>5, <2>1 DEF RecordArtifact, TablesOK, Release
  <2>3. LocalsOK' BY <1>0, <1>5, FinishTypes DEF RecordArtifact, Release
  <2> QED BY <2>2, <2>3, TypeSplitNext
<1>6. CASE ListArtifacts(p)
  <2>2. TablesOK' /\ UNCHANGED rows BY <1>0, <1>6 DEF ListArtifacts, TablesOK, Release, tables
  <2>3. LocalsOK'
    <3>1. CASE Finish(p) BY <1>0, <2>2, <3>1, FinishTypes DEF Release
    <3>2. CASE Goto(p, "publish") /\ UNCHANGED <<op, req, tries, target, victims, cutoff, toAsk>>
      BY <1>0, <2>2, <3>2 DEF LocalsOK, Goto, Labels, Release
    <3> QED BY <1>6, <3>1, <3>2 DEF ListArtifacts
  <2> QED BY <2>2, <2>3, TypeSplitNext
<1>7. CASE PublishRelease(p)
  <2>1. /\ published' \subseteq live /\ draft' \subseteq live \ published' /\ overtaken' \subseteq Release
    BY <1>0, <1>7 DEF PublishRelease, MarkPublished, TablesOK
  <2>2. TablesOK' BY <1>0, <1>7, <2>1 DEF PublishRelease, TablesOK, Release
  <2>3. LocalsOK' BY <1>0, <1>7, FinishTypes DEF PublishRelease, Release
  <2> QED BY <2>2, <2>3, TypeSplitNext
<1>8. CASE RecordDownload(p)
  <2>1. downloaded' \subseteq live BY <1>0, <1>8 DEF RecordDownload, TablesOK
  <2>2. TablesOK' BY <1>0, <1>8, <2>1 DEF RecordDownload, TablesOK, Release
  <2>3. LocalsOK' BY <1>0, <1>8, FinishTypes DEF RecordDownload, Release
  <2> QED BY <2>2, <2>3, TypeSplitNext
<1> QED BY <1>2, <1>3, <1>4, <1>5, <1>6, <1>7, <1>8

\* Evictions.
LEMMA EvictionTypes ==
    ASSUME TypeOK, NEW p \in Process,
           BeginSweep(p) \/ ListEvictable(p) \/ BeginDeletedBranches(p) \/ AskGitHub(p) \/ EvictBatch(p) \/ Fail(p)
    PROVE  TypeOK'
<1>0. TablesOK /\ LocalsOK BY TypeSplit
<1>1. CASE BeginSweep(p)
  <2>1. PICK o \in {"sweep", "gc"} : Begin(p, o) BY <1>1 DEF BeginSweep
  <2>2. ListAbandonedReleases(old) \subseteq Release /\ old \subseteq Release
    BY <1>0 DEF TablesOK, ListAbandonedReleases
  <2>3. TablesOK' BY <1>0, <1>1 DEF BeginSweep, TablesOK, Release, tables
  <2>4. LocalsOK' BY <1>0, <1>1, <2>1, <2>2 DEF BeginSweep, Begin, LocalsOK, Release, tables, Goto, Labels, AllOps, Gated
  <2> QED BY <2>3, <2>4, TypeSplitNext
<1>2. CASE ListEvictable(p)
  <2> DEFINE ids == victims[p] \cup ListEvictableReleases(cutoff[p])
  <2>1. ids \subseteq Release BY <1>0 DEF TablesOK, LocalsOK, ListEvictableReleases
  <2>2. TablesOK' /\ UNCHANGED rows BY <1>0, <1>2 DEF ListEvictable, TablesOK, Release, tables
  <2>3. LocalsOK'
    <3>1. CASE Finish(p) BY <1>0, <2>2, <3>1, FinishTypes DEF Release
    <3>2. CASE /\ victims' = [victims EXCEPT ![p] = ids]
               /\ cutoff' = [cutoff EXCEPT ![p] = {}]
               /\ Goto(p, "evict")
               /\ UNCHANGED <<op, req, tries, target, toAsk>>
      <4> HIDE DEF ids
      <4> QED BY <1>0, <2>1, <2>2, <3>2 DEF LocalsOK, Goto, Labels, Release
    <3> QED BY <1>2, <3>1, <3>2 DEF ListEvictable
  <2> QED BY <2>2, <2>3, TypeSplitNext
<1>3. CASE BeginDeletedBranches(p)
  <2> DEFINE ids == ListNonDefaultBranchReleases(old)
             qs == {<<rows[r].project, rows[r].branch>> : r \in ids}
  <2>1. ids \subseteq Release BY <1>0 DEF TablesOK, ListNonDefaultBranchReleases
  <2>2. qs \subseteq Project \X Branch
    <3>1. ASSUME NEW r \in ids PROVE rows[r].project \in Project /\ rows[r].branch \in Branch
      <4>1. rows[r] \in Row BY <1>0, <2>1 DEF TablesOK, Release
      <4> QED BY <4>1 DEF ListNonDefaultBranchReleases, Row
    <3> QED BY <3>1
  <2>3. TablesOK' BY <1>0, <1>3 DEF BeginDeletedBranches, TablesOK, Release, tables
  <2>4. /\ victims' = [victims EXCEPT ![p] = ids] /\ toAsk' = [toAsk EXCEPT ![p] = qs]
        /\ op' = [op EXCEPT ![p] = "branches"] /\ Goto(p, "ask")
        /\ UNCHANGED <<rows, req, tries, target, cutoff>>
    BY <1>3 DEF BeginDeletedBranches, Begin, tables
  <2> HIDE DEF ids, qs
  <2>5. LocalsOK' BY <1>0, <2>1, <2>2, <2>4 DEF LocalsOK, Release, Goto, Labels, AllOps, Gated
  <2> QED BY <2>3, <2>5, TypeSplitNext
<1>4. CASE AskGitHub(p)
  <2>2. TablesOK' /\ UNCHANGED rows BY <1>0, <1>4 DEF AskGitHub, TablesOK, Release, tables
  <2>3. LocalsOK'
    <3>1. CASE Finish(p) BY <1>0, <2>2, <3>1, FinishTypes DEF Release
    <3>2. ASSUME NEW ids \in SUBSET victims[p], NEW l \in Labels, NEW q,
               /\ victims' = [victims EXCEPT ![p] = ids]
               /\ toAsk' = [toAsk EXCEPT ![p] = toAsk[p] \ {q}]
               /\ Goto(p, l)
               /\ UNCHANGED <<op, req, tries, target, cutoff>>
          PROVE LocalsOK'
      <4>1. ids \in SUBSET Release /\ toAsk[p] \ {q} \in SUBSET (Project \X Branch)
        BY <1>0 DEF LocalsOK
      <4> QED BY <1>0, <2>2, <3>2, <4>1 DEF LocalsOK, Goto, Release
    <3>3. PICK q \in toAsk[p], answered \in BOOLEAN :
            LET on == {r \in victims[p] : <<rows[r].project, rows[r].branch>> = q}
                ids == IF answered /\ q[2] \notin remote THEN victims[p] ELSE victims[p] \ on
            IN  IF toAsk[p] = {q} /\ ids = {}
                THEN Finish(p)
                ELSE /\ victims' = [victims EXCEPT ![p] = ids]
                     /\ toAsk' = [toAsk EXCEPT ![p] = toAsk[p] \ {q}]
                     /\ Goto(p, IF toAsk[p] = {q} THEN "evict" ELSE "ask")
                     /\ UNCHANGED <<op, req, tries, target, cutoff>>
      BY <1>4, ZenonT(30) DEF AskGitHub
    <3> DEFINE on == {r \in victims[p] : <<rows[r].project, rows[r].branch>> = q}
               ids == IF answered /\ q[2] \notin remote THEN victims[p] ELSE victims[p] \ on
               l == IF toAsk[p] = {q} THEN "evict" ELSE "ask"
    <3>4. ids \in SUBSET victims[p] /\ l \in Labels BY DEF Labels
    <3>5. \/ Finish(p)
          \/ /\ victims' = [victims EXCEPT ![p] = ids]
             /\ toAsk' = [toAsk EXCEPT ![p] = toAsk[p] \ {q}]
             /\ Goto(p, l)
             /\ UNCHANGED <<op, req, tries, target, cutoff>>
      BY <3>3, Zenon
    <3> HIDE DEF on, ids, l
    <3> QED BY <3>1, <3>2, <3>4, <3>5
  <2> QED BY <2>2, <2>3, TypeSplitNext
<1>5. CASE EvictBatch(p)
  <2>1. PICK batch \in SUBSET victims[p] :
          IF batch \cap live \cap downloaded # {}
          THEN Finish(p) /\ UNCHANGED <<live, published, draft, old, artifact, tag>>
          ELSE /\ DeleteRows(batch)
               /\ IF batch = victims[p]
                  THEN Finish(p)
                  ELSE /\ victims' = [victims EXCEPT ![p] = victims[p] \ batch]
                       /\ UNCHANGED <<pc, op, req, tries, target, cutoff, toAsk>>
    BY <1>5 DEF EvictBatch
  <2>2. UNCHANGED <<rows, downloaded, remote, overtaken>> BY <1>5 DEF EvictBatch
  <2>3. TablesOK'
    <3>1. CASE UNCHANGED <<live, published, draft, old, artifact, tag>>
      BY <1>0, <2>2, <3>1 DEF TablesOK, Release
    <3>2. CASE DeleteRows(batch) /\ batch \cap live \cap downloaded = {}
      <4>1. artifact' \subseteq live' \X Kinds
        BY <1>0, <3>2 DEF DeleteRows, TablesOK
      <4>2. tag' \in [Project \X Tag -> live' \cup {0}]
        BY <1>0, <3>2 DEF DeleteRows, TablesOK
      <4>3. /\ live' \subseteq Release /\ published' \subseteq live' /\ old' \subseteq live'
            /\ draft' \subseteq live' \ published' /\ downloaded' \subseteq live'
        BY <1>0, <2>2, <3>2 DEF DeleteRows, TablesOK
      <4> QED BY <1>0, <2>2, <4>1, <4>2, <4>3 DEF TablesOK, Release
    <3> QED BY <2>1, <3>1, <3>2
  <2>4. LocalsOK'
    <3>1. CASE Finish(p) BY <1>0, <2>2, <3>1, FinishTypes DEF Release
    <3>2. CASE /\ victims' = [victims EXCEPT ![p] = victims[p] \ batch]
               /\ UNCHANGED <<pc, op, req, tries, target, cutoff, toAsk>>
      <4>1. victims[p] \ batch \in SUBSET Release BY <1>0 DEF LocalsOK
      <4> QED BY <1>0, <2>2, <3>2, <4>1 DEF LocalsOK, Release
    <3> QED BY <2>1, <3>1, <3>2
  <2> QED BY <2>3, <2>4, TypeSplitNext
<1>6. CASE Fail(p)
  <2>2. TablesOK' /\ UNCHANGED rows BY <1>0, <1>6 DEF Fail, TablesOK, Release, tables
  <2>3. LocalsOK' BY <1>0, <1>6, <2>2, FinishTypes DEF Fail, Release
  <2> QED BY <2>2, <2>3, TypeSplitNext
<1> QED BY <1>1, <1>2, <1>3, <1>4, <1>5, <1>6

\* Time and GitHub.
LEMMA WorldTypes ==
    ASSUME TypeOK, Age \/ DropBranch \/ PushBranch \/ UNCHANGED vars
    PROVE  TypeOK'
<1>0. TablesOK /\ LocalsOK BY TypeSplit
<1>1. TablesOK' BY <1>0 DEF Age, DropBranch, PushBranch, vars, tables, TablesOK, Release
<1>2. LocalsOK' BY <1>0 DEF Age, DropBranch, PushBranch, vars, tables, locals, LocalsOK, Release
<1> QED BY <1>1, <1>2, TypeSplitNext

\* Every step keeps the types.
LEMMA TypeStep == TypeOK /\ [Next]_vars => TypeOK'
<1> SUFFICES ASSUME TypeOK, [Next]_vars PROVE TypeOK' OBVIOUS
<1>1. ASSUME NEW p \in Process, Step(p) PROVE TypeOK'
  BY <1>1, CreateTypes, InsertTypes, DockerTypes, RequestTypes, EvictionTypes DEF Step
<1> QED BY <1>1, WorldTypes DEF Next

\* The foreign keys of artifacts, download events and tags hold, and no release is
\* both a draft and published, whatever requests, sweeps and failures interleave.
THEOREM TypeCorrect == Spec => []TypeOK
BY TypeInit, TypeStep, PTL DEF Spec

(***************************************************************************)
(* What evictions have listed                                              *)
(***************************************************************************)

Policy      == {"sweep", "gc"}
Evictions   == Policy \cup {"branches"}
EvictLabels == {"evictable", "ask", "evict"}

\* No release of the project's default branch was published while listed.
Undisturbed(project) == \A s \in overtaken : rows[s].project = project => rows[s].branch # DefaultBranch

\* A published release a sweep has listed is not the newest of its branch.
NotTheTip(v) ==
    rows[v].branch = DefaultBranch /\ Undisturbed(rows[v].project) => NewerPublished(v) # {}

\* Who lists, and what is on its list: for a deleted branch only builds of other
\* branches, by policy no draft and no newest build of the default branch.
ListOK(p) ==
    /\ pc[p] = "evictable" => op[p] \in Policy
    /\ pc[p] = "ask" => op[p] = "branches"
    /\ pc[p] = "evict" => op[p] \in Evictions
    /\ op[p] = "branches" => \A r \in victims[p] : rows[r].branch \notin {NoBranch, DefaultBranch}
    /\ op[p] \in Policy =>
         /\ victims[p] \cap draft = {}
         /\ \A v \in victims[p] \cap live \cap published : NotTheTip(v)

\* The lists of all processes.
ListsOK == \A p \in Process : ListOK(p)

\* A bounded set of numbers has a largest one.
LEMMA Largest ==
    ASSUME NEW S, S \subseteq Nat, S # {}, NEW n \in Nat, \A x \in S : x <= n
    PROVE  \E x \in S : \A y \in S : y <= x
<1>. DEFINE T == {m \in Nat : n - m \in S}
<1>1. \A s \in S : s \in Nat /\ n - s \in Nat /\ n - (n - s) = s
  OBVIOUS
<1>2. T # {}
  BY <1>1
<1>3. PICK x \in T : \A y \in T : ~(<<y, x>> \in OpToRel(<, Nat))
  <2>. HIDE DEF T
  <2>1. T \subseteq Nat
    BY DEF T
  <2>. QED BY <1>2, <2>1, NatLessThanWellFounded, WFMin
<1>4. \A y \in T : ~(y < x)
  BY <1>3 DEF OpToRel
<1>5. \A t \in S : t <= n - x
  BY <1>1, <1>4
<1>. QED BY <1>5

\* Of some releases one has the highest number.
LEMMA HighestRow ==
    ASSUME NEW rs \in Seq(Row), NEW S, S \subseteq DOMAIN rs, S # {}
    PROVE  \E s \in S : \A t \in S : rs[t].num <= rs[s].num
<1> DEFINE N == {rs[t].num : t \in S}
<1>1. ASSUME NEW t \in S PROVE rs[t].num \in Nat /\ rs[t].num <= MaxNum
  <2>1. rs[t] \in Row OBVIOUS
  <2> QED BY <2>1, BoundsAssumption DEF Row, Versions
<1>2. N \subseteq Nat /\ N # {} /\ MaxNum \in Nat /\ \A x \in N : x <= MaxNum
  BY <1>1, BoundsAssumption
<1>3. PICK x \in N : \A y \in N : y <= x
  <2> HIDE DEF N
  <2> QED BY <1>2, Largest
<1> QED BY <1>3

\* A row has a number.
LEMMA RowNum ==
    ASSUME TypeOK, NEW r \in Release
    PROVE  rows[r] \in Row /\ rows[r].num \in Nat /\ rows[r].num <= MaxNum
<1>1. rows[r] \in Row BY DEF TypeOK, Release
<1> QED BY <1>1, BoundsAssumption DEF Row, Versions

\* The larger of two numbers.
LEMMA MaxOfTwo ==
    ASSUME NEW a \in Nat, NEW b \in Nat
    PROVE  Max({a, b}) \in {a, b} /\ Max({a, b}) >= a /\ Max({a, b}) >= b
BY DEF Max

\* A step that deletes nothing and lists nothing: rows stay as they are, a draft is
\* new, and a listed release that is published is marked.
LEMMA QuietStep ==
    ASSUME TypeOK, ListsOK,
           Release \subseteq Release', \A r \in Release : rows'[r] = rows[r],
           live \subseteq live', published \subseteq published', overtaken \subseteq overtaken',
           \A r \in Release : r \in draft' => r \in draft,
           \A r \in Release : r \in live' => r \in live,
           \A r \in published' \ published : (\E p \in Process : r \in victims[p]) => r \in overtaken',
           \A p \in Process : \/ op'[p] \notin Evictions
                              \/ op'[p] = op[p] /\ victims'[p] = victims[p],
           \A p \in Process : \/ pc'[p] \notin EvictLabels
                              \/ pc'[p] = pc[p] /\ op'[p] = op[p]
    PROVE  ListsOK'
<1> SUFFICES ASSUME NEW p \in Process PROVE ListOK(p)'
  BY DEF ListsOK
<1>0. ListOK(p) BY DEF ListsOK
<1>1. victims[p] \subseteq Release /\ live \subseteq Release /\ overtaken \subseteq Release BY DEF TypeOK
<1>2. /\ pc'[p] = "evictable" => op'[p] \in Policy
      /\ pc'[p] = "ask" => op'[p] = "branches"
      /\ pc'[p] = "evict" => op'[p] \in Evictions
  BY <1>0 DEF ListOK, EvictLabels
<1>3. op'[p] = "branches" => \A r \in victims'[p] : rows'[r].branch \notin {NoBranch, DefaultBranch}
  BY <1>0, <1>1 DEF ListOK, Evictions
<1>4. ASSUME op'[p] \in Policy, NEW v \in victims'[p], v \in live', v \in published',
             rows'[v].branch = DefaultBranch, Undisturbed(rows[v].project)'
      PROVE  NewerPublished(v)' # {}
  <2>1. op'[p] = op[p] /\ v \in victims[p] /\ v \in Release BY <1>1, <1>4 DEF Evictions
  <2>2. v \in live /\ rows'[v] = rows[v] BY <1>4, <2>1
  <2>3. v \notin overtaken' BY <1>4, <2>2 DEF Undisturbed
  <2>4. v \in published BY <2>1, <2>3, <1>4
  <2>5. Undisturbed(rows[v].project)
    <3>1. ASSUME NEW s \in overtaken, rows[s].project = rows[v].project PROVE rows[s].branch # DefaultBranch
      <4>1. s \in overtaken' /\ rows'[s] = rows[s] BY <1>1
      <4> QED BY <1>4, <2>2, <3>1, <4>1 DEF Undisturbed
    <3> QED BY <3>1 DEF Undisturbed
  <2>6. PICK s \in NewerPublished(v) : TRUE
    BY <1>0, <1>4, <2>1, <2>2, <2>4, <2>5 DEF ListOK, NotTheTip
  <2>7. s \in live /\ s \in published /\ SameLine(v, s) /\ rows[s].num > rows[v].num
    BY DEF NewerPublished
  <2>8. rows'[s] = rows[s] /\ s \in live' /\ s \in published' BY <1>1, <2>7
  <2>9. s \in NewerPublished(v)'
    BY <2>2, <2>7, <2>8 DEF NewerPublished, SameLine
  <2> QED BY <2>9
<1>5. op'[p] \in Policy => victims'[p] \cap draft' = {}
  BY <1>0, <1>1 DEF ListOK, Evictions
<1>6. ASSUME op'[p] \in Policy, NEW v \in victims'[p] \cap live' \cap published' PROVE NotTheTip(v)'
  <2>1. v \in Release /\ rows'[v] = rows[v] BY <1>1, <1>6 DEF Evictions
  <2> QED BY <1>4, <1>6, <2>1 DEF NotTheTip, Undisturbed
<1> QED BY <1>2, <1>3, <1>5, <1>6 DEF ListOK

\* The requests, time, GitHub, and whatever ends.
LEMMA RequestLists ==
    ASSUME TypeOK, ListsOK, NEW p \in Process,
           \/ BeginCreate(p) \/ Repick(p) \/ BeginPush(p) \/ BeginRetag(p)
           \/ DockerArtifact(p) \/ SetTag(p) \/ BeginUpload(p) \/ RecordArtifact(p) \/ BeginPublish(p)
           \/ ListArtifacts(p) \/ BeginDownload(p) \/ RecordDownload(p) \/ Fail(p)
    PROVE  ListsOK'
<1>1. UNCHANGED <<rows, live, published, draft, overtaken>>
  BY DEF BeginCreate, Repick, BeginPush, BeginRetag, DockerArtifact, SetTag, BeginUpload, RecordArtifact,
         BeginPublish, ListArtifacts, BeginDownload, RecordDownload, Fail, tables
<1>2. \/ /\ \E o \in Counted \cup {"download"} : op' = [op EXCEPT ![p] = o]
         /\ \E l \in Labels \ EvictLabels : pc' = [pc EXCEPT ![p] = l]
         /\ UNCHANGED victims
      \/ /\ UNCHANGED <<op, victims>>
         /\ \E l \in Labels \ EvictLabels : pc' = [pc EXCEPT ![p] = l]
      \/ Finish(p)
  <2>1. {"insert", "dtag", "dpublish", "artifact", "list", "publish", "event"} \subseteq Labels \ EvictLabels
    BY DEF Labels, EvictLabels
  <2>2. CASE BeginCreate(p) \/ BeginPush(p) \/ BeginRetag(p) \/ BeginUpload(p) \/ BeginPublish(p) \/ BeginDownload(p)
    BY <2>1, <2>2 DEF BeginCreate, BeginPush, BeginRetag, BeginUpload, BeginPublish, BeginDownload, Begin, Goto, Counted
  <2>3. CASE Repick(p) \/ DockerArtifact(p)
    BY <2>1, <2>3 DEF Repick, DockerArtifact, Goto
  <2>4. CASE SetTag(p) \/ RecordArtifact(p) \/ ListArtifacts(p) \/ RecordDownload(p) \/ Fail(p)
    BY <2>1, <2>4 DEF SetTag, RecordArtifact, ListArtifacts, RecordDownload, Fail, Goto
  <2> QED BY <2>2, <2>3, <2>4
<1>3. \A q \in Process : op'[q] \notin Evictions \/ (op'[q] = op[q] /\ victims'[q] = victims[q])
  BY <1>2 DEF TypeOK, Finish, Evictions, Policy, Counted
<1>4. \A q \in Process : pc'[q] \notin EvictLabels \/ (pc'[q] = pc[q] /\ op'[q] = op[q])
  BY <1>2 DEF TypeOK, Finish, EvictLabels
<1> QED BY <1>1, <1>3, <1>4, QuietStep DEF Release

\* Publishing.
LEMMA PublishLists ==
    ASSUME TypeOK, ListsOK, NEW p \in Process, DockerPublish(p) \/ PublishRelease(p)
    PROVE  ListsOK'
<1>1. UNCHANGED <<rows, live>> /\ MarkPublished(target[p]) BY DEF DockerPublish, PublishRelease
<1>2. /\ published \subseteq published' /\ overtaken \subseteq overtaken' /\ draft' \subseteq draft
      /\ \A r \in published' \ published : (\E q \in Process : r \in victims[q]) => r \in overtaken'
  BY <1>1 DEF MarkPublished
<1>3. Finish(p) \/ (Goto(p, "dtag") /\ UNCHANGED <<op, victims>>) BY DEF DockerPublish, PublishRelease
<1>4. \A q \in Process : op'[q] \notin Evictions \/ (op'[q] = op[q] /\ victims'[q] = victims[q])
  BY <1>3 DEF TypeOK, Finish, Evictions, Policy
<1>5. \A q \in Process : pc'[q] \notin EvictLabels \/ (pc'[q] = pc[q] /\ op'[q] = op[q])
  BY <1>3 DEF TypeOK, Finish, EvictLabels, Goto
<1> QED BY <1>1, <1>2, <1>4, <1>5, QuietStep DEF Release

\* The insert.
LEMMA InsertLists ==
    ASSUME TypeOK, ListsOK, NEW p \in Process, Insert(p)
    PROVE  ListsOK'
<1>1. UNCHANGED <<published, overtaken>> BY DEF Insert
<1>2. req[p] \in Row /\ rows \in Seq(Row) /\ draft \subseteq Release /\ live \subseteq Release BY DEF TypeOK
<1>3. /\ Release \subseteq Release' /\ \A r \in Release : rows'[r] = rows[r]
      /\ live \subseteq live' /\ \A r \in Release : (r \in draft' => r \in draft) /\ (r \in live' => r \in live)
  <2>1. CASE Conflict(p) BY <2>1 DEF Insert, Release
  <2>2. CASE ~Conflict(p)
    <3>1. /\ rows' = Append(rows, req[p])
          /\ live' = live \cup {Len(rows) + 1}
          /\ draft' = IF op[p] = "draft" THEN draft \cup {Len(rows) + 1} ELSE draft
      BY <2>2 DEF Insert
    <3>2. Len(rows) + 1 \notin Release /\ Release \subseteq Release' /\ \A r \in Release : rows'[r] = rows[r]
      BY <1>2, <3>1, AppendedRow
    <3> QED BY <3>1, <3>2
  <2> QED BY <2>1, <2>2
<1>4. \/ Finish(p) \/ (Goto(p, "repick") /\ UNCHANGED <<op, victims>>)
      \/ (Goto(p, "dartifact") /\ UNCHANGED <<op, victims>>)
  BY DEF Insert
<1>5. \A q \in Process : op'[q] \notin Evictions \/ (op'[q] = op[q] /\ victims'[q] = victims[q])
  BY <1>4 DEF TypeOK, Finish, Evictions, Policy
<1>6. \A q \in Process : pc'[q] \notin EvictLabels \/ (pc'[q] = pc[q] /\ op'[q] = op[q])
  BY <1>4 DEF TypeOK, Finish, EvictLabels, Goto
<1> QED BY <1>1, <1>3, <1>5, <1>6, QuietStep

\* A step of one process that changes no table.
LEMMA OneListStep ==
    ASSUME TypeOK, ListsOK, NEW p \in Process, UNCHANGED <<rows, live, published, draft, overtaken>>,
           \A q \in Process \ {p} : pc'[q] = pc[q] /\ op'[q] = op[q] /\ victims'[q] = victims[q],
           ListOK(p)'
    PROVE  ListsOK'
<1> SUFFICES ASSUME NEW q \in Process, q # p PROVE ListOK(q)'
  BY DEF ListsOK
<1>1. ListOK(q) BY DEF ListsOK
<1>2. pc'[q] = pc[q] /\ op'[q] = op[q] /\ victims'[q] = victims[q] OBVIOUS
<1>3. \A v : NotTheTip(v)' = NotTheTip(v)
  BY DEF NotTheTip, Undisturbed, NewerPublished, SameLine
<1> QED BY <1>1, <1>2, <1>3 DEF ListOK

\* What an eviction lists.
LEMMA ListingLists ==
    ASSUME TypeOK, ListsOK, NEW p \in Process,
           BeginSweep(p) \/ ListEvictable(p) \/ BeginDeletedBranches(p) \/ AskGitHub(p)
    PROVE  ListsOK'
<1>0. ListOK(p) BY DEF ListsOK
<1>1. UNCHANGED <<rows, live, published, draft, overtaken>>
  BY DEF BeginSweep, ListEvictable, BeginDeletedBranches, AskGitHub, tables
<1>2. \A v : NotTheTip(v)' = NotTheTip(v)
  BY <1>1 DEF NotTheTip, Undisturbed, NewerPublished, SameLine
<1>3. CASE BeginSweep(p)
  <2>1. PICK o \in Policy : Begin(p, o) BY <1>3 DEF BeginSweep, Policy
  <2>2. /\ victims' = [victims EXCEPT ![p] = ListAbandonedReleases(old)] /\ Goto(p, "evictable")
        /\ op' = [op EXCEPT ![p] = o]
    BY <1>3, <2>1 DEF BeginSweep, Begin
  <2>3. pc'[p] = "evictable" /\ op'[p] = o /\ victims'[p] = ListAbandonedReleases(old)
    BY <2>2 DEF TypeOK, Goto
  <2>4. ListOK(p)' BY <1>1, <2>3 DEF ListOK, ListAbandonedReleases, Policy
  <2> QED BY <1>1, <2>2, <2>4, OneListStep DEF TypeOK, Goto
<1>4. CASE ListEvictable(p)
  <2>1. CASE Finish(p)
    <3>1. pc'[p] = "idle" /\ op'[p] = "none" BY <2>1 DEF TypeOK, Finish
    <3>2. ListOK(p)' BY <3>1 DEF ListOK, Policy
    <3> QED BY <1>1, <2>1, <3>2, OneListStep DEF TypeOK, Finish
  <2>2. CASE ~Finish(p)
    <3> DEFINE ids == victims[p] \cup ListEvictableReleases(cutoff[p])
    <3>1. victims' = [victims EXCEPT ![p] = ids] /\ Goto(p, "evict") /\ UNCHANGED op /\ pc[p] = "evictable"
      BY <1>4, <2>2 DEF ListEvictable
    <3>2. pc'[p] = "evict" /\ op'[p] = op[p] /\ victims'[p] = ids /\ op[p] \in Policy
      BY <1>0, <3>1 DEF TypeOK, Goto, ListOK
    <3>3. ASSUME NEW v \in ListEvictableReleases(cutoff[p]) PROVE NewerPublished(v) # {} /\ v \in published
      <4>1. Cardinality(NewerPublished(v)) >= Max({KeepN, 1}) /\ v \in published BY DEF ListEvictableReleases
      <4>2. Max({KeepN, 1}) \in Nat /\ Max({KeepN, 1}) >= 1 BY MaxOfTwo, BoundsAssumption
      <4>3. Cardinality({}) = 0 BY FS_EmptySet
      <4> QED BY <4>1, <4>2, <4>3
    <3>4. ids \cap draft = {} BY <1>0, <3>2, <3>3 DEF ListOK, TypeOK
    <3>5. \A v \in ids \cap live \cap published : NotTheTip(v) BY <1>0, <3>2, <3>3 DEF ListOK, NotTheTip
    <3> HIDE DEF ids
    <3>6. ListOK(p)' BY <1>1, <1>2, <3>2, <3>4, <3>5 DEF ListOK, Evictions, Policy
    <3> QED BY <1>1, <3>1, <3>6, OneListStep DEF TypeOK, Goto
  <2> QED BY <2>1, <2>2
<1>5. CASE BeginDeletedBranches(p)
  <2> DEFINE ids == ListNonDefaultBranchReleases(old)
  <2>1. /\ victims' = [victims EXCEPT ![p] = ids] /\ Goto(p, "ask") /\ op' = [op EXCEPT ![p] = "branches"]
    BY <1>5 DEF BeginDeletedBranches, Begin
  <2>2. pc'[p] = "ask" /\ op'[p] = "branches" /\ victims'[p] = ids BY <2>1 DEF TypeOK, Goto
  <2>3. \A r \in ids : rows[r].branch \notin {NoBranch, DefaultBranch} BY DEF ListNonDefaultBranchReleases
  <2> HIDE DEF ids
  <2>4. ListOK(p)' BY <1>1, <2>2, <2>3 DEF ListOK, Policy
  <2> QED BY <1>1, <2>1, <2>4, OneListStep DEF TypeOK, Goto
<1>6. CASE AskGitHub(p)
  <2>1. CASE Finish(p)
    <3>1. pc'[p] = "idle" /\ op'[p] = "none" BY <2>1 DEF TypeOK, Finish
    <3>2. ListOK(p)' BY <3>1 DEF ListOK, Policy
    <3> QED BY <1>1, <2>1, <3>2, OneListStep DEF TypeOK, Finish
  <2>2. CASE ~Finish(p)
    <3>1. PICK ids \in SUBSET victims[p], l \in {"ask", "evict"} :
             victims' = [victims EXCEPT ![p] = ids] /\ Goto(p, l) /\ UNCHANGED op /\ pc[p] = "ask"
      <4>1. PICK q \in toAsk[p], answered \in BOOLEAN :
              LET on == {r \in victims[p] : <<rows[r].project, rows[r].branch>> = q}
                  ids == IF answered /\ q[2] \notin remote THEN victims[p] ELSE victims[p] \ on
              IN  IF toAsk[p] = {q} /\ ids = {}
                  THEN Finish(p)
                  ELSE /\ victims' = [victims EXCEPT ![p] = ids]
                       /\ toAsk' = [toAsk EXCEPT ![p] = toAsk[p] \ {q}]
                       /\ Goto(p, IF toAsk[p] = {q} THEN "evict" ELSE "ask")
                       /\ UNCHANGED <<op, req, tries, target, cutoff>>
        BY <1>6, ZenonT(30) DEF AskGitHub
      <4> DEFINE on == {r \in victims[p] : <<rows[r].project, rows[r].branch>> = q}
                 ids == IF answered /\ q[2] \notin remote THEN victims[p] ELSE victims[p] \ on
                 l == IF toAsk[p] = {q} THEN "evict" ELSE "ask"
      <4>2. ids \in SUBSET victims[p] /\ l \in {"ask", "evict"} OBVIOUS
      <4>3. victims' = [victims EXCEPT ![p] = ids] /\ Goto(p, l) /\ UNCHANGED op BY <2>2, <4>1, Zenon
      <4>4. pc[p] = "ask" BY <1>6 DEF AskGitHub
      <4> HIDE DEF on, ids, l
      <4> QED BY <4>2, <4>3, <4>4
    <3>2. pc'[p] = l /\ op'[p] = op[p] /\ victims'[p] = ids /\ op[p] = "branches"
      BY <1>0, <3>1 DEF TypeOK, Goto, ListOK
    <3>3. ListOK(p)' BY <1>0, <1>1, <3>2 DEF ListOK, Evictions, Policy
    <3> QED BY <1>1, <3>1, <3>3, OneListStep DEF TypeOK, Goto
  <2> QED BY <2>1, <2>2
<1> QED BY <1>3, <1>4, <1>5, <1>6

\* What a transaction of an eviction deletes.
LEMMA BatchFacts ==
    ASSUME TypeOK, ListsOK, NEW p \in Process, EvictBatch(p)
    PROVE  /\ UNCHANGED <<rows, overtaken>>
           /\ pc[p] = "evict" /\ op[p] \in Evictions
           /\ \E batch \in SUBSET victims[p] :
                 live' = live \ batch /\ published' = published \ batch /\ draft' = draft \ batch
           /\ \A q \in Process : \/ pc'[q] = pc[q] /\ op'[q] = op[q] /\ victims'[q] \subseteq victims[q]
                                 \/ pc'[q] = "idle" /\ op'[q] = "none"
<1>0. ListOK(p) BY DEF ListsOK
<1>1. PICK batch \in SUBSET victims[p] :
        IF batch \cap live \cap downloaded # {}
        THEN Finish(p) /\ UNCHANGED <<live, published, draft, old, artifact, tag>>
        ELSE /\ DeleteRows(batch)
             /\ IF batch = victims[p]
                THEN Finish(p)
                ELSE /\ victims' = [victims EXCEPT ![p] = victims[p] \ batch]
                     /\ UNCHANGED <<pc, op, req, tries, target, cutoff, toAsk>>
  BY DEF EvictBatch
<1>2. \E b \in SUBSET victims[p] : live' = live \ b /\ published' = published \ b /\ draft' = draft \ b
  <2>1. CASE UNCHANGED <<live, published, draft, old, artifact, tag>>
    <3>1. {} \in SUBSET victims[p] /\ live' = live \ {} /\ published' = published \ {} /\ draft' = draft \ {}
      BY <2>1
    <3> QED BY <3>1
  <2>2. CASE DeleteRows(batch) BY <2>2 DEF DeleteRows
  <2> QED BY <1>1, <2>1, <2>2
<1>3. \A q \in Process : \/ pc'[q] = pc[q] /\ op'[q] = op[q] /\ victims'[q] \subseteq victims[q]
                         \/ pc'[q] = "idle" /\ op'[q] = "none"
  <2>1. CASE Finish(p) BY <2>1 DEF TypeOK, Finish
  <2>2. CASE victims' = [victims EXCEPT ![p] = victims[p] \ batch] /\ UNCHANGED <<pc, op>>
    BY <2>2 DEF TypeOK
  <2> QED BY <1>1, <2>1, <2>2
<1> QED BY <1>0, <1>2, <1>3 DEF EvictBatch, ListOK

\* A batch leaves the newest build of a default branch, so that what it passes over
\* is still not the newest: the newest of the builds that are newer than a listed
\* one is on no list of a policy, and a deleted branch is another one.
LEMMA BatchKeepsTip ==
    ASSUME TypeOK, ListsOK, NEW p \in Process, EvictBatch(p),
           NEW r \in live, r \in published, rows[r].branch = DefaultBranch, Undisturbed(rows[r].project),
           NewerPublished(r) # {}
    PROVE  NewerPublished(r)' # {}
<1>1. PICK batch \in SUBSET victims[p] : live' = live \ batch /\ published' = published \ batch BY BatchFacts
<1>2. UNCHANGED <<rows, overtaken>> /\ op[p] \in Evictions BY BatchFacts
<1>3. rows \in Seq(Row) /\ live \subseteq Release BY DEF TypeOK
<1>4. NewerPublished(r) \subseteq Release BY <1>3 DEF NewerPublished
<1>5. PICK s \in NewerPublished(r) : \A t \in NewerPublished(r) : rows[t].num <= rows[s].num
  BY <1>3, <1>4, HighestRow DEF Release
<1>6. s \in live /\ s \in published /\ SameLine(r, s) /\ rows[s].num > rows[r].num BY DEF NewerPublished
<1>7. ASSUME s \in batch PROVE FALSE
  <2>1. ListOK(p) BY DEF ListsOK
  <2>2. rows[s].branch = DefaultBranch /\ rows[s].project = rows[r].project BY <1>6 DEF SameLine
  <2>3. op[p] \in Policy BY <1>2, <1>7, <2>1, <2>2 DEF ListOK, Evictions
  <2>4. NotTheTip(s) BY <1>6, <1>7, <2>1, <2>3 DEF ListOK
  <2>5. PICK t \in NewerPublished(s) : TRUE BY <2>2, <2>4 DEF NotTheTip
  <2>6. t \in live /\ t \in published /\ SameLine(s, t) /\ rows[t].num > rows[s].num BY DEF NewerPublished
  <2>7. rows[r].num \in Nat /\ rows[s].num \in Nat /\ rows[t].num \in Nat BY <1>3, <1>6, <2>6, RowNum
  <2>8. t \in NewerPublished(r) BY <1>6, <2>6, <2>7 DEF NewerPublished, SameLine
  <2> QED BY <1>5, <2>6, <2>7, <2>8
<1>8. s \in NewerPublished(r)' BY <1>1, <1>2, <1>6, <1>7 DEF NewerPublished, SameLine
<1> QED BY <1>8

\* A batch.
LEMMA BatchLists ==
    ASSUME TypeOK, ListsOK, NEW p \in Process, EvictBatch(p)
    PROVE  ListsOK'
<1> SUFFICES ASSUME NEW q \in Process PROVE ListOK(q)'
  BY DEF ListsOK
<1>0. ListOK(q) BY DEF ListsOK
<1>1. /\ UNCHANGED <<rows, overtaken>> /\ live' \subseteq live /\ published' \subseteq published
      /\ draft' \subseteq draft
  BY BatchFacts
<1>2. CASE pc'[q] = "idle" /\ op'[q] = "none" BY <1>2 DEF ListOK, Policy
<1>3. CASE pc'[q] = pc[q] /\ op'[q] = op[q] /\ victims'[q] \subseteq victims[q]
  <2>1. ASSUME op[q] \in Policy, NEW v \in victims'[q] \cap live' \cap published' PROVE NotTheTip(v)'
    <3>1. v \in live /\ v \in published /\ NotTheTip(v) BY <1>0, <1>1, <1>3, <2>1 DEF ListOK
    <3> QED BY <1>1, <3>1, BatchKeepsTip DEF NotTheTip, Undisturbed
  <2> QED BY <1>0, <1>1, <1>3, <2>1 DEF ListOK
<1> QED BY <1>2, <1>3, BatchFacts

\* Time and GitHub.
LEMMA WorldLists ==
    ASSUME TypeOK, ListsOK, Age \/ DropBranch \/ PushBranch \/ UNCHANGED vars
    PROVE  ListsOK'
<1>1. UNCHANGED <<rows, live, published, draft, overtaken, pc, op, victims>>
  BY DEF Age, DropBranch, PushBranch, vars, tables, locals
<1> QED BY <1>1 DEF ListsOK, ListOK, NotTheTip, Undisturbed, NewerPublished, SameLine

\* Every step.
LEMMA ListsStep == TypeOK /\ ListsOK /\ [Next]_vars => ListsOK'
<1> SUFFICES ASSUME TypeOK, ListsOK, [Next]_vars PROVE ListsOK' OBVIOUS
<1>1. ASSUME NEW p \in Process, Step(p) PROVE ListsOK'
  BY <1>1, RequestLists, PublishLists, InsertLists, ListingLists, BatchLists DEF Step
<1> QED BY <1>1, WorldLists DEF Next

\* The types and the lists of a behaviour.
LEMMA ListsHold == Spec => [](TypeOK /\ ListsOK)
<1>1. Init => ListsOK BY DEF Init, ListsOK, ListOK, Policy
<1> QED BY <1>1, TypeInit, TypeStep, ListsStep, PTL DEF Spec

\* Rows stay as they were inserted.
LEMMA RowsStay ==
    ASSUME TypeOK, [Next]_vars
    PROVE  Release \subseteq Release' /\ \A r \in Release : rows'[r] = rows[r]
<1>1. ASSUME NEW p \in Process, Step(p) PROVE Release \subseteq Release' /\ \A r \in Release : rows'[r] = rows[r]
  <2>1. CASE Insert(p)
    <3>1. rows \in Seq(Row) /\ req[p] \in Row BY DEF TypeOK
    <3> QED BY <2>1, <3>1, AppendedRow DEF Insert, Release
  <2>2. CASE UNCHANGED rows BY <2>2 DEF Release
  <2> QED BY <1>1, <2>1, <2>2
    DEF Step, BeginCreate, Repick, BeginPush, BeginRetag, DockerArtifact, DockerPublish, SetTag, BeginUpload,
        RecordArtifact, BeginPublish, ListArtifacts, PublishRelease, BeginDownload, RecordDownload, Fail,
        BeginSweep, ListEvictable, BeginDeletedBranches, AskGitHub, EvictBatch, tables
<1>2. CASE Age \/ DropBranch \/ PushBranch \/ UNCHANGED vars
  BY <1>2 DEF Age, DropBranch, PushBranch, vars, tables, Release
<1> QED BY <1>1, <1>2 DEF Next

\* Only the batch of an eviction deletes releases, and it takes back no publish.
LEMMA OnlyBatchesDelete ==
    ASSUME TypeOK, ListsOK, [Next]_vars
    PROVE  \/ live \subseteq live' /\ published \subseteq published'
           \/ \E p \in Process : EvictBatch(p)
<1>1. ASSUME NEW p \in Process, Step(p), ~EvictBatch(p) PROVE live \subseteq live' /\ published \subseteq published'
  <2>1. CASE Insert(p) BY <2>1 DEF Insert
  <2>2. CASE DockerPublish(p) \/ PublishRelease(p) BY <2>2 DEF DockerPublish, PublishRelease, MarkPublished
  <2>3. CASE UNCHANGED <<live, published>> BY <2>3
  <2> QED BY <1>1, <2>1, <2>2, <2>3
    DEF Step, BeginCreate, Repick, BeginPush, BeginRetag, DockerArtifact, SetTag, BeginUpload, RecordArtifact,
        BeginPublish, ListArtifacts, BeginDownload, RecordDownload, Fail, BeginSweep, ListEvictable,
        BeginDeletedBranches, AskGitHub, tables
<1>2. CASE Age \/ DropBranch \/ PushBranch \/ UNCHANGED vars
  BY <1>2 DEF Age, DropBranch, PushBranch, vars, tables
<1> QED BY <1>1, <1>2 DEF Next

\* A draft leaves only with its deleted branch, and a build of the default branch
\* or a pushed image never leaves with one, for any projects, branches, releases
\* and processes (ListAbandonedReleases, ListNonDefaultBranchReleases).
THEOREM OwnersKeepTheirBuilds == Spec => OwnersBuildsAreKept
<1>1. ASSUME TypeOK, ListsOK, [Next]_vars, NEW r \in Evicted
      PROVE  /\ r \in draft => ~ByPolicy(r)
             /\ rows[r].branch \in {DefaultBranch, NoBranch} => ByPolicy(r)
  <2>1. PICK p \in Process : EvictBatch(p) BY <1>1, OnlyBatchesDelete DEF Evicted
  <2>2. pc[p] = "evict" /\ op[p] \in Evictions /\ r \in victims[p] BY <1>1, <2>1, BatchFacts DEF Evicted
  <2>3. ListOK(p) BY <1>1 DEF ListsOK
  <2>4. ASSUME r \in draft, ByPolicy(r) PROVE FALSE
    <3>1. PICK q \in Process : op[q] \in Policy /\ r \in victims[q] BY <2>4 DEF ByPolicy, Policy
    <3>2. ListOK(q) BY <1>1 DEF ListsOK
    <3> QED BY <2>4, <3>1, <3>2 DEF ListOK
  <2>5. ASSUME rows[r].branch \in {DefaultBranch, NoBranch} PROVE ByPolicy(r)
    BY <2>2, <2>3, <2>5 DEF ListOK, ByPolicy, Evictions, Policy
  <2> QED BY <2>4, <2>5
<1>2. TypeOK /\ ListsOK /\ [Next]_vars =>
        [\A r \in Evicted : /\ r \in draft => ~ByPolicy(r)
                            /\ rows[r].branch \in {DefaultBranch, NoBranch} => ByPolicy(r)]_vars
  BY <1>1
<1> QED BY <1>2, ListsHold, PTL DEF Spec, OwnersBuildsAreKept

\* Apex "latest" never goes back and never stops resolving, for any projects,
\* branches, releases and processes, unless a release of the default branch was
\* published while an eviction had it listed (GetLatestRelease, ListEvictableReleases).
THEOREM LatestOnlyAdvances == Spec => LatestNeverRegresses
<1>1. ASSUME TypeOK, ListsOK, TypeOK', [Next]_vars, NEW project \in Project, NEW r \in Latest(project),
             \A s \in overtaken : rows[s].project = project => rows[s].branch # DefaultBranch
      PROVE  \E s \in Latest(project)' : rows'[s].num >= rows[r].num
  <2>1. /\ r \in live /\ r \in published /\ rows[r].project = project /\ rows[r].branch = DefaultBranch
        /\ NewerPublished(r) = {} /\ Undisturbed(project) /\ r \in Release
    BY <1>1 DEF Latest, BranchTip, Undisturbed, TypeOK
  <2>2. r \in live' /\ r \in published'
    <3>1. ASSUME NEW p \in Process, EvictBatch(p) PROVE r \in live' /\ r \in published'
      <4>1. ListOK(p) /\ op[p] \in Evictions BY <1>1, <3>1, BatchFacts DEF ListsOK
      <4>2. r \notin victims[p]
        <5>1. CASE op[p] \in Policy BY <2>1, <4>1, <5>1 DEF ListOK, NotTheTip
        <5>2. CASE op[p] = "branches" BY <2>1, <4>1, <5>2 DEF ListOK
        <5> QED BY <4>1, <5>1, <5>2 DEF Evictions
      <4> QED BY <1>1, <2>1, <3>1, <4>2, BatchFacts
    <3> QED BY <1>1, <2>1, <3>1, OnlyBatchesDelete
  <2>3. r \in Release' /\ rows'[r] = rows[r] BY <1>1, <2>1, RowsStay
  <2> DEFINE T == {s \in live' \cap published' : rows'[s].project = project /\ rows'[s].branch = DefaultBranch}
  <2>4. r \in T BY <2>1, <2>2, <2>3
  <2>5. rows' \in Seq(Row) /\ T \subseteq DOMAIN rows' BY <1>1 DEF TypeOK, Release
  <2>6. PICK s \in T : \A t \in T : rows'[t].num <= rows'[s].num
    <3> HIDE DEF T
    <3> QED BY <2>4, <2>5, HighestRow
  <2>7. ASSUME NEW t \in T PROVE rows'[t].num \in Nat
    <3>1. rows'[t] \in Row BY <2>5
    <3> QED BY <3>1, BoundsAssumption DEF Row, Versions
  <2>8. NewerPublished(s)' = {}
    <3>1. ASSUME NEW t \in NewerPublished(s)' PROVE FALSE
      <4>1. t \in T /\ rows'[t].num > rows'[s].num BY DEF NewerPublished, SameLine
      <4> QED BY <2>6, <2>7, <4>1
    <3> QED BY <3>1
  <2>9. s \in Latest(project)' BY <2>6, <2>8 DEF Latest, BranchTip
  <2>10. rows'[s].num >= rows[r].num BY <2>3, <2>4, <2>6, <2>7
  <2> QED BY <2>9, <2>10
<1>2. TypeOK /\ ListsOK /\ TypeOK' /\ [Next]_vars =>
        [\A project \in Project : \A r \in Latest(project) :
          (\A s \in overtaken : rows[s].project = project => rows[s].branch # DefaultBranch)
          => \E s \in Latest(project)' : rows'[s].num >= rows[r].num]_vars
  BY <1>1
<1> QED BY <1>2, ListsHold, PTL DEF Spec, LatestNeverRegresses

(***************************************************************************)
(* What the inventory says of a release                                    *)
(***************************************************************************)

\* There are finitely many newer releases.
LEMMA NewerIsFinite ==
    ASSUME TypeOK, NEW r
    PROVE  IsFiniteSet(NewerPublished(r))
<1>1. Release = 1..Len(rows) /\ Len(rows) \in Nat BY LenProperties DEF TypeOK, Release
<1>2. IsFiniteSet(Release) BY <1>1, FS_Interval
<1>3. NewerPublished(r) \subseteq Release BY DEF NewerPublished, TypeOK
<1> QED BY <1>2, <1>3, FS_Subset

\* Over one state, a release has no hold exactly when the sweep lists it.
LEMMA HoldsAgree == TypeOK => HoldsMatchPlan
<1> SUFFICES ASSUME TypeOK, NEW r \in live
             PROVE  ReleaseHolds(r, old) = {} <=> r \in ListAbandonedReleases(old) \cup ListEvictableReleases(old)
  BY DEF HoldsMatchPlan
<1> DEFINE newer == NewerPublished(r)
           keep == Max({KeepN, 1})
<1>1. IsFiniteSet(newer) BY NewerIsFinite
<1>2. Cardinality(newer) \in Nat /\ (Cardinality(newer) = 0 <=> newer = {})
  BY <1>1, FS_CardinalityType, FS_EmptySet
<1>3. keep \in Nat /\ keep >= 1 BY MaxOfTwo, BoundsAssumption
<1>4. CASE r \notin published
  <2>1. ReleaseHolds(r, old) = IF r \in draft THEN {"draft"} ELSE {h \in {"recency"} : r \notin old}
    BY <1>4 DEF ReleaseHolds
  <2>2. r \notin ListEvictableReleases(old) BY <1>4 DEF ListEvictableReleases
  <2>3. r \in ListAbandonedReleases(old) <=> r \in old /\ r \notin draft BY <1>4 DEF ListAbandonedReleases
  <2> QED BY <2>1, <2>2, <2>3
<1>5. CASE r \in published
  <2> DEFINE P(h) == \/ h = "oci-tag" /\ r \in Tagged
                     \/ h = "docker" /\ <<r, "docker">> \in artifact
                     \/ h = "branch-tip" /\ newer = {}
                     \/ h = "keep-n" /\ Cardinality(newer) \in 1..(keep - 1)
                     \/ h = "recency" /\ r \notin old
  <2>1. ReleaseHolds(r, old) = {h \in {"oci-tag", "docker", "branch-tip", "keep-n", "recency"} : P(h)}
    BY <1>5 DEF ReleaseHolds
  <2>2. ReleaseHolds(r, old) = {} <=>
          /\ r \notin Tagged /\ <<r, "docker">> \notin artifact /\ newer # {}
          /\ Cardinality(newer) \notin 1..(keep - 1) /\ r \in old
    <3> HIDE DEF newer, keep
    <3> QED BY <2>1
  <2>3. r \notin ListAbandonedReleases(old) BY <1>5 DEF ListAbandonedReleases
  <2>4. r \in ListEvictableReleases(old) <=>
          r \in old /\ r \notin Tagged /\ <<r, "docker">> \notin artifact /\ Cardinality(newer) >= keep
    BY <1>5 DEF ListEvictableReleases
  <2>5. newer # {} /\ Cardinality(newer) \notin 1..(keep - 1) <=> Cardinality(newer) >= keep
    <3> HIDE DEF newer, keep
    <3> QED BY <1>2, <1>3
  <2> QED BY <2>2, <2>3, <2>4, <2>5
<1> QED BY <1>4, <1>5

\* The inventory (in Go) and the sweep (in SQL) agree in every reachable state, for
\* any keep-N, which releases stay (Retention.Inventory, ListEvictableReleases).
THEOREM HoldsAlwaysMatchPlan == Spec => []HoldsMatchPlan
BY HoldsAgree, TypeCorrect, PTL

(***************************************************************************)
(* The numbers of a family                                                 *)
(***************************************************************************)

\* The next number is higher than every number in use.
LEMMA NextIsHigher ==
    ASSUME TypeOK, NEW project
    PROVE  NextVersionNum(project) \in Nat /\ \A r \in live : rows[r].num < NextVersionNum(project)
<1> DEFINE N == {0} \cup {rows[r].num : r \in live}
<1>1. ASSUME NEW r \in live PROVE rows[r].num \in Nat /\ rows[r].num <= MaxNum
  BY RowNum DEF TypeOK
<1>2. N \subseteq Nat /\ N # {} /\ MaxNum \in Nat /\ \A x \in N : x <= MaxNum
  BY <1>1, BoundsAssumption
<1>3. \A r \in live : rows[r].num \in N OBVIOUS
<1>4. NextVersionNum(project) = Max(N) + 1 BY DEF NextVersionNum
<1> HIDE DEF N
<1>5. \E x \in N : \A y \in N : y <= x BY <1>2, Largest
<1>6. Max(N) \in N /\ \A y \in N : Max(N) >= y
  <2>1. \E x \in N : \A y \in N : x >= y BY <1>2, <1>5
  <2>2. (CHOOSE x \in N : \A y \in N : x >= y) \in N
        /\ \A y \in N : (CHOOSE x \in N : \A z \in N : x >= z) >= y
    BY <2>1, Zenon
  <2> QED BY <2>2 DEF Max
<1>7. PICK m \in Nat : m = Max(N) /\ \A y \in N : m >= y BY <1>2, <1>6
<1>8. NextVersionNum(project) = m + 1 BY <1>4, <1>7
<1>9. ASSUME NEW r \in live PROVE rows[r].num \in Nat /\ m >= rows[r].num BY <1>2, <1>3, <1>7
<1> QED BY <1>8, <1>9

\* A picked number about to be inserted is higher than every number in use.
PickedIsNext ==
    \A p \in Process : pc[p] = "insert" /\ req[p].picked => \A r \in live : rows[r].num < req[p].num

\* The inductive invariant of one request at a time.
NumbersOK == FamilyNumbersUnique /\ PickedIsNext

\* A step that leaves rows alone and deletes at most some.
LEMMA NumbersKept ==
    ASSUME TypeOK, NumbersOK, UNCHANGED rows, live' \subseteq live,
           \A p \in Process : pc'[p] = "insert" => pc[p] = "insert" /\ req'[p] = req[p]
    PROVE  NumbersOK'
<1>1. FamilyNumbersUnique' BY DEF NumbersOK, FamilyNumbersUnique
<1>2. PickedIsNext' BY DEF NumbersOK, PickedIsNext
<1> QED BY <1>1, <1>2 DEF NumbersOK

\* One request at a time: a step keeps the numbers apart.
LEMMA NumbersStep ==
    ASSUME TypeOK, NumbersOK, [Next]_vars, \A p, q \in Process : p = q
    PROVE  NumbersOK'
<1>1. ASSUME NEW p \in Process, BeginCreate(p) \/ BeginPush(p) \/ Repick(p) PROVE NumbersOK'
  <2>1. UNCHANGED <<rows, live>> BY <1>1 DEF BeginCreate, BeginPush, Repick, tables
  <2>2. FamilyNumbersUnique' BY <2>1 DEF NumbersOK, FamilyNumbersUnique
  <2>3. req'[p].picked => \A r \in live : rows[r].num < req'[p].num
    <3>1. CASE BeginCreate(p)
      <4>1. PICK o \in {"create", "draft"}, project \in Project, branch \in Branch, num \in {0} \cup Named :
              LET next == NextVersionNum(project) IN
                /\ Begin(p, o)
                /\ Cardinality(Pending) + Len(rows) < MaxReleases
                /\ num = 0 => next \in Versions
                /\ req' = [req EXCEPT ![p] = [project |-> project,
                                              num |-> IF num = 0 THEN next ELSE num,
                                              branch |-> branch, picked |-> num = 0]]
                /\ Goto(p, "insert")
                /\ UNCHANGED <<tables, tries, target, victims, cutoff, toAsk, overtaken>>
        BY <3>1, ZenonT(30) DEF BeginCreate
      <4>2. req'[p] = [project |-> project, num |-> IF num = 0 THEN NextVersionNum(project) ELSE num,
                       branch |-> branch, picked |-> num = 0]
        BY <4>1 DEF TypeOK
      <4>3. ASSUME req'[p].picked PROVE req'[p].num = NextVersionNum(project)
        <5>1. req'[p].picked = (num = 0) BY <4>2
        <5>2. num = 0 BY <4>3, <5>1, Zenon
        <5> QED BY <4>2, <5>2
      <4> QED BY <4>3, NextIsHigher
    <3>2. CASE BeginPush(p)
      <4>1. PICK project \in Project :
              LET next == NextVersionNum(project) IN
                req' = [req EXCEPT ![p] = [project |-> project, num |-> next, branch |-> NoBranch, picked |-> TRUE]]
        BY <3>2, Zenon DEF BeginPush
      <4>2. req'[p].num = NextVersionNum(project) BY <4>1 DEF TypeOK
      <4> QED BY <4>2, NextIsHigher
    <3>3. CASE Repick(p)
      <4> DEFINE next == NextVersionNum(req[p].project)
                 num == IF op[p] = "docker" THEN next ELSE Max({next, req[p].num + 1})
      <4>1. req' = [req EXCEPT ![p].num = num] BY <3>3, Zenon DEF Repick
      <4>2. next \in Nat /\ \A r \in live : rows[r].num < next BY NextIsHigher
      <4>3. req[p].num \in Nat
        <5>1. req[p] \in Row BY DEF TypeOK
        <5> QED BY <5>1, BoundsAssumption DEF Row, Versions
      <4>4. num \in Nat /\ num >= next
        <5> HIDE DEF next
        <5> QED BY <4>2, <4>3, MaxOfTwo
      <4>5. req'[p].num = num
        <5> HIDE DEF num
        <5> QED BY <4>1 DEF TypeOK, Row
      <4>6. \A r \in live : rows[r].num \in Nat BY RowNum DEF TypeOK
      <4> HIDE DEF num, next
      <4> QED BY <4>2, <4>4, <4>5, <4>6
    <3> QED BY <1>1, <3>1, <3>2, <3>3
  <2>4. PickedIsNext' BY <2>1, <2>3 DEF PickedIsNext
  <2> QED BY <2>2, <2>4 DEF NumbersOK
<1>2. ASSUME NEW p \in Process, Insert(p) PROVE NumbersOK'
  <2>0. pc'[p] # "insert" BY <1>2 DEF Insert, Finish, Goto, TypeOK
  <2>1. PickedIsNext' BY <2>0 DEF PickedIsNext
  <2>2. CASE Conflict(p) BY <1>2, <2>1, <2>2 DEF Insert, NumbersOK, FamilyNumbersUnique
  <2>3. CASE ~Conflict(p)
    <3> DEFINE id == Len(rows) + 1
    <3>1. rows' = Append(rows, req[p]) /\ live' = live \cup {id} /\ pc[p] = "insert" BY <1>2, <2>3 DEF Insert
    <3>2. req[p] \in Row /\ rows \in Seq(Row) /\ live \subseteq Release BY DEF TypeOK
    <3>3. rows'[id] = req[p] /\ \A r \in Release : rows'[r] = rows[r] BY <3>1, <3>2, AppendedRow
    <3>4. req[p].picked => \A r \in live : rows[r].num < req[p].num BY <3>1 DEF NumbersOK, PickedIsNext
    <3>5. \A r \in live : rows[r].num \in Nat BY RowNum, <3>2
    <3>6. req[p].num \in Nat BY <3>2, BoundsAssumption DEF Row, Versions
    <3> HIDE DEF id
    <3>7. FamilyNumbersUnique'
      <4> SUFFICES ASSUME NEW r \in live', NEW s \in live', rows'[r].picked, rows'[s].picked,
                          rows'[r].num = rows'[s].num
                   PROVE  r = s
        BY DEF FamilyNumbersUnique
      <4>1. CASE r = id /\ s = id BY <4>1
      <4>0. ASSUME NEW t \in live, req[p].picked, rows'[t].num = req[p].num PROVE FALSE
        <5>1. rows'[t] = rows[t] BY <3>2, <3>3
        <5>2. rows[t].num < req[p].num BY <3>4, <4>0
        <5> QED BY <3>5, <3>6, <4>0, <5>1, <5>2
      <4>2. CASE r = id /\ s # id
        <5>1. req[p].picked BY <3>3, <4>2, Zenon
        <5> QED BY <3>1, <3>3, <4>0, <4>2, <5>1
      <4>3. CASE r # id /\ s = id
        <5>1. req[p].picked BY <3>3, <4>3, Zenon
        <5> QED BY <3>1, <3>3, <4>0, <4>3, <5>1
      <4>4. CASE r # id /\ s # id BY <4>4, <3>1, <3>2, <3>3 DEF NumbersOK, FamilyNumbersUnique
      <4> QED BY <4>1, <4>2, <4>3, <4>4
    <3> QED BY <2>1, <3>7 DEF NumbersOK
  <2> QED BY <2>2, <2>3
<1>3. ASSUME NEW p \in Process,
             \/ BeginRetag(p) \/ DockerArtifact(p) \/ DockerPublish(p) \/ SetTag(p)
             \/ BeginUpload(p) \/ RecordArtifact(p) \/ BeginPublish(p) \/ ListArtifacts(p) \/ PublishRelease(p)
             \/ BeginDownload(p) \/ RecordDownload(p) \/ Fail(p) \/ BeginSweep(p) \/ ListEvictable(p)
             \/ BeginDeletedBranches(p) \/ AskGitHub(p) \/ EvictBatch(p)
      PROVE  NumbersOK'
  <2>1. UNCHANGED rows /\ live' \subseteq live
    BY <1>3 DEF BeginRetag, DockerArtifact, DockerPublish, SetTag, BeginUpload, RecordArtifact, BeginPublish,
         ListArtifacts, PublishRelease, BeginDownload, RecordDownload, Fail, BeginSweep, ListEvictable,
         BeginDeletedBranches, AskGitHub, EvictBatch, DeleteRows, tables
  <2>2. pc'[p] # "insert" \/ (UNCHANGED <<pc, req>>)
    <3>p. pc = [q \in Process |-> pc[q]] BY DEF TypeOK
    <3>1. Finish(p) => pc'[p] = "idle" BY <3>p DEF Finish
    <3>2. ASSUME NEW l, Goto(p, l) PROVE pc'[p] = l BY <3>p, <3>2 DEF Goto
    <3>3. CASE AskGitHub(p)
      <4>1. Finish(p) \/ \E l \in {"ask", "evict"} : Goto(p, l) BY <3>3 DEF AskGitHub
      <4> QED BY <3>1, <3>2, <4>1
    <3> QED BY <1>3, <3>1, <3>2, <3>3
      DEF BeginRetag, DockerArtifact, DockerPublish, SetTag, BeginUpload, RecordArtifact, BeginPublish,
         ListArtifacts, PublishRelease, BeginDownload, RecordDownload, Fail, BeginSweep, ListEvictable,
         BeginDeletedBranches, EvictBatch
  <2> QED BY <2>1, <2>2, NumbersKept
<1>4. CASE Age \/ DropBranch \/ PushBranch \/ UNCHANGED vars
  <2>1. UNCHANGED <<rows, live, pc, req>> BY <1>4 DEF Age, DropBranch, PushBranch, vars, tables, locals
  <2> QED BY <2>1, NumbersKept
<1> QED BY <1>1, <1>2, <1>3, <1>4 DEF Next, Step

\* While requests do not overlap, two releases whose numbers the server picked never
\* share a number anywhere in the family, for any projects, numbers given by hand
\* and evictions between the requests (GetMaxVersionNum).
THEOREM SerialNumbersUnique ==
    ASSUME \A p, q \in Process : p = q
    PROVE  Spec => []FamilyNumbersUnique
<1>1. Init => NumbersOK BY DEF Init, NumbersOK, FamilyNumbersUnique, PickedIsNext
<1>2. TypeOK /\ NumbersOK /\ [Next]_vars => NumbersOK' BY NumbersStep
<1>3. NumbersOK => FamilyNumbersUnique BY DEF NumbersOK
<1> QED BY <1>1, <1>2, <1>3, TypeCorrect, PTL DEF Spec

=============================================================================
