--------------------------- MODULE RunFilesProofs ---------------------------
(***************************************************************************)
(* Proofs about RunFiles, for any number of runs, files and requests.      *)
(***************************************************************************)
EXTENDS RunFiles, TLAPS

(***************************************************************************)
(* Types                                                                   *)
(***************************************************************************)

\* The empty tables are well typed.
LEMMA TypeInit == Init => TypeOK
BY NoRunAssumption, TimesAssumption DEF Init, TypeOK, Time, NoReq, NoAsk

\* The histories only ever collect runs.
LEMMA ObserveType ==
    ASSUME raced \subseteq Run, due' \subseteq Run, pressed' \subseteq Run,
           deleting' \in Run \cup {NoRun}, Observe
    PROVE  raced' \subseteq Run
BY DEF Observe, Overlap, Listed

\* A touch leaves a well-formed row.
LEMMA TouchType ==
    ASSUME TypeOK, NEW r \in Run, TouchRun(r)
    PROVE  /\ row' \in [Run -> Row \cup {NoRun}]
           /\ \A s \in Run : row'[s] # NoRun /\ row'[s].ended # NoTime => row'[s].checked # NoTime
           /\ reported' \subseteq Run /\ overtaken' \subseteq Run
<1>1. row[r] = NoRun \/ row[r] \in Row
  BY DEF TypeOK
<1>2. row'[r] \in Row /\ row'[r].ended = NoTime
  BY <1>1, TimesAssumption DEF TouchRun, TypeOK, Row, Times
<1>3. \A s \in Run : s # r => row'[s] = row[s]
  BY DEF TouchRun, TypeOK
<1>4. row' \in [Run -> Row \cup {NoRun}]
  BY <1>2 DEF TouchRun, TypeOK
<1>5. reported' \subseteq Run /\ overtaken' \subseteq Run
  BY DEF TouchRun, TypeOK
<1>. QED BY <1>2, <1>3, <1>4, <1>5 DEF TypeOK

\* Requests keep the types.
LEMMA RequestType ==
    ASSUME TypeOK, NEW p \in Process,
           BeginPut(p) \/ RecordFile(p) \/ BeginGet(p) \/ TouchGet(p) \/ Fail(p)
    PROVE  TypeOK'
<1>1. CASE BeginPut(p)
  <2>1. PICK r \in running, n \in Name :
            /\ TouchRun(r)
            /\ pc' = [pc EXCEPT ![p] = "record"]
            /\ req' = [req EXCEPT ![p] = [run |-> r, name |-> n]]
            /\ UNCHANGED <<now, github, files, janitor>>
            /\ Observe
    BY <1>1 DEF BeginPut
  <2>2. r \in Run
    BY DEF TypeOK
  <2>3. raced' \subseteq Run
    BY <2>1, ObserveType DEF TypeOK, janitor
  <2>. QED BY <2>1, <2>2, <2>3, TouchType DEF TypeOK, janitor, github
<1>2. CASE RecordFile(p)
  <2>1. raced' \subseteq Run
    BY <1>2, ObserveType DEF TypeOK, RecordFile, janitor
  <2>2. req[p] \in [run : Run, name : Name]
    BY <1>2, NoRunAssumption DEF TypeOK, RecordFile, NoReq
  <2>. QED BY <1>2, <2>1, <2>2 DEF TypeOK, RecordFile, janitor, github
<1>3. CASE BeginGet(p)
  <2>1. raced' \subseteq Run
    BY <1>3, ObserveType DEF TypeOK, BeginGet, janitor
  <2>. QED BY <1>3, <2>1 DEF TypeOK, BeginGet, janitor, github, tables
<1>4. CASE TouchGet(p)
  <2>1. raced' \subseteq Run
    BY <1>4, ObserveType DEF TypeOK, TouchGet, janitor
  <2>2. req[p].run \in Run
    BY <1>4 DEF TypeOK, TouchGet
  <2>. QED BY <1>4, <2>1, <2>2, TouchType DEF TypeOK, TouchGet, janitor, github
<1>5. CASE Fail(p)
  <2>1. raced' \subseteq Run
    BY <1>5, ObserveType DEF TypeOK, Fail, janitor
  <2>. QED BY <1>5, <2>1 DEF TypeOK, Fail, janitor, github, tables
<1>. QED BY <1>1, <1>2, <1>3, <1>4, <1>5

\* The steps of the janitor that ask and list keep the types.
LEMMA AskType ==
    ASSUME TypeOK, BeginSweep \/ RunsToCheck \/ AskGitHub \/ MarkRunChecked \/ ListRuns
    PROVE  TypeOK'
<1>1. CASE BeginSweep
  BY <1>1 DEF TypeOK, BeginSweep, github, tables, request, history
<1>2. CASE RunsToCheck
  BY <1>2 DEF TypeOK, RunsToCheck, github, tables, request, history
<1>3. CASE AskGitHub
  <2>1. PICK r \in toCheck, answered \in BOOLEAN :
            /\ toCheck' = toCheck \ {r}
            /\ IF answered
               THEN /\ asked' = [run |-> r,
                                 ended |-> IF r \in running THEN NoTime ELSE updated[r]]
                    /\ reported' = IF r \in running THEN reported ELSE reported \cup {r}
                    /\ jpc' = "mark"
                    /\ UNCHANGED unknown
               ELSE /\ unknown' = unknown \cup {r}
                    /\ UNCHANGED <<asked, reported, jpc>>
    BY <1>3 DEF AskGitHub
  <2>2. asked' \in [run : Run, ended : Times] \cup {NoAsk}
    BY <2>1 DEF TypeOK, Times
  <2>3. jpc' = "mark" => asked'.run \in Run
    BY <1>3, <2>1 DEF TypeOK, AskGitHub
  <2>4. reported' \subseteq Run /\ unknown' \subseteq Run /\ toCheck' \subseteq Run
    BY <2>1 DEF TypeOK
  <2>5. jpc' \in {"idle", "check", "ask", "mark", "delete"}
    BY <1>3, <2>1 DEF AskGitHub
  <2>. QED BY <1>3, <2>2, <2>3, <2>4, <2>5 DEF TypeOK, AskGitHub, github, tables, request
<1>4. CASE MarkRunChecked
  <2>1. asked.run \in Run /\ asked.ended \in Times
    BY <1>4, NoRunAssumption DEF TypeOK, MarkRunChecked, NoAsk
  <2>2. row[asked.run] = NoRun \/ row[asked.run] \in Row
    BY <2>1 DEF TypeOK
  <2>3. row'[asked.run] = NoRun \/ (row'[asked.run] \in Row /\ row'[asked.run].checked = now)
    BY <1>4, <2>1, <2>2 DEF MarkRunChecked, TypeOK, Row, Times
  <2>4. now # NoTime
    BY TimesAssumption DEF TypeOK, Time
  <2>5. row' \in [Run -> Row \cup {NoRun}]
    BY <1>4, <2>1, <2>3 DEF MarkRunChecked, TypeOK
  <2>6. \A s \in Run : row'[s] # NoRun /\ row'[s].ended # NoTime => row'[s].checked # NoTime
    BY <1>4, <2>3, <2>4 DEF MarkRunChecked, TypeOK
  <2>. QED BY <1>4, <2>5, <2>6 DEF TypeOK, MarkRunChecked, NoAsk, github, request, history
<1>5. CASE ListRuns
  <2>1. due' \subseteq Run /\ pressed' \subseteq Run /\ deleting' = deleting
    BY <1>5 DEF ListRuns
  <2>2. raced' \subseteq Run
    BY <1>5, <2>1, ObserveType DEF TypeOK, ListRuns
  <2>. QED BY <1>5, <2>1, <2>2 DEF TypeOK, ListRuns, github, tables, request
<1>. QED BY <1>1, <1>2, <1>3, <1>4, <1>5

\* The steps of the janitor that delete keep the types.
LEMMA DeleteType ==
    ASSUME TypeOK, DeleteFiles \/ DeleteRunRow \/ DeleteFails \/ EndSweep
    PROVE  TypeOK'
<1>1. CASE DeleteFiles
  <2>1. /\ due' \subseteq Run /\ pressed' \subseteq Run /\ deleting' \in Run
        /\ files' \in [Run -> SUBSET Name]
    BY <1>1 DEF TypeOK, DeleteFiles
  <2>2. raced' \subseteq Run
    BY <1>1, <2>1, ObserveType DEF TypeOK, DeleteFiles
  <2>. QED BY <1>1, <2>1, <2>2 DEF TypeOK, DeleteFiles, github, request
<1>2. CASE DeleteRunRow
  <2>1. deleting \in Run
    BY <1>2 DEF TypeOK, DeleteRunRow
  <2>2. /\ row' \in [Run -> Row \cup {NoRun}]
        /\ \A s \in Run : row'[s] = NoRun \/ row'[s] = row[s]
    BY <1>2, <2>1 DEF TypeOK, DeleteRunRow
  <2>3. raced' \subseteq Run
    BY <1>2, ObserveType DEF TypeOK, DeleteRunRow
  <2>. QED BY <1>2, <2>2, <2>3 DEF TypeOK, DeleteRunRow, github, request
<1>3. CASE DeleteFails
  <2>1. due' \subseteq Run /\ pressed' \subseteq Run /\ deleting' \in Run \cup {NoRun}
    BY <1>3 DEF TypeOK, DeleteFails
  <2>2. raced' \subseteq Run
    BY <1>3, <2>1, ObserveType DEF TypeOK, DeleteFails
  <2>. QED BY <1>3, <2>1, <2>2 DEF TypeOK, DeleteFails, github, tables, request
<1>4. CASE EndSweep
  <2>1. raced' \subseteq Run
    BY <1>4, ObserveType DEF TypeOK, EndSweep
  <2>2. jnow' \in Time
    BY <1>4, TimesAssumption DEF EndSweep, Time
  <2>. QED BY <1>4, <2>1, <2>2 DEF TypeOK, EndSweep, NoAsk, github, tables, request
<1>. QED BY <1>1, <1>2, <1>3, <1>4

\* Time and GitHub keep the types.
LEMMA WorldType ==
    ASSUME TypeOK, Tick \/ Complete \/ ReRun
    PROVE  TypeOK'
<1>1. CASE Tick
  <2>1. now' \in Time
    BY <1>1, TimesAssumption DEF Tick, TypeOK, Time
  <2>. QED BY <1>1, <2>1 DEF TypeOK, Tick, github, tables, request, janitor, history
<1>2. CASE Complete
  BY <1>2 DEF TypeOK, Complete, tables, request, janitor, history
<1>3. CASE ReRun
  BY <1>3 DEF TypeOK, ReRun, tables, request, janitor, history
<1>. QED BY <1>1, <1>2, <1>3

\* The type invariant is inductive.
LEMMA TypeStep == TypeOK /\ [Next]_vars => TypeOK'
<1>. SUFFICES ASSUME TypeOK, [Next]_vars PROVE TypeOK'
  OBVIOUS
<1>1. CASE UNCHANGED vars
  BY <1>1 DEF TypeOK, vars, github, tables, request, janitor, history
<1>2. CASE Next
  BY <1>2, RequestType, AskType, DeleteType, WorldType DEF Next
<1>. QED BY <1>1, <1>2

\* Type correctness: in particular, a run that counts as ended has had its
\* status read since its last use.
THEOREM TypeCorrect == Spec => []TypeOK
BY TypeInit, TypeStep, PTL DEF Spec

(***************************************************************************)
(* A stray file was recorded by a put that raced the deletion of its run   *)
(***************************************************************************)

\* The inductive invariant.  A put that has touched its run counts on the row,
\* and the janitor counts on the files being gone before it deletes the row:
\* each holds unless a put and a deletion of the run met.
StrayInv ==
    /\ StrayFilesRaced
    /\ Overlap \subseteq raced
    /\ \A p \in Process : pc[p] = "record" => row[req[p].run] # NoRun \/ req[p].run \in raced
    /\ deleting # NoRun => files[deleting] = {} \/ deleting \in raced

\* A touch leaves a row, and deletes none.
LEMMA TouchKeepsRows ==
    ASSUME TypeOK, NEW r \in Run, TouchRun(r)
    PROVE  row'[r] # NoRun /\ \A s \in Run : row[s] # NoRun => row'[s] # NoRun
<1>1. row'[r] \in Row
  BY TimesAssumption DEF TouchRun, TypeOK, Row, Times
<1>. QED BY <1>1, NoRowAssumption DEF TouchRun, TypeOK

\* A step that records overlaps never forgets one.
LEMMA ObserveGrows ==
    ASSUME Observe
    PROVE  raced \subseteq raced' /\ Overlap' \subseteq raced'
BY DEF Observe

\* No request leaves a stray file behind unless it raced a deletion.
LEMMA RequestStray ==
    ASSUME TypeOK, StrayInv, NEW p \in Process,
           BeginPut(p) \/ RecordFile(p) \/ BeginGet(p) \/ TouchGet(p) \/ Fail(p)
    PROVE  StrayInv'
<1>1. CASE BeginPut(p)
  <2>1. PICK r \in Run :
            /\ TouchRun(r)
            /\ pc' = [pc EXCEPT ![p] = "record"]
            /\ req'[p].run = r
            /\ \A q \in Process : q # p => req'[q] = req[q]
            /\ UNCHANGED <<files, deleting>>
            /\ Observe
    BY <1>1 DEF BeginPut, TypeOK, janitor
  <2>. QED BY <2>1, TouchKeepsRows, ObserveGrows DEF StrayInv, StrayFilesRaced, TypeOK
<1>2. CASE RecordFile(p)
  <2>1. req[p].run \in Run
    BY <1>2 DEF RecordFile, TypeOK
  <2>2. deleting = req[p].run => req[p].run \in raced
    BY <1>2, <2>1, NoRunAssumption DEF RecordFile, StrayInv, Overlap, Listed
  <2>. QED BY <1>2, <2>1, <2>2, ObserveGrows DEF RecordFile, StrayInv, StrayFilesRaced, TypeOK, janitor
<1>3. CASE BeginGet(p)
  BY <1>3, ObserveGrows DEF BeginGet, StrayInv, StrayFilesRaced, TypeOK, janitor, tables
<1>4. CASE TouchGet(p)
  <2>1. req[p].run \in Run
    BY <1>4 DEF TouchGet, TypeOK
  <2>. QED BY <1>4, <2>1, TouchKeepsRows, ObserveGrows
       DEF TouchGet, StrayInv, StrayFilesRaced, TypeOK, janitor
<1>5. CASE Fail(p)
  BY <1>5, ObserveGrows DEF Fail, StrayInv, StrayFilesRaced, TypeOK, janitor, tables
<1>. QED BY <1>1, <1>2, <1>3, <1>4, <1>5

\* Neither does the janitor.
LEMMA JanitorStray ==
    ASSUME TypeOK, StrayInv,
           \/ BeginSweep \/ RunsToCheck \/ AskGitHub \/ MarkRunChecked \/ ListRuns
           \/ DeleteFiles \/ DeleteRunRow \/ DeleteFails \/ EndSweep
    PROVE  StrayInv'
<1>. USE DEF StrayInv, StrayFilesRaced
<1>1. CASE BeginSweep \/ RunsToCheck \/ AskGitHub
  BY <1>1 DEF BeginSweep, RunsToCheck, AskGitHub, Overlap, Listed, tables, request, history
<1>2. CASE MarkRunChecked
  <2>1. asked.run \in Run /\ asked.ended \in Times
    BY <1>2, NoRunAssumption DEF TypeOK, MarkRunChecked, NoAsk
  <2>2. row[asked.run] # NoRun => row'[asked.run] \in Row
    BY <1>2, <2>1 DEF MarkRunChecked, TypeOK, Row, Times
  <2>3. \A s \in Run : row[s] # NoRun <=> row'[s] # NoRun
    BY <1>2, <2>1, <2>2, NoRowAssumption DEF MarkRunChecked, TypeOK
  <2>4. Overlap' = Overlap
    BY <1>2 DEF MarkRunChecked, Overlap, Listed, request
  <2>. QED BY <1>2, <2>3, <2>4 DEF MarkRunChecked, TypeOK, request, history
<1>3. CASE ListRuns
  BY <1>3, ObserveGrows DEF ListRuns, tables, request
<1>4. CASE DeleteFiles
  BY <1>4, ObserveGrows DEF DeleteFiles, TypeOK, request
<1>5. CASE DeleteRunRow
  <2>1. deleting \in Run
    BY <1>5 DEF DeleteRunRow, TypeOK
  <2>2. \A p \in Process : pc[p] = "record" /\ req[p].run = deleting => deleting \in raced
    BY <1>5, <2>1 DEF DeleteRunRow, Overlap, Listed
  <2>. QED BY <1>5, <2>1, <2>2, ObserveGrows DEF DeleteRunRow, TypeOK, request
<1>6. CASE DeleteFails
  BY <1>6, ObserveGrows DEF DeleteFails, tables, request
<1>7. CASE EndSweep
  BY <1>7, ObserveGrows DEF EndSweep, tables, request
<1>. QED BY <1>1, <1>2, <1>3, <1>4, <1>5, <1>6, <1>7

\* The invariant is inductive.
LEMMA StrayStep == TypeOK /\ StrayInv /\ [Next]_vars => StrayInv'
<1>. SUFFICES ASSUME TypeOK, StrayInv, [Next]_vars PROVE StrayInv'
  OBVIOUS
<1>1. CASE UNCHANGED vars
  BY <1>1 DEF StrayInv, StrayFilesRaced, Overlap, Listed, vars, tables, request, janitor, history
<1>2. CASE Tick \/ Complete \/ ReRun
  BY <1>2 DEF Tick, Complete, ReRun, StrayInv, StrayFilesRaced, Overlap, Listed, tables, request,
     janitor, history
<1>. QED BY <1>1, <1>2, RequestStray, JanitorStray DEF Next

\* Whatever the runs, jobs and passes of the janitor, a file whose run has no
\* row was recorded by a put that raced the deletion of that run.
THEOREM StrayFilesAlwaysRaced == Spec => []StrayFilesRaced
<1>1. Init => StrayInv
  BY DEF Init, StrayInv, StrayFilesRaced, Overlap, Listed
<1>2. StrayInv => StrayFilesRaced
  BY DEF StrayInv
<1>. QED BY <1>1, <1>2, TypeInit, TypeStep, StrayStep, PTL DEF Spec

(***************************************************************************)
(* A run's files go only when it is done, or was used after the janitor    *)
(* had asked about it or listed it                                         *)
(***************************************************************************)

\* What the janitor knew when it listed a run, unless the run was used since.
Settled(r) ==
    \/ r \in reported \cup overtaken
    \/ r \in unknown /\ row[r] # NoRun /\ jnow - row[r].used >= Keep
    \/ row[r] # NoRun /\ jnow - row[r].created >= MaxRunLifetime

\* The inductive invariant: the ended_at a row holds, the one GitHub has just
\* answered, and the janitor's two lists all rest on a report that is still
\* good or was overtaken.
DoneInv ==
    /\ jnow <= now
    /\ \A r \in Run : row[r] # NoRun /\ row[r].ended # NoTime => r \in reported \cup overtaken
    /\ asked.ended # NoTime => asked.run \in reported \cup overtaken
    /\ \A r \in due : Settled(r)
    /\ pressed \subseteq reported \cup overtaken
    /\ deleting \notin due \cup pressed
    /\ jpc # "delete" => deleting = NoRun /\ due = {} /\ pressed = {}

\* A touch keeps it: it resets the row, and a run the janitor has asked about or
\* listed is overtaken.
LEMMA TouchDone ==
    ASSUME TypeOK, DoneInv, NEW r \in Run, TouchRun(r), UNCHANGED <<now, janitor>>
    PROVE  DoneInv'
<1>1. row'[r] \in Row /\ row'[r].ended = NoTime
  BY TimesAssumption DEF TouchRun, TypeOK, Row, Times
<1>2. \A s \in Run : s # r => row'[s] = row[s]
  BY DEF TouchRun, TypeOK
<1>3. \A s \in reported \cup overtaken : s # r => s \in reported' \cup overtaken'
  BY DEF TouchRun
<1>4. r \in due \cup pressed \cup {asked.run} => r \in overtaken'
  BY DEF TouchRun, Listed
<1>5. \A s \in due : Settled(s)'
  <2>. SUFFICES ASSUME NEW s \in due PROVE Settled(s)'
    OBVIOUS
  <2>1. CASE s = r
    BY <2>1, <1>4 DEF Settled
  <2>2. CASE s # r
    BY <2>2, <1>2, <1>3 DEF DoneInv, Settled, TypeOK, janitor
  <2>. QED BY <2>1, <2>2
<1>6. pressed \subseteq reported' \cup overtaken'
  BY <1>3, <1>4 DEF DoneInv
<1>7. asked.ended # NoTime => asked.run \in reported' \cup overtaken'
  BY <1>3, <1>4 DEF DoneInv
<1>8. \A s \in Run : row'[s] # NoRun /\ row'[s].ended # NoTime => s \in reported' \cup overtaken'
  BY <1>1, <1>2, <1>3 DEF DoneInv
<1>. QED BY <1>5, <1>6, <1>7, <1>8 DEF DoneInv, janitor

\* Steps that leave the janitor, the rows and the histories alone keep it.
LEMMA DoneFrame ==
    ASSUME DoneInv, UNCHANGED <<now, row, janitor, reported, overtaken>>
    PROVE  DoneInv'
BY DEF DoneInv, Settled, janitor

\* Requests keep it.
LEMMA RequestDone ==
    ASSUME TypeOK, DoneInv, NEW p \in Process,
           BeginPut(p) \/ RecordFile(p) \/ BeginGet(p) \/ TouchGet(p) \/ Fail(p)
    PROVE  DoneInv'
<1>1. CASE BeginPut(p)
  <2>1. PICK r \in Run : TouchRun(r) /\ UNCHANGED <<now, janitor>>
    BY <1>1 DEF BeginPut, TypeOK
  <2>. QED BY <2>1, TouchDone
<1>2. CASE TouchGet(p)
  <2>1. req[p].run \in Run /\ TouchRun(req[p].run) /\ UNCHANGED <<now, janitor>>
    BY <1>2 DEF TouchGet, TypeOK
  <2>. QED BY <2>1, TouchDone
<1>3. CASE RecordFile(p) \/ BeginGet(p) \/ Fail(p)
  BY <1>3, DoneFrame DEF RecordFile, BeginGet, Fail, tables
<1>. QED BY <1>1, <1>2, <1>3

\* Asking GitHub and storing its answer keep it.
LEMMA AskDone ==
    ASSUME TypeOK, DoneInv, BeginSweep \/ RunsToCheck \/ AskGitHub \/ MarkRunChecked
    PROVE  DoneInv'
<1>1. CASE BeginSweep
  BY <1>1 DEF BeginSweep, DoneInv, TypeOK, Time, tables, history
<1>2. CASE RunsToCheck
  BY <1>2 DEF RunsToCheck, DoneInv, tables, history
<1>3. CASE AskGitHub
  <2>1. PICK r \in toCheck, answered \in BOOLEAN :
            IF answered
            THEN /\ asked' = [run |-> r,
                              ended |-> IF r \in running THEN NoTime ELSE updated[r]]
                 /\ reported' = IF r \in running THEN reported ELSE reported \cup {r}
                 /\ jpc' = "mark"
            ELSE UNCHANGED <<asked, reported, jpc>>
    BY <1>3 DEF AskGitHub
  <2>2. reported \subseteq reported' /\ overtaken' = overtaken
    BY <1>3, <2>1 DEF AskGitHub
  <2>3. asked'.ended # NoTime => asked'.run \in reported' \cup overtaken'
    BY <2>1, <2>2 DEF DoneInv
  <2>4. jpc' # "delete" /\ due' = {} /\ pressed' = {} /\ deleting' = NoRun
    BY <1>3, <2>1 DEF AskGitHub, DoneInv
  <2>. QED BY <1>3, <2>2, <2>3, <2>4 DEF AskGitHub, DoneInv, tables
<1>4. CASE MarkRunChecked
  <2>1. asked.run \in Run /\ asked.ended \in Times
    BY <1>4, NoRunAssumption DEF TypeOK, MarkRunChecked, NoAsk
  <2>2. row'[asked.run] # NoRun => row'[asked.run].ended = asked.ended
    BY <1>4, <2>1 DEF MarkRunChecked, TypeOK, Row, Times
  <2>3. \A s \in Run : s # asked.run => row'[s] = row[s]
    BY <1>4 DEF MarkRunChecked, TypeOK
  <2>4. due' = {} /\ pressed' = {} /\ deleting' = NoRun /\ jpc' = "ask"
    BY <1>4 DEF MarkRunChecked, DoneInv
  <2>. QED BY <1>4, <2>2, <2>3, <2>4 DEF MarkRunChecked, DoneInv, NoAsk, history
<1>. QED BY <1>1, <1>2, <1>3, <1>4

\* Listing and deleting keep it.
LEMMA DeleteDone ==
    ASSUME TypeOK, DoneInv, ListRuns \/ DeleteFiles \/ DeleteRunRow \/ DeleteFails \/ EndSweep
    PROVE  DoneInv'
<1>1. CASE ListRuns
  <2>1. deleting = NoRun /\ deleting' = NoRun
    BY <1>1 DEF ListRuns, DoneInv
  <2>2. due' \subseteq Run /\ pressed' \subseteq Run
    BY <1>1 DEF ListRuns
  <2>3. \A r \in due' : Settled(r)'
    BY <1>1, <2>2 DEF ListRuns, Expired, Unused, Lost, Settled, DoneInv, tables
  <2>4. pressed' \subseteq reported' \cup overtaken'
    BY <1>1, <2>2 DEF ListRuns, DoneInv
  <2>. QED BY <1>1, <2>1, <2>2, <2>3, <2>4, NoRunAssumption DEF ListRuns, DoneInv, tables
<1>2. CASE DeleteFiles
  BY <1>2 DEF DeleteFiles, DoneInv, Settled
<1>3. CASE DeleteRunRow
  <2>1. deleting \in Run
    BY <1>3 DEF DeleteRunRow, TypeOK
  <2>2. row'[deleting] = NoRun /\ \A s \in Run : s # deleting => row'[s] = row[s]
    BY <1>3, <2>1 DEF DeleteRunRow, TypeOK
  <2>3. \A r \in due : Settled(r)'
    BY <1>3, <2>2 DEF DeleteRunRow, DoneInv, Settled, TypeOK
  <2>4. NoRun \notin due \cup pressed
    BY NoRunAssumption DEF TypeOK
  <2>. QED BY <1>3, <2>2, <2>3, <2>4 DEF DeleteRunRow, DoneInv
<1>4. CASE DeleteFails
  <2>1. due' \subseteq due /\ pressed' \subseteq pressed /\ deleting' = NoRun
    BY <1>4 DEF DeleteFails
  <2>2. \A r \in due : Settled(r)'
    BY <1>4 DEF DeleteFails, DoneInv, Settled, tables
  <2>3. NoRun \notin due \cup pressed
    BY NoRunAssumption DEF TypeOK
  <2>. QED BY <1>4, <2>1, <2>2, <2>3 DEF DeleteFails, DoneInv, tables
<1>5. CASE EndSweep
  <2>1. 0 <= now
    BY DEF TypeOK, Time
  <2>. QED BY <1>5, <2>1 DEF EndSweep, DoneInv, NoAsk, tables
<1>. QED BY <1>1, <1>2, <1>3, <1>4, <1>5

\* The invariant is inductive.
LEMMA DoneStep == TypeOK /\ DoneInv /\ [Next]_vars => DoneInv'
<1>. SUFFICES ASSUME TypeOK, DoneInv, [Next]_vars PROVE DoneInv'
  OBVIOUS
<1>1. CASE UNCHANGED vars
  BY <1>1, DoneFrame DEF vars, tables, history
<1>2. CASE Tick
  <2>1. jnow' <= now'
    BY <1>2 DEF Tick, DoneInv, TypeOK, Time, janitor
  <2>. QED BY <1>2, <2>1 DEF Tick, DoneInv, Settled, tables, janitor, history
<1>3. CASE Complete \/ ReRun
  BY <1>3, DoneFrame DEF Complete, ReRun, tables, history
<1>. QED BY <1>1, <1>2, <1>3, RequestDone, AskDone, DeleteDone DEF Next

\* Only the janitor's DeleteRunFiles takes the files of a run away.
LEMMA OnlyDeleteFiles ==
    ASSUME TypeOK, Next, ~DeleteFiles
    PROVE  Deleted = {}
<1>1. ASSUME NEW p \in Process, RecordFile(p) PROVE Deleted = {}
  <2>1. req[p].run \in Run
    BY <1>1 DEF RecordFile, TypeOK
  <2>. QED BY <1>1, <2>1 DEF RecordFile, TypeOK, Deleted
<1>2. CASE UNCHANGED files
  BY <1>2 DEF Deleted
<1>. QED BY <1>1, <1>2 DEF Next, BeginPut, BeginGet, TouchGet, Fail, BeginSweep, RunsToCheck, AskGitHub,
         MarkRunChecked, ListRuns, DeleteRunRow, DeleteFails, EndSweep, Tick, Complete, ReRun, tables

\* For any runs, jobs and passes: the files of a run go only when GitHub has
\* reported it complete since its last use, or was silent and nothing used it
\* for Keep, or it outlived every run; or a job used it behind the janitor's back.
THEOREM FilesGoOnlyWhenDone == Spec => FilesGoWhenDone
<1>1. Init => DoneInv
  BY TimesAssumption, NoRunAssumption DEF Init, DoneInv, NoAsk
<1>2. TypeOK /\ DoneInv /\ [Next]_vars => [\A r \in Deleted : Done(r) \/ r \in overtaken]_vars
  <2>. SUFFICES ASSUME TypeOK, DoneInv, Next, NEW r \in Deleted
                PROVE  Done(r) \/ r \in overtaken
    OBVIOUS
  <2>1. DeleteFiles
    BY OnlyDeleteFiles
  <2>2. r \in Run /\ r \in due \cup pressed
    BY <2>1 DEF DeleteFiles, Deleted, TypeOK
  <2>3. CASE r \in pressed
    BY <2>3 DEF DoneInv, Done
  <2>4. CASE r \in due
    <3>1. Settled(r)
      BY <2>4 DEF DoneInv
    <3>2. row[r] # NoRun => row[r].used \in Int /\ row[r].created \in Int
      BY <2>2, TimesAssumption DEF TypeOK, Row, Time
    <3>3. jnow \in Int /\ now \in Int /\ jnow <= now /\ Keep \in Int /\ MaxRunLifetime \in Int
      BY TimesAssumption DEF TypeOK, Time, DoneInv
    <3>. QED BY <3>1, <3>2, <3>3 DEF Settled, Done
  <2>. QED BY <2>2, <2>3, <2>4
<1>. QED BY <1>1, <1>2, TypeInit, TypeStep, DoneStep, PTL DEF Spec, FilesGoWhenDone
=============================================================================
