------------------------------ MODULE RunFiles ------------------------------
(***************************************************************************)
(* Run files: the files one job of a CI run hands to later jobs of the     *)
(* same run, and the janitor that deletes them once the run has ended.     *)
(*                                                                         *)
(* One step is one SQL statement or one answer of GitHub.  The janitor     *)
(* asks about each live run, stores what it heard, lists the runs and      *)
(* deletes some of them later; jobs send and receive at any moment.  What  *)
(* the blobs of the files go through is in BlobLifecycle.                  *)
(***************************************************************************)
EXTENDS Integers, FiniteSets

CONSTANTS
    Run,            \* workflow runs
    Name,           \* names of the files of a run
    Process,        \* requests of the runs' jobs
    NoRun,          \* no row in run_storage_runs; no run
    NoTime,         \* a time column that is NULL
    Keep,           \* BUILDHOST_RUN_FILES_KEEP
    CheckInterval,  \* how long a status GitHub reported is not asked again
    MaxRunLifetime, \* how long a run can last
    MaxTime         \* bound: the clock stops here

ASSUME NoRunAssumption == NoRun \notin Run
ASSUME TimesAssumption ==
    /\ {Keep, CheckInterval, MaxRunLifetime, MaxTime} \subseteq Nat
    /\ NoTime \notin Nat

VARIABLES
    now,        \* the clock
    running,    \* runs GitHub has in progress
    updated,    \* updated_at of each run at GitHub
    row,        \* run_storage_runs
    files,      \* run_files: the names each run holds
    pc,         \* the next step of each request
    req,        \* the run and the name of each request
    jpc,        \* the next step of the janitor
    jnow,       \* the time of its pass
    toCheck,    \* runs it has still to ask GitHub about
    asked,      \* the run GitHub has just answered for, and the end it reported
    unknown,    \* runs GitHub did not answer for in this pass
    due,        \* runs it has listed and deletes for their age
    pressed,    \* ended runs it has listed and deletes if disk is low
    deleting,   \* the run whose files are gone and whose row is not
    reported,   \* history: runs GitHub reported complete since their last use
    overtaken,  \* history: runs used after the janitor had asked about or listed them
    raced       \* history: runs a put was writing to while the janitor had them listed

tables  == <<row, files>>
github  == <<running, updated>>
request == <<pc, req>>
janitor == <<jpc, jnow, toCheck, asked, unknown, due, pressed, deleting>>
history == <<reported, overtaken, raced>>
vars    == <<now, github, tables, request, janitor, history>>

Time  == 0..MaxTime
Times == Time \cup {NoTime}

Row == [created : Time, used : Time, checked : Times, ended : Times]
ASSUME NoRowAssumption == NoRun \notin Row

NoReq == [run |-> NoRun, name |-> NoRun]
NoAsk == [run |-> NoRun, ended |-> NoTime]

\* InflightWrites() > 0: a put is in progress.
Busy == \E p \in Process : pc[p] = "record"

\* Runs the janitor means to delete.
Listed == due \cup pressed \cup ({deleting} \ {NoRun})

(***************************************************************************)
(* Sending and receiving                                                   *)
(***************************************************************************)

\* Runs a put has touched and not recorded its file for, while the janitor
\* has them listed.  Every step keeps the history of these overlaps.
Overlap == {r \in Listed : \E p \in Process : pc[p] = "record" /\ req[p].run = r}
Observe == raced' = raced \cup Overlap'

\* Mutant: a use does not make an ended run live again.
TouchRunKeepsEnded(r) ==
    /\ row' = [row EXCEPT ![r] =
                  IF @ = NoRun
                  THEN [created |-> now, used |-> now, checked |-> NoTime, ended |-> NoTime]
                  ELSE [@ EXCEPT !.used = now, !.checked = NoTime]]
    /\ reported' = reported \ {r}
    /\ overtaken' = IF r \in Listed \cup {asked.run} THEN overtaken \cup {r} ELSE overtaken \ {r}

\* TouchRunStorageRun: a use makes the run live again.
TouchRun(r) ==
    /\ row' = [row EXCEPT ![r] =
                  IF @ = NoRun
                  THEN [created |-> now, used |-> now, checked |-> NoTime, ended |-> NoTime]
                  ELSE [@ EXCEPT !.used = now, !.checked = NoTime, !.ended = NoTime]]
    /\ reported' = reported \ {r}
    /\ overtaken' = IF r \in Listed \cup {asked.run} THEN overtaken \cup {r} ELSE overtaken \ {r}

\* Mutant: the run is recorded with its first receive only.
BeginPutUntouched(p) ==
    \E r \in running, n \in Name :
        /\ pc[p] = "idle"
        /\ pc' = [pc EXCEPT ![p] = "record"]
        /\ req' = [req EXCEPT ![p] = [run |-> r, name |-> n]]
        /\ UNCHANGED <<now, github, tables, janitor, reported, overtaken>>
        /\ Observe

\* PutRunFile with the token of a running job: the run is touched, and then the
\* body stored.
BeginPut(p) ==
    \E r \in running, n \in Name :
        /\ pc[p] = "idle"
        /\ TouchRun(r)
        /\ pc' = [pc EXCEPT ![p] = "record"]
        /\ req' = [req EXCEPT ![p] = [run |-> r, name |-> n]]
        /\ UNCHANGED <<now, github, files, janitor>>
        /\ Observe

\* UpsertRunFile.
RecordFile(p) ==
    /\ pc[p] = "record"
    /\ files' = [files EXCEPT ![req[p].run] = @ \cup {req[p].name}]
    /\ pc' = [pc EXCEPT ![p] = "idle"]
    /\ req' = [req EXCEPT ![p] = NoReq]
    /\ UNCHANGED <<now, github, row, janitor, reported, overtaken>>
    /\ Observe

\* GetRunFile finds the file...
BeginGet(p) ==
    \E r \in running, n \in Name :
        /\ pc[p] = "idle"
        /\ n \in files[r]
        /\ pc' = [pc EXCEPT ![p] = "touch"]
        /\ req' = [req EXCEPT ![p] = [run |-> r, name |-> n]]
        /\ UNCHANGED <<now, github, tables, janitor, reported, overtaken>>
        /\ Observe

\* ... then touches its run and serves the blob.
TouchGet(p) ==
    /\ pc[p] = "touch"
    /\ TouchRun(req[p].run)
    /\ pc' = [pc EXCEPT ![p] = "idle"]
    /\ req' = [req EXCEPT ![p] = NoReq]
    /\ UNCHANGED <<now, github, files, janitor>>
    /\ Observe

\* The body breaks off, or a statement fails.
Fail(p) ==
    /\ pc[p] # "idle"
    /\ pc' = [pc EXCEPT ![p] = "idle"]
    /\ req' = [req EXCEPT ![p] = NoReq]
    /\ UNCHANGED <<now, github, tables, janitor, reported, overtaken>>
    /\ Observe

(***************************************************************************)
(* The janitor                                                             *)
(***************************************************************************)

\* A tick with no write in flight.
BeginSweep ==
    /\ jpc = "idle"
    /\ ~Busy
    /\ jpc' = "check"
    /\ jnow' = now
    /\ UNCHANGED <<now, github, tables, request, toCheck, asked, unknown, due, pressed, deleting,
                   history>>

\* ListRunsToCheck: live runs whose status was not read since the last interval.
RunsToCheck ==
    /\ jpc = "check"
    /\ toCheck' = {r \in Run :
                      /\ row[r] # NoRun
                      /\ row[r].ended = NoTime
                      /\ row[r].checked = NoTime \/ row[r].checked < jnow - CheckInterval}
    /\ jpc' = "ask"
    /\ UNCHANGED <<now, github, tables, request, jnow, asked, unknown, due, pressed, deleting,
                   history>>

\* GitHubRunEnded, for one run: an end, still running, or no answer.
AskGitHub ==
    /\ jpc = "ask"
    /\ \E r \in toCheck, answered \in BOOLEAN :
        /\ toCheck' = toCheck \ {r}
        /\ IF answered
           THEN /\ asked' = [run |-> r,
                             ended |-> IF r \in running THEN NoTime ELSE updated[r]]
                /\ reported' = IF r \in running THEN reported ELSE reported \cup {r}
                /\ jpc' = "mark"
                /\ UNCHANGED unknown
           ELSE /\ unknown' = unknown \cup {r}
                /\ UNCHANGED <<asked, reported, jpc>>
    /\ UNCHANGED <<now, github, tables, request, jnow, due, pressed, deleting, overtaken, raced>>

\* MarkRunChecked stores what GitHub said, an UPDATE of the row if it is there.
MarkRunChecked ==
    /\ jpc = "mark"
    /\ row' = [row EXCEPT ![asked.run] =
                  IF @ = NoRun THEN @ ELSE [@ EXCEPT !.checked = now, !.ended = asked.ended]]
    /\ asked' = NoAsk
    /\ jpc' = "ask"
    /\ UNCHANGED <<now, github, files, request, jnow, toCheck, unknown, due, pressed, deleting,
                   history>>

Expired(r) == row[r].ended # NoTime /\ jnow - row[r].ended >= Keep
Unused(r)  == r \in unknown /\ jnow - row[r].used >= Keep
Lost(r)    == jnow - row[r].created >= MaxRunLifetime

\* ListRunStorageRuns, and what the pass will do with each run.
ListRuns ==
    LET runs == {r \in Run : row[r] # NoRun} IN
    /\ jpc = "ask"
    /\ toCheck = {}
    /\ due' = {r \in runs : Expired(r) \/ Unused(r) \/ Lost(r)}
    /\ pressed' = {r \in runs \ due' : row[r].ended # NoTime}
    /\ jpc' = "delete"
    /\ UNCHANGED <<now, github, tables, request, jnow, toCheck, asked, unknown, deleting,
                   reported, overtaken>>
    /\ Observe

\* DeleteRunFiles of a run that is due; once none is, of an ended run while the
\* disk is low.  Which ended run goes first is left open.
DeleteFiles ==
    /\ jpc = "delete"
    /\ deleting = NoRun
    /\ \E r \in IF due # {} THEN due ELSE pressed :
        /\ files' = [files EXCEPT ![r] = {}]
        /\ deleting' = r
        /\ due' = due \ {r}
        /\ pressed' = pressed \ {r}
    /\ UNCHANGED <<now, github, row, request, jpc, jnow, toCheck, asked, unknown, reported, overtaken>>
    /\ Observe

\* DeleteRunStorageRun; the blobs of the files follow.
DeleteRunRow ==
    /\ jpc = "delete"
    /\ deleting # NoRun
    /\ row' = [row EXCEPT ![deleting] = NoRun]
    /\ deleting' = NoRun
    /\ UNCHANGED <<now, github, files, request, jpc, jnow, toCheck, asked, unknown, due, pressed,
                   reported, overtaken>>
    /\ Observe

\* A delete fails and the pass goes on with the next run.
DeleteFails ==
    /\ jpc = "delete"
    /\ \/ deleting # NoRun /\ deleting' = NoRun /\ UNCHANGED <<due, pressed>>
       \/ /\ deleting = NoRun
          /\ \E r \in IF due # {} THEN due ELSE pressed :
                due' = due \ {r} /\ pressed' = pressed \ {r}
          /\ UNCHANGED deleting
    /\ UNCHANGED <<now, github, tables, request, jpc, jnow, toCheck, asked, unknown, reported, overtaken>>
    /\ Observe

\* The pass ends: nothing left to do, enough free disk, an error or a restart.
EndSweep ==
    /\ jpc # "idle"
    /\ jpc' = "idle"
    /\ jnow' = 0
    /\ toCheck' = {} /\ unknown' = {} /\ due' = {} /\ pressed' = {}
    /\ asked' = NoAsk
    /\ deleting' = NoRun
    /\ UNCHANGED <<now, github, tables, request, reported, overtaken>>
    /\ Observe

(***************************************************************************)
(* The outside world                                                       *)
(***************************************************************************)

Tick ==
    /\ now < MaxTime
    /\ now' = now + 1
    /\ UNCHANGED <<github, tables, request, janitor, history>>

Complete ==
    /\ \E r \in running :
        /\ running' = running \ {r}
        /\ updated' = [updated EXCEPT ![r] = now]
    /\ UNCHANGED <<now, tables, request, janitor, history>>

\* Somebody re-runs a job of a completed run.
ReRun ==
    /\ \E r \in Run \ running : running' = running \cup {r}
    /\ UNCHANGED <<now, updated, tables, request, janitor, history>>

Init ==
    /\ now = 0
    /\ running = Run
    /\ updated = [r \in Run |-> 0]
    /\ row = [r \in Run |-> NoRun]
    /\ files = [r \in Run |-> {}]
    /\ pc = [p \in Process |-> "idle"]
    /\ req = [p \in Process |-> NoReq]
    /\ jpc = "idle"
    /\ jnow = 0
    /\ toCheck = {} /\ unknown = {} /\ due = {} /\ pressed = {}
    /\ asked = NoAsk
    /\ deleting = NoRun
    /\ reported = {} /\ overtaken = {} /\ raced = {}

Next ==
    \/ \E p \in Process : BeginPut(p) \/ RecordFile(p) \/ BeginGet(p) \/ TouchGet(p) \/ Fail(p)
    \/ BeginSweep \/ RunsToCheck \/ AskGitHub \/ MarkRunChecked \/ ListRuns
    \/ DeleteFiles \/ DeleteRunRow \/ DeleteFails \/ EndSweep
    \/ Tick \/ Complete \/ ReRun

Spec == Init /\ [][Next]_vars

(***************************************************************************)
(* Properties                                                              *)
(***************************************************************************)

\* Type invariant.  Only a status check ends a run, so an ended run has been
\* checked since its last use (TouchRunStorageRun, MarkRunChecked).
TypeOK ==
    /\ now \in Time /\ jnow \in Time
    /\ running \subseteq Run
    /\ updated \in [Run -> Time]
    /\ row \in [Run -> Row \cup {NoRun}]
    /\ \A r \in Run : row[r] # NoRun /\ row[r].ended # NoTime => row[r].checked # NoTime
    /\ files \in [Run -> SUBSET Name]
    /\ pc \in [Process -> {"idle", "touch", "record"}]
    /\ req \in [Process -> [run : Run, name : Name] \cup {NoReq}]
    /\ \A p \in Process : pc[p] # "idle" => req[p].run \in Run
    /\ jpc \in {"idle", "check", "ask", "mark", "delete"}
    /\ toCheck \subseteq Run /\ unknown \subseteq Run /\ due \subseteq Run /\ pressed \subseteq Run
    /\ asked \in [run : Run, ended : Times] \cup {NoAsk}
    /\ jpc = "mark" => asked.run \in Run
    /\ deleting \in Run \cup {NoRun}
    /\ reported \subseteq Run /\ overtaken \subseteq Run /\ raced \subseteq Run

\* The janitor may delete the files of r now, by what is known of it now.
Done(r) ==
    \/ r \in reported
    \/ r \in unknown /\ row[r] # NoRun /\ now - row[r].used >= Keep
    \/ row[r] # NoRun /\ now - row[r].created >= MaxRunLifetime

\* The runs whose files the step deletes.
Deleted == {r \in Run : files[r] # {} /\ files'[r] = {}}

\* A run's files go only when GitHub has reported the run complete since its
\* last use, or did not answer and nothing used it for Keep, or the run is older
\* than a run can be; or when a job used the run after the janitor had asked
\* about it or listed it (TouchRun, checkRuns, sweep).
FilesGoWhenDone == [][\A r \in Deleted : Done(r) \/ r \in overtaken]_vars

\* A file belongs to a run the janitor can find: one without a run row, which
\* no pass ever deletes, was recorded by a put that raced the deletion of its
\* run (PutRunFile, DeleteRun).
StrayFilesRaced == \A r \in Run : files[r] # {} /\ row[r] = NoRun => r \in raced

\* A send or a receive makes a run live again, and a live run keeps its files
\* until GitHub reports it complete (TouchRun, MarkRunChecked).
LiveRunsKeepFiles == [][\A r \in Deleted : Done(r)]_vars
=============================================================================
