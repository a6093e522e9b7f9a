----------------------------- MODULE Visibility -----------------------------
(***************************************************************************)
(* Who may see a project: the operator's overrides on the project and on   *)
(* folders of projects, the visibility of the repository behind it, and    *)
(* projects.is_private, the resolved value every read checks.              *)
(*                                                                         *)
(* A request with a repository's token synchronizes the repository's       *)
(* visibility; the operator sets overrides in the dashboard.  One step is  *)
(* one SQL statement: nothing here runs in a transaction.                  *)
(***************************************************************************)
EXTENDS Integers, FiniteSets, Sequences

CONSTANTS
    VProject,   \* projects
    VSegment,   \* second segments of project names under one root
    VCaller,    \* requests
    NoRow,
    MaxVisCalls \* bound: requests

VMode == {"auto", "public", "private"}
VName == {<<"root">>} \cup {<<"root", s>> : s \in VSegment}
VRow  == [mode : VMode, auto : BOOLEAN]

ASSUME NoRowAssumption == NoRow \notin VRow
ASSUME VisBounds == MaxVisCalls \in Nat

VARIABLES
    visName,    \* projects.name
    isPrivate,  \* projects.is_private
    visRow,     \* project_visibility: mode and repository's visibility
    folders,    \* visibility_folders: the mode of a prefix, auto if it has no row
    visCall,    \* each request: its next statement and its locals
    visCalls,   \* requests so far
    unsettled   \* history: projects whose requests overlapped, or that were renamed

visTables == <<visName, isPrivate, visRow, folders>>
visVars   == <<visTables, visCall, visCalls, unsettled>>

\* Visibility.Apply: a mode over the inherited state.
ApplyMode(mode, inherited) ==
    IF mode = "public" THEN FALSE ELSE IF mode = "private" THEN TRUE ELSE inherited

\* FolderCovers: the project itself, or one under the prefix.
FolderCovers(prefix, name) == Len(prefix) <= Len(name) /\ SubSeq(name, 1, Len(prefix)) = prefix

\* resolveProject: the longest folder rule that covers the name, under the
\* project's own mode.
ResolvePrivate(name, row, rules) ==
    LET covering == {f \in VName : rules[f] # "auto" /\ FolderCovers(f, name)}
        longest  == {f \in covering : \A g \in covering : Len(g) <= Len(f)}
        folder   == IF covering = {} THEN "auto" ELSE rules[CHOOSE f \in longest : TRUE]
    IN  ApplyMode(row.mode, ApplyMode(folder, row.auto))

\* The row of a project that has none: its current state.
DefaultRow(private) == [mode |-> "auto", auto |-> private]

\* A request: op and what it sets (auto, mode or the rule of prefix), the project
\* it works on as it read it (p, name, priv), the ones it has left, and what it
\* has read of the tables; alone, a history, says that it met no other.
VisIdle ==
    [pc |-> "idle", op |-> "none", auto |-> FALSE, mode |-> "auto", prefix |-> <<"root">>,
     p |-> NoRow, name |-> <<"root">>, priv |-> FALSE, todo |-> {},
     row |-> DefaultRow(FALSE), rules |-> [f \in VName |-> "auto"], alone |-> FALSE]

VisAt(c, s) == visCall[c].pc = s
VisGo(c, r) == visCall' = [visCall EXCEPT ![c] = r]
Running     == {c \in VCaller : ~VisAt(c, "idle")}

\* A request starts: it and the ones it meets overlap.
VisBegin(c, r) ==
    /\ VisAt(c, "idle")
    /\ visCalls < MaxVisCalls /\ visCalls' = visCalls + 1
    /\ visCall' = [d \in VCaller |->
         IF d = c THEN [r EXCEPT !.alone = (Running = {})]
         ELSE IF d \in Running THEN [visCall[d] EXCEPT !.alone = FALSE] ELSE visCall[d]]

\* SyncAutoPrivate, on the project as requireProject read it.
BeginSync(c) ==
    \E p \in VProject, repoPrivate \in BOOLEAN :
        /\ VisBegin(c, [VisIdle EXCEPT !.pc = "row", !.op = "sync", !.auto = repoPrivate,
                                       !.p = p, !.name = visName[p], !.priv = isPrivate[p]])
        /\ UNCHANGED <<visTables, unsettled>>

\* apiSetProjectVisibility.
BeginSetMode(c) ==
    \E p \in VProject, mode \in VMode :
        /\ VisBegin(c, [VisIdle EXCEPT !.pc = "row", !.op = "mode", !.mode = mode,
                                       !.p = p, !.name = visName[p], !.priv = isPrivate[p]])
        /\ UNCHANGED <<visTables, unsettled>>

\* apiSetVisibilityFolder: the rule first, then every project it covers.
BeginSetFolder(c) ==
    \E f \in VName, mode \in VMode :
        /\ VisBegin(c, [VisIdle EXCEPT !.pc = "list", !.op = "folder", !.prefix = f])
        /\ folders' = [folders EXCEPT ![f] = mode]
        /\ UNCHANGED <<visName, isPrivate, visRow, unsettled>>

\* The columns of a project that a listing reads.
ProjectRead(p) == [p |-> p, name |-> visName[p], priv |-> isPrivate[p]]

\* Mutant: only the project of that very name is resolved again.
ListCoveredExact(c) ==
    /\ VisAt(c, "list")
    /\ VisGo(c, [visCall[c] EXCEPT !.pc = "next", !.todo =
         {ProjectRead(p) : p \in {q \in VProject : visName[q] = visCall[c].prefix}}])
    /\ UNCHANGED <<visTables, visCalls, unsettled>>

\* SetVisibilityFolder lists the projects and keeps those under the folder.
ListCovered(c) ==
    /\ VisAt(c, "list")
    /\ VisGo(c, [visCall[c] EXCEPT !.pc = "next", !.todo =
         {ProjectRead(p) : p \in {q \in VProject : FolderCovers(visCall[c].prefix, visName[q])}}])
    /\ UNCHANGED <<visTables, visCalls, unsettled>>

NextCovered(c) ==
    /\ VisAt(c, "next")
    /\ \E t \in visCall[c].todo :
         VisGo(c, [visCall[c] EXCEPT !.pc = "resolve", !.p = t.p, !.name = t.name, !.priv = t.priv,
                                     !.todo = visCall[c].todo \ {t}])
    /\ UNCHANGED <<visTables, visCalls, unsettled>>

\* projectVisibilityRow: the row, or one that keeps the state the request read.
\* Before the change ("row") and again before resolving ("resolve").
ReadRow(c) ==
    LET v   == visCall[c]
        has == visRow[v.p] # NoRow
        row == IF has THEN visRow[v.p] ELSE DefaultRow(v.priv)
    IN  /\ \/ VisAt(c, "row")     /\ VisGo(c, [v EXCEPT !.pc = IF has THEN "write" ELSE "insert", !.row = row])
           \/ VisAt(c, "resolve") /\ VisGo(c, [v EXCEPT !.pc = IF has THEN "rules" ELSE "fill", !.row = row])
        /\ UNCHANGED <<visTables, visCalls, unsettled>>

\* UpsertProjectVisibilityRow of the default row.
InsertRow(c) ==
    /\ VisAt(c, "insert") \/ VisAt(c, "fill")
    /\ visRow' = [visRow EXCEPT ![visCall[c].p] = visCall[c].row]
    /\ VisGo(c, [visCall[c] EXCEPT !.pc = IF VisAt(c, "insert") THEN "write" ELSE "rules"])
    /\ UNCHANGED <<visName, isPrivate, folders, visCalls, unsettled>>

\* Mutant: a synchronization resets the operator's mode.
WriteRowResets(c) ==
    LET v == visCall[c]
        row == IF v.op = "sync" THEN [mode |-> "auto", auto |-> v.auto] ELSE [v.row EXCEPT !.mode = v.mode]
    IN  /\ VisAt(c, "write")
        /\ visRow' = [visRow EXCEPT ![v.p] = row]
        /\ VisGo(c, [v EXCEPT !.pc = "resolve", !.row = VisIdle.row])
        /\ UNCHANGED <<visName, isPrivate, folders, visCalls, unsettled>>

\* The change, on the row read before: a synchronization keeps the mode and
\* writes only a new value, the operator keeps the repository's visibility.
WriteRow(c) ==
    LET v == visCall[c]
        row == IF v.op = "sync" THEN [v.row EXCEPT !.auto = v.auto] ELSE [v.row EXCEPT !.mode = v.mode]
    IN  /\ VisAt(c, "write")
        /\ visRow' = IF v.op = "sync" /\ row = v.row THEN visRow ELSE [visRow EXCEPT ![v.p] = row]
        /\ VisGo(c, [v EXCEPT !.pc = "resolve", !.row = VisIdle.row])
        /\ UNCHANGED <<visName, isPrivate, folders, visCalls, unsettled>>

\* ListVisibilityFolders.
ReadRules(c) ==
    /\ VisAt(c, "rules")
    /\ VisGo(c, [visCall[c] EXCEPT !.pc = "apply", !.rules = folders])
    /\ UNCHANGED <<visTables, visCalls, unsettled>>

\* ApplyProjectPrivate; a folder goes on with its next project.  A request that
\* met no other leaves its project settled.
ApplyPrivate(c) ==
    LET v == visCall[c] IN
    /\ VisAt(c, "apply")
    /\ isPrivate' = [isPrivate EXCEPT ![v.p] = ResolvePrivate(v.name, v.row, v.rules)]
    /\ unsettled' = IF v.alone THEN unsettled \ {v.p} ELSE unsettled \cup {v.p}
    /\ VisGo(c, IF v.op = "folder"
                THEN [VisIdle EXCEPT !.pc = "next", !.op = "folder", !.todo = v.todo, !.alone = v.alone]
                ELSE VisIdle)
    /\ UNCHANGED <<visName, visRow, folders, visCalls>>

EndFolder(c) ==
    /\ VisAt(c, "next")
    /\ visCall[c].todo = {}
    /\ VisGo(c, VisIdle)
    /\ UNCHANGED <<visTables, visCalls, unsettled>>

\* A statement fails or the client goes away: what was written stays.
VisFail(c) ==
    /\ c \in Running
    /\ VisGo(c, VisIdle)
    /\ unsettled' = VProject
    /\ UNCHANGED <<visTables, visCalls>>

\* The repository is renamed and the project follows: nothing resolves it again.
RenameVisible ==
    \E p \in VProject, n \in VName :
        /\ \A q \in VProject : visName[q] # n
        /\ visCalls < MaxVisCalls /\ visCalls' = visCalls + 1
        /\ visName' = [visName EXCEPT ![p] = n]
        /\ unsettled' = unsettled \cup {p}
        /\ visCall' = [d \in VCaller |->
                         IF d \in Running THEN [visCall[d] EXCEPT !.alone = FALSE] ELSE visCall[d]]
        /\ UNCHANGED <<isPrivate, visRow, folders>>

VisInit ==
    /\ visName \in {f \in [VProject -> VName] : \A p, q \in VProject : f[p] = f[q] => p = q}
    /\ isPrivate \in [VProject -> BOOLEAN]
    /\ \E old \in SUBSET VProject :
         visRow = [p \in VProject |-> IF p \in old THEN NoRow ELSE DefaultRow(isPrivate[p])]
    /\ folders = [f \in VName |-> "auto"]
    /\ visCall = [c \in VCaller |-> VisIdle]
    /\ visCalls = 0
    /\ unsettled = {}

VisStep(c) ==
    \/ BeginSync(c) \/ BeginSetMode(c) \/ BeginSetFolder(c)
    \/ ListCovered(c) \/ NextCovered(c) \/ ReadRow(c) \/ InsertRow(c) \/ WriteRow(c)
    \/ ReadRules(c) \/ ApplyPrivate(c) \/ EndFolder(c) \/ VisFail(c)

VisNext == RenameVisible \/ \E c \in VCaller : VisStep(c)

VisSpec == VisInit /\ [][VisNext]_visVars

-----------------------------------------------------------------------------

VisTypeOK ==
    /\ isPrivate \in [VProject -> BOOLEAN]
    /\ visName \in [VProject -> VName]
    /\ visRow \in [VProject -> {NoRow} \cup VRow]
    /\ folders \in [VName -> VMode]

\* When no request runs, is_private is what the overrides and the repository's
\* visibility resolve to, unless requests overlapped, one failed or the project
\* was renamed since the last request that resolved it alone
\* (applyProjectVisibility after every change; SetVisibilityFolder for all it covers).
PrivateIsResolved ==
    /\ VisTypeOK
    /\ Running = {} => \A p \in VProject \ unsettled :
           isPrivate[p] = ResolvePrivate(visName[p],
                            IF visRow[p] = NoRow THEN DefaultRow(isPrivate[p]) ELSE visRow[p], folders)

\* An operator's mode is changed by the operator alone: no synchronization that
\* overlaps nothing loses it ("an override keeps winning", SyncAutoPrivate).
OverridesSurvive ==
    [][\A p \in VProject :
         (visRow[p] # NoRow /\ visRow'[p].mode # visRow[p].mode)
           => \E c \in {d \in VCaller : visCall[d].pc \in {"write", "insert", "fill"}} :
                visCall[c].p = p /\ (visCall[c].op = "mode" \/ ~visCall[c].alone)]_visVars

=============================================================================
