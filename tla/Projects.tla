------------------------------ MODULE Projects ------------------------------
(***************************************************************************)
(* Projects, the names they answer to, the GitHub repository each is       *)
(* pinned to, what they depend on, and the merge of two of them.           *)
(*                                                                         *)
(* A repository owns a root name and the names under it.  Repositories are *)
(* renamed, transferred, deleted and made again under the same name; a     *)
(* write with a token of a repository first moves its projects to the name *)
(* the token carries.  One step is one SQL statement or transaction.       *)
(* Visibility is in module Visibility, numbers in module Releases.         *)
(***************************************************************************)
EXTENDS Integers, FiniteSets, Sequences

CONSTANTS
    Repo,         \* numeric GitHub repository ids
    Owner,        \* numeric GitHub owner ids
    Root,         \* names of repositories, and the root names they own
    Child,        \* second segments of project names
    Branch,       \* branches sites are deployed for, and tags
    Caller,       \* requests
    None,
    MaxProjects,  \* bound: projects ever inserted
    MaxReleases,  \* bound: releases ever inserted
    MaxMoves,     \* bound: renames and replacements of repositories
    MaxCalls      \* bound: requests

Id      == 1..MaxProjects
Release == 1..MaxReleases
ProjectName == {<<r>> : r \in Root} \cup {<<r, c>> : r \in Root, c \in Child}
ProjectRow  == [name : ProjectName, pin : Repo \cup {None}, owner : Owner \cup {None}]

ASSUME ProjectBounds == MaxProjects \in Nat /\ MaxReleases \in Nat
ASSUME NoneAssumption == None \notin Repo \cup Id \cup ProjectRow \cup [proj : Id, num : Nat]

VARIABLES
    repo,      \* GitHub: each repository's name and owner; None once deleted
    proj,      \* projects: name, pinned repository and owner
    alias,     \* project_aliases: the project each name leads to
    deps,      \* projects.depends: names of projects
    rel,       \* releases: project and number
    sites,     \* sites and oci_tags: <<project, branch or tag>>
    call,      \* each request: its next step and its locals
    holder,    \* history: the first project a name belonged to
    into,      \* history: the project that has the rows of one merged away
    made,      \* history: the project a release was made in
    shadowed,  \* history: names that were taken over while they led to another project
    loose,     \* history: projects a cycle of dependencies may pass through
    contested, \* history: projects whose pin a request that read none has replaced
    moves,     \* renames and replacements so far
    calls      \* requests so far

repos    == <<repo, moves>>
ptables  == <<proj, alias, deps, rel, sites>>
phistory == <<holder, into, made, shadowed, loose, contested>>
projVars == <<repos, ptables, call, calls, phistory>>

Live == {i \in Id : proj[i] # None}
Idle == [pc |-> "idle"]
Counted == calls < MaxCalls /\ calls' = calls + 1
Moved   == moves < MaxMoves /\ moves' = moves + 1

(***************************************************************************)
(* Names                                                                   *)
(***************************************************************************)

\* GetProjectByName, ListAllProjects.
Named(n) == {i \in Live : proj[i].name = n}

\* ResolveProject: as a project, then as an alias.
Resolve(n) ==
    IF Named(n) # {} THEN CHOOSE i \in Named(n) : TRUE ELSE alias[n]

\* Mutant: any alias counts as free.
NameAvailableToAny(n, i) == Named(n) = {}

\* NameAvailableTo: free, or an alias of the project itself.
NameAvailableTo(n, i) == Named(n) = {} /\ alias[n] \in {None, i}

\* renamedNamespaceName: the name under another root; None if it is there.  A
\* child that repeats the root collapses onto it.
RenamedNamespaceName(n, root) ==
    IF n[1] = root THEN None
    ELSE IF Len(n) = 1 \/ n[2] = root THEN <<root>>
    ELSE <<root, n[2]>>

\* oidcAuthorizesProject: the project is in the namespace of the token.
AuthorizesProject(root, n) == n[1] = root

\* renameDepends: each list that names old names new; new itself drops it.
RenameDepends(d, old, new, i) ==
    [j \in Id |-> IF old \in d[j]
                  THEN (d[j] \ {old}) \cup (IF j = i THEN {} ELSE {new})
                  ELSE d[j]]

\* The first project that has a name is its holder.
Holds(n, i) == holder' = [holder EXCEPT ![n] = IF @ = None THEN i ELSE @]

(***************************************************************************)
(* Creating a project                                                      *)
(***************************************************************************)

NewId == Cardinality({i \in Id : proj[i] # None \/ into[i] # None}) + 1

\* InsertProject: the name is unique among projects, not among aliases.
InsertProject(n, p, o) ==
    /\ NewId \in Id
    /\ proj' = [proj EXCEPT ![NewId] = [name |-> n, pin |-> p, owner |-> o]]
    /\ Holds(n, NewId)
    /\ shadowed' = IF alias[n] # None THEN shadowed \cup {n} ELSE shadowed
    /\ UNCHANGED <<alias, deps, rel, sites, into, made, loose, contested>>

\* POST /api/v1/projects, with an API token.
CreateProject ==
    \E n \in ProjectName :
        /\ Named(n) = {}
        /\ InsertProject(n, None, None)
        /\ Counted
        /\ UNCHANGED <<repos, call>>

(***************************************************************************)
(* A write with the token of a repository                                  *)
(***************************************************************************)

At(c, s) == call[c].pc = s
Go(c, r) == call' = [call EXCEPT ![c] = r]

\* The token carries the repository's id, owner and name of when it was minted.
BeginWrite(c) ==
    \E r \in Repo, n \in ProjectName :
        /\ At(c, "idle")
        /\ Counted
        /\ repo[r] # None
        /\ Go(c, [pc |-> "list", repo |-> r, owner |-> repo[r].owner, root |-> repo[r].name,
                  name |-> n])
        /\ UNCHANGED <<repos, ptables, phistory>>

\* reconcileRepoNamespace lists the repository's projects...
ListProjects(c) ==
    /\ At(c, "list")
    /\ LET mine == {i \in Live : proj[i].pin = call[c].repo} IN
       Go(c, [pc |-> "probe", repo |-> call[c].repo, owner |-> call[c].owner, root |-> call[c].root,
              name |-> call[c].name, todo |-> {[id |-> i, name |-> proj[i].name] : i \in mine},
              to |-> None])
    /\ UNCHANGED <<repos, ptables, phistory>>

\* ... asks for each whether its new name is free...
ProbeName(c) ==
    /\ At(c, "probe")
    /\ \E p \in call[c].todo :
        LET new  == RenamedNamespaceName(p.name, call[c].root)
            rest == [call[c] EXCEPT !.todo = @ \ {p}] IN
        IF new # None /\ NameAvailableTo(new, p.id)
        THEN Go(c, [rest EXCEPT !.pc = "rename", !.to = [id |-> p.id, old |-> p.name, new |-> new, was |-> alias[new]]])
        ELSE Go(c, rest)
    /\ UNCHANGED <<repos, ptables, phistory>>

\* The names a rename takes from others, or leaves to them, because another request
\* changed the tables since the probe.
TakenOver(t) ==
    {n \in {t.new, t.old, proj[t.id].name} :
        \/ n = t.new /\ holder[n] # None /\ Resolve(n) \notin {t.id, t.was} \ {None}
        \/ n = t.old /\ Resolve(n) # t.id
        \/ n \notin {t.new, t.old}}

\* ... and renames it.  The transaction fails if the name is taken or the
\* project gone, and the next one follows.
RenameProject(c) ==
    /\ At(c, "rename")
    /\ LET t     == call[c].to
           taken == TakenOver(t) IN
       IF Named(t.new) \subseteq {t.id} /\ t.id \in Live
       THEN /\ proj' = [proj EXCEPT ![t.id].name = t.new]
            /\ alias' = [alias EXCEPT ![t.new] = None, ![t.old] = t.id]
            /\ deps' = RenameDepends(deps, t.old, t.new, t.id)
            /\ Holds(t.new, t.id)
            /\ shadowed' = shadowed \cup taken
            /\ loose' = IF taken = {} THEN loose ELSE loose \cup ({t.id, alias[proj[t.id].name]} \ {None})
            /\ UNCHANGED <<rel, sites, into, made, contested>>
       ELSE UNCHANGED <<ptables, phistory>>
    /\ Go(c, [call[c] EXCEPT !.pc = "probe", !.to = None])
    /\ UNCHANGED repos

\* requireProject resolves the name and reads the project.  An unknown name in
\* the token's namespace is provisioned; any other is not found.
ResolveProject(c) ==
    /\ At(c, "probe")
    /\ call[c].todo = {}
    /\ LET i == Resolve(call[c].name)
           base == [pc |-> "guard", repo |-> call[c].repo, owner |-> call[c].owner,
                    root |-> call[c].root, name |-> call[c].name, id |-> i, seen |-> None] IN
       Go(c, CASE i # None -> [base EXCEPT !.seen = proj[i]]
               [] i = None /\ AuthorizesProject(call[c].root, call[c].name) ->
                    [base EXCEPT !.pc = "provision"]
               [] OTHER -> Idle)
    /\ UNCHANGED <<repos, ptables, phistory>>

\* CreateProject with the pin from birth; a conflict reads the other's project.
Provision(c) ==
    /\ At(c, "provision")
    /\ IF Named(call[c].name) = {}
       THEN /\ InsertProject(call[c].name, call[c].repo, call[c].owner)
            /\ Go(c, [call[c] EXCEPT !.pc = "guard", !.id = NewId, !.seen = proj'[NewId]])
       ELSE LET i == CHOOSE i \in Named(call[c].name) : TRUE IN
            /\ Go(c, [call[c] EXCEPT !.pc = "guard", !.id = i, !.seen = proj[i]])
            /\ UNCHANGED <<ptables, phistory>>
    /\ UNCHANGED repos

\* Mutant: a token of another repository pins the project again.
GuardRepins(c) ==
    LET seen == call[c].seen IN
    /\ At(c, "guard")
    /\ IF ~AuthorizesProject(call[c].root, seen.name)
       THEN Go(c, Idle) /\ UNCHANGED ptables
       ELSE /\ proj' = IF proj[call[c].id] = None THEN proj
                       ELSE [proj EXCEPT ![call[c].id].pin = call[c].repo, ![call[c].id].owner = call[c].owner]
            /\ Go(c, [call[c] EXCEPT !.pc = "act"])
            /\ UNCHANGED <<alias, deps, rel, sites>>
    /\ UNCHANGED <<repos, phistory>>

\* The rename and resurrection guard, on the project as it was read: another
\* repository is refused, a transfer or a first write stores the token's ids.
\* A project outside the token's namespace is refused.
Guard(c) ==
    LET seen == call[c].seen
        i    == call[c].id
        pins == (seen.pin = None \/ seen.owner # call[c].owner) /\ proj[i] # None IN
    /\ At(c, "guard")
    /\ IF ~AuthorizesProject(call[c].root, seen.name) \/ seen.pin \notin {None, call[c].repo}
       THEN Go(c, Idle) /\ UNCHANGED <<ptables, contested>>
       ELSE /\ proj' = IF pins THEN [proj EXCEPT ![i].pin = call[c].repo, ![i].owner = call[c].owner]
                       ELSE proj
            /\ contested' = IF pins /\ seen.pin = None /\ proj[i].pin \notin {None, call[c].repo}
                            THEN contested \cup {i} ELSE contested
            /\ Go(c, [call[c] EXCEPT !.pc = "act"])
            /\ UNCHANGED <<alias, deps, rel, sites>>
    /\ UNCHANGED <<repos, holder, into, made, shadowed, loose>>

(***************************************************************************)
(* What an authorized write does                                           *)
(***************************************************************************)

Numbers(i)  == {rel[r].num : r \in {s \in Release : rel[s] # None /\ rel[s].proj = i}}
LastNum(i)  == IF Numbers(i) = {} THEN 0 ELSE CHOOSE n \in Numbers(i) : \A m \in Numbers(i) : m <= n
NextRelease == Cardinality({r \in Release : rel[r] # None}) + 1

\* A release of the project, numbered after its last.
MakeRelease(c) ==
    /\ At(c, "act")
    /\ call[c].id \in Live
    /\ NextRelease \in Release
    /\ rel' = [rel EXCEPT ![NextRelease] = [proj |-> call[c].id, num |-> LastNum(call[c].id) + 1]]
    /\ made' = [made EXCEPT ![NextRelease] = call[c].id]
    /\ Go(c, Idle)
    /\ UNCHANGED <<repos, proj, alias, deps, sites, holder, into, shadowed, loose, contested>>

\* A site of a branch, or an OCI tag.
DeploySite(c) ==
    /\ At(c, "act")
    /\ call[c].id \in Live
    /\ \E b \in Branch : sites' = sites \cup {<<call[c].id, b>>}
    /\ Go(c, Idle)
    /\ UNCHANGED <<repos, proj, alias, deps, rel, phistory>>

\* The projects a set of names leads to.
DepIds(names) == {Resolve(n) : n \in names} \ {None}

\* Those of the projects s, and of all they depend on in turn, that a walk which
\* passes through no project of avoid finds: the least set that holds what it leads to.
Reach(s, avoid) ==
    {j \in Id : \A seen \in SUBSET Id :
        s \ avoid \subseteq seen /\ (\A i \in seen : DepIds(deps[i]) \ avoid \subseteq seen) => j \in seen}

\* refuseDependsCycle: no dependency leads back to the project.
Acyclic(i, names) == i \notin Reach(DepIds(names), {})

\* resolveDepends: each name must resolve, to another project, and close no cycle.
CheckDepends(c) ==
    /\ At(c, "act")
    /\ call[c].id \in Live
    /\ \E n \in ProjectName :
        /\ Resolve(n) \notin {None, call[c].id}
        /\ Acyclic(call[c].id, {n})
        /\ Go(c, [pc |-> "depends", id |-> call[c].id, names |-> {proj[Resolve(n)].name}])
    /\ UNCHANGED <<repos, ptables, phistory>>

\* SetProjectDepends.
StoreDepends(c) ==
    /\ At(c, "depends")
    /\ deps' = IF call[c].id \in Live THEN [deps EXCEPT ![call[c].id] = call[c].names] ELSE deps
    /\ loose' = loose \cup
         {call[d].id : d \in {d \in Caller \ {c} : At(d, "depends") /\ call[d].id # call[c].id}}
    /\ Go(c, Idle)
    /\ UNCHANGED <<repos, proj, alias, rel, sites, holder, into, made, shadowed, contested>>

(***************************************************************************)
(* Merging two projects of one repository                                  *)
(***************************************************************************)

Of(i) == {r \in Release : rel[r] # None /\ rel[r].proj = i}

\* PlanProjectMerge: the releases of the source follow those of the target.
Plan(src, dst) ==
    [r \in Of(src) |-> LastNum(dst) + Cardinality({s \in Of(src) : rel[s].num <= rel[r].num})]

\* The conflicts of a plan: not one repository, or a site on both sides.
Mergeable(src, dst) ==
    /\ src \in Live /\ dst \in Live /\ src # dst
    /\ proj[src].pin # None /\ proj[src].pin = proj[dst].pin
    /\ \A b \in Branch : ~(<<src, b>> \in sites /\ <<dst, b>> \in sites)

\* apiMerge plans, and writes a snapshot of the database.
PlanMerge(c) ==
    \E src, dst \in Id :
        /\ At(c, "idle")
        /\ Counted
        /\ Mergeable(src, dst)
        /\ Go(c, [pc |-> "replan", src |-> src, dst |-> dst, plan |-> Plan(src, dst),
                  name |-> proj[src].name, dname |-> proj[dst].name])
        /\ UNCHANGED <<repos, ptables, phistory>>

\* ApplyProjectMerge plans again, and refuses if the plan has changed.
RecheckMerge(c) ==
    LET m == call[c] IN
    /\ At(c, "replan")
    /\ IF /\ Named(m.name) = {m.src} /\ Named(m.dname) = {m.dst}
          /\ Mergeable(m.src, m.dst)
          /\ Plan(m.src, m.dst) = m.plan
       THEN Go(c, [m EXCEPT !.pc = "merge"])
       ELSE Go(c, Idle)
    /\ UNCHANGED <<repos, ptables, phistory>>

\* A row of each list is moved; a row outside the plan, or one that collides,
\* fails the transaction.
Drained(m) ==
    /\ m.src \in Live /\ m.dst \in Live
    /\ Of(m.src) = DOMAIN m.plan
    /\ \A r \in DOMAIN m.plan : m.plan[r] \notin Numbers(m.dst)
    /\ \A b \in Branch : ~(<<m.src, b>> \in sites /\ <<m.dst, b>> \in sites)
    /\ alias[m.name] = None

\* The transaction of ApplyProjectMerge: releases, sites and aliases move, the
\* source's name becomes an alias, its dependents follow, and the row goes.
ApplyMerge(c) ==
    LET m == call[c] IN
    /\ At(c, "merge")
    /\ IF Drained(m)
       THEN /\ rel' = [r \in Release |-> IF r \in DOMAIN m.plan
                                         THEN [proj |-> m.dst, num |-> m.plan[r]] ELSE rel[r]]
            /\ sites' = {IF s[1] = m.src THEN <<m.dst, s[2]>> ELSE s : s \in sites}
            /\ alias' = [n \in ProjectName |-> IF alias[n] = m.src \/ n = m.name THEN m.dst ELSE alias[n]]
            /\ deps' = [RenameDepends(deps, m.name, m.dname, m.dst) EXCEPT ![m.src] = {}]
            /\ proj' = [proj EXCEPT ![m.src] = None]
            /\ into' = [i \in Id |-> IF i = m.src \/ into[i] = m.src THEN m.dst ELSE into[i]]
            /\ loose' = loose \cup {m.dst} \cup
                 (IF proj[m.src].name = m.name /\ Resolve(m.dname) = m.dst THEN {}
                  ELSE {Resolve(m.dname), alias[proj[m.src].name]} \ {None})
            /\ shadowed' = shadowed \cup
                 (IF proj[m.src].name = m.name THEN {} ELSE {proj[m.src].name})
            /\ UNCHANGED <<holder, made, contested>>
       ELSE UNCHANGED <<ptables, phistory>>
    /\ Go(c, Idle)
    /\ UNCHANGED repos

\* A statement fails, the client goes away, or the request is refused.
EndCall(c) ==
    /\ ~At(c, "idle")
    /\ Go(c, Idle)
    /\ UNCHANGED <<repos, ptables, phistory>>

(***************************************************************************)
(* GitHub                                                                  *)
(***************************************************************************)

\* A repository is renamed or transferred: its id stays.
RenameRepo ==
    /\ \E r \in Repo, n \in Root, o \in Owner :
        /\ repo[r] # None /\ Moved
        /\ \A s \in Repo \ {r} : repo[s] # None => repo[s].name # n
        /\ repo' = [repo EXCEPT ![r] = [name |-> n, owner |-> o]]
    /\ UNCHANGED <<ptables, call, calls, phistory>>

\* A repository is deleted, and another made under a free name: a new id.
ReplaceRepo ==
    /\ \E r, s \in Repo, n \in Root, o \in Owner :
        /\ repo[r] # None /\ repo[s] = None /\ s > r /\ Moved
        /\ repo' = [repo EXCEPT ![r] = None, ![s] = [name |-> n, owner |-> o]]
    /\ UNCHANGED <<ptables, call, calls, phistory>>

\* At most one repository is there when the history begins.
ProjInit ==
    /\ \E first \in [name : Root, owner : Owner] \cup {None} :
         repo = [r \in Repo |-> IF r = 1 THEN first ELSE None]
    /\ proj = [i \in Id |-> None]
    /\ alias = [n \in ProjectName |-> None]
    /\ deps = [i \in Id |-> {}]
    /\ rel = [r \in Release |-> None]
    /\ sites = {}
    /\ call = [c \in Caller |-> Idle]
    /\ holder = [n \in ProjectName |-> None]
    /\ into = [i \in Id |-> None]
    /\ made = [r \in Release |-> None]
    /\ shadowed = {} /\ loose = {} /\ contested = {}
    /\ moves = 0 /\ calls = 0

ProjStep(c) ==
    /\ \/ ListProjects(c) \/ ProbeName(c) \/ RenameProject(c)
       \/ ResolveProject(c) \/ Provision(c) \/ Guard(c)
       \/ MakeRelease(c) \/ DeploySite(c) \/ CheckDepends(c) \/ StoreDepends(c)
       \/ RecheckMerge(c) \/ ApplyMerge(c) \/ EndCall(c)
    /\ UNCHANGED calls

ProjNext ==
    \/ CreateProject \/ RenameRepo \/ ReplaceRepo
    \/ \E c \in Caller : BeginWrite(c) \/ PlanMerge(c) \/ ProjStep(c)

ProjSpec == ProjInit /\ [][ProjNext]_projVars

-----------------------------------------------------------------------------

\* Every table, and every request's project, keeps its type; the unique
\* constraints of projects and releases hold.
ProjTypeOK ==
    /\ \A i \in Live : /\ proj[i].name \in ProjectName
                      /\ proj[i].pin \in Repo \cup {None}
                      /\ proj[i].owner \in Owner \cup {None}
                      /\ Named(proj[i].name) = {i}
    /\ alias \in [ProjectName -> Live \cup {None}]
    /\ deps \in [Id -> SUBSET ProjectName]
    /\ \A r \in Release : rel[r] # None => rel[r].proj \in Id
    /\ sites \subseteq Id \X Branch

\* The project that took over a project's rows, however many merges later.
Canon(i) == IF into[i] = None THEN i ELSE into[i]

\* A name a project once had, and no other took over, leads to it or to the
\* project it was merged into, for ever: dl, apt, brew and npm URLs survive
\* renames and merges (RenameProject, ApplyProjectMerge, ResolveProject).
NamesKeepResolving ==
    \A n \in ProjectName : holder[n] = None \/ n \in shadowed \/ Resolve(n) = Canon(holder[n])

\* A pinned project is never pinned to another repository, except by a request
\* that read it before it was pinned, and after such a request by the ones that
\* had read the pin it replaced (the guard in requireProject).
PinsStick ==
    [][\A i \in Id \ contested :
         (proj[i] # None /\ proj'[i] # None /\ proj[i].pin \notin {None, proj'[i].pin})
           => \E c \in Caller : At(c, "guard") /\ call[c].id = i /\ call[c].seen.pin = None]_projVars

\* No project depends on itself, directly or through others, unless the loop
\* passes through the target of a merge, a project whose list was checked before
\* another was stored, or one that requests which raced gave a name of another
\* (refuseDependsCycle; brew refuses to install a formula on a cycle).
DependsAcyclic == \A i \in Id \ loose : i \notin Reach(DepIds(deps[i]), loose)

\* A merge loses no release and no order: each belongs to the live project its
\* own was merged into, numbers are unique in a project, and two releases of
\* one project keep the order they were made in (PlanProjectMerge).
MergeLosesNothing ==
    /\ \A r \in Release : rel[r] # None =>
          rel[r].proj = Canon(made[r]) /\ rel[r].proj \in Live
    /\ \A r, s \in Release :
          (r < s /\ rel[r] # None /\ rel[s] # None /\ rel[r].proj = rel[s].proj) =>
            /\ rel[r].num # rel[s].num
            /\ made[r] = made[s] => rel[r].num < rel[s].num

\* What publishers and readers of projects rely on, through every interleaving
\* of creations, renames, replaced repositories, dependencies and merges.
ProjectsAreWhole == ProjTypeOK /\ NamesKeepResolving /\ DependsAcyclic /\ MergeLosesNothing

=============================================================================
