----------------------------- MODULE SiteURLs ------------------------------
(***************************************************************************)
(* Which file of which site a URL names, and where a URL that is not the   *)
(* canonical one redirects.                                                *)
(*                                                                         *)
(* A URL is a sequence of segments, numbers here: -s is the segment s      *)
(* behind the branch sigil "@".  Project and branch names are sequences    *)
(* too, so a URL is split by longest match against the tables, which       *)
(* publishes, deletes and new projects change.  Four schemes serve sites:  *)
(* the apex service, its old /branch/ form, {project}.<site-domain>, and   *)
(* the old "~" sigil of that one.  The redirect that only adds a trailing  *)
(* slash is left out.                                                      *)
(***************************************************************************)
EXTENDS Integers, Sequences, FiniteSets, SequencesExt

CONSTANTS
    SiteSegment,    \* ordinary segments, positive numbers
    CommitSegment,  \* those that look like a commit (looksLikeCommit)
    SiteName,       \* project names
    SiteRef,        \* branch names
    MainRef,        \* the branch "main"
    LatestRef,      \* db.LatestBranch
    PathLength,     \* the longest URL
    MaxSites

ASSUME SiteSegments == SiteSegment \subseteq Nat \ {0} /\ CommitSegment \subseteq SiteSegment
ASSUME SiteNames == SiteName \cup SiteRef \subseteq Seq(SiteSegment) \ {<<>>}
ASSUME SitePaths == PathLength \in Nat

VARIABLES
    surProjects,    \* the projects
    surSites,       \* the sites of each project: [branch, commit], newest first
    surDefault      \* projects.default_branch, <<>> when unknown

surVars == <<surProjects, surSites, surDefault>>

SiteURLsInit ==
    /\ surProjects \in {S \in SUBSET SiteName : S # {}}
    /\ surSites = [p \in SiteName |-> <<>>]
    /\ surDefault \in [SiteName -> {<<>>} \cup SiteRef]

----------------------------------------------------------------------------
(* Changes to the tables.                                                  *)

\* UpsertSite: the row of the branch becomes the newest.
Publish(p) ==
    /\ \E b \in SiteRef, c \in CommitSegment \cup {0} :
         LET old  == {i \in DOMAIN surSites[p] : surSites[p][i].branch = b}
             rest == IF old = {} THEN surSites[p] ELSE RemoveAt(surSites[p], Min(old))
         IN  /\ \A q \in SiteName \ {p} : Len(rest) + Len(surSites[q]) < MaxSites
             /\ surSites' = [surSites EXCEPT ![p] = <<[branch |-> b, commit |-> c]>> \o rest]
    /\ UNCHANGED <<surProjects, surDefault>>

\* DeleteSite.
Unpublish(p) ==
    /\ \E i \in DOMAIN surSites[p] : surSites' = [surSites EXCEPT ![p] = RemoveAt(@, i)]
    /\ UNCHANGED <<surProjects, surDefault>>

NewProject ==
    /\ \E p \in SiteName \ surProjects : surProjects' = surProjects \cup {p}
    /\ UNCHANGED <<surSites, surDefault>>

SiteURLsNext == NewProject \/ \E p \in surProjects : Publish(p) \/ Unpublish(p)

SiteURLsSpec == SiteURLsInit /\ [][SiteURLsNext]_surVars

----------------------------------------------------------------------------
(* Resolving.                                                              *)

SiteExists(p, b) == \E i \in DOMAIN surSites[p] : surSites[p][i].branch = b

\* The prefix of seq of length i, and what follows it.
Upto(seq, i) == SubSeq(seq, 1, i)
After(seq, i) == SubSeq(seq, i + 1, Len(seq))

LongestIn(seq, S) ==
    LET ns == {i \in 1..Len(seq) : Upto(seq, i) \in S}
    IN  IF ns = {} THEN 0 ELSE CHOOSE i \in ns : \A k \in ns : k <= i

\* defaultBranch and resolveRootBranch: the default branch, main or latest when
\* one of them has a site, else the newest site.
ResolveRootBranch(p) ==
    LET preferred == IF surDefault[p] # <<>> THEN surDefault[p] ELSE LatestRef
        have      == SelectSeq(<<preferred, MainRef, LatestRef>>, LAMBDA b : SiteExists(p, b))
    IN  IF have # <<>> THEN have[1]
        ELSE IF surSites[p] # <<>> THEN surSites[p][1].branch
        ELSE preferred

Nowhere == [k |-> "missing", project |-> <<>>, branch |-> <<>>, path |-> <<>>]
Place(p, b, f) == [k |-> "file", project |-> p, branch |-> b, path |-> f]

\* splitSiteBranch: the longest branch with a site, else a commit of one.
SplitSiteBranch(p, ref) ==
    LET n  == LongestIn(ref, {surSites[p][i].branch : i \in DOMAIN surSites[p]})
        at == {i \in DOMAIN surSites[p] : surSites[p][i].commit # 0 /\ surSites[p][i].commit = ref[1]}
    IN  IF n > 0 THEN Place(p, Upto(ref, n), After(ref, n))
        ELSE IF at # {} THEN Place(p, surSites[p][Min(at)].branch, Tail(ref))
        ELSE Nowhere

\* splitProjectPath: the longest project.
SplitProjectPath(path) ==
    LET n == LongestIn(path, surProjects)
    IN  IF n = 0 THEN [project |-> path, path |-> <<>>]
        ELSE [project |-> Upto(path, n), path |-> After(path, n)]

\* splitBranchSigil: where the branch of an apex path starts, 0 for nowhere.
SplitBranchSigil(path) ==
    LET at == {i \in DOMAIN path : path[i] < 0}
    IN  IF at = {} \/ 1 \in at THEN 0 ELSE CHOOSE i \in at : \A k \in at : i <= k

\* A ref put behind the sigil, or taken from there.
Sigil(ref) == [ref EXCEPT ![1] = -@]

\* parseSubdomainRoute.
SubdomainRoute(u) ==
    IF u.path # <<>> /\ u.path[1] < 0
    THEN [project |-> u.project, ref |-> Sigil(u.path), path |-> <<>>]
    ELSE [project |-> u.project, ref |-> <<>>, path |-> u.path]

\* parseRootRoute, parseRoute and parseSigilRoute: the project, and either the ref
\* that names a branch or the path in the default branch's site.
Route(u) ==
    LET i == SplitBranchSigil(u.path)
        s == SplitProjectPath(u.path)
    IN  CASE u.scheme \in {"legacy", "tilde"} -> [project |-> u.project, ref |-> u.path, path |-> <<>>]
          [] u.scheme = "sub" -> SubdomainRoute(u)
          [] u.scheme = "apex" /\ i > 0 ->
                [project |-> Upto(u.path, i - 1), ref |-> Sigil(After(u.path, i - 1)), path |-> <<>>]
          [] OTHER -> [project |-> s.project, ref |-> <<>>, path |-> s.path]

\* The file a URL names: readBranch, and what Serve, ServeDefaultBranch,
\* RedirectLegacyBranch and ServeSubdomain resolve.
Means(u) ==
    LET r == Route(u)
    IN  IF r.project \notin surProjects THEN Nowhere
        ELSE IF r.ref # <<>> THEN SplitSiteBranch(r.project, r.ref)
        ELSE Place(r.project, ResolveRootBranch(r.project), r.path)

----------------------------------------------------------------------------
(* Redirecting.                                                            *)

\* apexURLFor, trusting the path.
ApexAddressesAny(p, f) == TRUE

\* apexURLFor: the bare path, if splitting it gives back the project and the file.
ApexAddresses(p, f) == SplitProjectPath(p \o f) = [project |-> p, path |-> f]

\* refNamesBranch: the ref spells the branch, rather than a commit of it.
RefNamesBranch(ref, b) == IsPrefix(b, ref)

\* ServeSubdomain: "~" becomes "@", and the default branch needs no ref.
SubdomainRedirect(u) ==
    LET r == Route(u)
        m == Means(u)
    IN  IF u.scheme = "tilde" THEN [u EXCEPT !.scheme = "sub", !.path = Sigil(u.path)]
        ELSE IF /\ m.k = "file" /\ r.ref # <<>> /\ RefNamesBranch(r.ref, m.branch)
                /\ m.branch = ResolveRootBranch(m.project)
        THEN [u EXCEPT !.path = m.path]
        ELSE u

\* Where a URL redirects; itself when it is answered.  RedirectLegacyBranch,
\* canonicalURLFor and Serve: the bare URL for the default branch if it will do.
Redirect(u) ==
    LET r    == Route(u)
        m    == Means(u)
        bare == [scheme |-> "apex", project |-> <<>>, path |-> m.project \o m.path]
        home == m.branch = ResolveRootBranch(m.project) /\ ApexAddresses(m.project, m.path)
    IN  IF u.scheme \in {"sub", "tilde"} THEN SubdomainRedirect(u)
        ELSE IF m.k = "missing" THEN u
        ELSE IF u.scheme = "legacy" THEN
                IF home THEN bare
                ELSE [scheme |-> "apex", project |-> <<>>, path |-> m.project \o Sigil(m.branch \o m.path)]
        ELSE IF r.ref # <<>> /\ RefNamesBranch(r.ref, m.branch) /\ home THEN bare
        ELSE u

----------------------------------------------------------------------------
(* Properties.                                                             *)

Plain(n)  == UNION {[1..k -> SiteSegment] : k \in 1..n}
Signed(n) == Plain(n) \cup UNION {{[q EXCEPT ![i] = -@] : i \in DOMAIN q} : q \in Plain(n)}

\* The URLs of the instance: a path of at most PathLength segments.  A second
\* sigil is part of a file's name, or of no project's.  A project whose
\* name has several segments is not served under the site domain (validSiteLabel).
SiteURL ==
    LET labels == {p \in surProjects : Len(p) = 1}
    IN       [scheme : {"apex"}, project : {<<>>}, path : Signed(PathLength)]
        \cup [scheme : {"legacy"}, project : surProjects, path : Plain(PathLength - 1)]
        \cup [scheme : {"tilde"}, project : labels, path : Plain(PathLength - 1)]
        \cup [scheme : {"sub"}, project : labels, path : Signed(PathLength - 1)]

\* The tables have their types, and a branch has one row.
SiteURLsTypeOK ==
    /\ surProjects \subseteq SiteName
    /\ surSites \in [SiteName -> Seq([branch : SiteRef, commit : CommitSegment \cup {0}])]
    /\ \A p \in SiteName : \A i, j \in DOMAIN surSites[p] :
          surSites[p][i].branch = surSites[p][j].branch => i = j
    /\ surDefault \in [SiteName -> {<<>>} \cup SiteRef]

\* A file of a site may itself lie behind a sigil, and a commit may name a branch
\* another branch's name extends; the next property is not claimed of those.
Ambiguous(u) ==
    \/ \E i \in DOMAIN Means(u).path : Means(u).path[i] < 0
    \/ Means(u).k = "file" /\ Route(u).ref # <<>> /\ ~RefNamesBranch(Route(u).ref, Means(u).branch)

\* A redirect leads to the same file, at once or through one more redirect, and
\* then to an answer: the URLs of a site never loop (Serve, canonicalURLFor,
\* apexURLFor, ServeSubdomain).
RedirectsKeepTheFile ==
    /\ SiteURLsTypeOK
    /\ \A u \in SiteURL : Ambiguous(u) \/
         \E v \in {Redirect(u)} :
            v = u \/ /\ Means(v) = Means(u)
                     /\ \E w \in {Redirect(v)} : Redirect(w) = w /\ Means(w) = Means(u)

\* No publish, delete or new project ever breaks that: another project's or branch's
\* longer name may take over a part of the bare path a redirect leads to, and
\* apexURLFor must then stop redirecting there.  Stated of the steps that change the
\* tables, as it takes long to evaluate.
ChangesKeepRedirects == [][surVars' # surVars => RedirectsKeepTheFile]_surVars

=============================================================================
