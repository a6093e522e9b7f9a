------------------------------ MODULE BrewTap ------------------------------
(***************************************************************************)
(* The Homebrew tap: a git repository made from the releases, a lineage of *)
(* commits kept on disk and refreshed in the background while requests are *)
(* served.                                                                 *)
(*                                                                         *)
(* A tree is the number of the release whose formula it holds, 0 for none, *)
(* and a commit, whose hash covers its parents, is the sequence of trees   *)
(* up to it: its ancestors are its prefixes.  A commit on disk stands for  *)
(* its tree and blobs as well.  One project and one lineage are modelled;  *)
(* requests for other lineages drop its entry and evict its directory.     *)
(* tapMu makes each action that takes it atomic; a refresh writes files    *)
(* without it.                                                             *)
(***************************************************************************)
EXTENDS Integers, Sequences, FiniteSets, SequencesExt

CONSTANTS
    SmartClient,    \* git clients that fetch packs
    DumbClient,     \* git clients that fetch files
    TapReleases,    \* releases published, 1..TapReleases
    MaxRefreshes,   \* refreshes, in all
    MaxTapCrashes   \* crashes, in all

ASSUME TapBounds == TapReleases \in Nat /\ MaxRefreshes \in Nat /\ MaxTapCrashes \in Nat

\* A client fetches packs or files.
ASSUME TapClients == SmartClient \cap DumbClient = {}

TapClient == SmartClient \cup DumbClient
Commit    == Seq(0..TapReleases)
NoCommit  == <<>>
Ancestors(c) == {SubSeq(c, 1, i) : i \in 1..Len(c)}

VARIABLES
    btRel,      \* published releases of the default branch
    btDir,      \* the lineage directory: objects, info/refs, refs/heads/main, recorded keys
    btLive,     \* the entry of tapSnaps: [there, fresh, err]
    btRef,      \* the entry of tapRefreshes; same: it was started for the present entry of tapSnaps
    btReq,      \* requests, one per client
    btClone,    \* clones; lost: the lineage they came from is gone, here and in requests
    btCount     \* refreshes and crashes so far

btVars == <<btRel, btDir, btLive, btRef, btReq, btClone, btCount>>

NoDir   == [objs |-> {}, info |-> NoCommit, tip |-> NoCommit, keys |-> {}]
NoLive  == [there |-> FALSE, fresh |-> FALSE, err |-> FALSE]
NoRef   == [at |-> "none", same |-> FALSE, todo |-> {}, top |-> NoCommit, keys |-> {}, err |-> FALSE]
NoReq   == [at |-> "idle", phase |-> "refs", want |-> NoCommit, depth |-> 0, err |-> FALSE, lost |-> FALSE]
NoClone == [tip |-> NoCommit, objs |-> {}, shallow |-> {}, lost |-> FALSE]

TapInit ==
    /\ btRel = {}
    /\ btDir = NoDir
    /\ btLive = NoLive
    /\ btRef = NoRef
    /\ btReq = [c \in TapClient |-> NoReq]
    /\ btClone = [c \in TapClient |-> NoClone]
    /\ btCount = [refresh |-> 0, crash |-> 0]

LatestFormula == IF btRel = {} THEN 0 ELSE CHOOSE r \in btRel : \A s \in btRel : s <= r

\* tapPins: a refresh or a request holds the directory.
Pinned == btRef.at # "none" \/ \E c \in TapClient : btReq[c].at = "serve"

\* liveTapLineageLocked: a new entry has no builtAt.
LiveTapLineage == IF btLive.there THEN btLive ELSE [NoLive EXCEPT !.there = TRUE]

----------------------------------------------------------------------------
(* Requests.                                                               *)

\* awaitTapLineage under the lock: a stale lineage starts a refresh unless one
\* runs.  With none to wait for, the last one's failure is the answer.
AwaitTapLineage(c, depth) ==
    LET live  == LiveTapLineage
        start == btRef.at = "none" /\ ~live.fresh
        req   == IF btReq[c].phase = "refs" THEN [btReq[c] EXCEPT !.depth = depth] ELSE btReq[c]
    IN  /\ btReq[c].at = "idle"
        /\ start => btCount.refresh < MaxRefreshes
        /\ btLive' = live
        /\ btRef' = IF start THEN [NoRef EXCEPT !.at = "build", !.same = TRUE] ELSE btRef
        /\ btCount' = IF start THEN [btCount EXCEPT !.refresh = @ + 1] ELSE btCount
        /\ btReq' = [btReq EXCEPT ![c] =
              IF start \/ btRef.at # "none" THEN [req EXCEPT !.at = "wait", !.err = live.err]
              ELSE IF live.err THEN NoReq
              ELSE [req EXCEPT !.at = "open"]]
        /\ UNCHANGED <<btRel, btDir, btClone>>

\* tapRefreshWait passes for a lineage with a tip: its old state is served, or the
\* last failure.  A client may hang up at any time.
WaitTimesOut(c) ==
    /\ btReq[c].at = "wait"
    /\ \/ btReq' = [btReq EXCEPT ![c] = NoReq]
       \/ /\ btDir.tip # NoCommit /\ ~btReq[c].err
          /\ btReq' = [btReq EXCEPT ![c].at = "open"]
    /\ UNCHANGED <<btRel, btDir, btLive, btRef, btClone, btCount>>

\* acquireTapLineage, under the lock again: the entry may have been dropped, and
\* the directory evicted, while the request waited.  A pack request holds it.
AcquireTapLineage(c) ==
    /\ c \in SmartClient /\ btReq[c].at = "open"
    /\ btLive' = LiveTapLineage
    /\ btReq' = [btReq EXCEPT ![c].at = "serve"]
    /\ UNCHANGED <<btRel, btDir, btRef, btClone, btCount>>

\* What a client does with the ref it was told.
Advertise(c, ref) == btReq' = [btReq EXCEPT ![c] = IF ref = NoCommit THEN NoReq
                                              ELSE [@ EXCEPT !.at = "idle", !.phase = "pack", !.want = ref]]

\* serveUploadPackAdvertisement: refs/heads/main.
ServeAdvertisement(c) ==
    /\ btReq[c].at = "serve" /\ btReq[c].phase = "refs"
    /\ Advertise(c, btDir.tip)
    /\ UNCHANGED <<btRel, btDir, btLive, btRef, btClone, btCount>>

\* openTapFile of info/refs, under the lock.
ServeInfoRefs(c) ==
    /\ c \in DumbClient /\ btReq[c].at = "open" /\ btReq[c].phase = "refs"
    /\ Advertise(c, btDir.info)
    /\ btLive' = LiveTapLineage
    /\ UNCHANGED <<btRel, btDir, btRef, btClone, btCount>>

\* walkCommits, to the depth asked or down to what the client has.
WalkCommits(target, depth, have) ==
    {a \in Ancestors(target) : IF depth > 0 THEN Len(a) > Len(target) - depth
                               ELSE \A h \in have \cap Ancestors(target) : Len(a) > Len(h)}

\* serveTapUploadPack: the wanted commit, if the lineage holds it, else the tip.
\* A deepening fetch counts no haves, and its cut commits are shallow.  The client
\* takes a pack that has what it wanted.
ServePack(c) ==
    LET q      == btReq[c]
        target == IF q.want \in btDir.objs THEN q.want ELSE btDir.tip
        have   == IF q.depth > 0 THEN {} ELSE {btClone[c].tip} \cap btDir.objs
        pack   == WalkCommits(target, q.depth, have)
        cut    == {a \in pack : q.depth > 0 /\ Len(a) > 1 /\ Len(a) = Len(target) - q.depth + 1}
    IN  /\ q.at = "serve" /\ q.phase = "pack"
        /\ btClone' = IF target = q.want /\ pack \subseteq btDir.objs
                      THEN [btClone EXCEPT ![c] = [tip |-> target, objs |-> @.objs \cup pack,
                                                   shallow |-> @.shallow \cup cut, lost |-> q.lost]]
                      ELSE btClone
        /\ btReq' = [btReq EXCEPT ![c] = NoReq]
        /\ UNCHANGED <<btRel, btDir, btLive, btRef, btCount>>

\* A dumb client fetches the objects it lacks, file by file (serveTapFile).
ServeTapFile(c) ==
    LET q == btReq[c]
    IN  /\ c \in DumbClient /\ q.at = "open" /\ q.phase = "pack"
        /\ btClone' = IF Ancestors(q.want) \subseteq btClone[c].objs \cup btDir.objs
                      THEN [btClone EXCEPT ![c] = [tip |-> q.want, objs |-> @.objs \cup Ancestors(q.want),
                                                   shallow |-> {}, lost |-> q.lost]]
                      ELSE btClone
        /\ btReq' = [btReq EXCEPT ![c] = NoReq]
        /\ btLive' = LiveTapLineage
        /\ UNCHANGED <<btRel, btDir, btRef, btCount>>

----------------------------------------------------------------------------
(* refreshTapLineage, in the background.                                   *)

\* The refresh is over, with an error or without.
Ended(failed) == [NoRef EXCEPT !.at = "end", !.same = btRef.same, !.err = failed]

\* The numbers of a finite set, in ascending order.
Ascending(S) == [i \in 1..Cardinality(S) |-> CHOOSE x \in S : Cardinality({y \in S : y < x}) = i - 1]

\* The commits of a refresh without parents.
AppendedParentless(tip, past, now) == {<<now>>}

\* The commits a refresh appends to tip: one for each past release the lineage
\* has not recorded, oldest first, then the current tree.
Appended(tip, past, now) ==
    LET add == Ascending(past)
    IN  {tip \o SubSeq(add, 1, i) : i \in 1..Len(add)} \cup {tip \o add \o <<now>>}

\* The last commit of a chain.
Longest(S) == CHOOSE n \in S : \A m \in S : Len(m) <= Len(n)

\* buildTap and tapHistory: a release retention evicted, or whose digests are not
\* cached, is left out of the history.  A tree that is the tip's is not committed again.
BuildTap ==
    /\ btRef.at = "build"
    /\ \E shown \in SUBSET btRel :
         LET past == {r \in shown : r \notin btDir.keys /\ r # LatestFormula}
             new  == Appended(btDir.tip, past, LatestFormula)
         IN  btRef' = IF past = {} /\ btDir.tip # NoCommit /\ Last(btDir.tip) = LatestFormula
                      THEN Ended(FALSE)
                      ELSE [btRef EXCEPT !.at = "objects", !.todo = new \ btDir.objs, !.top = Longest(new),
                                         !.keys = btDir.keys \cup past \cup (btRel \cap {LatestFormula})]
    /\ UNCHANGED <<btRel, btDir, btLive, btReq, btClone, btCount>>

\* writeTapObjects, in any order, each by a rename.
WriteTapObject ==
    /\ btRef.at = "objects"
    /\ \E o \in btRef.todo :
         /\ btDir' = [btDir EXCEPT !.objs = @ \cup {o}]
         /\ btRef' = [btRef EXCEPT !.todo = @ \ {o}, !.at = IF btRef.todo = {o} THEN "info" ELSE "objects"]
    /\ UNCHANGED <<btRel, btLive, btReq, btClone, btCount>>

\* advanceTapTip: info/refs, then refs/heads/main; then writeTapHistoryKeys.
AdvanceTapTip ==
    /\ \/ /\ btRef.at = "info" \/ (btRef.at = "objects" /\ btRef.todo = {})
          /\ btDir' = [btDir EXCEPT !.info = btRef.top]
          /\ btRef' = [btRef EXCEPT !.at = "tip"]
       \/ /\ btRef.at = "tip"
          /\ btDir' = [btDir EXCEPT !.tip = btRef.top]
          /\ btRef' = [btRef EXCEPT !.at = "keys"]
       \/ /\ btRef.at = "keys"
          /\ btDir' = [btDir EXCEPT !.keys = btRef.keys]
          /\ btRef' = Ended(FALSE)
    /\ UNCHANGED <<btRel, btLive, btReq, btClone, btCount>>

\* A query or a write fails.
RefreshFails ==
    /\ btRef.at \notin {"none", "end"}
    /\ btRef' = Ended(TRUE)
    /\ UNCHANGED <<btRel, btDir, btLive, btReq, btClone, btCount>>

\* The goroutine ends: the entry it was started for keeps the outcome, and every
\* request that waited gets it.
EndRefresh ==
    /\ btRef.at = "end"
    /\ btRef' = NoRef
    /\ btLive' = IF btRef.same THEN [btLive EXCEPT !.fresh = TRUE, !.err = btRef.err] ELSE btLive
    /\ btReq' = [c \in TapClient |-> IF btReq[c].at # "wait" THEN btReq[c]
                                     ELSE IF btRef.err THEN NoReq ELSE [btReq[c] EXCEPT !.at = "open"]]
    /\ UNCHANGED <<btRel, btDir, btClone, btCount>>

----------------------------------------------------------------------------
(* The rest of the world.                                                  *)

PublishFormula ==
    /\ \E r \in 1..TapReleases : (\A s \in btRel : s < r) /\ btRel' = btRel \cup {r}
    /\ UNCHANGED <<btDir, btLive, btRef, btReq, btClone, btCount>>

\* tapCacheTTL passes.
TapExpires ==
    /\ btLive.fresh
    /\ btLive' = [btLive EXCEPT !.fresh = FALSE]
    /\ UNCHANGED <<btRel, btDir, btRef, btReq, btClone, btCount>>

\* capTapLineagesLocked, for another lineage: the entry goes, and with it its
\* claim on the running refresh.
DropTapLineage ==
    /\ btLive.there
    /\ btLive' = NoLive
    /\ btRef' = IF btRef.at = "none" THEN NoRef ELSE [btRef EXCEPT !.same = FALSE]
    /\ UNCHANGED <<btRel, btDir, btReq, btClone, btCount>>

\* evictTapLineagesLocked, for another lineage: the oldest directory that nothing
\* holds is removed, and its entry dropped.
EvictTapLineage ==
    /\ ~Pinned /\ btDir # NoDir
    /\ btLive' = NoLive
    /\ btDir' = NoDir
    /\ btClone' = [c \in TapClient |-> [btClone[c] EXCEPT !.lost = btClone[c].tip # NoCommit]]
    /\ btReq' = [c \in TapClient |-> [btReq[c] EXCEPT !.lost = btReq[c].want # NoCommit]]
    /\ UNCHANGED <<btRel, btRef, btCount>>

\* The server stops anywhere and starts again (resetTapCache); the directory stays.
TapCrash ==
    /\ btCount.crash < MaxTapCrashes
    /\ btCount' = [btCount EXCEPT !.crash = @ + 1]
    /\ btLive' = NoLive
    /\ btRef' = NoRef
    /\ btReq' = [c \in TapClient |-> NoReq]
    /\ UNCHANGED <<btRel, btDir, btClone>>

TapNext ==
    \/ \E c \in TapClient : \/ \E d \in {0} \cup (IF c \in SmartClient THEN {1} ELSE {}) : AwaitTapLineage(c, d)
                            \/ WaitTimesOut(c) \/ AcquireTapLineage(c)
                            \/ ServeAdvertisement(c) \/ ServePack(c)
                            \/ ServeInfoRefs(c) \/ ServeTapFile(c)
    \/ BuildTap \/ WriteTapObject \/ AdvanceTapTip \/ RefreshFails \/ EndRefresh
    \/ PublishFormula \/ TapExpires \/ DropTapLineage \/ EvictTapLineage \/ TapCrash

TapSpec == TapInit /\ [][TapNext]_btVars

----------------------------------------------------------------------------
(* Properties.                                                             *)

\* The directory, the entry, the refresh and the requests have their types.
TapTypeOK ==
    /\ btRel \subseteq 1..TapReleases
    /\ btDir.objs \subseteq Commit /\ btDir.tip \in Commit /\ btDir.info \in Commit
    /\ btDir.keys \subseteq 1..TapReleases
    /\ btRef.at \in {"none", "build", "objects", "info", "tip", "keys", "end"}
    /\ \A c \in TapClient : btReq[c].at \in {"idle", "wait", "open", "serve"}

\* What a ref of the lineage names is on disk, to its first ancestor, whenever the
\* server stops, and a finished fetch gives a clone all its history back to where
\* it was cut (refreshTapLineage, serveTapUploadPack).
TapRefsAreWhole ==
    /\ Ancestors(btDir.tip) \cup Ancestors(btDir.info) \subseteq btDir.objs
    /\ \A c \in TapClient : \A o \in btClone[c].objs :
          Len(o) = 1 \/ o \in btClone[c].shallow \/ SubSeq(o, 1, Len(o) - 1) \in btClone[c].objs

\* The lineage was evicted since the clone was made, or what ref names is ahead of it.
Follows(c, ref) == btClone[c].tip = NoCommit \/ btClone[c].lost \/ IsPrefix(btClone[c].tip, ref)

\* The refs are whole, and a clone made from packs can always fast-forward to the
\* tip (the comment on refreshTapLineage), though refreshes fail and the server
\* stops half way.
ClonesFastForward == TapTypeOK /\ TapRefsAreWhole /\ \A c \in SmartClient : Follows(c, btDir.tip)

=============================================================================
