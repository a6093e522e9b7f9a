------------------------------ MODULE GoProxy ------------------------------
(***************************************************************************)
(* The Go module proxy (internal/goproxy): requests for a version's .info, *)
(* .mod or .zip and for @latest, answered from the cache rows of           *)
(* goproxy_versions or fetched from GitHub (private modules) or from the   *)
(* public mirror.  Concurrent identical fetches are collapsed by a single  *)
(* flight.                                                                 *)
(*                                                                         *)
(* A version is a natural number ordered as semver orders it, 0 being the  *)
(* pseudo-version of the default branch head; content (go.mod, zip) is     *)
(* determined by the commit it is read at.  Tags may be created, moved and *)
(* deleted while requests run.                                             *)
(***************************************************************************)
EXTENDS Naturals, Sequences, FiniteSets, FiniteSetsExt, Functions, TLC

CONSTANTS
    GoReq,        \* requests; each is served once, and names the flight it leads
    GoVersion,    \* tagged versions, positive
    GoPre,        \* those of them that are pre-releases
    GoCommit,     \* commits a private module's tags may name
    GoStatus,     \* error statuses the sources may answer with
    GoHead,       \* the commit at the head of the default branch
    GoNone,       \* no commit, no record, no request
    MaxGoMoves    \* bound: how often tags change

VARIABLES
    goTag,      \* [GoVersion -> commit or GoNone]: the tags of the private module
    goRow,      \* [module \X version -> record or GoNone]: goproxy_versions
    goFlight,   \* singleflight.m: key -> the request leading the flight
    goDone,     \* requests whose flight's done channel is closed
    goReq,      \* the requests
    goFailing,  \* modules whose last fetch failed (last_error_kind)
    goMoved     \* history: the versions whose tag was changed, in order

goVars == <<goTag, goRow, goFlight, goDone, goReq, goFailing, goMoved>>

\* Versions are numbered in semver's order, and there is a last one.
ASSUME GoVersions == GoVersion \subseteq Nat \ {0} /\ \E last \in GoVersion : \A v \in GoVersion : v <= last

GoRecord == [commit : GoCommit \cup {GoHead}, zip : GoCommit \cup {GoHead, GoNone}]

\* The absent commit, row and request are none of the present ones.
ASSUME GoNoneAssumption == GoNone \notin GoCommit \cup {GoHead} \cup GoReq /\ GoNone \notin GoRecord

GoModule == {"private", "public"}
GoKey == GoModule \X (GoVersion \cup {0})
Endpoint == {"info", "zip", "latest"}   \* .mod is served as .info is
ErrorKind == {"not_found", "unauthorized", "upstream", "inaccessible"}

\* db.GoproxyCached: the commit of the row's go.mod, and of its zip ("" is GoNone).
Cached(c, z) == [commit |-> c, zip |-> z]

NewRequest == [at |-> "new", mod |-> "private", ver |-> 0, ep |-> "info",
               out |-> GoNone, err |-> "none", on |-> GoNone, reply |-> "none"]

GoInit ==
    /\ goTag \in [GoVersion -> GoCommit \cup {GoNone}]
    /\ goRow = [k \in GoKey |-> GoNone]
    /\ goFlight = [k \in {} |-> GoNone]
    /\ goDone = {}
    /\ goReq = [r \in GoReq |-> NewRequest]
    /\ goFailing = {}
    /\ goMoved = << >>

----------------------------------------------------------------------------
(* What the sources answer.                                                *)

\* githubSource.do: the kind of error an answer of GitHub's API is turned into.
\* Without a credential a private repository looks like a missing one.
Classify(status, credential, limited) ==
    CASE status = 401 -> "unauthorized"
      [] status = 403 /\ limited -> "upstream"
      [] status = 403 /\ ~limited -> "unauthorized"
      [] status = 404 /\ ~credential -> "unauthorized"
      [] status = 404 /\ credential -> "not_found"
      [] OTHER -> "upstream"

\* upstreamSource.get: the same for the public mirror.
ClassifyUpstream(status) ==
    CASE status \in {404, 410} -> "not_found"
      [] status \in {401, 403} -> "unauthorized"
      [] OTHER -> "upstream"

SourceErrors(mod) ==
    IF mod = "private"
    THEN {Classify(s, c, l) : s \in GoStatus, c \in BOOLEAN, l \in BOOLEAN}
    ELSE {ClassifyUpstream(s) : s \in GoStatus}

\* Service.latest: the highest release, else the highest pre-release, else
\* the pseudo-version of the default branch's head.
Latest ==
    LET tagged == {v \in GoVersion : goTag[v] # GoNone}
        releases == tagged \ GoPre
    IN  IF releases # {} THEN Max(releases)
        ELSE IF tagged # {} THEN Max(tagged)
        ELSE 0

\* resolveVersion: the commit a version names now; a pseudo-version carries its own.
CommitOf(mod, ver) == IF mod = "public" \/ ver = 0 THEN GoHead ELSE goTag[ver]

----------------------------------------------------------------------------
(* The cache.                                                              *)

\* UpsertGoproxyVersion, as an upsert that always takes the zip column would be.
UpsertTakesZip(old, new) == new

\* UpsertGoproxyVersion: a record without a zip keeps the zip the row has.
Upsert(old, new) ==
    IF new.zip = GoNone /\ old # GoNone THEN [new EXCEPT !.zip = old.zip] ELSE new

----------------------------------------------------------------------------
(* A request.  Each action is what serve does up to the next point at      *)
(* which another request may run.                                          *)

\* Request r gets the fields of e and keeps its others.
Moved(r, e) ==
    goReq' = [goReq EXCEPT ![r] = [f \in DOMAIN @ |-> IF f \in DOMAIN e THEN e[f] ELSE @[f]]]

Hit(row, ep) == row # GoNone /\ (ep = "zip" => row.zip # GoNone)
KeyOf(q) == <<q.mod, q.ver, q.ep = "zip">>

\* serve: a private module is hidden from a caller who may not see it before
\* anything is asked of GitHub (accessible).  The cache is read once before the
\* flight is joined (cachedOrFetch).
Serve(r) ==
    /\ goReq[r].at = "new"
    /\ \E m \in GoModule, e \in Endpoint, allowed \in BOOLEAN :
       \E v \in IF e = "latest" \/ m = "public" THEN {0} ELSE GoVersion \cup {0} :
          LET row == goRow[<<m, v>>]
              To(at, out, err) == Moved(r, [at |-> at, mod |-> m, ver |-> v, ep |-> e,
                                            out |-> out, err |-> err])
          IN  IF m = "private" /\ ~allowed THEN To("answer", GoNone, "inaccessible")
              ELSE IF e = "latest" THEN To("latest", GoNone, "none")
              ELSE IF Hit(row, e) THEN To("answer", row, "none")
              ELSE To("join", GoNone, "none")
    /\ UNCHANGED <<goTag, goRow, goFlight, goDone, goFailing, goMoved>>

\* singleflight.do, up to the unlock: wait on the flight of this key, or lead one.
Join(r) ==
    LET k == KeyOf(goReq[r])
    IN  /\ goReq[r].at = "join"
        /\ IF k \in DOMAIN goFlight
           THEN Moved(r, [at |-> "wait", on |-> goFlight[k]]) /\ UNCHANGED goFlight
           ELSE /\ Moved(r, [at |-> "recheck"])
                /\ goFlight' = [x \in DOMAIN goFlight \cup {k} |-> IF x = k THEN r ELSE goFlight[x]]
        /\ UNCHANGED <<goTag, goRow, goDone, goFailing, goMoved>>

\* The leader reads the cache again.
Recheck(r) ==
    LET q == goReq[r]  row == goRow[<<q.mod, q.ver>>]
    IN  /\ q.at = "recheck"
        /\ IF Hit(row, q.ep) THEN Moved(r, [at |-> "close", out |-> row])
           ELSE Moved(r, [at |-> "resolve"])
        /\ UNCHANGED <<goTag, goRow, goFlight, goDone, goFailing, goMoved>>

\* fetch on an error, returning before the flight is closed.
FetchFailsEarly(r, kind) ==
    /\ Moved(r, [at |-> "answer", err |-> kind, out |-> GoNone])
    /\ goFailing' = goFailing \cup {goReq[r].mod}

\* fetch on an error of fetchFrom: the module is marked failing and the flight ends.
FetchFails(r, kind) ==
    /\ Moved(r, [at |-> "close", err |-> kind, out |-> GoNone])
    /\ goFailing' = goFailing \cup {goReq[r].mod}

\* fetchGitHub and fetchUpstream, the resolution: the version's commit and go.mod.
Resolve(r) ==
    LET q == goReq[r]  c == CommitOf(q.mod, q.ver)
    IN  /\ q.at = "resolve"
        /\ \/ /\ c # GoNone
              /\ Moved(r, [at |-> IF q.ep = "zip" THEN "build" ELSE "put", out |-> Cached(c, GoNone)])
              /\ UNCHANGED goFailing
           \/ c = GoNone /\ FetchFails(r, "not_found")
           \/ \E kind \in SourceErrors(q.mod) : FetchFails(r, kind)
        /\ UNCHANGED <<goTag, goRow, goFlight, goDone, goMoved>>

\* buildZip, fetching the tarball of the default branch instead of the commit.
BuildFromHead(r) ==
    LET q == goReq[r]
    IN  /\ q.at = "build"
        /\ \/ Moved(r, [at |-> "put", out |-> [q.out EXCEPT !.zip = GoHead]]) /\ UNCHANGED goFailing
           \/ \E kind \in SourceErrors(q.mod) : FetchFails(r, kind)
        /\ UNCHANGED <<goTag, goRow, goFlight, goDone, goMoved>>

\* buildZip and storeFile: the zip of the resolved commit is stored.
Build(r) ==
    LET q == goReq[r]
    IN  /\ q.at = "build"
        /\ \/ Moved(r, [at |-> "put", out |-> [q.out EXCEPT !.zip = q.out.commit]]) /\ UNCHANGED goFailing
           \/ \E kind \in SourceErrors(q.mod) : FetchFails(r, kind)
        /\ UNCHANGED <<goTag, goRow, goFlight, goDone, goMoved>>

\* PutGoproxyCached and MarkGoproxySuccess; the write fails with the leader's
\* context when its client has gone.
Put(r) ==
    LET q == goReq[r]
    IN  /\ q.at = "put"
        /\ \/ /\ goRow' = [goRow EXCEPT ![<<q.mod, q.ver>>] = Upsert(@, q.out)]
              /\ goFailing' = goFailing \ {q.mod}
              /\ Moved(r, [at |-> "close"])
           \/ /\ Moved(r, [at |-> "close", out |-> GoNone, err |-> "upstream"])
              /\ UNCHANGED <<goRow, goFailing>>
        /\ UNCHANGED <<goTag, goFlight, goDone, goMoved>>

\* singleflight.do after fn: the waiters are released, then the key is freed.
Close(r) ==
    /\ goReq[r].at = "close"
    /\ goDone' = goDone \cup {r}
    /\ Moved(r, [at |-> "delete"])
    /\ UNCHANGED <<goTag, goRow, goFlight, goFailing, goMoved>>

Delete(r) ==
    /\ goReq[r].at = "delete"
    /\ goFlight' = [k \in DOMAIN goFlight \ {KeyOf(goReq[r])} |-> goFlight[k]]
    /\ Moved(r, [at |-> "answer"])
    /\ UNCHANGED <<goTag, goRow, goDone, goFailing, goMoved>>

\* A request that joined a flight gets the leader's error and nothing else:
\* the record was assigned to the leader's own variable.
Wake(r) ==
    /\ goReq[r].at = "wait"
    /\ goReq[r].on \in goDone
    /\ Moved(r, [at |-> "answer", err |-> goReq[goReq[r].on].err])
    /\ UNCHANGED <<goTag, goRow, goFlight, goDone, goFailing, goMoved>>

\* serveLatest: resolve and, for a private module, cache the resolution
\* without a zip; an error of the write is ignored.
ServeLatest(r) ==
    LET q == goReq[r]  v == IF q.mod = "private" THEN Latest ELSE 0  c == CommitOf(q.mod, v)
    IN  /\ q.at = "latest"
        /\ \/ /\ Moved(r, [at |-> "answer", ver |-> v, out |-> Cached(c, GoNone)])
              /\ \/ /\ q.mod = "private"
                    /\ goRow' = [goRow EXCEPT ![<<q.mod, v>>] = Upsert(@, Cached(c, GoNone))]
                 \/ UNCHANGED goRow
           \/ /\ \E kind \in SourceErrors(q.mod) : Moved(r, [at |-> "answer", err |-> kind])
              /\ UNCHANGED goRow
        /\ UNCHANGED <<goTag, goFlight, goDone, goFailing, goMoved>>

\* The handler returns; of the request only its flight's error is still read.
Finished(r, reply) ==
    goReq' = [goReq EXCEPT ![r] = [NewRequest EXCEPT !.at = "done", !.reply = reply,
                                      !.err = IF r \in goDone THEN goReq[r].err ELSE "none"]]

\* serveVersioned and fail: the answer.  A missing record is dereferenced, and the
\* panic ends the request.
Answer(r) ==
    LET q == goReq[r]
    IN  /\ q.at = "answer"
        /\ \/ q.err = "none" /\ q.out = GoNone /\ Finished(r, "panic")
           \/ q.err = "none" /\ q.out # GoNone /\ Finished(r, "ok")
           \/ q.err # "none" /\ Finished(r, "error")
           \/ q.err = "none" /\ q.out # GoNone /\ q.ep = "zip" /\ Finished(r, "error")   \* openZip fails
        /\ UNCHANGED <<goTag, goRow, goFlight, goDone, goFailing, goMoved>>

\* External: somebody pushes, moves or deletes a tag of the private module.
PushTag(v, c) ==
    /\ Len(goMoved) < MaxGoMoves
    /\ goTag[v] # c
    /\ goTag' = [goTag EXCEPT ![v] = c]
    /\ goMoved' = Append(goMoved, v)
    /\ UNCHANGED <<goRow, goFlight, goDone, goReq, goFailing>>

GoNext ==
    \/ \E r \in GoReq : \/ Serve(r) \/ Join(r) \/ Recheck(r) \/ Resolve(r) \/ Build(r)
                        \/ Put(r) \/ Close(r) \/ Delete(r) \/ Wake(r) \/ ServeLatest(r) \/ Answer(r)
    \/ \E v \in GoVersion, c \in GoCommit \cup {GoNone} : PushTag(v, c)

GoSpec == GoInit /\ [][GoNext]_goVars

----------------------------------------------------------------------------
(* Properties.                                                             *)

\* Types of the cache, the flights and the requests.
GoTypeOK ==
    /\ goTag \in [GoVersion -> GoCommit \cup {GoNone}]
    /\ goRow \in [GoKey -> GoRecord \cup {GoNone}]
    /\ \A k \in DOMAIN goFlight : goFlight[k] \in GoReq
    /\ goDone \subseteq GoReq
    /\ goReq \in [GoReq -> [at : {"new", "join", "recheck", "resolve", "build", "put", "close",
                                  "delete", "wait", "latest", "answer", "done"},
                            mod : GoModule, ver : GoVersion \cup {0}, ep : Endpoint,
                            out : GoRecord \cup {GoNone}, err : ErrorKind \cup {"none"},
                            on : GoReq \cup {GoNone}, reply : {"none", "ok", "error", "panic"}]]
    /\ goFailing \subseteq GoModule

\* A cached zip is never forgotten: an .info or @latest request that resolved
\* the same version concurrently, or later, leaves the zip of the row alone
\* (UpsertGoproxyVersion against the two flights of one version).
ZipsStayCached ==
    [][\A k \in GoKey : goRow[k] # GoNone /\ goRow[k].zip # GoNone
          => goRow'[k] # GoNone /\ goRow'[k].zip # GoNone]_goVars

\* No flight is left without the request that ends it: a waiter's flight is
\* closed or still led, and a key is held only while its leader is under way,
\* whichever way the fetch fails (singleflight.do).
FlightsLand ==
    /\ GoTypeOK
    /\ \A r \in GoReq : goReq[r].at = "wait" =>
          \/ goReq[r].on \in goDone
          \/ goReq[goReq[r].on].at \in {"recheck", "resolve", "build", "put", "close"}
    /\ \A k \in DOMAIN goFlight :
          goReq[goFlight[k]].at \in {"recheck", "resolve", "build", "put", "close", "delete"}

\* The go.mod and the zip a row serves are of one commit as long as the
\* version's tag was not changed under the proxy (fetch, serveLatest).
RowsAreOfOneCommit ==
    \A v \in GoVersion \cup {0} :
       LET row == goRow[<<"private", v>>]
       IN  row # GoNone /\ row.zip \notin {GoNone, row.commit}
           => v \in Range(goMoved)

============================================================================
