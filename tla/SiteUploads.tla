---------------------------- MODULE SiteUploads ----------------------------
(***************************************************************************)
(* Publishing sites: the pipeline that turns an uploaded archive into an   *)
(* indexed one, the sites table, and the conversion of old tar sites.      *)
(*                                                                         *)
(* storeTar runs two goroutines joined by a pipe, which holds nothing: a   *)
(* write returns when its block was read.  The producer validates the body *)
(* and writes it on, the consumer archives what it reads.  Either may stop *)
(* early.  ConvertTarSites reads a row, builds its archive and replaces    *)
(* the row's blob, while publishes go on.  A body of c blocks stands for   *)
(* its content.  Which blobs are deleted is in module BlobLifecycle.       *)
(***************************************************************************)
EXTENDS Integers

CONSTANTS
    SiteUpload,     \* requests
    SiteBranch,     \* branches of one project
    MaxBlocks,      \* the longest body
    NoSite

ASSUME SiteBlocks == MaxBlocks \in Nat \ {0}

VARIABLES
    suRow,      \* the sites table: [kind, blocks] of the blob, by branch
    suUp,       \* the uploads
    suConv,     \* ConvertTarSites: the rows it listed and the one it works on
    suPub       \* history: the body last published to a branch

suVars == <<suRow, suUp, suConv, suPub>>

NoUpload == [at |-> "idle"]
SiteRow  == [kind : {"tar", "archive"}, blocks : 1..MaxBlocks]

\* A branch without a site has no row.
ASSUME NoSiteAssumption == NoSite \notin SiteRow

SitesInit ==
    /\ suRow \in [SiteBranch -> SiteRow \cup {NoSite}]
    /\ suPub = [b \in SiteBranch |-> IF suRow[b] = NoSite THEN 0 ELSE suRow[b].blocks]
    /\ suUp = [u \in SiteUpload |-> NoUpload]
    /\ suConv = [at |-> "list", todo |-> {}]

UpGo(u, j) == suUp' = [suUp EXCEPT ![u] = j]

----------------------------------------------------------------------------
(* Handler.Upload and its pipeline.                                        *)

\* The branch name is valid and the body is being read, from the request or from
\* an allowed URL.  A bad body fails validation at block bad; 0 is a good one.
UploadSite(u) ==
    /\ suUp[u].at = "idle"
    /\ \E b \in SiteBranch, n \in 1..MaxBlocks, bad \in 0..MaxBlocks :
         UpGo(u, [at |-> "pipe", branch |-> b, body |-> n, bad |-> bad, read |-> 0,
                  prod |-> "run", cons |-> "run"])
    /\ UNCHANGED <<suRow, suConv, suPub>>

\* One block goes through the pipe: both ends are open.
Block(u) ==
    LET j == suUp[u]
    IN  /\ j.at = "pipe" /\ j.prod = "run" /\ j.cons = "run"
        /\ j.read < j.body /\ j.bad # j.read + 1
        /\ UpGo(u, [j EXCEPT !.read = @ + 1])
        /\ UNCHANGED <<suRow, suConv, suPub>>

\* validateTar and zipToTar reach the end, or a bad entry, or the size cap: the
\* producer closes the pipe with its error.  A write to a closed pipe fails too.
ProducerEnds(u) ==
    LET j == suUp[u]
    IN  /\ j.at = "pipe" /\ j.prod = "run"
        /\ \/ j.cons = "run" /\ j.read = j.body /\ UpGo(u, [j EXCEPT !.prod = "ok"])
           \/ j.cons = "run" /\ j.bad = j.read + 1 /\ UpGo(u, [j EXCEPT !.prod = "bad"])
           \/ j.cons = "bad" /\ UpGo(u, [j EXCEPT !.prod = "bad"])
        /\ UNCHANGED <<suRow, suConv, suPub>>

\* WriteFromTar fails and storeTar goes to wait for the producer, pipe open.
ConsumerFailsOpen(u) ==
    LET j == suUp[u]
    IN  /\ j.at = "pipe" /\ j.cons = "run"
        /\ UpGo(u, [j EXCEPT !.cons = "open"])
        /\ UNCHANGED <<suRow, suConv, suPub>>

\* WriteFromTar fails on an entry, a limit or the disk: the pipe is closed, which
\* ends the producer.
ConsumerFails(u) ==
    LET j == suUp[u]
    IN  /\ j.at = "pipe" /\ j.cons = "run"
        /\ UpGo(u, [j EXCEPT !.cons = "bad"])
        /\ UNCHANGED <<suRow, suConv, suPub>>

\* WriteFromTar meets the end of the pipe: the producer's, or its error.
ConsumerEnds(u) ==
    LET j == suUp[u]
    IN  /\ j.at = "pipe" /\ j.cons = "run" /\ j.prod # "run"
        /\ UpGo(u, [j EXCEPT !.cons = j.prod])
        /\ UNCHANGED <<suRow, suConv, suPub>>

\* Both have ended: the archive of a good body is put, unless the store fails.
StoreArchive(u) ==
    LET j == suUp[u]
    IN  /\ j.at = "pipe" /\ j.prod # "run" /\ j.cons # "run"
        /\ \/ j.prod = "ok" /\ j.cons = "ok" /\ UpGo(u, [j EXCEPT !.at = "upsert"])
           \/ UpGo(u, NoUpload)
        /\ UNCHANGED <<suRow, suConv, suPub>>

\* UpsertSite, one transaction.
UpsertSite(u) ==
    LET j == suUp[u]
    IN  /\ j.at = "upsert"
        /\ \/ /\ suRow' = [suRow EXCEPT ![j.branch] = [kind |-> "archive", blocks |-> j.read]]
              /\ suPub' = [suPub EXCEPT ![j.branch] = j.body]
           \/ UNCHANGED <<suRow, suPub>>
        /\ UpGo(u, NoUpload)
        /\ UNCHANGED suConv

\* Handler.Delete, and the branch-deleted hook (DeleteSitesByRepositoryBranch).
DeleteSite ==
    /\ \E b \in SiteBranch :
         /\ suRow[b] # NoSite
         /\ suRow' = [suRow EXCEPT ![b] = NoSite]
         /\ suPub' = [suPub EXCEPT ![b] = 0]
    /\ UNCHANGED <<suUp, suConv>>

----------------------------------------------------------------------------
(* ConvertTarSites, at startup.                                            *)

ListAllSites ==
    /\ suConv.at = "list"
    /\ suConv' = [at |-> "next", todo |-> {b \in SiteBranch : suRow[b] # NoSite /\ suRow[b].kind = "tar"},
                  key |-> suRow]
    /\ UNCHANGED <<suRow, suUp, suPub>>

\* convertSite builds the archive of the row it listed, or fails: the site stays.
ConvertSite ==
    /\ suConv.at = "next"
    /\ \E b \in suConv.todo :
         \/ suConv' = [at |-> "replace", todo |-> suConv.todo \ {b}, key |-> suConv.key, branch |-> b]
         \/ suConv' = [suConv EXCEPT !.todo = @ \ {b}]
    /\ UNCHANGED <<suRow, suUp, suPub>>

\* ReplaceSiteBlob by the row's id alone.
ReplaceAnyBlob ==
    LET b == suConv.branch
    IN  /\ suConv.at = "replace"
        /\ suRow' = IF suRow[b] # NoSite THEN [suRow EXCEPT ![b] = [suConv.key[b] EXCEPT !.kind = "archive"]]
                    ELSE suRow
        /\ suConv' = [at |-> "next", todo |-> suConv.todo, key |-> suConv.key]
        /\ UNCHANGED <<suUp, suPub>>

\* ReplaceSiteBlob: only a row that still has the blob that was read.
ReplaceSiteBlob ==
    LET b == suConv.branch
    IN  /\ suConv.at = "replace"
        /\ suRow' = IF suRow[b] = suConv.key[b] THEN [suRow EXCEPT ![b].kind = "archive"] ELSE suRow
        /\ suConv' = [at |-> "next", todo |-> suConv.todo, key |-> suConv.key]
        /\ UNCHANGED <<suUp, suPub>>

UploadStep(u) == Block(u) \/ ProducerEnds(u) \/ ConsumerEnds(u) \/ StoreArchive(u) \/ UpsertSite(u)

SitesNext ==
    \/ \E u \in SiteUpload : UploadSite(u) \/ ConsumerFails(u) \/ UploadStep(u)
    \/ DeleteSite
    \/ ListAllSites \/ ConvertSite \/ ReplaceSiteBlob

\* Both goroutines of an upload run, and its statements return.
SitesSpec == SitesInit /\ [][SitesNext]_suVars /\ \A u \in SiteUpload : WF_suVars(UploadStep(u))

----------------------------------------------------------------------------
(* Properties.                                                             *)

\* The table, the uploads and the conversion have their types.
SitesTypeOK ==
    /\ suRow \in [SiteBranch -> SiteRow \cup {NoSite}]
    /\ suPub \in [SiteBranch -> 0..MaxBlocks]
    /\ suConv.at \in {"list", "next", "replace"} /\ suConv.todo \subseteq SiteBranch
    /\ \A u \in SiteUpload :
          suUp[u].at \in {"idle", "upsert"} \/
          (suUp[u].at = "pipe" /\ suUp[u].prod \in {"run", "ok", "bad"} /\ suUp[u].read \in 0..suUp[u].body)

\* A site is all of the body last published to its branch: a body that failed
\* half way is not stored (storeTar), and a conversion that started before a
\* publish or a delete does not undo it (ReplaceSiteBlob).
SitesAreLastPublished ==
    /\ SitesTypeOK
    /\ \A b \in SiteBranch : suPub[b] = (IF suRow[b] = NoSite THEN 0 ELSE suRow[b].blocks)

\* An upload is answered: neither goroutine waits for the other for ever, however
\* early one of them stops (the pr.CloseWithError of storeTar).
SiteUploadsEnd == \A u \in SiteUpload : suUp[u].at = "pipe" ~> suUp[u].at = "idle"

=============================================================================
