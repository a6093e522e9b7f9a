---------------------------- MODULE GitHubLookups ----------------------------
(***************************************************************************)
(* What the server remembers of GitHub: whether a user may read a          *)
(* repository, a repository's default branch, the issuer's keys, and the   *)
(* installation and its token that authenticate its own requests.          *)
(*                                                                         *)
(* Each cache is read under a mutex, the question is asked without it, and *)
(* the answer is stored under it again, so lookups of one entry overlap;   *)
(* only the keys are fetched under the lock.  Time is a counter; a lookup  *)
(* ends within Budget of its start.  The caches share nothing: a behaviour *)
(* follows one of them.                                                    *)
(***************************************************************************)
EXTENDS Integers, FiniteSets

CONSTANTS
    Asker,     \* requests
    TTL,       \* how long an answer is kept
    NegTTL,    \* how long an unknown default branch is kept
    Budget,    \* the longest a lookup takes
    Buffer,    \* how long before its end an installation token is renewed
    TokenLife, \* how long an installation token is good for
    Nothing,
    MaxTime    \* bound: the clock

ASSUME LookupTimes == /\ TTL \in Nat /\ NegTTL \in Nat /\ Budget \in Nat /\ MaxTime \in Nat
                      /\ Buffer \in Nat /\ TokenLife \in Nat /\ Buffer <= TokenLife /\ Budget < TTL

Kind  == {"access", "branch", "keys", "install"}
Value == {"old", "new"}

\* What a cache keeps, and what a request was told.
Answer == [val : Value \cup {Nothing}, exp : Nat]
Told   == [val : Value \cup {Nothing}, at : Nat, token : Nat \cup {Nothing}]

ASSUME NothingAssumption == Nothing \notin Nat \cup Value \cup Answer \cup Told

VARIABLES
    clock,
    kind,     \* the cache this behaviour follows
    truth,    \* GitHub: the present answer
    ended,    \* GitHub: when the old answer stopped being true
    cached,   \* the cache: an answer and its expiry
    appToken, \* tokCache: an installation token's expiry
    keyLock,  \* OIDCVerifier.mu: the request that fetches the keys
    ask,      \* each request: its next step and its locals
    told      \* history: the last answer given, and when

lookVars == <<clock, kind, truth, ended, cached, appToken, keyLock, ask, told>>
lookGH   == <<clock, kind, truth, ended>>

AskAt(c, s) == ask[c].pc = s
AskGo(c, r) == ask' = [ask EXCEPT ![c] = r]
Quiet       == [pc |-> "idle"]

Fresh == cached # Nothing /\ clock < cached.exp

Tell(v) == told' = [val |-> v, at |-> clock, token |-> Nothing]

\* A request wants an answer: a fresh one is given at once.
BeginLookup(c) ==
    /\ AskAt(c, "idle")
    /\ IF Fresh
       THEN /\ Tell(cached.val)
            /\ AskGo(c, IF kind = "install" THEN [pc |-> "token"] ELSE Quiet)
       ELSE /\ AskGo(c, [pc |-> IF kind = "keys" THEN "lock" ELSE "ask", start |-> clock])
            /\ UNCHANGED told
    /\ UNCHANGED <<lookGH, cached, appToken, keyLock>>

\* getKeys takes the write lock and looks again.
LockKeys(c) ==
    /\ AskAt(c, "lock")
    /\ keyLock = Nothing
    /\ IF Fresh
       THEN /\ Tell(cached.val)
            /\ AskGo(c, Quiet)
            /\ UNCHANGED keyLock
       ELSE /\ keyLock' = c
            /\ AskGo(c, [pc |-> "ask", start |-> clock])
            /\ UNCHANGED told
    /\ UNCHANGED <<lookGH, cached, appToken>>

\* GitHub answers what is true now, or not at all.
HearGitHub(c) ==
    /\ AskAt(c, "ask")
    /\ \E v \in {truth, Nothing} : AskGo(c, [pc |-> "store", start |-> ask[c].start, val |-> v])
    /\ UNCHANGED <<lookGH, cached, appToken, keyLock, told>>

\* Mutant: kept from when the answer came.
KeptFromAnswer(start, v) ==
    IF v = Nothing THEN (IF kind = "branch" THEN clock + NegTTL ELSE 0) ELSE clock + TTL

\* Until when an answer is kept.  Access and installations count from before the
\* question; a branch and the keys from after it.  No answer is kept only for a
\* branch, and for a shorter time.
Kept(start, v) ==
    IF v = Nothing THEN (IF kind = "branch" THEN clock + NegTTL ELSE 0)
    ELSE IF kind \in {"access", "install"} THEN start + TTL ELSE clock + TTL

\* canAccessRepo, gitHubUserReadsRepo, GitHubDefaultBranch, getKeys and
\* installationID store a definite answer and give it.
StoreAnswer(c) ==
    LET v == ask[c].val IN
        /\ AskAt(c, "store")
        /\ cached' = IF v = Nothing /\ kind # "branch" THEN cached
                     ELSE [val |-> v, exp |-> Kept(ask[c].start, v)]
        /\ Tell(v)
        /\ keyLock' = IF kind = "keys" THEN Nothing ELSE keyLock
        /\ AskGo(c, IF kind = "install" /\ v # Nothing THEN [pc |-> "token"] ELSE Quiet)
        /\ UNCHANGED <<lookGH, appToken>>

\* installationToken renews a token Buffer before its end.
TokenGood == appToken # Nothing /\ clock < appToken - Buffer

\* A token good for a while is used, else one is asked for.
UseToken(c) ==
    /\ AskAt(c, "token")
    /\ IF TokenGood
       THEN /\ told' = [val |-> Nothing, at |-> clock, token |-> appToken]
            /\ AskGo(c, Quiet)
       ELSE AskGo(c, [pc |-> "mint", start |-> clock]) /\ UNCHANGED told
    /\ UNCHANGED <<lookGH, cached, appToken, keyLock>>

\* createInstallationToken, for the installation GitHub has now: a cached
\* installation that was replaced is refused.
MintToken(c) ==
    /\ AskAt(c, "mint")
    /\ \/ /\ cached # Nothing /\ cached.val = truth
          /\ appToken' = clock + TokenLife
          /\ told' = [val |-> Nothing, at |-> clock, token |-> appToken']
       \/ UNCHANGED <<appToken, told>>
    /\ AskGo(c, Quiet)
    /\ UNCHANGED <<lookGH, cached, keyLock>>

\* The answer changes at GitHub, once.
ChangeTruth ==
    /\ truth = "old" /\ truth' = "new"
    /\ ended' = clock
    /\ UNCHANGED <<clock, kind, cached, appToken, keyLock, ask, told>>

\* Time passes, but no lookup outlives its budget.
PassTime ==
    /\ clock < MaxTime
    /\ \A c \in Asker : ask[c].pc \in {"ask", "store", "mint"} => clock < ask[c].start + Budget
    /\ clock' = clock + 1
    /\ UNCHANGED <<kind, truth, ended, cached, appToken, keyLock, ask, told>>

LookInit ==
    /\ clock = 0
    /\ kind \in Kind
    /\ truth = "old" /\ ended = Nothing
    /\ cached = Nothing
    /\ appToken = Nothing /\ keyLock = Nothing
    /\ ask = [c \in Asker |-> Quiet]
    /\ told = Nothing

LookStep(c) ==
    BeginLookup(c) \/ LockKeys(c) \/ HearGitHub(c) \/ StoreAnswer(c) \/ UseToken(c) \/ MintToken(c)

LookNext == ChangeTruth \/ PassTime \/ \E c \in Asker : LookStep(c)

LookSpec == LookInit /\ [][LookNext]_lookVars

-----------------------------------------------------------------------------

LookTypeOK ==
    /\ clock \in 0..MaxTime
    /\ truth \in Value
    /\ keyLock \in Asker \cup {Nothing}
    /\ keyLock # Nothing => ask[keyLock].pc \in {"ask", "store"} /\ kind = "keys"

\* How long an answer may outlive the truth.
Staleness == IF kind \in {"access", "install"} THEN TTL ELSE TTL + Budget

\* An answer about access that GitHub no longer gives is given for less than TTL
\* after GitHub stopped giving it, however the lookups overlap; branches and
\* keys for less than TTL and one lookup (canAccessRepo, GitHubDefaultBranch, getKeys).
StaleForAWhile ==
    (told # Nothing /\ told.val = "old" /\ ended # Nothing) => told.at < ended + Staleness

\* A request authenticates with a token that stays good for Buffer, or for its
\* whole life if it is new (installationToken).
TokensOutliveRequests ==
    (told # Nothing /\ told.token # Nothing) => told.token - told.at > Buffer \/ told.token - told.at = TokenLife

\* What a request decides with: answers that are not too old and good tokens.
LookupsAreCurrent == LookTypeOK /\ StaleForAWhile /\ TokensOutliveRequests

=============================================================================
