------------------------------- MODULE SignIn -------------------------------
(***************************************************************************)
(* Sign in with GitHub: a browser's tabs ask for private pages, are sent   *)
(* through the OAuth round trip, and come back with a session cookie on    *)
(* the primary domain; a page on the separate site domain gets its session *)
(* through a parked, single-use handoff.                                   *)
(*                                                                         *)
(* A cookie is none, or a session whose GitHub token is live or dead: the  *)
(* user can revoke it at GitHub.  The state cookie holds the nonce of the  *)
(* tab that last started: each tab has one sign-in under way.              *)
(***************************************************************************)
EXTENDS Integers, FiniteSets

CONSTANTS
    Tab,         \* tabs of one browser
    NoTab,
    MaxRevokes,  \* bound: revocations at GitHub
    MaxRestarts, \* bound: restarts of the server
    MaxVisits    \* bound: pages a user opens

Domain  == {"primary", "site"}
VARIABLES
    cookie,    \* the session cookie of each domain
    nonce,     \* the state cookie: the tab whose nonce it is
    tab,       \* each tab: where it is, its destination and its sign-in state
    parked,    \* ssoHandoffs: the session parked for a tab
    revokes, restarts, visits

signVars == <<cookie, nonce, tab, parked, revokes, restarts, visits>>
signEnv  == <<revokes, restarts, visits>>

InTab(t, s) == tab[t].pc = s
ToPage(t, s)  == tab' = [tab EXCEPT ![t].pc = s]
Ended       == {"idle", "shown", "forbidden", "failed"}

\* A user opens a private page.
Visit(t) ==
    \E d \in Domain :
        /\ tab[t].pc \in Ended
        /\ visits < MaxVisits /\ visits' = visits + 1
        /\ tab' = [tab EXCEPT ![t] = [pc |-> "get", dest |-> d, retried |-> FALSE, expired |-> FALSE]]
        /\ UNCHANGED <<cookie, nonce, parked, revokes, restarts>>

\* requireProject and unauthorizedResponse: no session, or one whose token GitHub
\* rejects, goes to sign in, the latter without its cookie; a user without access,
\* or a GitHub that does not answer, gets the page that says so.  An answer for a
\* token that died since may still be cached.
GetPage(t) ==
    LET s == cookie[tab[t].dest] IN
    /\ InTab(t, "get")
    /\ \/ s # "none" /\ \E end \in {"shown", "forbidden"} : ToPage(t, end) /\ UNCHANGED cookie
       \/ s = "dead" /\ ToPage(t, "start") /\ cookie' = [cookie EXCEPT ![tab[t].dest] = "none"]
       \/ s = "none" /\ ToPage(t, "start") /\ UNCHANGED cookie
    /\ UNCHANGED <<nonce, parked, signEnv>>

\* mintSiteHandoff: a session for the site domain is parked.
MintSiteHandoff(t, s) == parked' = [parked EXCEPT ![t] = s]

\* Mutant: a session with a valid signature is handed over unchecked.
HandOffUnchecked(t) == cookie["primary"] # "none" /\ tab[t].dest = "site"

\* handleSigninStart: a session that GitHub still knows is handed to the site.
HandOff(t) == cookie["primary"] = "live" /\ tab[t].dest = "site"

\* handleSigninStart.  GitHub may fail to answer for a live session.
StartSignin(t) ==
    /\ InTab(t, "start")
    /\ \/ /\ HandOff(t)
          /\ MintSiteHandoff(t, cookie["primary"])
          /\ ToPage(t, "sso")
          /\ UNCHANGED nonce
       \/ /\ ~HandOff(t) \/ cookie["primary"] = "live"
          /\ nonce' = t
          /\ ToPage(t, "github")
          /\ UNCHANGED parked
    /\ UNCHANGED <<cookie, signEnv>>

\* The user answers at GitHub, in time or not, or cancels.
AnswerGitHub(t) ==
    /\ InTab(t, "github")
    /\ \E late \in BOOLEAN, pc \in {"callback", "cancelled"} :
         tab' = [tab EXCEPT ![t].pc = pc, ![t].expired = late]
    /\ UNCHANGED <<cookie, nonce, parked, signEnv>>

\* restartOrFail: one automatic restart.
RestartOrFail(t) ==
    tab' = [tab EXCEPT ![t].pc = IF tab[t].retried THEN "failed" ELSE "start",
                       ![t].retried = TRUE, ![t].expired = FALSE]

\* handleSigninCallback up to the exchange: an error ends it; a late state, or a
\* state cookie that another tab took, starts again.
CheckState(t) ==
    /\ InTab(t, "callback") \/ InTab(t, "cancelled")
    /\ IF InTab(t, "cancelled") THEN ToPage(t, "failed") /\ UNCHANGED nonce
       ELSE IF tab[t].expired \/ nonce # t THEN RestartOrFail(t) /\ UNCHANGED nonce
       ELSE ToPage(t, "exchange") /\ nonce' = NoTab
    /\ UNCHANGED <<cookie, parked, signEnv>>

\* The code is exchanged and the user read, or GitHub refuses; the session is set
\* on the primary domain, and parked for a page of the site domain.
ExchangeCode(t) ==
    /\ InTab(t, "exchange")
    /\ \/ ToPage(t, "failed") /\ UNCHANGED <<cookie, parked>>
       \/ /\ cookie' = [cookie EXCEPT !["primary"] = "live"]
          /\ IF tab[t].dest = "site" THEN MintSiteHandoff(t, "live") /\ ToPage(t, "sso")
             ELSE ToPage(t, "get") /\ UNCHANGED parked
    /\ UNCHANGED <<nonce, signEnv>>

\* handleSSORedeem: the parked session is taken once, if it is there in time.
RedeemSSO(t) ==
    /\ InTab(t, "sso")
    /\ \/ /\ parked[t] # "none"
          /\ cookie' = [cookie EXCEPT !["site"] = parked[t]]
          /\ ToPage(t, "get")
       \/ ToPage(t, "failed") /\ UNCHANGED cookie
    /\ parked' = [parked EXCEPT ![t] = "none"]
    /\ UNCHANGED <<nonce, signEnv>>

\* handleSignout, or a cookie that reached its age.
SignOut ==
    /\ \E d \in Domain : cookie[d] # "none" /\ cookie' = [cookie EXCEPT ![d] = "none"]
    /\ visits < MaxVisits /\ visits' = visits + 1
    /\ UNCHANGED <<nonce, tab, parked, revokes, restarts>>

Dies(s) == IF s = "live" THEN "dead" ELSE s

\* The user revokes the tokens at GitHub.
Revoke ==
    /\ revokes < MaxRevokes /\ revokes' = revokes + 1
    /\ cookie' = [d \in Domain |-> Dies(cookie[d])]
    /\ parked' = [t \in Tab |-> Dies(parked[t])]
    /\ UNCHANGED <<nonce, tab, restarts, visits>>

\* A restart forgets the parked sessions; cookies stay valid, the key is on disk.
RestartServer ==
    /\ restarts < MaxRestarts /\ restarts' = restarts + 1
    /\ parked' = [t \in Tab |-> "none"]
    /\ UNCHANGED <<cookie, nonce, tab, revokes, visits>>

SignInit ==
    /\ cookie = [d \in Domain |-> "none"]
    /\ nonce = NoTab
    /\ tab = [t \in Tab |-> [pc |-> "idle", dest |-> "primary", retried |-> FALSE, expired |-> FALSE]]
    /\ parked = [t \in Tab |-> "none"]
    /\ revokes = 0 /\ restarts = 0 /\ visits = 0

\* What the browser and the server do by themselves, and a user at GitHub's page.
TabStep(t) ==
    GetPage(t) \/ StartSignin(t) \/ AnswerGitHub(t) \/ CheckState(t) \/ ExchangeCode(t) \/ RedeemSSO(t)

SignNext ==
    \/ SignOut \/ Revoke \/ RestartServer
    \/ \E t \in Tab : Visit(t) \/ TabStep(t)

\* A browser follows redirects, the server answers, and the user answers GitHub.
SignFairness == \A t \in Tab : WF_signVars(TabStep(t))

SignSpec == SignInit /\ [][SignNext]_signVars /\ SignFairness

-----------------------------------------------------------------------------

\* Every visit ends at its page or at one that says why not: no dead session,
\* lost state cookie, late answer or lost handoff redirects a browser for ever
\* (handleSigninCallback: "no failure here may be a dead end").
VisitsEnd == \A t \in Tab : tab[t].pc \notin Ended ~> tab[t].pc \in Ended

=============================================================================
