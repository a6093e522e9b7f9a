----------------------------- MODULE MCDelivery -----------------------------
(***************************************************************************)
(* How builds reach their readers, for TLC: who may read (Visibility,      *)
(* GitHubLookups), the URLs of sites (SiteURLs), images (OCIImages) and    *)
(* the Homebrew tap (BrewTap).  They share no state, so a                  *)
(* behaviour runs one of them, part, and the others stay where they start. *)
(* The tap is run with clients that fetch packs, or with ones that fetch   *)
(* files: they meet only in the refreshes they start, and either kind      *)
(* starts them.                                                            *)
(***************************************************************************)
EXTENDS Visibility, GitHubLookups, SiteURLs, OCIImages, BrewTap

VARIABLE part

mcVars == <<part, visVars, lookVars, surVars, imVars, btVars>>

\* What an initial state leaves open is open in the part that runs.
MCInit ==
    /\ part \in {"visibility", "lookups", "urls", "images", "packs", "files"}
    /\ VisInit /\ LookInit /\ SiteURLsInit /\ ImageInit /\ TapInit
    /\ part # "visibility" =>
         /\ \A p \in VProject : isPrivate[p] /\ visRow[p] = NoRow
         /\ visName = CHOOSE f \in [VProject -> VName] : IsInjective(f)
    /\ part # "lookups" => kind = "keys"
    /\ part # "urls" => surProjects = SiteName /\ \A p \in SiteName : surDefault[p] = <<>>
    /\ part # "images" => \A d \in IndexDoc : imRefs[d] = ImageDoc

Idle(C) == \A c \in C : btReq'[c] = btReq[c]

MCNext ==
    \/ part = "visibility" /\ VisNext      /\ UNCHANGED <<part, lookVars, surVars, imVars, btVars>>
    \/ part = "lookups"    /\ LookNext     /\ UNCHANGED <<part, visVars, surVars, imVars, btVars>>
    \/ part = "urls"       /\ SiteURLsNext /\ UNCHANGED <<part, visVars, lookVars, imVars, btVars>>
    \/ part = "images"     /\ ImageNext    /\ UNCHANGED <<part, visVars, lookVars, surVars, btVars>>
    \/ part = "packs"      /\ TapNext      /\ Idle(DumbClient)  /\ UNCHANGED <<part, visVars, lookVars, surVars, imVars>>
    \/ part = "files"      /\ TapNext      /\ Idle(SmartClient) /\ UNCHANGED <<part, visVars, lookVars, surVars, imVars>>

MCSpec == MCInit /\ [][MCNext]_mcVars

Names == {<<1>>, <<1, 2>>}
Refs  == {<<1>>, <<2>>, <<1, 2>>}
Main  == <<1>>
Tip   == <<2>>

=============================================================================
