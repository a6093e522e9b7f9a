-------------------------- MODULE RegistriesProofs --------------------------
(***************************************************************************)
(* Proofs about the registry mirror (Mirror), the blob directory           *)
(* (BlobFiles), the Go module proxy (GoProxy) and the Homebrew tap         *)
(* (BrewTap), for any number of pulls, requests, digests, contents,        *)
(* commits, versions, clients and releases.                                *)
(***************************************************************************)
EXTENDS Mirror, BlobFiles, GoProxy, BrewTap, WellFoundedInduction, FiniteSetTheorems,
        SequenceTheorems, TLAPS

(***************************************************************************)
(* The mirror                                                              *)
(***************************************************************************)

PullStage   == {"new", "head", "put", "stored", "fetch", "store", "insert", "serve", "failed"}
PullType == [at : PullStage, digest : Digest \cup {NoDigest}, since : 0..MaxMirrorTime, sure : BOOLEAN]

\* Types.
MirrorTypes ==
    /\ mrNow \in 0..MaxMirrorTime
    /\ mrDown \in BOOLEAN
    /\ mrNames \in Digest \cup {NoDigest}
    /\ mrTag \in [digest : Digest \cup {NoDigest}, checked : 0..MaxMirrorTime]
    /\ mrRow \subseteq Digest /\ mrFile \subseteq Digest
    /\ mrPull \in [Pull -> PullType]
    /\ mrEvict \in [digest : Digest \cup {NoDigest}, at : {"idle", "row", "check", "bytes"}]
    /\ mrLast \in [Digest -> 0..(MaxMirrorTime + 1)]

\* A digest's last naming is in the past, and now for the one the tag names.
NamingsOK ==
    /\ \A d \in Digest : mrLast[d] <= mrNow \/ mrLast[d] = MaxMirrorTime + 1
    /\ mrNames # NoDigest => mrLast[mrNames] = mrNow

\* The digest in d was named at t or after.
NamedSince(d, t) == d \in Digest /\ mrLast[d] <= MaxMirrorTime /\ t <= mrLast[d]

Serving == {"stored", "fetch", "store", "insert", "serve"}

\* A lookup is no longer under way than a lookup takes, the answer it is
\* about to record was true when the upstream gave it, and a pull past its
\* lookup has a digest.
LookupsOK ==
    \A p \in Pull :
        /\ mrPull[p].at \in Serving => mrPull[p].digest # NoDigest
        /\ mrPull[p].at \in {"head", "put"} =>
             mrPull[p].since <= mrNow /\ mrNow <= mrPull[p].since + LookupTime
        /\ mrPull[p].at = "put" => NamedSince(mrPull[p].digest, mrPull[p].since)

\* The recorded tag was named within a lookup of its check.
TagOK ==
    mrTag.digest # NoDigest =>
        mrLast[mrTag.digest] <= MaxMirrorTime /\ mrTag.checked <= mrLast[mrTag.digest] + LookupTime

\* A sure pull is on a path that needs no upstream, and what it will serve is
\* there: with the janitor idle nothing deletes it.
SureOK ==
    \A p \in Pull : mrPull[p].sure =>
        /\ mrDown /\ mrEvict.at = "idle"
        /\ mrPull[p].at \in {"head", "stored", "serve"}
        /\ mrPull[p].digest \in mrRow \cap mrFile

MirrorInv == MirrorTypes /\ NamingsOK /\ LookupsOK /\ TagOK /\ SureOK

\* The step moves one pull.
OnePull(p) == mrPull' \in [Pull -> PullType] /\ \A q \in Pull \ {p} : mrPull'[q] = mrPull[q]

\* PullTo sets the fields it is given and keeps the others.
LEMMA PullToAt ==
    ASSUME mrPull \in [Pull -> PullType], NEW p \in Pull, NEW a \in PullStage, PullTo(p, [at |-> a])
    PROVE  /\ OnePull(p) /\ mrPull'[p].at = a /\ mrPull'[p].digest = mrPull[p].digest
           /\ mrPull'[p].since = mrPull[p].since /\ mrPull'[p].sure = mrPull[p].sure
<1>1. mrPull[p] \in PullType /\ DOMAIN mrPull[p] = {"at", "digest", "since", "sure"}
  BY DEF PullType
<1>2. mrPull' \in [Pull -> PullType]
  BY <1>1 DEF PullTo, PullType
<1>. QED BY <1>1, <1>2 DEF PullTo, OnePull

\* The same with a digest.
LEMMA PullToDigest ==
    ASSUME mrPull \in [Pull -> PullType], NEW p \in Pull, NEW a \in PullStage, NEW d \in Digest,
           PullTo(p, [at |-> a, digest |-> d])
    PROVE  /\ OnePull(p) /\ mrPull'[p].at = a /\ mrPull'[p].digest = d
           /\ mrPull'[p].since = mrPull[p].since /\ mrPull'[p].sure = mrPull[p].sure
<1>1. mrPull[p] \in PullType /\ DOMAIN mrPull[p] = {"at", "digest", "since", "sure"}
  BY DEF PullType
<1>2. mrPull' \in [Pull -> PullType]
  BY <1>1 DEF PullTo, PullType
<1>. QED BY <1>1, <1>2 DEF PullTo, OnePull

\* The same with a time.
LEMMA PullToSince ==
    ASSUME mrPull \in [Pull -> PullType], NEW p \in Pull, NEW a \in PullStage, NEW t \in 0..MaxMirrorTime,
           PullTo(p, [at |-> a, since |-> t])
    PROVE  /\ OnePull(p) /\ mrPull'[p].at = a /\ mrPull'[p].digest = mrPull[p].digest
           /\ mrPull'[p].since = t /\ mrPull'[p].sure = mrPull[p].sure
<1>1. mrPull[p] \in PullType /\ DOMAIN mrPull[p] = {"at", "digest", "since", "sure"}
  BY DEF PullType
<1>2. mrPull' \in [Pull -> PullType]
  BY <1>1 DEF PullTo, PullType
<1>. QED BY <1>1, <1>2 DEF PullTo, OnePull

\* The same with every field.
LEMMA PullToAll ==
    ASSUME mrPull \in [Pull -> PullType], NEW p \in Pull, NEW a \in PullStage, NEW d \in Digest \cup {NoDigest},
           NEW t \in 0..MaxMirrorTime, NEW u \in BOOLEAN,
           PullTo(p, [at |-> a, digest |-> d, since |-> t, sure |-> u])
    PROVE  /\ OnePull(p) /\ mrPull'[p].at = a /\ mrPull'[p].digest = d
           /\ mrPull'[p].since = t /\ mrPull'[p].sure = u
<1>1. mrPull[p] \in PullType /\ DOMAIN mrPull[p] = {"at", "digest", "since", "sure"}
  BY DEF PullType
<1>2. mrPull' \in [Pull -> PullType]
  BY <1>1 DEF PullTo, PullType
<1>. QED BY <1>1, <1>2 DEF PullTo, OnePull

\* A pull that failed.
LEMMA PullFailed ==
    ASSUME mrPull \in [Pull -> PullType], NEW p \in Pull, Failed(p)
    PROVE  OnePull(p) /\ mrPull'[p].at = "failed" /\ mrPull'[p].sure = mrPull[p].sure
<1>1. mrPull[p] \in PullType /\ DOMAIN mrPull[p] = {"at", "digest", "since", "sure"}
  BY DEF PullType
<1>2. mrPull' \in [Pull -> PullType]
  BY <1>1, MirrorTimes DEF Failed, PullTo, PullType, PullStage
<1>. QED BY <1>1, <1>2 DEF Failed, PullTo, OnePull

\* What a step of one pull has to show.
LEMMA PullStep ==
    ASSUME MirrorInv, NEW p \in Pull, OnePull(p),
           UNCHANGED <<mrNow, mrDown, mrNames, mrEvict, mrLast>>,
           mrRow' \subseteq Digest, mrFile' \subseteq Digest,
           mrTag' \in [digest : Digest \cup {NoDigest}, checked : 0..MaxMirrorTime],
           mrPull'[p].at \in {"head", "put"} =>
               mrPull'[p].since <= mrNow /\ mrNow <= mrPull'[p].since + LookupTime,
           mrPull'[p].at = "put" => NamedSince(mrPull'[p].digest, mrPull'[p].since),
           mrPull'[p].at \in Serving => mrPull'[p].digest # NoDigest,
           mrPull'[p].sure => /\ mrDown /\ mrEvict.at = "idle"
                              /\ mrPull'[p].at \in {"head", "stored", "serve"}
                              /\ mrPull'[p].digest \in mrRow' \cap mrFile',
           mrRow \cap mrFile \subseteq mrRow' \cap mrFile',
           TagOK'
    PROVE  MirrorInv'
<1>1. MirrorTypes'
  BY DEF MirrorInv, MirrorTypes, OnePull
<1>2. NamingsOK'
  BY DEF MirrorInv, NamingsOK
<1>3. LookupsOK'
  BY DEF MirrorInv, LookupsOK, NamedSince, OnePull
<1>4. SureOK'
  BY DEF MirrorInv, SureOK, OnePull
<1>. QED BY <1>1, <1>2, <1>3, <1>4 DEF MirrorInv


\* Every step of a pull keeps the invariant.
LEMMA PullActions ==
    ASSUME MirrorInv, NEW p \in Pull,
           \/ PullTag(p) \/ PullDigest(p) \/ HeadManifest(p) \/ PutTag(p) \/ Stored(p)
           \/ Fetch(p) \/ StoreBytes(p) \/ InsertRow(p) \/ ServeStored(p)
    PROVE  MirrorInv'
<1>1. /\ mrPull \in [Pull -> PullType] /\ mrPull[p].digest \in Digest \cup {NoDigest}
      /\ mrPull[p].at \in Serving => mrPull[p].digest \in Digest
      /\ mrPull[p].since \in 0..MaxMirrorTime /\ mrPull[p].sure \in BOOLEAN /\ mrPull[p].at \in PullStage
      /\ mrRow \subseteq Digest /\ mrFile \subseteq Digest /\ mrNow \in 0..MaxMirrorTime
      /\ mrTag \in [digest : Digest \cup {NoDigest}, checked : 0..MaxMirrorTime]
  BY DEF MirrorInv, MirrorTypes, PullType, LookupsOK
<1>2. CASE PullTag(p)
  <2>1. /\ PullTo(p, [at |-> IF TagFresh THEN "stored" ELSE "head",
                      digest |-> mrTag.digest, since |-> IF TagFresh THEN 0 ELSE mrNow,
                      sure |-> HoldsTag /\ mrDown /\ mrEvict.at = "idle"])
        /\ UNCHANGED <<mrNow, mrDown, mrNames, mrTag, mrRow, mrFile, mrEvict, mrLast>>
    BY <1>2 DEF PullTag
  <2>2. (HoldsTag /\ mrDown /\ mrEvict.at = "idle") \in BOOLEAN /\ mrTag.digest \in Digest \cup {NoDigest}
    BY <1>1
  <2>3. /\ OnePull(p) /\ mrPull'[p].at = (IF TagFresh THEN "stored" ELSE "head")
        /\ mrPull'[p].digest = mrTag.digest /\ mrPull'[p].since = (IF TagFresh THEN 0 ELSE mrNow)
        /\ mrPull'[p].sure = (HoldsTag /\ mrDown /\ mrEvict.at = "idle")
    <3>. DEFINE a == IF TagFresh THEN "stored" ELSE "head"
                t == IF TagFresh THEN 0 ELSE mrNow
                u == HoldsTag /\ mrDown /\ mrEvict.at = "idle"
    <3>1. a \in PullStage /\ t \in 0..MaxMirrorTime /\ u \in BOOLEAN
      BY <1>1, <2>2, MirrorTimes DEF PullStage
    <3>2. PullTo(p, [at |-> a, digest |-> mrTag.digest, since |-> t, sure |-> u])
      BY <2>1
    <3>. HIDE DEF a, t, u
    <3>3. OnePull(p) /\ mrPull'[p].at = a /\ mrPull'[p].digest = mrTag.digest /\ mrPull'[p].since = t /\ mrPull'[p].sure = u
      BY <1>1, <2>2, <3>1, <3>2, PullToAll
    <3>. QED BY <3>3 DEF a, t, u
  <2>4. TagOK'
    BY <2>1 DEF MirrorInv, TagOK
  <2>5. mrPull'[p].at = "head" => mrPull'[p].since = mrNow /\ mrNow <= mrPull'[p].since + LookupTime
    BY <1>1, <2>3, MirrorTimes
  <2>6. mrPull'[p].sure => mrDown /\ mrEvict.at = "idle" /\ mrPull'[p].digest \in mrRow' \cap mrFile'
    BY <2>1, <2>3, Zenon DEF HoldsTag
  <2>7. /\ mrPull'[p].at \in {"head", "stored"}
        /\ mrPull'[p].at = "stored" => mrPull'[p].digest # NoDigest
    BY <2>3 DEF TagFresh
  <2>. QED BY <1>1, <2>1, <2>3, <2>4, <2>5, <2>6, <2>7, PullStep DEF Serving
<1>3. CASE PullDigest(p)
  <2>1. PICK d \in Digest : PullTo(p, [at |-> "stored", digest |-> d, since |-> 0, sure |-> FALSE])
    BY <1>3 DEF PullDigest
  <2>2. OnePull(p) /\ mrPull'[p].at = "stored" /\ mrPull'[p].digest = d /\ mrPull'[p].sure = FALSE
    <3>1. "stored" \in PullStage /\ 0 \in 0..MaxMirrorTime /\ FALSE \in BOOLEAN
      BY MirrorTimes DEF PullStage
    <3>. QED BY <1>1, <2>1, <3>1, PullToAll, Zenon
  <2>3. UNCHANGED <<mrNow, mrDown, mrNames, mrTag, mrRow, mrFile, mrEvict, mrLast>> /\ TagOK'
    BY <1>3 DEF PullDigest, MirrorInv, TagOK
  <2>. QED BY <1>1, <2>2, <2>3, PullStep, NoDigestAssumption
<1>4. CASE HeadManifest(p)
  <2>1. /\ mrPull[p].at = "head" /\ TagOK'
        /\ UNCHANGED <<mrNow, mrDown, mrNames, mrTag, mrRow, mrFile, mrEvict, mrLast>>
    BY <1>4 DEF HeadManifest, MirrorInv, TagOK
  <2>2. CASE mrDown /\ UpstreamFailed(p)
    <3>1. CASE mrPull[p].digest # NoDigest
      <4>1. PullTo(p, [at |-> "stored", since |-> 0])
        BY <2>2, <3>1 DEF UpstreamFailed
      <4>2. /\ OnePull(p) /\ mrPull'[p].at = "stored" /\ mrPull'[p].sure = mrPull[p].sure
            /\ mrPull'[p].digest = mrPull[p].digest
        BY <1>1, <4>1, PullToSince, MirrorTimes DEF PullStage
      <4>. QED BY <1>1, <2>1, <3>1, <4>2, PullStep DEF MirrorInv, SureOK
    <3>2. CASE mrPull[p].digest = NoDigest
      <4>1. Failed(p)
        BY <2>2, <3>2 DEF UpstreamFailed
      <4>2. ~mrPull[p].sure
        BY <1>1, <3>2, NoDigestAssumption DEF MirrorInv, SureOK
      <4>3. OnePull(p) /\ mrPull'[p].at = "failed" /\ ~mrPull'[p].sure
        BY <1>1, <4>1, <4>2, PullFailed
      <4>. QED BY <1>1, <2>1, <4>3, PullStep DEF Serving
    <3>. QED BY <3>1, <3>2
  <2>3. CASE ~mrDown /\ mrNames # NoDigest /\ PullTo(p, [at |-> "put", digest |-> mrNames])
    <3>1. mrNames \in Digest /\ mrLast[mrNames] = mrNow
      BY <2>3 DEF MirrorInv, MirrorTypes, NamingsOK
    <3>2. /\ OnePull(p) /\ mrPull'[p].at = "put" /\ mrPull'[p].sure = mrPull[p].sure
          /\ mrPull'[p].digest = mrNames /\ mrPull'[p].since = mrPull[p].since
      BY <1>1, <2>3, <3>1, PullToDigest DEF PullStage
    <3>3. mrPull[p].since <= mrNow /\ mrNow <= mrPull[p].since + LookupTime
      BY <2>1 DEF MirrorInv, LookupsOK
    <3>4. ~mrPull[p].sure
      BY <2>3 DEF MirrorInv, SureOK
    <3>5. NamedSince(mrNames, mrPull[p].since)
      BY <1>1, <3>1, <3>3 DEF NamedSince
    <3>. QED BY <1>1, <2>1, <3>2, <3>3, <3>4, <3>5, PullStep DEF Serving
  <2>4. CASE ~mrDown /\ mrNames = NoDigest /\ Failed(p)
    <3>1. ~mrPull[p].sure
      BY <2>4 DEF MirrorInv, SureOK
    <3>2. OnePull(p) /\ mrPull'[p].at = "failed" /\ ~mrPull'[p].sure
      BY <1>1, <2>4, <3>1, PullFailed
    <3>. QED BY <1>1, <2>1, <3>2, PullStep DEF Serving
  <2>. QED BY <1>4, <2>2, <2>3, <2>4 DEF HeadManifest
<1>5. CASE PutTag(p)
  <2>1. /\ mrPull[p].at = "put" /\ mrTag' = [digest |-> mrPull[p].digest, checked |-> mrNow]
        /\ PullTo(p, [at |-> "stored", since |-> 0])
        /\ UNCHANGED <<mrNow, mrDown, mrNames, mrRow, mrFile, mrEvict, mrLast>>
    BY <1>5 DEF PutTag
  <2>2. /\ OnePull(p) /\ mrPull'[p].at = "stored" /\ mrPull'[p].sure = mrPull[p].sure
        /\ mrPull'[p].digest = mrPull[p].digest
    BY <1>1, <2>1, PullToSince, MirrorTimes DEF PullStage
  <2>3. ~mrPull[p].sure
    BY <2>1 DEF MirrorInv, SureOK
  <2>4. mrNow <= mrPull[p].since + LookupTime /\ NamedSince(mrPull[p].digest, mrPull[p].since)
    BY <2>1 DEF MirrorInv, LookupsOK
  <2>5. mrLast[mrPull[p].digest] \in Nat
    BY <2>4, MirrorTimes DEF MirrorInv, MirrorTypes, NamedSince
  <2>6. TagOK'
    BY <1>1, <2>1, <2>4, <2>5, MirrorTimes DEF TagOK, NamedSince
  <2>. QED BY <1>1, <2>1, <2>2, <2>3, <2>4, <2>6, PullStep, NoDigestAssumption DEF NamedSince
<1>6. CASE Stored(p)
  <2>. DEFINE d == mrPull[p].digest
  <2>1. /\ mrPull[p].at = "stored" /\ UNCHANGED <<mrNow, mrDown, mrNames, mrFile, mrEvict, mrLast>>
    BY <1>6 DEF Stored
  <2>2. CASE d \in mrRow \cap mrFile /\ PullTo(p, [at |-> "serve"]) /\ UNCHANGED <<mrRow, mrTag>>
    <3>1. /\ OnePull(p) /\ mrPull'[p].at = "serve" /\ mrPull'[p].digest = d
          /\ mrPull'[p].sure = mrPull[p].sure /\ TagOK'
      BY <1>1, <2>1, <2>2, PullToAt DEF PullStage, MirrorInv, TagOK
    <3>. QED BY <1>1, <2>1, <2>2, <3>1, PullStep, NoDigestAssumption DEF MirrorInv, SureOK
  <2>3. CASE d \notin mrRow \cap mrFile /\ PullTo(p, [at |-> "fetch"])
    <3>1. OnePull(p) /\ mrPull'[p].at = "fetch" /\ mrPull'[p].sure = mrPull[p].sure /\ mrPull'[p].digest = d
      BY <1>1, <2>3, PullToAt DEF PullStage
    <3>2. ~mrPull[p].sure
      BY <2>3 DEF MirrorInv, SureOK
    <3>3. /\ mrRow' \subseteq Digest /\ mrRow \cap mrFile \subseteq mrRow' \cap mrFile'
          /\ mrTag' = mrTag \/ mrTag' = [digest |-> NoDigest, checked |-> 0]
      BY <1>1, <1>6, <2>1, <2>3 DEF Stored, ForgetTags
    <3>4. TagOK' /\ mrTag' \in [digest : Digest \cup {NoDigest}, checked : 0..MaxMirrorTime]
      BY <1>1, <2>1, <3>3, MirrorTimes DEF TagOK, MirrorInv
    <3>. QED BY <1>1, <2>1, <3>1, <3>2, <3>3, <3>4, PullStep, NoDigestAssumption DEF Serving
  <2>. QED BY <1>6, <2>2, <2>3 DEF Stored
<1>7. CASE Fetch(p)
  <2>1. /\ mrPull[p].at = "fetch" /\ TagOK'
        /\ UNCHANGED <<mrNow, mrDown, mrNames, mrTag, mrRow, mrFile, mrEvict, mrLast>>
    BY <1>7 DEF Fetch, MirrorInv, TagOK
  <2>2. ~mrPull[p].sure
    BY <2>1 DEF MirrorInv, SureOK
  <2>3. /\ OnePull(p) /\ mrPull'[p].at \in {"store", "failed"} /\ ~mrPull'[p].sure
        /\ mrPull'[p].at = "store" => mrPull'[p].digest = mrPull[p].digest
    BY <1>1, <1>7, <2>2, PullToAt, PullFailed DEF Fetch, PullStage
  <2>. QED BY <1>1, <2>1, <2>3, PullStep, NoDigestAssumption DEF Serving
<1>8. CASE StoreBytes(p) \/ InsertRow(p)
  <2>1. /\ mrPull[p].at \in {"store", "insert"} /\ TagOK'
        /\ UNCHANGED <<mrNow, mrDown, mrNames, mrTag, mrEvict, mrLast>>
        /\ mrFile' \in {mrFile, mrFile \cup {mrPull[p].digest}}
        /\ mrRow' \in {mrRow, mrRow \cup {mrPull[p].digest}}
    BY <1>8 DEF StoreBytes, InsertRow, MirrorInv, TagOK
  <2>2. ~mrPull[p].sure
    BY <2>1 DEF MirrorInv, SureOK
  <2>3. /\ OnePull(p) /\ mrPull'[p].at \in {"insert", "serve"} /\ ~mrPull'[p].sure
        /\ mrPull'[p].digest = mrPull[p].digest
    BY <1>1, <1>8, <2>2, PullToAt DEF StoreBytes, InsertRow, PullStage
  <2>. QED BY <1>1, <2>1, <2>3, PullStep, NoDigestAssumption DEF Serving
<1>9. CASE ServeStored(p)
  <2>1. /\ mrPull[p].at = "serve" /\ TagOK'
        /\ UNCHANGED <<mrNow, mrDown, mrNames, mrTag, mrRow, mrFile, mrEvict, mrLast>>
    BY <1>9 DEF ServeStored, MirrorInv, TagOK
  <2>2. CASE mrPull[p].digest \in mrFile
    <3>1. mrPull' = [mrPull EXCEPT ![p] = NoPull]
      BY <1>9, <2>2 DEF ServeStored
    <3>2. NoPull \in PullType /\ NoPull.at = "new" /\ ~NoPull.sure
      BY MirrorTimes DEF NoPull, PullType, PullStage
    <3>3. OnePull(p) /\ mrPull'[p].at = "new" /\ ~mrPull'[p].sure
      BY <1>1, <3>1, <3>2 DEF OnePull
    <3>. QED BY <1>1, <2>1, <3>3, PullStep DEF Serving
  <2>3. CASE mrPull[p].digest \notin mrFile
    <3>1. ~mrPull[p].sure
      BY <2>3 DEF MirrorInv, SureOK
    <3>2. OnePull(p) /\ mrPull'[p].at = "failed" /\ ~mrPull'[p].sure
      BY <1>1, <1>9, <2>3, <3>1, PullFailed DEF ServeStored
    <3>. QED BY <1>1, <2>1, <3>2, PullStep DEF Serving
  <2>. QED BY <2>2, <2>3
<1>. QED BY <1>2, <1>3, <1>4, <1>5, <1>6, <1>7, <1>8, <1>9


\* Naming a digest again only brings its last naming forward.
LEMMA NamedLater ==
    ASSUME MirrorInv, Retag \/ MirrorTick
    PROVE  /\ MirrorTypes' /\ NamingsOK'
           /\ \A d \in Digest : mrLast[d] <= MaxMirrorTime => mrLast[d] <= mrLast'[d] /\ mrLast'[d] <= MaxMirrorTime
<1>. USE MirrorTimes, NoDigestAssumption
<1>1. /\ mrNow \in 0..MaxMirrorTime /\ \A d \in Digest : mrLast[d] \in 0..(MaxMirrorTime + 1)
      /\ \A d \in Digest : mrLast[d] <= mrNow \/ mrLast[d] = MaxMirrorTime + 1
  BY DEF MirrorInv, MirrorTypes, NamingsOK
<1>2. CASE Retag
  <2>1. /\ mrNames' \in Digest \cup {NoDigest}
        /\ \A d \in Digest : mrLast'[d] = IF d \in {mrNames, mrNames'} THEN mrNow ELSE mrLast[d]
        /\ mrLast' \in [Digest -> 0..(MaxMirrorTime + 1)]
        /\ UNCHANGED <<mrNow, mrDown, mrTag, mrRow, mrFile, mrPull, mrEvict>>
    BY <1>1, <1>2 DEF Retag
  <2>2. MirrorTypes'
    BY <2>1 DEF MirrorInv, MirrorTypes
  <2>3. NamingsOK'
    BY <1>1, <2>1 DEF NamingsOK
  <2>. QED BY <1>1, <2>1, <2>2, <2>3
<1>3. CASE MirrorTick
  <2>1. /\ mrNow' = mrNow + 1 /\ mrNow < MaxMirrorTime
        /\ \A d \in Digest : mrLast'[d] = IF d = mrNames THEN mrNow + 1 ELSE mrLast[d]
        /\ mrLast' \in [Digest -> 0..(MaxMirrorTime + 1)]
        /\ UNCHANGED <<mrDown, mrNames, mrTag, mrRow, mrFile, mrPull, mrEvict>>
    BY <1>1, <1>3 DEF MirrorTick
  <2>2. MirrorTypes'
    BY <1>1, <2>1 DEF MirrorInv, MirrorTypes
  <2>3. NamingsOK'
    BY <1>1, <2>1 DEF MirrorInv, MirrorTypes, NamingsOK
  <2>. QED BY <1>1, <2>1, <2>2, <2>3
<1>. QED BY <1>2, <1>3

\* So does every step of the upstream and of the clock keep the invariant.
LEMMA UpstreamActions ==
    ASSUME MirrorInv, Retag \/ MirrorTick
    PROVE  MirrorInv'
<1>1. MirrorTypes' /\ NamingsOK'
  BY NamedLater
<1>2. UNCHANGED <<mrDown, mrTag, mrRow, mrFile, mrPull, mrEvict>>
  BY DEF Retag, MirrorTick
<1>3. \A d \in Digest : mrLast[d] \in Nat /\ mrLast'[d] \in Nat
  BY <1>1, MirrorTimes DEF MirrorInv, MirrorTypes
<1>4. LookupsOK'
  <2>1. ASSUME NEW p \in Pull, mrPull'[p].at \in {"head", "put"}
        PROVE  mrPull'[p].since <= mrNow' /\ mrNow' <= mrPull'[p].since + LookupTime
    <3>1. mrPull[p].since \in Nat /\ mrNow \in Nat /\ mrPull[p].since <= mrNow /\ mrNow <= mrPull[p].since + LookupTime
      BY <1>2, <2>1, MirrorTimes DEF MirrorInv, MirrorTypes, PullType, LookupsOK
    <3>. QED BY <1>2, <2>1, <3>1, MirrorTimes DEF Retag, MirrorTick
  <2>2. ASSUME NEW p \in Pull, mrPull'[p].at = "put"
        PROVE  NamedSince(mrPull[p].digest, mrPull[p].since)'
    <3>1. mrPull[p].since \in Nat /\ NamedSince(mrPull[p].digest, mrPull[p].since)
      BY <1>2, <2>2, MirrorTimes DEF MirrorInv, MirrorTypes, PullType, LookupsOK
    <3>. QED BY <1>2, <1>3, <3>1, NamedLater DEF NamedSince
  <2>. QED BY <1>2, <2>1, <2>2 DEF MirrorInv, LookupsOK
<1>5. TagOK'
  <2>. SUFFICES ASSUME mrTag.digest # NoDigest
                PROVE  /\ mrLast'[mrTag.digest] <= MaxMirrorTime
                       /\ mrTag.checked <= mrLast'[mrTag.digest] + LookupTime
    BY <1>2 DEF TagOK
  <2>1. mrTag.digest \in Digest /\ mrTag.checked \in Nat
    BY MirrorTimes DEF MirrorInv, MirrorTypes
  <2>2. mrLast[mrTag.digest] <= MaxMirrorTime /\ mrTag.checked <= mrLast[mrTag.digest] + LookupTime
    BY DEF MirrorInv, TagOK
  <2>3. mrLast[mrTag.digest] <= mrLast'[mrTag.digest] /\ mrLast'[mrTag.digest] <= MaxMirrorTime
    BY <2>1, <2>2, NamedLater
  <2>. QED BY <1>3, <2>1, <2>2, <2>3, MirrorTimes
<1>6. SureOK'
  BY <1>2 DEF MirrorInv, SureOK
<1>. QED BY <1>1, <1>4, <1>5, <1>6 DEF MirrorInv

\* An eviction, and the end of an outage, leave no pull sure.
LEMMA UnsureFacts ==
    ASSUME MirrorInv, Unsure
    PROVE  /\ mrPull' \in [Pull -> PullType]
           /\ \A p \in Pull : /\ ~mrPull'[p].sure /\ mrPull'[p].at = mrPull[p].at
                              /\ mrPull'[p].digest = mrPull[p].digest /\ mrPull'[p].since = mrPull[p].since
<1>1. \A p \in Pull : mrPull[p] \in PullType
  BY DEF MirrorInv, MirrorTypes
<1>2. \A p \in Pull : mrPull'[p] = [mrPull[p] EXCEPT !.sure = FALSE]
  BY DEF Unsure
<1>3. \A p \in Pull : [mrPull[p] EXCEPT !.sure = FALSE] \in PullType
  BY <1>1 DEF PullType
<1>4. mrPull' \in [Pull -> PullType]
  BY <1>3 DEF Unsure
<1>. QED BY <1>1, <1>2, <1>4 DEF PullType

\* The janitor and the outages.
LEMMA JanitorActions ==
    ASSUME MirrorInv, EvictTags \/ EvictRow \/ EvictCheck \/ EvictBytes \/ Outage
    PROVE  MirrorInv'
<1>1. UNCHANGED <<mrNow, mrNames, mrLast>>
  BY DEF EvictTags, EvictRow, EvictCheck, EvictBytes, Outage
<1>2. /\ mrRow' \subseteq Digest /\ mrFile' \subseteq Digest /\ mrDown' \in BOOLEAN
      /\ mrEvict' \in [digest : Digest \cup {NoDigest}, at : {"idle", "row", "check", "bytes"}]
  <2>1. mrRow' \subseteq Digest /\ mrFile' \subseteq Digest
    BY DEF MirrorInv, MirrorTypes, EvictTags, EvictRow, EvictCheck, EvictBytes, Outage
  <2>2. mrDown' = mrDown \/ mrDown' = ~mrDown
    BY Zenon DEF EvictTags, EvictRow, EvictCheck, EvictBytes, Outage
  <2>3. mrDown' \in BOOLEAN
    BY <2>2, Zenon DEF MirrorInv, MirrorTypes
  <2>4. mrEvict' \in [digest : Digest \cup {NoDigest}, at : {"idle", "row", "check", "bytes"}]
    BY DEF MirrorInv, MirrorTypes, EvictTags, EvictRow, EvictCheck, EvictBytes, Outage
  <2>. QED BY <2>1, <2>3, <2>4
<1>3. mrTag' = mrTag \/ mrTag' = [digest |-> NoDigest, checked |-> 0]
  BY DEF EvictTags, EvictRow, EvictCheck, EvictBytes, Outage, ForgetTags
<1>4. TagOK' /\ mrTag' \in [digest : Digest \cup {NoDigest}, checked : 0..MaxMirrorTime]
  BY <1>1, <1>3, MirrorTimes DEF MirrorInv, MirrorTypes, TagOK
<1>5. /\ mrPull' \in [Pull -> PullType]
      /\ \A p \in Pull : /\ mrPull'[p].at = mrPull[p].at /\ mrPull'[p].digest = mrPull[p].digest
                         /\ mrPull'[p].since = mrPull[p].since
  <2>1. CASE EvictTags \/ Outage
    BY <2>1, UnsureFacts DEF EvictTags, Outage
  <2>2. CASE EvictRow \/ EvictCheck \/ EvictBytes
    BY <2>2 DEF EvictRow, EvictCheck, EvictBytes, MirrorInv, MirrorTypes
  <2>. QED BY <2>1, <2>2
<1>6. \A p \in Pull : ~mrPull'[p].sure
  <2>1. CASE EvictTags \/ Outage
    BY <2>1, UnsureFacts DEF EvictTags, Outage
  <2>2. CASE EvictRow \/ EvictCheck \/ EvictBytes
    BY <2>2 DEF EvictRow, EvictCheck, EvictBytes, MirrorInv, SureOK
  <2>. QED BY <2>1, <2>2
<1>7. MirrorTypes'
  BY <1>1, <1>2, <1>4, <1>5 DEF MirrorInv, MirrorTypes
<1>8. NamingsOK'
  BY <1>1 DEF MirrorInv, NamingsOK
<1>9. LookupsOK'
  BY <1>1, <1>5 DEF MirrorInv, LookupsOK, NamedSince
<1>10. SureOK'
  BY <1>6 DEF SureOK
<1>. QED BY <1>4, <1>7, <1>8, <1>9, <1>10 DEF MirrorInv

\* The empty mirror.
LEMMA MirrorInvInit == MirrorInit => MirrorInv
<1>. SUFFICES ASSUME MirrorInit PROVE MirrorInv
  OBVIOUS
<1>1. NoPull \in PullType /\ NoPull.at = "new" /\ ~NoPull.sure
  BY MirrorTimes DEF NoPull, PullType, PullStage
<1>2. mrDown \in BOOLEAN
  BY Zenon DEF MirrorInit
<1>3. MirrorTypes
  BY <1>1, <1>2, MirrorTimes DEF MirrorInit, MirrorTypes
<1>4. NamingsOK /\ TagOK
  BY DEF MirrorInit, NamingsOK, TagOK
<1>5. LookupsOK /\ SureOK
  BY <1>1 DEF MirrorInit, LookupsOK, SureOK, Serving
<1>. QED BY <1>3, <1>4, <1>5 DEF MirrorInv

\* The invariant holds of every behaviour.
LEMMA MirrorInvHolds == MirrorSpec => []MirrorInv
<1>1. MirrorInv /\ [MirrorNext]_mrVars => MirrorInv'
  <2>. SUFFICES ASSUME MirrorInv, [MirrorNext]_mrVars PROVE MirrorInv'
    OBVIOUS
  <2>1. CASE MirrorNext
    BY <2>1, PullActions, UpstreamActions, JanitorActions DEF MirrorNext
  <2>2. CASE UNCHANGED mrVars
    BY <2>2 DEF mrVars, MirrorInv, MirrorTypes, NamingsOK, LookupsOK, NamedSince, TagOK, SureOK
  <2>. QED BY <2>1, <2>2
<1>. QED BY <1>1, MirrorInvInit, PTL DEF MirrorSpec

\* A tag answered from its row was named by the upstream no longer ago than the
\* age of the row and one lookup, also when it moved between a HEAD and its write.
THEOREM MirrorTagsAreRecent == MirrorSpec => []TagsAreRecent
<1>1. MirrorInv => TagsAreRecent
  BY DEF MirrorInv, MirrorTypes, PullType, PullStage, TagOK, TagsAreRecent, MirrorTypeOK
<1>. QED BY <1>1, MirrorInvHolds, PTL

\* An outage of the upstream fails no pull of a tag the mirror holds.
THEOREM MirrorOutlivesUpstream == MirrorSpec => []OutageServesHeld
<1>1. MirrorInv => OutageServesHeld
  BY DEF MirrorInv, SureOK, OutageServesHeld
<1>. QED BY <1>1, MirrorInvHolds, PTL

(***************************************************************************)
(* The blob directory                                                      *)
(***************************************************************************)

WholeFile == [enc : Encoding, blocks : {BlobSize}]
PutCall   == [at : {"copy", "pack", "rename"}, body : BlobBody, enc : Encoding,
              read : 0..BlobSize, packed : 0..BlobSize]

\* A call that is to rename has read, and for zstd packed, all of its body:
\* a name of the directory only ever gets a whole file.
CallOK(j) ==
    \/ j = NoPutCall
    \/ /\ j \in PutCall
       /\ j.at = "copy" => j.packed = 0
       /\ j.at \in {"pack", "rename"} => j.read = BlobSize
       /\ j.at = "pack" => j.packed < BlobSize
       /\ j.at = "rename" /\ j.enc = "zstd" => j.packed = BlobSize

\* A key that was returned as stored has a file, and every file is whole.
FilesInv ==
    /\ bfFile \in [BlobBody -> WholeFile \cup {NoBlob}]
    /\ bfTemp \subseteq [put : BlobPut, enc : Encoding, at : 0..MaxBlobTime]
    /\ DOMAIN bfPut = BlobPut /\ \A p \in BlobPut : CallOK(bfPut[p])
    /\ bfNow \in 0..MaxBlobTime
    /\ bfStored \subseteq BlobBody
    /\ \A c \in bfStored : bfFile[c] # NoBlob

\* The calls stay well formed when the one that moves does.
LEMMA PutGoFacts ==
    ASSUME FilesInv, NEW p \in BlobPut, NEW j, CallOK(j), PutGo(p, j)
    PROVE  DOMAIN bfPut' = BlobPut /\ \A q \in BlobPut : CallOK(bfPut'[q])
<1>1. bfPut' = [bfPut EXCEPT ![p] = j]
  BY DEF PutGo
<1>2. \A q \in BlobPut : bfPut'[q] = IF q = p THEN j ELSE bfPut[q]
  BY <1>1 DEF FilesInv
<1>. QED BY <1>1, <1>2 DEF FilesInv

\* Temporary files stay well formed.
LEMMA TempFacts ==
    ASSUME FilesInv, NEW p \in BlobPut, NEW e \in Encoding
    PROVE  /\ WithTemp(p, e) \subseteq [put : BlobPut, enc : Encoding, at : 0..MaxBlobTime]
           /\ bfTemp \ TempOf(p) \subseteq [put : BlobPut, enc : Encoding, at : 0..MaxBlobTime]
BY DEF FilesInv, WithTemp

\* Every step of a call keeps the directory whole.
LEMMA PutActions ==
    ASSUME FilesInv, NEW p \in BlobPut, CreateTemp(p) \/ PutStep(p) \/ PutFails(p)
    PROVE  FilesInv'
<1>. DEFINE j == bfPut[p]
<1>. USE BlobFileBounds
<1>1. CallOK(j) /\ CallOK(NoPutCall) /\ NoPutCall.at = "idle" /\ "raw" \in Encoding /\ "zstd" \in Encoding
  BY DEF FilesInv, CallOK, NoPutCall, Encoding
<1>2. CASE CreateTemp(p)
  <2>1. PICK c \in BlobBody, e \in Encoding :
            PutGo(p, [at |-> "copy", body |-> c, enc |-> e, read |-> 0, packed |-> 0])
    BY <1>2 DEF CreateTemp
  <2>2. CallOK([at |-> "copy", body |-> c, enc |-> e, read |-> 0, packed |-> 0])
    BY DEF CallOK, PutCall
  <2>3. DOMAIN bfPut' = BlobPut /\ \A q \in BlobPut : CallOK(bfPut'[q])
    BY <2>1, <2>2, PutGoFacts
  <2>. QED BY <1>1, <1>2, <2>3, TempFacts DEF CreateTemp, FilesInv
<1>3. CASE CopyBlock(p)
  <2>1. j.at = "copy" /\ j.read < BlobSize /\ j \in PutCall /\ PutGo(p, [j EXCEPT !.read = @ + 1])
    BY <1>1, <1>3 DEF CopyBlock, CallOK
  <2>2. CallOK([j EXCEPT !.read = @ + 1])
    <3>. DEFINE n == j.read + 1
    <3>1. n \in 0..BlobSize /\ j.packed = 0
      BY <1>1, <2>1 DEF CallOK, PutCall, NoPutCall
    <3>. HIDE DEF j, n
    <3>2. [j EXCEPT !.read = n] \in PutCall /\ [j EXCEPT !.read = n].at = "copy"
          /\ [j EXCEPT !.read = n].packed = 0
      BY <2>1, <3>1 DEF PutCall
    <3>. QED BY <3>2 DEF CallOK, n
  <2>3. DOMAIN bfPut' = BlobPut /\ \A q \in BlobPut : CallOK(bfPut'[q])
    BY <2>1, <2>2, PutGoFacts
  <2>. QED BY <1>1, <1>3, <2>3, TempFacts DEF CopyBlock, FilesInv
<1>4. CASE StatBlob(p)
  <2>1. j.at = "copy" /\ j.read = BlobSize /\ j \in PutCall /\ UNCHANGED <<bfFile, bfNow>>
    BY <1>1, <1>4 DEF StatBlob, CallOK
  <2>2. CASE bfFile[j.body] # NoBlob
    <3>1. /\ PutGo(p, NoPutCall) /\ bfTemp' = bfTemp \ TempOf(p) /\ bfStored' = bfStored \cup {j.body}
      BY <1>4, <2>2 DEF StatBlob
    <3>2. DOMAIN bfPut' = BlobPut /\ \A q \in BlobPut : CallOK(bfPut'[q])
      BY <1>1, <3>1, PutGoFacts
    <3>3. j.body \in BlobBody
      BY <2>1 DEF PutCall
    <3>. QED BY <1>1, <2>1, <2>2, <3>1, <3>2, <3>3, TempFacts DEF FilesInv
  <2>3. CASE bfFile[j.body] = NoBlob
    <3>. DEFINE k == [j EXCEPT !.at = IF j.enc = "raw" THEN "rename" ELSE "pack"]
    <3>1. /\ PutGo(p, k) /\ bfTemp' = (IF j.enc = "raw" THEN bfTemp ELSE WithTemp(p, "zstd"))
          /\ bfStored' = bfStored
      BY <1>4, <2>3 DEF StatBlob
    <3>2. /\ k \in PutCall /\ k.read = BlobSize /\ k.packed = 0 /\ k.enc = j.enc
          /\ k.at = (IF j.enc = "raw" THEN "rename" ELSE "pack")
      BY <1>1, <2>1 DEF CallOK, PutCall, NoPutCall
    <3>3. CallOK(k)
      BY <3>2 DEF CallOK
    <3>4. DOMAIN bfPut' = BlobPut /\ \A q \in BlobPut : CallOK(bfPut'[q])
      BY <3>1, <3>3, PutGoFacts
    <3>. QED BY <1>1, <2>1, <3>1, <3>4, TempFacts DEF FilesInv
  <2>. QED BY <2>2, <2>3
<1>5. CASE PackBlock(p)
  <2>. DEFINE k == [j EXCEPT !.packed = @ + 1, !.at = IF j.packed + 1 = BlobSize THEN "rename" ELSE "pack"]
  <2>1. j.at = "pack" /\ j \in PutCall /\ j.read = BlobSize /\ j.packed < BlobSize /\ PutGo(p, k)
    BY <1>1, <1>5 DEF PackBlock, CallOK
  <2>2. CallOK(k)
    <3>1. /\ k \in PutCall /\ k.read = BlobSize /\ k.packed = j.packed + 1 /\ k.packed <= BlobSize
          /\ k.at = (IF k.packed = BlobSize THEN "rename" ELSE "pack")
      <4>. DEFINE n == j.packed + 1
                  a == IF n = BlobSize THEN "rename" ELSE "pack"
      <4>1. n \in 0..BlobSize /\ a \in {"copy", "pack", "rename"} /\ k = [j EXCEPT !.packed = n, !.at = a]
        BY <2>1 DEF PutCall
      <4>. HIDE DEF a, n, k, j
      <4>2. k \in PutCall /\ k.at = a /\ k.packed = n /\ k.read = j.read
        BY <2>1, <4>1 DEF PutCall
      <4>. QED BY <2>1, <4>1, <4>2 DEF a, n
    <3>. HIDE DEF k
    <3>2. k.packed \in Nat
      BY <3>1 DEF PutCall
    <3>. QED BY <3>1, <3>2 DEF CallOK
  <2>3. DOMAIN bfPut' = BlobPut /\ \A q \in BlobPut : CallOK(bfPut'[q])
    BY <2>1, <2>2, PutGoFacts
  <2>. QED BY <1>1, <1>5, <2>3, TempFacts DEF PackBlock, FilesInv
<1>6. CASE RenameBlob(p)
  <2>. DEFINE there == \E t \in TempOf(p) : t.enc = j.enc
              whole == [enc |-> j.enc, blocks |-> IF j.enc = "raw" THEN j.read ELSE j.packed]
  <2>1. /\ j.at = "rename" /\ PutGo(p, NoPutCall) /\ bfTemp' = bfTemp \ TempOf(p) /\ bfNow' = bfNow
        /\ bfFile' = (IF there THEN [bfFile EXCEPT ![j.body] = whole] ELSE bfFile)
        /\ bfStored' = (IF there THEN bfStored \cup {j.body} ELSE bfStored)
    BY <1>6 DEF RenameBlob
  <2>2. j \in PutCall /\ j.read = BlobSize /\ (j.enc = "zstd" => j.packed = BlobSize)
    BY <1>1, <2>1 DEF CallOK
  <2>3. j.body \in BlobBody /\ whole \in WholeFile /\ whole # NoBlob
    BY <2>2, NoBlobAssumption DEF PutCall, WholeFile, Encoding
  <2>4. DOMAIN bfPut' = BlobPut /\ \A q \in BlobPut : CallOK(bfPut'[q])
    BY <1>1, <2>1, PutGoFacts
  <2>5. bfTemp' \subseteq [put : BlobPut, enc : Encoding, at : 0..MaxBlobTime]
    BY <1>1, <2>1, TempFacts
  <2>. HIDE DEF whole, there
  <2>6. bfFile' \in [BlobBody -> WholeFile \cup {NoBlob}] /\ \A c \in bfStored' : bfFile'[c] # NoBlob
    BY <2>1, <2>3 DEF FilesInv
  <2>. QED BY <2>1, <2>3, <2>4, <2>5, <2>6 DEF FilesInv
<1>7. CASE PutFails(p)
  <2>1. DOMAIN bfPut' = BlobPut /\ \A q \in BlobPut : CallOK(bfPut'[q])
    BY <1>1, <1>7, PutGoFacts DEF PutFails
  <2>. QED BY <1>1, <1>7, <2>1, TempFacts DEF PutFails, FilesInv
<1>. QED BY <1>2, <1>3, <1>4, <1>5, <1>6, <1>7 DEF PutStep

\* The invariant holds of every behaviour.
LEMMA FilesInvHolds == BlobFilesSpec => []FilesInv
<1>1. BlobFilesInit => FilesInv
  BY BlobFileBounds DEF BlobFilesInit, FilesInv, CallOK
<1>2. FilesInv /\ [BlobFilesNext]_bfVars => FilesInv'
  <2>. SUFFICES ASSUME FilesInv, [BlobFilesNext]_bfVars PROVE FilesInv'
    OBVIOUS
  <2>1. CASE DeleteBlob
    BY <2>1 DEF DeleteBlob, FilesInv
  <2>2. CASE Killed
    BY <2>2 DEF Killed, FilesInv, CallOK
  <2>3. CASE SweepTemp
    BY <2>3 DEF SweepTemp, FilesInv
  <2>4. CASE BlobTick
    BY <2>4, BlobFileBounds DEF BlobTick, FilesInv
  <2>5. CASE UNCHANGED bfVars
    BY <2>5 DEF bfVars, FilesInv
  <2>. QED BY <2>1, <2>2, <2>3, <2>4, <2>5, PutActions DEF BlobFilesNext
<1>. QED BY <1>1, <1>2, PTL DEF BlobFilesSpec

\* A key that a Put returned reads as all of its content until it is deleted,
\* whatever other puts, kills and sweeps did meanwhile.
THEOREM BlobsStayReadable == BlobFilesSpec => []StoredBlobsRead
<1>1. ASSUME FilesInv PROVE BlobFilesTypeOK
  BY <1>1, BlobFileBounds DEF FilesInv, BlobFilesTypeOK, WholeFile, CallOK, PutCall, NoPutCall
<1>2. ASSUME FilesInv, NEW c \in BlobBody, bfFile[c] # NoBlob PROVE Readable(c)
  BY <1>2 DEF FilesInv, WholeFile, Readable
<1>3. FilesInv => StoredBlobsRead
  BY <1>1, <1>2 DEF StoredBlobsRead, FilesInv
<1>. QED BY <1>3, FilesInvHolds, PTL

(***************************************************************************)
(* The Go module proxy                                                     *)
(***************************************************************************)

\* A set of versions has a highest one.
LEMMA HighestVersion ==
    ASSUME NEW S, S \subseteq GoVersion, S # {}
    PROVE  Max(S) \in S
<1>1. PICK n \in GoVersion : \A v \in GoVersion : v <= n
  BY GoVersions
<1>. DEFINE T == {m \in Nat : n - m \in S}
<1>2. n \in Nat /\ \A s \in S : s \in Nat /\ n - s \in Nat /\ n - (n - s) = s
  BY <1>1, GoVersions
<1>3. T # {}
  BY <1>2
<1>4. PICK x \in T : \A y \in T : ~(<<y, x>> \in OpToRel(<, Nat))
  <2>. HIDE DEF T
  <2>1. T \subseteq Nat
    BY DEF T
  <2>. QED BY <1>3, <2>1, NatLessThanWellFounded, WFMin
<1>5. \A y \in T : ~(y < x)
  BY <1>4 DEF OpToRel
<1>6. n - x \in S /\ \A t \in S : n - x >= t
  <2>1. ASSUME NEW t \in S PROVE n - x >= t
    <3>1. t \in Nat /\ n - t \in Nat /\ n - t \in T
      BY <1>2
    <3>2. ~(n - t < x)
      BY <1>5, <3>1
    <3>. QED BY <1>2, <3>1, <3>2
  <2>. QED BY <2>1
<1>. QED BY <1>6 DEF Max

GoStage == {"new", "join", "recheck", "resolve", "build", "put", "close",
          "delete", "wait", "latest", "answer", "done"}
GoRequest == [at : GoStage, mod : GoModule, ver : GoVersion \cup {0}, ep : Endpoint,
              out : GoRecord \cup {GoNone}, err : ErrorKind \cup {"none"},
              on : GoReq \cup {GoNone}, reply : {"none", "ok", "error", "panic"}]

Leading == {"recheck", "resolve", "build", "put", "close"}

\* The step moves one request.
OneRequest(r) == goReq' \in [GoReq -> GoRequest] /\ \A q \in GoReq \ {r} : goReq'[q] = goReq[q]

\* Moved sets the fields it is given, to values of their types, and keeps the others.
LEMMA MovedFields ==
    ASSUME goReq \in [GoReq -> GoRequest], NEW r \in GoReq, NEW e, Moved(r, e),
           "at" \in DOMAIN e /\ e.at \in GoStage,
           "mod" \in DOMAIN e => e.mod \in GoModule,
           "ver" \in DOMAIN e => e.ver \in GoVersion \cup {0},
           "ep" \in DOMAIN e => e.ep \in Endpoint,
           "out" \in DOMAIN e => e.out \in GoRecord \cup {GoNone},
           "err" \in DOMAIN e => e.err \in ErrorKind \cup {"none"},
           "on" \in DOMAIN e => e.on \in GoReq \cup {GoNone},
           "reply" \notin DOMAIN e
    PROVE  /\ OneRequest(r) /\ goReq'[r].at = e.at
           /\ goReq'[r].mod = IF "mod" \in DOMAIN e THEN e.mod ELSE goReq[r].mod
           /\ goReq'[r].ver = IF "ver" \in DOMAIN e THEN e.ver ELSE goReq[r].ver
           /\ goReq'[r].ep  = IF "ep" \in DOMAIN e THEN e.ep ELSE goReq[r].ep
           /\ goReq'[r].out = IF "out" \in DOMAIN e THEN e.out ELSE goReq[r].out
           /\ goReq'[r].err = IF "err" \in DOMAIN e THEN e.err ELSE goReq[r].err
           /\ goReq'[r].on  = IF "on" \in DOMAIN e THEN e.on ELSE goReq[r].on
<1>. DEFINE D == {"at", "mod", "ver", "ep", "out", "err", "on", "reply"}
<1>1. goReq[r] \in GoRequest /\ DOMAIN goReq[r] = D
  BY DEF GoRequest
<1>2. /\ goReq'[r] = [f \in D |-> IF f \in DOMAIN e THEN e[f] ELSE goReq[r][f]]
      /\ \A q \in GoReq \ {r} : goReq'[q] = goReq[q]
      /\ goReq' = [q \in GoReq |-> goReq'[q]]
  BY <1>1 DEF Moved
<1>3. goReq'[r] \in GoRequest
  BY <1>1, <1>2 DEF GoRequest
<1>. QED BY <1>1, <1>2, <1>3 DEF OneRequest

Untouched(v) == v \notin Range(goMoved)

GoTypes ==
    /\ goTag \in [GoVersion -> GoCommit \cup {GoNone}]
    /\ goRow \in [GoKey -> GoRecord \cup {GoNone}]
    /\ goDone \subseteq GoReq
    /\ goReq \in [GoReq -> GoRequest]
    /\ goFailing \subseteq GoModule
    /\ goMoved \in Seq(GoVersion)

\* What a fetch under way carries: the resolution, then the zip of its commit,
\* and that is the commit the version names as long as nobody moved its tag.
CarriedOK(q) ==
    /\ q.at \in {"build", "put"} => q.out \in GoRecord
    /\ q.at = "build" => q.out.zip = GoNone
    /\ q.at = "put" => q.out.zip \in {GoNone, q.out.commit}
    /\ q.at \in {"build", "put"} /\ q.mod = "private" /\ Untouched(q.ver)
         => q.out.commit = CommitOf("private", q.ver)

\* A row is of the commit an untouched version names, and so is its zip.
RowOK(v) ==
    LET row == goRow[<<"private", v>>]
    IN  row # GoNone /\ Untouched(v)
        => row.commit = CommitOf("private", v) /\ row.zip \in {GoNone, row.commit}

\* A key is led by a request of that key, a leader past the close has closed,
\* and a waiter waits for a closed flight or a led one.
LedOK(k) ==
    /\ goFlight[k] \in GoReq /\ KeyOf(goReq[goFlight[k]]) = k
    /\ goReq[goFlight[k]].at \in Leading \cup {"delete"}
WaitOK(r) ==
    /\ goReq[r].at = "delete" => r \in goDone
    /\ goReq[r].at = "wait" =>
         goReq[r].on \in GoReq /\ (goReq[r].on \in goDone \/ goReq[goReq[r].on].at \in Leading)

FlightsOK == (\A k \in DOMAIN goFlight : LedOK(k)) /\ (\A r \in GoReq : WaitOK(r))
CommitsOK == (\A r \in GoReq : CarriedOK(goReq[r])) /\ (\A v \in GoVersion \cup {0} : RowOK(v))

GoInv == GoTypes /\ FlightsOK /\ CommitsOK

\* The typed facts of a request.
LEMMA RequestFacts ==
    ASSUME GoInv, NEW r \in GoReq
    PROVE  /\ goReq \in [GoReq -> GoRequest] /\ goReq[r].at \in GoStage /\ goReq[r].mod \in GoModule
           /\ goReq[r].ver \in GoVersion \cup {0} /\ goReq[r].ep \in Endpoint
           /\ goReq[r].out \in GoRecord \cup {GoNone} /\ goReq[r].err \in ErrorKind \cup {"none"}
           /\ goReq[r].on \in GoReq \cup {GoNone}
           /\ goRow[<<goReq[r].mod, goReq[r].ver>>] \in GoRecord \cup {GoNone}
BY DEF GoInv, GoTypes, GoRequest, GoKey

\* The errors of the sources.
LEMMA SourceErrorKinds ==
    ASSUME NEW m \in GoModule PROVE SourceErrors(m) \subseteq ErrorKind
BY DEF SourceErrors, Classify, ClassifyUpstream, ErrorKind

\* A step of one request keeps the flights, if it stays a leader of its key
\* until it has closed.
LEMMA FlightStep ==
    ASSUME GoInv, NEW r \in GoReq, OneRequest(r), UNCHANGED goFlight, goDone \subseteq goDone',
           goReq[r].at \in Leading \cup {"delete"} =>
              /\ goReq'[r].at \in Leading \cup {"delete"}
              /\ goReq'[r].mod = goReq[r].mod /\ goReq'[r].ver = goReq[r].ver /\ goReq'[r].ep = goReq[r].ep,
           goReq[r].at \in Leading => goReq'[r].at \in Leading \/ r \in goDone',
           goReq'[r].at = "delete" => r \in goDone',
           goReq'[r].at # "wait"
    PROVE  FlightsOK'
<1>1. ASSUME NEW k \in DOMAIN goFlight PROVE LedOK(k)'
  BY DEF GoInv, FlightsOK, LedOK, KeyOf, OneRequest
<1>2. ASSUME NEW q \in GoReq PROVE WaitOK(q)'
  <2>1. WaitOK(q)
    BY DEF GoInv, FlightsOK
  <2>2. CASE q = r
    BY <2>2 DEF WaitOK
  <2>3. CASE q # r
    BY <2>1, <2>3 DEF WaitOK, OneRequest
  <2>. QED BY <2>2, <2>3
<1>. QED BY <1>1, <1>2 DEF FlightsOK

\* A step of one request that leaves the rows and the tags keeps the commits.
LEMMA CarriedStep ==
    ASSUME GoInv, NEW r \in GoReq, OneRequest(r), UNCHANGED <<goTag, goRow, goMoved>>,
           CarriedOK(goReq[r])'
    PROVE  CommitsOK'
<1>1. ASSUME NEW q \in GoReq PROVE CarriedOK(goReq[q])'
  BY DEF GoInv, CommitsOK, CarriedOK, OneRequest, Untouched, CommitOf
<1>2. ASSUME NEW v \in GoVersion \cup {0} PROVE RowOK(v)'
  BY DEF GoInv, CommitsOK, RowOK, Untouched, CommitOf
<1>. QED BY <1>1, <1>2 DEF CommitsOK

\* The steps of a request before and beside its flight.
LEMMA OutsideActions ==
    ASSUME GoInv, NEW r \in GoReq, Serve(r) \/ Wake(r) \/ Answer(r)
    PROVE  GoInv'
<1>1. goReq \in [GoReq -> GoRequest]
  BY RequestFacts
<1>2. UNCHANGED <<goTag, goRow, goFlight, goDone, goFailing, goMoved>>
  BY DEF Serve, Wake, Answer
<1>3. /\ OneRequest(r) /\ goReq[r].at \in {"new", "wait", "answer"}
      /\ goReq'[r].at \in {"join", "latest", "answer", "done"}
  <2>1. CASE Serve(r)
    <3>1. PICK m \in GoModule, e \in Endpoint, allowed \in BOOLEAN,
               v \in GoVersion \cup {0}, a \in {"join", "latest", "answer"},
               o \in GoRecord \cup {GoNone}, x \in {"none", "inaccessible"} :
            Moved(r, [at |-> a, mod |-> m, ver |-> v, ep |-> e, out |-> o, err |-> x])
      <4>1. PICK m \in GoModule, e \in Endpoint, allowed \in BOOLEAN :
              \E v \in IF e = "latest" \/ m = "public" THEN {0} ELSE GoVersion \cup {0} :
              LET row == goRow[<<m, v>>]
                  To(at, out, err) == Moved(r, [at |-> at, mod |-> m, ver |-> v, ep |-> e,
                                                out |-> out, err |-> err])
              IN  IF m = "private" /\ ~allowed THEN To("answer", GoNone, "inaccessible")
                  ELSE IF e = "latest" THEN To("latest", GoNone, "none")
                  ELSE IF Hit(row, e) THEN To("answer", row, "none")
                  ELSE To("join", GoNone, "none")
        BY <2>1, Zenon DEF Serve
      <4>2. PICK v \in GoVersion \cup {0} :
              LET row == goRow[<<m, v>>]
                  To(at, out, err) == Moved(r, [at |-> at, mod |-> m, ver |-> v, ep |-> e,
                                                out |-> out, err |-> err])
              IN  IF m = "private" /\ ~allowed THEN To("answer", GoNone, "inaccessible")
                  ELSE IF e = "latest" THEN To("latest", GoNone, "none")
                  ELSE IF Hit(row, e) THEN To("answer", row, "none")
                  ELSE To("join", GoNone, "none")
        BY <4>1, Zenon
      <4>3. goRow[<<m, v>>] \in GoRecord \cup {GoNone}
        BY DEF GoInv, GoTypes, GoKey
      <4>4. CASE m = "private" /\ ~allowed
        BY <4>2, <4>4
      <4>5. CASE ~(m = "private" /\ ~allowed) /\ e = "latest"
        BY <4>2, <4>5
      <4>6. CASE ~(m = "private" /\ ~allowed) /\ e # "latest" /\ Hit(goRow[<<m, v>>], e)
        BY <4>2, <4>3, <4>6
      <4>7. CASE ~(m = "private" /\ ~allowed) /\ e # "latest" /\ ~Hit(goRow[<<m, v>>], e)
        BY <4>2, <4>7
      <4>. QED BY <4>4, <4>5, <4>6, <4>7
    <3>. DEFINE n == [at |-> a, mod |-> m, ver |-> v, ep |-> e, out |-> o, err |-> x]
    <3>2. /\ DOMAIN n = {"at", "mod", "ver", "ep", "out", "err"}
          /\ n.at = a /\ n.mod = m /\ n.ver = v /\ n.ep = e /\ n.out = o /\ n.err = x
      OBVIOUS
    <3>3. a \in GoStage /\ x \in ErrorKind \cup {"none"}
      BY DEF GoStage, ErrorKind
    <3>4. Moved(r, n)
      BY <3>1
    <3>. HIDE DEF n
    <3>5. OneRequest(r) /\ goReq'[r].at = a
      BY <1>1, <3>2, <3>3, <3>4, MovedFields
    <3>. QED BY <2>1, <3>5 DEF Serve
  <2>2. CASE Wake(r)
    <3>. DEFINE n == [at |-> "answer", err |-> goReq[goReq[r].on].err]
    <3>1. goReq[r].on \in GoReq
      BY <2>2 DEF Wake, GoInv, GoTypes
    <3>2. /\ DOMAIN n = {"at", "err"} /\ n.at = "answer" /\ n.err \in ErrorKind \cup {"none"}
      BY <1>1, <3>1, RequestFacts
    <3>3. Moved(r, n) /\ "answer" \in GoStage
      BY <2>2 DEF Wake, GoStage
    <3>. HIDE DEF n
    <3>4. OneRequest(r) /\ goReq'[r].at = "answer"
      BY <1>1, <3>2, <3>3, MovedFields
    <3>. QED BY <2>2, <3>4 DEF Wake
  <2>3. CASE Answer(r)
    <3>1. PICK reply \in {"ok", "error", "panic"} : Finished(r, reply)
      BY <2>3 DEF Answer
    <3>. DEFINE x == IF r \in goDone THEN goReq[r].err ELSE "none"
                n == [NewRequest EXCEPT !.at = "done", !.reply = reply, !.err = x]
    <3>2. goReq' = [goReq EXCEPT ![r] = n]
      BY <3>1 DEF Finished
    <3>3. x \in ErrorKind \cup {"none"}
      BY RequestFacts
    <3>. HIDE DEF x
    <3>4. n \in GoRequest /\ n.at = "done"
      BY <3>3 DEF NewRequest, GoRequest, GoStage, GoModule, Endpoint
    <3>. HIDE DEF n
    <3>. QED BY <1>1, <2>3, <3>2, <3>4 DEF OneRequest, Answer
  <2>. QED BY <2>1, <2>2, <2>3
<1>4. GoTypes'
  BY <1>2, <1>3 DEF GoInv, GoTypes, OneRequest
<1>5. FlightsOK'
  BY <1>2, <1>3, FlightStep DEF Leading
<1>6. CommitsOK'
  <2>1. CarriedOK(goReq[r])'
    BY <1>3 DEF CarriedOK
  <2>. QED BY <1>2, <1>3, <2>1, CarriedStep
<1>. QED BY <1>4, <1>5, <1>6 DEF GoInv

\* Joining a flight or leading one.
LEMMA JoinAction ==
    ASSUME GoInv, NEW r \in GoReq, Join(r)
    PROVE  GoInv'
<1>. DEFINE k == KeyOf(goReq[r])
<1>1. goReq \in [GoReq -> GoRequest] /\ goReq[r].at = "join"
  BY RequestFacts DEF Join
<1>2. UNCHANGED <<goTag, goRow, goDone, goFailing, goMoved>>
  BY DEF Join
<1>3. CASE k \in DOMAIN goFlight
  <2>. DEFINE n == [at |-> "wait", on |-> goFlight[k]]
  <2>1. LedOK(k) /\ UNCHANGED goFlight /\ Moved(r, n)
    BY <1>3 DEF GoInv, FlightsOK, Join
  <2>2. DOMAIN n = {"at", "on"} /\ n.at = "wait" /\ n.on = goFlight[k] /\ goFlight[k] \in GoReq /\ "wait" \in GoStage
    BY <2>1 DEF LedOK, GoStage
  <2>. HIDE DEF n, k
  <2>3. OneRequest(r) /\ goReq'[r].at = "wait" /\ goReq'[r].on = goFlight[k]
    BY <1>1, <2>1, <2>2, MovedFields
  <2>4. GoTypes'
    BY <1>2, <2>1, <2>3 DEF GoInv, GoTypes, OneRequest
  <2>5. ASSUME NEW j \in DOMAIN goFlight PROVE LedOK(j)'
    BY <1>1, <2>1, <2>3 DEF GoInv, FlightsOK, LedOK, KeyOf, OneRequest, Leading
  <2>6. ASSUME NEW q \in GoReq PROVE WaitOK(q)'
    <3>1. WaitOK(q) /\ WaitOK(goFlight[k])
      BY <2>2 DEF GoInv, FlightsOK
    <3>2. goFlight[k] # r /\ (goFlight[k] \in goDone \/ goReq[goFlight[k]].at \in Leading)
      BY <1>1, <2>1, <3>1 DEF LedOK, WaitOK, Leading
    <3>3. CASE q = r
      BY <1>2, <2>2, <2>3, <3>2, <3>3 DEF WaitOK, OneRequest
    <3>4. CASE q # r
      BY <1>1, <1>2, <2>3, <3>1, <3>4 DEF WaitOK, OneRequest, Leading
    <3>. QED BY <3>3, <3>4
  <2>7. CommitsOK'
    <3>1. CarriedOK(goReq[r])'
      BY <2>3 DEF CarriedOK
    <3>. QED BY <1>2, <2>3, <3>1, CarriedStep
  <2>. QED BY <2>1, <2>4, <2>5, <2>6, <2>7 DEF GoInv, FlightsOK
<1>4. CASE k \notin DOMAIN goFlight
  <2>. DEFINE n == [at |-> "recheck"]
  <2>1. /\ Moved(r, n)
        /\ goFlight' = [x \in DOMAIN goFlight \cup {k} |-> IF x = k THEN r ELSE goFlight[x]]
    BY <1>4 DEF Join
  <2>2. DOMAIN n = {"at"} /\ n.at = "recheck" /\ "recheck" \in GoStage
    BY DEF GoStage
  <2>. HIDE DEF n
  <2>3. /\ OneRequest(r) /\ goReq'[r].at = "recheck" /\ goReq'[r].mod = goReq[r].mod
        /\ goReq'[r].ver = goReq[r].ver /\ goReq'[r].ep = goReq[r].ep
    BY <1>1, <2>1, <2>2, MovedFields
  <2>4. KeyOf(goReq[r])' = k
    BY <2>3 DEF KeyOf
  <2>. HIDE DEF k
  <2>5. GoTypes'
    BY <1>2, <2>1, <2>3 DEF GoInv, GoTypes, OneRequest
  <2>6. ASSUME NEW j \in DOMAIN goFlight' PROVE LedOK(j)'
    <3>1. CASE j = k
      BY <2>1, <2>3, <2>4, <3>1 DEF LedOK, Leading
    <3>2. CASE j # k
      <4>1. j \in DOMAIN goFlight /\ goFlight'[j] = goFlight[j] /\ LedOK(j)
        BY <2>1, <3>2 DEF GoInv, FlightsOK
      <4>2. goFlight[j] # r
        BY <1>1, <4>1 DEF LedOK, Leading
      <4>. QED BY <2>3, <4>1, <4>2 DEF LedOK, OneRequest, KeyOf
    <3>. QED BY <3>1, <3>2
  <2>7. ASSUME NEW q \in GoReq PROVE WaitOK(q)'
    <3>1. WaitOK(q)
      BY DEF GoInv, FlightsOK
    <3>. QED BY <1>1, <1>2, <2>3, <3>1 DEF WaitOK, OneRequest, Leading
  <2>8. CommitsOK'
    <3>1. CarriedOK(goReq[r])'
      BY <2>3 DEF CarriedOK
    <3>. QED BY <1>2, <2>3, <3>1, CarriedStep
  <2>. QED BY <2>5, <2>6, <2>7, <2>8 DEF GoInv, FlightsOK
<1>. QED BY <1>3, <1>4

\* A fetch that fails ends its flight with no record.
LEMMA FailedFetch ==
    ASSUME GoInv, NEW r \in GoReq, NEW kind \in ErrorKind, FetchFails(r, kind)
    PROVE  /\ OneRequest(r) /\ goReq'[r].at = "close" /\ goReq'[r].mod = goReq[r].mod
           /\ goReq'[r].ver = goReq[r].ver /\ goReq'[r].ep = goReq[r].ep
           /\ goFailing' \subseteq GoModule
<1>. DEFINE n == [at |-> "close", err |-> kind, out |-> GoNone]
<1>1. /\ DOMAIN n = {"at", "err", "out"} /\ n.at = "close" /\ n.err = kind /\ n.out = GoNone
      /\ "close" \in GoStage
  BY DEF GoStage
<1>2. Moved(r, n) /\ goFailing' = goFailing \cup {goReq[r].mod}
  BY DEF FetchFails
<1>. HIDE DEF n
<1>. QED BY <1>1, <1>2, RequestFacts, MovedFields DEF GoInv, GoTypes

\* A leader's steps up to the write: it goes on leading its key.
LEMMA FetchActions ==
    ASSUME GoInv, NEW r \in GoReq, Recheck(r) \/ Resolve(r) \/ Build(r)
    PROVE  GoInv'
<1>. DEFINE q == goReq[r]
            row == goRow[<<q.mod, q.ver>>]
            c == CommitOf(q.mod, q.ver)
<1>0. /\ goReq \in [GoReq -> GoRequest] /\ row \in GoRecord \cup {GoNone} /\ q.mod \in GoModule
      /\ q.ver \in GoVersion \cup {0} /\ q.at \in {"recheck", "resolve", "build"}
      /\ SourceErrors(q.mod) \subseteq ErrorKind
  BY RequestFacts, SourceErrorKinds DEF Recheck, Resolve, Build
<1>1. UNCHANGED <<goTag, goRow, goFlight, goDone, goMoved>>
  BY DEF Recheck, Resolve, Build
<1>2. /\ OneRequest(r) /\ goReq'[r].at \in Leading /\ goReq'[r].mod = q.mod
      /\ goReq'[r].ver = q.ver /\ goReq'[r].ep = q.ep
      /\ goFailing' \subseteq GoModule /\ CarriedOK(goReq[r])'
  <2>1. CASE Recheck(r) /\ Hit(row, q.ep)
    <3>. DEFINE n == [at |-> "close", out |-> row]
    <3>1. DOMAIN n = {"at", "out"} /\ n.at = "close" /\ n.out = row /\ "close" \in GoStage
      BY DEF GoStage
    <3>2. Moved(r, n) /\ goFailing' = goFailing
      BY <2>1 DEF Recheck
    <3>. HIDE DEF n, row
    <3>3. /\ OneRequest(r) /\ goReq'[r].at = "close" /\ goReq'[r].mod = q.mod
          /\ goReq'[r].ver = q.ver /\ goReq'[r].ep = q.ep
      BY <1>0, <3>1, <3>2, MovedFields
    <3>. QED BY <3>2, <3>3 DEF CarriedOK, Leading, GoInv, GoTypes
  <2>2. CASE Recheck(r) /\ ~Hit(row, q.ep)
    <3>. DEFINE n == [at |-> "resolve"]
    <3>1. DOMAIN n = {"at"} /\ n.at = "resolve" /\ "resolve" \in GoStage
      BY DEF GoStage
    <3>2. Moved(r, n) /\ goFailing' = goFailing
      BY <2>2 DEF Recheck
    <3>. HIDE DEF n
    <3>3. /\ OneRequest(r) /\ goReq'[r].at = "resolve" /\ goReq'[r].mod = q.mod
          /\ goReq'[r].ver = q.ver /\ goReq'[r].ep = q.ep
      BY <1>0, <3>1, <3>2, MovedFields
    <3>. QED BY <3>2, <3>3 DEF CarriedOK, Leading, GoInv, GoTypes
  <2>3. CASE \E kind \in ErrorKind : FetchFails(r, kind)
    <3>1. PICK kind \in ErrorKind : FetchFails(r, kind)
      BY <2>3
    <3>2. /\ OneRequest(r) /\ goReq'[r].at = "close" /\ goReq'[r].mod = goReq[r].mod
          /\ goReq'[r].ver = goReq[r].ver /\ goReq'[r].ep = goReq[r].ep
          /\ goFailing' \subseteq GoModule
      BY <3>1, FailedFetch
    <3>. QED BY <3>2 DEF CarriedOK, Leading
  <2>4. CASE /\ c # GoNone
             /\ Moved(r, [at |-> IF q.ep = "zip" THEN "build" ELSE "put", out |-> Cached(c, GoNone)])
             /\ UNCHANGED goFailing
    <3>. DEFINE a == IF q.ep = "zip" THEN "build" ELSE "put"
                o == Cached(c, GoNone)
                n == [at |-> a, out |-> o]
    <3>1. c \in GoCommit \cup {GoHead}
      BY <1>0, <2>4 DEF CommitOf, GoInv, GoTypes
    <3>2. o \in GoRecord /\ o.commit = c /\ o.zip = GoNone
      BY <3>1 DEF Cached, GoRecord
    <3>3. Moved(r, n) /\ a \in {"build", "put"} /\ a \in GoStage
      BY <2>4 DEF GoStage
    <3>. HIDE DEF a, o
    <3>4. DOMAIN n = {"at", "out"} /\ n.at = a /\ n.out = o
      OBVIOUS
    <3>. HIDE DEF n
    <3>5. /\ OneRequest(r) /\ goReq'[r].at = a /\ goReq'[r].mod = q.mod
          /\ goReq'[r].ver = q.ver /\ goReq'[r].ep = q.ep /\ goReq'[r].out = o
      BY <1>0, <3>2, <3>3, <3>4, MovedFields
    <3>6. CarriedOK(goReq[r])'
      BY <1>1, <3>2, <3>3, <3>5 DEF CarriedOK, CommitOf, Untouched
    <3>. QED BY <2>4, <3>3, <3>5, <3>6 DEF Leading, GoInv, GoTypes
  <2>5. CASE Build(r) /\ Moved(r, [at |-> "put", out |-> [q.out EXCEPT !.zip = q.out.commit]]) /\ UNCHANGED goFailing
    <3>. DEFINE o == [q.out EXCEPT !.zip = q.out.commit]
                n == [at |-> "put", out |-> o]
    <3>1. q.at = "build" /\ CarriedOK(q) /\ Moved(r, n) /\ "put" \in GoStage
      BY <2>5 DEF Build, GoInv, CommitsOK, GoStage
    <3>2. q.out \in GoRecord
      BY <3>1 DEF CarriedOK
    <3>. HIDE DEF q
    <3>3. o \in GoRecord /\ o.commit = q.out.commit /\ o.zip = q.out.commit
      BY <3>2 DEF GoRecord
    <3>. HIDE DEF o
    <3>4. DOMAIN n = {"at", "out"} /\ n.at = "put" /\ n.out = o
      OBVIOUS
    <3>. HIDE DEF n
    <3>5. /\ OneRequest(r) /\ goReq'[r].at = "put" /\ goReq'[r].mod = q.mod
          /\ goReq'[r].ver = q.ver /\ goReq'[r].ep = q.ep /\ goReq'[r].out = o
      BY <1>0, <3>1, <3>3, <3>4, MovedFields DEF q
    <3>6. CarriedOK(goReq[r])'
      BY <1>1, <3>1, <3>3, <3>5 DEF CarriedOK, CommitOf, Untouched
    <3>. QED BY <2>5, <3>5, <3>6 DEF Leading, GoInv, GoTypes
  <2>6. CASE Resolve(r)
    <3>1. "not_found" \in ErrorKind
      BY DEF ErrorKind
    <3>. QED BY <1>0, <2>3, <2>4, <2>6, <3>1 DEF Resolve
  <2>7. CASE Build(r)
    BY <1>0, <2>3, <2>5, <2>7 DEF Build
  <2>. QED BY <2>1, <2>2, <2>6, <2>7
<1>3. GoTypes'
  BY <1>1, <1>2 DEF GoInv, GoTypes, OneRequest
<1>4. FlightsOK'
  BY <1>1, <1>2, FlightStep DEF Leading
<1>5. CommitsOK'
  BY <1>1, <1>2, CarriedStep
<1>. QED BY <1>3, <1>4, <1>5 DEF GoInv

\* What the upsert leaves of a row: the new commit, and a zip if either has one.
LEMMA UpsertFacts ==
    ASSUME NEW old \in GoRecord \cup {GoNone}, NEW new \in GoRecord
    PROVE  /\ Upsert(old, new) \in GoRecord /\ Upsert(old, new).commit = new.commit
           /\ Upsert(old, new).zip = IF new.zip = GoNone /\ old # GoNone THEN old.zip ELSE new.zip
BY DEF Upsert, GoRecord

\* Writing a resolution of an untouched version keeps its row of one commit.
LEMMA RowStep ==
    ASSUME GoInv, NEW m \in GoModule, NEW v \in GoVersion \cup {0}, NEW new \in GoRecord,
           new.zip \in {GoNone, new.commit},
           m = "private" /\ Untouched(v) => new.commit = CommitOf("private", v),
           goRow' = [goRow EXCEPT ![<<m, v>>] = Upsert(@, new)],
           UNCHANGED <<goTag, goMoved>>
    PROVE  /\ goRow' \in [GoKey -> GoRecord \cup {GoNone}]
           /\ \A w \in GoVersion \cup {0} : RowOK(w)'
           /\ \A k \in GoKey : goRow[k] # GoNone /\ goRow[k].zip # GoNone
                                 => goRow'[k] # GoNone /\ goRow'[k].zip # GoNone
<1>. DEFINE old == goRow[<<m, v>>]
            up == Upsert(old, new)
<1>1. old \in GoRecord \cup {GoNone} /\ <<m, v>> \in GoKey
  BY DEF GoInv, GoTypes, GoKey
<1>2. /\ up \in GoRecord /\ up.commit = new.commit /\ up # GoNone
      /\ up.zip = IF new.zip = GoNone /\ old # GoNone THEN old.zip ELSE new.zip
  BY <1>1, UpsertFacts, GoNoneAssumption
<1>3. /\ goRow' \in [GoKey -> GoRecord \cup {GoNone}]
      /\ \A k \in GoKey : goRow'[k] = IF k = <<m, v>> THEN up ELSE goRow[k]
  BY <1>1, <1>2 DEF GoInv, GoTypes
<1>. HIDE DEF up
<1>4. ASSUME NEW w \in GoVersion \cup {0} PROVE RowOK(w)'
  <2>1. RowOK(w) /\ <<"private", w>> \in GoKey
    BY DEF GoInv, CommitsOK, GoKey, GoModule
  <2>2. CASE w = v /\ m = "private"
    BY <1>2, <1>3, <2>1, <2>2 DEF RowOK, Untouched, CommitOf
  <2>3. CASE ~(w = v /\ m = "private")
    <3>1. goRow'[<<"private", w>>] = goRow[<<"private", w>>]
      BY <1>3, <2>1, <2>3
    <3>. QED BY <2>1, <3>1 DEF RowOK, Untouched, CommitOf
  <2>. QED BY <2>2, <2>3
<1>5. ASSUME NEW k \in GoKey, goRow[k] # GoNone, goRow[k].zip # GoNone
      PROVE  goRow'[k] # GoNone /\ goRow'[k].zip # GoNone
  BY <1>2, <1>3, <1>5
<1>. QED BY <1>3, <1>4, <1>5

\* The leader's write, which may fail.
LEMMA PutAction ==
    ASSUME GoInv, NEW r \in GoReq, Put(r)
    PROVE  /\ GoInv'
           /\ \A k \in GoKey : goRow[k] # GoNone /\ goRow[k].zip # GoNone
                                 => goRow'[k] # GoNone /\ goRow'[k].zip # GoNone
<1>. DEFINE q == goReq[r]
<1>0. /\ goReq \in [GoReq -> GoRequest] /\ q.mod \in GoModule /\ q.ver \in GoVersion \cup {0}
      /\ q.at = "put" /\ CarriedOK(q)
  BY RequestFacts DEF Put, GoInv, CommitsOK
<1>1. UNCHANGED <<goTag, goFlight, goDone, goMoved>>
  BY DEF Put
<1>2. /\ OneRequest(r) /\ goReq'[r].at = "close" /\ goReq'[r].mod = q.mod
      /\ goReq'[r].ver = q.ver /\ goReq'[r].ep = q.ep
  <2>1. CASE Moved(r, [at |-> "close"])
    <3>. DEFINE n == [at |-> "close"]
    <3>1. DOMAIN n = {"at"} /\ n.at = "close" /\ "close" \in GoStage /\ Moved(r, n)
      BY <2>1 DEF GoStage
    <3>. HIDE DEF n
    <3>. QED BY <1>0, <3>1, MovedFields
  <2>2. CASE Moved(r, [at |-> "close", out |-> GoNone, err |-> "upstream"])
    <3>. DEFINE n == [at |-> "close", out |-> GoNone, err |-> "upstream"]
    <3>1. /\ DOMAIN n = {"at", "out", "err"} /\ n.at = "close" /\ n.out = GoNone /\ n.err = "upstream"
          /\ "close" \in GoStage /\ "upstream" \in ErrorKind /\ Moved(r, n)
      BY <2>2 DEF GoStage, ErrorKind
    <3>. HIDE DEF n
    <3>. QED BY <1>0, <3>1, MovedFields
  <2>. QED BY <2>1, <2>2 DEF Put
<1>3. /\ goRow' \in [GoKey -> GoRecord \cup {GoNone}]
      /\ \A w \in GoVersion \cup {0} : RowOK(w)'
      /\ \A k \in GoKey : goRow[k] # GoNone /\ goRow[k].zip # GoNone
                            => goRow'[k] # GoNone /\ goRow'[k].zip # GoNone
  <2>1. CASE UNCHANGED goRow
    BY <1>1, <2>1 DEF GoInv, GoTypes, CommitsOK, RowOK, Untouched, CommitOf
  <2>2. CASE goRow' = [goRow EXCEPT ![<<q.mod, q.ver>>] = Upsert(@, q.out)]
    <3>1. /\ q.out \in GoRecord /\ q.out.zip \in {GoNone, q.out.commit}
          /\ q.mod = "private" /\ Untouched(q.ver) => q.out.commit = CommitOf("private", q.ver)
      BY <1>0 DEF CarriedOK
    <3>. HIDE DEF q
    <3>. QED BY <1>0, <1>1, <2>2, <3>1, RowStep
  <2>. QED BY <2>1, <2>2 DEF Put
<1>4. goFailing' \subseteq GoModule
  BY DEF Put, GoInv, GoTypes
<1>5. GoTypes'
  BY <1>1, <1>2, <1>3, <1>4 DEF GoInv, GoTypes, OneRequest
<1>6. FlightsOK'
  BY <1>0, <1>1, <1>2, FlightStep DEF Leading
<1>7. ASSUME NEW p \in GoReq PROVE CarriedOK(goReq[p])'
  BY <1>1, <1>2 DEF GoInv, CommitsOK, CarriedOK, OneRequest, Untouched, CommitOf
<1>8. CommitsOK'
  BY <1>3, <1>7 DEF CommitsOK
<1>. QED BY <1>3, <1>5, <1>6, <1>8 DEF GoInv

\* The waiters are released before the key is freed.
LEMMA LandingActions ==
    ASSUME GoInv, NEW r \in GoReq, Close(r) \/ Delete(r)
    PROVE  GoInv'
<1>0. goReq \in [GoReq -> GoRequest]
  BY RequestFacts
<1>1. UNCHANGED <<goTag, goRow, goFailing, goMoved>>
  BY DEF Close, Delete
<1>. DEFINE n == [at |-> IF Close(r) THEN "delete" ELSE "answer"]
<1>2. /\ DOMAIN n = {"at"} /\ n.at = (IF Close(r) THEN "delete" ELSE "answer") /\ n.at \in GoStage
      /\ Moved(r, n)
  BY DEF GoStage, Close, Delete
<1>. HIDE DEF n
<1>3. /\ OneRequest(r) /\ goReq'[r].at = (IF Close(r) THEN "delete" ELSE "answer")
      /\ goReq'[r].mod = goReq[r].mod /\ goReq'[r].ver = goReq[r].ver /\ goReq'[r].ep = goReq[r].ep
  BY <1>0, <1>2, MovedFields
<1>4. GoTypes'
  BY <1>1, <1>3 DEF GoInv, GoTypes, OneRequest, Close, Delete
<1>5. CommitsOK'
  <2>1. CarriedOK(goReq[r])'
    BY <1>3 DEF CarriedOK
  <2>. QED BY <1>1, <1>3, <2>1, CarriedStep
<1>6. CASE Close(r)
  <2>1. FlightsOK'
    BY <1>3, <1>6, FlightStep DEF Close, Leading
  <2>. QED BY <1>4, <1>5, <2>1 DEF GoInv
<1>7. CASE Delete(r)
  <2>1. /\ goReq[r].at = "delete" /\ goReq'[r].at = "answer" /\ goDone' = goDone
        /\ goFlight' = [k \in DOMAIN goFlight \ {KeyOf(goReq[r])} |-> goFlight[k]]
    BY <1>3, <1>7 DEF Delete, Close
  <2>2. ASSUME NEW k \in DOMAIN goFlight' PROVE LedOK(k)'
    <3>1. k \in DOMAIN goFlight /\ goFlight'[k] = goFlight[k] /\ k # KeyOf(goReq[r]) /\ LedOK(k)
      BY <2>1, <2>2 DEF GoInv, FlightsOK
    <3>2. goFlight[k] # r
      BY <3>1 DEF LedOK
    <3>. QED BY <1>3, <3>1, <3>2 DEF LedOK, KeyOf, OneRequest
  <2>3. ASSUME NEW q \in GoReq PROVE WaitOK(q)'
    <3>1. WaitOK(q)
      BY DEF GoInv, FlightsOK
    <3>. QED BY <1>3, <2>1, <3>1 DEF WaitOK, OneRequest, Leading
  <2>. QED BY <1>4, <1>5, <2>2, <2>3 DEF GoInv, FlightsOK
<1>. QED BY <1>6, <1>7

\* The version @latest answers is a tagged one, or the pseudo-version.
LEMMA LatestIsNamed ==
    ASSUME GoInv
    PROVE  /\ Latest \in GoVersion \cup {0}
           /\ CommitOf("private", Latest) \in GoCommit \cup {GoHead}
<1>. DEFINE tagged == {v \in GoVersion : goTag[v] # GoNone}
            releases == tagged \ GoPre
<1>1. releases # {} => Max(releases) \in releases
  BY HighestVersion
<1>2. tagged # {} => Max(tagged) \in tagged
  BY HighestVersion
<1>3. Latest = 0 \/ Latest \in tagged
  BY <1>1, <1>2 DEF Latest
<1>. QED BY <1>3 DEF CommitOf, GoInv, GoTypes

\* @latest is outside of the flights; it may write a row without a zip.
LEMMA LatestAction ==
    ASSUME GoInv, NEW r \in GoReq, ServeLatest(r)
    PROVE  /\ GoInv'
           /\ \A k \in GoKey : goRow[k] # GoNone /\ goRow[k].zip # GoNone
                                 => goRow'[k] # GoNone /\ goRow'[k].zip # GoNone
<1>. DEFINE q == goReq[r]
            v == IF q.mod = "private" THEN Latest ELSE 0
            c == CommitOf(q.mod, v)
            o == Cached(c, GoNone)
<1>0. goReq \in [GoReq -> GoRequest] /\ q.mod \in GoModule /\ q.at = "latest"
  BY RequestFacts DEF ServeLatest
<1>1. UNCHANGED <<goTag, goFlight, goDone, goFailing, goMoved>>
  BY DEF ServeLatest
<1>2. v \in GoVersion \cup {0} /\ c \in GoCommit \cup {GoHead}
  BY <1>0, LatestIsNamed DEF CommitOf, GoModule
<1>3. o \in GoRecord /\ o.commit = c /\ o.zip = GoNone
  BY <1>2 DEF Cached, GoRecord
<1>4. OneRequest(r) /\ goReq'[r].at = "answer"
  <2>1. CASE Moved(r, [at |-> "answer", ver |-> v, out |-> o])
    <3>. DEFINE n == [at |-> "answer", ver |-> v, out |-> o]
    <3>. HIDE DEF v, o
    <3>1. /\ DOMAIN n = {"at", "ver", "out"} /\ n.at = "answer" /\ n.ver = v /\ n.out = o
          /\ "answer" \in GoStage /\ Moved(r, n)
      BY <2>1 DEF GoStage
    <3>. HIDE DEF n
    <3>. QED BY <1>0, <1>2, <1>3, <3>1, MovedFields
  <2>2. CASE \E kind \in SourceErrors(q.mod) : Moved(r, [at |-> "answer", err |-> kind])
    <3>1. PICK kind \in ErrorKind : Moved(r, [at |-> "answer", err |-> kind])
      BY <1>0, <2>2, SourceErrorKinds
    <3>. DEFINE n == [at |-> "answer", err |-> kind]
    <3>2. /\ DOMAIN n = {"at", "err"} /\ n.at = "answer" /\ n.err = kind
          /\ "answer" \in GoStage /\ Moved(r, n)
      BY <3>1 DEF GoStage
    <3>. HIDE DEF n
    <3>. QED BY <1>0, <3>2, MovedFields
  <2>. QED BY <2>1, <2>2 DEF ServeLatest
<1>5. /\ goRow' \in [GoKey -> GoRecord \cup {GoNone}]
      /\ \A w \in GoVersion \cup {0} : RowOK(w)'
      /\ \A k \in GoKey : goRow[k] # GoNone /\ goRow[k].zip # GoNone
                            => goRow'[k] # GoNone /\ goRow'[k].zip # GoNone
  <2>1. CASE UNCHANGED goRow
    BY <1>1, <2>1 DEF GoInv, GoTypes, CommitsOK, RowOK, Untouched, CommitOf
  <2>2. CASE q.mod = "private" /\ goRow' = [goRow EXCEPT ![<<q.mod, v>>] = Upsert(@, o)]
    <3>. HIDE DEF q, v, o
    <3>1. "private" \in GoModule /\ o.commit = CommitOf("private", v)
      BY <1>3, <2>2 DEF GoModule
    <3>. QED BY <1>1, <1>2, <1>3, <2>2, <3>1, RowStep
  <2>. QED BY <2>1, <2>2 DEF ServeLatest
<1>6. GoTypes'
  BY <1>1, <1>4, <1>5 DEF GoInv, GoTypes, OneRequest
<1>7. FlightsOK'
  BY <1>0, <1>1, <1>4, FlightStep DEF Leading
<1>8. ASSUME NEW p \in GoReq PROVE CarriedOK(goReq[p])'
  BY <1>1, <1>4 DEF GoInv, CommitsOK, CarriedOK, OneRequest, Untouched, CommitOf
<1>9. CommitsOK'
  BY <1>5, <1>8 DEF CommitsOK
<1>. QED BY <1>5, <1>6, <1>7, <1>9 DEF GoInv

\* A moved tag makes its version touched and changes no other's commit.
LEMMA PushTagAction ==
    ASSUME GoInv, NEW v \in GoVersion, NEW c \in GoCommit \cup {GoNone}, PushTag(v, c)
    PROVE  GoInv'
<1>1. /\ goTag' = [goTag EXCEPT ![v] = c] /\ goMoved' = Append(goMoved, v)
      /\ UNCHANGED <<goRow, goFlight, goDone, goReq, goFailing>>
  BY DEF PushTag
<1>2. goMoved \in Seq(GoVersion) /\ goMoved' \in Seq(GoVersion)
  BY <1>1 DEF GoInv, GoTypes
<1>3. ASSUME NEW w, Untouched(w)' PROVE Untouched(w) /\ w # v
  <2>1. DOMAIN goMoved' = 1..(Len(goMoved) + 1) /\ DOMAIN goMoved = 1..Len(goMoved) /\ Len(goMoved) \in Nat
    BY <1>1, <1>2
  <2>2. goMoved'[Len(goMoved) + 1] = v /\ \A i \in DOMAIN goMoved : goMoved'[i] = goMoved[i]
    BY <1>1, <1>2
  <2>. QED BY <1>3, <2>1, <2>2 DEF Untouched, Range
<1>4. ASSUME NEW w \in GoVersion \cup {0}, Untouched(w)'
      PROVE  Untouched(w) /\ CommitOf("private", w)' = CommitOf("private", w)
  BY <1>1, <1>3, <1>4 DEF CommitOf, GoInv, GoTypes
<1>5. GoTypes'
  BY <1>1, <1>2 DEF GoInv, GoTypes
<1>6. FlightsOK'
  BY <1>1 DEF GoInv, FlightsOK, LedOK, WaitOK, KeyOf
<1>7. ASSUME NEW r \in GoReq PROVE CarriedOK(goReq[r])'
  <2>1. CarriedOK(goReq[r]) /\ goReq[r].ver \in GoVersion \cup {0}
    BY RequestFacts DEF GoInv, CommitsOK
  <2>. QED BY <1>1, <1>4, <2>1 DEF CarriedOK
<1>8. ASSUME NEW w \in GoVersion \cup {0} PROVE RowOK(w)'
  BY <1>1, <1>4 DEF GoInv, CommitsOK, RowOK
<1>9. CommitsOK'
  BY <1>7, <1>8 DEF CommitsOK
<1>. QED BY <1>5, <1>6, <1>9 DEF GoInv

\* The proxy starts with an empty cache and no flight.
LEMMA GoInvInit == GoInit => GoInv
<1>. SUFFICES ASSUME GoInit PROVE GoInv
  OBVIOUS
<1>1. NewRequest \in GoRequest /\ NewRequest.at = "new"
  BY DEF NewRequest, GoRequest, GoStage, GoModule, Endpoint
<1>2. GoTypes
  BY <1>1 DEF GoInit, GoTypes
<1>3. FlightsOK
  BY <1>1 DEF GoInit, FlightsOK, WaitOK
<1>4. CommitsOK
  BY <1>1 DEF GoInit, CommitsOK, CarriedOK, RowOK, GoKey, GoModule
<1>. QED BY <1>2, <1>3, <1>4 DEF GoInv

\* A step keeps the invariant.
LEMMA GoInvStep == GoInv /\ [GoNext]_goVars => GoInv'
<1>. SUFFICES ASSUME GoInv, [GoNext]_goVars PROVE GoInv'
  OBVIOUS
<1>1. CASE UNCHANGED goVars
  <2>1. GoTypes'
    BY <1>1 DEF goVars, GoInv, GoTypes
  <2>2. FlightsOK'
    BY <1>1 DEF goVars, GoInv, FlightsOK, LedOK, WaitOK, KeyOf
  <2>3. CommitsOK'
    BY <1>1 DEF goVars, GoInv, CommitsOK, CarriedOK, RowOK, Untouched, CommitOf
  <2>. QED BY <2>1, <2>2, <2>3 DEF GoInv
<1>. QED BY <1>1, OutsideActions, JoinAction, FetchActions, PutAction, LandingActions,
            LatestAction, PushTagAction DEF GoNext

\* The invariant holds of every behaviour.
LEMMA GoInvHolds == GoSpec => []GoInv
BY GoInvInit, GoInvStep, PTL DEF GoSpec

\* No flight is left without the request that ends it.
THEOREM FlightsAlwaysLand == GoSpec => []FlightsLand
<1>1. GoInv => FlightsLand
  BY DEF GoInv, GoTypes, GoRequest, GoStage, FlightsOK, LedOK, WaitOK, Leading, FlightsLand, GoTypeOK
<1>. QED BY <1>1, GoInvHolds, PTL

\* The go.mod and the zip of a row are of one commit while its tag stands.
THEOREM RowsServeOneCommit == GoSpec => []RowsAreOfOneCommit
<1>1. GoInv => RowsAreOfOneCommit
  BY DEF GoInv, CommitsOK, RowOK, Untouched, RowsAreOfOneCommit
<1>. QED BY <1>1, GoInvHolds, PTL

\* No request makes the proxy forget a zip it has cached.
THEOREM CachedZipsStay == GoSpec => ZipsStayCached
<1>1. ASSUME GoInv, [GoNext]_goVars
      PROVE  [\A k \in GoKey : goRow[k] # GoNone /\ goRow[k].zip # GoNone
                => goRow'[k] # GoNone /\ goRow'[k].zip # GoNone]_goVars
  <2>1. UNCHANGED goRow \/ \E r \in GoReq : Put(r) \/ ServeLatest(r)
    BY <1>1 DEF GoNext, goVars, Serve, Join, Recheck, Resolve, Build, Close, Delete, Wake, Answer, PushTag
  <2>. QED BY <1>1, <2>1, PutAction, LatestAction
<1>. QED BY <1>1, GoInvHolds, PTL DEF GoSpec, ZipsStayCached

(***************************************************************************)
(* The Homebrew tap                                                        *)
(***************************************************************************)

TapDir   == [objs : SUBSET Commit, info : Commit, tip : Commit, keys : SUBSET (1..TapReleases)]
TapRef   == [at : {"none", "build", "objects", "info", "tip", "keys", "end"}, same : BOOLEAN,
             todo : SUBSET Commit, top : Commit, keys : SUBSET (1..TapReleases), err : BOOLEAN]
TapReq   == [at : {"idle", "wait", "open", "serve"}, phase : {"refs", "pack"}, want : Commit,
             depth : {0, 1}, err : BOOLEAN, lost : BOOLEAN]
TapClone == [tip : Commit, objs : SUBSET Commit, shallow : SUBSET Commit, lost : BOOLEAN]

\* Types.
TapTypes ==
    /\ btRel \subseteq 1..TapReleases
    /\ btDir \in TapDir
    /\ btLive \in [there : BOOLEAN, fresh : BOOLEAN, err : BOOLEAN]
    /\ btRef \in TapRef
    /\ btReq \in [TapClient -> TapReq]
    /\ btClone \in [TapClient -> TapClone]

\* One commit is another or an ancestor of it, or none.
Under(s, t) == Len(s) <= Len(t) /\ \A i \in 1..Len(s) : s[i] = t[i]

\* The commits of objs include c and its ancestors.
WholeIn(c, objs) == \A a \in Commit : Len(a) > 0 /\ Under(a, c) => a \in objs

\* The refs on disk are whole.
DirOK == WholeIn(btDir.tip, btDir.objs) /\ WholeIn(btDir.info, btDir.objs)

\* The commit a refresh will make the tip is ahead of the present one, and whole
\* with the objects it has still to write.
RefreshOK ==
    btRef.at \in {"objects", "info", "tip", "keys"} =>
        /\ Under(btDir.tip, btRef.top)
        /\ WholeIn(btRef.top, btDir.objs \cup btRef.todo)
        /\ btRef.at # "objects" => btRef.todo = {}

\* A client of packs was told a commit that the tip is still ahead of, or whose
\* lineage is gone.
ReqOK(c) ==
    /\ c \in SmartClient => btReq[c].want = NoCommit \/ btReq[c].lost \/ Under(btReq[c].want, btDir.tip)
    /\ c \in DumbClient => btReq[c].at # "serve"

\* A clone has its tip, and of each commit the parent unless it is cut there.
CloneOK(c) ==
    /\ btClone[c].tip # NoCommit => btClone[c].tip \in btClone[c].objs
    /\ \A o \in btClone[c].objs :
         Len(o) = 1 \/ o \in btClone[c].shallow \/ SubSeq(o, 1, Len(o) - 1) \in btClone[c].objs
    /\ c \in DumbClient => btClone[c].shallow = {}
    /\ c \in SmartClient => btClone[c].tip = NoCommit \/ btClone[c].lost \/ Under(btClone[c].tip, btDir.tip)

TapInv == TapTypes /\ DirOK /\ RefreshOK /\ \A c \in TapClient : ReqOK(c) /\ CloneOK(c)

\* The first i trees of a commit.
LEMMA FirstTrees ==
    ASSUME NEW c \in Commit, NEW i \in 0..Len(c)
    PROVE  /\ SubSeq(c, 1, i) \in Commit /\ Len(SubSeq(c, 1, i)) = i
           /\ \A j \in 1..i : SubSeq(c, 1, i)[j] = c[j]
<1>1. Len(c) \in Nat /\ \A j \in 1..i : c[j] \in 0..TapReleases
  <2>1. Len(c) \in Nat /\ \A j \in 1..Len(c) : c[j] \in 0..TapReleases
    BY ElementOfSeq, LenProperties DEF Commit
  <2>. QED BY <2>1
<1>2. /\ SubSeq(c, 1, i) \in Commit
      /\ Len(SubSeq(c, 1, i)) = IF 1 <= i THEN i - 1 + 1 ELSE 0
      /\ \A j \in 1..(i - 1 + 1) : SubSeq(c, 1, i)[j] = c[1 + j - 1]
  BY <1>1, SubSeqProperties DEF Commit
<1>. QED BY <1>1, <1>2

\* Commits with the same trees are the same.
LEMMA SameTrees ==
    ASSUME NEW a \in Commit, NEW b \in Commit, Len(a) = Len(b), \A i \in 1..Len(a) : a[i] = b[i]
    PROVE  a = b
BY SeqEqual DEF Commit

\* The ancestors of a commit, itself included.
LEMMA AncestorIff ==
    ASSUME NEW c \in Commit, NEW a
    PROVE  a \in Ancestors(c) <=> a \in Commit /\ Len(a) > 0 /\ Under(a, c)
<1>0. Len(c) \in Nat
  BY DEF Commit
<1>1. ASSUME a \in Ancestors(c) PROVE a \in Commit /\ Len(a) > 0 /\ Under(a, c)
  <2>1. PICK i \in 1..Len(c) : a = SubSeq(c, 1, i)
    BY <1>1 DEF Ancestors
  <2>. QED BY <1>0, <2>1, FirstTrees DEF Under
<1>2. ASSUME a \in Commit, Len(a) > 0, Under(a, c) PROVE a \in Ancestors(c)
  <2>1. Len(a) \in 1..Len(c) /\ Len(a) \in 0..Len(c)
    BY <1>0, <1>2 DEF Under, Commit
  <2>2. /\ SubSeq(c, 1, Len(a)) \in Commit /\ Len(SubSeq(c, 1, Len(a))) = Len(a)
        /\ \A j \in 1..Len(a) : a[j] = SubSeq(c, 1, Len(a))[j]
    BY <1>2, <2>1, FirstTrees DEF Under
  <2>3. a = SubSeq(c, 1, Len(a))
    BY <1>2, <2>2, SameTrees
  <2>. QED BY <2>1, <2>3 DEF Ancestors
<1>. QED BY <1>1, <1>2

\* IsPrefix, which the property uses, is the same order.
LEMMA PrefixIff ==
    ASSUME NEW s \in Commit, NEW t \in Commit
    PROVE  IsPrefix(s, t) <=> Under(s, t)
<1>0. Len(s) \in Nat /\ Len(t) \in Nat
  BY DEF Commit
<1>1. CASE Len(s) <= Len(t)
  <2>1. Len(s) \in 0..Len(s) /\ Len(s) \in 0..Len(t)
    BY <1>0, <1>1
  <2>2. /\ SubSeq(s, 1, Len(s)) \in Commit /\ Len(SubSeq(s, 1, Len(s))) = Len(s)
        /\ \A j \in 1..Len(s) : SubSeq(s, 1, Len(s))[j] = s[j]
        /\ SubSeq(t, 1, Len(s)) \in Commit /\ Len(SubSeq(t, 1, Len(s))) = Len(s)
        /\ \A j \in 1..Len(s) : SubSeq(t, 1, Len(s))[j] = t[j]
    BY <2>1, FirstTrees
  <2>3. SubSeq(s, 1, Len(s)) = SubSeq(t, 1, Len(s)) <=> \A j \in 1..Len(s) : s[j] = t[j]
    <3>1. ASSUME \A j \in 1..Len(s) : s[j] = t[j] PROVE SubSeq(s, 1, Len(s)) = SubSeq(t, 1, Len(s))
      BY <2>2, <3>1, SameTrees
    <3>. QED BY <2>2, <3>1
  <2>. QED BY <1>1, <2>3 DEF IsPrefix, Under
<1>. QED BY <1>0, <1>1 DEF IsPrefix, Under

\* An ancestor's ancestor is one.
LEMMA UnderTrans ==
    ASSUME NEW a \in Commit, NEW b \in Commit, NEW c \in Commit, Under(a, b), Under(b, c)
    PROVE  Under(a, c)
BY DEF Under, Commit

\* A commit is under itself.
LEMMA UnderItself == ASSUME NEW a \in Commit PROVE Under(a, a)
BY DEF Under, Commit

\* No commit is a commit too, under every one.
LEMMA NothingUnder == NoCommit \in Commit /\ Len(NoCommit) = 0 /\ \A c \in Commit : Under(NoCommit, c)
BY DEF NoCommit, Commit, Under

\* Lengths are numbers.
LEMMA CommitLen == ASSUME NEW c \in Commit PROVE Len(c) \in Nat /\ (c # NoCommit => Len(c) > 0)
<1>1. Len(c) \in Nat
  BY DEF Commit
<1>2. ASSUME Len(c) = 0 PROVE c = NoCommit
  BY <1>2, SameTrees, NothingUnder
<1>. QED BY <1>1, <1>2

\* A non-empty set of natural numbers has a least element.
LEMMA LeastOf ==
    ASSUME NEW S \in SUBSET Nat, S # {}
    PROVE  \E x \in S : \A y \in S : x <= y
<1>1. PICK x \in S : \A y \in S : ~(<<y, x>> \in OpToRel(<, Nat))
  BY WFMin, NatLessThanWellFounded
<1>2. \A y \in S : ~(y < x)
  BY <1>1 DEF OpToRel
<1>3. \A y \in S : y \in Nat
  OBVIOUS
<1>. QED BY <1>2, <1>3

\* The rank of x in S: how many members are below it.
Rank(S, x) == Cardinality({y \in S : y < x})

\* Each place in the order of a finite set is taken by one of its members.
LEMMA RankTaken ==
    ASSUME NEW S \in SUBSET Nat, IsFiniteSet(S), NEW i \in 1..Cardinality(S)
    PROVE  \E x \in S : Rank(S, x) = i - 1
<1>0. Cardinality(S) \in Nat
  BY FS_CardinalityType
<1>. DEFINE Bad == {k \in Nat : k < Cardinality(S) /\ \A x \in S : Rank(S, x) # k}
<1>. \A y \in S : y \in Nat
  OBVIOUS
<1>1. SUFFICES ASSUME Bad # {} PROVE FALSE
  <2>1. ASSUME Bad = {} PROVE \E x \in S : Rank(S, x) = i - 1
    <3>1. i - 1 \in Nat /\ i - 1 < Cardinality(S) /\ i - 1 \notin Bad
      BY <1>0, <2>1
    <3>. QED BY <3>1
  <2>. QED BY <2>1
<1>2. PICK k \in Bad : \A j \in Bad : k <= j
  BY <1>1, LeastOf
<1>3. k \in Nat /\ k < Cardinality(S) /\ \A x \in S : Rank(S, x) # k
  BY <1>2
<1>4. S # {}
  BY <1>3, FS_EmptySet
<1>5. CASE k = 0
  <2>1. PICK x \in S : \A y \in S : x <= y
    BY <1>4, LeastOf
  <2>2. ASSUME NEW y \in S PROVE ~(y < x)
    BY <2>1
  <2>3. {y \in S : y < x} = {}
    BY <2>2
  <2>. QED BY <1>3, <1>5, <2>3, FS_EmptySet DEF Rank
<1>6. CASE k # 0
  <2>1. k - 1 \notin Bad /\ k - 1 \in Nat /\ k - 1 < Cardinality(S)
    BY <1>0, <1>2, <1>3, <1>6
  <2>2. PICK x \in S : Rank(S, x) = k - 1
    BY <2>1
  <2>. DEFINE Low == {y \in S : y < x}
  <2>3. IsFiniteSet(Low) /\ x \notin Low
    BY FS_Subset
  <2>4. IsFiniteSet(Low \cup {x}) /\ Cardinality(Low \cup {x}) = k
    <3>1. Cardinality(Low \cup {x}) = Cardinality(Low) + 1 /\ IsFiniteSet(Low \cup {x})
      BY <2>3, FS_AddElement
    <3>. QED BY <1>3, <2>2, <3>1 DEF Rank
  <2>5. {y \in S : x < y} # {}
    <3>1. ASSUME {y \in S : x < y} = {} PROVE S = Low \cup {x}
      <4>1. ASSUME NEW y \in S PROVE y < x \/ y = x
        BY <3>1
      <4>. QED BY <4>1
    <3>. QED BY <1>3, <2>4, <3>1
  <2>6. PICK z \in {y \in S : x < y} : \A y \in {w \in S : x < w} : z <= y
    BY <2>5, LeastOf
  <2>7. {y \in S : y < z} = Low \cup {x}
    <3>1. z \in S /\ x < z /\ z \in Nat /\ x \in Nat
      BY <2>6
    <3>2. ASSUME NEW y \in S, y < z PROVE y < x \/ y = x
      BY <2>6, <3>1, <3>2
    <3>3. ASSUME NEW y \in S, y < x PROVE y < z
      BY <3>1, <3>3
    <3>. QED BY <3>1, <3>2, <3>3
  <2>8. Rank(S, z) = k /\ z \in S
    BY <2>4, <2>6, <2>7 DEF Rank
  <2>. QED BY <1>3, <2>8
<1>. QED BY <1>5, <1>6

\* The numbers of a set of releases in ascending order.
LEMMA AscendingSeq ==
    ASSUME NEW S \in SUBSET (1..TapReleases)
    PROVE  Ascending(S) \in Commit
<1>1. IsFiniteSet(S) /\ S \in SUBSET Nat
  <2>1. IsFiniteSet(1..TapReleases)
    BY TapBounds, FS_Interval
  <2>2. IsFiniteSet(S)
    BY <2>1, FS_Subset
  <2>. QED BY <2>2, TapBounds
<1>2. Cardinality(S) \in Nat
  BY <1>1, FS_CardinalityType
<1>3. ASSUME NEW i \in 1..Cardinality(S)
      PROVE  (CHOOSE x \in S : Cardinality({y \in S : y < x}) = i - 1) \in 0..TapReleases
  <2>1. \E x \in S : Cardinality({y \in S : y < x}) = i - 1
    BY <1>1, RankTaken DEF Rank
  <2>2. (CHOOSE x \in S : Cardinality({y \in S : y < x}) = i - 1) \in S
    BY <2>1
  <2>3. \A x \in S : x \in 0..TapReleases
    BY TapBounds
  <2>. QED BY <2>2, <2>3
<1>4. Ascending(S) \in [1..Cardinality(S) -> 0..TapReleases]
  BY <1>3 DEF Ascending
<1>. QED BY <1>2, <1>4, SeqDef DEF Commit

\* The longest of the commits a refresh appends: it is ahead of the tip, and each
\* of its ancestors is one of the tip's or appended.
LEMMA AppendedChain ==
    ASSUME NEW tip \in Commit, NEW past \in SUBSET (1..TapReleases), NEW now \in 0..TapReleases,
           NEW new, new = Appended(tip, past, now),
           NEW top, top = Longest(new)
    PROVE  /\ new \subseteq Commit /\ top \in Commit /\ Under(tip, top)
           /\ \A a \in Commit : Len(a) > 0 /\ Under(a, top) => Under(a, tip) \/ a \in new
<1>1. PICK add \in Commit : new = {tip \o SubSeq(add, 1, i) : i \in 1..Len(add)} \cup {tip \o add \o <<now>>}
  BY AscendingSeq DEF Appended
<1>2. Len(tip) \in Nat /\ Len(add) \in Nat /\ tip \in Seq(0..TapReleases) /\ add \in Seq(0..TapReleases)
  BY DEF Commit
<1>. DEFINE end == tip \o add \o <<now>>
            part(i) == tip \o SubSeq(add, 1, i)
<1>3. /\ end \in Commit /\ Len(end) = Len(tip) + Len(add) + 1
      /\ \A j \in 1..Len(tip) : end[j] = tip[j]
      /\ \A j \in 1..Len(add) : end[Len(tip) + j] = add[j]
  <2>1. <<now>> \in Seq(0..TapReleases) /\ Len(<<now>>) = 1
    OBVIOUS
  <2>2. /\ tip \o add \in Seq(0..TapReleases) /\ Len(tip \o add) = Len(tip) + Len(add)
        /\ \A i \in 1..(Len(tip) + Len(add)) : (tip \o add)[i] = IF i <= Len(tip) THEN tip[i] ELSE add[i - Len(tip)]
    BY <1>2, ConcatProperties
  <2>3. /\ end \in Seq(0..TapReleases) /\ Len(end) = Len(tip \o add) + 1
        /\ \A i \in 1..(Len(tip \o add) + 1) : end[i] =
              IF i <= Len(tip \o add) THEN (tip \o add)[i] ELSE <<now>>[i - Len(tip \o add)]
    BY <2>1, <2>2, ConcatProperties
  <2>. HIDE DEF end
  <2>. QED BY <1>2, <2>2, <2>3 DEF Commit
<1>4. ASSUME NEW i \in 1..Len(add)
      PROVE  /\ part(i) \in Commit /\ Len(part(i)) = Len(tip) + i
             /\ \A j \in 1..Len(tip) : part(i)[j] = tip[j]
             /\ \A j \in 1..i : part(i)[Len(tip) + j] = add[j]
  <2>1. i \in 0..Len(add)
    BY <1>2
  <2>2. PICK s \in Seq(0..TapReleases) : part(i) = tip \o s /\ Len(s) = i /\ \A j \in 1..i : s[j] = add[j]
    BY <2>1, FirstTrees DEF Commit
  <2>3. /\ part(i) \in Seq(0..TapReleases) /\ Len(part(i)) = Len(tip) + Len(s)
        /\ \A j \in 1..(Len(tip) + Len(s)) : part(i)[j] = IF j <= Len(tip) THEN tip[j] ELSE s[j - Len(tip)]
    <3>1. /\ tip \o s \in Seq(0..TapReleases) /\ Len(tip \o s) = Len(tip) + Len(s)
          /\ \A j \in 1..(Len(tip) + Len(s)) : (tip \o s)[j] = IF j <= Len(tip) THEN tip[j] ELSE s[j - Len(tip)]
      BY <1>2, ConcatProperties
    <3>. HIDE DEF part
    <3>. QED BY <2>2, <3>1
  <2>. HIDE DEF part
  <2>4. \A j \in 1..Len(tip) : part(i)[j] = tip[j]
    BY <1>2, <2>1, <2>2, <2>3
  <2>5. ASSUME NEW j \in 1..i PROVE part(i)[Len(tip) + j] = add[j]
    <3>1. Len(tip) + j \in 1..(Len(tip) + i) /\ ~(Len(tip) + j <= Len(tip)) /\ Len(tip) + j - Len(tip) = j
      BY <1>2, <2>1
    <3>2. part(i)[Len(tip) + j] = s[Len(tip) + j - Len(tip)]
      BY <2>2, <2>3, <3>1
    <3>. QED BY <2>2, <3>1, <3>2
  <2>. QED BY <1>2, <2>2, <2>3, <2>4, <2>5 DEF Commit
<1>. HIDE DEF end, part
<1>5. new = {part(i) : i \in 1..Len(add)} \cup {end}
  BY <1>1 DEF part, end
<1>6. new \subseteq Commit
  BY <1>3, <1>4, <1>5
<1>7. top = end
  <2>1. \A m \in new : Len(m) <= Len(end) /\ (Len(m) = Len(end) => m = end)
    BY <1>2, <1>3, <1>4, <1>5
  <2>2. end \in new /\ \A m \in new : Len(m) <= Len(end)
    BY <1>5, <2>1
  <2>3. top \in new /\ \A m \in new : Len(m) <= Len(top)
    BY <2>2, Zenon DEF Longest
  <2>4. Len(end) <= Len(top) /\ Len(top) <= Len(end) /\ Len(end) \in Nat /\ Len(top) \in Nat
    BY <1>2, <1>3, <1>6, <2>1, <2>2, <2>3, CommitLen
  <2>. QED BY <2>1, <2>3, <2>4
<1>8. Under(tip, top)
  <2>1. Len(tip) <= Len(end) /\ \A j \in 1..Len(tip) : tip[j] = end[j]
    BY <1>2, <1>3
  <2>. QED BY <1>7, <2>1 DEF Under
<1>9. ASSUME NEW a \in Commit, Len(a) > 0, Under(a, top), ~Under(a, tip) PROVE a \in new
  <2>1. Len(a) \in Nat /\ Len(a) <= Len(end) /\ \A j \in 1..Len(a) : a[j] = end[j]
    BY <1>7, <1>9, CommitLen DEF Under
  <2>2. Len(a) > Len(tip)
    BY <1>2, <1>3, <1>9, <2>1 DEF Under
  <2>3. CASE Len(a) = Len(end)
    BY <1>3, <1>5, <2>1, <2>3, SameTrees
  <2>4. CASE Len(a) < Len(end)
    <3>1. PICK i \in 1..Len(add) : Len(a) = Len(tip) + i
      <4>1. Len(a) - Len(tip) \in 1..Len(add) /\ Len(a) = Len(tip) + (Len(a) - Len(tip))
        BY <1>2, <1>3, <2>1, <2>2, <2>4
      <4>. QED BY <4>1
    <3>2. ASSUME NEW j \in 1..Len(a) PROVE a[j] = part(i)[j]
      <4>1. CASE j <= Len(tip)
        BY <1>2, <1>3, <1>4, <2>1, <4>1
      <4>2. CASE j > Len(tip)
        <5>1. j - Len(tip) \in 1..i /\ j - Len(tip) \in 1..Len(add) /\ Len(tip) + (j - Len(tip)) = j
          BY <1>2, <2>1, <3>1, <4>2
        <5>2. end[Len(tip) + (j - Len(tip))] = add[j - Len(tip)] /\ part(i)[Len(tip) + (j - Len(tip))] = add[j - Len(tip)]
          BY <1>3, <1>4, <5>1
        <5>. QED BY <2>1, <5>1, <5>2
      <4>. QED BY <1>2, <2>1, <4>1, <4>2
    <3>3. a = part(i)
      BY <1>4, <3>1, <3>2, SameTrees
    <3>. QED BY <1>5, <3>3
  <2>. QED BY <1>2, <1>3, <2>1, <2>3, <2>4
<1>. QED BY <1>3, <1>6, <1>7, <1>8, <1>9

\* The formula of the newest release.
LEMMA LatestIsRelease == TapTypes => LatestFormula \in 0..TapReleases
<1>. SUFFICES ASSUME TapTypes PROVE LatestFormula \in 0..TapReleases
  OBVIOUS
<1>1. CASE btRel = {}
  BY <1>1, TapBounds DEF LatestFormula
<1>2. CASE btRel # {}
  <2>1. \A r \in btRel : r \in 1..TapReleases /\ TapReleases - r \in Nat
    BY TapBounds DEF TapTypes
  <2>. DEFINE T == {TapReleases - r : r \in btRel}
  <2>2. T \in SUBSET Nat /\ T # {}
    BY <1>2, <2>1
  <2>3. PICK x \in T : \A y \in T : x <= y
    <3>. HIDE DEF T
    <3>. QED BY <2>2, LeastOf
  <2>4. PICK r \in btRel : x = TapReleases - r
    BY <2>3
  <2>5. ASSUME NEW q \in btRel PROVE q <= r
    <3>1. TapReleases - r <= TapReleases - q
      BY <2>3, <2>4
    <3>. QED BY <2>1, <3>1, TapBounds
  <2>6. (CHOOSE q \in btRel : \A p \in btRel : p <= q) \in btRel
    BY <2>5, Zenon
  <2>7. LatestFormula \in btRel
    BY <1>2, <2>6 DEF LatestFormula
  <2>. QED BY <2>1, <2>7, TapBounds
<1>. QED BY <1>1, <1>2

\* One request changes, and says of the tip what it must.
LEMMA OneTapReq ==
    ASSUME TapInv, NEW c \in TapClient, NEW r \in TapReq, btReq' = [btReq EXCEPT ![c] = r], btDir' = btDir,
           c \in SmartClient => r.want = NoCommit \/ r.lost \/ Under(r.want, btDir.tip),
           c \in DumbClient => r.at # "serve"
    PROVE  btReq' \in [TapClient -> TapReq] /\ \A d \in TapClient : ReqOK(d)'
<1>1. btReq' \in [TapClient -> TapReq] /\ \A d \in TapClient : btReq'[d] = IF d = c THEN r ELSE btReq[d]
  BY DEF TapInv, TapTypes
<1>. QED BY <1>1 DEF TapInv, ReqOK

\* The fields of a request.
LEMMA ReqFields ==
    ASSUME TapInv, NEW c \in TapClient
    PROVE  /\ btReq[c] \in TapReq /\ NoReq \in TapReq
           /\ NoReq.want = NoCommit /\ NoReq.at = "idle"
           /\ \A a \in {"idle", "wait", "open", "serve"} :
                 /\ [btReq[c] EXCEPT !.at = a] \in TapReq
                 /\ [btReq[c] EXCEPT !.at = a].want = btReq[c].want
                 /\ [btReq[c] EXCEPT !.at = a].lost = btReq[c].lost
                 /\ [btReq[c] EXCEPT !.at = a].at = a
BY NothingUnder DEF TapInv, TapTypes, TapReq, NoReq

\* The entry of a lineage.
LEMMA LiveOK ==
    ASSUME TapTypes PROVE LiveTapLineage \in [there : BOOLEAN, fresh : BOOLEAN, err : BOOLEAN]
BY DEF TapTypes, LiveTapLineage, NoLive

\* The directory and the clones stay.
LEMMA SameTap ==
    ASSUME TapInv, UNCHANGED <<btDir, btClone>>
    PROVE  DirOK' /\ (\A c \in TapClient : CloneOK(c)') /\ (UNCHANGED btRef => RefreshOK')
BY DEF TapInv, DirOK, CloneOK, RefreshOK

\* Requests that wait, open and read refs.
LEMMA AwaitKeeps ==
    ASSUME TapInv, NEW c \in TapClient, NEW d \in {0, 1}, AwaitTapLineage(c, d)
    PROVE  TapInv'
<1>1. btDir' = btDir /\ btClone' = btClone /\ btRel' = btRel /\ btLive' = LiveTapLineage
  BY DEF AwaitTapLineage
<1>2. btRef' \in TapRef /\ (btRef' = btRef \/ btRef'.at = "build")
  BY NothingUnder DEF AwaitTapLineage, TapInv, TapTypes, TapRef, NoRef
<1>3. RefreshOK'
  BY <1>1, <1>2 DEF TapInv, RefreshOK
<1>. DEFINE q == IF btReq[c].phase = "refs" THEN [btReq[c] EXCEPT !.depth = d] ELSE btReq[c]
<1>4. q \in TapReq /\ q.want = btReq[c].want /\ q.lost = btReq[c].lost
  BY ReqFields DEF TapReq
<1>. HIDE DEF q
<1>5. LiveTapLineage.err \in BOOLEAN
  BY LiveOK DEF TapInv
<1>6. PICK r : /\ btReq' = [btReq EXCEPT ![c] = r]
               /\ \/ r = [q EXCEPT !.at = "wait", !.err = LiveTapLineage.err]
                  \/ r = NoReq
                  \/ r = [q EXCEPT !.at = "open"]
  BY DEF AwaitTapLineage, q
<1>7. r \in TapReq /\ r.at # "serve" /\ (r.want = NoCommit \/ (r.want = btReq[c].want /\ r.lost = btReq[c].lost))
  <2>1. CASE r = [q EXCEPT !.at = "wait", !.err = LiveTapLineage.err]
    BY <1>4, <1>5, <2>1 DEF TapReq
  <2>2. CASE r = NoReq
    BY <2>2, ReqFields
  <2>3. CASE r = [q EXCEPT !.at = "open"]
    BY <1>4, <2>3 DEF TapReq
  <2>. QED BY <1>6, <2>1, <2>2, <2>3
<1>8. c \in SmartClient => r.want = NoCommit \/ r.lost \/ Under(r.want, btDir.tip)
  BY <1>7 DEF TapInv, ReqOK
<1>9. btReq' \in [TapClient -> TapReq] /\ \A e \in TapClient : ReqOK(e)'
  BY <1>1, <1>6, <1>7, <1>8, OneTapReq
<1>10. TapTypes'
  BY <1>1, <1>2, <1>9, LiveOK DEF TapInv, TapTypes
<1>. QED BY <1>1, <1>3, <1>9, <1>10, SameTap DEF TapInv

\* The steps of a request that only read: timeouts, the entry, the refs.
LEMMA RequestsKeep ==
    ASSUME TapInv, NEW c \in TapClient,
           \/ WaitTimesOut(c) \/ AcquireTapLineage(c) \/ ServeAdvertisement(c) \/ ServeInfoRefs(c)
    PROVE  TapInv'
<1>1. btDir' = btDir /\ btClone' = btClone /\ btRel' = btRel /\ btRef' = btRef
  BY DEF WaitTimesOut, AcquireTapLineage, ServeAdvertisement, ServeInfoRefs
<1>2. btLive' \in [there : BOOLEAN, fresh : BOOLEAN, err : BOOLEAN]
  BY LiveOK DEF WaitTimesOut, AcquireTapLineage, ServeAdvertisement, ServeInfoRefs, TapInv, TapTypes
<1>3. btDir.tip \in Commit /\ btDir.info \in Commit
  BY DEF TapInv, TapTypes, TapDir
<1>4. \E r \in TapReq :
        /\ btReq' = [btReq EXCEPT ![c] = r]
        /\ c \in SmartClient => r.want = NoCommit \/ r.lost \/ Under(r.want, btDir.tip)
        /\ c \in DumbClient => r.at # "serve"
  <2>1. CASE WaitTimesOut(c)
    <3>1. btReq' = [btReq EXCEPT ![c] = NoReq] \/ btReq' = [btReq EXCEPT ![c] = [btReq[c] EXCEPT !.at = "open"]]
      BY <2>1, ReqFields DEF WaitTimesOut, TapInv, TapTypes
    <3>2. CASE btReq' = [btReq EXCEPT ![c] = NoReq]
      BY <3>2, ReqFields
    <3>3. CASE btReq' = [btReq EXCEPT ![c] = [btReq[c] EXCEPT !.at = "open"]]
      BY <3>3, ReqFields DEF TapInv, ReqOK
    <3>. QED BY <3>1, <3>2, <3>3
  <2>2. CASE AcquireTapLineage(c)
    <3>1. btReq' = [btReq EXCEPT ![c] = [btReq[c] EXCEPT !.at = "serve"]] /\ c \notin DumbClient
      BY <2>2, TapClients, ReqFields DEF AcquireTapLineage, TapInv, TapTypes
    <3>. QED BY <3>1, ReqFields DEF TapInv, ReqOK
  <2>3. ASSUME NEW ref \in Commit, Advertise(c, ref), c \in SmartClient => Under(ref, btDir.tip)
        PROVE  \E r \in TapReq :
                 /\ btReq' = [btReq EXCEPT ![c] = r]
                 /\ c \in SmartClient => r.want = NoCommit \/ r.lost \/ Under(r.want, btDir.tip)
                 /\ c \in DumbClient => r.at # "serve"
    <3>. DEFINE r == [btReq[c] EXCEPT !.at = "idle", !.phase = "pack", !.want = ref]
    <3>1. btReq' = [btReq EXCEPT ![c] = NoReq] \/ btReq' = [btReq EXCEPT ![c] = r]
      BY <2>3 DEF Advertise
    <3>2. r \in TapReq /\ r.want = ref /\ r.at = "idle"
      BY ReqFields DEF TapReq
    <3>. HIDE DEF r
    <3>3. CASE btReq' = [btReq EXCEPT ![c] = NoReq]
      BY <3>3, ReqFields
    <3>4. CASE btReq' = [btReq EXCEPT ![c] = r]
      BY <2>3, <3>2, <3>4
    <3>. QED BY <3>1, <3>3, <3>4
  <2>4. CASE ServeAdvertisement(c)
    BY <1>3, <2>3, <2>4, UnderItself DEF ServeAdvertisement
  <2>5. CASE ServeInfoRefs(c)
    BY <1>3, <2>3, <2>5, TapClients DEF ServeInfoRefs
  <2>. QED BY <2>1, <2>2, <2>4, <2>5
<1>5. btReq' \in [TapClient -> TapReq] /\ \A e \in TapClient : ReqOK(e)'
  BY <1>1, <1>4, OneTapReq
<1>6. TapTypes'
  BY <1>1, <1>2, <1>5 DEF TapInv, TapTypes
<1>. QED BY <1>1, <1>5, <1>6, SameTap DEF TapInv

\* A pack has its tip, unless the clone does, and of each commit the parent,
\* unless the clone does or the commit is cut.
LEMMA PackWhole ==
    ASSUME NEW target \in Commit, NEW depth \in {0, 1}, NEW own \in Commit,
           NEW have, \A h \in have : h = own /\ depth = 0,
           NEW pack, pack = WalkCommits(target, depth, have)
    PROVE  /\ pack \subseteq Commit
           /\ target # NoCommit => target \in pack \/ (target = own /\ own # NoCommit)
           /\ \A o \in pack :
                \/ Len(o) = 1
                \/ depth > 0 /\ Len(o) > 1 /\ Len(o) = Len(target) - depth + 1
                \/ SubSeq(o, 1, Len(o) - 1) \in pack
                \/ SubSeq(o, 1, Len(o) - 1) = own /\ own # NoCommit
<1>1. \A a \in Commit : Len(a) \in Nat
  BY CommitLen
<1>2. \A a : a \in pack <=> /\ a \in Commit /\ Len(a) > 0 /\ Under(a, target)
                           /\ IF depth > 0 THEN Len(a) > Len(target) - depth
                              ELSE \A h \in have : h \in Commit /\ Len(h) > 0 /\ Under(h, target) => Len(a) > Len(h)
  BY AncestorIff DEF WalkCommits
<1>3. \A h \in have : h = own /\ depth = 0
  OBVIOUS
<1>4. ASSUME target # NoCommit, target \notin pack PROVE target = own /\ own # NoCommit
  <2>1. Len(target) > 0 /\ Under(target, target) /\ Len(target) > Len(target) - 1 /\ depth = 0
    BY <1>1, <1>2, <1>4, CommitLen, UnderItself
  <2>2. /\ own \in Commit /\ Len(own) > 0 /\ Under(own, target) /\ ~(Len(target) > Len(own))
    BY <1>2, <1>3, <1>4, <2>1
  <2>3. Len(own) = Len(target)
    BY <1>1, <2>2 DEF Under
  <2>4. own = target
    BY <2>2, <2>3, SameTrees DEF Under
  <2>. QED BY <1>4, <2>4
<1>5. ASSUME NEW o \in pack, Len(o) # 1, SubSeq(o, 1, Len(o) - 1) \notin pack
      PROVE  \/ depth > 0 /\ Len(o) > 1 /\ Len(o) = Len(target) - depth + 1
             \/ SubSeq(o, 1, Len(o) - 1) = own /\ own # NoCommit
  <2>0. o \in Commit /\ Len(o) > 0 /\ Under(o, target)
    BY <1>2
  <2>1. o \in Commit /\ Len(o) \in Nat /\ Len(o) > 1 /\ Under(o, target)
    <3>1. Len(o) > 0 /\ Len(o) \in Nat
      BY <1>1, <2>0
    <3>2. Len(o) > 1
      <4>1. \A n \in Nat : n > 0 => n = 1 \/ n > 1
        OBVIOUS
      <4>. QED BY <1>5, <3>1, <4>1, Zenon
    <3>. QED BY <2>0, <3>1, <3>2
  <2>2. Len(o) - 1 \in 0..Len(o)
    BY <2>1
  <2>3. PICK p \in Commit : /\ p = SubSeq(o, 1, Len(o) - 1) /\ Len(p) = Len(o) - 1
                           /\ \A j \in 1..(Len(o) - 1) : p[j] = o[j]
    BY <2>1, <2>2, FirstTrees
  <2>4. Len(p) > 0 /\ Under(p, target)
    BY <1>1, <2>1, <2>3 DEF Under
  <2>5. CASE depth > 0
    <3>1. Len(o) > Len(target) - depth /\ ~(Len(p) > Len(target) - depth)
      BY <1>2, <1>5, <2>3, <2>4, <2>5
    <3>. QED BY <1>1, <2>1, <2>3, <2>5, <3>1
  <2>6. CASE ~(depth > 0)
    <3>1. PICK h \in have : h \in Commit /\ Len(h) > 0 /\ Under(h, target) /\ ~(Len(p) > Len(h))
      BY <1>2, <1>5, <2>3, <2>4, <2>6
    <3>2. Len(o) > Len(h) /\ h = own
      BY <1>2, <1>3, <2>6, <3>1
    <3>3. Len(h) = Len(p)
      BY <1>1, <2>1, <2>3, <3>1, <3>2
    <3>4. h = p
      BY <2>4, <3>1, <3>3, SameTrees DEF Under
    <3>. QED BY <2>3, <3>1, <3>2, <3>4, NothingUnder
  <2>. QED BY <2>5, <2>6
<1>. QED BY <1>2, <1>4, <1>5

\* A pack makes a clone whole, or whole above the cut of a shallow one.
LEMMA PackKeeps ==
    ASSUME TapInv, NEW c \in TapClient, ServePack(c)
    PROVE  TapInv'
<1>. DEFINE q == btReq[c]
            target == IF q.want \in btDir.objs THEN q.want ELSE btDir.tip
            have   == IF q.depth > 0 THEN {} ELSE {btClone[c].tip} \cap btDir.objs
            pack   == WalkCommits(target, q.depth, have)
            cut    == {a \in pack : q.depth > 0 /\ Len(a) > 1 /\ Len(a) = Len(target) - q.depth + 1}
            old    == btClone[c]
            new    == [tip |-> target, objs |-> old.objs \cup pack, shallow |-> old.shallow \cup cut,
                       lost |-> q.lost]
<1>1. /\ btDir' = btDir /\ btRel' = btRel /\ btRef' = btRef /\ btLive' = btLive
      /\ q.at = "serve" /\ btReq' = [btReq EXCEPT ![c] = NoReq]
      /\ btClone' = btClone \/ (target = q.want /\ btClone' = [btClone EXCEPT ![c] = new])
  BY DEF ServePack
<1>2. btReq' \in [TapClient -> TapReq] /\ \A e \in TapClient : ReqOK(e)'
  BY <1>1, OneTapReq, ReqFields
<1>3. /\ q \in TapReq /\ q.want \in Commit /\ q.depth \in {0, 1} /\ q.lost \in BOOLEAN
      /\ btDir.tip \in Commit /\ btDir.objs \in SUBSET Commit
      /\ old \in TapClone /\ old.tip \in Commit /\ old.objs \subseteq Commit /\ old.shallow \subseteq Commit
  BY DEF TapInv, TapTypes, TapReq, TapDir, TapClone
<1>4. c \notin DumbClient /\ c \in SmartClient
  BY <1>1 DEF TapInv, ReqOK, TapClient
<1>5. CloneOK(c)
  BY DEF TapInv
<1>6. /\ pack \subseteq Commit /\ target \in Commit
      /\ target # NoCommit => target \in pack \/ (target = old.tip /\ old.tip # NoCommit)
      /\ \A o \in pack :
            Len(o) = 1 \/ o \in cut \/ SubSeq(o, 1, Len(o) - 1) \in pack
              \/ (SubSeq(o, 1, Len(o) - 1) = old.tip /\ old.tip # NoCommit)
  <2>1. target \in Commit
    BY <1>3
  <2>2. /\ \A h \in have : h = old.tip /\ q.depth = 0
        /\ pack = WalkCommits(target, q.depth, have)
        /\ \A o \in pack : q.depth > 0 /\ Len(o) > 1 /\ Len(o) = Len(target) - q.depth + 1 => o \in cut
    BY <1>3
  <2>. HIDE DEF target, q, old, have, pack, cut
  <2>3. /\ pack \subseteq Commit
        /\ target # NoCommit => target \in pack \/ (target = old.tip /\ old.tip # NoCommit)
        /\ \A o \in pack :
             \/ Len(o) = 1
             \/ q.depth > 0 /\ Len(o) > 1 /\ Len(o) = Len(target) - q.depth + 1
             \/ SubSeq(o, 1, Len(o) - 1) \in pack
             \/ SubSeq(o, 1, Len(o) - 1) = old.tip /\ old.tip # NoCommit
    BY <1>3, <2>1, <2>2, PackWhole
  <2>. QED BY <2>1, <2>2, <2>3
<1>7. ASSUME target = q.want, btClone' = [btClone EXCEPT ![c] = new]
      PROVE  btClone' \in [TapClient -> TapClone] /\ \A e \in TapClient : CloneOK(e)'
  <2>. HIDE DEF q, pack, target, cut
  <2>1. /\ new \in TapClone /\ new.tip = target /\ new.objs = old.objs \cup pack
        /\ new.shallow = old.shallow \cup cut /\ new.lost = q.lost
    BY <1>3, <1>6 DEF TapClone, cut
  <2>. HIDE DEF new
  <2>2. /\ btClone' \in [TapClient -> TapClone] /\ btClone'[c] = new
        /\ \A e \in TapClient \ {c} : btClone'[e] = btClone[e]
    BY <1>7, <2>1 DEF TapInv, TapTypes
  <2>3. /\ target # NoCommit => target \in new.objs
        /\ \A o \in new.objs : Len(o) = 1 \/ o \in new.shallow \/ SubSeq(o, 1, Len(o) - 1) \in new.objs
    BY <1>5, <1>6, <2>1 DEF CloneOK
  <2>4. target = NoCommit \/ q.lost \/ Under(target, btDir.tip)
    BY <1>4, <1>7 DEF TapInv, ReqOK, q
  <2>5. CloneOK(c)'
    BY <1>1, <1>4, <2>1, <2>2, <2>3, <2>4 DEF CloneOK
  <2>6. \A e \in TapClient \ {c} : CloneOK(e)'
    BY <1>1, <2>2 DEF CloneOK, TapInv
  <2>. QED BY <2>2, <2>5, <2>6
<1>8. btClone' \in [TapClient -> TapClone] /\ \A e \in TapClient : CloneOK(e)'
  <2>. HIDE DEF new, target, q
  <2>1. CASE btClone' = btClone
    BY <1>1, <2>1, SameTap DEF TapInv, TapTypes
  <2>. QED BY <1>1, <1>7, <2>1
<1>9. DirOK' /\ RefreshOK'
  BY <1>1 DEF TapInv, DirOK, RefreshOK
<1>10. TapTypes'
  BY <1>1, <1>2, <1>8 DEF TapInv, TapTypes
<1>. QED BY <1>2, <1>8, <1>9, <1>10 DEF TapInv

\* A clone by files takes a ref and walks its objects.
LEMMA FilesKeep ==
    ASSUME TapInv, NEW c \in TapClient, ServeTapFile(c)
    PROVE  TapInv'
<1>. DEFINE q == btReq[c]
            old == btClone[c]
            new == [tip |-> q.want, objs |-> old.objs \cup Ancestors(q.want), shallow |-> {}, lost |-> q.lost]
<1>1. /\ btDir' = btDir /\ btRel' = btRel /\ btRef' = btRef /\ btLive' = LiveTapLineage
      /\ c \in DumbClient /\ btReq' = [btReq EXCEPT ![c] = NoReq]
      /\ btClone' = btClone \/ btClone' = [btClone EXCEPT ![c] = new]
  BY DEF ServeTapFile
<1>2. btReq' \in [TapClient -> TapReq] /\ \A e \in TapClient : ReqOK(e)'
  BY <1>1, OneTapReq, ReqFields
<1>3. q.want \in Commit /\ q.lost \in BOOLEAN /\ old.objs \subseteq Commit /\ CloneOK(c) /\ c \notin SmartClient
  BY <1>1, TapClients DEF TapInv, TapTypes, TapReq, TapClone
<1>4. /\ Ancestors(q.want) \subseteq Commit
      /\ q.want # NoCommit => q.want \in Ancestors(q.want)
      /\ \A o \in Ancestors(q.want) : Len(o) = 1 \/ SubSeq(o, 1, Len(o) - 1) \in Ancestors(q.want)
  <2>. HIDE DEF q
  <2>1. ASSUME NEW o \in Ancestors(q.want), Len(o) # 1 PROVE SubSeq(o, 1, Len(o) - 1) \in Ancestors(q.want)
    <3>1. o \in Commit /\ Len(o) \in Nat /\ Len(o) > 1 /\ Under(o, q.want) /\ Len(o) - 1 \in 0..Len(o)
      <4>1. o \in Commit /\ Len(o) > 0 /\ Under(o, q.want)
        BY <1>3, AncestorIff
      <4>2. Len(o) \in Nat
        BY <4>1, CommitLen
      <4>3. Len(o) > 1 /\ Len(o) - 1 \in 0..Len(o)
        <5>1. \A n \in Nat : n > 0 => n = 1 \/ (n > 1 /\ n - 1 \in 0..n)
          OBVIOUS
        <5>. QED BY <2>1, <4>1, <4>2, <5>1, Zenon
      <4>. QED BY <4>1, <4>2, <4>3
    <3>2. PICK p \in Commit : /\ p = SubSeq(o, 1, Len(o) - 1) /\ Len(p) = Len(o) - 1
                             /\ \A j \in 1..(Len(o) - 1) : p[j] = o[j]
      BY <3>1, FirstTrees
    <3>3. Len(p) > 0 /\ Under(p, q.want)
      <4>1. Len(q.want) \in Nat
        BY <1>3, CommitLen
      <4>. QED BY <3>1, <3>2, <4>1 DEF Under
    <3>. QED BY <1>3, <3>2, <3>3, AncestorIff
  <2>. QED BY <1>3, <2>1, AncestorIff, CommitLen, UnderItself
<1>5. ASSUME btClone' = [btClone EXCEPT ![c] = new]
      PROVE  btClone' \in [TapClient -> TapClone] /\ \A e \in TapClient : CloneOK(e)'
  <2>. HIDE DEF q
  <2>1. /\ new \in TapClone /\ new.tip = q.want /\ new.objs = old.objs \cup Ancestors(q.want)
        /\ new.shallow = {} /\ new.lost = q.lost
    BY <1>3, <1>4 DEF TapClone
  <2>. HIDE DEF new
  <2>2. /\ btClone' \in [TapClient -> TapClone] /\ btClone'[c] = new
        /\ \A e \in TapClient \ {c} : btClone'[e] = btClone[e]
    BY <1>5, <2>1 DEF TapInv, TapTypes
  <2>3. /\ q.want # NoCommit => q.want \in new.objs
        /\ \A o \in new.objs : Len(o) = 1 \/ SubSeq(o, 1, Len(o) - 1) \in new.objs
    BY <1>1, <1>3, <1>4, <2>1 DEF CloneOK
  <2>4. CloneOK(c)'
    BY <1>1, <1>3, <2>1, <2>2, <2>3 DEF CloneOK
  <2>5. \A e \in TapClient \ {c} : CloneOK(e)'
    BY <1>1, <2>2 DEF CloneOK, TapInv
  <2>. QED BY <2>2, <2>4, <2>5
<1>6. btClone' \in [TapClient -> TapClone] /\ \A e \in TapClient : CloneOK(e)'
  <2>. HIDE DEF new
  <2>1. CASE btClone' = btClone
    BY <1>1, <2>1, SameTap DEF TapInv, TapTypes
  <2>. QED BY <1>1, <1>5, <2>1
<1>7. DirOK' /\ RefreshOK'
  BY <1>1 DEF TapInv, DirOK, RefreshOK
<1>8. TapTypes'
  BY <1>1, <1>2, <1>6, LiveOK DEF TapInv, TapTypes
<1>. QED BY <1>2, <1>6, <1>7, <1>8 DEF TapInv

\* The steps of a refresh.
LEMMA BuildKeeps == ASSUME TapInv, BuildTap PROVE TapInv'
<1>1. btDir' = btDir /\ btRel' = btRel /\ btLive' = btLive /\ btReq' = btReq /\ btClone' = btClone
  BY DEF BuildTap
<1>2. PICK past \in SUBSET (1..TapReleases) :
        \/ btRef' = Ended(FALSE)
        \/ LET new == Appended(btDir.tip, past, LatestFormula)
           IN  btRef' = [btRef EXCEPT !.at = "objects", !.todo = new \ btDir.objs, !.top = Longest(new),
                                      !.keys = btDir.keys \cup past \cup (btRel \cap {LatestFormula})]
  BY DEF BuildTap, TapInv, TapTypes
<1>. DEFINE new == Appended(btDir.tip, past, LatestFormula)
            top == Longest(new)
<1>3. btDir.tip \in Commit /\ btDir.objs \subseteq Commit /\ btDir.keys \subseteq 1..TapReleases
      /\ btRel \subseteq 1..TapReleases /\ btRef \in TapRef
  BY DEF TapInv, TapTypes, TapDir
<1>4. /\ new \subseteq Commit /\ top \in Commit /\ Under(btDir.tip, top)
      /\ \A a \in Commit : Len(a) > 0 /\ Under(a, top) => Under(a, btDir.tip) \/ a \in new
  <2>1. LatestFormula \in 0..TapReleases
    BY LatestIsRelease DEF TapInv
  <2>. QED BY <1>3, <2>1, AppendedChain
<1>5. WholeIn(top, btDir.objs \cup (new \ btDir.objs))
  <2>. HIDE DEF new, top
  <2>. QED BY <1>4 DEF WholeIn, TapInv, DirOK
<1>6. btRef' \in TapRef /\ RefreshOK'
  <2>1. CASE btRef' = Ended(FALSE)
    BY <1>3, <2>1, NothingUnder DEF Ended, NoRef, TapRef, RefreshOK
  <2>2. CASE btRef' = [btRef EXCEPT !.at = "objects", !.todo = new \ btDir.objs, !.top = top,
                                    !.keys = btDir.keys \cup past \cup (btRel \cap {LatestFormula})]
    <3>. HIDE DEF new, top
    <3>1. btRef' \in TapRef /\ btRef'.at = "objects" /\ btRef'.todo = new \ btDir.objs /\ btRef'.top = top
      BY <1>3, <1>4, <2>2 DEF TapRef
    <3>. QED BY <1>1, <1>4, <1>5, <3>1 DEF RefreshOK
  <2>. QED BY <1>2, <2>1, <2>2
<1>7. TapTypes' /\ \A c \in TapClient : ReqOK(c)'
  BY <1>1, <1>6 DEF TapInv, TapTypes, ReqOK
<1>. QED BY <1>1, <1>6, <1>7, SameTap DEF TapInv

\* An object written is one that was still to write.
LEMMA WriteKeeps == ASSUME TapInv, WriteTapObject PROVE TapInv'
<1>1. PICK o \in btRef.todo :
        /\ btDir' = [btDir EXCEPT !.objs = @ \cup {o}]
        /\ btRef' = [btRef EXCEPT !.todo = @ \ {o}, !.at = IF btRef.todo = {o} THEN "info" ELSE "objects"]
  BY DEF WriteTapObject
<1>2. btRel' = btRel /\ btLive' = btLive /\ btReq' = btReq /\ btClone' = btClone /\ btRef.at = "objects"
  BY DEF WriteTapObject
<1>3. btDir \in TapDir /\ btRef \in TapRef /\ o \in Commit
  BY <1>1 DEF TapInv, TapTypes, TapRef
<1>4. /\ btDir' \in TapDir /\ btDir'.tip = btDir.tip /\ btDir'.info = btDir.info
      /\ btDir'.objs = btDir.objs \cup {o}
  BY <1>1, <1>3 DEF TapDir
<1>5. /\ btRef' \in TapRef /\ btRef'.top = btRef.top /\ btRef'.todo = btRef.todo \ {o}
      /\ btRef'.at = IF btRef.todo = {o} THEN "info" ELSE "objects"
  BY <1>1, <1>3 DEF TapRef
<1>6. btDir'.objs \cup btRef'.todo = btDir.objs \cup btRef.todo
  BY <1>1, <1>4, <1>5
<1>7. RefreshOK'
  BY <1>2, <1>4, <1>5, <1>6 DEF TapInv, RefreshOK
<1>8. DirOK'
  BY <1>4 DEF TapInv, DirOK, WholeIn
<1>9. TapTypes' /\ \A c \in TapClient : ReqOK(c)' /\ CloneOK(c)'
  BY <1>2, <1>4, <1>5 DEF TapInv, TapTypes, ReqOK, CloneOK
<1>. QED BY <1>7, <1>8, <1>9 DEF TapInv

\* The refs and the keys are written once all objects are.
LEMMA AdvanceKeeps == ASSUME TapInv, AdvanceTapTip PROVE TapInv'
<1>1. btRel' = btRel /\ btLive' = btLive /\ btReq' = btReq /\ btClone' = btClone
  BY DEF AdvanceTapTip
<1>2. /\ btDir \in TapDir /\ btRef \in TapRef /\ btRef.top \in Commit /\ btRef.keys \subseteq 1..TapReleases
      /\ btDir.tip \in Commit
      /\ \A c \in TapClient : btReq[c].want \in Commit /\ btClone[c].tip \in Commit
  BY DEF TapInv, TapTypes, TapRef, TapDir, TapReq, TapClone
<1>3. ASSUME btRef.at = "info" \/ (btRef.at = "objects" /\ btRef.todo = {}),
             btDir' = [btDir EXCEPT !.info = btRef.top], btRef' = [btRef EXCEPT !.at = "tip"]
      PROVE  TapInv'
  <2>1. /\ btDir' \in TapDir /\ btDir'.tip = btDir.tip /\ btDir'.info = btRef.top /\ btDir'.objs = btDir.objs
        /\ btRef' \in TapRef /\ btRef'.top = btRef.top /\ btRef'.todo = btRef.todo /\ btRef'.at = "tip"
    BY <1>2, <1>3 DEF TapDir, TapRef
  <2>2. btRef.todo = {} /\ btDir.objs \cup btRef.todo = btDir.objs /\ RefreshOK
    BY <1>3 DEF TapInv, RefreshOK
  <2>3. DirOK' /\ RefreshOK'
    BY <1>3, <2>1, <2>2 DEF TapInv, DirOK, RefreshOK
  <2>4. TapTypes' /\ \A c \in TapClient : ReqOK(c)' /\ CloneOK(c)'
    BY <1>1, <2>1 DEF TapInv, TapTypes, ReqOK, CloneOK
  <2>. QED BY <2>3, <2>4 DEF TapInv
<1>4. ASSUME btRef.at = "tip", btDir' = [btDir EXCEPT !.tip = btRef.top], btRef' = [btRef EXCEPT !.at = "keys"]
      PROVE  TapInv'
  <2>1. /\ btDir' \in TapDir /\ btDir'.tip = btRef.top /\ btDir'.info = btDir.info /\ btDir'.objs = btDir.objs
        /\ btRef' \in TapRef /\ btRef'.top = btRef.top /\ btRef'.todo = btRef.todo /\ btRef'.at = "keys"
    BY <1>2, <1>4 DEF TapDir, TapRef
  <2>2. btRef.todo = {} /\ btDir.objs \cup btRef.todo = btDir.objs /\ Under(btDir.tip, btRef.top) /\ RefreshOK
    BY <1>4 DEF TapInv, RefreshOK
  <2>3. DirOK' /\ RefreshOK'
    BY <1>2, <1>4, <2>1, <2>2, UnderItself DEF TapInv, DirOK, RefreshOK
  <2>4. ASSUME NEW c \in TapClient PROVE ReqOK(c)' /\ CloneOK(c)'
    <3>1. /\ Under(btReq[c].want, btDir.tip) => Under(btReq[c].want, btRef.top)
          /\ Under(btClone[c].tip, btDir.tip) => Under(btClone[c].tip, btRef.top)
      BY <1>2, <2>2, UnderTrans
    <3>. QED BY <1>1, <2>1, <3>1 DEF TapInv, ReqOK, CloneOK
  <2>5. TapTypes'
    BY <1>1, <2>1 DEF TapInv, TapTypes
  <2>. QED BY <2>3, <2>4, <2>5 DEF TapInv
<1>5. ASSUME btRef.at = "keys", btDir' = [btDir EXCEPT !.keys = btRef.keys], btRef' = Ended(FALSE)
      PROVE  TapInv'
  <2>1. /\ btDir' \in TapDir /\ btDir'.tip = btDir.tip /\ btDir'.info = btDir.info /\ btDir'.objs = btDir.objs
        /\ btRef' \in TapRef /\ btRef'.at = "end"
    BY <1>2, <1>5, NothingUnder DEF TapDir, TapRef, Ended, NoRef
  <2>2. DirOK' /\ RefreshOK'
    BY <2>1 DEF TapInv, DirOK, RefreshOK
  <2>3. TapTypes' /\ \A c \in TapClient : ReqOK(c)' /\ CloneOK(c)'
    BY <1>1, <2>1 DEF TapInv, TapTypes, ReqOK, CloneOK
  <2>. QED BY <2>2, <2>3 DEF TapInv
<1>. QED BY <1>3, <1>4, <1>5 DEF AdvanceTapTip

\* A refresh ends, and the rest of the world but evictions.
LEMMA RestKeeps ==
    ASSUME TapInv,
           \/ RefreshFails \/ EndRefresh \/ PublishFormula \/ TapExpires \/ DropTapLineage \/ TapCrash
    PROVE  TapInv'
<1>1. btDir' = btDir /\ btClone' = btClone
  BY DEF RefreshFails, EndRefresh, PublishFormula, TapExpires, DropTapLineage, TapCrash
<1>2. btRel' \subseteq 1..TapReleases /\ btLive' \in [there : BOOLEAN, fresh : BOOLEAN, err : BOOLEAN]
  <2>1. btRef.err \in BOOLEAN /\ TapTypes
    BY DEF TapInv, TapTypes, TapRef
  <2>2. CASE EndRefresh
    BY <2>1, <2>2 DEF TapTypes, EndRefresh
  <2>3. CASE TapExpires
    BY <2>1, <2>3 DEF TapTypes, TapExpires
  <2>4. CASE DropTapLineage \/ TapCrash
    <3>1. btLive' = NoLive /\ btRel' = btRel
      BY <2>4 DEF DropTapLineage, TapCrash
    <3>. QED BY <2>1, <3>1 DEF TapTypes, NoLive
  <2>5. CASE RefreshFails \/ PublishFormula
    BY <2>1, <2>5 DEF TapTypes, RefreshFails, PublishFormula
  <2>. QED BY <2>2, <2>3, <2>4, <2>5
<1>3. btRef' \in TapRef /\ RefreshOK'
  <2>1. btRef \in TapRef /\ NoRef \in TapRef /\ NoRef.at = "none"
    BY NothingUnder DEF TapInv, TapTypes, TapRef, NoRef
  <2>2. CASE RefreshFails
    <3>1. btRef' \in TapRef /\ btRef'.at = "end"
      BY <2>1, <2>2 DEF RefreshFails, Ended, NoRef, TapRef
    <3>. QED BY <3>1 DEF RefreshOK
  <2>3. CASE EndRefresh \/ TapCrash
    BY <2>1, <2>3 DEF EndRefresh, TapCrash, RefreshOK
  <2>4. CASE DropTapLineage
    <3>1. CASE btRef.at = "none"
      BY <2>1, <2>4, <3>1 DEF DropTapLineage, RefreshOK
    <3>2. CASE btRef.at # "none"
      <4>1. btRef' \in TapRef /\ btRef'.at = btRef.at /\ btRef'.top = btRef.top /\ btRef'.todo = btRef.todo
        BY <2>1, <2>4, <3>2 DEF DropTapLineage, TapRef
      <4>. QED BY <1>1, <4>1 DEF TapInv, RefreshOK
    <3>. QED BY <3>1, <3>2
  <2>5. CASE PublishFormula \/ TapExpires
    BY <1>1, <2>1, <2>5 DEF PublishFormula, TapExpires, TapInv, RefreshOK
  <2>. QED BY <2>2, <2>3, <2>4, <2>5
<1>4. btReq' \in [TapClient -> TapReq] /\ \A c \in TapClient : ReqOK(c)'
  <2>1. CASE btReq' = btReq
    BY <1>1, <2>1 DEF TapInv, TapTypes, ReqOK
  <2>2. ASSUME EndRefresh \/ TapCrash
        PROVE  btReq' \in [TapClient -> TapReq] /\ \A c \in TapClient : ReqOK(c)'
    <3>1. ASSUME NEW c \in TapClient
          PROVE  btReq'[c] \in {NoReq, btReq[c], [btReq[c] EXCEPT !.at = "open"]}
      <4>1. CASE EndRefresh
        BY <4>1 DEF EndRefresh
      <4>2. CASE TapCrash
        BY <4>2 DEF TapCrash
      <4>. QED BY <2>2, <4>1, <4>2
    <3>2. ASSUME NEW c \in TapClient
          PROVE  /\ btReq'[c] \in TapReq
                 /\ btReq'[c].want = NoCommit \/ (btReq'[c].want = btReq[c].want /\ btReq'[c].lost = btReq[c].lost)
                 /\ btReq'[c].at # "serve" \/ btReq'[c].at = btReq[c].at
      <4>1. CASE btReq'[c] = NoReq
        BY <4>1, ReqFields
      <4>2. CASE btReq'[c] = btReq[c]
        BY <4>2, ReqFields
      <4>3. CASE btReq'[c] = [btReq[c] EXCEPT !.at = "open"]
        <5>1. /\ [btReq[c] EXCEPT !.at = "open"] \in TapReq
              /\ [btReq[c] EXCEPT !.at = "open"].want = btReq[c].want
              /\ [btReq[c] EXCEPT !.at = "open"].lost = btReq[c].lost
              /\ [btReq[c] EXCEPT !.at = "open"].at = "open"
          BY ReqFields
        <5>. QED BY <4>3, <5>1
      <4>. QED BY <3>1, <4>1, <4>2, <4>3
    <3>3. btReq' = [c \in TapClient |-> btReq'[c]]
      BY <2>2 DEF EndRefresh, TapCrash
    <3>4. btReq' \in [TapClient -> TapReq]
      BY <3>2, <3>3
    <3>. QED BY <1>1, <3>2, <3>4 DEF TapInv, ReqOK
  <2>3. btReq' = btReq \/ EndRefresh \/ TapCrash
    BY DEF RefreshFails, PublishFormula, TapExpires, DropTapLineage
  <2>. QED BY <2>1, <2>2, <2>3
<1>5. TapTypes'
  BY <1>1, <1>2, <1>3, <1>4 DEF TapInv, TapTypes
<1>. QED BY <1>1, <1>3, <1>4, <1>5, SameTap DEF TapInv

\* An eviction leaves no lineage, and every clone and request of it lost.
LEMMA EvictKeeps == ASSUME TapInv, EvictTapLineage PROVE TapInv'
<1>1. btRel' = btRel /\ btRef' = btRef /\ btLive' = NoLive /\ btDir' = NoDir /\ btRef.at = "none"
  BY DEF EvictTapLineage, Pinned
<1>2. btDir' \in TapDir /\ btDir'.tip = NoCommit /\ btDir'.info = NoCommit /\ btDir'.objs = {}
  BY <1>1, NothingUnder DEF NoDir, TapDir
<1>3. \A a \in Commit : ~(Len(a) > 0 /\ Under(a, NoCommit))
  BY NothingUnder, CommitLen DEF Under
<1>4. DirOK' /\ RefreshOK'
  BY <1>1, <1>2, <1>3 DEF DirOK, RefreshOK, WholeIn
<1>5. ASSUME NEW c \in TapClient
      PROVE  /\ btReq'[c] \in TapReq /\ btReq'[c].at = btReq[c].at /\ btReq'[c].want = btReq[c].want
             /\ btReq'[c].lost = (btReq[c].want # NoCommit)
             /\ btClone'[c] \in TapClone /\ btClone'[c].tip = btClone[c].tip /\ btClone'[c].objs = btClone[c].objs
             /\ btClone'[c].shallow = btClone[c].shallow /\ btClone'[c].lost = (btClone[c].tip # NoCommit)
  <2>1. btReq[c] \in TapReq /\ btClone[c] \in TapClone
    BY DEF TapInv, TapTypes
  <2>2. /\ btReq'[c] = [btReq[c] EXCEPT !.lost = btReq[c].want # NoCommit]
        /\ btClone'[c] = [btClone[c] EXCEPT !.lost = btClone[c].tip # NoCommit]
    BY DEF EvictTapLineage
  <2>. QED BY <2>1, <2>2 DEF TapReq, TapClone
<1>6. btReq' \in [TapClient -> TapReq] /\ btClone' \in [TapClient -> TapClone]
  <2>1. btReq' = [c \in TapClient |-> btReq'[c]] /\ btClone' = [c \in TapClient |-> btClone'[c]]
    BY DEF EvictTapLineage
  <2>. QED BY <1>5, <2>1
<1>7. ASSUME NEW c \in TapClient PROVE ReqOK(c)' /\ CloneOK(c)'
  BY <1>5 DEF TapInv, ReqOK, CloneOK
<1>8. TapTypes'
  BY <1>1, <1>2, <1>6 DEF TapInv, TapTypes, NoLive
<1>. QED BY <1>4, <1>7, <1>8 DEF TapInv

\* A clone made from packs can always fast-forward to a tip that is whole on disk,
\* though refreshes fail and the server stops half way.
THEOREM ClonesAlwaysFollow == TapSpec => []ClonesFastForward
<1>1. TapInit => TapInv
  <2>. SUFFICES ASSUME TapInit PROVE TapInv
    OBVIOUS
  <2>1. TapTypes
    BY NothingUnder DEF TapInit, TapTypes, TapDir, TapRef, TapReq, TapClone, NoDir, NoLive, NoRef, NoReq, NoClone
  <2>2. \A a \in Commit : ~(Len(a) > 0 /\ Under(a, NoCommit))
    BY NothingUnder, CommitLen DEF Under
  <2>3. DirOK
    BY <2>2 DEF TapInit, DirOK, WholeIn, NoDir
  <2>4. RefreshOK
    BY DEF TapInit, RefreshOK, NoRef
  <2>5. \A c \in TapClient : ReqOK(c) /\ CloneOK(c)
    BY DEF TapInit, ReqOK, CloneOK, NoReq, NoClone
  <2>. QED BY <2>1, <2>3, <2>4, <2>5 DEF TapInv
<1>2. TapInv /\ [TapNext]_btVars => TapInv'
  <2>. SUFFICES ASSUME TapInv, [TapNext]_btVars PROVE TapInv'
    OBVIOUS
  <2>1. CASE UNCHANGED btVars
    BY <2>1 DEF TapInv, TapTypes, DirOK, RefreshOK, ReqOK, CloneOK, btVars
  <2>2. ASSUME NEW c \in TapClient, NEW d \in {0} \cup (IF c \in SmartClient THEN {1} ELSE {}), AwaitTapLineage(c, d)
        PROVE  TapInv'
    BY <2>2, AwaitKeeps
  <2>3. CASE TapNext
    BY <2>2, <2>3, RequestsKeep, PackKeeps, FilesKeep, BuildKeeps, WriteKeeps, AdvanceKeeps, RestKeeps, EvictKeeps
    DEF TapNext
  <2>. QED BY <2>1, <2>3
<1>3. TapInv => ClonesFastForward
  <2>. SUFFICES ASSUME TapInv PROVE ClonesFastForward
    OBVIOUS
  <2>1. TapTypeOK
    BY DEF TapInv, TapTypes, TapDir, TapRef, TapReq, TapTypeOK
  <2>2. TapRefsAreWhole
    <3>1. btDir.tip \in Commit /\ btDir.info \in Commit
      BY DEF TapInv, TapTypes, TapDir
    <3>2. Ancestors(btDir.tip) \cup Ancestors(btDir.info) \subseteq btDir.objs
      BY <3>1, AncestorIff DEF TapInv, DirOK, WholeIn
    <3>. QED BY <3>2 DEF TapInv, CloneOK, TapRefsAreWhole
  <2>3. ASSUME NEW c \in SmartClient PROVE Follows(c, btDir.tip)
    <3>1. c \in TapClient /\ btClone[c].tip \in Commit /\ btDir.tip \in Commit
      BY DEF TapInv, TapTypes, TapDir, TapClone, TapClient
    <3>. QED BY <3>1, PrefixIff DEF TapInv, CloneOK, Follows
  <2>. QED BY <2>1, <2>2, <2>3 DEF ClonesFastForward
<1>. QED BY <1>1, <1>2, <1>3, PTL DEF TapSpec

=============================================================================
