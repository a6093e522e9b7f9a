------------------------- MODULE RepositoriesProofs -------------------------
(***************************************************************************)
(* Proofs about what the server keeps for a repository: the entries of its *)
(* CI cache, what GitHub answered about it, its projects with their pins,  *)
(* names and releases, and who may read them.                              *)
(***************************************************************************)
EXTENDS CICache, GitHubLookups, Projects, Visibility, WellFoundedInduction, FiniteSetTheorems, TLAPS

(***************************************************************************)
(* The CI cache                                                            *)
(***************************************************************************)

CacheTime == 0..MaxCacheTime
CacheRequest == [ref : CacheRef, key : CacheKey, body : CacheBody \cup {NoEntry},
                 found : CacheSlot \cup {NoEntry}, born : CacheTime]

\* Types.
CacheTypes ==
    /\ ceNow \in CacheTime
    /\ ceEntry \in [CacheSlot -> CacheRow \cup {NoEntry}]
    /\ ceAt \in [CacheJob -> {"idle", "insert", "get"}]
    /\ ceReq \in [CacheJob -> CacheRequest]
    /\ ceSince \subseteq CacheSlot
    /\ ceJanitor.at \in {"idle", "expire", "pressure"}
    /\ ceJanitor.time \in CacheTime
    /\ ceJanitor.list \subseteq CacheSlot

\* The janitor's record has its four fields.
JanitorOK == ceJanitor = [at |-> ceJanitor.at, time |-> ceJanitor.time, list |-> ceJanitor.list, rows |-> ceJanitor.rows]

\* An entry was used when it was created or later, and not later than now.
EntriesOK == \A s \in Held : ceEntry[s].created <= ceEntry[s].used /\ ceEntry[s].used <= ceNow

\* A slot on the janitor's list still holds the entry that was listed, as it
\* was then or used since: nobody else deletes.
ListedOK ==
    /\ ceJanitor.time <= ceNow
    /\ ceJanitor.at = "idle" => ceJanitor.list = {}
    /\ \A s \in ceJanitor.list :
         /\ s \in Held
         /\ ceJanitor.rows[s] \in CacheRow
         /\ ceJanitor.rows[s].created = ceEntry[s].created
         /\ ceJanitor.rows[s].created <= ceJanitor.rows[s].used
         /\ ceJanitor.rows[s].used <= ceJanitor.time
         /\ ceEntry[s].used = ceJanitor.rows[s].used \/ s \in ceSince

\* What a job found is still there, or was replaced by a later save, or is
\* gone and was saved before now.
FoundOK(p) ==
    ceAt[p] = "get" =>
        /\ ceReq[p].found \in CacheSlot
        /\ ceReq[p].born <= ceNow
        /\ ceReq[p].found \in Held =>
             \/ ceEntry[ceReq[p].found].created = ceReq[p].born /\ ceEntry[ceReq[p].found].body = ceReq[p].body
             \/ ceEntry[ceReq[p].found].created > ceReq[p].born
        /\ ceReq[p].found \notin Held => ceReq[p].born < ceNow

SavingOK(p) == ceAt[p] = "insert" => ceReq[p].body \in CacheBody

CacheInv == CacheTypes /\ JanitorOK /\ EntriesOK /\ ListedOK /\ \A p \in CacheJob : FoundOK(p) /\ SavingOK(p)

\* A bounded set of numbers has a largest one.
LEMMA Largest ==
    ASSUME NEW S, S \subseteq Nat, S # {}, NEW n \in Nat, \A x \in S : x <= n
    PROVE  \E x \in S : \A y \in S : y <= x
<1>. DEFINE T == {m \in Nat : n - m \in S}
<1>1. \A s \in S : s \in Nat /\ n - s \in Nat /\ n - (n - s) = s
  OBVIOUS
<1>2. T # {}
  BY <1>1
<1>3. PICK x \in T : \A y \in T : ~(<<y, x>> \in OpToRel(<, Nat))
  <2>. HIDE DEF T
  <2>1. T \subseteq Nat
    BY DEF T
  <2>. QED BY <1>2, <2>1, NatLessThanWellFounded, WFMin
<1>4. \A y \in T : ~(y < x)
  BY <1>3 DEF OpToRel
<1>5. \A t \in S : t <= n - x
  BY <1>1, <1>4
<1>. QED BY <1>5

\* The newest entry of a scope is an entry of the scope.
LEMMA NewestIsHeld ==
    ASSUME CacheInv, NEW r \in CacheRef
    PROVE  Newest(r) \in Held \cup {NoEntry}
<1>. DEFINE In == {s \in Held : s[1] = r}
            Top(s) == \A t \in In : \/ ceEntry[t].created < ceEntry[s].created
                                    \/ ceEntry[t].created = ceEntry[s].created /\ t[2] <= s[2]
<1>1. SUFFICES ASSUME In # {} PROVE \E s \in In : Top(s)
  BY DEF Newest
<1>2. \A s \in In : s \in Held /\ ceEntry[s].created \in Nat /\ ceEntry[s].created <= MaxCacheTime /\ s[2] \in CacheKey /\ s[2] \in Nat
  <2>. SUFFICES ASSUME NEW s \in In
                PROVE  /\ s \in Held /\ ceEntry[s].created \in Nat /\ ceEntry[s].created <= MaxCacheTime
                       /\ s[2] \in CacheKey /\ s[2] \in Nat
    OBVIOUS
  <2>1. s \in Held /\ s \in CacheSlot /\ ceEntry[s] # NoEntry
    BY DEF Held
  <2>2. ceEntry[s] \in CacheRow
    BY <2>1 DEF CacheInv, CacheTypes
  <2>3. ceEntry[s].created \in Nat /\ ceEntry[s].created <= MaxCacheTime
    BY <2>2, CacheTimes DEF CacheRow
  <2>4. s[2] \in CacheKey
    BY <2>1 DEF CacheSlot
  <2>. QED BY <2>1, <2>3, <2>4, CacheKeys
<1>. DEFINE C == {ceEntry[s].created : s \in In}
<1>3. PICK c \in C : \A d \in C : d <= c
  <2>1. C \subseteq Nat /\ C # {} /\ (\A d \in C : d <= MaxCacheTime) /\ MaxCacheTime \in Nat
    BY <1>1, <1>2, CacheTimes
  <2>. HIDE DEF C
  <2>. QED BY <2>1, Largest
<1>. DEFINE K == {s[2] : s \in {t \in In : ceEntry[t].created = c}}
<1>4. PICK k \in K : \A d \in K : d <= k
  <2>1. PICK last \in CacheKey : \A d \in CacheKey : d <= last
    BY CacheKeys
  <2>2. K \subseteq Nat /\ K # {} /\ (\A d \in K : d <= last) /\ last \in Nat
    BY <1>2, <1>3, <2>1, CacheKeys
  <2>. HIDE DEF K, C
  <2>. QED BY <2>2, Largest
<1>5. PICK s \in In : ceEntry[s].created = c /\ s[2] = k
  BY <1>4
<1>6. ASSUME NEW t \in In
      PROVE  \/ ceEntry[t].created < ceEntry[s].created
             \/ ceEntry[t].created = ceEntry[s].created /\ t[2] <= s[2]
  <2>1. ceEntry[t].created \in C /\ ceEntry[t].created <= c
    BY <1>3
  <2>2. ceEntry[t].created = c => t[2] \in K /\ t[2] <= k
    BY <1>4
  <2>. HIDE DEF C, K, In
  <2>. QED BY <1>2, <1>5, <2>1, <2>2
<1>. QED BY <1>6

\* What is found is held.
LEMMA FoundIsHeld ==
    ASSUME CacheInv, NEW r \in CacheRef, NEW k \in CacheKey, NEW restore \in BOOLEAN
    PROVE  FindCache(r, k, restore) \in Held \cup {NoEntry}
<1>1. ASSUME NEW f, DOMAIN f \in {1..1, 1..2}, \A i \in DOMAIN f : f[i] \in Held \cup {NoEntry}
      PROVE  FirstOf(f) \in Held \cup {NoEntry}
  <2>. DEFINE hits == {i \in DOMAIN f : f[i] # NoEntry}
  <2>1. hits # {} => \E i \in hits : \A j \in hits : i <= j
    <3>1. \A i \in hits : i \in {1, 2}
      BY <1>1
    <3>. QED BY <3>1
  <2>2. hits # {} => (CHOOSE i \in hits : \A j \in hits : i <= j) \in DOMAIN f
    BY <2>1
  <2>. QED BY <1>1, <2>2 DEF FirstOf
<1>2. DOMAIN Scopes(r) \in {1..1, 1..2} /\ \A i \in DOMAIN Scopes(r) : Scopes(r)[i] \in CacheRef
  BY CacheRefs DEF Scopes
<1>. DEFINE Exact(ref) == IF <<ref, k>> \in Held THEN <<ref, k>> ELSE NoEntry
            e == [i \in DOMAIN Scopes(r) |-> Exact(Scopes(r)[i])]
            n == [i \in DOMAIN Scopes(r) |-> Newest(Scopes(r)[i])]
<1>3. FirstOf(e) \in Held \cup {NoEntry}
  <2>1. DOMAIN e = DOMAIN Scopes(r) /\ \A i \in DOMAIN e : e[i] \in Held \cup {NoEntry}
    OBVIOUS
  <2>. HIDE DEF e
  <2>. QED BY <1>1, <1>2, <2>1
<1>4. FirstOf(n) \in Held \cup {NoEntry}
  <2>1. DOMAIN n = DOMAIN Scopes(r) /\ \A i \in DOMAIN n : n[i] \in Held \cup {NoEntry}
    BY <1>2, NewestIsHeld
  <2>. HIDE DEF n
  <2>. QED BY <1>1, <1>2, <2>1
<1>5. FindCache(r, k, restore) = IF FirstOf(e) # NoEntry \/ ~restore THEN FirstOf(e) ELSE FirstOf(n)
  BY Zenon DEF FindCache
<1>. HIDE DEF e, n
<1>. QED BY <1>3, <1>4, <1>5

\* A request that is not under way.
LEMMA NoRequestFacts == NoRequest \in CacheRequest
<1>1. (CHOOSE k \in CacheKey : TRUE) \in CacheKey
  BY CacheKeys
<1>2. 0 \in CacheTime
  BY CacheTimes DEF CacheTime
<1>. QED BY <1>1, <1>2, CacheRefs DEF NoRequest, CacheRequest

\* An entry that is held.
LEMMA HeldFacts ==
    ASSUME CacheInv, NEW s \in Held
    PROVE  /\ s \in CacheSlot /\ ceEntry[s] \in CacheRow /\ ceEntry[s].body \in CacheBody
           /\ ceEntry[s].created \in CacheTime /\ ceEntry[s].used \in CacheTime
           /\ ceEntry[s].created \in Nat /\ ceEntry[s].used \in Nat
           /\ ceEntry[s].created <= ceEntry[s].used /\ ceEntry[s].used <= ceNow
<1>1. s \in CacheSlot /\ ceEntry[s] \in CacheRow
  BY DEF Held, CacheInv, CacheTypes
<1>2. ceEntry[s].created <= ceEntry[s].used /\ ceEntry[s].used <= ceNow
  BY DEF CacheInv, EntriesOK
<1>. QED BY <1>1, <1>2, CacheTimes DEF CacheRow, CacheTime

\* The requests other than p stay.
OneCacheJob(p) ==
    /\ ceAt' \in [CacheJob -> {"idle", "insert", "get"}] /\ ceReq' \in [CacheJob -> CacheRequest]
    /\ \A q \in CacheJob \ {p} : ceAt'[q] = ceAt[q] /\ ceReq'[q] = ceReq[q]

\* A request gets a step and a record.
LEMMA RequestTo ==
    ASSUME CacheTypes, NEW p \in CacheJob, NEW a \in {"idle", "insert", "get"}, NEW q \in CacheRequest,
           ceAt' = [ceAt EXCEPT ![p] = a], ceReq' = [ceReq EXCEPT ![p] = q]
    PROVE  OneCacheJob(p) /\ ceAt'[p] = a /\ ceReq'[p] = q
BY DEF CacheTypes, OneCacheJob

\* A step of one request that leaves the table alone.
LEMMA RequestStep ==
    ASSUME CacheInv, NEW p \in CacheJob, OneCacheJob(p), FoundOK(p)', SavingOK(p)',
           UNCHANGED <<ceNow, ceEntry, ceJanitor, ceSince>>
    PROVE  CacheInv'
<1>1. Held' = Held
  BY DEF Held
<1>2. CacheTypes'
  BY DEF CacheInv, CacheTypes, OneCacheJob
<1>3. EntriesOK' /\ ListedOK' /\ JanitorOK'
  BY <1>1 DEF CacheInv, EntriesOK, ListedOK, JanitorOK
<1>4. ASSUME NEW q \in CacheJob PROVE FoundOK(q)' /\ SavingOK(q)'
  <2>1. CASE q = p
    BY <2>1
  <2>2. CASE q # p
    BY <1>1, <2>2 DEF CacheInv, FoundOK, SavingOK, OneCacheJob
  <2>. QED BY <2>1, <2>2
<1>. QED BY <1>2, <1>3, <1>4 DEF CacheInv

\* Beginning a save, finding an entry, giving up.
LEMMA LookingActions ==
    ASSUME CacheInv, NEW p \in CacheJob, BeginSave(p) \/ Find(p) \/ GiveUp(p)
    PROVE  CacheInv'
<1>0. CacheTypes /\ UNCHANGED <<ceNow, ceEntry, ceJanitor, ceSince>>
  BY DEF CacheInv, BeginSave, Find, GiveUp
<1>1. CASE BeginSave(p)
  <2>1. PICK r \in CacheRef, k \in CacheKey, b \in CacheBody :
          ceReq' = [ceReq EXCEPT ![p] = [ref |-> r, key |-> k, body |-> b, found |-> NoEntry, born |-> 0]]
    BY <1>1 DEF BeginSave
  <2>. DEFINE q == [ref |-> r, key |-> k, body |-> b, found |-> NoEntry, born |-> 0]
  <2>2. q \in CacheRequest /\ q.body \in CacheBody
    BY CacheTimes DEF CacheRequest, CacheTime
  <2>3. ceAt' = [ceAt EXCEPT ![p] = "insert"] /\ ceReq' = [ceReq EXCEPT ![p] = q]
    BY <1>1, <2>1 DEF BeginSave
  <2>. HIDE DEF q
  <2>4. OneCacheJob(p) /\ ceAt'[p] = "insert" /\ ceReq'[p] = q
    BY <1>0, <2>2, <2>3, RequestTo
  <2>5. FoundOK(p)' /\ SavingOK(p)'
    BY <2>2, <2>4 DEF FoundOK, SavingOK
  <2>. QED BY <1>0, <2>4, <2>5, RequestStep
<1>2. CASE Find(p)
  <2>1. PICK r \in CacheRef, k \in CacheKey, restore \in BOOLEAN :
          LET m == FindCache(r, k, restore)
          IN  /\ m # NoEntry
              /\ ceReq' = [ceReq EXCEPT ![p] = [ref |-> r, key |-> k, found |-> m, body |-> ceEntry[m].body,
                                                born |-> ceEntry[m].created]]
    BY <1>2, Zenon DEF Find
  <2>. DEFINE m == FindCache(r, k, restore)
              q == [ref |-> r, key |-> k, found |-> m, body |-> ceEntry[m].body, born |-> ceEntry[m].created]
  <2>2. m \in Held
    BY <2>1, FoundIsHeld
  <2>3. ceAt' = [ceAt EXCEPT ![p] = "get"] /\ ceReq' = [ceReq EXCEPT ![p] = q]
    BY <1>2, <2>1, Zenon DEF Find
  <2>. HIDE DEF m
  <2>4. m \in CacheSlot /\ ceEntry[m].body \in CacheBody /\ ceEntry[m].created \in CacheTime
        /\ ceEntry[m].created <= ceNow
    <3>1. ceNow \in Nat
      BY <1>0, CacheTimes DEF CacheTypes, CacheTime
    <3>. QED BY <2>2, <3>1, HeldFacts
  <2>5. q \in CacheRequest /\ q.found = m /\ q.body = ceEntry[m].body /\ q.born = ceEntry[m].created
    BY <2>4 DEF CacheRequest
  <2>. HIDE DEF q
  <2>6. OneCacheJob(p) /\ ceAt'[p] = "get" /\ ceReq'[p] = q
    BY <1>0, <2>3, <2>5, RequestTo
  <2>7. Held' = Held
    BY <1>0 DEF Held
  <2>8. FoundOK(p)' /\ SavingOK(p)'
    BY <1>0, <2>2, <2>4, <2>5, <2>6, <2>7 DEF FoundOK, SavingOK
  <2>. QED BY <1>0, <2>6, <2>8, RequestStep
<1>3. CASE GiveUp(p)
  <2>1. OneCacheJob(p) /\ ceAt'[p] = "idle"
    BY <1>0, <1>3, RequestTo, NoRequestFacts DEF GiveUp
  <2>2. FoundOK(p)' /\ SavingOK(p)'
    BY <2>1 DEF FoundOK, SavingOK
  <2>. QED BY <1>0, <2>1, <2>2, RequestStep
<1>. QED BY <1>1, <1>2, <1>3

\* A save puts a row only where there is none.
LEMMA EndSaveAction ==
    ASSUME CacheInv, NEW p \in CacheJob, EndSave(p)
    PROVE  CacheInv'
<1>. DEFINE s == <<ceReq[p].ref, ceReq[p].key>>
            row == [body |-> ceReq[p].body, created |-> ceNow, used |-> ceNow]
<1>0. CacheTypes /\ UNCHANGED <<ceNow, ceJanitor, ceSince>> /\ ceAt[p] = "insert" /\ InsertEntry(s, ceReq[p].body)
  BY DEF CacheInv, EndSave
<1>1. OneCacheJob(p) /\ ceAt'[p] = "idle"
  BY <1>0, RequestTo, NoRequestFacts DEF EndSave
<1>2. FoundOK(p)' /\ SavingOK(p)'
  BY <1>1 DEF FoundOK, SavingOK
<1>3. CASE s \in Held
  <2>1. UNCHANGED ceEntry
    BY <1>0, <1>3 DEF InsertEntry
  <2>. QED BY <1>0, <1>1, <1>2, <2>1, RequestStep
<1>4. CASE s \notin Held
  <2>1. ceEntry' = [ceEntry EXCEPT ![s] = row]
    BY <1>0, <1>4 DEF InsertEntry
  <2>2. s \in CacheSlot
    BY <1>0 DEF CacheTypes, CacheRequest, CacheSlot
  <2>3. ceReq[p].body \in CacheBody
    BY <1>0 DEF CacheInv, SavingOK
  <2>4. row \in CacheRow /\ row # NoEntry /\ row.created = ceNow /\ row.used = ceNow /\ ceNow \in Nat
    BY <1>0, <2>3, CacheTimes, NoEntryAssumption DEF CacheRow, CacheTypes, CacheTime
  <2>. HIDE DEF row, s
  <2>5. /\ ceEntry' \in [CacheSlot -> CacheRow \cup {NoEntry}]
        /\ \A t \in CacheSlot : ceEntry'[t] = IF t = s THEN row ELSE ceEntry[t]
    BY <1>0, <2>1, <2>2, <2>4 DEF CacheTypes
  <2>6. Held' = Held \cup {s}
    BY <2>2, <2>4, <2>5 DEF Held
  <2>7. \A t \in Held : t # s /\ ceEntry'[t] = ceEntry[t]
    BY <1>4, <2>5 DEF Held
  <2>8. CacheTypes'
    BY <1>0, <1>1, <2>5 DEF CacheTypes, OneCacheJob
  <2>9. EntriesOK'
    <3>1. ceEntry'[s] = row
      BY <2>2, <2>5
    <3>. QED BY <1>0, <2>4, <2>6, <2>7, <3>1 DEF CacheInv, EntriesOK
  <2>10. ListedOK' /\ JanitorOK'
    BY <1>0, <2>6, <2>7 DEF CacheInv, ListedOK, JanitorOK
  <2>11. ASSUME NEW q \in CacheJob PROVE FoundOK(q)' /\ SavingOK(q)'
    <3>1. CASE q = p
      BY <1>2, <3>1
    <3>2. CASE q # p
      <4>1. ceAt'[q] = ceAt[q] /\ ceReq'[q] = ceReq[q] /\ FoundOK(q) /\ SavingOK(q)
        BY <1>1, <3>2 DEF OneCacheJob, CacheInv
      <4>2. ceAt[q] = "get" => ceReq[q].born \in Nat
        BY <1>0, CacheTimes DEF CacheTypes, CacheRequest, CacheTime
      <4>3. CASE ceReq[q].found = s
        <5>1. ceEntry'[ceReq[q].found] = row
          BY <2>2, <2>5, <4>3
        <5>. QED BY <1>0, <1>4, <2>4, <2>6, <4>1, <4>2, <4>3, <5>1 DEF FoundOK, SavingOK
      <4>4. CASE ceReq[q].found # s
        BY <1>0, <2>6, <2>7, <4>1, <4>4 DEF FoundOK, SavingOK
      <4>. QED BY <4>3, <4>4
    <3>. QED BY <3>1, <3>2
  <2>. QED BY <2>8, <2>9, <2>10, <2>11 DEF CacheInv
<1>. QED BY <1>3, <1>4

\* A restore marks the entry used.
LEMMA GetAction ==
    ASSUME CacheInv, NEW p \in CacheJob, Get(p)
    PROVE  CacheInv'
<1>. DEFINE s == ceReq[p].found
<1>0. CacheTypes /\ UNCHANGED <<ceNow, ceJanitor>> /\ ceAt[p] = "get"
  BY DEF CacheInv, Get
<1>1. OneCacheJob(p) /\ ceAt'[p] = "idle"
  BY <1>0, RequestTo, NoRequestFacts DEF Get
<1>2. FoundOK(p)' /\ SavingOK(p)'
  BY <1>1 DEF FoundOK, SavingOK
<1>3. CASE UNCHANGED <<ceEntry, ceSince>>
  BY <1>0, <1>1, <1>2, <1>3, RequestStep
<1>4. CASE /\ s \in Held /\ ceEntry' = [ceEntry EXCEPT ![s].used = ceNow]
           /\ ceSince' = IF ceJanitor.at # "idle" THEN ceSince \cup {s} ELSE ceSince
  <2>. DEFINE row == [ceEntry[s] EXCEPT !.used = ceNow]
  <2>1. s \in CacheSlot /\ ceEntry[s] \in CacheRow /\ ceEntry[s].created \in Nat /\ ceEntry[s].used \in Nat
        /\ ceEntry[s].created <= ceEntry[s].used /\ ceEntry[s].used <= ceNow
    BY <1>4, HeldFacts
  <2>2. ceNow \in 0..MaxCacheTime /\ ceNow \in Nat /\ ceEntry' = [ceEntry EXCEPT ![s] = row]
    BY <1>0, <1>4, CacheTimes DEF CacheTypes, CacheTime
  <2>. HIDE DEF s
  <2>3. /\ row \in CacheRow /\ row.created = ceEntry[s].created /\ row.used = ceNow /\ row.body = ceEntry[s].body
    BY <2>1, <2>2 DEF CacheRow
  <2>4. row # NoEntry
    BY <2>3, NoEntryAssumption
  <2>. HIDE DEF row
  <2>5. /\ ceEntry' \in [CacheSlot -> CacheRow \cup {NoEntry}]
        /\ \A t \in CacheSlot : ceEntry'[t] = IF t = s THEN row ELSE ceEntry[t]
    BY <1>0, <2>1, <2>2, <2>3 DEF CacheTypes
  <2>6. Held' = Held
    BY <1>4, <2>1, <2>4, <2>5 DEF Held
  <2>7. \A t \in Held : t \in CacheSlot /\ ceEntry'[t] = IF t = s THEN row ELSE ceEntry[t]
    BY <2>5 DEF Held
  <2>8. CacheTypes'
    BY <1>0, <1>1, <1>4, <2>1, <2>5 DEF CacheTypes, OneCacheJob
  <2>9. EntriesOK'
    <3>1. ceEntry[s].created <= ceNow
      BY <2>1, <2>2
    <3>. QED BY <1>0, <2>2, <2>3, <2>6, <2>7, <3>1 DEF CacheInv, EntriesOK
  <2>10. ListedOK' /\ JanitorOK'
    <3>1. ASSUME NEW t \in ceJanitor.list
          PROVE  /\ t \in Held /\ ceEntry'[t].created = ceEntry[t].created
                 /\ ceEntry'[t].used = ceJanitor.rows[t].used \/ t \in ceSince'
      <4>1. t \in Held /\ (ceEntry[t].used = ceJanitor.rows[t].used \/ t \in ceSince)
        BY DEF CacheInv, ListedOK
      <4>2. ceJanitor.at # "idle"
        BY DEF CacheInv, ListedOK, CacheTypes
      <4>. QED BY <1>4, <2>3, <2>7, <4>1, <4>2
    <3>. QED BY <1>0, <2>6, <3>1 DEF CacheInv, ListedOK, JanitorOK
  <2>11. ASSUME NEW q \in CacheJob PROVE FoundOK(q)' /\ SavingOK(q)'
    <3>1. CASE q = p
      BY <1>2, <3>1
    <3>2. CASE q # p
      <4>1. ceAt'[q] = ceAt[q] /\ ceReq'[q] = ceReq[q] /\ FoundOK(q) /\ SavingOK(q)
        BY <1>1, <3>2 DEF OneCacheJob, CacheInv
      <4>. QED BY <1>0, <2>3, <2>6, <2>7, <4>1 DEF FoundOK, SavingOK
    <3>. QED BY <3>1, <3>2
  <2>. QED BY <2>8, <2>9, <2>10, <2>11 DEF CacheInv
<1>. QED BY <1>3, <1>4 DEF Get

\* What an eviction takes: an entry idle for the grace when the pass began,
\* or used since, and in any case not saved just now.
LEMMA EvictedFacts ==
    ASSUME CacheInv, NEW s \in ceJanitor.list, IdleFor(s) >= PressureGrace
    PROVE  /\ s \in Held /\ ceEntry[s].created < ceNow
           /\ ceJanitor.time - ceEntry[s].used >= PressureGrace \/ s \in ceSince
<1>1. /\ s \in Held /\ ceJanitor.rows[s] \in CacheRow
      /\ ceJanitor.rows[s].created = ceEntry[s].created
      /\ ceJanitor.rows[s].created <= ceJanitor.rows[s].used
      /\ ceJanitor.rows[s].used <= ceJanitor.time
      /\ ceEntry[s].used = ceJanitor.rows[s].used \/ s \in ceSince
      /\ ceJanitor.time <= ceNow
  BY DEF CacheInv, ListedOK
<1>2. ceJanitor.time \in Nat /\ ceNow \in Nat /\ ceJanitor.rows[s].used \in Nat /\ ceEntry[s].created \in Nat
  BY <1>1, CacheTimes DEF CacheInv, CacheTypes, CacheRow, CacheTime
<1>3. ceJanitor.time - ceJanitor.rows[s].used >= PressureGrace
  BY DEF IdleFor
<1>. QED BY <1>1, <1>2, <1>3, CacheTimes

\* The pass goes on without s, and the table with or without it.
LEMMA EvictStep ==
    ASSUME CacheInv, NEW s \in ceJanitor.list, IdleFor(s) >= PressureGrace,
           ceJanitor' = [ceJanitor EXCEPT !.list = @ \ {s}],
           ceEntry' = ceEntry \/ ceEntry' = [ceEntry EXCEPT ![s] = NoEntry],
           UNCHANGED <<ceNow, ceAt, ceReq, ceSince>>
    PROVE  CacheInv'
<1>1. s \in Held /\ ceEntry[s].created < ceNow /\ s \in CacheSlot
  BY EvictedFacts DEF Held
<1>2. /\ ceJanitor'.at = ceJanitor.at /\ ceJanitor'.time = ceJanitor.time
      /\ ceJanitor'.rows = ceJanitor.rows /\ ceJanitor'.list = ceJanitor.list \ {s}
  BY DEF CacheInv, JanitorOK
<1>3. /\ ceEntry' \in [CacheSlot -> CacheRow \cup {NoEntry}]
      /\ \A t \in CacheSlot : t # s => ceEntry'[t] = ceEntry[t]
      /\ ceEntry'[s] = ceEntry[s] \/ ceEntry'[s] = NoEntry
  BY <1>1 DEF CacheInv, CacheTypes
<1>4. /\ \A t \in Held' : t \in Held /\ ceEntry'[t] = ceEntry[t]
      /\ \A t \in Held : t # s => t \in Held' /\ ceEntry'[t] = ceEntry[t]
  BY <1>3 DEF Held
<1>5. CacheTypes' /\ JanitorOK'
  BY <1>2, <1>3 DEF CacheInv, CacheTypes, JanitorOK
<1>6. EntriesOK'
  BY <1>4 DEF CacheInv, EntriesOK
<1>7. ListedOK'
  BY <1>2, <1>4 DEF CacheInv, ListedOK
<1>8. ASSUME NEW q \in CacheJob PROVE FoundOK(q)' /\ SavingOK(q)'
  <2>1. FoundOK(q) /\ SavingOK(q) /\ ceReq[q].born \in Nat /\ ceNow \in Nat /\ ceEntry[s].created \in Nat
    BY <1>1, CacheTimes, HeldFacts DEF CacheInv, CacheTypes, CacheRequest, CacheTime
  <2>2. SUFFICES ASSUME ceAt[q] = "get" PROVE FoundOK(q)'
    BY <2>1 DEF FoundOK, SavingOK
  <2>. DEFINE f == ceReq[q].found
  <2>3. f \in CacheSlot /\ ceReq[q].born <= ceNow
    BY <2>1, <2>2 DEF FoundOK
  <2>4. f \in Held' => \/ ceEntry'[f].created = ceReq[q].born /\ ceEntry'[f].body = ceReq[q].body
                       \/ ceEntry'[f].created > ceReq[q].born
    BY <1>4, <2>1, <2>2 DEF FoundOK
  <2>5. f \notin Held' => ceReq[q].born < ceNow
    <3>1. CASE f = s
      BY <1>1, <2>1, <2>2, <3>1 DEF FoundOK
    <3>2. CASE f # s
      BY <1>4, <2>1, <2>2, <3>2 DEF FoundOK
    <3>. QED BY <3>1, <3>2
  <2>. QED BY <2>3, <2>4, <2>5 DEF FoundOK
<1>. QED BY <1>5, <1>6, <1>7, <1>8 DEF CacheInv

\* The two loops of the janitor.
LEMMA EvictionActions ==
    ASSUME CacheInv, EvictExpired \/ Relieve
    PROVE  /\ CacheInv'
           /\ \E s \in ceJanitor.list :
                /\ \A t \in CacheSlot : t # s => ceEntry'[t] = ceEntry[t]
                /\ ceJanitor.time - ceEntry[s].used >= PressureGrace \/ s \in ceSince
<1>1. PICK s \in ceJanitor.list :
        /\ IdleFor(s) >= PressureGrace
        /\ ceJanitor' = [ceJanitor EXCEPT !.list = @ \ {s}]
        /\ ceEntry' = ceEntry \/ ceEntry' = [ceEntry EXCEPT ![s] = NoEntry]
  <2>1. CASE EvictExpired
    <3>1. PICK s \in ceJanitor.list :
            /\ IdleFor(s) >= CacheKeep
            /\ ceJanitor' = [ceJanitor EXCEPT !.list = @ \ {s}]
            /\ ceEntry' = ceEntry \/ ceEntry' = [ceEntry EXCEPT ![s] = NoEntry]
      BY <2>1 DEF EvictExpired, Evict, LeastRecent, CacheListed
    <3>2. ceJanitor.time \in Nat /\ ceJanitor.rows[s].used \in Nat
      BY CacheTimes DEF CacheInv, CacheTypes, ListedOK, CacheRow, CacheTime
    <3>3. IdleFor(s) >= PressureGrace
      BY <3>1, <3>2, CacheTimes DEF IdleFor
    <3>. QED BY <3>1, <3>3
  <2>2. CASE Relieve
    BY <2>2 DEF Relieve, Evict, LeastRecent, CacheListed
  <2>. QED BY <2>1, <2>2
<1>2. UNCHANGED <<ceNow, ceAt, ceReq, ceSince>>
  BY DEF EvictExpired, Relieve
<1>3. CacheInv'
  BY <1>1, <1>2, EvictStep
<1>4. \A t \in CacheSlot : t # s => ceEntry'[t] = ceEntry[t]
  BY <1>1 DEF CacheInv, CacheTypes
<1>5. ceJanitor.time - ceEntry[s].used >= PressureGrace \/ s \in ceSince
  BY <1>1, EvictedFacts
<1>. QED BY <1>3, <1>4, <1>5

\* The pass begins with what is held, and ends; time passes.
LEMMA SweepActions ==
    ASSUME CacheInv, BeginCacheSweep \/ EndExpiry \/ EndCacheSweep \/ CacheTick
    PROVE  CacheInv'
<1>0. UNCHANGED <<ceEntry, ceAt, ceReq>> /\ Held' = Held /\ CacheTypes /\ ceNow \in Nat
  BY CacheTimes DEF CacheInv, CacheTypes, CacheTime, Held, BeginCacheSweep, EndExpiry, EndCacheSweep, CacheTick
<1>1. ceNow' \in CacheTime /\ ceNow <= ceNow' /\ ceNow' \in Nat
  BY <1>0, CacheTimes DEF CacheTypes, CacheTime, BeginCacheSweep, EndExpiry, EndCacheSweep, CacheTick
<1>2. EntriesOK'
  <2>1. ASSUME NEW s \in Held PROVE ceEntry[s].created <= ceEntry[s].used /\ ceEntry[s].used <= ceNow'
    BY <1>0, <1>1, HeldFacts
  <2>. QED BY <1>0, <2>1 DEF EntriesOK
<1>3. ASSUME NEW q \in CacheJob PROVE FoundOK(q)' /\ SavingOK(q)'
  <2>1. FoundOK(q) /\ SavingOK(q) /\ ceReq[q].born \in Nat
    BY CacheTimes DEF CacheInv, CacheTypes, CacheRequest, CacheTime
  <2>. QED BY <1>0, <1>1, <2>1 DEF FoundOK, SavingOK
<1>4. CacheTypes' /\ JanitorOK' /\ ListedOK'
  <2>1. CASE BeginCacheSweep
    <3>1. /\ ceJanitor' = [at |-> "expire", time |-> ceNow, list |-> Held, rows |-> [s \in Held |-> ceEntry[s]]]
          /\ ceSince' = {} /\ ceNow' = ceNow
      BY <2>1 DEF BeginCacheSweep
    <3>2. /\ ceJanitor'.at = "expire" /\ ceJanitor'.time = ceNow /\ ceJanitor'.list = Held
          /\ \A s \in Held : ceJanitor'.rows[s] = ceEntry[s]
      BY <3>1
    <3>3. JanitorOK'
      BY <3>1 DEF JanitorOK
    <3>4. CacheTypes'
      BY <1>0, <3>1, <3>2 DEF CacheTypes, Held
    <3>5. ListedOK'
      BY <1>0, <3>1, <3>2, HeldFacts DEF ListedOK
    <3>. QED BY <3>3, <3>4, <3>5
  <2>2. CASE EndExpiry
    <3>1. ceJanitor' = [ceJanitor EXCEPT !.at = "pressure"] /\ UNCHANGED <<ceNow, ceSince>>
      BY <2>2 DEF EndExpiry
    <3>2. /\ ceJanitor'.at = "pressure" /\ ceJanitor'.time = ceJanitor.time /\ ceJanitor'.list = ceJanitor.list
          /\ ceJanitor'.rows = ceJanitor.rows /\ JanitorOK'
      BY <3>1 DEF CacheInv, JanitorOK
    <3>. QED BY <1>0, <3>1, <3>2 DEF CacheInv, CacheTypes, ListedOK
  <2>3. CASE EndCacheSweep
    <3>1. ceJanitor' = Resting /\ ceSince' = {} /\ ceNow' = ceNow
      BY <2>3 DEF EndCacheSweep
    <3>2. ceJanitor'.at = "idle" /\ ceJanitor'.time = 0 /\ ceJanitor'.list = {} /\ JanitorOK'
      BY <3>1 DEF Resting, JanitorOK
    <3>. QED BY <1>0, <3>1, <3>2, CacheTimes DEF CacheTypes, ListedOK, CacheTime
  <2>4. CASE CacheTick
    <3>1. UNCHANGED <<ceJanitor, ceSince>>
      BY <2>4 DEF CacheTick
    <3>2. ceJanitor.time \in Nat /\ ceJanitor.time <= ceNow
      BY CacheTimes DEF CacheInv, CacheTypes, CacheTime, ListedOK
    <3>. QED BY <1>0, <1>1, <3>1, <3>2 DEF CacheInv, CacheTypes, JanitorOK, ListedOK
  <2>. QED BY <2>1, <2>2, <2>3, <2>4
<1>. QED BY <1>2, <1>3, <1>4 DEF CacheInv

\* The empty cache.
LEMMA CacheInvInit == CacheInit => CacheInv
<1>. SUFFICES ASSUME CacheInit PROVE CacheInv
  OBVIOUS
<1>1. Held = {}
  BY DEF CacheInit, Held
<1>2. Resting.at = "idle" /\ Resting.time = 0 /\ Resting.list = {} /\ ceJanitor = Resting /\ JanitorOK
  BY DEF Resting, CacheInit, JanitorOK
<1>3. CacheTypes
  BY <1>2, NoRequestFacts, CacheTimes DEF CacheInit, CacheTypes, CacheTime
<1>4. EntriesOK /\ ListedOK
  BY <1>1, <1>2, CacheTimes DEF CacheInit, EntriesOK, ListedOK
<1>5. \A p \in CacheJob : FoundOK(p) /\ SavingOK(p)
  BY DEF CacheInit, FoundOK, SavingOK
<1>. QED BY <1>2, <1>3, <1>4, <1>5 DEF CacheInv

\* A step keeps the invariant.
LEMMA CacheInvStep == CacheInv /\ [CacheNext]_ceVars => CacheInv'
<1>. SUFFICES ASSUME CacheInv, [CacheNext]_ceVars PROVE CacheInv'
  OBVIOUS
<1>1. CASE UNCHANGED ceVars
  BY <1>1 DEF ceVars, CacheInv, CacheTypes, JanitorOK, EntriesOK, ListedOK, FoundOK, SavingOK, Held
<1>. QED BY <1>1, LookingActions, EndSaveAction, GetAction, EvictionActions, SweepActions DEF CacheNext

\* The invariant holds of every behaviour.
LEMMA CacheInvHolds == CacheSpec => []CacheInv
BY CacheInvInit, CacheInvStep, PTL DEF CacheSpec

\* A job restores what it found, or a later save of the key, or is told that
\* there is nothing.
THEOREM RestoresAreOfTheFound == CacheSpec => []RestoresWhatWasFound
<1>1. CacheInv => RestoresWhatWasFound
  BY DEF CacheInv, CacheTypes, CacheRequest, CacheTime, FoundOK, RestoresWhatWasFound, CacheTypeOK, CacheListed
<1>. QED BY <1>1, CacheInvHolds, PTL

\* The janitor takes no entry that was in use when its pass began.
THEOREM EvictionsSpareTheUsed == CacheSpec => EvictionSparesTheUsed
<1>1. ASSUME CacheInv, [CacheNext]_ceVars
      PROVE  [\A s \in Held : ceEntry'[s] = NoEntry =>
                 \/ ceJanitor.time - ceEntry[s].used >= PressureGrace
                 \/ s \in ceSince]_ceVars
  <2>. SUFFICES ASSUME NEW s \in Held, ceEntry'[s] = NoEntry
                PROVE  ceJanitor.time - ceEntry[s].used >= PressureGrace \/ s \in ceSince
    OBVIOUS
  <2>1. s \in CacheSlot /\ ceEntry[s] # NoEntry /\ ceEntry[s] \in CacheRow
    BY <1>1 DEF Held, CacheInv, CacheTypes
  <2>2. CASE EvictExpired \/ Relieve
    BY <1>1, <2>1, <2>2, EvictionActions
  <2>3. ASSUME NEW p \in CacheJob, EndSave(p) PROVE ceEntry'[s] # NoEntry
    <3>. DEFINE t == <<ceReq[p].ref, ceReq[p].key>>
                row == [body |-> ceReq[p].body, created |-> ceNow, used |-> ceNow]
    <3>1. ceEntry' = IF t \in Held THEN ceEntry ELSE [ceEntry EXCEPT ![t] = row]
      BY <2>3 DEF EndSave, InsertEntry
    <3>. HIDE DEF t, row
    <3>. QED BY <1>1, <2>1, <3>1 DEF CacheInv, CacheTypes
  <2>4. ASSUME NEW p \in CacheJob, Get(p) PROVE ceEntry'[s] # NoEntry
    <3>. DEFINE t == ceReq[p].found
                row == [ceEntry[t] EXCEPT !.used = ceNow]
    <3>1. ceEntry' = ceEntry \/ (t \in Held /\ ceEntry' = [ceEntry EXCEPT ![t].used = ceNow])
      BY <2>4 DEF Get
    <3>2. t \in Held => row \in CacheRow
      <4>. SUFFICES ASSUME t \in Held PROVE row \in CacheRow
        OBVIOUS
      <4>1. ceEntry[t] \in CacheRow /\ ceNow \in 0..MaxCacheTime
        BY <1>1, HeldFacts DEF CacheInv, CacheTypes, CacheTime
      <4>. HIDE DEF t
      <4>. QED BY <4>1 DEF CacheRow
    <3>3. t \in Held => row # NoEntry
      BY <3>2, NoEntryAssumption
    <3>4. ceEntry' = ceEntry \/ (t \in Held /\ ceEntry' = [ceEntry EXCEPT ![t] = row])
      BY <3>1
    <3>. HIDE DEF t, row
    <3>. QED BY <1>1, <2>1, <3>3, <3>4 DEF CacheInv, CacheTypes
  <2>5. ceEntry' # ceEntry
    BY <2>1
  <2>. QED BY <1>1, <2>2, <2>3, <2>4, <2>5
           DEF CacheNext, ceVars, BeginSave, Find, GiveUp, BeginCacheSweep, EndExpiry, EndCacheSweep, CacheTick
<1>. QED BY <1>1, CacheInvHolds, PTL DEF CacheSpec, EvictionSparesTheUsed

(***************************************************************************)
(* Cached answers of GitHub                                                *)
(***************************************************************************)

\* When an old answer was last known to be true: now, or when it ended.
Horizon == IF ended = Nothing THEN clock ELSE ended

\* The clock, GitHub and the lock.
LookBase ==
    /\ clock \in 0..MaxTime
    /\ kind \in Kind
    /\ truth \in Value
    /\ ended \in Nat \cup {Nothing}
    /\ (ended = Nothing) <=> (truth = "old")
    /\ ended # Nothing => ended <= clock
    /\ appToken \in Nat \cup {Nothing}
    /\ keyLock \in Asker \cup {Nothing}
    /\ keyLock # Nothing => ask[keyLock].pc \in {"ask", "store"} /\ kind = "keys"

\* A cached answer that is no longer true expires in time.
CachedOK ==
    cached # Nothing =>
        /\ cached \in Answer
        /\ cached.val = "old" => cached.exp <= Horizon + Staleness

\* So does an answer that was given.
ToldOK ==
    told # Nothing =>
        /\ told \in Told
        /\ told.at <= clock
        /\ told.val = "old" => told.at < Horizon + Staleness
        /\ told.token # Nothing => told.token - told.at > Buffer \/ told.token - told.at = TokenLife

\* A question is under way for no longer than its budget, and an old answer was
\* asked for while it was true.
OneAsk(c) ==
    /\ ask[c].pc \in {"idle", "lock", "ask", "store", "token", "mint"}
    /\ ask[c].pc = "lock" => kind = "keys"
    /\ ask[c].pc \in {"ask", "store", "mint"} =>
         /\ ask[c].start \in Nat
         /\ ask[c].start <= clock
         /\ clock <= ask[c].start + Budget
    /\ ask[c].pc = "store" =>
         /\ ask[c].val \in Value \cup {Nothing}
         /\ ask[c].val = "old" => ask[c].start <= Horizon

\* The requests.
AsksOK == ask = [c \in Asker |-> ask[c]] /\ \A c \in Asker : OneAsk(c)

\* The inductive invariant.
LookInv == LookBase /\ CachedOK /\ ToldOK /\ AsksOK

\* Nothing is cached or asked at first.
LEMMA LookInvInit == LookInit => LookInv
BY LookupTimes, NothingAssumption DEF LookInit, LookInv, LookBase, CachedOK, ToldOK, AsksOK, OneAsk, Quiet, Kind, Value

\* What a step of one request does to the requests.
LEMMA AskFrame ==
    ASSUME LookInv, NEW c \in Asker, NEW r, AskGo(c, r), UNCHANGED lookGH, OneAsk(c)'
    PROVE  AsksOK'
<1>1. ask' = [d \in Asker |-> ask'[d]] BY DEF AskGo, LookInv, AsksOK
<1>2. ASSUME NEW d \in Asker, d # c PROVE OneAsk(d)'
  <2>1. ask'[d] = ask[d] BY <1>2 DEF AskGo, LookInv, AsksOK
  <2>2. OneAsk(d) BY DEF LookInv, AsksOK
  <2> QED BY <2>1, <2>2 DEF OneAsk, Horizon, lookGH
<1> QED BY <1>1, <1>2 DEF AsksOK

\* Every step of a request, of GitHub and of time keeps the invariant.
LEMMA LookInvNext == LookInv /\ [LookNext]_lookVars => LookInv'
<1> SUFFICES ASSUME LookInv, [LookNext]_lookVars PROVE LookInv' OBVIOUS
<1> USE LookupTimes, NothingAssumption
<1>0. /\ clock \in Nat /\ Horizon \in Nat /\ Horizon <= clock /\ Staleness \in Nat /\ TTL <= Staleness
      /\ Budget < Staleness
  BY DEF LookInv, LookBase, Horizon, Staleness, Kind
<1>a. ASSUME NEW c \in Asker PROVE OneAsk(c) /\ \A r : AskGo(c, r) => ask'[c] = r
  BY DEF LookInv, AsksOK, AskGo
<1>f. ASSUME UNCHANGED lookGH PROVE Horizon' = Horizon /\ Staleness' = Staleness
  BY <1>f DEF lookGH, Horizon, Staleness
<1>t. ASSUME UNCHANGED lookGH, NEW v \in Value \cup {Nothing}, Tell(v), v = "old" => clock < Horizon + Staleness
      PROVE ToldOK'
  BY <1>t, <1>f, <1>0 DEF ToldOK, Tell, Told, lookGH
<1>c. Fresh /\ CachedOK => cached.val \in Value \cup {Nothing} /\ (cached.val = "old" => clock < Horizon + Staleness)
  BY <1>0 DEF Fresh, CachedOK, Answer
<1>1. CASE UNCHANGED lookVars
  BY <1>1 DEF lookVars, LookInv, LookBase, CachedOK, ToldOK, AsksOK, OneAsk, Horizon, Staleness
<1>2. CASE ChangeTruth
  <2>1. Horizon' = clock /\ Horizon = clock /\ Staleness' = Staleness
    BY <1>2, <1>0 DEF ChangeTruth, Horizon, Staleness, LookInv, LookBase
  <2>2. LookBase' BY <1>2, <1>0 DEF ChangeTruth, LookInv, LookBase, Value
  <2>3. CachedOK' BY <1>2, <2>1 DEF ChangeTruth, LookInv, CachedOK
  <2>4. ToldOK' BY <1>2, <2>1 DEF ChangeTruth, LookInv, ToldOK
  <2>5. AsksOK' BY <1>2, <2>1 DEF ChangeTruth, LookInv, AsksOK, OneAsk
  <2> QED BY <2>2, <2>3, <2>4, <2>5 DEF LookInv
<1>3. CASE PassTime
  <2>1. Horizon' >= Horizon /\ Horizon' \in Nat /\ Staleness' = Staleness
    BY <1>3, <1>0 DEF PassTime, Horizon, Staleness, LookInv, LookBase
  <2>2. LookBase' BY <1>3, <1>0 DEF PassTime, LookInv, LookBase
  <2>3. CachedOK' BY <1>3, <1>0, <2>1 DEF PassTime, LookInv, CachedOK, Answer
  <2>4. ToldOK' BY <1>3, <1>0, <2>1 DEF PassTime, LookInv, ToldOK, Told
  <2>5. ASSUME NEW d \in Asker PROVE OneAsk(d)'
    BY <1>3, <1>0, <2>1, <1>a DEF PassTime, OneAsk
  <2> QED BY <1>3, <2>2, <2>3, <2>4, <2>5 DEF LookInv, AsksOK, PassTime
<1>4. ASSUME NEW c \in Asker, BeginLookup(c) PROVE LookInv'
  <2>0. UNCHANGED <<lookGH, cached, appToken, keyLock>> /\ ask[c].pc = "idle" BY <1>4 DEF BeginLookup, AskAt
  <2>1. OneAsk(c)' BY <1>4, <1>0, <2>0, <1>a DEF BeginLookup, OneAsk, Quiet, lookGH
  <2>2. AsksOK' BY <1>4, <2>0, <2>1, AskFrame DEF BeginLookup
  <2>3. LookBase' BY <2>0, <1>4, <1>a DEF BeginLookup, LookInv, LookBase, lookGH, AskGo, AsksOK
  <2>4. CachedOK' BY <2>0, <1>f DEF LookInv, CachedOK, lookGH
  <2>5. ToldOK'
    <3>1. CASE Fresh BY <3>1, <2>0, <1>4, <1>c, <1>t DEF BeginLookup, LookInv
    <3>2. CASE ~Fresh BY <3>2, <2>0, <1>4, <1>f DEF BeginLookup, LookInv, ToldOK, lookGH
    <3> QED BY <3>1, <3>2
  <2> QED BY <2>2, <2>3, <2>4, <2>5 DEF LookInv
<1>5. ASSUME NEW c \in Asker, LockKeys(c) PROVE LookInv'
  <2>0. UNCHANGED <<lookGH, cached, appToken>> /\ ask[c].pc = "lock" BY <1>5 DEF LockKeys, AskAt
  <2>1. OneAsk(c)' BY <1>5, <1>0, <2>0, <1>a DEF LockKeys, OneAsk, Quiet, lookGH
  <2>2. AsksOK' BY <1>5, <2>0, <2>1, AskFrame DEF LockKeys
  <2>k. kind = "keys" BY <2>0, <1>a DEF OneAsk
  <2>l. \/ keyLock' = keyLock /\ keyLock = Nothing
        \/ keyLock' = c /\ ask'[c].pc = "ask"
    BY <1>5, <1>a DEF LockKeys
  <2>3. LookBase' BY <2>0, <2>k, <2>l DEF LookInv, LookBase, lookGH
  <2>4. CachedOK' BY <2>0, <1>f DEF LookInv, CachedOK, lookGH
  <2>5. ToldOK'
    <3>1. CASE Fresh BY <3>1, <2>0, <1>5, <1>c, <1>t DEF LockKeys, LookInv
    <3>2. CASE ~Fresh BY <3>2, <2>0, <1>5, <1>f DEF LockKeys, LookInv, ToldOK, lookGH
    <3> QED BY <3>1, <3>2
  <2> QED BY <2>2, <2>3, <2>4, <2>5 DEF LookInv
<1>6. ASSUME NEW c \in Asker, HearGitHub(c) PROVE LookInv'
  <2>0. UNCHANGED <<lookGH, cached, appToken, keyLock, told>> /\ ask[c].pc = "ask" BY <1>6 DEF HearGitHub, AskAt
  <2>p. PICK v \in {truth, Nothing} : AskGo(c, [pc |-> "store", start |-> ask[c].start, val |-> v])
    BY <1>6 DEF HearGitHub
  <2>b. ask[c].start \in Nat /\ ask[c].start <= clock /\ clock <= ask[c].start + Budget
    BY <2>0, <1>a DEF OneAsk
  <2>h. v \in Value \cup {Nothing} /\ (v = "old" => Horizon = clock)
    BY DEF LookInv, LookBase, Horizon, Value
  <2>c. ask'[c] = [pc |-> "store", start |-> ask[c].start, val |-> v] BY <2>p, <1>a
  <2>1. OneAsk(c)' BY <2>b, <2>h, <2>c, <2>0, <1>f DEF OneAsk, lookGH
  <2>2. AsksOK' BY <2>p, <2>0, <2>1, AskFrame
  <2>3. LookBase' BY <2>0, <2>p, <1>a DEF LookInv, LookBase, lookGH, AskGo, AsksOK
  <2>4. CachedOK' BY <2>0, <1>f DEF LookInv, CachedOK, lookGH
  <2>5. ToldOK' BY <2>0, <1>f DEF LookInv, ToldOK, lookGH
  <2> QED BY <2>2, <2>3, <2>4, <2>5 DEF LookInv
<1>7. ASSUME NEW c \in Asker, StoreAnswer(c) PROVE LookInv'
  <2>0. UNCHANGED <<lookGH, appToken>> /\ ask[c].pc = "store" BY <1>7 DEF StoreAnswer, AskAt
  <2>b. OneAsk(c) BY <1>a
  <2>1. OneAsk(c)' BY <1>7, <1>0, <2>0, <1>a DEF StoreAnswer, OneAsk, Quiet, lookGH
  <2>2. AsksOK' BY <1>7, <2>0, <2>1, AskFrame DEF StoreAnswer
  <2>3. LookBase' BY <2>0, <1>7, <1>a DEF StoreAnswer, LookInv, LookBase, lookGH, AskGo, AsksOK
  <2>v. /\ ask[c].val \in Value \cup {Nothing} /\ ask[c].start \in Nat /\ ask[c].start <= clock
        /\ clock <= ask[c].start + Budget /\ (ask[c].val = "old" => ask[c].start <= Horizon)
    BY <2>0, <2>b DEF OneAsk
  <2>k. /\ Kept(ask[c].start, ask[c].val) \in Nat
        /\ ask[c].val = "old" => Kept(ask[c].start, ask[c].val) <= Horizon + Staleness
    BY <2>v, <1>0 DEF Kept, Staleness, Value
  <2>4. CachedOK'
    <3>1. CASE cached' = cached BY <3>1, <2>0, <1>f DEF LookInv, CachedOK
    <3>2. CASE cached' = [val |-> ask[c].val, exp |-> Kept(ask[c].start, ask[c].val)]
      BY <3>2, <2>0, <1>f, <2>k, <2>v DEF CachedOK, Answer
    <3> QED BY <3>1, <3>2, <1>7 DEF StoreAnswer
  <2>5. ToldOK' BY <1>7, <1>t, <2>0, <2>v, <1>0 DEF StoreAnswer
  <2> QED BY <2>2, <2>3, <2>4, <2>5 DEF LookInv
<1>8. ASSUME NEW c \in Asker, UseToken(c) PROVE LookInv'
  <2>0. UNCHANGED <<lookGH, cached, appToken, keyLock>> /\ ask[c].pc = "token" BY <1>8 DEF UseToken, AskAt
  <2>1. OneAsk(c)' BY <1>8, <1>0, <2>0, <1>a DEF UseToken, OneAsk, Quiet, lookGH
  <2>2. AsksOK' BY <1>8, <2>0, <2>1, AskFrame DEF UseToken
  <2>3. LookBase' BY <2>0, <1>8, <1>a DEF UseToken, LookInv, LookBase, lookGH, AskGo, AsksOK
  <2>4. CachedOK' BY <2>0, <1>f DEF LookInv, CachedOK, lookGH
  <2>5. ToldOK'
    <3>1. CASE TokenGood
      BY <3>1, <2>0, <1>8, <1>0, <1>f DEF UseToken, TokenGood, LookInv, LookBase, ToldOK, Told, lookGH, Value
    <3>2. CASE ~TokenGood BY <3>2, <2>0, <1>8, <1>f DEF UseToken, LookInv, ToldOK, lookGH
    <3> QED BY <3>1, <3>2
  <2> QED BY <2>2, <2>3, <2>4, <2>5 DEF LookInv
<1>9. ASSUME NEW c \in Asker, MintToken(c) PROVE LookInv'
  <2>0. UNCHANGED <<lookGH, cached, keyLock>> /\ ask[c].pc = "mint" BY <1>9 DEF MintToken, AskAt
  <2>1. OneAsk(c)' BY <1>9, <1>0, <2>0, <1>a DEF MintToken, OneAsk, Quiet, lookGH
  <2>2. AsksOK' BY <1>9, <2>0, <2>1, AskFrame DEF MintToken
  <2>3. LookBase' BY <2>0, <1>9, <1>a, <1>0 DEF MintToken, LookInv, LookBase, lookGH, AskGo, AsksOK
  <2>4. CachedOK' BY <2>0, <1>f DEF LookInv, CachedOK, lookGH
  <2>5. ToldOK'
    <3>1. CASE UNCHANGED told BY <3>1, <2>0, <1>f DEF LookInv, ToldOK, lookGH
    <3>2. CASE told' = [val |-> Nothing, at |-> clock, token |-> clock + TokenLife]
      BY <3>2, <2>0, <1>0, <1>f DEF ToldOK, Told, lookGH, Value
    <3> QED BY <3>1, <3>2, <1>9 DEF MintToken
  <2> QED BY <2>2, <2>3, <2>4, <2>5 DEF LookInv
<1> QED BY <1>1, <1>2, <1>3, <1>4, <1>5, <1>6, <1>7, <1>8, <1>9 DEF LookNext, LookStep

\* However lookups of one entry overlap, no answer about access is given TTL after
\* GitHub stopped giving it, none about a branch or a key TTL and one lookup after
\* (canAccessRepo, GitHubDefaultBranch, getKeys), and a request authenticates with
\* a token that stays good for a while (installationToken).
THEOREM LookupsStayCurrent == LookSpec => []LookupsAreCurrent
<1>1. LookInv => LookupsAreCurrent
  BY LookupTimes, NothingAssumption
  DEF LookInv, LookBase, ToldOK, LookupsAreCurrent, LookTypeOK, StaleForAWhile, TokensOutliveRequests, Horizon
<1> QED BY LookInvInit, LookInvNext, <1>1, PTL DEF LookSpec

(***************************************************************************)
(* A pin stays                                                             *)
(***************************************************************************)

\* The rename a request has probed.
RenameOf == [id : Id, old : ProjectName, new : ProjectName, was : Id \cup {None}]

\* What each request has at each of its statements.
CallOK(v) ==
    \/ v = Idle
    \/ v \in [pc : {"list"}, repo : Repo, owner : Owner, root : Root, name : ProjectName]
    \/ /\ v \in [pc : {"probe", "rename"}, repo : Repo, owner : Owner, root : Root, name : ProjectName,
                 todo : SUBSET [id : Id, name : ProjectName],
                 to : {None} \cup RenameOf]
       /\ v.pc = "rename" => v.to \in RenameOf
    \/ v \in [pc : {"provision"}, repo : Repo, owner : Owner, root : Root, name : ProjectName,
              id : {None}, seen : {None}]
    \/ v \in [pc : {"guard", "act"}, repo : Repo, owner : Owner, root : Root, name : ProjectName,
              id : Id, seen : ProjectRow]
    \/ v.pc = "depends"
    \/ /\ v = [pc |-> v.pc, src |-> v.src, dst |-> v.dst, plan |-> v.plan, name |-> v.name,
               dname |-> v.dname]
       /\ v.pc \in {"replan", "merge"} /\ v.src \in Id /\ v.dst \in Id /\ v.src # v.dst
       /\ v.name \in ProjectName

\* Ids are handed out in order, and a project that was merged away keeps its id.
UsedIds == {i \in Id : proj[i] # None \/ into[i] # None}

RowsOK ==
    /\ proj \in [Id -> ProjectRow \cup {None}]
    /\ into \in [Id -> Id \cup {None}]
    /\ alias \in [ProjectName -> Id \cup {None}]
    /\ \A n \in ProjectName : alias[n] # None => proj[alias[n]] # None
    /\ \E m \in 0..MaxProjects : UsedIds = 1..m
    /\ DOMAIN repo = Repo
    /\ \A r \in Repo : repo[r] # None => repo[r].name \in Root /\ repo[r].owner \in Owner

CallsOK == DOMAIN call = Caller /\ \A c \in Caller : CallOK(call[c])

\* A request that read a pin finds it there, until a request that read none replaced it.
SeenOK ==
    \A c \in Caller : call[c].pc = "guard" =>
        LET i == call[c].id IN
        /\ i \in UsedIds
        /\ call[c].seen.pin # None /\ proj[i] # None =>
             proj[i].pin # None /\ (i \in contested \/ proj[i].pin = call[c].seen.pin)

PinInv == RowsOK /\ CallsOK /\ SeenOK

\* A request that goes on to another statement.
LEMMA GoesOn ==
    ASSUME CallsOK, NEW c \in Caller, NEW r, Go(c, r), CallOK(r)
    PROVE  CallsOK' /\ call'[c] = r /\ \A d \in Caller \ {c} : call'[d] = call[d]
<1>1. DOMAIN call' = Caller /\ call'[c] = r /\ \A d \in Caller \ {c} : call'[d] = call[d]
  BY DEF Go, CallsOK
<1>2. ASSUME NEW d \in Caller PROVE CallOK(call'[d])
  BY <1>1 DEF CallsOK
<1>. QED BY <1>1, <1>2 DEF CallsOK

\* Requests that have read nothing to guard.
LEMMA GoesOnUnseen ==
    ASSUME PinInv, NEW c \in Caller, NEW r, Go(c, r), CallOK(r), r.pc # "guard",
           UNCHANGED <<proj, into, contested>>
    PROVE  CallsOK' /\ SeenOK'
<1>1. CallsOK' /\ call'[c] = r /\ \A d \in Caller \ {c} : call'[d] = call[d]
  BY GoesOn DEF PinInv
<1>2. UsedIds' = UsedIds
  BY DEF UsedIds
<1>. QED BY <1>1, <1>2 DEF PinInv, SeenOK

\* Rows that do not change.
LEMMA RowsStay ==
    ASSUME RowsOK, UNCHANGED <<proj, alias, into, repo>>
    PROVE  RowsOK'
BY DEF RowsOK, UsedIds

\* A project renamed into a namespace has a name of that namespace.
LEMMA RenamedIsName ==
    ASSUME NEW n \in ProjectName, NEW root \in Root, RenamedNamespaceName(n, root) # None
    PROVE  RenamedNamespaceName(n, root) \in ProjectName
<1>1. CASE \E r \in Root : n = <<r>>
  BY <1>1 DEF RenamedNamespaceName, ProjectName
<1>2. CASE \E r \in Root, d \in Child : n = <<r, d>>
  BY <1>2 DEF RenamedNamespaceName, ProjectName
<1>. QED BY <1>1, <1>2 DEF ProjectName

\* A new project takes an id no project had.
LEMMA InsertIsFresh ==
    ASSUME RowsOK, NEW n \in ProjectName, NEW p \in Repo \cup {None}, NEW o \in Owner \cup {None},
           InsertProject(n, p, o), UNCHANGED repo
    PROVE  /\ RowsOK' /\ NewId \in Id \ UsedIds
           /\ proj'[NewId] = [name |-> n, pin |-> p, owner |-> o]
           /\ \A i \in Id \ {NewId} : proj'[i] = proj[i]
           /\ UNCHANGED <<into, contested>>
<1>1. PICK m \in 0..MaxProjects : UsedIds = 1..m
  BY DEF RowsOK
<1>2. Cardinality(1..m) = m
  BY <1>1, FS_Interval, ProjectBounds
<1>3. NewId = m + 1
  BY <1>1, <1>2 DEF NewId, UsedIds
<1>4. NewId \in Id \ UsedIds
  BY <1>1, <1>3, ProjectBounds DEF InsertProject
<1>. DEFINE row == [name |-> n, pin |-> p, owner |-> o]
<1>5. row \in ProjectRow /\ row # None
  BY NoneAssumption DEF ProjectRow
<1>. DEFINE id == NewId
<1>6. proj' = [proj EXCEPT ![id] = row] /\ UNCHANGED <<into, alias, contested>>
  BY DEF InsertProject
<1>. HIDE DEF row, id
<1>7. id \in Id \ UsedIds /\ id = m + 1
  BY <1>3, <1>4 DEF id
<1>8. /\ proj' \in [Id -> ProjectRow \cup {None}] /\ proj'[id] = row
      /\ \A i \in Id \ {id} : proj'[i] = proj[i]
  BY <1>5, <1>6, <1>7 DEF RowsOK
<1>9. UsedIds' = UsedIds \cup {id}
  BY <1>5, <1>6, <1>7, <1>8 DEF UsedIds
<1>10. UsedIds' = 1..(m + 1) /\ m + 1 \in 0..MaxProjects
  BY <1>1, <1>7, <1>9, ProjectBounds DEF Id
<1>11. \A k \in ProjectName : alias'[k] # None => proj'[alias'[k]] # None
  BY <1>5, <1>6, <1>8 DEF RowsOK
<1>12. RowsOK'
  BY <1>6, <1>8, <1>10, <1>11 DEF RowsOK
<1>. QED BY <1>6, <1>7, <1>8, <1>12 DEF row, id

\* What Resolve answers is a project that is there.
LEMMA ResolvesToLive ==
    ASSUME RowsOK, NEW n \in ProjectName, Resolve(n) # None
    PROVE  Resolve(n) \in Id /\ proj[Resolve(n)] \in ProjectRow
<1>1. CASE Named(n) # {}
  BY <1>1 DEF Resolve, Named, Live, RowsOK
<1>2. CASE Named(n) = {}
  BY <1>2 DEF Resolve, RowsOK
<1>. QED BY <1>1, <1>2

\* The label of a request tells what it has.
LEMMA CallShapes ==
    ASSUME NEW v, CallOK(v)
    PROVE  /\ v.pc = "list" =>
                v \in [pc : {"list"}, repo : Repo, owner : Owner, root : Root, name : ProjectName]
           /\ v.pc \in {"probe", "rename"} =>
                /\ v \in [pc : {"probe", "rename"}, repo : Repo, owner : Owner, root : Root,
                          name : ProjectName, todo : SUBSET [id : Id, name : ProjectName],
                          to : {None} \cup RenameOf]
                /\ v.pc = "rename" => v.to \in RenameOf
           /\ v.pc = "provision" =>
                v \in [pc : {"provision"}, repo : Repo, owner : Owner, root : Root, name : ProjectName,
                       id : {None}, seen : {None}]
           /\ v.pc \in {"guard", "act"} =>
                v \in [pc : {"guard", "act"}, repo : Repo, owner : Owner, root : Root,
                       name : ProjectName, id : Id, seen : ProjectRow]
           /\ v.pc \in {"replan", "merge"} =>
                /\ v = [pc |-> v.pc, src |-> v.src, dst |-> v.dst, plan |-> v.plan, name |-> v.name,
                        dname |-> v.dname]
                /\ v.src \in Id /\ v.dst \in Id /\ v.src # v.dst /\ v.name \in ProjectName
BY DEF CallOK, Idle

\* The steps that only look keep the invariant.
LEMMA LooksKeepPins ==
    ASSUME PinInv, NEW c \in Caller,
           BeginWrite(c) \/ ListProjects(c) \/ ProbeName(c) \/ MakeRelease(c) \/ DeploySite(c)
             \/ CheckDepends(c) \/ StoreDepends(c) \/ PlanMerge(c) \/ RecheckMerge(c) \/ EndCall(c)
    PROVE  PinInv'
<1>. DEFINE v == call[c]
<1>1. CallOK(v)
  BY DEF PinInv, CallsOK
<1>2. UNCHANGED <<proj, alias, into, repo, contested>>
  BY DEF BeginWrite, ListProjects, ProbeName, MakeRelease, DeploySite, CheckDepends, StoreDepends,
     PlanMerge, RecheckMerge, EndCall, ptables, phistory, repos
<1>3. RowsOK'
  BY <1>2, RowsStay DEF PinInv
<1>4. SUFFICES ASSUME TRUE PROVE \E r : Go(c, r) /\ CallOK(r) /\ r.pc # "guard"
  BY <1>2, <1>3, GoesOnUnseen DEF PinInv
<1>5. CallOK(Idle) /\ Idle.pc # "guard"
  BY DEF CallOK, Idle
<1>6. CASE BeginWrite(c)
  <2>1. PICK r \in Repo, n \in ProjectName :
          /\ repo[r] # None
          /\ Go(c, [pc |-> "list", repo |-> r, owner |-> repo[r].owner, root |-> repo[r].name,
                    name |-> n])
    BY <1>6 DEF BeginWrite
  <2>2. repo[r].name \in Root /\ repo[r].owner \in Owner
    BY <2>1 DEF PinInv, RowsOK
  <2>. DEFINE new == [pc |-> "list", repo |-> r, owner |-> repo[r].owner, root |-> repo[r].name,
                      name |-> n]
  <2>3. CallOK(new) /\ new.pc # "guard"
    BY <2>2 DEF CallOK
  <2>. QED BY <2>1, <2>3
<1>7. CASE ListProjects(c)
  <2>. DEFINE mine == {i \in Live : proj[i].pin = call[c].repo}
              todo == {[id |-> i, name |-> proj[i].name] : i \in mine}
              new  == [pc |-> "probe", repo |-> call[c].repo, owner |-> call[c].owner,
                       root |-> call[c].root, name |-> call[c].name, todo |-> todo, to |-> None]
  <2>1. Go(c, new) /\ v.pc = "list"
    BY <1>7 DEF ListProjects, At
  <2>2. todo \in SUBSET [id : Id, name : ProjectName]
    BY DEF PinInv, RowsOK, Live, ProjectRow
  <2>3. v \in [pc : {"list"}, repo : Repo, owner : Owner, root : Root, name : ProjectName]
    BY <1>1, <2>1, CallShapes
  <2>. HIDE DEF todo
  <2>4. CallOK(new) /\ new.pc # "guard"
    BY <2>2, <2>3 DEF CallOK
  <2>. QED BY <2>1, <2>4
<1>8. CASE ProbeName(c)
  <2>1. PICK p \in call[c].todo :
          LET new  == RenamedNamespaceName(p.name, call[c].root)
              rest == [call[c] EXCEPT !.todo = @ \ {p}] IN
          IF new # None /\ NameAvailableTo(new, p.id)
          THEN Go(c, [rest EXCEPT !.pc = "rename", !.to = [id |-> p.id, old |-> p.name, new |-> new, was |-> alias[new]]])
          ELSE Go(c, rest)
    BY <1>8, ZenonT(30) DEF ProbeName
  <2>2. /\ v.pc = "probe"
        /\ v \in [pc : {"probe", "rename"}, repo : Repo, owner : Owner, root : Root,
                  name : ProjectName, todo : SUBSET [id : Id, name : ProjectName],
                  to : {None} \cup RenameOf]
    BY <1>1, <1>8, CallShapes DEF ProbeName, At
  <2>3. p \in [id : Id, name : ProjectName] /\ v.root \in Root
    BY <2>1, <2>2
  <2>. DEFINE new  == RenamedNamespaceName(p.name, call[c].root)
              rest == [call[c] EXCEPT !.todo = @ \ {p}]
              to   == [id |-> p.id, old |-> p.name, new |-> new, was |-> alias[new]]
              next == [rest EXCEPT !.pc = "rename", !.to = to]
  <2>4. CallOK(rest) /\ rest.pc # "guard"
    BY <2>2 DEF CallOK
  <2>5. CASE new # None /\ NameAvailableTo(new, p.id)
    <3>1. new \in ProjectName
      BY <2>3, <2>5, RenamedIsName
    <3>. HIDE DEF new
    <3>2. to \in RenameOf
      BY <2>3, <3>1 DEF PinInv, RowsOK, RenameOf
    <3>. HIDE DEF to
    <3>4. CallOK(next) /\ next.pc # "guard"
      BY <2>2, <3>2 DEF CallOK
    <3>5. Go(c, next)
      BY <2>1, <2>5 DEF new, to
    <3>. QED BY <3>4, <3>5
  <2>6. CASE ~(new # None /\ NameAvailableTo(new, p.id))
    <3>1. Go(c, rest)
      BY <2>1, <2>6
    <3>. QED BY <2>4, <3>1
  <2>. QED BY <2>5, <2>6
<1>9. CASE MakeRelease(c) \/ DeploySite(c) \/ StoreDepends(c) \/ EndCall(c)
  BY <1>5, <1>9 DEF MakeRelease, DeploySite, StoreDepends, EndCall
<1>10. CASE CheckDepends(c)
  <2>1. PICK n : Go(c, [pc |-> "depends", id |-> call[c].id, names |-> {proj[Resolve(n)].name}])
    BY <1>10 DEF CheckDepends
  <2>2. CallOK([pc |-> "depends", id |-> call[c].id, names |-> {proj[Resolve(n)].name}])
    BY DEF CallOK
  <2>. QED BY <2>1, <2>2
<1>11. CASE PlanMerge(c)
  <2>1. PICK src, dst \in Id :
          /\ Mergeable(src, dst)
          /\ Go(c, [pc |-> "replan", src |-> src, dst |-> dst, plan |-> Plan(src, dst),
                    name |-> proj[src].name, dname |-> proj[dst].name])
    BY <1>11 DEF PlanMerge
  <2>2. proj[src].name \in ProjectName /\ src # dst
    BY <2>1 DEF Mergeable, Live, PinInv, RowsOK, ProjectRow
  <2>3. CallOK([pc |-> "replan", src |-> src, dst |-> dst, plan |-> Plan(src, dst),
                name |-> proj[src].name, dname |-> proj[dst].name])
    BY <2>2 DEF CallOK
  <2>. QED BY <2>1, <2>3
<1>12. CASE RecheckMerge(c)
  <2>1. v.pc = "replan" /\ (Go(c, [v EXCEPT !.pc = "merge"]) \/ Go(c, Idle))
    BY <1>12 DEF RecheckMerge, At
  <2>. DEFINE new == [v EXCEPT !.pc = "merge"]
  <2>2. /\ v = [pc |-> v.pc, src |-> v.src, dst |-> v.dst, plan |-> v.plan, name |-> v.name,
                dname |-> v.dname]
        /\ v.src \in Id /\ v.dst \in Id /\ v.src # v.dst /\ v.name \in ProjectName
    BY <1>1, <2>1, CallShapes
  <2>. HIDE DEF v
  <2>3. new = [pc |-> "merge", src |-> v.src, dst |-> v.dst, plan |-> v.plan, name |-> v.name,
               dname |-> v.dname]
    BY <2>2
  <2>4. CallOK(new) /\ new.pc # "guard"
    BY <2>2, <2>3 DEF CallOK
  <2>. QED BY <1>5, <2>1, <2>4
<1>. QED BY <1>6, <1>7, <1>8, <1>9, <1>10, <1>11, <1>12

\* A rename keeps the pin.
LEMMA RenameKeepsPins ==
    ASSUME PinInv, NEW c \in Caller, RenameProject(c)
    PROVE  /\ PinInv'
           /\ \A i \in Id : proj[i] # None /\ proj'[i] # None => proj'[i].pin = proj[i].pin
<1>. DEFINE v == call[c]
            t == call[c].to
            new == [v EXCEPT !.pc = "probe", !.to = None]
<1>1. /\ v.pc = "rename" /\ t \in RenameOf
      /\ v \in [pc : {"probe", "rename"}, repo : Repo, owner : Owner, root : Root,
                name : ProjectName, todo : SUBSET [id : Id, name : ProjectName],
                to : {None} \cup RenameOf]
  BY CallShapes DEF RenameProject, At, PinInv, CallsOK
<1>2. CallOK(new) /\ new.pc = "probe" /\ Go(c, new) /\ UNCHANGED <<repo, into, contested>>
  BY <1>1 DEF CallOK, RenameProject, repos, phistory
<1>. DEFINE a == t.id
<1>3. t.id \in Id /\ t.old \in ProjectName /\ t.new \in ProjectName
  BY <1>1 DEF RenameOf
<1>4. CASE UNCHANGED <<proj, alias>>
  BY <1>2, <1>4, RowsStay, GoesOnUnseen DEF PinInv
<1>5. CASE /\ t.id \in Live
           /\ proj' = [proj EXCEPT ![t.id].name = t.new]
           /\ alias' = [alias EXCEPT ![t.new] = None, ![t.old] = t.id]
  <2>. HIDE DEF new, v, t
  <2>1. proj[t.id] \in ProjectRow
    BY <1>3, <1>5 DEF Live, PinInv, RowsOK
  <2>2. /\ proj'[t.id] \in ProjectRow /\ proj'[t.id].pin = proj[t.id].pin
        /\ \A i \in Id \ {t.id} : proj'[i] = proj[i]
        /\ proj' \in [Id -> ProjectRow \cup {None}]
    BY <1>3, <1>5, <2>1 DEF PinInv, RowsOK, ProjectRow
  <2>3. \A i \in Id : (proj'[i] # None <=> proj[i] # None) /\ (proj[i] # None => proj'[i].pin = proj[i].pin)
    BY <2>1, <2>2, NoneAssumption
  <2>4. /\ alias' \in [ProjectName -> Id \cup {None}]
        /\ \A n \in ProjectName : alias'[n] # None => proj[alias'[n]] # None
    BY <1>3, <1>5 DEF PinInv, RowsOK, Live
  <2>5. UsedIds' = UsedIds
    BY <1>2, <2>3 DEF UsedIds
  <2>6. RowsOK'
    BY <1>2, <2>2, <2>3, <2>4, <2>5 DEF PinInv, RowsOK
  <2>7. CallsOK' /\ call'[c] = new /\ \A d \in Caller \ {c} : call'[d] = call[d]
    BY <1>2, GoesOn DEF PinInv
  <2>8. UsedIds \subseteq Id
    BY DEF UsedIds
  <2>9. SeenOK'
    BY <1>2, <2>3, <2>5, <2>7, <2>8 DEF PinInv, SeenOK
  <2>. QED BY <2>3, <2>6, <2>7, <2>9 DEF PinInv
<1>. QED BY <1>4, <1>5 DEF RenameProject, ptables

\* A merge keeps the pins of the projects it leaves.
LEMMA MergeKeepsPins ==
    ASSUME PinInv, NEW c \in Caller, ApplyMerge(c)
    PROVE  /\ PinInv'
           /\ \A i \in Id : proj[i] # None /\ proj'[i] # None => proj'[i].pin = proj[i].pin
<1>. DEFINE m == call[c]
<1>1. m.src \in Id /\ m.dst \in Id /\ m.src # m.dst /\ m.name \in ProjectName
  BY CallShapes DEF ApplyMerge, At, PinInv, CallsOK
<1>2. Go(c, Idle) /\ CallOK(Idle) /\ Idle.pc # "guard" /\ UNCHANGED <<repo, contested>>
  BY DEF ApplyMerge, repos, phistory, CallOK, Idle
<1>3. CASE UNCHANGED <<proj, alias, into>>
  BY <1>2, <1>3, RowsStay, GoesOnUnseen DEF PinInv
<1>4. CASE /\ Drained(m)
           /\ alias' = [n \in ProjectName |-> IF alias[n] = m.src \/ n = m.name THEN m.dst ELSE alias[n]]
           /\ proj' = [proj EXCEPT ![m.src] = None]
           /\ into' = [i \in Id |-> IF i = m.src \/ into[i] = m.src THEN m.dst ELSE into[i]]
  <2>1. proj[m.src] # None /\ proj[m.dst] # None
    BY <1>4 DEF Drained, Live
  <2>. HIDE DEF m
  <2>2. /\ proj' \in [Id -> ProjectRow \cup {None}] /\ into' \in [Id -> Id \cup {None}]
        /\ proj'[m.src] = None /\ into'[m.src] # None
        /\ \A i \in Id \ {m.src} : proj'[i] = proj[i] /\ (into'[i] # None <=> into[i] # None)
    BY <1>1, <1>4, NoneAssumption DEF PinInv, RowsOK
  <2>3. UsedIds' = UsedIds
    BY <1>1, <2>1, <2>2 DEF UsedIds
  <2>4. /\ alias' \in [ProjectName -> Id \cup {None}]
        /\ \A n \in ProjectName : alias'[n] # None => proj'[alias'[n]] # None
    BY <1>1, <1>4, <2>1, <2>2 DEF PinInv, RowsOK
  <2>5. RowsOK'
    BY <1>2, <2>2, <2>3, <2>4 DEF PinInv, RowsOK
  <2>6. CallsOK' /\ call'[c] = Idle /\ \A d \in Caller \ {c} : call'[d] = call[d]
    BY <1>2, GoesOn DEF PinInv
  <2>7. UsedIds \subseteq Id /\ \A i \in Id : proj'[i] # None => proj'[i] = proj[i]
    BY <2>2 DEF UsedIds
  <2>8. SeenOK'
    BY <1>2, <2>3, <2>6, <2>7 DEF PinInv, SeenOK
  <2>. QED BY <2>5, <2>6, <2>7, <2>8 DEF PinInv
<1>. QED BY <1>3, <1>4 DEF ApplyMerge, ptables, phistory

\* A request reads a project that is there, with the pin it has.
LEMMA ResolveReadsPin ==
    ASSUME PinInv, NEW c \in Caller, ResolveProject(c)
    PROVE  PinInv' /\ UNCHANGED proj
<1>. DEFINE v == call[c]
            i == Resolve(v.name)
            base == [pc |-> "guard", repo |-> call[c].repo, owner |-> call[c].owner,
                     root |-> call[c].root, name |-> call[c].name, id |-> i, seen |-> None]
<1>1. v \in [pc : {"probe", "rename"}, repo : Repo, owner : Owner, root : Root,
             name : ProjectName, todo : SUBSET [id : Id, name : ProjectName],
             to : {None} \cup RenameOf]
  BY CallShapes DEF ResolveProject, At, PinInv, CallsOK
<1>2. UNCHANGED <<proj, alias, into, repo, contested>>
  BY DEF ResolveProject, ptables, phistory, repos
<1>3. RowsOK' /\ UsedIds' = UsedIds
  BY <1>2, RowsStay DEF PinInv, UsedIds
<1>4. \/ i # None /\ Go(c, [base EXCEPT !.seen = proj[i]])
      \/ i = None /\ Go(c, [base EXCEPT !.pc = "provision"])
      \/ Go(c, Idle)
  BY Zenon DEF ResolveProject
<1>5. CASE Go(c, Idle)
  <2>1. CallOK(Idle) /\ Idle.pc # "guard"
    BY DEF CallOK, Idle
  <2>. QED BY <1>2, <1>3, <1>5, <2>1, GoesOnUnseen DEF PinInv
<1>6. CASE i = None /\ Go(c, [base EXCEPT !.pc = "provision"])
  <2>. DEFINE new == [base EXCEPT !.pc = "provision"]
  <2>1. CallOK(new) /\ new.pc # "guard"
    <3>. HIDE DEF i
    <3>. QED BY <1>1, <1>6 DEF CallOK
  <2>. QED BY <1>2, <1>3, <1>6, <2>1, GoesOnUnseen DEF PinInv
<1>7. CASE i # None /\ Go(c, [base EXCEPT !.seen = proj[i]])
  <2>. DEFINE new == [base EXCEPT !.seen = proj[i]]
  <2>1. i \in Id /\ proj[i] \in ProjectRow
    BY <1>1, <1>7, ResolvesToLive DEF PinInv
  <2>. HIDE DEF i
  <2>2. CallOK(new) /\ new.pc = "guard" /\ new.id = i /\ new.seen = proj[i]
    BY <1>1, <2>1 DEF CallOK
  <2>3. i \in UsedIds
    BY <2>1, NoneAssumption DEF UsedIds
  <2>. HIDE DEF new
  <2>4. CallsOK' /\ call'[c] = new /\ \A d \in Caller \ {c} : call'[d] = call[d]
    BY <1>7, <2>2, GoesOn DEF PinInv, new
  <2>5. SeenOK'
    BY <1>2, <1>3, <2>2, <2>3, <2>4 DEF PinInv, SeenOK
  <2>. QED BY <1>2, <1>3, <2>4, <2>5 DEF PinInv
<1>. QED BY <1>4, <1>5, <1>6, <1>7

\* Other requests are guarded by what they read when a project is inserted.
LEMMA InsertKeepsSeen ==
    ASSUME PinInv, NEW d \in Caller, call[d].pc = "guard", call'[d] = call[d],
           NEW k \in Id \ UsedIds, \A i \in Id \ {k} : proj'[i] = proj[i],
           UNCHANGED <<into, contested>>
    PROVE  /\ call'[d].id \in UsedIds'
           /\ call'[d].seen.pin # None /\ proj'[call'[d].id] # None =>
                /\ proj'[call'[d].id].pin # None
                /\ call'[d].id \in contested' \/ proj'[call'[d].id].pin = call'[d].seen.pin
<1>1. call[d].id \in UsedIds
  BY DEF PinInv, SeenOK
<1>2. call[d].id \in Id \ {k}
  BY <1>1 DEF UsedIds
<1>3. proj'[call[d].id] = proj[call[d].id]
  BY <1>2
<1>. QED BY <1>1, <1>2, <1>3 DEF PinInv, SeenOK, UsedIds

\* Provisioning pins from birth, or reads the project another request made.
LEMMA ProvisionKeepsPins ==
    ASSUME PinInv, NEW c \in Caller, Provision(c)
    PROVE  /\ PinInv'
           /\ \A i \in Id : proj[i] # None => proj'[i] = proj[i]
<1>. DEFINE v == call[c]
<1>1. v \in [pc : {"provision"}, repo : Repo, owner : Owner, root : Root, name : ProjectName,
             id : {None}, seen : {None}]
  BY CallShapes DEF Provision, At, PinInv, CallsOK
<1>2. CASE Named(v.name) = {}
  <2>. DEFINE k == NewId
              row == [name |-> v.name, pin |-> v.repo, owner |-> v.owner]
              new == [v EXCEPT !.pc = "guard", !.id = k, !.seen = row]
  <2>1. InsertProject(v.name, v.repo, v.owner) /\ UNCHANGED repo
    BY <1>2 DEF Provision, repos
  <2>2. /\ RowsOK' /\ k \in Id \ UsedIds /\ proj'[k] = row
        /\ \A i \in Id \ {k} : proj'[i] = proj[i]
        /\ UNCHANGED <<into, contested>>
    BY <1>1, <2>1, InsertIsFresh DEF PinInv
  <2>3. Go(c, new)
    BY <1>2, <2>2 DEF Provision
  <2>. HIDE DEF k, v
  <2>4. row \in ProjectRow /\ row # None /\ row.pin = v.repo
    BY <1>1, NoneAssumption DEF ProjectRow
  <2>. HIDE DEF row
  <2>5. CallOK(new) /\ new.id = k /\ new.seen = row
    BY <1>1, <2>2, <2>4 DEF CallOK
  <2>. HIDE DEF new
  <2>6. CallsOK' /\ call'[c] = new /\ \A d \in Caller \ {c} : call'[d] = call[d]
    BY <2>3, <2>5, GoesOn DEF PinInv
  <2>7. k \in UsedIds'
    BY <2>2, <2>4 DEF UsedIds
  <2>8. row.pin # None
    BY <1>1, <2>4, NoneAssumption
  <2>9. ASSUME NEW d \in Caller, call'[d].pc = "guard"
        PROVE  /\ call'[d].id \in UsedIds'
               /\ call'[d].seen.pin # None /\ proj'[call'[d].id] # None =>
                    /\ proj'[call'[d].id].pin # None
                    /\ call'[d].id \in contested' \/ proj'[call'[d].id].pin = call'[d].seen.pin
    <3>1. CASE d = c
      BY <2>2, <2>5, <2>6, <2>7, <2>8, <3>1
    <3>2. CASE d # c
      BY <2>2, <2>6, <2>9, <3>2, InsertKeepsSeen
    <3>. QED BY <3>1, <3>2
  <2>10. SeenOK'
    BY <2>9 DEF SeenOK
  <2>11. \A i \in Id : proj[i] # None => proj'[i] = proj[i]
    BY <2>2 DEF UsedIds
  <2>. QED BY <2>2, <2>6, <2>10, <2>11 DEF PinInv
<1>3. CASE Named(v.name) # {}
  <2>. DEFINE i == CHOOSE j \in Named(v.name) : TRUE
              new == [v EXCEPT !.pc = "guard", !.id = i, !.seen = proj[i]]
  <2>1. Go(c, new) /\ UNCHANGED <<proj, alias, into, repo, contested>>
    BY <1>3 DEF Provision, repos, ptables, phistory
  <2>2. i \in Id /\ proj[i] # None
    BY <1>3 DEF Named, Live
  <2>. HIDE DEF i, v
  <2>3. proj[i] \in ProjectRow /\ i \in UsedIds
    BY <2>2 DEF PinInv, RowsOK, UsedIds
  <2>4. CallOK(new) /\ new.id = i /\ new.seen = proj[i]
    BY <1>1, <2>2, <2>3 DEF CallOK
  <2>. HIDE DEF new
  <2>5. CallsOK' /\ call'[c] = new /\ \A d \in Caller \ {c} : call'[d] = call[d]
    BY <2>1, <2>4, GoesOn DEF PinInv
  <2>6. RowsOK' /\ UsedIds' = UsedIds
    BY <2>1, RowsStay DEF PinInv, UsedIds
  <2>7. SeenOK'
    BY <2>1, <2>3, <2>4, <2>5, <2>6 DEF PinInv, SeenOK
  <2>. QED BY <2>1, <2>5, <2>6, <2>7 DEF PinInv
<1>. QED BY <1>2, <1>3

\* The guard replaces a pin only for a request that read none, or one that read it.
LEMMA GuardKeepsPins ==
    ASSUME PinInv, NEW c \in Caller, Guard(c)
    PROVE  /\ PinInv'
           /\ \A i \in Id \ contested :
                (proj[i] # None /\ proj'[i] # None /\ proj[i].pin \notin {None, proj'[i].pin})
                  => call[c].pc = "guard" /\ call[c].id = i /\ call[c].seen.pin = None
<1>. DEFINE v == call[c]
            seen == call[c].seen
            i == call[c].id
            pins == (seen.pin = None \/ seen.owner # call[c].owner) /\ proj[i] # None
            new == [v EXCEPT !.pc = "act"]
<1>1. v.pc = "guard" /\ v \in [pc : {"guard", "act"}, repo : Repo, owner : Owner, root : Root,
                               name : ProjectName, id : Id, seen : ProjectRow]
  BY CallShapes DEF Guard, At, PinInv, CallsOK
<1>2. UNCHANGED <<into, alias, repo>>
  BY DEF Guard, repos, ptables
<1>3. CASE Go(c, Idle) /\ UNCHANGED <<proj, contested>>
  <2>1. CallOK(Idle) /\ Idle.pc # "guard"
    BY DEF CallOK, Idle
  <2>. QED BY <1>2, <1>3, <2>1, RowsStay, GoesOnUnseen DEF PinInv
<1>4. CASE /\ seen.pin \in {None, v.repo}
           /\ proj' = IF pins THEN [proj EXCEPT ![i].pin = v.repo, ![i].owner = v.owner] ELSE proj
           /\ contested' = IF pins /\ seen.pin = None /\ proj[i].pin \notin {None, v.repo}
                           THEN contested \cup {i} ELSE contested
           /\ Go(c, new)
  <2>1. CallOK(new) /\ new.pc # "guard"
    BY <1>1 DEF CallOK
  <2>2. CASE ~pins
    BY <1>2, <1>4, <2>1, <2>2, RowsStay, GoesOnUnseen DEF PinInv
  <2>3. CASE pins
    <3>1. i \in Id /\ proj[i] \in ProjectRow /\ v.repo \in Repo /\ v.owner \in Owner
      BY <1>1, <2>3 DEF PinInv, RowsOK
    <3>. DEFINE repoOf == v.repo
                ownerOf == v.owner
    <3>2. proj' = [proj EXCEPT ![i].pin = repoOf, ![i].owner = ownerOf]
      BY <1>4, <2>3
    <3>3. seen.pin # None => proj[i].pin # None /\ (i \in contested \/ proj[i].pin = repoOf)
      BY <1>1, <1>4, <2>3 DEF PinInv, SeenOK
    <3>4. /\ contested \subseteq contested'
          /\ proj[i].pin # None /\ proj[i].pin # repoOf => i \in contested'
      BY <1>4, <2>3, <3>3
    <3>5. CallsOK' /\ call'[c] = new /\ \A d \in Caller \ {c} : call'[d] = call[d]
      BY <1>4, <2>1, GoesOn DEF PinInv
    <3>. HIDE DEF repoOf, ownerOf, i, seen, v, new, pins
    <3>6. repoOf \in Repo /\ ownerOf \in Owner
      BY <3>1 DEF repoOf, ownerOf
    <3>7. /\ proj'[i] \in ProjectRow /\ proj'[i].pin = repoOf
          /\ \A j \in Id \ {i} : proj'[j] = proj[j]
          /\ proj' \in [Id -> ProjectRow \cup {None}]
      BY <3>1, <3>2, <3>6 DEF PinInv, RowsOK, ProjectRow
    <3>8. repoOf # None /\ \A j \in Id : proj'[j] # None <=> proj[j] # None
      BY <3>1, <3>6, <3>7, NoneAssumption
    <3>9. UsedIds' = UsedIds /\ UsedIds \subseteq Id
      BY <1>2, <3>8 DEF UsedIds
    <3>10. RowsOK'
      BY <1>2, <3>7, <3>8, <3>9 DEF PinInv, RowsOK
    <3>11. SeenOK'
      <4>1. SUFFICES ASSUME NEW d \in Caller, call'[d].pc = "guard"
                     PROVE  /\ call'[d].id \in UsedIds'
                            /\ call'[d].seen.pin # None /\ proj'[call'[d].id] # None =>
                                 /\ proj'[call'[d].id].pin # None
                                 /\ call'[d].id \in contested'
                                    \/ proj'[call'[d].id].pin = call'[d].seen.pin
        BY DEF SeenOK
      <4>2. d # c /\ call'[d] = call[d]
        BY <2>1, <3>5, <4>1
      <4>. DEFINE j == call[d].id
      <4>3. /\ j \in UsedIds
            /\ call[d].seen.pin # None /\ proj[j] # None =>
                 proj[j].pin # None /\ (j \in contested \/ proj[j].pin = call[d].seen.pin)
        BY <4>1, <4>2 DEF PinInv, SeenOK
      <4>. HIDE DEF j
      <4>4. CASE j # i
        BY <3>4, <3>7, <3>9, <4>2, <4>3, <4>4 DEF j
      <4>5. CASE j = i
        BY <3>1, <3>4, <3>7, <3>8, <3>9, <4>2, <4>3, <4>5 DEF j
      <4>. QED BY <4>4, <4>5
    <3>12. ASSUME NEW j \in Id \ contested, proj[j] # None, proj'[j] # None,
                  proj[j].pin \notin {None, proj'[j].pin}
           PROVE  j = i /\ seen.pin = None
      BY <3>3, <3>7, <3>12
    <3>. QED BY <1>1, <3>5, <3>10, <3>11, <3>12 DEF PinInv, v, i, seen
  <2>. QED BY <2>2, <2>3
<1>. QED BY <1>3, <1>4 DEF Guard, ptables

\* The invariant is inductive, and what a step does to pins.
LEMMA PinStep ==
    ASSUME PinInv, [ProjNext]_projVars
    PROVE  /\ PinInv'
           /\ \A i \in Id \ contested :
                (proj[i] # None /\ proj'[i] # None /\ proj[i].pin \notin {None, proj'[i].pin})
                  => \E c \in Caller : At(c, "guard") /\ call[c].id = i /\ call[c].seen.pin = None
<1>1. CASE UNCHANGED projVars
  BY <1>1 DEF projVars, repos, ptables, phistory, PinInv, RowsOK, CallsOK, SeenOK, UsedIds
<1>2. CASE CreateProject
  <2>1. PICK n \in ProjectName : InsertProject(n, None, None)
    BY <1>2 DEF CreateProject
  <2>. DEFINE k == NewId
  <2>2. UNCHANGED <<call, repo>>
    BY <1>2 DEF CreateProject, repos
  <2>3. /\ RowsOK' /\ k \in Id \ UsedIds
        /\ \A i \in Id \ {k} : proj'[i] = proj[i] /\ UNCHANGED <<into, contested>>
    BY <2>1, <2>2, InsertIsFresh DEF PinInv
  <2>4. UNCHANGED <<into, contested>>
    BY <2>1 DEF InsertProject
  <2>. HIDE DEF k
  <2>5. SeenOK'
    BY <2>2, <2>3, <2>4, InsertKeepsSeen DEF SeenOK
  <2>6. CallsOK'
    BY <2>2 DEF PinInv, CallsOK
  <2>. QED BY <2>3, <2>5, <2>6 DEF PinInv, UsedIds
<1>3. CASE RenameRepo \/ ReplaceRepo
  <2>1. UNCHANGED <<proj, alias, into, contested, call>>
    BY <1>3 DEF RenameRepo, ReplaceRepo, ptables, phistory
  <2>2. DOMAIN repo' = Repo /\ \A r \in Repo : repo'[r] # None => repo'[r].name \in Root /\ repo'[r].owner \in Owner
    <3>1. CASE RenameRepo
      BY <3>1 DEF RenameRepo, PinInv, RowsOK
    <3>2. CASE ReplaceRepo
      BY <3>2 DEF ReplaceRepo, PinInv, RowsOK
    <3>. QED BY <1>3, <3>1, <3>2
  <2>. QED BY <2>1, <2>2 DEF PinInv, RowsOK, CallsOK, SeenOK, UsedIds
<1>4. ASSUME NEW c \in Caller, BeginWrite(c) \/ PlanMerge(c) \/ ProjStep(c)
      PROVE  /\ PinInv'
             /\ \A i \in Id \ contested :
                  (proj[i] # None /\ proj'[i] # None /\ proj[i].pin \notin {None, proj'[i].pin})
                    => \E d \in Caller : At(d, "guard") /\ call[d].id = i /\ call[d].seen.pin = None
  <2>1. CASE BeginWrite(c) \/ ListProjects(c) \/ ProbeName(c) \/ MakeRelease(c) \/ DeploySite(c)
             \/ CheckDepends(c) \/ StoreDepends(c) \/ PlanMerge(c) \/ RecheckMerge(c) \/ EndCall(c)
    <3>1. proj' = proj
      BY <2>1 DEF BeginWrite, ListProjects, ProbeName, MakeRelease, DeploySite, CheckDepends,
         StoreDepends, PlanMerge, RecheckMerge, EndCall, ptables
    <3>. QED BY <2>1, <3>1, LooksKeepPins
  <2>2. CASE RenameProject(c)
    BY <2>2, RenameKeepsPins
  <2>3. CASE ApplyMerge(c)
    BY <2>3, MergeKeepsPins
  <2>4. CASE ResolveProject(c)
    BY <2>4, ResolveReadsPin
  <2>5. CASE Provision(c)
    BY <2>5, ProvisionKeepsPins
  <2>6. CASE Guard(c)
    BY <2>6, GuardKeepsPins DEF At
  <2>. QED BY <1>4, <2>1, <2>2, <2>3, <2>4, <2>5, <2>6 DEF ProjStep
<1>. QED BY <1>1, <1>2, <1>3, <1>4 DEF ProjNext

\* The invariant holds when no project is there.
LEMMA PinsBegin ==
    ASSUME ProjInit
    PROVE  PinInv
<1>1. UsedIds = {} /\ UsedIds = 1..0 /\ 0 \in 0..MaxProjects
  BY ProjectBounds DEF ProjInit, UsedIds
<1>2. RowsOK
  BY <1>1 DEF ProjInit, RowsOK
<1>3. CallsOK /\ SeenOK
  BY DEF ProjInit, CallsOK, CallOK, SeenOK, Idle
<1>. QED BY <1>2, <1>3 DEF PinInv

\* A pinned project changes hands only through a request that read it unpinned, and
\* after one by those that had read the pin it replaced, for any projects,
\* repositories and requests (requireProject).
THEOREM PinsAreKept == ProjSpec => PinsStick
<1>1. ProjInit => PinInv
  BY PinsBegin
<1>2. PinInv /\ [ProjNext]_projVars => PinInv'
  BY PinStep
<1>3. PinInv /\ [ProjNext]_projVars =>
        [\A i \in Id \ contested :
           (proj[i] # None /\ proj'[i] # None /\ proj[i].pin \notin {None, proj'[i].pin})
             => \E c \in Caller : At(c, "guard") /\ call[c].id = i /\ call[c].seen.pin = None]_projVars
  BY PinStep
<1>. QED BY <1>1, <1>2, <1>3, PTL DEF ProjSpec, PinsStick

(***************************************************************************)
(* Projects stay whole                                                     *)
(***************************************************************************)

\* A name some project has or had.
Given(n) == n \in ProjectName /\ holder[n] # None

\* No two projects have one name, whatever leads to a project is a name it or one
\* merged into it had, and who took over the rows of a project is there.
NamesOK ==
    /\ holder \in [ProjectName -> Id \cup {None}]
    /\ \A i, j \in Live : proj[i].name = proj[j].name => i = j
    /\ \A i \in Live : Given(proj[i].name)
    /\ \A n \in ProjectName : alias[n] # None => Given(n)
    /\ \A i \in Id : into[i] # None => into[i] \in Live /\ proj[i] = None

\* Each of these projects depends on one of them.
Loop(C) == C # {} /\ \A i \in C : DepIds(deps[i]) \cap C # {}

\* Dependencies are names that were given, and no loop passes by the loose projects.
DepsOK ==
    /\ deps \in [Id -> SUBSET ProjectName]
    /\ \A i \in Id : i \notin Live => deps[i] = {}
    /\ \A i \in Id : \A n \in deps[i] : Given(n)
    /\ loose \subseteq Id
    /\ \A C \in SUBSET (Id \ loose) : ~Loop(C)

\* Releases are numbered by id in order.
ReleasesOK ==
    /\ rel \in [Release -> [proj : Id, num : Nat] \cup {None}]
    /\ made \in [Release -> Id \cup {None}]
    /\ \A r \in Release : rel[r] # None => made[r] # None
    /\ \E m \in 0..MaxReleases : {r \in Release : rel[r] # None} = 1..m
    /\ sites \subseteq Id \X Branch

TablesOK == NamesOK /\ NamesKeepResolving /\ DepsOK /\ ReleasesOK /\ MergeLosesNothing

\* A rename that is probed.
RenameOK(v) ==
    /\ v.pc \in {"probe", "rename"} => \A p \in v.todo : Given(p.name)
    /\ v.pc = "rename" => Given(v.to.old) /\ v.to.old # v.to.new /\ v.to.was \in {None, v.to.id}

\* The closed set K holds what the names lead to and not the project i, all past
\* the loose projects.
Clear(K, i, names) ==
    /\ DepIds(names) \ loose \subseteq K
    /\ \A k \in K : DepIds(deps[k]) \ loose \subseteq K
    /\ i \notin K

\* A list that is checked closes no loop when it is stored, unless another was
\* stored meanwhile.
CheckedOK(v) ==
    v.pc = "depends" =>
        /\ v.id \in UsedIds
        /\ v.names \subseteq ProjectName /\ \A n \in v.names : Given(n)
        /\ v.id \in loose \/ \E K \in SUBSET Id : Clear(K, v.id, v.names)

\* The releases of a plan stay where they are and keep their order.
PlanOK(v) ==
    v.pc \in {"replan", "merge"} =>
        /\ v.src \in UsedIds
        /\ v.dname \in ProjectName /\ v.name # v.dname /\ Given(v.name) /\ Given(v.dname)
        /\ DOMAIN v.plan \subseteq Release /\ v.plan \in [DOMAIN v.plan -> Nat]
        /\ v.src \in Live =>
             /\ \A r \in DOMAIN v.plan : rel[r] # None /\ rel[r].proj = v.src
             /\ \A r, s \in DOMAIN v.plan : rel[r].num < rel[s].num => v.plan[r] < v.plan[s]

WaitOK(v) == RenameOK(v) /\ CheckedOK(v) /\ PlanOK(v)

WholeInv == PinInv /\ TablesOK /\ \A c \in Caller : WaitOK(call[c])

\* Where a name leads.
LEMMA ResolveIs ==
    ASSUME RowsOK, NamesOK, NEW n \in ProjectName
    PROVE  /\ \A i \in Live : proj[i].name = n => Resolve(n) = i
           /\ (\A i \in Live : proj[i].name # n) => Resolve(n) = alias[n]
           /\ Resolve(n) \in Live \cup {None}
           /\ Resolve(n) # None => Given(n)
<1>1. ASSUME NEW i \in Live, proj[i].name = n PROVE Resolve(n) = i
  <2>1. Named(n) = {i}
    BY <1>1 DEF Named, NamesOK
  <2>. QED BY <2>1 DEF Resolve
<1>2. ASSUME \A i \in Live : proj[i].name # n PROVE Resolve(n) = alias[n]
  BY <1>2 DEF Named, Resolve
<1>3. alias[n] \in Live \cup {None} /\ (alias[n] # None => Given(n))
  BY DEF RowsOK, NamesOK, Live
<1>. QED BY <1>1, <1>2, <1>3 DEF NamesOK

\* The same after a step.
LEMMA ResolveIsNext ==
    ASSUME NamesOK', NEW n \in ProjectName
    PROVE  /\ \A i \in Live' : proj'[i].name = n => Resolve(n)' = i
           /\ (\A i \in Live' : proj'[i].name # n) => Resolve(n)' = alias'[n]
<1>1. ASSUME NEW i \in Live', proj'[i].name = n PROVE Resolve(n)' = i
  <2>1. Named(n)' = {i}
    BY <1>1 DEF Named, NamesOK
  <2>. QED BY <2>1 DEF Resolve
<1>2. ASSUME \A i \in Live' : proj'[i].name # n PROVE Resolve(n)' = alias'[n]
  BY <1>2 DEF Named, Resolve
<1>. QED BY <1>1, <1>2

\* Names that lead where they led keep the dependencies as they are.
LEMMA DepsStay ==
    ASSUME DepsOK, UNCHANGED <<deps, loose, holder>>, Live' = Live,
           \A n \in ProjectName : Resolve(n)' = Resolve(n)
    PROVE  /\ DepsOK'
           /\ \A names \in SUBSET ProjectName : DepIds(names)' = DepIds(names)
<1>1. ASSUME NEW names \in SUBSET ProjectName PROVE DepIds(names)' = DepIds(names)
  BY DEF DepIds
<1>2. \A i \in Id : DepIds(deps[i])' = DepIds(deps[i])
  BY <1>1 DEF DepsOK
<1>3. ASSUME NEW C \in SUBSET (Id \ loose) PROVE ~Loop(C)'
  <2>1. ~Loop(C)
    BY DEF DepsOK
  <2>. QED BY <1>2, <2>1 DEF Loop
<1>. QED BY <1>1, <1>3 DEF DepsOK, Given

\* Steps that leave the names and the rows of projects.
LEMMA NamesStay ==
    ASSUME RowsOK, NamesOK,
           \A i \in Id : (proj'[i] # None <=> proj[i] # None) /\ (proj[i] # None => proj'[i].name = proj[i].name),
           UNCHANGED <<alias, holder, into>>
    PROVE  NamesOK' /\ Live' = Live /\ \A n \in ProjectName : Resolve(n)' = Resolve(n)
<1>1. Live' = Live
  BY DEF Live
<1>2. \A n : Named(n)' = Named(n)
  BY <1>1 DEF Named, Live
<1>3. NamesOK'
  BY <1>1 DEF NamesOK, Given, Live
<1>4. ASSUME NEW n \in ProjectName PROVE Resolve(n)' = Resolve(n)
  <2>1. CASE \E i \in Live : proj[i].name = n
    BY <1>1, <1>3, <2>1, ResolveIs, ResolveIsNext DEF Live
  <2>2. CASE \A i \in Live : proj[i].name # n
    <3>1. \A i \in Live' : proj'[i].name # n
      BY <1>1, <2>2 DEF Live
    <3>. QED BY <1>3, <2>2, <3>1, ResolveIs, ResolveIsNext
  <2>. QED BY <2>1, <2>2
<1>. QED BY <1>1, <1>3, <1>4

\* What a request waits for stays while the tables do.
LEMMA WaitStays ==
    ASSUME NEW v, WaitOK(v), DepsOK, UNCHANGED <<deps, loose, holder>>, Live' = Live, UsedIds' = UsedIds,
           \A r \in Release : rel[r] # None => rel'[r] = rel[r],
           \A n \in ProjectName : Resolve(n)' = Resolve(n)
    PROVE  WaitOK(v)'
<1>1. RenameOK(v)'
  BY DEF WaitOK, RenameOK, Given
<1>3. PlanOK(v)'
  <2>1. SUFFICES ASSUME v.pc \in {"replan", "merge"}, v.src \in Live
                 PROVE  /\ \A r \in DOMAIN v.plan : rel'[r] # None /\ rel'[r].proj = v.src
                        /\ \A r, s \in DOMAIN v.plan : rel'[r].num < rel'[s].num => v.plan[r] < v.plan[s]
    BY DEF WaitOK, PlanOK, Given
  <2>2. /\ DOMAIN v.plan \subseteq Release
        /\ \A r \in DOMAIN v.plan : rel[r] # None /\ rel[r].proj = v.src
        /\ \A r, s \in DOMAIN v.plan : rel[r].num < rel[s].num => v.plan[r] < v.plan[s]
    BY <2>1 DEF WaitOK, PlanOK
  <2>3. \A r \in DOMAIN v.plan : rel'[r] = rel[r]
    BY <2>2
  <2>. QED BY <2>2, <2>3
<1>2. CheckedOK(v)'
  <2>1. SUFFICES ASSUME v.pc = "depends"
                 PROVE  /\ v.id \in UsedIds /\ v.names \subseteq ProjectName /\ \A n \in v.names : Given(n)'
                        /\ v.id \in loose \/ \E K \in SUBSET Id : Clear(K, v.id, v.names)'
    BY DEF CheckedOK
  <2>2. /\ v.id \in UsedIds /\ v.names \subseteq ProjectName /\ \A n \in v.names : Given(n)
        /\ v.id \in loose \/ \E K \in SUBSET Id : Clear(K, v.id, v.names)
    BY <2>1 DEF WaitOK, CheckedOK
  <2>3. \A i \in Id : DepIds(deps[i])' = DepIds(deps[i])
    BY DepsStay DEF DepsOK
  <2>4. DepIds(v.names)' = DepIds(v.names)
    BY <2>2, DepsStay
  <2>5. ASSUME NEW K \in SUBSET Id, Clear(K, v.id, v.names) PROVE Clear(K, v.id, v.names)'
    BY <2>3, <2>4, <2>5 DEF Clear
  <2>. QED BY <2>2, <2>5 DEF Given
<1>. QED BY <1>1, <1>2, <1>3 DEF WaitOK

\* The steps that change no table but a pin.
LEMMA TablesStay ==
    ASSUME RowsOK, TablesOK,
           \A i \in Id : (proj'[i] # None <=> proj[i] # None) /\ (proj[i] # None => proj'[i].name = proj[i].name),
           UNCHANGED <<alias, deps, rel, sites, holder, into, made, shadowed, loose>>
    PROVE  /\ TablesOK' /\ Live' = Live /\ UsedIds' = UsedIds
           /\ \A n \in ProjectName : Resolve(n)' = Resolve(n)
<1>1. NamesOK' /\ Live' = Live /\ \A n \in ProjectName : Resolve(n)' = Resolve(n)
  BY NamesStay DEF TablesOK
<1>2. DepsOK'
  BY <1>1, DepsStay DEF TablesOK
<1>3. UsedIds' = UsedIds
  BY DEF UsedIds
<1>4. ReleasesOK' /\ MergeLosesNothing' /\ NamesKeepResolving'
  BY <1>1 DEF TablesOK, ReleasesOK, MergeLosesNothing, NamesKeepResolving, Canon
<1>. QED BY <1>1, <1>2, <1>3, <1>4 DEF TablesOK

\* A step that adds, to what projects depend on, only loose projects or ones that
\* depend on nothing.
LEMMA NoNewLoop ==
    ASSUME DepsOK, loose \subseteq loose', loose' \subseteq Id, NEW fresh,
           \A i \in Id : DepIds(deps[i])' \subseteq DepIds(deps[i]) \cup loose' \cup fresh,
           \A i \in fresh \cap Id : DepIds(deps[i])' = {}
    PROVE  \A C \in SUBSET (Id \ loose') : ~Loop(C)'
<1>. SUFFICES ASSUME NEW C \in SUBSET (Id \ loose'), Loop(C)' PROVE FALSE
  OBVIOUS
<1>1. C # {} /\ \A i \in C : DepIds(deps[i])' \cap C # {}
  BY DEF Loop
<1>2. C \cap fresh = {}
  BY <1>1
<1>3. \A i \in C : DepIds(deps[i]) \cap C # {}
  BY <1>1, <1>2
<1>. QED BY <1>1, <1>3 DEF DepsOK, Loop

\* Under such a step a list that was checked still closes no loop.
LEMMA StillChecked ==
    ASSUME DepsOK, NEW v, CheckedOK(v), loose \subseteq loose', NEW fresh \in SUBSET Id,
           UsedIds \subseteq UsedIds', fresh \cap UsedIds = {},
           \A n \in ProjectName : Given(n) => Given(n)' /\ Resolve(n)' \in {Resolve(n), None} \cup loose' \cup fresh,
           \A i \in Id : DepIds(deps[i])' \subseteq DepIds(deps[i]) \cup loose' \cup fresh,
           \A i \in fresh : DepIds(deps[i])' = {}
    PROVE  CheckedOK(v)'
<1>. SUFFICES ASSUME v.pc = "depends"
              PROVE  /\ v.id \in UsedIds' /\ v.names \subseteq ProjectName /\ \A n \in v.names : Given(n)'
                     /\ v.id \in loose' \/ \E K \in SUBSET Id : Clear(K, v.id, v.names)'
  BY DEF CheckedOK
<1>1. /\ v.id \in UsedIds /\ v.names \subseteq ProjectName /\ \A n \in v.names : Given(n)
      /\ v.id \in loose \/ \E K \in SUBSET Id : Clear(K, v.id, v.names)
  BY DEF CheckedOK
<1>2. ASSUME NEW K \in SUBSET Id, Clear(K, v.id, v.names) PROVE Clear(K \cup fresh, v.id, v.names)'
  <2>1. ASSUME NEW n \in v.names, Resolve(n)' # None, Resolve(n)' \notin loose' PROVE Resolve(n)' \in K \cup fresh
    BY <1>1, <1>2, <2>1 DEF Clear, DepIds
  <2>2. DepIds(v.names)' \ loose' \subseteq K \cup fresh
    BY <2>1 DEF DepIds
  <2>3. \A k \in K \cup fresh : DepIds(deps[k])' \ loose' \subseteq K \cup fresh
    BY <1>2 DEF Clear
  <2>. QED BY <1>1, <1>2, <2>2, <2>3 DEF Clear
<1>. QED BY <1>1, <1>2

\* A new project.
LEMMA InsertKeeps ==
    ASSUME RowsOK, TablesOK, NEW n \in ProjectName, NEW p \in Repo \cup {None}, NEW o \in Owner \cup {None},
           InsertProject(n, p, o), UNCHANGED repo, Named(n) = {}
    PROVE  TablesOK' /\ UsedIds \subseteq UsedIds' /\ \A v : WaitOK(v) => WaitOK(v)'
<1>0. PICK id : id = NewId
  OBVIOUS
<1>1. /\ RowsOK' /\ id \in Id \ UsedIds
      /\ proj'[id] = [name |-> n, pin |-> p, owner |-> o]
      /\ \A i \in Id \ {id} : proj'[i] = proj[i]
      /\ UNCHANGED into
  BY <1>0, InsertIsFresh
<1>2. /\ holder' = [holder EXCEPT ![n] = IF @ = None THEN id ELSE @]
      /\ shadowed' = IF alias[n] # None THEN shadowed \cup {n} ELSE shadowed
      /\ UNCHANGED <<alias, deps, rel, sites, made, loose>>
  BY <1>0 DEF InsertProject, Holds
<1>3. id \in Id /\ id \notin Live /\ Live' = Live \cup {id} /\ UsedIds \subseteq UsedIds' /\ into[id] = None
  <2>1. proj'[id] # None
    BY <1>1, NoneAssumption DEF ProjectRow
  <2>. QED BY <1>1, <2>1 DEF UsedIds, Live
<1>4. /\ proj'[id].name = n
      /\ \A i \in Live : proj'[i] = proj[i] /\ proj[i].name # n
  <2>1. \A i \in Live : i \in Id \ {id} /\ proj[i].name # n
    BY <1>3 DEF Named, Live
  <2>. QED BY <1>1, <2>1
<1>5. /\ holder' \in [ProjectName -> Id \cup {None}] /\ Given(n)'
      /\ \A k \in ProjectName : Given(k) => holder'[k] = holder[k]
      /\ \A k \in ProjectName \ {n} : holder'[k] = holder[k]
      /\ \A k \in ProjectName : Given(k) => Given(k)'
      /\ ~Given(n) => holder'[n] = id
  <2>1. holder \in [ProjectName -> Id \cup {None}] /\ id # None
    BY <1>1, NoneAssumption DEF TablesOK, NamesOK
  <2>. QED BY <1>1, <1>2, <2>1 DEF Given
<1>6. NamesOK'
  <2>1. \A i, j \in Live' : proj'[i].name = proj'[j].name => i = j
    BY <1>3, <1>4 DEF TablesOK, NamesOK
  <2>2. \A i \in Live' : proj'[i].name \in ProjectName /\ holder'[proj'[i].name] # None
    <3>1. \A i \in Live : proj[i].name \in ProjectName
      BY DEF RowsOK, Live, ProjectRow
    <3>. QED BY <1>3, <1>4, <1>5, <3>1 DEF TablesOK, NamesOK, Given
  <2>3. \A i \in Id : into'[i] # None => into'[i] \in Live' /\ proj'[i] = None
    BY <1>1, <1>3 DEF TablesOK, NamesOK
  <2>. QED BY <1>2, <1>5, <2>1, <2>2, <2>3 DEF TablesOK, NamesOK, Given
<1>7. /\ Resolve(n)' = id
      /\ \A k \in ProjectName \ {n} : Resolve(k)' = Resolve(k)
  <2>1. Resolve(n)' = id
    BY <1>1, <1>3, <1>4, <1>6, ResolveIsNext
  <2>2. ASSUME NEW k \in ProjectName \ {n} PROVE Resolve(k)' = Resolve(k)
    <3>1. CASE \E i \in Live : proj[i].name = k
      BY <1>1, <1>3, <1>4, <1>6, <3>1, ResolveIs, ResolveIsNext DEF TablesOK
    <3>2. CASE \A i \in Live : proj[i].name # k
      <4>1. \A i \in Live' : proj'[i].name # k
        BY <1>3, <1>4, <3>2
      <4>. QED BY <1>1, <1>2, <1>6, <3>2, <4>1, ResolveIs, ResolveIsNext DEF TablesOK
    <3>. QED BY <3>1, <3>2
  <2>. QED BY <2>1, <2>2
<1>8. Resolve(n) = alias[n]
  BY <1>4, ResolveIs DEF TablesOK
<1>9. NamesKeepResolving'
  <2>1. SUFFICES ASSUME NEW k \in ProjectName, holder'[k] # None, k \notin shadowed'
                 PROVE  Resolve(k)' = Canon(holder[k])'
    BY DEF NamesKeepResolving
  <2>2. CASE k # n
    BY <1>1, <1>2, <1>5, <1>7, <2>1, <2>2 DEF TablesOK, NamesKeepResolving, Canon
  <2>3. CASE k = n
    <3>1. alias[n] = None
      BY <1>2, <2>1, <2>3
    <3>2. ~Given(n)
      <4>1. ASSUME Given(n) PROVE FALSE
        <5>1. n \notin shadowed /\ holder[n] # None /\ holder[n] \in Id
          BY <1>2, <2>1, <2>3, <3>1, <4>1 DEF Given, TablesOK, NamesOK
        <5>2. Resolve(n) = Canon(holder[n])
          BY <5>1 DEF TablesOK, NamesKeepResolving
        <5>3. Canon(holder[n]) # None
          BY <5>1, NoneAssumption DEF Canon
        <5>. QED BY <1>8, <3>1, <5>2, <5>3
      <4>. QED BY <4>1
    <3>. QED BY <1>1, <1>3, <1>5, <1>7, <2>3, <3>2 DEF Canon
  <2>. QED BY <2>2, <2>3
<1>10. ASSUME NEW i \in Id PROVE DepIds(deps[i])' \subseteq DepIds(deps[i]) \cup loose' \cup {id}
  <2>1. deps[i] \subseteq ProjectName
    BY DEF TablesOK, DepsOK
  <2>. QED BY <1>2, <1>7, <2>1 DEF DepIds
<1>11. DepIds(deps[id])' = {}
  <2>1. deps'[id] = {}
    BY <1>2, <1>3 DEF TablesOK, DepsOK
  <2>. QED BY <2>1 DEF DepIds
<1>12. DepsOK'
  <2>1. \A C \in SUBSET (Id \ loose') : ~Loop(C)'
    BY <1>2, <1>10, <1>11, NoNewLoop DEF TablesOK, DepsOK
  <2>. QED BY <1>2, <1>3, <1>5, <2>1 DEF TablesOK, DepsOK
<1>13. ReleasesOK' /\ MergeLosesNothing'
  BY <1>1, <1>2, <1>3 DEF TablesOK, ReleasesOK, MergeLosesNothing, Canon
<1>14. ASSUME NEW v, WaitOK(v) PROVE WaitOK(v)'
  <2>1. CheckedOK(v)'
    <3>1. \A k \in ProjectName :
             Given(k) => Given(k)' /\ Resolve(k)' \in {Resolve(k), None} \cup loose' \cup {id}
      BY <1>5, <1>7
    <3>2. /\ \A i \in {id} : DepIds(deps[i])' = {} /\ loose \subseteq loose' /\ {id} \cap UsedIds = {}
          /\ {id} \in SUBSET Id /\ DepsOK /\ CheckedOK(v)
      BY <1>1, <1>2, <1>11, <1>14 DEF TablesOK, WaitOK
    <3>. QED BY <1>3, <1>10, <3>1, <3>2, StillChecked
  <2>2. RenameOK(v)'
    BY <1>5, <1>14 DEF WaitOK, RenameOK, Given
  <2>3. PlanOK(v)'
    BY <1>1, <1>2, <1>3, <1>5, <1>14 DEF WaitOK, PlanOK, Given
  <2>. QED BY <2>1, <2>2, <2>3 DEF WaitOK
<1>. QED BY <1>3, <1>6, <1>9, <1>12, <1>13, <1>14 DEF TablesOK

\* The rename that was probed, if its transaction goes through.
LEMMA RenamedKeeps ==
    ASSUME RowsOK, TablesOK, NEW t \in RenameOf, Given(t.old), t.old # t.new, t.was \in {None, t.id},
           Named(t.new) \subseteq {t.id}, t.id \in Live,
           proj' = [proj EXCEPT ![t.id].name = t.new],
           alias' = [alias EXCEPT ![t.new] = None, ![t.old] = t.id],
           deps' = RenameDepends(deps, t.old, t.new, t.id),
           Holds(t.new, t.id),
           shadowed' = shadowed \cup TakenOver(t),
           loose' = IF TakenOver(t) = {} THEN loose ELSE loose \cup ({t.id, alias[proj[t.id].name]} \ {None}),
           rel' = rel, sites' = sites, into' = into, made' = made
    PROVE  TablesOK' /\ UsedIds \subseteq UsedIds' /\ \A v : WaitOK(v) => WaitOK(v)'
<1>1. PICK id \in Id, old \in ProjectName, new \in ProjectName, cur \in ProjectName :
        id = t.id /\ old = t.old /\ new = t.new /\ cur = proj[id].name
  BY DEF RenameOf, RowsOK, Live, ProjectRow
<1>2. /\ id \in Live /\ old # new /\ Given(old)
      /\ \A i \in Live \ {id} : proj[i].name # new
  BY <1>1 DEF Named
<1>3. /\ proj'[id] \in ProjectRow /\ proj'[id].name = new
      /\ \A i \in Id \ {id} : proj'[i] = proj[i]
  BY <1>1, <1>2 DEF RowsOK, Live, ProjectRow
<1>4. Live' = Live /\ UsedIds' = UsedIds /\ id # None
  BY <1>1, <1>2, <1>3, NoneAssumption DEF Live, UsedIds
<1>4a. Live \subseteq Id /\ \A i \in Live \ {id} : proj'[i] = proj[i]
  BY <1>3 DEF Live
<1>4b. PICK none \in SUBSET Id : none = {}
  OBVIOUS
<1>5. /\ alias'[new] = None /\ alias'[old] = id
      /\ \A n \in ProjectName \ {old, new} : alias'[n] = alias[n]
  BY <1>1, <1>2 DEF RowsOK
<1>6. /\ holder' \in [ProjectName -> Id \cup {None}]
      /\ \A n \in ProjectName : Given(n) => Given(n)' /\ holder'[n] = holder[n]
      /\ \A n \in ProjectName \ {new} : holder'[n] = holder[n]
      /\ holder'[new] # None /\ (~Given(new) => holder'[new] = id)
  BY <1>1, <1>4 DEF TablesOK, NamesOK, Holds, Given
<1>. DEFINE taken == TakenOver(t)
<1>7. /\ new \notin taken => ~Given(new) \/ Resolve(new) = id
      /\ old \notin taken => Resolve(old) = id
      /\ cur \notin taken => cur \in {old, new}
  BY <1>1 DEF TakenOver, Given
<1>. HIDE DEF taken
<1>8. NamesOK'
  <2>1. \A i, j \in Live' : proj'[i].name = proj'[j].name => i = j
    <3>1. \A i, j \in Live : proj[i].name = proj[j].name => i = j
      BY DEF TablesOK, NamesOK
    <3>2. SUFFICES ASSUME NEW i \in Live, NEW j \in Live, proj'[i].name = proj'[j].name PROVE i = j
      BY <1>4
    <3>3. CASE i # id /\ j # id
      BY <1>4a, <3>1, <3>2, <3>3
    <3>4. CASE i = id \/ j = id
      BY <1>2, <1>3, <1>4a, <3>2, <3>4
    <3>. QED BY <3>3, <3>4
  <2>2. \A i \in Live' : proj'[i].name \in ProjectName /\ holder'[proj'[i].name] # None
    <3>1. \A i \in Live \ {id} : proj[i].name \in ProjectName /\ holder'[proj[i].name] # None
      BY <1>6 DEF TablesOK, NamesOK, Given
    <3>. QED BY <1>1, <1>3, <1>4, <1>4a, <1>6, <3>1
  <2>3. \A n \in ProjectName : alias'[n] # None => holder'[n] # None
    BY <1>2, <1>5, <1>6 DEF TablesOK, NamesOK, Given
  <2>4. \A i \in Id : into'[i] # None => into'[i] \in Live' /\ proj'[i] = None
    BY <1>2, <1>3, <1>4 DEF TablesOK, NamesOK, Live
  <2>. QED BY <1>6, <2>1, <2>2, <2>3, <2>4 DEF NamesOK, Given
<1>9. /\ \A n \in ProjectName \ {old, new, cur} : Resolve(n)' = Resolve(n)
      /\ Resolve(new)' = id
      /\ Resolve(old)' \in {Resolve(old), id} /\ (Resolve(old) = id => Resolve(old)' = id)
      /\ cur \notin {old, new} => Resolve(cur)' = alias[cur]
  <2>1. Resolve(new)' = id
    BY <1>2, <1>3, <1>4, <1>8, ResolveIsNext
  <2>2. ASSUME NEW n \in ProjectName \ {old, new, cur} PROVE Resolve(n)' = Resolve(n)
    <3>1. CASE \E i \in Live : proj[i].name = n
      BY <1>1, <1>3, <1>4, <1>8, <3>1, ResolveIs, ResolveIsNext DEF TablesOK, Live
    <3>2. CASE \A i \in Live : proj[i].name # n
      <4>1. \A i \in Live' : proj'[i].name # n
        BY <1>3, <1>4, <1>4a, <3>2
      <4>2. Resolve(n)' = alias'[n]
        BY <1>8, <4>1, ResolveIsNext
      <4>3. Resolve(n) = alias[n]
        BY <3>2, ResolveIs DEF TablesOK
      <4>. QED BY <1>5, <4>2, <4>3
    <3>. QED BY <3>1, <3>2
  <2>3. Resolve(old)' \in {Resolve(old), id} /\ (Resolve(old) = id => Resolve(old)' = id)
    <3>1. CASE \E i \in Live \ {id} : proj[i].name = old
      <4>1. PICK i \in Live \ {id} : proj[i].name = old
        BY <3>1
      <4>2. Resolve(old) = i /\ Resolve(old)' = i
        BY <1>3, <1>4, <1>8, <4>1, ResolveIs, ResolveIsNext DEF TablesOK, Live
      <4>. QED BY <4>1, <4>2
    <3>2. CASE \A i \in Live \ {id} : proj[i].name # old
      <4>1. \A i \in Live' : proj'[i].name # old
        BY <1>2, <1>3, <1>4, <3>2 DEF Live
      <4>2. Resolve(old)' = id
        BY <1>5, <1>8, <4>1, ResolveIsNext
      <4>. QED BY <4>2
    <3>. QED BY <3>1, <3>2
  <2>4. ASSUME cur \notin {old, new} PROVE Resolve(cur)' = alias[cur]
    <3>1. \A i \in Live' : proj'[i].name # cur
      BY <1>1, <1>2, <1>3, <1>4, <2>4 DEF TablesOK, NamesOK, Live
    <3>. QED BY <1>5, <1>8, <2>4, <3>1, ResolveIsNext
  <2>. QED BY <2>1, <2>2, <2>3, <2>4
<1>10. /\ loose \subseteq loose' /\ loose' \subseteq Id
       /\ taken # {} => id \in loose' /\ (alias[cur] # None => alias[cur] \in loose')
  BY <1>1, <1>4 DEF taken, TablesOK, DepsOK, RowsOK
<1>11. ASSUME NEW n \in ProjectName, Given(n)
       PROVE  /\ Resolve(n)' \in {Resolve(n), None} \cup loose'
              /\ n = old => id \in {Resolve(n)} \cup loose'
  <2>1. CASE taken # {}
    BY <1>9, <1>10, <2>1
  <2>2. CASE taken = {}
    <3>1. Resolve(old) = id /\ cur \in {old, new} /\ (Given(new) => Resolve(new) = id)
      BY <1>7, <2>2
    <3>. QED BY <1>9, <1>11, <3>1
  <2>. QED BY <2>1, <2>2
<1>12. NamesKeepResolving'
  <2>1. SUFFICES ASSUME NEW k \in ProjectName, holder'[k] # None, k \notin shadowed'
                 PROVE  Resolve(k)' = Canon(holder[k])'
    BY DEF NamesKeepResolving
  <2>2. k \notin taken /\ k \notin shadowed
    BY <2>1 DEF taken
  <2>3. CASE k \notin {old, new, cur}
    BY <1>6, <1>9, <2>1, <2>2, <2>3 DEF TablesOK, NamesKeepResolving, Canon
  <2>4. CASE k = new
    <3>1. CASE ~Given(new)
      <4>1. into[id] = None
        BY <1>2 DEF TablesOK, NamesOK, Live
      <4>. QED BY <1>6, <1>9, <2>4, <3>1, <4>1 DEF Canon
    <3>2. CASE Given(new)
      BY <1>6, <1>7, <1>9, <2>2, <2>4, <3>2 DEF TablesOK, NamesKeepResolving, Canon, Given
    <3>. QED BY <3>1, <3>2
  <2>5. CASE k = old
    BY <1>2, <1>6, <1>7, <1>9, <2>2, <2>5 DEF TablesOK, NamesKeepResolving, Canon, Given
  <2>. QED BY <1>7, <2>2, <2>3, <2>4, <2>5
<1>13. ASSUME NEW i \in Id
       PROVE  /\ deps'[i] \subseteq ProjectName /\ \A n \in deps'[i] : Given(n)'
              /\ i \notin Live => deps'[i] = {}
              /\ DepIds(deps[i])' \subseteq DepIds(deps[i]) \cup loose'
  <2>1. deps[i] \subseteq ProjectName /\ (\A n \in deps[i] : Given(n)) /\ (i \notin Live => deps[i] = {})
    BY DEF TablesOK, DepsOK
  <2>2. deps'[i] = IF old \in deps[i] THEN (deps[i] \ {old}) \cup (IF i = id THEN {} ELSE {new}) ELSE deps[i]
    BY <1>1 DEF RenameDepends
  <2>3. deps'[i] \subseteq (deps[i] \cup {new}) /\ (new \in deps'[i] => new \in deps[i] \/ old \in deps[i])
    BY <2>2
  <2>4. Given(new)'
    BY <1>6 DEF Given
  <2>5. ASSUME NEW n \in deps'[i], Resolve(n)' # None PROVE Resolve(n)' \in DepIds(deps[i]) \cup loose'
    <3>1. CASE n \in deps[i]
      BY <1>11, <2>1, <2>5, <3>1 DEF DepIds
    <3>2. CASE n = new /\ old \in deps[i]
      BY <1>4, <1>9, <1>11, <2>1, <3>2 DEF DepIds
    <3>. QED BY <2>3, <3>1, <3>2
  <2>6. DepIds(deps[i])' \subseteq DepIds(deps[i]) \cup loose'
    BY <2>5 DEF DepIds
  <2>. QED BY <1>6, <2>1, <2>2, <2>3, <2>4, <2>6
<1>14. DepsOK'
  <2>1. \A C \in SUBSET (Id \ loose') : ~Loop(C)'
    <3>1. \A i \in Id : DepIds(deps[i])' \subseteq DepIds(deps[i]) \cup loose' \cup none
      BY <1>13
    <3>2. \A i \in none \cap Id : DepIds(deps[i])' = {}
      BY <1>4b
    <3>. QED BY <1>10, <3>1, <3>2, NoNewLoop DEF TablesOK
  <2>2. deps' = [i \in Id |-> deps'[i]]
    BY DEF RenameDepends
  <2>. QED BY <1>4, <1>10, <1>13, <2>1, <2>2 DEF DepsOK
<1>15. ReleasesOK' /\ MergeLosesNothing'
  BY <1>4 DEF TablesOK, ReleasesOK, MergeLosesNothing, Canon
<1>16. ASSUME NEW v, WaitOK(v) PROVE WaitOK(v)'
  <2>1. CheckedOK(v)'
    <3>1. /\ \A n \in ProjectName : Given(n) => Given(n)' /\ Resolve(n)' \in {Resolve(n), None} \cup loose' \cup none
          /\ \A i \in Id : DepIds(deps[i])' \subseteq DepIds(deps[i]) \cup loose' \cup none
      BY <1>6, <1>11, <1>13
    <3>2. DepsOK /\ CheckedOK(v) /\ UsedIds \subseteq UsedIds'
      BY <1>4, <1>16 DEF TablesOK, WaitOK
    <3>3. none \cap UsedIds = {} /\ \A i \in none : DepIds(deps[i])' = {}
      BY <1>4b
    <3>. QED BY <1>10, <3>1, <3>2, <3>3, StillChecked
  <2>2. RenameOK(v)'
    BY <1>6, <1>16 DEF WaitOK, RenameOK, Given
  <2>3. PlanOK(v)'
    BY <1>4, <1>6, <1>16 DEF WaitOK, PlanOK, Given
  <2>. QED BY <2>1, <2>2, <2>3 DEF WaitOK
<1>. QED BY <1>4, <1>8, <1>12, <1>14, <1>15, <1>16 DEF TablesOK

\* The merge that was planned, if its transaction goes through.
LEMMA MergedKeeps ==
    ASSUME RowsOK, TablesOK, NEW m, m.src \in Id, m.dst \in Id, m.src # m.dst, m.name \in ProjectName,
           m.pc = "merge", PlanOK(m), Drained(m),
           rel' = [r \in Release |-> IF r \in DOMAIN m.plan THEN [proj |-> m.dst, num |-> m.plan[r]] ELSE rel[r]],
           sites' = {IF s[1] = m.src THEN <<m.dst, s[2]>> ELSE s : s \in sites},
           alias' = [n \in ProjectName |-> IF alias[n] = m.src \/ n = m.name THEN m.dst ELSE alias[n]],
           deps' = [RenameDepends(deps, m.name, m.dname, m.dst) EXCEPT ![m.src] = {}],
           proj' = [proj EXCEPT ![m.src] = None],
           into' = [i \in Id |-> IF i = m.src \/ into[i] = m.src THEN m.dst ELSE into[i]],
           loose' = loose \cup {m.dst} \cup
                      (IF proj[m.src].name = m.name /\ Resolve(m.dname) = m.dst THEN {}
                       ELSE {Resolve(m.dname), alias[proj[m.src].name]} \ {None}),
           shadowed' = shadowed \cup (IF proj[m.src].name = m.name THEN {} ELSE {proj[m.src].name}),
           holder' = holder, made' = made
    PROVE  TablesOK' /\ UsedIds \subseteq UsedIds' /\ \A v : WaitOK(v) => WaitOK(v)'
<1>1. /\ m.src \in Live /\ m.dst \in Live /\ alias[m.name] = None
      /\ Of(m.src) = DOMAIN m.plan /\ \A r \in DOMAIN m.plan : m.plan[r] \notin Numbers(m.dst)
  BY DEF Drained
<1>2. PICK src \in Id, dst \in Id, name \in ProjectName, dname \in ProjectName, cur \in ProjectName, plan \in {m.plan} :
        src = m.src /\ dst = m.dst /\ name = m.name /\ dname = m.dname /\ cur = proj[src].name /\ plan = m.plan
  BY <1>1 DEF PlanOK, RowsOK, Live, ProjectRow
<1>3. /\ src # dst /\ src \in Live /\ dst \in Live /\ src # None /\ dst # None
      /\ name # dname /\ Given(name) /\ Given(dname) /\ alias[name] = None
  BY <1>1, <1>2, NoneAssumption DEF PlanOK
<1>4. /\ DOMAIN plan \subseteq Release
      /\ \A r \in DOMAIN plan : plan[r] \in Nat /\ rel[r] # None /\ rel[r].proj = src
      /\ \A r, s \in DOMAIN plan : rel[r].num < rel[s].num => plan[r] < plan[s]
      /\ \A r \in Release : rel[r] # None /\ rel[r].proj = src => r \in DOMAIN plan
      /\ \A r \in DOMAIN plan, s \in Release : rel[s] # None /\ rel[s].proj = dst => plan[r] # rel[s].num
  <2>1. /\ DOMAIN m.plan \subseteq Release /\ m.plan \in [DOMAIN m.plan -> Nat]
        /\ \A r \in DOMAIN m.plan : rel[r] # None /\ rel[r].proj = m.src
        /\ \A r, s \in DOMAIN m.plan : rel[r].num < rel[s].num => m.plan[r] < m.plan[s]
    BY <1>1 DEF PlanOK
  <2>2. \A r \in Release : rel[r] # None /\ rel[r].proj = m.src => r \in DOMAIN m.plan
    BY <1>1 DEF Of
  <2>3. \A r \in DOMAIN m.plan, s \in Release : rel[s] # None /\ rel[s].proj = m.dst => m.plan[r] # rel[s].num
    BY <1>1 DEF Numbers
  <2>4. \A r \in DOMAIN m.plan : m.plan[r] \in Nat
    BY <2>1
  <2>. QED BY <1>2, <2>1, <2>2, <2>3, <2>4
<1>5. /\ proj'[src] = None /\ \A i \in Id \ {src} : proj'[i] = proj[i]
      /\ \A i \in Id : into'[i] = IF i = src \/ into[i] = src THEN dst ELSE into[i]
      /\ \A n \in ProjectName : alias'[n] = IF alias[n] = src \/ n = name THEN dst ELSE alias[n]
  BY <1>2 DEF RowsOK
<1>6. /\ Live' = Live \ {src} /\ Live \subseteq Id /\ UsedIds' = UsedIds
      /\ \A i \in Live \ {src} : proj'[i] = proj[i]
  BY <1>3, <1>5 DEF Live, UsedIds
<1>7. /\ loose \subseteq loose' /\ loose' \subseteq Id /\ dst \in loose'
      /\ cur # name \/ Resolve(dname) # dst =>
           /\ Resolve(dname) # None => Resolve(dname) \in loose'
           /\ alias[cur] # None => alias[cur] \in loose'
  <2>1. Resolve(dname) \in Id \cup {None} /\ alias[cur] \in Id \cup {None}
    BY <1>6, ResolveIs DEF TablesOK, RowsOK
  <2>. QED BY <1>2, <2>1 DEF TablesOK, DepsOK
<1>8. NamesOK'
  <2>1. \A i, j \in Live' : proj'[i].name = proj'[j].name => i = j
    BY <1>6 DEF TablesOK, NamesOK
  <2>2. \A i \in Live' : proj'[i].name \in ProjectName /\ holder'[proj'[i].name] # None
    BY <1>6 DEF TablesOK, NamesOK, Given
  <2>3. \A n \in ProjectName : alias'[n] # None => holder'[n] # None
    <3>1. \A n \in ProjectName : alias[n] # None => holder[n] # None
      BY DEF TablesOK, NamesOK, Given
    <3>. QED BY <1>3, <1>5, <3>1 DEF Given
  <2>4. \A i \in Id : into'[i] # None => into'[i] \in Live' /\ proj'[i] = None
    <3>1. \A i \in Id : into[i] # None => into[i] \in Live /\ proj[i] = None
      BY DEF TablesOK, NamesOK
    <3>. QED BY <1>3, <1>5, <1>6, <3>1
  <2>. QED BY <2>1, <2>2, <2>3, <2>4 DEF TablesOK, NamesOK, Given
<1>9. Resolve(cur) = src
  BY <1>2, <1>3, ResolveIs DEF TablesOK
<1>10. ASSUME NEW n \in ProjectName
       PROVE  /\ n # cur => Resolve(n)' \in {Resolve(n), dst}
              /\ n # cur /\ Resolve(n) = src => Resolve(n)' = dst
              /\ n # cur /\ n # name /\ Resolve(n) # src => Resolve(n)' = Resolve(n)
              /\ n # cur /\ Resolve(n) \notin {None, src} => Resolve(n)' = Resolve(n)
              /\ n = cur => Resolve(n)' \in {dst, alias[cur]}
              /\ n = cur /\ cur = name => Resolve(n)' = dst
  <2>1. CASE \E i \in Live \ {src} : proj[i].name = n
    <3>1. PICK i \in Live \ {src} : proj[i].name = n
      BY <2>1
    <3>2. Resolve(n) = i /\ Resolve(n)' = i
      BY <1>6, <1>8, <3>1, ResolveIs, ResolveIsNext DEF TablesOK
    <3>. QED BY <1>9, <3>1, <3>2
  <2>2. CASE \A i \in Live \ {src} : proj[i].name # n
    <3>1. \A i \in Live' : proj'[i].name # n
      BY <1>6, <2>2
    <3>2. Resolve(n)' = alias'[n]
      BY <1>8, <3>1, ResolveIsNext
    <3>3. n # cur => Resolve(n) = alias[n]
      <4>1. n # cur => \A i \in Live : proj[i].name # n
        BY <1>2, <2>2
      <4>. QED BY <4>1, ResolveIs DEF TablesOK
    <3>. QED BY <1>3, <1>5, <3>2, <3>3
  <2>. QED BY <2>1, <2>2
<1>11. ASSUME NEW h \in Id PROVE Canon(h)' = IF Canon(h) = src THEN dst ELSE Canon(h)
  <2>1. into[src] = None
    BY <1>3 DEF TablesOK, NamesOK, Live
  <2>. QED BY <1>3, <1>5, <2>1 DEF Canon
<1>12. NamesKeepResolving'
  <2>1. SUFFICES ASSUME NEW k \in ProjectName, holder[k] # None, k \notin shadowed'
                 PROVE  Resolve(k)' = Canon(holder[k])'
    BY DEF NamesKeepResolving
  <2>2. k \notin shadowed /\ (k = cur => cur = name) /\ holder[k] \in Id
    BY <1>2, <2>1 DEF TablesOK, NamesOK
  <2>3. Resolve(k) = Canon(holder[k]) /\ Canon(holder[k]) # None
    <3>1. into[holder[k]] \in Id \cup {None}
      BY <2>2 DEF RowsOK
    <3>. QED BY <2>1, <2>2, <3>1, NoneAssumption DEF TablesOK, NamesKeepResolving, Canon
  <2>4. PICK h \in Id : h = holder[k] /\ h = holder'[k]
    BY <2>2
  <2>5. Canon(holder[k])' = IF Canon(h) = src THEN dst ELSE Canon(h)
    BY <1>11, <2>4 DEF Canon
  <2>. QED BY <1>9, <1>10, <2>2, <2>3, <2>4, <2>5
<1>13. ASSUME NEW n \in ProjectName, Given(n) PROVE Resolve(n)' \in {Resolve(n), None} \cup loose'
  BY <1>7, <1>10
<1>14. ASSUME NEW i \in Id
       PROVE  /\ deps'[i] \subseteq ProjectName /\ \A n \in deps'[i] : Given(n)'
              /\ i \notin Live' => deps'[i] = {}
              /\ DepIds(deps[i])' \subseteq DepIds(deps[i]) \cup loose'
  <2>1. deps[i] \subseteq ProjectName /\ (\A n \in deps[i] : Given(n)) /\ (i \notin Live => deps[i] = {})
    BY DEF TablesOK, DepsOK
  <2>2. deps'[i] = IF i = src THEN {}
                   ELSE IF name \in deps[i] THEN (deps[i] \ {name}) \cup (IF i = dst THEN {} ELSE {dname})
                   ELSE deps[i]
    BY <1>2 DEF RenameDepends
  <2>3. deps'[i] \subseteq (deps[i] \cup {dname}) /\ (i \notin Live' => deps'[i] = {})
    BY <1>6, <2>1, <2>2
  <2>4. \A n \in deps'[i] : Given(n)'
    BY <1>3, <2>1, <2>3 DEF Given
  <2>5. ASSUME NEW n \in deps'[i], Resolve(n)' # None PROVE Resolve(n)' \in DepIds(deps[i]) \cup loose'
    <3>1. CASE n \in deps[i]
      BY <1>13, <2>1, <2>5, <3>1 DEF DepIds
    <3>2. CASE n = dname
      BY <1>3, <1>7, <1>10, <2>5, <3>2
    <3>. QED BY <2>3, <3>1, <3>2
  <2>6. DepIds(deps[i])' \subseteq DepIds(deps[i]) \cup loose'
    BY <2>5 DEF DepIds
  <2>. QED BY <2>1, <2>3, <2>4, <2>6
<1>15. PICK none \in SUBSET Id : none = {}
  OBVIOUS
<1>16. \A i \in Id : DepIds(deps[i])' \subseteq DepIds(deps[i]) \cup loose' \cup none
  BY <1>14
<1>17. DepsOK'
  <2>1. \A C \in SUBSET (Id \ loose') : ~Loop(C)'
    <3>1. \A i \in none \cap Id : DepIds(deps[i])' = {}
      BY <1>15
    <3>. QED BY <1>7, <1>16, <3>1, NoNewLoop DEF TablesOK
  <2>2. deps' = [i \in Id |-> deps'[i]]
    BY DEF RenameDepends
  <2>. QED BY <1>7, <1>14, <2>1, <2>2 DEF DepsOK
<1>18. /\ rel' \in [Release -> [proj : Id, num : Nat] \cup {None}]
       /\ \A r \in DOMAIN plan : rel'[r] # None /\ rel'[r].proj = dst /\ rel'[r].num = plan[r]
       /\ \A r \in Release \ DOMAIN plan : rel'[r] = rel[r] /\ (rel[r] # None => rel[r].proj # src)
       /\ \A r \in Release : rel'[r] # None <=> rel[r] # None
  <2>1. \A r \in Release : rel'[r] = IF r \in DOMAIN plan THEN [proj |-> dst, num |-> plan[r]] ELSE rel[r]
    BY <1>2
  <2>2. \A r \in DOMAIN plan : [proj |-> dst, num |-> plan[r]] \in [proj : Id, num : Nat]
    BY <1>4
  <2>3. \A x \in [proj : Id, num : Nat] : x # None
    BY NoneAssumption
  <2>4. rel' = [r \in Release |-> rel'[r]] /\ \A r \in Release : rel[r] \in [proj : Id, num : Nat] \cup {None}
    BY DEF TablesOK, ReleasesOK
  <2>5. ASSUME NEW r \in DOMAIN plan
        PROVE  /\ rel'[r] \in [proj : Id, num : Nat] /\ rel'[r] # None /\ rel[r] # None
               /\ rel'[r].proj = dst /\ rel'[r].num = plan[r]
    <3>1. r \in Release /\ rel[r] # None /\ plan[r] \in Nat
      BY <1>4
    <3>2. rel'[r] = [proj |-> dst, num |-> plan[r]]
      BY <2>1, <3>1
    <3>3. rel'[r] \in [proj : Id, num : Nat]
      BY <3>1, <3>2
    <3>. QED BY <2>3, <3>1, <3>2, <3>3
  <2>6. ASSUME NEW r \in Release \ DOMAIN plan PROVE rel'[r] = rel[r] /\ (rel[r] # None => rel[r].proj # src)
    BY <1>4, <2>1
  <2>7. ASSUME NEW r \in Release PROVE rel'[r] \in [proj : Id, num : Nat] \cup {None} /\ (rel'[r] # None <=> rel[r] # None)
    <3>1. CASE r \in DOMAIN plan
      BY <2>5, <3>1
    <3>2. CASE r \notin DOMAIN plan
      BY <2>4, <2>6, <3>2
    <3>. QED BY <3>1, <3>2
  <2>8. rel' \in [Release -> [proj : Id, num : Nat] \cup {None}]
    BY <2>4, <2>7
  <2>. QED BY <2>5, <2>6, <2>7, <2>8
<1>19. ReleasesOK'
  <2>1. {r \in Release : rel'[r] # None} = {r \in Release : rel[r] # None}
    BY <1>18
  <2>2. sites' \subseteq Id \X Branch
    BY <1>2 DEF TablesOK, ReleasesOK
  <2>. QED BY <1>18, <2>1, <2>2 DEF TablesOK, ReleasesOK
<1>20. MergeLosesNothing'
  <2>1. \A r \in Release : rel[r] # None =>
           /\ made[r] \in Id /\ rel[r].proj = Canon(made[r]) /\ rel[r].proj \in Live
    BY DEF TablesOK, ReleasesOK, MergeLosesNothing
  <2>2. ASSUME NEW r \in Release, rel[r] # None PROVE rel'[r].proj = Canon(made[r])' /\ rel'[r].proj \in Live'
    <3>1. Canon(made[r])' = IF Canon(made[r]) = src THEN dst ELSE Canon(made[r])
      BY <1>11, <2>1, <2>2 DEF Canon
    <3>2. CASE r \in DOMAIN plan
      <4>1. rel'[r].proj = dst /\ rel[r].proj = src
        BY <1>4, <1>18, <3>2
      <4>. QED BY <1>3, <1>6, <2>1, <2>2, <3>1, <4>1
    <3>3. CASE r \notin DOMAIN plan
      <4>1. rel'[r] = rel[r] /\ rel[r].proj # src
        BY <1>18, <2>2, <3>3
      <4>. QED BY <1>6, <2>1, <2>2, <3>1, <4>1
    <3>. QED BY <3>2, <3>3
  <2>3. ASSUME NEW r \in Release, NEW s \in Release, r < s, rel[r] # None, rel[s] # None, rel'[r].proj = rel'[s].proj
        PROVE  rel'[r].num # rel'[s].num /\ (made[r] = made[s] => rel'[r].num < rel'[s].num)
    <3>1. rel[r].num \in Nat /\ rel[s].num \in Nat
      BY <2>3 DEF TablesOK, ReleasesOK
    <3>2. rel[r].proj = rel[s].proj => rel[r].num # rel[s].num /\ (made[r] = made[s] => rel[r].num < rel[s].num)
      BY <2>3 DEF TablesOK, MergeLosesNothing
    <3>3. made[r] = made[s] => rel[r].proj = rel[s].proj
      BY <2>1, <2>3
    <3>4. CASE r \in DOMAIN plan /\ s \in DOMAIN plan
      <4>1. plan[r] \in Nat /\ plan[s] \in Nat /\ rel[r].proj = rel[s].proj
        BY <1>4, <3>4
      <4>2. rel[r].num < rel[s].num => plan[r] < plan[s]
        BY <1>4, <3>4
      <4>3. rel[s].num < rel[r].num => plan[s] < plan[r]
        BY <1>4, <3>4
      <4>4. rel'[r].num = plan[r] /\ rel'[s].num = plan[s]
        BY <1>18, <3>4
      <4>5. plan[r] # plan[s] /\ (made[r] = made[s] => plan[r] < plan[s])
        BY <3>1, <3>2, <4>1, <4>2, <4>3
      <4>. QED BY <4>4, <4>5
    <3>5. CASE r \notin DOMAIN plan /\ s \notin DOMAIN plan
      BY <1>18, <2>3, <3>2, <3>5
    <3>6. CASE r \in DOMAIN plan /\ s \notin DOMAIN plan
      <4>1. rel'[r].proj = dst /\ rel'[r].num = plan[r] /\ rel'[s] = rel[s] /\ rel[s].proj # src
        BY <1>18, <2>3, <3>6
      <4>2. rel[s].proj = dst /\ rel[r].proj = src
        BY <1>4, <2>3, <3>6, <4>1
      <4>3. plan[r] # rel[s].num /\ made[r] # made[s]
        BY <1>3, <1>4, <2>3, <3>3, <3>6, <4>2
      <4>. QED BY <4>1, <4>3
    <3>7. CASE r \notin DOMAIN plan /\ s \in DOMAIN plan
      <4>1. rel'[s].proj = dst /\ rel'[s].num = plan[s] /\ rel'[r] = rel[r] /\ rel[r].proj # src
        BY <1>18, <2>3, <3>7
      <4>2. rel[r].proj = dst /\ rel[s].proj = src
        BY <1>4, <2>3, <3>7, <4>1
      <4>3. plan[s] # rel[r].num /\ made[r] # made[s]
        BY <1>3, <1>4, <2>3, <3>3, <3>7, <4>2
      <4>. QED BY <4>1, <4>3
    <3>. QED BY <3>4, <3>5, <3>6, <3>7
  <2>. QED BY <1>18, <2>2, <2>3 DEF MergeLosesNothing
<1>21. ASSUME NEW v, WaitOK(v) PROVE WaitOK(v)'
  <2>1. CheckedOK(v)'
    <3>1. \A n \in ProjectName : Given(n) => Given(n)' /\ Resolve(n)' \in {Resolve(n), None} \cup loose' \cup none
      BY <1>13 DEF Given
    <3>2. DepsOK /\ CheckedOK(v) /\ UsedIds \subseteq UsedIds'
      BY <1>6, <1>21 DEF TablesOK, WaitOK
    <3>3. none \cap UsedIds = {} /\ \A i \in none : DepIds(deps[i])' = {}
      BY <1>15
    <3>. QED BY <1>7, <1>16, <3>1, <3>2, <3>3, StillChecked
  <2>2. RenameOK(v)'
    BY <1>21 DEF WaitOK, RenameOK, Given
  <2>3. PlanOK(v)'
    <3>1. SUFFICES ASSUME v.pc \in {"replan", "merge"}, v.src \in Live'
                   PROVE  /\ \A r \in DOMAIN v.plan : rel'[r] # None /\ rel'[r].proj = v.src
                          /\ \A r, s \in DOMAIN v.plan : rel'[r].num < rel'[s].num => v.plan[r] < v.plan[s]
      BY <1>6, <1>21 DEF WaitOK, PlanOK, Given
    <3>2. /\ v.src \in Live /\ v.src # src
          /\ DOMAIN v.plan \subseteq Release
          /\ \A r \in DOMAIN v.plan : rel[r] # None /\ rel[r].proj = v.src
          /\ \A r, s \in DOMAIN v.plan : rel[r].num < rel[s].num => v.plan[r] < v.plan[s]
      BY <1>6, <1>21, <3>1 DEF WaitOK, PlanOK
    <3>3. \A r \in DOMAIN v.plan : rel'[r] = rel[r]
      BY <1>4, <1>18, <3>2
    <3>. QED BY <3>2, <3>3
  <2>. QED BY <2>1, <2>2, <2>3 DEF WaitOK
<1>. QED BY <1>6, <1>8, <1>12, <1>17, <1>19, <1>20, <1>21 DEF TablesOK

\* The numbers of finitely many releases have a bound.
LEMMA NumbersBounded ==
    ASSUME ReleasesOK
    PROVE  \E b \in Nat : \A r \in Release : rel[r] # None => rel[r].num <= b
<1>. DEFINE Bound(b, k) == \A r \in Release : r <= k /\ rel[r] # None => rel[r].num <= b
            S == {k \in 0..MaxReleases : \E b \in Nat : Bound(b, k)}
<1>1. \A r \in Release : rel[r] # None => rel[r].num \in Nat
  BY DEF ReleasesOK
<1>2. 0 \in S
  <2>1. Bound(0, 0) /\ 0 \in 0..MaxReleases
    BY ProjectBounds DEF Release
  <2>. QED BY <2>1
<1>3. PICK k \in S : \A j \in S : j <= k
  <2>1. S \subseteq Nat /\ S # {} /\ \A x \in S : x <= MaxReleases
    BY <1>2, ProjectBounds
  <2>. HIDE DEF S
  <2>. QED BY <2>1, ProjectBounds, Largest
<1>4. PICK b \in Nat : Bound(b, k)
  BY <1>3
<1>5. k = MaxReleases
  <2>1. SUFFICES ASSUME k # MaxReleases PROVE FALSE
    OBVIOUS
  <2>2. k + 1 \in 0..MaxReleases /\ k + 1 \in Release /\ k \in Nat
    BY <2>1, ProjectBounds DEF Release
  <2>3. PICK a \in Nat : a >= b /\ (rel[k + 1] # None => a >= rel[k + 1].num)
    <3>1. CASE rel[k + 1] = None
      BY <3>1
    <3>2. CASE rel[k + 1] # None
      <4>1. PICK q \in Nat : q = rel[k + 1].num
        BY <1>1, <2>2, <3>2
      <4>2. b + q \in Nat /\ b + q >= b /\ b + q >= q
        BY <4>1
      <4>. QED BY <4>1, <4>2
    <3>. QED BY <3>1, <3>2
  <2>4. ASSUME NEW r \in Release, r <= k + 1, rel[r] # None PROVE rel[r].num <= a
    <3>1. rel[r].num \in Nat
      BY <1>1, <2>4
    <3>2. CASE r = k + 1
      BY <2>3, <2>4, <3>1, <3>2
    <3>3. CASE r # k + 1
      <4>1. r <= k
        BY <2>2, <2>4, <3>3, ProjectBounds DEF Release
      <4>2. rel[r].num <= b
        BY <1>4, <2>4, <4>1
      <4>. QED BY <2>3, <3>1, <4>2
    <3>. QED BY <3>2, <3>3
  <2>5. k + 1 \in S
    BY <2>2, <2>4
  <2>. HIDE DEF S
  <2>. QED BY <1>3, <2>2, <2>5
<1>6. ASSUME NEW r \in Release, rel[r] # None PROVE rel[r].num <= b
  BY <1>4, <1>5, <1>6, ProjectBounds DEF Release
<1>. QED BY <1>6

\* The last number of a project is at least each of its numbers.
LEMMA LastNumIs ==
    ASSUME ReleasesOK, NEW i
    PROVE  LastNum(i) \in Nat /\ \A n \in Numbers(i) : n \in Nat /\ n <= LastNum(i)
<1>1. Numbers(i) \subseteq Nat
  BY DEF Numbers, ReleasesOK
<1>2. PICK b \in Nat : \A n \in Numbers(i) : n <= b
  BY NumbersBounded DEF Numbers
<1>3. CASE Numbers(i) = {}
  BY <1>3 DEF LastNum
<1>4. CASE Numbers(i) # {}
  <2>1. PICK x \in Numbers(i) : \A y \in Numbers(i) : y <= x
    BY <1>1, <1>2, <1>4, Largest
  <2>2. LastNum(i) \in Numbers(i) /\ \A y \in Numbers(i) : y <= LastNum(i)
    BY <1>4, <2>1, Zenon DEF LastNum
  <2>. QED BY <1>1, <2>2
<1>. QED BY <1>3, <1>4

\* A release is numbered after the others of its project.
LEMMA ReleaseKeeps ==
    ASSUME RowsOK, TablesOK, NEW id, id \in Live, NextRelease \in Release,
           rel' = [rel EXCEPT ![NextRelease] = [proj |-> id, num |-> LastNum(id) + 1]],
           made' = [made EXCEPT ![NextRelease] = id],
           UNCHANGED <<proj, alias, deps, sites, holder, into, shadowed, loose>>
    PROVE  TablesOK' /\ \A v : WaitOK(v) => WaitOK(v)'
<1>1. NamesOK' /\ Live' = Live /\ \A n \in ProjectName : Resolve(n)' = Resolve(n)
  BY NamesStay DEF TablesOK
<1>2. DepsOK' /\ UsedIds' = UsedIds /\ id \in Id
  BY <1>1, DepsStay DEF TablesOK, UsedIds, Live
<1>3. PICK m \in 0..MaxReleases : {r \in Release : rel[r] # None} = 1..m
  BY DEF TablesOK, ReleasesOK
<1>4. PICK k \in Release, num \in Nat : k = NextRelease /\ num = LastNum(id) + 1 /\ k = m + 1
  <2>0. m \in Nat
    BY ProjectBounds
  <2>1. Cardinality(1..m) = m
    BY <2>0, FS_Interval
  <2>2. NextRelease = m + 1
    BY <1>3, <2>1 DEF NextRelease
  <2>3. LastNum(id) + 1 \in Nat
    BY LastNumIs DEF TablesOK
  <2>. QED BY <2>2, <2>3
<1>5. rel[k] = None /\ \A r \in Release : rel[r] # None => r < k
  BY <1>3, <1>4, ProjectBounds DEF Release
<1>6. PICK row \in [proj : Id, num : Nat] : row = [proj |-> id, num |-> num] /\ row # None
  <2>1. [proj |-> id, num |-> num] \in [proj : Id, num : Nat]
    BY <1>2
  <2>. QED BY <2>1, NoneAssumption
<1>7. /\ rel'[k] = row /\ rel'[k].proj = id /\ rel'[k].num = num /\ made'[k] = id
      /\ \A r \in Release \ {k} : rel'[r] = rel[r] /\ made'[r] = made[r]
      /\ rel' \in [Release -> [proj : Id, num : Nat] \cup {None}] /\ made' \in [Release -> Id \cup {None}]
  BY <1>2, <1>4, <1>6 DEF TablesOK, ReleasesOK
<1>8. ReleasesOK'
  <2>1. {r \in Release : rel'[r] # None} = {r \in Release : rel[r] # None} \cup {k}
    BY <1>6, <1>7
  <2>2. 1..m \cup {k} = 1..(m + 1) /\ m + 1 \in 0..MaxReleases
    BY <1>4, ProjectBounds DEF Release
  <2>3. {r \in Release : rel'[r] # None} = 1..(m + 1)
    BY <1>3, <2>1, <2>2
  <2>4. \A r \in Release : rel'[r] # None => made'[r] # None
    BY <1>2, <1>7, NoneAssumption DEF TablesOK, ReleasesOK
  <2>. QED BY <1>7, <2>2, <2>3, <2>4 DEF TablesOK, ReleasesOK
<1>9. \A r \in Release : rel[r] # None => rel'[r] = rel[r] /\ made'[r] = made[r] /\ r # k
  BY <1>5, <1>7
<1>10. \A i : Canon(i)' = Canon(i)
  BY DEF Canon
<1>11. Canon(id) = id
  BY <1>2 DEF TablesOK, NamesOK, Canon, Live
<1>12. \A r \in Release : rel[r] # None => rel[r].proj = Canon(made[r]) /\ rel[r].proj \in Live
  BY DEF TablesOK, MergeLosesNothing
<1>13. ASSUME NEW r \in Release, rel'[r] # None PROVE rel'[r].proj = Canon(made[r])' /\ rel'[r].proj \in Live'
  <2>0. Canon(made[r])' = Canon(made'[r])
    BY DEF Canon
  <2>1. CASE r = k
    BY <1>1, <1>7, <1>11, <2>0, <2>1
  <2>2. CASE r # k
    BY <1>1, <1>7, <1>12, <1>13, <2>0, <2>2
  <2>. QED BY <2>1, <2>2
<1>14. ASSUME NEW r \in Release, NEW s \in Release, r < s, rel'[r] # None, rel'[s] # None, rel'[r].proj = rel'[s].proj
       PROVE  rel'[r].num # rel'[s].num /\ (made'[r] = made'[s] => rel'[r].num < rel'[s].num)
  <2>1. r # k
    <3>1. SUFFICES ASSUME r = k PROVE FALSE
      OBVIOUS
    <3>2. s # k /\ rel[s] # None
      BY <1>7, <1>14, <3>1 DEF Release
    <3>. QED BY <1>5, <1>14, <3>1, <3>2, ProjectBounds DEF Release
  <2>2. rel'[r] = rel[r] /\ rel[r] # None /\ made'[r] = made[r]
    BY <1>7, <1>14, <2>1
  <2>3. CASE s = k
    <3>1. rel[r].num \in Numbers(id)
      BY <1>7, <1>14, <2>2, <2>3 DEF Numbers
    <3>2. rel[r].num \in Nat /\ rel[r].num <= LastNum(id) /\ LastNum(id) \in Nat
      BY <3>1, LastNumIs DEF TablesOK
    <3>3. rel[r].num < num
      BY <1>4, <3>2
    <3>. QED BY <1>7, <2>2, <2>3, <3>2, <3>3
  <2>4. CASE s # k
    <3>1. rel'[s] = rel[s] /\ made'[s] = made[s] /\ rel[s] # None
      BY <1>7, <1>14, <2>4
    <3>. QED BY <1>14, <2>2, <3>1 DEF TablesOK, MergeLosesNothing
  <2>. QED BY <2>3, <2>4
<1>15. MergeLosesNothing'
  BY <1>13, <1>14 DEF MergeLosesNothing
<1>16. NamesKeepResolving'
  BY <1>1, <1>10 DEF TablesOK, NamesKeepResolving, Canon
<1>17. \A v : WaitOK(v) => WaitOK(v)'
  BY <1>1, <1>2, <1>9, WaitStays DEF TablesOK
<1>. QED BY <1>1, <1>2, <1>8, <1>15, <1>16, <1>17 DEF TablesOK

\* A list that was checked is stored.
LEMMA StoreKeeps ==
    ASSUME PinInv, TablesOK, \A d \in Caller : WaitOK(call[d]), NEW c \in Caller, StoreDepends(c)
    PROVE  TablesOK' /\ \A d \in Caller \ {c} : \A v : v = call[d] => WaitOK(v)'
<1>1. PICK id \in Id, names \in SUBSET ProjectName :
        /\ id = call[c].id /\ names = call[c].names
        /\ \A n \in names : Given(n)
        /\ id \in loose \/ \E K \in SUBSET Id : Clear(K, id, names)
  BY DEF StoreDepends, At, WaitOK, CheckedOK, UsedIds
<1>2. /\ deps' = IF id \in Live THEN [deps EXCEPT ![id] = names] ELSE deps
      /\ loose' = loose \cup {call[d].id : d \in {e \in Caller \ {c} : At(e, "depends") /\ call[e].id # id}}
      /\ UNCHANGED <<proj, alias, rel, sites, holder, into, made, shadowed>>
  BY <1>1 DEF StoreDepends
<1>3. NamesOK' /\ Live' = Live /\ UsedIds' = UsedIds /\ \A n \in ProjectName : Resolve(n)' = Resolve(n)
  BY <1>2, NamesStay DEF PinInv, TablesOK, UsedIds
<1>4. \A ns \in SUBSET ProjectName : DepIds(ns)' = DepIds(ns)
  BY <1>3 DEF DepIds
<1>5. loose \subseteq loose' /\ loose' \subseteq Id
  <2>1. \A d \in Caller : At(d, "depends") => call[d].id \in Id
    BY DEF At, WaitOK, CheckedOK, UsedIds
  <2>. QED BY <1>2, <2>1 DEF TablesOK, DepsOK
<1>6. /\ deps' \in [Id -> SUBSET ProjectName]
      /\ \A i \in Id \ {id} : deps'[i] = deps[i]
      /\ deps'[id] \in {names, deps[id]}
      /\ \A i \in Id : i \notin Live => deps'[i] = {}
  BY <1>1, <1>2 DEF TablesOK, DepsOK
<1>7. \A i \in Id \ {id} : DepIds(deps[i])' = DepIds(deps[i])
  <2>1. \A i \in Id : deps'[i] \in SUBSET ProjectName
    BY <1>6
  <2>2. ASSUME NEW i \in Id \ {id} PROVE DepIds(deps[i])' = DepIds(deps[i])
    <3>1. PICK ns \in SUBSET ProjectName : ns = deps[i] /\ ns = deps'[i]
      BY <1>6, <2>1
    <3>. QED BY <1>4, <3>1 DEF DepIds
  <2>. QED BY <2>2
<1>8. DepIds(deps[id])' \in {DepIds(names), DepIds(deps[id])}
  <2>1. PICK ns \in SUBSET ProjectName : ns = deps'[id]
    BY <1>6
  <2>2. DepIds(deps[id])' = DepIds(ns)'
    BY <2>1 DEF DepIds
  <2>3. DepIds(ns)' = DepIds(ns)
    BY <1>4
  <2>4. DepIds(ns) \in {DepIds(names), DepIds(deps[id])}
    BY <1>6, <2>1
  <2>. QED BY <2>2, <2>3, <2>4
<1>9. ASSUME NEW C \in SUBSET (Id \ loose'), Loop(C)' PROVE FALSE
  <2>1. C # {} /\ (\A i \in C : DepIds(deps[i])' \cap C # {}) /\ C \subseteq Id \ loose
    BY <1>5, <1>9 DEF Loop
  <2>2. \A B \in SUBSET (Id \ loose) : ~Loop(B)
    BY DEF TablesOK, DepsOK
  <2>3. CASE id \notin C \/ DepIds(deps[id])' = DepIds(deps[id])
    <3>1. \A i \in C : DepIds(deps[i]) \cap C # {}
      BY <1>7, <2>1, <2>3
    <3>. QED BY <2>1, <2>2, <3>1 DEF Loop
  <2>4. CASE id \in C /\ DepIds(deps[id])' = DepIds(names)
    <3>1. PICK K \in SUBSET Id : Clear(K, id, names)
      BY <1>1, <2>1, <2>4
    <3>2. /\ DepIds(names) \ loose \subseteq K /\ id \notin K
          /\ \A k \in K : DepIds(deps[k]) \ loose \subseteq K
      BY <3>1 DEF Clear
    <3>3. C \cap K # {}
      BY <2>1, <2>4, <3>2
    <3>4. ASSUME NEW i \in C \cap K PROVE DepIds(deps[i]) \cap (C \cap K) # {}
      <4>1. DepIds(deps[i])' \cap C # {} /\ DepIds(deps[i])' = DepIds(deps[i])
        BY <1>7, <2>1, <3>2
      <4>. QED BY <2>1, <3>2, <4>1
    <3>5. Loop(C \cap K)
      BY <3>3, <3>4 DEF Loop
    <3>. QED BY <2>1, <2>2, <3>5
  <2>. QED BY <1>8, <2>3, <2>4
<1>10. DepsOK'
  <2>1. ASSUME NEW i \in Id, NEW n \in deps'[i] PROVE Given(n)'
    <3>1. Given(n)
      <4>1. \A j \in Id : \A k \in deps[j] : Given(k)
        BY DEF TablesOK, DepsOK
      <4>2. i = id => n \in names \/ n \in deps[id]
        BY <1>6, <2>1
      <4>3. i # id => n \in deps[i]
        BY <1>6, <2>1
      <4>. QED BY <1>1, <4>1, <4>2, <4>3
    <3>. QED BY <1>2, <3>1 DEF Given
  <2>. QED BY <1>3, <1>5, <1>6, <1>9, <2>1 DEF DepsOK
<1>11. ReleasesOK' /\ MergeLosesNothing' /\ NamesKeepResolving'
  BY <1>2, <1>3 DEF TablesOK, ReleasesOK, MergeLosesNothing, NamesKeepResolving, Canon
<1>12. ASSUME NEW d \in Caller \ {c}, NEW v, v = call[d] PROVE WaitOK(v)'
  <2>1. WaitOK(v)
    BY <1>12
  <2>2. RenameOK(v)' /\ PlanOK(v)'
    BY <1>2, <1>3, <2>1 DEF WaitOK, RenameOK, PlanOK, Given
  <2>3. CheckedOK(v)'
    <3>1. SUFFICES ASSUME v.pc = "depends"
                   PROVE  /\ v.id \in UsedIds /\ v.names \subseteq ProjectName /\ \A n \in v.names : Given(n)'
                          /\ v.id \in loose' \/ \E K \in SUBSET Id : Clear(K, v.id, v.names)'
      BY <1>3 DEF CheckedOK
    <3>2. /\ v.id \in UsedIds /\ v.names \subseteq ProjectName /\ \A n \in v.names : Given(n)
          /\ v.id \in loose \/ \E K \in SUBSET Id : Clear(K, v.id, v.names)
      BY <2>1, <3>1 DEF WaitOK, CheckedOK
    <3>3. CASE v.id # id
      BY <1>2, <1>12, <3>1, <3>2, <3>3 DEF At, Given
    <3>4. CASE v.id = id /\ \E K \in SUBSET Id : Clear(K, v.id, v.names)
      <4>1. PICK K \in SUBSET Id : Clear(K, v.id, v.names)
        BY <3>4
      <4>2. /\ DepIds(v.names) \ loose \subseteq K /\ v.id \notin K
            /\ \A k \in K : DepIds(deps[k]) \ loose \subseteq K
        BY <4>1 DEF Clear
      <4>3. DepIds(v.names)' = DepIds(v.names)
        BY <1>4, <3>2
      <4>4. \A k \in K : DepIds(deps[k])' = DepIds(deps[k])
        BY <1>7, <3>4, <4>2
      <4>5. Clear(K, v.id, v.names)'
        BY <1>5, <4>2, <4>3, <4>4 DEF Clear
      <4>. QED BY <1>2, <3>2, <4>5 DEF Given
    <3>. QED BY <1>2, <1>5, <3>2, <3>3, <3>4 DEF Given
  <2>. QED BY <2>2, <2>3 DEF WaitOK
<1>. QED BY <1>3, <1>10, <1>11, <1>12 DEF TablesOK

\* A request that waits for nothing.
LEMMA NothingAwaited ==
    ASSUME NEW v, v.pc \notin {"probe", "rename", "depends", "replan", "merge"}
    PROVE  WaitOK(v) /\ WaitOK(v)'
BY DEF WaitOK, RenameOK, CheckedOK, PlanOK

\* A request goes on, and the others wait for what they did.
LEMMA WaitsGoOn ==
    ASSUME CallsOK, NEW c \in Caller, NEW r, Go(c, r), WaitOK(r)',
           \A d \in Caller \ {c} : \A v : v = call[d] => WaitOK(v)'
    PROVE  (\A d \in Caller : WaitOK(call[d]))'
<1>1. call'[c] = r /\ \A d \in Caller \ {c} : call'[d] = call[d]
  BY DEF Go, CallsOK
<1>2. ASSUME NEW d \in Caller PROVE WaitOK(call[d])'
  <2>1. PICK v : v = call'[d]
    OBVIOUS
  <2>2. WaitOK(v)'
    BY <1>1, <2>1
  <2>. QED BY <2>1, <2>2 DEF WaitOK, RenameOK, CheckedOK, PlanOK
<1>. QED BY <1>2

\* A step that only looks at the tables.
LEMMA LooksKeepWhole ==
    ASSUME WholeInv, NEW c \in Caller, NEW r, Go(c, r), WaitOK(r), UNCHANGED <<ptables, phistory>>
    PROVE  TablesOK' /\ (\A d \in Caller : WaitOK(call[d]))'
<1>1. UNCHANGED <<proj, alias, deps, rel, sites, holder, into, made, shadowed, loose>>
  BY DEF ptables, phistory
<1>2. /\ TablesOK' /\ Live' = Live /\ UsedIds' = UsedIds
      /\ \A n \in ProjectName : Resolve(n)' = Resolve(n)
  BY <1>1, TablesStay DEF WholeInv, PinInv
<1>3. \A v : WaitOK(v) => WaitOK(v)'
  BY <1>1, <1>2, WaitStays DEF WholeInv, TablesOK
<1>4. \A d \in Caller \ {c} : \A v : v = call[d] => WaitOK(v)'
  BY <1>3 DEF WholeInv
<1>. QED BY <1>2, <1>3, <1>4, WaitsGoOn DEF WholeInv, PinInv

\* A name moves to another root only if it is not there.
LEMMA RenamedIsOther ==
    ASSUME NEW n \in ProjectName, NEW root \in Root, RenamedNamespaceName(n, root) # None
    PROVE  RenamedNamespaceName(n, root) # n
<1>1. n[1] # root
  BY DEF RenamedNamespaceName
<1>2. RenamedNamespaceName(n, root)[1] = root
  BY <1>1 DEF RenamedNamespaceName
<1>. QED BY <1>1, <1>2

\* The rename that is probed.
LEMMA ProbeKeepsWhole ==
    ASSUME WholeInv, NEW c \in Caller, ProbeName(c)
    PROVE  TablesOK' /\ (\A d \in Caller : WaitOK(call[d]))'
<1>1. PICK v : v = call[c] /\ WaitOK(v) /\ CallOK(v) /\ v.pc = "probe"
  BY DEF WholeInv, PinInv, CallsOK, ProbeName, At
<1>2. PICK p \in v.todo :
        LET new  == RenamedNamespaceName(p.name, v.root)
            rest == [v EXCEPT !.todo = @ \ {p}] IN
        IF new # None /\ NameAvailableTo(new, p.id)
        THEN Go(c, [rest EXCEPT !.pc = "rename", !.to = [id |-> p.id, old |-> p.name, new |-> new, was |-> alias[new]]])
        ELSE Go(c, rest)
  <2>1. \E q \in call[c].todo :
          LET new  == RenamedNamespaceName(q.name, call[c].root)
              rest == [call[c] EXCEPT !.todo = @ \ {q}] IN
          IF new # None /\ NameAvailableTo(new, q.id)
          THEN Go(c, [rest EXCEPT !.pc = "rename", !.to = [id |-> q.id, old |-> q.name, new |-> new, was |-> alias[new]]])
          ELSE Go(c, rest)
    BY ZenonT(30) DEF ProbeName
  <2>. QED BY <1>1, <2>1
<1>3. v \in [pc : {"probe", "rename"}, repo : Repo, owner : Owner, root : Root,
             name : ProjectName, todo : SUBSET [id : Id, name : ProjectName],
             to : {None} \cup RenameOf]
  BY <1>1, CallShapes
<1>4. UNCHANGED <<ptables, phistory>>
  BY DEF ProbeName
<1>5. PICK new, rest : new = RenamedNamespaceName(p.name, v.root) /\ rest = [v EXCEPT !.todo = @ \ {p}]
  OBVIOUS
<1>6. p.name \in ProjectName /\ v.root \in Root /\ Given(p.name)
  BY <1>1, <1>2, <1>3 DEF WaitOK, RenameOK
<1>7. rest.pc = "probe" /\ rest.todo \subseteq v.todo
  BY <1>1, <1>3, <1>5
<1>8. \A q \in rest.todo : Given(q.name)
  BY <1>1, <1>7 DEF WaitOK, RenameOK
<1>9. CASE new # None /\ NameAvailableTo(new, p.id)
  <2>1. PICK to : to = [id |-> p.id, old |-> p.name, new |-> new, was |-> alias[new]]
    OBVIOUS
  <2>2. PICK r : r = [rest EXCEPT !.pc = "rename", !.to = to]
    OBVIOUS
  <2>3. Go(c, r)
    BY <1>2, <1>5, <1>9, <2>1, <2>2
  <2>4. r.pc = "rename" /\ r.todo = rest.todo /\ r.to = to
    BY <1>3, <1>5, <2>2
  <2>5. new # p.name /\ alias[new] \in {None, p.id}
    BY <1>5, <1>6, <1>9, RenamedIsOther DEF NameAvailableTo
  <2>6. Given(to.old) /\ to.old # to.new /\ to.was \in {None, to.id}
    BY <1>6, <2>1, <2>5
  <2>7. WaitOK(r)
    BY <1>8, <2>4, <2>6 DEF WaitOK, RenameOK, CheckedOK, PlanOK
  <2>. QED BY <1>4, <2>3, <2>7, LooksKeepWhole
<1>10. CASE ~(new # None /\ NameAvailableTo(new, p.id))
  <2>1. Go(c, rest)
    BY <1>2, <1>5, <1>10
  <2>2. WaitOK(rest)
    BY <1>7, <1>8 DEF WaitOK, RenameOK, CheckedOK, PlanOK
  <2>. QED BY <1>4, <2>1, <2>2, LooksKeepWhole
<1>. QED BY <1>9, <1>10

\* The list that is checked.
LEMMA CheckKeepsWhole ==
    ASSUME WholeInv, NEW c \in Caller, CheckDepends(c)
    PROVE  TablesOK' /\ (\A d \in Caller : WaitOK(call[d]))'
<1>1. PICK id \in Live, n \in ProjectName :
        /\ id = call[c].id
        /\ Resolve(n) \notin {None, id}
        /\ Acyclic(id, {n})
        /\ Go(c, [pc |-> "depends", id |-> id, names |-> {proj[Resolve(n)].name}])
  BY DEF CheckDepends
<1>2. UNCHANGED <<ptables, phistory>>
  BY DEF CheckDepends
<1>3. PICK j \in Live, k \in ProjectName : j = Resolve(n) /\ k = proj[j].name /\ Given(k) /\ Resolve(k) = j
  <2>1. Resolve(n) \in Live
    BY <1>1, ResolveIs DEF WholeInv, PinInv, TablesOK
  <2>2. proj[Resolve(n)].name \in ProjectName /\ Given(proj[Resolve(n)].name)
    BY <2>1 DEF WholeInv, TablesOK, NamesOK, Given
  <2>. QED BY <2>1, <2>2, ResolveIs DEF WholeInv, PinInv, TablesOK
<1>4. id \in UsedIds /\ id \in Id
  BY DEF Live, UsedIds
<1>5. PICK K \in SUBSET Id : DepIds({n}) \subseteq K /\ (\A i \in K : DepIds(deps[i]) \subseteq K) /\ id \notin K
  BY <1>1, <1>4 DEF Acyclic, Reach
<1>6. DepIds({k}) = DepIds({n})
  BY <1>3 DEF DepIds
<1>7. Clear(K, id, {k})
  BY <1>5, <1>6 DEF Clear
<1>8. PICK r : r = [pc |-> "depends", id |-> id, names |-> {k}]
  OBVIOUS
<1>9. r.pc = "depends" /\ r.id = id /\ r.names = {k}
  BY <1>8
<1>10. WaitOK(r)
  BY <1>3, <1>4, <1>7, <1>9 DEF WaitOK, RenameOK, CheckedOK, PlanOK
<1>. QED BY <1>1, <1>2, <1>3, <1>8, <1>10, LooksKeepWhole

\* The plan of a merge numbers the releases of the source in their order.
LEMMA PlanKeepsOrder ==
    ASSUME ReleasesOK, NEW src, NEW dst
    PROVE  /\ Of(src) \subseteq Release /\ \A r \in Of(src) : rel[r] # None /\ rel[r].proj = src
           /\ Plan(src, dst) \in [Of(src) -> Nat]
           /\ \A r, s \in Of(src) : rel[r].num < rel[s].num => Plan(src, dst)[r] < Plan(src, dst)[s]
<1>1. Of(src) \subseteq Release /\ \A r \in Of(src) : rel[r] # None /\ rel[r].proj = src /\ rel[r].num \in Nat
  BY DEF Of, ReleasesOK
<1>2. LastNum(dst) \in Nat
  BY LastNumIs
<1>. DEFINE Below(r) == {s \in Of(src) : rel[s].num <= rel[r].num}
<1>3. IsFiniteSet(Release)
  BY ProjectBounds, FS_Interval DEF Release
<1>4. \A r \in Of(src) : IsFiniteSet(Below(r))
  BY <1>1, <1>3, FS_Subset
<1>5. \A r \in Of(src) : Cardinality(Below(r)) \in Nat
  BY <1>4, FS_CardinalityType
<1>6. ASSUME NEW r \in Of(src), NEW s \in Of(src), rel[r].num < rel[s].num
      PROVE  Cardinality(Below(r)) < Cardinality(Below(s))
  <2>1. Below(r) \subseteq Below(s) /\ s \in Below(s) /\ s \notin Below(r)
    BY <1>1, <1>6
  <2>. HIDE DEF Below
  <2>2. Cardinality(Below(r)) <= Cardinality(Below(s)) /\ Cardinality(Below(r)) # Cardinality(Below(s))
    BY <1>4, <2>1, FS_Subset
  <2>. QED BY <1>5, <2>2
<1>7. \A r \in Of(src) : Plan(src, dst)[r] = LastNum(dst) + Cardinality(Below(r))
  BY DEF Plan
<1>8. Plan(src, dst) = [r \in Of(src) |-> LastNum(dst) + Cardinality(Below(r))]
  BY DEF Plan
<1>. HIDE DEF Below
<1>9. Plan(src, dst) \in [Of(src) -> Nat]
  BY <1>2, <1>5, <1>8
<1>10. \A r, s \in Of(src) : rel[r].num < rel[s].num => Plan(src, dst)[r] < Plan(src, dst)[s]
  BY <1>2, <1>5, <1>6, <1>7
<1>. QED BY <1>1, <1>9, <1>10

\* The merge that is planned.
LEMMA PlanMergeKeepsWhole ==
    ASSUME WholeInv, NEW c \in Caller, PlanMerge(c)
    PROVE  TablesOK' /\ (\A d \in Caller : WaitOK(call[d]))'
<1>1. PICK src \in Id, dst \in Id :
        /\ Mergeable(src, dst)
        /\ Go(c, [pc |-> "replan", src |-> src, dst |-> dst, plan |-> Plan(src, dst),
                  name |-> proj[src].name, dname |-> proj[dst].name])
  BY DEF PlanMerge
<1>2. UNCHANGED <<ptables, phistory>>
  BY DEF PlanMerge
<1>3. PICK plan, name, dname : plan = Plan(src, dst) /\ name = proj[src].name /\ dname = proj[dst].name
  OBVIOUS
<1>4. src \in Live /\ dst \in Live /\ src # dst /\ src \in UsedIds
  BY <1>1 DEF Mergeable, Live, UsedIds
<1>5. dname \in ProjectName /\ name # dname /\ Given(name) /\ Given(dname)
  BY <1>3, <1>4 DEF WholeInv, TablesOK, NamesOK, Given
<1>6. /\ Of(src) \subseteq Release /\ \A r \in Of(src) : rel[r] # None /\ rel[r].proj = src
      /\ plan \in [Of(src) -> Nat]
      /\ \A r, s \in Of(src) : rel[r].num < rel[s].num => plan[r] < plan[s]
  BY <1>3, PlanKeepsOrder DEF WholeInv, TablesOK
<1>7. PICK v : v = [pc |-> "replan", src |-> src, dst |-> dst, plan |-> plan, name |-> name, dname |-> dname]
  OBVIOUS
<1>8. v.pc = "replan" /\ v.src = src /\ v.plan = plan /\ v.name = name /\ v.dname = dname
  BY <1>7
<1>9. DOMAIN plan = Of(src)
  BY <1>6
<1>10. WaitOK(v)
  BY <1>4, <1>5, <1>6, <1>8, <1>9 DEF WaitOK, RenameOK, CheckedOK, PlanOK
<1>. QED BY <1>1, <1>2, <1>3, <1>7, <1>10, LooksKeepWhole

\* What every step keeps.
LEMMA WholeStep ==
    ASSUME WholeInv, [ProjNext]_projVars
    PROVE  WholeInv'
<1>0. PinInv'
  BY PinStep DEF WholeInv
<1>. SUFFICES TablesOK' /\ (\A d \in Caller : WaitOK(call[d]))'
  BY <1>0 DEF WholeInv
<1>w. RowsOK /\ CallsOK /\ TablesOK /\ \A d \in Caller : WaitOK(call[d])
  BY DEF WholeInv, PinInv
<1>i. WaitOK(Idle) /\ WaitOK(Idle)'
  BY NothingAwaited DEF Idle
<1>1. CASE UNCHANGED <<call, proj, alias, deps, rel, sites, holder, into, made, shadowed, loose>>
  <2>1. /\ TablesOK' /\ Live' = Live /\ UsedIds' = UsedIds
        /\ \A n \in ProjectName : Resolve(n)' = Resolve(n)
    BY <1>1, <1>w, TablesStay
  <2>2. \A v : WaitOK(v) => WaitOK(v)'
    BY <1>1, <1>w, <2>1, WaitStays DEF TablesOK
  <2>3. ASSUME NEW d \in Caller PROVE WaitOK(call[d])'
    <3>1. PICK v : v = call[d] /\ v = call'[d]
      BY <1>1
    <3>2. WaitOK(v)'
      BY <1>w, <2>2, <3>1
    <3>. QED BY <3>1, <3>2 DEF WaitOK, RenameOK, CheckedOK, PlanOK
  <2>. QED BY <2>1, <2>3
<1>2. CASE CreateProject
  <2>1. PICK n \in ProjectName : Named(n) = {} /\ InsertProject(n, None, None)
    BY <1>2 DEF CreateProject
  <2>2. UNCHANGED <<call, repo>>
    BY <1>2 DEF CreateProject, repos
  <2>3. TablesOK' /\ \A v : WaitOK(v) => WaitOK(v)'
    BY <1>w, <2>1, <2>2, InsertKeeps
  <2>4. ASSUME NEW d \in Caller PROVE WaitOK(call[d])'
    <3>1. PICK v : v = call[d] /\ v = call'[d]
      BY <2>2
    <3>2. WaitOK(v)'
      BY <1>w, <2>3, <3>1
    <3>. QED BY <3>1, <3>2 DEF WaitOK, RenameOK, CheckedOK, PlanOK
  <2>. QED BY <2>3, <2>4
<1>3. ASSUME NEW c \in Caller, NEW r, Go(c, r), WaitOK(r)', \A v : WaitOK(v) => WaitOK(v)'
      PROVE  (\A d \in Caller : WaitOK(call[d]))'
  <2>1. \A d \in Caller \ {c} : \A v : v = call[d] => WaitOK(v)'
    BY <1>w, <1>3
  <2>. QED BY <1>w, <1>3, <2>1, WaitsGoOn
<1>4. ASSUME NEW c \in Caller, BeginWrite(c) \/ PlanMerge(c) \/ ProjStep(c)
      PROVE  TablesOK' /\ (\A d \in Caller : WaitOK(call[d]))'
  <2>v. PICK v : v = call[c] /\ CallOK(v) /\ WaitOK(v)
    BY <1>w DEF CallsOK
  <2>1. CASE BeginWrite(c)
    <3>1. PICK r : Go(c, r) /\ r.pc = "list" /\ UNCHANGED <<ptables, phistory>>
      BY <2>1 DEF BeginWrite
    <3>. QED BY <3>1, LooksKeepWhole, NothingAwaited
  <2>2. CASE ListProjects(c)
    <3>1. PICK todo : todo = {[id |-> i, name |-> proj[i].name] : i \in {j \in Live : proj[j].pin = v.repo}}
      OBVIOUS
    <3>2. PICK r : r = [pc |-> "probe", repo |-> v.repo, owner |-> v.owner, root |-> v.root,
                        name |-> v.name, todo |-> todo, to |-> None]
      OBVIOUS
    <3>3. Go(c, r) /\ UNCHANGED <<ptables, phistory>>
      BY <2>2, <2>v, <3>1, <3>2 DEF ListProjects
    <3>4. \A p \in todo : Given(p.name)
      BY <1>w, <3>1 DEF TablesOK, NamesOK
    <3>5. r.pc = "probe" /\ r.todo = todo
      BY <3>2
    <3>6. WaitOK(r)
      BY <3>4, <3>5 DEF WaitOK, RenameOK, CheckedOK, PlanOK
    <3>. QED BY <3>3, <3>6, LooksKeepWhole
  <2>3. CASE ProbeName(c)
    BY <2>3, ProbeKeepsWhole
  <2>4. CASE RenameProject(c)
    <3>1. PICK t \in RenameOf : t = v.to /\ Given(t.old) /\ t.old # t.new /\ t.was \in {None, t.id}
      BY <2>4, <2>v, CallShapes DEF RenameProject, At, WaitOK, RenameOK
    <3>2. PICK r : r = [v EXCEPT !.pc = "probe", !.to = None]
      OBVIOUS
    <3>3. Go(c, r)
      BY <2>4, <2>v, <3>2 DEF RenameProject
    <3>4. WaitOK(r)
      <4>1. v \in [pc : {"probe", "rename"}, repo : Repo, owner : Owner, root : Root,
                   name : ProjectName, todo : SUBSET [id : Id, name : ProjectName],
                   to : {None} \cup RenameOf] /\ v.pc = "rename"
        BY <2>4, <2>v, CallShapes DEF RenameProject, At
      <4>2. r.pc = "probe" /\ r.todo = v.todo
        BY <3>2, <4>1
      <4>. QED BY <2>v, <4>1, <4>2 DEF WaitOK, RenameOK, CheckedOK, PlanOK
    <3>5. CASE Named(t.new) \subseteq {t.id} /\ t.id \in Live
      <4>1. /\ proj' = [proj EXCEPT ![t.id].name = t.new]
            /\ alias' = [alias EXCEPT ![t.new] = None, ![t.old] = t.id]
            /\ deps' = RenameDepends(deps, t.old, t.new, t.id)
            /\ Holds(t.new, t.id)
            /\ shadowed' = shadowed \cup TakenOver(t)
            /\ loose' = IF TakenOver(t) = {} THEN loose ELSE loose \cup ({t.id, alias[proj[t.id].name]} \ {None})
            /\ rel' = rel /\ sites' = sites /\ into' = into /\ made' = made
        BY <2>4, <2>v, <3>1, <3>5 DEF RenameProject
      <4>2. TablesOK' /\ \A w : WaitOK(w) => WaitOK(w)'
        BY <1>w, <3>1, <3>5, <4>1, RenamedKeeps
      <4>. QED BY <1>3, <3>3, <3>4, <4>2
    <3>6. CASE ~(Named(t.new) \subseteq {t.id} /\ t.id \in Live)
      <4>1. UNCHANGED <<ptables, phistory>>
        BY <2>4, <2>v, <3>1, <3>6 DEF RenameProject
      <4>. QED BY <3>3, <3>4, <4>1, LooksKeepWhole
    <3>. QED BY <3>5, <3>6
  <2>5. CASE ResolveProject(c)
    <3>1. PICK i, base : /\ i = Resolve(v.name)
                         /\ base = [pc |-> "guard", repo |-> v.repo, owner |-> v.owner,
                                    root |-> v.root, name |-> v.name, id |-> i, seen |-> None]
      OBVIOUS
    <3>2. UNCHANGED <<ptables, phistory>>
      BY <2>5 DEF ResolveProject
    <3>3. \/ Go(c, [base EXCEPT !.seen = proj[i]])
          \/ Go(c, [base EXCEPT !.pc = "provision"])
          \/ Go(c, Idle)
      <4>1. LET j == Resolve(call[c].name)
                b == [pc |-> "guard", repo |-> call[c].repo, owner |-> call[c].owner,
                      root |-> call[c].root, name |-> call[c].name, id |-> j, seen |-> None] IN
            \/ Go(c, [b EXCEPT !.seen = proj[j]])
            \/ Go(c, [b EXCEPT !.pc = "provision"])
            \/ Go(c, Idle)
        BY <2>5, Zenon DEF ResolveProject
      <4>. QED BY <2>v, <3>1, <4>1
    <3>4. CASE Go(c, [base EXCEPT !.seen = proj[i]])
      <4>1. PICK r : r = [base EXCEPT !.seen = proj[i]]
        OBVIOUS
      <4>2. r.pc = "guard"
        BY <3>1, <4>1
      <4>. QED BY <3>2, <3>4, <4>1, <4>2, LooksKeepWhole, NothingAwaited
    <3>5. CASE Go(c, [base EXCEPT !.pc = "provision"])
      <4>1. PICK r : r = [base EXCEPT !.pc = "provision"]
        OBVIOUS
      <4>2. r.pc = "provision"
        BY <3>1, <4>1
      <4>. QED BY <3>2, <3>5, <4>1, <4>2, LooksKeepWhole, NothingAwaited
    <3>6. CASE Go(c, Idle)
      BY <1>i, <3>2, <3>6, LooksKeepWhole
    <3>. QED BY <3>3, <3>4, <3>5, <3>6
  <2>6. CASE Provision(c)
    <3>1. v \in [pc : {"provision"}, repo : Repo, owner : Owner, root : Root, name : ProjectName,
                 id : {None}, seen : {None}]
      BY <2>6, <2>v, CallShapes DEF Provision, At
    <3>2. ASSUME NEW i, NEW s, NEW r, r = [v EXCEPT !.pc = "guard", !.id = i, !.seen = s]
          PROVE  r.pc = "guard"
      BY <3>1, <3>2
    <3>3. CASE Named(v.name) = {}
      <4>1. InsertProject(v.name, v.repo, v.owner) /\ UNCHANGED repo
        BY <2>6, <2>v, <3>3 DEF Provision, repos
      <4>2. PICK r : r = [v EXCEPT !.pc = "guard", !.id = NewId, !.seen = proj'[NewId]]
        OBVIOUS
      <4>3. Go(c, r) /\ r.pc = "guard"
        BY <2>6, <2>v, <3>2, <3>3, <4>2 DEF Provision
      <4>4. v.name \in ProjectName /\ v.repo \in Repo \cup {None} /\ v.owner \in Owner \cup {None}
        BY <3>1
      <4>5. TablesOK' /\ \A w : WaitOK(w) => WaitOK(w)'
        BY <1>w, <3>3, <4>1, <4>4, InsertKeeps
      <4>. QED BY <1>3, <4>3, <4>5, NothingAwaited
    <3>4. CASE Named(v.name) # {}
      <4>1. PICK i : i = CHOOSE j \in Named(v.name) : TRUE
        OBVIOUS
      <4>2. PICK r : r = [v EXCEPT !.pc = "guard", !.id = i, !.seen = proj[i]]
        OBVIOUS
      <4>3. Go(c, r) /\ r.pc = "guard" /\ UNCHANGED <<ptables, phistory>>
        BY <2>6, <2>v, <3>2, <3>4, <4>1, <4>2 DEF Provision
      <4>. QED BY <4>3, LooksKeepWhole, NothingAwaited
    <3>. QED BY <3>3, <3>4
  <2>7. CASE Guard(c)
    <3>1. v \in [pc : {"guard", "act"}, repo : Repo, owner : Owner, root : Root,
                 name : ProjectName, id : Id, seen : ProjectRow]
      BY <2>7, <2>v, CallShapes DEF Guard, At
    <3>2. UNCHANGED <<alias, deps, rel, sites, holder, into, made, shadowed, loose>>
      BY <2>7 DEF Guard, ptables
    <3>3. PICK i \in Id, p \in Repo, o \in Owner : i = v.id /\ p = v.repo /\ o = v.owner
      BY <3>1
    <3>4. proj' = proj \/ (proj[i] # None /\ proj' = [proj EXCEPT ![i].pin = p, ![i].owner = o])
      BY <2>7, <2>v, <3>3, Zenon DEF Guard, ptables
    <3>5. \A j \in Id : (proj'[j] # None <=> proj[j] # None) /\ (proj[j] # None => proj'[j].name = proj[j].name)
      <4>1. CASE proj' = proj
        BY <4>1
      <4>2. CASE proj[i] # None /\ proj' = [proj EXCEPT ![i].pin = p, ![i].owner = o]
        <5>1. proj[i] \in ProjectRow
          BY <1>w, <4>2 DEF RowsOK
        <5>2. proj'[i] \in ProjectRow /\ proj'[i].name = proj[i].name /\ \A j \in Id \ {i} : proj'[j] = proj[j]
          BY <1>w, <4>2, <5>1 DEF RowsOK, ProjectRow
        <5>. QED BY <4>2, <5>1, <5>2, NoneAssumption
      <4>. QED BY <3>4, <4>1, <4>2
    <3>6. /\ TablesOK' /\ Live' = Live /\ UsedIds' = UsedIds
          /\ \A n \in ProjectName : Resolve(n)' = Resolve(n)
      BY <1>w, <3>2, <3>5, TablesStay
    <3>7. \A w : WaitOK(w) => WaitOK(w)'
      BY <1>w, <3>2, <3>6, WaitStays DEF TablesOK
    <3>8. PICK r : Go(c, r) /\ WaitOK(r)'
      <4>1. PICK next : next = [v EXCEPT !.pc = "act"]
        OBVIOUS
      <4>2. next.pc = "act"
        BY <3>1, <4>1
      <4>3. Go(c, Idle) \/ Go(c, next)
        BY <2>7, <2>v, <4>1, Zenon DEF Guard
      <4>. QED BY <1>i, <4>2, <4>3, NothingAwaited
    <3>. QED BY <1>3, <3>6, <3>7, <3>8
  <2>8. CASE MakeRelease(c)
    <3>1. PICK id : id = v.id
      OBVIOUS
    <3>2. TablesOK' /\ \A w : WaitOK(w) => WaitOK(w)'
      BY <1>w, <2>8, <2>v, <3>1, ReleaseKeeps DEF MakeRelease
    <3>. QED BY <1>3, <1>i, <2>8, <3>2 DEF MakeRelease
  <2>9. CASE DeploySite(c)
    <3>1. /\ UNCHANGED <<proj, alias, deps, rel, holder, into, made, shadowed, loose>>
          /\ sites' \subseteq Id \X Branch /\ Go(c, Idle)
      BY <1>w, <2>9 DEF DeploySite, phistory, TablesOK, ReleasesOK, Live
    <3>2. NamesOK' /\ Live' = Live /\ \A n \in ProjectName : Resolve(n)' = Resolve(n)
      BY <1>w, <3>1, NamesStay DEF TablesOK
    <3>3. DepsOK' /\ UsedIds' = UsedIds
      BY <1>w, <3>1, <3>2, DepsStay DEF TablesOK, UsedIds
    <3>4. ReleasesOK' /\ MergeLosesNothing' /\ NamesKeepResolving'
      BY <1>w, <3>1, <3>2 DEF TablesOK, ReleasesOK, MergeLosesNothing, NamesKeepResolving, Canon
    <3>5. \A w : WaitOK(w) => WaitOK(w)'
      BY <1>w, <3>1, <3>2, <3>3, WaitStays DEF TablesOK
    <3>. QED BY <1>3, <1>i, <3>1, <3>2, <3>3, <3>4, <3>5 DEF TablesOK
  <2>10. CASE CheckDepends(c)
    BY <2>10, CheckKeepsWhole
  <2>11. CASE StoreDepends(c)
    <3>1. TablesOK' /\ \A d \in Caller \ {c} : \A w : w = call[d] => WaitOK(w)'
      BY <1>w, <2>11, StoreKeeps DEF WholeInv
    <3>. QED BY <1>w, <1>i, <2>11, <3>1, WaitsGoOn DEF StoreDepends
  <2>12. CASE PlanMerge(c)
    BY <2>12, PlanMergeKeepsWhole
  <2>13. CASE RecheckMerge(c)
    <3>1. UNCHANGED <<ptables, phistory>> /\ v.pc = "replan"
      BY <2>13, <2>v DEF RecheckMerge, At
    <3>2. PICK next : next = [v EXCEPT !.pc = "merge"]
      OBVIOUS
    <3>3. Go(c, next) \/ Go(c, Idle)
      BY <2>13, <2>v, <3>2 DEF RecheckMerge
    <3>4. v = [pc |-> v.pc, src |-> v.src, dst |-> v.dst, plan |-> v.plan, name |-> v.name,
               dname |-> v.dname]
      BY <2>v, <3>1, CallShapes
    <3>5. /\ next.pc = "merge" /\ next.src = v.src /\ next.plan = v.plan
          /\ next.name = v.name /\ next.dname = v.dname
      BY <3>2, <3>4
    <3>6. WaitOK(next)
      BY <2>v, <3>1, <3>5 DEF WaitOK, RenameOK, CheckedOK, PlanOK
    <3>. QED BY <1>i, <3>1, <3>3, <3>6, LooksKeepWhole
  <2>14. CASE ApplyMerge(c)
    <3>1. v.pc = "merge" /\ PlanOK(v) /\ v.src \in Id /\ v.dst \in Id /\ v.src # v.dst /\ v.name \in ProjectName
      BY <2>14, <2>v, CallShapes DEF ApplyMerge, At, WaitOK
    <3>2. CASE Drained(v)
      <4>1. /\ rel' = [r \in Release |-> IF r \in DOMAIN v.plan THEN [proj |-> v.dst, num |-> v.plan[r]] ELSE rel[r]]
            /\ sites' = {IF s[1] = v.src THEN <<v.dst, s[2]>> ELSE s : s \in sites}
            /\ alias' = [n \in ProjectName |-> IF alias[n] = v.src \/ n = v.name THEN v.dst ELSE alias[n]]
            /\ deps' = [RenameDepends(deps, v.name, v.dname, v.dst) EXCEPT ![v.src] = {}]
            /\ proj' = [proj EXCEPT ![v.src] = None]
            /\ into' = [i \in Id |-> IF i = v.src \/ into[i] = v.src THEN v.dst ELSE into[i]]
            /\ loose' = loose \cup {v.dst} \cup
                 (IF proj[v.src].name = v.name /\ Resolve(v.dname) = v.dst THEN {}
                  ELSE {Resolve(v.dname), alias[proj[v.src].name]} \ {None})
            /\ shadowed' = shadowed \cup (IF proj[v.src].name = v.name THEN {} ELSE {proj[v.src].name})
            /\ holder' = holder /\ made' = made
        BY <2>14, <2>v, <3>2 DEF ApplyMerge
      <4>2. TablesOK' /\ \A w : WaitOK(w) => WaitOK(w)'
        BY <1>w, <3>1, <3>2, <4>1, MergedKeeps
      <4>. QED BY <1>3, <1>i, <2>14, <4>2 DEF ApplyMerge
    <3>3. CASE ~Drained(v)
      <4>1. UNCHANGED <<ptables, phistory>> /\ Go(c, Idle)
        BY <2>14, <2>v, <3>3 DEF ApplyMerge
      <4>. QED BY <1>i, <4>1, LooksKeepWhole
    <3>. QED BY <3>2, <3>3
  <2>15. CASE EndCall(c)
    BY <1>i, <2>15, LooksKeepWhole DEF EndCall
  <2>. QED BY <1>4, <2>1, <2>2, <2>3, <2>4, <2>5, <2>6, <2>7, <2>8, <2>9, <2>10, <2>11, <2>12, <2>13, <2>14,
       <2>15 DEF ProjStep
<1>5. CASE RenameRepo \/ ReplaceRepo
  BY <1>1, <1>5 DEF RenameRepo, ReplaceRepo, ptables, phistory
<1>6. CASE UNCHANGED projVars
  BY <1>1, <1>6 DEF projVars, ptables, phistory
<1>. QED BY <1>2, <1>4, <1>5, <1>6 DEF ProjNext

\* Where no set of projects is a loop, no walk leads back to where it began.
LEMMA NoLoopNoCycle ==
    ASSUME RowsOK, NamesOK, DepsOK
    PROVE  DependsAcyclic
<1>. SUFFICES ASSUME NEW i \in Id \ loose, i \in Reach(DepIds(deps[i]), loose) PROVE FALSE
  BY DEF DependsAcyclic
<1>. DEFINE Closed(S) == \A k \in S : DepIds(deps[k]) \ loose \subseteq S
            U == {k \in Id : \E S \in SUBSET Id : Closed(S) /\ i \notin S /\ k \in S}
            C == {j \in Id \ loose : \A S \in SUBSET Id : Closed(S) /\ j \in S => i \in S}
<1>1. \A j \in Id : DepIds(deps[j]) \subseteq Id
  <2>1. \A n \in ProjectName : Resolve(n) \in Live \cup {None}
    BY ResolveIs
  <2>2. Live \subseteq Id
    BY DEF Live
  <2>. QED BY <2>1, <2>2 DEF DepIds, DepsOK
<1>2. U \in SUBSET Id /\ Closed(U) /\ i \notin U
  <2>1. ASSUME NEW k \in U PROVE DepIds(deps[k]) \ loose \subseteq U
    <3>1. PICK S \in SUBSET Id : Closed(S) /\ i \notin S /\ k \in S
      OBVIOUS
    <3>2. DepIds(deps[k]) \ loose \subseteq S
      BY <3>1
    <3>. QED BY <3>1, <3>2
  <2>. QED BY <2>1
<1>3. ASSUME NEW j \in C PROVE DepIds(deps[j]) \cap C # {}
  <2>1. SUFFICES ASSUME DepIds(deps[j]) \cap C = {} PROVE FALSE
    OBVIOUS
  <2>2. DepIds(deps[j]) \ loose \subseteq U
    BY <1>1, <2>1
  <2>3. CASE j = i
    <3>. HIDE DEF U
    <3>. QED BY <1>2, <2>2, <2>3 DEF Reach
  <2>4. CASE j # i
    <3>1. \A S \in SUBSET Id : Closed(S) /\ j \in S => i \in S
      OBVIOUS
    <3>. HIDE DEF U, C
    <3>2. U \cup {j} \in SUBSET Id /\ Closed(U \cup {j}) /\ i \notin U \cup {j}
      BY <1>2, <2>2, <2>4 DEF C
    <3>. QED BY <3>1, <3>2
  <2>. QED BY <2>3, <2>4
<1>4. i \in C /\ C \in SUBSET (Id \ loose)
  OBVIOUS
<1>. HIDE DEF C
<1>. QED BY <1>3, <1>4 DEF DepsOK, Loop

\* Through every interleaving of creations, renames, replaced repositories,
\* dependencies and merges, names keep leading to their projects, no loop of
\* dependencies is closed but through the requests that raced, and a merge loses no
\* release, for any projects, names, releases and requests.
THEOREM ProjectsStayWhole == ProjSpec => []ProjectsAreWhole
<1>1. ProjInit => WholeInv
  <2>. SUFFICES ASSUME ProjInit PROVE WholeInv
    OBVIOUS
  <2>1. PinInv
    BY PinsBegin
  <2>2. Live = {} /\ \A names \in SUBSET ProjectName : DepIds(names) = {}
    BY DEF ProjInit, Live, Named, Resolve, DepIds
  <2>3. NamesOK /\ NamesKeepResolving /\ MergeLosesNothing
    BY <2>2 DEF ProjInit, NamesOK, NamesKeepResolving, MergeLosesNothing
  <2>4. DepsOK
    <3>1. \A i \in Id : DepIds(deps[i]) = {}
      BY <2>2 DEF ProjInit
    <3>. QED BY <3>1 DEF ProjInit, DepsOK, Loop
  <2>5. ReleasesOK
    <3>1. {r \in Release : rel[r] # None} = 1..0 /\ 0 \in 0..MaxReleases
      BY ProjectBounds DEF ProjInit
    <3>. QED BY <3>1 DEF ProjInit, ReleasesOK
  <2>6. \A c \in Caller : WaitOK(call[c])
    BY NothingAwaited DEF ProjInit, Idle
  <2>. QED BY <2>1, <2>3, <2>4, <2>5, <2>6 DEF WholeInv, TablesOK
<1>2. WholeInv /\ [ProjNext]_projVars => WholeInv'
  BY WholeStep
<1>3. WholeInv => ProjectsAreWhole
  <2>. SUFFICES ASSUME WholeInv PROVE ProjectsAreWhole
    OBVIOUS
  <2>1. RowsOK /\ NamesOK /\ DepsOK /\ ReleasesOK /\ NamesKeepResolving /\ MergeLosesNothing
    BY DEF WholeInv, PinInv, TablesOK
  <2>2. \A i \in Live : /\ proj[i].name \in ProjectName
                        /\ proj[i].pin \in Repo \cup {None}
                        /\ proj[i].owner \in Owner \cup {None}
    BY <2>1 DEF RowsOK, Live, ProjectRow
  <2>3. \A i \in Live : Named(proj[i].name) = {i}
    BY <2>1 DEF Named, NamesOK
  <2>4. alias \in [ProjectName -> Live \cup {None}]
    BY <2>1 DEF RowsOK, Live
  <2>5. \A r \in Release : rel[r] # None => rel[r].proj \in Id
    BY <2>1 DEF ReleasesOK
  <2>6. ProjTypeOK
    BY <2>1, <2>2, <2>3, <2>4, <2>5 DEF ProjTypeOK, DepsOK, ReleasesOK
  <2>. QED BY <2>1, <2>6, NoLoopNoCycle DEF ProjectsAreWhole
<1>. QED BY <1>1, <1>2, <1>3, PTL DEF ProjSpec

(***************************************************************************)
(* is_private is resolved                                                  *)
(***************************************************************************)

\* A request and its locals.
VisRequest ==
    [pc : {"idle", "list", "next", "row", "insert", "write", "resolve", "fill", "rules", "apply"},
     op : {"none", "sync", "mode", "folder"}, auto : BOOLEAN, mode : VMode, prefix : VName,
     p : VProject \cup {NoRow}, name : VName, priv : BOOLEAN,
     todo : SUBSET [p : VProject, name : VName, priv : BOOLEAN],
     row : VRow, rules : [VName -> VMode], alone : BOOLEAN]

\* Past the list of a folder, a request works on one project.
AtProject == {"row", "insert", "write", "resolve", "fill", "rules", "apply"}

RequestOK(v) ==
    /\ v \in VisRequest
    /\ v.pc \in AtProject => v.p \in VProject
    /\ v.pc \in {"list", "next"} => v.op = "folder"
    /\ v.op # "folder" => v.todo = {}
    /\ v.pc \in {"row", "insert", "write"} => v.op \in {"sync", "mode"}

\* The projects a request is still going to resolve.
Pending(c) ==
    IF VisAt(c, "list") THEN {p \in VProject : FolderCovers(visCall[c].prefix, visName[p])}
    ELSE {t.p : t \in visCall[c].todo} \cup {p \in VProject : visCall[c].pc \in AtProject /\ visCall[c].p = p}

\* is_private of p is what the tables say.
Resolved(p) ==
    isPrivate[p] = ResolvePrivate(visName[p],
                     IF visRow[p] = NoRow THEN DefaultRow(isPrivate[p]) ELSE visRow[p], folders)

\* A request that met no other has read what the tables still hold.
AloneOK(c) ==
    c \in Running /\ visCall[c].alone =>
        /\ Running = {c}
        /\ \A t \in visCall[c].todo : t.name = visName[t.p]
        /\ visCall[c].pc \in AtProject => visCall[c].name = visName[visCall[c].p]
        /\ visCall[c].pc \in {"insert", "fill"} => visRow[visCall[c].p] = NoRow
        /\ visCall[c].pc \in {"write", "rules", "apply"} => visRow[visCall[c].p] = visCall[c].row
        /\ visCall[c].pc = "apply" => visCall[c].rules = folders

Settled == \A p \in VProject : p \in unsettled \/ (\E c \in Running : p \in Pending(c)) \/ Resolved(p)

VisInv ==
    /\ VisTypeOK
    /\ visCall = [c \in VCaller |-> visCall[c]]
    /\ \A c \in VCaller : RequestOK(visCall[c]) /\ AloneOK(c)
    /\ Settled

\* Setting a folder's rule changes nothing for a project it does not cover.
LEMMA RulesElsewhere ==
  ASSUME NEW rules, NEW new, NEW f, NEW name, NEW row,
         \A g \in VName \ {f} : new[g] = rules[g], ~FolderCovers(f, name)
  PROVE  ResolvePrivate(name, row, new) = ResolvePrivate(name, row, rules)
<1> DEFINE cov(r) == {g \in VName : r[g] # "auto" /\ FolderCovers(g, name)}
           lon(r) == {g \in cov(r) : \A h \in cov(r) : Len(h) <= Len(g)}
           top    == CHOOSE g \in lon(rules) : TRUE
<1>1. cov(new) = cov(rules) OBVIOUS
<1>2. lon(new) = lon(rules) BY <1>1
<1>3. ASSUME cov(rules) # {} PROVE top \in cov(rules)
  <2>1. \A g \in cov(rules) : Len(g) = 1 \/ Len(g) = 2 BY DEF VName
  <2> HIDE DEF cov
  <2>2. \A g, k \in cov(rules) : Len(g) = 2 => Len(k) <= Len(g)
    <3>1. \A m1, m2 : (m1 = 1 \/ m1 = 2) /\ m2 = 2 => m1 <= m2 OBVIOUS
    <3> QED BY <2>1, <3>1, Zenon
  <2>3. \A g, k \in cov(rules) : Len(g) # 2 /\ Len(k) # 2 => Len(k) <= Len(g) BY <2>1
  <2>4. lon(rules) # {}
    <3>1. CASE \E g \in cov(rules) : Len(g) = 2 BY <3>1, <2>2
    <3>2. CASE \A g \in cov(rules) : Len(g) # 2 BY <3>2, <2>3, <1>3
    <3> QED BY <3>1, <3>2
  <2>5. top \in lon(rules) BY <2>4
  <2> QED BY <2>5
<1>4. cov(rules) # {} => new[top] = rules[top] BY <1>3
<1>5. (IF cov(new) = {} THEN "auto" ELSE new[CHOOSE g \in lon(new) : TRUE])
        = (IF cov(rules) = {} THEN "auto" ELSE rules[top])
  BY <1>1, <1>2, <1>4
<1> QED BY <1>5 DEF ResolvePrivate

LEMMA ResolvesToBoolean ==
  ASSUME NEW name, NEW row \in VRow, NEW rules PROVE ResolvePrivate(name, row, rules) \in BOOLEAN
BY DEF ResolvePrivate, ApplyMode, VRow

\* A request is idle, or works with rows and names the tables can hold.
LEMMA IdleIsRequest == RequestOK(VisIdle) /\ VisIdle.pc = "idle" /\ VisIdle.todo = {} /\ ~VisIdle.alone
<1>1. DefaultRow(FALSE) \in VRow BY DEF DefaultRow, VRow, VMode
<1>2. [f \in VName |-> "auto"] \in [VName -> VMode] BY DEF VMode
<1>3. <<"root">> \in VName BY DEF VName
<1>4. "auto" \in VMode BY DEF VMode
<1> HIDE DEF VName, VMode, VRow
<1>5. VisIdle \in VisRequest BY <1>1, <1>2, <1>3, <1>4 DEF VisIdle, VisRequest
<1> QED BY <1>5 DEF RequestOK, VisIdle, AtProject

\* The names and the rules stay, and one request goes on, or ends.
LEMMA RequestGoesOn ==
  ASSUME VisInv, NEW c \in VCaller, c \in Running, NEW r, RequestOK(r), VisGo(c, r), UNCHANGED visName
  PROVE  /\ visCall' = [d \in VCaller |-> visCall'[d]] /\ visCall'[c] = r
         /\ \A d \in VCaller : RequestOK(visCall'[d])
         /\ \A d \in VCaller \ {c} : AloneOK(d)'
         /\ \A d \in VCaller \ {c} : (d \in Running' <=> d \in Running) /\ Pending(d)' = Pending(d)
<1>1. visCall' = [visCall EXCEPT ![c] = r] /\ DOMAIN visCall = VCaller BY DEF VisGo, VisInv
<1>2. visCall' = [d \in VCaller |-> visCall'[d]] /\ visCall'[c] = r BY <1>1
<1>3. \A d \in VCaller \ {c} : visCall'[d] = visCall[d] BY <1>1
<1>4. \A d \in VCaller : RequestOK(visCall'[d]) BY <1>2, <1>3 DEF VisInv
<1>5. \A d \in VCaller \ {c} : (d \in Running' <=> d \in Running) BY <1>3 DEF Running, VisAt
<1>6. \A d \in VCaller \ {c} : Pending(d)' = Pending(d) BY <1>3 DEF Pending, VisAt
<1>7. ASSUME NEW d \in VCaller \ {c} PROVE AloneOK(d)'
  <2>1. ~(d \in Running /\ visCall[d].alone) BY DEF VisInv, AloneOK
  <2> QED BY <2>1, <1>3, <1>5 DEF AloneOK
<1> QED BY <1>2, <1>4, <1>5, <1>6, <1>7

\* Then the rest stays settled when what concerns the request does.
LEMMA StaysSettled ==
  ASSUME VisInv, NEW c \in VCaller,
         \A d \in VCaller \ {c} : (d \in Running' <=> d \in Running) /\ Pending(d)' = Pending(d),
         \A p \in VProject : (p \in unsettled \/ (c \in Running /\ p \in Pending(c)) \/ Resolved(p))
             => (p \in unsettled' \/ (c \in Running' /\ p \in Pending(c)') \/ Resolved(p)')
  PROVE  Settled'
<1> SUFFICES ASSUME NEW p \in VProject
             PROVE  p \in unsettled' \/ (\E d \in Running' : p \in Pending(d)') \/ Resolved(p)'
  BY DEF Settled
<1>1. p \in unsettled \/ (\E d \in Running : p \in Pending(d)) \/ Resolved(p) BY DEF VisInv, Settled
<1>2. CASE p \in unsettled \/ (c \in Running /\ p \in Pending(c)) \/ Resolved(p) BY <1>2
<1>3. CASE \E d \in Running \ {c} : p \in Pending(d)
  <2>1. PICK d \in Running \ {c} : p \in Pending(d) BY <1>3
  <2>2. d \in VCaller \ {c} BY <2>1 DEF Running
  <2> QED BY <2>1, <2>2
<1> QED BY <1>1, <1>2, <1>3

LEMMA VisInvInit == VisInit => VisInv
<1> SUFFICES ASSUME VisInit PROVE VisInv OBVIOUS
<1>1. VisTypeOK
  <2>1. \A b \in BOOLEAN : DefaultRow(b) \in VRow BY DEF DefaultRow, VRow, VMode
  <2>2. visRow \in [VProject -> {NoRow} \cup VRow] BY <2>1 DEF VisInit
  <2>3. folders \in [VName -> VMode] BY DEF VisInit, VMode
  <2>4. visName \in [VProject -> VName] /\ isPrivate \in [VProject -> BOOLEAN] BY DEF VisInit
  <2> QED BY <2>2, <2>3, <2>4 DEF VisTypeOK
<1>2. visCall = [c \in VCaller |-> visCall[c]] /\ \A c \in VCaller : visCall[c] = VisIdle BY DEF VisInit
<1>3. Running = {} BY <1>2, IdleIsRequest DEF Running, VisAt
<1>4. \A c \in VCaller : RequestOK(visCall[c]) /\ AloneOK(c) BY <1>2, <1>3, IdleIsRequest DEF AloneOK
<1>5. Settled
  <2> SUFFICES ASSUME NEW p \in VProject PROVE Resolved(p) BY DEF Settled
  <2> DEFINE row == IF visRow[p] = NoRow THEN DefaultRow(isPrivate[p]) ELSE visRow[p]
  <2>1. row = DefaultRow(isPrivate[p]) BY DEF VisInit
  <2>2. {f \in VName : folders[f] # "auto" /\ FolderCovers(f, visName[p])} = {} BY DEF VisInit
  <2>3. ResolvePrivate(visName[p], row, folders) = ApplyMode(row.mode, ApplyMode("auto", row.auto))
    BY <2>2 DEF ResolvePrivate
  <2>4. row.mode = "auto" /\ row.auto = isPrivate[p] BY <2>1 DEF DefaultRow
  <2> QED BY <2>3, <2>4 DEF Resolved, ApplyMode
<1> QED BY <1>1, <1>2, <1>4, <1>5 DEF VisInv

\* What the invariant says of a request that is at work on a project.
LEMMA AtWork ==
  ASSUME VisInv, NEW c \in VCaller, visCall[c].pc # "idle"
  PROVE  /\ c \in Running /\ RequestOK(visCall[c]) /\ AloneOK(c) /\ VisTypeOK
         /\ visCall[c].pc \in AtProject => visCall[c].p \in VProject /\ visCall[c].p \in Pending(c)
BY DEF VisInv, Running, VisAt, RequestOK, Pending, AtProject

\* The lists of a folder's projects, and their end.
LEMMA ListingIsSettled ==
  ASSUME VisInv, NEW c \in VCaller, ListCovered(c) \/ NextCovered(c) \/ EndFolder(c)
  PROVE  VisInv'
<1> DEFINE v == visCall[c]
<1>0. UNCHANGED <<visName, isPrivate, visRow, folders, unsettled>> /\ v.pc \in {"list", "next"}
  BY DEF ListCovered, NextCovered, EndFolder, VisAt, visTables
<1>1. c \in Running /\ RequestOK(v) /\ AloneOK(c) /\ VisTypeOK BY <1>0, AtWork
<1>t. VisTypeOK' BY <1>0, <1>1 DEF VisTypeOK
<1>r. \A p \in VProject : Resolved(p)' = Resolved(p) BY <1>0 DEF Resolved
<1>2. CASE ListCovered(c)
  <2> DEFINE found == {ProjectRead(p) : p \in {q \in VProject : FolderCovers(v.prefix, visName[q])}}
             r     == [v EXCEPT !.pc = "next", !.todo = found]
  <2>1. found \in SUBSET [p : VProject, name : VName, priv : BOOLEAN]
    BY <1>1 DEF ProjectRead, VisTypeOK
  <2>2. \A t \in found : t.name = visName[t.p] BY DEF ProjectRead
  <2>3. {t.p : t \in found} = {p \in VProject : FolderCovers(v.prefix, visName[p])}
    <3> DEFINE covered == {p \in VProject : FolderCovers(v.prefix, visName[p])}
    <3>1. \A p : ProjectRead(p).p = p BY DEF ProjectRead
    <3>2. found = {ProjectRead(p) : p \in covered} OBVIOUS
    <3> HIDE DEF found, covered
    <3> QED BY <3>1, <3>2 DEF covered
  <2> HIDE DEF found
  <2>4. VisGo(c, r) /\ v.pc = "list" BY <1>2 DEF ListCovered, found, VisAt
  <2>5. RequestOK(r) /\ r.pc = "next" /\ r.todo = found /\ r.alone = v.alone
    BY <1>1, <2>1, <2>4 DEF RequestOK, VisRequest, AtProject
  <2> HIDE DEF r
  <2>6. /\ visCall' = [d \in VCaller |-> visCall'[d]] /\ visCall'[c] = r
        /\ \A d \in VCaller : RequestOK(visCall'[d])
        /\ \A d \in VCaller \ {c} : AloneOK(d)'
        /\ \A d \in VCaller \ {c} : (d \in Running' <=> d \in Running) /\ Pending(d)' = Pending(d)
    BY <1>0, <1>1, <2>4, <2>5, RequestGoesOn
  <2>7. c \in Running' BY <2>5, <2>6 DEF Running, VisAt
  <2>8. Running' = Running BY <2>6, <2>7, <1>1 DEF Running
  <2>9. AloneOK(c)' BY <2>2, <2>5, <2>6, <2>8, <1>1, <1>0 DEF AloneOK, AtProject
  <2>10. Pending(c)' = Pending(c) BY <2>3, <2>4, <2>5, <2>6, <1>0 DEF Pending, VisAt, AtProject
  <2>11. Settled' BY <2>6, <2>7, <2>10, <1>r, <1>0, StaysSettled
  <2> QED BY <2>6, <2>9, <2>11, <1>t DEF VisInv
<1>3. CASE NextCovered(c)
  <2>1. PICK t \in v.todo : VisGo(c, [v EXCEPT !.pc = "resolve", !.p = t.p, !.name = t.name, !.priv = t.priv,
                                               !.todo = v.todo \ {t}])
    BY <1>3 DEF NextCovered
  <2> DEFINE r == [v EXCEPT !.pc = "resolve", !.p = t.p, !.name = t.name, !.priv = t.priv, !.todo = v.todo \ {t}]
  <2>2. t \in [p : VProject, name : VName, priv : BOOLEAN] BY <1>1 DEF RequestOK, VisRequest
  <2>4. VisGo(c, r) /\ v.pc = "next" BY <1>3, <2>1 DEF NextCovered, VisAt
  <2>5. /\ RequestOK(r) /\ r.pc = "resolve" /\ r.todo = v.todo \ {t} /\ r.alone = v.alone
        /\ r.p = t.p /\ r.name = t.name
    BY <1>1, <2>2, <2>4 DEF RequestOK, VisRequest, AtProject
  <2> HIDE DEF r
  <2>6. /\ visCall' = [d \in VCaller |-> visCall'[d]] /\ visCall'[c] = r
        /\ \A d \in VCaller : RequestOK(visCall'[d])
        /\ \A d \in VCaller \ {c} : AloneOK(d)'
        /\ \A d \in VCaller \ {c} : (d \in Running' <=> d \in Running) /\ Pending(d)' = Pending(d)
    BY <1>0, <1>1, <2>4, <2>5, RequestGoesOn
  <2>7. c \in Running' BY <2>5, <2>6 DEF Running, VisAt
  <2>8. Running' = Running BY <2>6, <2>7, <1>1 DEF Running
  <2>9. AloneOK(c)' BY <2>5, <2>6, <2>8, <1>1, <1>0, <2>1 DEF AloneOK, AtProject
  <2>10. Pending(c)' = Pending(c)
    <3>1. Pending(c) = {u.p : u \in v.todo} BY <2>4, <1>1 DEF Pending, VisAt, AtProject
    <3>2. Pending(c)' = {u.p : u \in v.todo \ {t}} \cup {p \in VProject : t.p = p}
      BY <2>5, <2>6 DEF Pending, VisAt, AtProject
    <3> QED BY <3>1, <3>2, <2>2
  <2>11. Settled' BY <2>6, <2>7, <2>10, <1>r, <1>0, StaysSettled
  <2> QED BY <2>6, <2>9, <2>11, <1>t DEF VisInv
<1>4. CASE EndFolder(c)
  <2>4. VisGo(c, VisIdle) /\ v.pc = "next" /\ v.todo = {} BY <1>4 DEF EndFolder, VisAt
  <2>6. /\ visCall' = [d \in VCaller |-> visCall'[d]] /\ visCall'[c] = VisIdle
        /\ \A d \in VCaller : RequestOK(visCall'[d])
        /\ \A d \in VCaller \ {c} : AloneOK(d)'
        /\ \A d \in VCaller \ {c} : (d \in Running' <=> d \in Running) /\ Pending(d)' = Pending(d)
    BY <1>0, <1>1, <2>4, IdleIsRequest, RequestGoesOn
  <2>9. AloneOK(c)' BY <2>6, IdleIsRequest DEF AloneOK
  <2>10. Pending(c) = {} BY <2>4 DEF Pending, VisAt, AtProject
  <2>11. Settled' BY <2>6, <2>10, <1>r, <1>0, StaysSettled
  <2> QED BY <2>6, <2>9, <2>11, <1>t DEF VisInv
<1> QED BY <1>2, <1>3, <1>4

\* Reading and writing a row, and reading the rules.
LEMMA RowsAreSettled ==
  ASSUME VisInv, NEW c \in VCaller, ReadRow(c) \/ InsertRow(c) \/ WriteRow(c) \/ ReadRules(c)
  PROVE  VisInv'
<1> DEFINE v == visCall[c]
           P == v.p
<1>0. /\ UNCHANGED <<visName, isPrivate, folders, unsettled>>
      /\ v.pc \in {"row", "resolve", "insert", "fill", "write", "rules"}
  BY DEF ReadRow, InsertRow, WriteRow, ReadRules, VisAt, visTables
<1>1. c \in Running /\ RequestOK(v) /\ AloneOK(c) /\ VisTypeOK /\ P \in VProject /\ P \in Pending(c)
  BY <1>0, AtWork DEF AtProject
<1>n. NoRow \notin VRow BY NoRowAssumption
<1>2. SUFFICES ASSUME NEW r, VisGo(c, r), RequestOK(r), r.pc \in AtProject, r.p = P, r.name = v.name,
                      r.todo = v.todo, r.alone = v.alone,
                      visRow' \in [VProject -> {NoRow} \cup VRow],
                      \A p \in VProject \ {P} : visRow'[p] = visRow[p],
                      v.alone => /\ r.pc \in {"insert", "fill"} => visRow'[P] = NoRow
                                 /\ r.pc \in {"write", "rules", "apply"} => visRow'[P] = r.row
                                 /\ r.pc = "apply" => r.rules = folders
               PROVE  VisInv'
  <2>1. CASE ReadRow(c)
    <3> DEFINE has == visRow[P] # NoRow
               row == IF has THEN visRow[P] ELSE DefaultRow(v.priv)
    <3>1. row \in VRow /\ (has => row = visRow[P])
      BY <1>1 DEF RequestOK, VisRequest, VisTypeOK, DefaultRow, VRow, VMode
    <3>2. UNCHANGED visRow BY <2>1 DEF ReadRow, visTables
    <3> HIDE DEF row, has
    <3>3. CASE v.pc = "row" /\ VisGo(c, [v EXCEPT !.pc = IF has THEN "write" ELSE "insert", !.row = row])
      <4> DEFINE r == [v EXCEPT !.pc = IF has THEN "write" ELSE "insert", !.row = row]
      <4>1. /\ RequestOK(r) /\ r.pc = (IF has THEN "write" ELSE "insert") /\ r.row = row /\ r.p = P
            /\ r.name = v.name /\ r.todo = v.todo /\ r.alone = v.alone
        BY <1>1, <3>1, <3>3 DEF RequestOK, VisRequest, AtProject
      <4> HIDE DEF r
      <4>2. VisGo(c, r) BY <3>3 DEF r
      <4>3. r.pc \in AtProject BY <4>1 DEF AtProject
      <4>4. /\ r.pc \in {"insert", "fill"} => visRow'[P] = NoRow
            /\ r.pc \in {"write", "rules", "apply"} => visRow'[P] = r.row
            /\ r.pc = "apply" => r.rules = folders
        BY <4>1, <3>1, <3>2 DEF has
      <4> QED BY <4>1, <4>2, <4>3, <4>4, <3>2, <1>1, <1>2 DEF VisTypeOK
    <3>4. CASE v.pc = "resolve" /\ VisGo(c, [v EXCEPT !.pc = IF has THEN "rules" ELSE "fill", !.row = row])
      <4> DEFINE r == [v EXCEPT !.pc = IF has THEN "rules" ELSE "fill", !.row = row]
      <4>1. /\ RequestOK(r) /\ r.pc = (IF has THEN "rules" ELSE "fill") /\ r.row = row /\ r.p = P
            /\ r.name = v.name /\ r.todo = v.todo /\ r.alone = v.alone
        BY <1>1, <3>1, <3>4 DEF RequestOK, VisRequest, AtProject
      <4> HIDE DEF r
      <4>2. VisGo(c, r) BY <3>4 DEF r
      <4>3. r.pc \in AtProject BY <4>1 DEF AtProject
      <4>4. /\ r.pc \in {"insert", "fill"} => visRow'[P] = NoRow
            /\ r.pc \in {"write", "rules", "apply"} => visRow'[P] = r.row
            /\ r.pc = "apply" => r.rules = folders
        BY <4>1, <3>1, <3>2 DEF has
      <4> QED BY <4>1, <4>2, <4>3, <4>4, <3>2, <1>1, <1>2 DEF VisTypeOK
    <3> QED BY <3>3, <3>4, <2>1 DEF ReadRow, VisAt, row, has
  <2>2. CASE InsertRow(c)
    <3> DEFINE r == [v EXCEPT !.pc = IF v.pc = "insert" THEN "write" ELSE "rules"]
    <3>1. v.row \in VRow /\ v.pc \in {"insert", "fill"} /\ visRow' = [visRow EXCEPT ![P] = v.row]
      BY <1>1, <2>2 DEF InsertRow, VisAt, RequestOK, VisRequest
    <3>2. /\ RequestOK(r) /\ r.pc = (IF v.pc = "insert" THEN "write" ELSE "rules") /\ r.row = v.row /\ r.p = P
          /\ r.name = v.name /\ r.todo = v.todo /\ r.alone = v.alone
      BY <1>1, <3>1 DEF RequestOK, VisRequest, AtProject
    <3>3. VisGo(c, r) BY <2>2 DEF InsertRow, VisAt
    <3> HIDE DEF r
    <3>4. r.pc \in AtProject BY <3>2 DEF AtProject
    <3>5. visRow' \in [VProject -> {NoRow} \cup VRow] /\ visRow'[P] = v.row BY <3>1, <1>1 DEF VisTypeOK
    <3>6. /\ r.pc \in {"insert", "fill"} => visRow'[P] = NoRow
          /\ r.pc \in {"write", "rules", "apply"} => visRow'[P] = r.row
          /\ r.pc = "apply" => r.rules = folders
      BY <3>2, <3>5
    <3>7. \A p \in VProject \ {P} : visRow'[p] = visRow[p] BY <3>1, <1>1 DEF VisTypeOK
    <3> QED BY <3>2, <3>3, <3>4, <3>5, <3>6, <3>7, <1>2
  <2>3. CASE WriteRow(c)
    <3> DEFINE row == IF v.op = "sync" THEN [v.row EXCEPT !.auto = v.auto] ELSE [v.row EXCEPT !.mode = v.mode]
               r   == [v EXCEPT !.pc = "resolve", !.row = VisIdle.row]
    <3>1. row \in VRow BY <1>1 DEF RequestOK, VisRequest, VRow
    <3>2. v.pc = "write" /\ visRow' = IF v.op = "sync" /\ row = v.row THEN visRow ELSE [visRow EXCEPT ![P] = row]
      BY <2>3 DEF WriteRow, VisAt
    <3>3. VisIdle.row \in VRow BY IdleIsRequest DEF RequestOK, VisRequest
    <3>4. /\ RequestOK(r) /\ r.pc = "resolve" /\ r.p = P
          /\ r.name = v.name /\ r.todo = v.todo /\ r.alone = v.alone
      BY <1>1, <3>3 DEF RequestOK, VisRequest, AtProject
    <3>5. VisGo(c, r) BY <2>3 DEF WriteRow
    <3> HIDE DEF r, row
    <3>6. visRow' \in [VProject -> {NoRow} \cup VRow] BY <3>1, <3>2, <1>1 DEF VisTypeOK
    <3>7. \A p \in VProject \ {P} : visRow'[p] = visRow[p] BY <3>2, <1>1 DEF VisTypeOK
    <3> QED BY <3>4, <3>5, <3>6, <3>7, <1>2 DEF AtProject
  <2>4. CASE ReadRules(c)
    <3> DEFINE r == [v EXCEPT !.pc = "apply", !.rules = folders]
    <3>1. v.pc = "rules" /\ UNCHANGED visRow /\ VisGo(c, r) BY <2>4 DEF ReadRules, VisAt, visTables
    <3>2. /\ RequestOK(r) /\ r.pc = "apply" /\ r.p = P /\ r.rules = folders /\ r.row = v.row
          /\ r.name = v.name /\ r.todo = v.todo /\ r.alone = v.alone
      BY <1>1 DEF RequestOK, VisRequest, AtProject, VisTypeOK
    <3> HIDE DEF r
    <3>3. v.alone => visRow[P] = v.row BY <1>1, <3>1 DEF AloneOK
    <3>4. r.pc \in AtProject BY <3>2 DEF AtProject
    <3> QED BY <3>1, <3>2, <3>3, <3>4, <1>1, <1>2 DEF VisTypeOK
  <2> QED BY <2>1, <2>2, <2>3, <2>4
<1>t. VisTypeOK' BY <1>0, <1>1, <1>2 DEF VisTypeOK
<1>6. /\ visCall' = [d \in VCaller |-> visCall'[d]] /\ visCall'[c] = r
      /\ \A d \in VCaller : RequestOK(visCall'[d])
      /\ \A d \in VCaller \ {c} : AloneOK(d)'
      /\ \A d \in VCaller \ {c} : (d \in Running' <=> d \in Running) /\ Pending(d)' = Pending(d)
  BY <1>0, <1>1, <1>2, RequestGoesOn
<1>7. c \in Running' BY <1>2, <1>6 DEF Running, VisAt, AtProject
<1>8. Running' = Running BY <1>6, <1>7, <1>1 DEF Running
<1>9. AloneOK(c)' BY <1>2, <1>6, <1>8, <1>1, <1>0 DEF AloneOK, AtProject
<1>10. Pending(c)' = Pending(c) BY <1>0, <1>1, <1>2, <1>6 DEF Pending, VisAt, AtProject
<1>11. \A p \in VProject \ {P} : Resolved(p)' = Resolved(p) BY <1>0, <1>2 DEF Resolved
<1>12. Settled' BY <1>1, <1>6, <1>7, <1>10, <1>11, <1>0, StaysSettled
<1> QED BY <1>6, <1>9, <1>12, <1>t DEF VisInv

\* A request that met no other resolves its project from what the tables hold.
LEMMA ApplyIsSettled ==
  ASSUME VisInv, NEW c \in VCaller, ApplyPrivate(c)
  PROVE  VisInv'
<1>a. visCall[c].pc = "apply" BY DEF ApplyPrivate, VisAt
<1>b. PICK P \in VProject : P = visCall[c].p BY <1>a, AtWork DEF AtProject
<1> DEFINE v == visCall[c]
           value == ResolvePrivate(v.name, v.row, v.rules)
           r == IF v.op = "folder" THEN [VisIdle EXCEPT !.pc = "next", !.op = "folder", !.todo = v.todo, !.alone = v.alone]
                ELSE VisIdle
<1>0. /\ UNCHANGED <<visName, visRow, folders>> /\ v.pc = "apply" /\ VisGo(c, r)
      /\ isPrivate' = [isPrivate EXCEPT ![P] = value]
      /\ unsettled' = IF v.alone THEN unsettled \ {P} ELSE unsettled \cup {P}
  BY <1>b DEF ApplyPrivate, VisAt
<1>1. c \in Running /\ RequestOK(v) /\ AloneOK(c) /\ VisTypeOK /\ P \in Pending(c)
  BY <1>0, <1>b, AtWork DEF AtProject
<1>2. value \in BOOLEAN BY <1>1, ResolvesToBoolean DEF RequestOK, VisRequest
<1>3. /\ RequestOK(r) /\ r.pc = (IF v.op = "folder" THEN "next" ELSE "idle")
      /\ v.op = "folder" => r.todo = v.todo /\ r.alone = v.alone
      /\ v.op # "folder" => ~r.alone
  <2>1. CASE v.op = "folder"
    <3>1. VisIdle \in VisRequest BY IdleIsRequest DEF RequestOK
    <3>2. v.todo \in SUBSET [p : VProject, name : VName, priv : BOOLEAN] /\ v.alone \in BOOLEAN
      BY <1>1 DEF RequestOK, VisRequest
    <3>3. r = [VisIdle EXCEPT !.pc = "next", !.op = "folder", !.todo = v.todo, !.alone = v.alone] BY <2>1
    <3> HIDE DEF r
    <3> QED BY <2>1, <3>1, <3>2, <3>3 DEF RequestOK, VisRequest, AtProject
  <2>2. CASE v.op # "folder" BY <2>2, IdleIsRequest
  <2> QED BY <2>1, <2>2
<1> HIDE DEF value, r
<1>t. VisTypeOK' BY <1>0, <1>1, <1>2 DEF VisTypeOK
<1>6. /\ visCall' = [d \in VCaller |-> visCall'[d]] /\ visCall'[c] = r
      /\ \A d \in VCaller : RequestOK(visCall'[d])
      /\ \A d \in VCaller \ {c} : AloneOK(d)'
      /\ \A d \in VCaller \ {c} : (d \in Running' <=> d \in Running) /\ Pending(d)' = Pending(d)
  BY <1>0, <1>1, <1>3, RequestGoesOn
<1>7. v.op = "folder" => c \in Running' BY <1>3, <1>6 DEF Running, VisAt
<1>8. v.op = "folder" => Running' = Running BY <1>6, <1>7, <1>1 DEF Running
<1>9. AloneOK(c)'
  <2>1. CASE v.op = "folder" BY <2>1, <1>3, <1>6, <1>8, <1>1, <1>0 DEF AloneOK, AtProject
  <2>2. CASE v.op # "folder" BY <2>2, <1>3, <1>6 DEF AloneOK, Running, VisAt
  <2> QED BY <2>1, <2>2
<1>10. \A p \in VProject \ {P} : Resolved(p)' = Resolved(p)
  <2>1. \A p \in VProject \ {P} : isPrivate'[p] = isPrivate[p] BY <1>0, <1>1 DEF VisTypeOK
  <2> QED BY <2>1, <1>0 DEF Resolved
<1>11. v.alone => Resolved(P)'
  <2> SUFFICES ASSUME v.alone PROVE Resolved(P)' OBVIOUS
  <2>1. v.name = visName[P] /\ v.row = visRow[P] /\ v.rules = folders BY <1>0, <1>1, <1>b DEF AloneOK, AtProject
  <2>2. visRow[P] # NoRow BY <2>1, <1>1, NoRowAssumption DEF RequestOK, VisRequest
  <2>3. isPrivate'[P] = value BY <1>0, <1>1 DEF VisTypeOK
  <2> QED BY <1>0, <2>1, <2>2, <2>3 DEF Resolved, value
<1>12. v.op = "folder" \/ v.todo = {}
  BY <1>1, <1>0 DEF RequestOK
<1>13. ASSUME NEW p \in VProject \ {P}, p \in Pending(c) PROVE c \in Running' /\ p \in Pending(c)'
  <2>1. p \in {t.p : t \in v.todo} BY <1>0, <1>b, <1>13 DEF Pending, VisAt, AtProject
  <2>2. v.op = "folder" BY <2>1, <1>12
  <2>3. p \in Pending(c)' BY <2>1, <2>2, <1>3, <1>6 DEF Pending, VisAt, AtProject
  <2> QED BY <2>2, <2>3, <1>7
<1>14. ASSUME NEW p \in VProject, p \in unsettled \/ (c \in Running /\ p \in Pending(c)) \/ Resolved(p)
       PROVE  p \in unsettled' \/ (c \in Running' /\ p \in Pending(c)') \/ Resolved(p)'
  <2>1. CASE p = P BY <2>1, <1>0, <1>11
  <2>2. CASE p # P
    <3>1. p \in unsettled => p \in unsettled' BY <2>2, <1>0
    <3> QED BY <3>1, <2>2, <1>10, <1>13, <1>14
  <2> QED BY <2>1, <2>2
<1>15. Settled' BY <1>6, <1>14, StaysSettled
<1> QED BY <1>6, <1>9, <1>15, <1>t DEF VisInv

LEMMA FailIsSettled ==
  ASSUME VisInv, NEW c \in VCaller, VisFail(c)
  PROVE  VisInv'
<1>0. /\ UNCHANGED <<visName, isPrivate, visRow, folders>> /\ c \in Running /\ VisGo(c, VisIdle)
      /\ unsettled' = VProject
  BY DEF VisFail, visTables
<1>6. /\ visCall' = [d \in VCaller |-> visCall'[d]] /\ visCall'[c] = VisIdle
      /\ \A d \in VCaller : RequestOK(visCall'[d])
      /\ \A d \in VCaller \ {c} : AloneOK(d)'
  BY <1>0, IdleIsRequest, RequestGoesOn
<1>7. AloneOK(c)' BY <1>6, IdleIsRequest DEF AloneOK
<1>8. Settled' BY <1>0 DEF Settled
<1>9. VisTypeOK' BY <1>0 DEF VisInv, VisTypeOK
<1> QED BY <1>6, <1>7, <1>8, <1>9 DEF VisInv

\* Every request under way met another.
LEMMA RequestsMeet ==
  ASSUME VisInv, NEW C \in SUBSET VCaller,
         \A d \in VCaller \ C : visCall'[d] = IF d \in Running THEN [visCall[d] EXCEPT !.alone = FALSE] ELSE visCall[d]
  PROVE  \A d \in VCaller \ C :
           /\ RequestOK(visCall'[d]) /\ AloneOK(d)' /\ (d \in Running' <=> d \in Running)
           /\ visCall'[d].pc = visCall[d].pc /\ visCall'[d].p = visCall[d].p
           /\ visCall'[d].prefix = visCall[d].prefix /\ visCall'[d].todo = visCall[d].todo
<1> SUFFICES ASSUME NEW d \in VCaller \ C
             PROVE  /\ RequestOK(visCall'[d]) /\ AloneOK(d)' /\ (d \in Running' <=> d \in Running)
                    /\ visCall'[d].pc = visCall[d].pc /\ visCall'[d].p = visCall[d].p
                    /\ visCall'[d].prefix = visCall[d].prefix /\ visCall'[d].todo = visCall[d].todo
  OBVIOUS
<1>1. RequestOK(visCall[d]) BY DEF VisInv
<1>2. CASE d \in Running
  <2>1. visCall'[d] = [visCall[d] EXCEPT !.alone = FALSE] BY <1>2
  <2>2. RequestOK(visCall'[d]) /\ visCall'[d].alone = FALSE
        /\ visCall'[d].pc = visCall[d].pc /\ visCall'[d].p = visCall[d].p
        /\ visCall'[d].prefix = visCall[d].prefix /\ visCall'[d].todo = visCall[d].todo
    BY <1>1, <2>1 DEF RequestOK, VisRequest, AtProject
  <2>3. d \in Running' BY <1>2, <2>2 DEF Running, VisAt
  <2>4. AloneOK(d)' BY <2>2 DEF AloneOK
  <2> QED BY <1>2, <2>2, <2>3, <2>4
<1>3. CASE d \notin Running
  <2>1. visCall'[d] = visCall[d] BY <1>3
  <2>2. d \notin Running' BY <1>3, <2>1 DEF Running, VisAt
  <2> QED BY <1>1, <1>3, <2>1, <2>2 DEF AloneOK
<1> QED BY <1>2, <1>3

LEMMA RenameIsSettled == VisInv /\ RenameVisible => VisInv'
<1> SUFFICES ASSUME VisInv, RenameVisible PROVE VisInv' OBVIOUS
<1>1. PICK p \in VProject, n \in VName :
        /\ visName' = [visName EXCEPT ![p] = n] /\ unsettled' = unsettled \cup {p}
        /\ visCall' = [d \in VCaller |-> IF d \in Running THEN [visCall[d] EXCEPT !.alone = FALSE] ELSE visCall[d]]
        /\ UNCHANGED <<isPrivate, visRow, folders>>
  BY DEF RenameVisible
<1>2. VisTypeOK' BY <1>1 DEF VisInv, VisTypeOK
<1>3. \A d \in VCaller :
           /\ RequestOK(visCall'[d]) /\ AloneOK(d)' /\ (d \in Running' <=> d \in Running)
           /\ visCall'[d].pc = visCall[d].pc /\ visCall'[d].p = visCall[d].p
           /\ visCall'[d].prefix = visCall[d].prefix /\ visCall'[d].todo = visCall[d].todo
  <2>1. \A d \in VCaller : visCall'[d] = IF d \in Running THEN [visCall[d] EXCEPT !.alone = FALSE] ELSE visCall[d]
    BY <1>1
  <2>2. {} \in SUBSET VCaller /\ VCaller \ {} = VCaller OBVIOUS
  <2> QED BY <2>1, <2>2, RequestsMeet
<1>4. visCall' = [d \in VCaller |-> visCall'[d]] BY <1>1
<1>5. \A q \in VProject \ {p} : visName'[q] = visName[q] BY <1>1 DEF VisInv, VisTypeOK
<1>6. ASSUME NEW q \in VProject
      PROVE  q \in unsettled' \/ (\E d \in Running' : q \in Pending(d)') \/ Resolved(q)'
  <2>1. CASE q = p BY <2>1, <1>1
  <2>2. CASE q # p
    <3>1. Resolved(q) => Resolved(q)' BY <2>2, <1>1, <1>5 DEF Resolved
    <3>2. ASSUME NEW d \in Running, q \in Pending(d) PROVE d \in Running' /\ q \in Pending(d)'
      <4>1. d \in VCaller BY DEF Running
      <4> QED BY <4>1, <3>2, <2>2, <1>3, <1>5 DEF Pending, VisAt
    <3> QED BY <3>1, <3>2, <1>1 DEF VisInv, Settled
  <2> QED BY <2>1, <2>2
<1>7. Settled' BY <1>6 DEF Settled
<1> QED BY <1>2, <1>3, <1>4, <1>7 DEF VisInv

\* A request starts.
LEMMA BeginIsSettled ==
  ASSUME VisInv, NEW c \in VCaller, BeginSync(c) \/ BeginSetMode(c) \/ BeginSetFolder(c)
  PROVE  VisInv'
<1>0. UNCHANGED <<visName, isPrivate, visRow, unsettled>>
  BY DEF BeginSync, BeginSetMode, BeginSetFolder, visTables
<1>i. VisIdle \in VisRequest /\ VisTypeOK /\ VisIdle.todo = {} BY IdleIsRequest DEF RequestOK, VisInv
<1>1. SUFFICES ASSUME NEW r, VisBegin(c, r), r \in VisRequest, r.todo = {}, r.pc \in {"row", "list"},
                      r.pc = "list" => r.op = "folder",
                      r.pc = "row" => r.p \in VProject /\ r.name = visName[r.p] /\ r.op \in {"sync", "mode"},
                      folders' \in [VName -> VMode],
                      \A p \in VProject : Resolved(p) => Resolved(p)' \/ (r.pc = "list" /\ FolderCovers(r.prefix, visName[p]))
               PROVE  VisInv'
  <2>1. CASE BeginSync(c)
    <3>1. PICK p \in VProject, b \in BOOLEAN :
             VisBegin(c, [VisIdle EXCEPT !.pc = "row", !.op = "sync", !.auto = b,
                                         !.p = p, !.name = visName[p], !.priv = isPrivate[p]])
      BY <2>1 DEF BeginSync
    <3> DEFINE r == [VisIdle EXCEPT !.pc = "row", !.op = "sync", !.auto = b,
                                    !.p = p, !.name = visName[p], !.priv = isPrivate[p]]
    <3>2. r \in VisRequest /\ r.todo = {} /\ r.pc = "row" /\ r.p = p /\ r.name = visName[p] /\ r.op = "sync"
      BY <1>i DEF VisRequest, VisTypeOK
    <3>3. UNCHANGED folders BY <2>1 DEF BeginSync, visTables
    <3>4. \A q \in VProject : Resolved(q) => Resolved(q)' BY <1>0, <3>3 DEF Resolved
    <3> HIDE DEF r
    <3>5. VisBegin(c, r) BY <3>1 DEF r
    <3> QED BY <3>2, <3>3, <3>4, <3>5, <1>i, <1>1 DEF VisTypeOK
  <2>2. CASE BeginSetMode(c)
    <3>1. PICK p \in VProject, m \in VMode :
             VisBegin(c, [VisIdle EXCEPT !.pc = "row", !.op = "mode", !.mode = m,
                                         !.p = p, !.name = visName[p], !.priv = isPrivate[p]])
      BY <2>2 DEF BeginSetMode
    <3> DEFINE r == [VisIdle EXCEPT !.pc = "row", !.op = "mode", !.mode = m,
                                    !.p = p, !.name = visName[p], !.priv = isPrivate[p]]
    <3>2. r \in VisRequest /\ r.todo = {} /\ r.pc = "row" /\ r.p = p /\ r.name = visName[p] /\ r.op = "mode"
      BY <1>i DEF VisRequest, VisTypeOK
    <3>3. UNCHANGED folders BY <2>2 DEF BeginSetMode, visTables
    <3>4. \A q \in VProject : Resolved(q) => Resolved(q)' BY <1>0, <3>3 DEF Resolved
    <3> HIDE DEF r
    <3>5. VisBegin(c, r) BY <3>1 DEF r
    <3> QED BY <3>2, <3>3, <3>4, <3>5, <1>i, <1>1 DEF VisTypeOK
  <2>3. CASE BeginSetFolder(c)
    <3>1. PICK f \in VName, m \in VMode :
            /\ VisBegin(c, [VisIdle EXCEPT !.pc = "list", !.op = "folder", !.prefix = f])
            /\ folders' = [folders EXCEPT ![f] = m]
      BY <2>3 DEF BeginSetFolder
    <3> DEFINE r == [VisIdle EXCEPT !.pc = "list", !.op = "folder", !.prefix = f]
    <3>2. r \in VisRequest /\ r.todo = {} /\ r.pc = "list" /\ r.prefix = f /\ r.op = "folder"
      BY <1>i DEF VisRequest
    <3> HIDE DEF r
    <3>3. VisBegin(c, r) BY <3>1 DEF r
    <3>4. folders' \in [VName -> VMode] BY <3>1, <1>i DEF VisTypeOK
    <3>5. ASSUME NEW q \in VProject, Resolved(q), ~FolderCovers(f, visName[q]) PROVE Resolved(q)'
      <4> DEFINE row == IF visRow[q] = NoRow THEN DefaultRow(isPrivate[q]) ELSE visRow[q]
      <4>1. ResolvePrivate(visName[q], row, folders') = ResolvePrivate(visName[q], row, folders)
        <5>1. \A g \in VName \ {f} : folders'[g] = folders[g] BY <3>1, <1>i DEF VisTypeOK
        <5> HIDE DEF row
        <5> QED BY <5>1, <3>5, RulesElsewhere
      <4> QED BY <3>5, <4>1, <1>0 DEF Resolved
    <3> QED BY <3>2, <3>3, <3>4, <3>5, <1>1
  <2> QED BY <2>1, <2>2, <2>3
<1> DEFINE R == [r EXCEPT !.alone = (Running = {})]
<1>2. /\ visCall[c].pc = "idle"
      /\ visCall' = [d \in VCaller |-> IF d = c THEN R
            ELSE IF d \in Running THEN [visCall[d] EXCEPT !.alone = FALSE] ELSE visCall[d]]
  BY <1>1 DEF VisBegin, VisAt
<1>3. /\ RequestOK(R) /\ R.pc = r.pc /\ R.alone = (Running = {}) /\ R.todo = {} /\ R.p = r.p
      /\ R.name = r.name /\ R.prefix = r.prefix
  BY <1>1 DEF RequestOK, VisRequest, AtProject
<1> HIDE DEF R
<1>4. \A d \in VCaller \ {c} :
           /\ RequestOK(visCall'[d]) /\ AloneOK(d)' /\ (d \in Running' <=> d \in Running)
           /\ visCall'[d].pc = visCall[d].pc /\ visCall'[d].p = visCall[d].p
           /\ visCall'[d].prefix = visCall[d].prefix /\ visCall'[d].todo = visCall[d].todo
  <2>1. \A d \in VCaller \ {c} :
          visCall'[d] = IF d \in Running THEN [visCall[d] EXCEPT !.alone = FALSE] ELSE visCall[d]
    BY <1>2
  <2>2. {c} \in SUBSET VCaller OBVIOUS
  <2> QED BY <2>1, <2>2, RequestsMeet
<1>5. visCall' = [d \in VCaller |-> visCall'[d]] /\ visCall'[c] = R BY <1>2
<1>6. \A d \in VCaller \ {c} : Pending(d)' = Pending(d) BY <1>4, <1>0 DEF Pending, VisAt
<1>7. c \notin Running /\ c \in Running' BY <1>1, <1>2, <1>3, <1>5 DEF Running, VisAt
<1>8. Running = {} => Running' = {c} BY <1>4, <1>7 DEF Running
<1>9. AloneOK(c)' BY <1>0, <1>1, <1>3, <1>5, <1>8 DEF AloneOK, AtProject
<1>10. r.pc = "list" => \A p \in VProject : FolderCovers(r.prefix, visName[p]) => p \in Pending(c)'
  BY <1>0, <1>3, <1>5 DEF Pending, VisAt
<1>11. Settled' BY <1>0, <1>1, <1>4, <1>6, <1>7, <1>10, StaysSettled
<1>12. VisTypeOK' BY <1>0, <1>1, <1>i DEF VisTypeOK
<1> QED BY <1>3, <1>4, <1>5, <1>9, <1>11, <1>12 DEF VisInv

LEMMA VisInvNext == VisInv /\ [VisNext]_visVars => VisInv'
<1> SUFFICES ASSUME VisInv, [VisNext]_visVars PROVE VisInv' OBVIOUS
<1>1. CASE UNCHANGED visVars
  <2>1. UNCHANGED <<visName, isPrivate, visRow, folders, visCall, unsettled>> BY <1>1 DEF visVars, visTables
  <2>2. Running' = Running BY <2>1 DEF Running, VisAt
  <2>3. \A c \in VCaller : Pending(c)' = Pending(c) BY <2>1 DEF Pending, VisAt
  <2>4. VisTypeOK' /\ visCall' = [c \in VCaller |-> visCall'[c]] BY <2>1 DEF VisInv, VisTypeOK
  <2>5. \A c \in VCaller : RequestOK(visCall'[c]) /\ AloneOK(c)' BY <2>1, <2>2 DEF VisInv, AloneOK
  <2>6. \A p \in VProject : Resolved(p)' = Resolved(p) BY <2>1 DEF Resolved
  <2>7. \A c \in Running : c \in VCaller BY DEF Running
  <2>8. Settled' BY <2>1, <2>2, <2>3, <2>6, <2>7 DEF VisInv, Settled
  <2> QED BY <2>4, <2>5, <2>8 DEF VisInv
<1>2. CASE RenameVisible BY <1>2, RenameIsSettled
<1>3. ASSUME NEW c \in VCaller, VisStep(c) PROVE VisInv'
  BY <1>3, BeginIsSettled, ListingIsSettled, RowsAreSettled, ApplyIsSettled, FailIsSettled DEF VisStep
<1> QED BY <1>1, <1>2, <1>3 DEF VisNext

\* However requests, rule changes and renames interleave, when nothing runs
\* is_private is what the overrides, the rules and the repository resolve to, but
\* for projects whose last request met another, failed, or was before a rename.
THEOREM ReadersSeeTheResolved == VisSpec => []PrivateIsResolved
<1>1. VisInv => PrivateIsResolved
  <2>1. ASSUME VisInv, Running = {}, NEW p \in VProject \ unsettled PROVE Resolved(p)
    BY <2>1 DEF VisInv, Settled
  <2> QED BY <2>1 DEF PrivateIsResolved, VisInv, Resolved
<1> QED BY VisInvInit, VisInvNext, <1>1, PTL DEF VisSpec

\* No synchronization that met no other request changes the operator's mode.
THEOREM ModesAreTheOperators == VisSpec => OverridesSurvive
<1>1. ASSUME VisInv, [VisNext]_visVars, NEW p \in VProject, visRow[p] # NoRow, visRow'[p].mode # visRow[p].mode
      PROVE  \E c \in {d \in VCaller : visCall[d].pc \in {"write", "insert", "fill"}} :
                visCall[c].p = p /\ (visCall[c].op = "mode" \/ ~visCall[c].alone)
  <2>1. PICK c \in VCaller : InsertRow(c) \/ WriteRow(c)
    <3>1. ~UNCHANGED visRow BY <1>1
    <3> QED BY <1>1, <3>1 DEF VisNext, VisStep, RenameVisible, BeginSync, BeginSetMode, BeginSetFolder, ListCovered,
            NextCovered, ReadRow, ReadRules, ApplyPrivate, EndFolder, VisFail, visVars, visTables
  <2> DEFINE v == visCall[c]
  <2>2. v.pc \in {"write", "insert", "fill"} BY <2>1 DEF InsertRow, WriteRow, VisAt
  <2>3. RequestOK(v) /\ AloneOK(c) /\ c \in Running BY <2>2, <1>1, AtWork
  <2>4. v.p = p BY <1>1, <2>1 DEF InsertRow, WriteRow, VisInv, VisTypeOK
  <2>5. CASE InsertRow(c)
    <3>1. v.pc \in {"insert", "fill"} BY <2>5 DEF InsertRow, VisAt
    <3>2. ~v.alone BY <3>1, <2>3, <2>4, <1>1 DEF AloneOK
    <3> QED BY <2>2, <2>4, <3>2
  <2>6. CASE WriteRow(c)
    <3> SUFFICES ASSUME v.alone, v.op # "mode" PROVE FALSE BY <2>2, <2>4
    <3>1. v.pc = "write" /\ visRow[p] = v.row BY <2>6, <2>3, <2>4 DEF WriteRow, VisAt, AloneOK
    <3>2. v.op = "sync" BY <3>1, <2>3 DEF RequestOK
    <3>3. v.row \in VRow /\ p \in DOMAIN visRow BY <2>3, <1>1 DEF RequestOK, VisRequest, VisInv, VisTypeOK
    <3>4. [v.row EXCEPT !.auto = v.auto].mode = v.row.mode BY <3>3 DEF VRow
    <3>5. visRow'[p].mode = visRow[p].mode BY <2>6, <3>1, <3>2, <3>3, <3>4, <2>4 DEF WriteRow
    <3> QED BY <3>5, <1>1
  <2> QED BY <2>1, <2>5, <2>6
<1>2. VisInv /\ [VisNext]_visVars =>
        [\A p \in VProject :
          (visRow[p] # NoRow /\ visRow'[p].mode # visRow[p].mode)
            => \E c \in {d \in VCaller : visCall[d].pc \in {"write", "insert", "fill"}} :
                 visCall[c].p = p /\ (visCall[c].op = "mode" \/ ~visCall[c].alone)]_visVars
  BY <1>1
<1> QED BY VisInvInit, VisInvNext, <1>2, PTL DEF VisSpec, OverridesSurvive

=============================================================================
