------------------------------ MODULE CICache ------------------------------
(***************************************************************************)
(* The CI cache (internal/api/cache.go, internal/db/cache_entries.go,      *)
(* internal/cicache): jobs save directories under keys in the scope of     *)
(* their ref and restore them, in their own scope first and then in the    *)
(* default branch's; a janitor evicts what nothing restored for a while,   *)
(* and the least recently used while free disk is low.                     *)
(*                                                                         *)
(* A key is a number, ordered as the strings are; the restore key of the   *)
(* model is a prefix of all of them.  The blobs of the entries are in      *)
(* BlobLifecycle.                                                          *)
(***************************************************************************)
EXTENDS Naturals, FiniteSets

CONSTANTS
    CacheJob,      \* requests of jobs
    CacheRef,      \* refs, the scopes
    DefaultRef,    \* the default branch
    CacheKey,      \* keys
    CacheBody,     \* contents
    NoEntry,       \* no row, nothing matched
    CacheKeep,     \* Janitor.Keep
    PressureGrace, \* how long a used entry is safe from disk pressure
    MaxCacheTime   \* bound: the clock stops here

ASSUME CacheTimes == /\ PressureGrace \in Nat \ {0} /\ CacheKeep \in Nat /\ PressureGrace <= CacheKeep
                     /\ MaxCacheTime \in Nat

\* There are finitely many keys, so there is a last one.
ASSUME CacheKeys == CacheKey \subseteq Nat /\ \E last \in CacheKey : \A k \in CacheKey : k <= last
ASSUME CacheRefs == DefaultRef \in CacheRef

VARIABLES
    ceNow,      \* the clock
    ceEntry,    \* cache_entries: [ref \X key -> row or NoEntry]
    ceAt,       \* the next step of each request
    ceReq,      \* what each request is about
    ceJanitor,  \* the janitor's pass: its step, its time, its list
    ceSince     \* history: entries used since the pass listed them

ceVars == <<ceNow, ceEntry, ceAt, ceReq, ceJanitor, ceSince>>

CacheSlot == CacheRef \X CacheKey
CacheRow == [body : CacheBody, created : 0..MaxCacheTime, used : 0..MaxCacheTime]

\* The absent entry is none of the slots and rows.
ASSUME NoEntryAssumption == NoEntry \notin CacheSlot /\ NoEntry \notin CacheRow

NoRequest == [ref |-> DefaultRef, key |-> CHOOSE k \in CacheKey : TRUE, body |-> NoEntry, found |-> NoEntry, born |-> 0]
Resting == [at |-> "idle", time |-> 0, list |-> {}, rows |-> [s \in {} |-> NoEntry]]

CacheInit ==
    /\ ceNow = 0
    /\ ceEntry = [s \in CacheSlot |-> NoEntry]
    /\ ceAt = [p \in CacheJob |-> "idle"]
    /\ ceReq = [p \in CacheJob |-> NoRequest]
    /\ ceJanitor = Resting
    /\ ceSince = {}

Held == {s \in CacheSlot : ceEntry[s] # NoEntry}

----------------------------------------------------------------------------
(* Saving.                                                                 *)

\* PutCache up to storeCIBody: cacheCaller fixes the scope to the token's ref,
\* and a key the scope holds is refused before the body is read.
BeginSave(p) ==
    /\ ceAt[p] = "idle"
    /\ \E r \in CacheRef, k \in CacheKey, b \in CacheBody :
          /\ <<r, k>> \notin Held
          /\ ceReq' = [ceReq EXCEPT ![p] = [ref |-> r, key |-> k, body |-> b, found |-> NoEntry, born |-> 0]]
    /\ ceAt' = [ceAt EXCEPT ![p] = "insert"]
    /\ UNCHANGED <<ceNow, ceEntry, ceJanitor, ceSince>>

\* InsertCacheEntry, as an upsert.
InsertReplaces(s, b) ==
    ceEntry' = [ceEntry EXCEPT ![s] = [body |-> b, created |-> ceNow, used |-> ceNow]]

\* InsertCacheEntry: ON CONFLICT DO NOTHING.
InsertEntry(s, b) ==
    ceEntry' = IF s \in Held THEN ceEntry
               ELSE [ceEntry EXCEPT ![s] = [body |-> b, created |-> ceNow, used |-> ceNow]]

\* PutCache after the body is stored; a save that lost deletes its blob.
EndSave(p) ==
    /\ ceAt[p] = "insert"
    /\ InsertEntry(<<ceReq[p].ref, ceReq[p].key>>, ceReq[p].body)
    /\ ceAt' = [ceAt EXCEPT ![p] = "idle"]
    /\ ceReq' = [ceReq EXCEPT ![p] = NoRequest]
    /\ UNCHANGED <<ceNow, ceJanitor, ceSince>>

----------------------------------------------------------------------------
(* Restoring.                                                              *)

\* cacheScopes: the caller's ref, then the default branch.
Scopes(r) == IF r = DefaultRef THEN <<r>> ELSE <<r, DefaultRef>>

\* FindCacheEntryByPrefix: the newest entry of the scope, the last key on a tie.
Newest(r) ==
    LET In == {s \in Held : s[1] = r}
    IN  IF In = {} THEN NoEntry
        ELSE CHOOSE s \in In : \A t \in In :
                \/ ceEntry[t].created < ceEntry[s].created
                \/ ceEntry[t].created = ceEntry[s].created /\ t[2] <= s[2]

\* The first of several lookups that found something.
FirstOf(found) ==
    LET hits == {i \in DOMAIN found : found[i] # NoEntry}
    IN  IF hits = {} THEN NoEntry ELSE found[CHOOSE i \in hits : \A j \in hits : i <= j]

\* db.FindCache: the exact key in every scope, then the restore key in every scope.
FindCache(r, k, restore) ==
    LET Exact(ref) == IF <<ref, k>> \in Held THEN <<ref, k>> ELSE NoEntry
        exact == FirstOf([i \in DOMAIN Scopes(r) |-> Exact(Scopes(r)[i])])
    IN  IF exact # NoEntry \/ ~restore THEN exact
        ELSE FirstOf([i \in DOMAIN Scopes(r) |-> Newest(Scopes(r)[i])])

\* Handler.FindCache: the job learns which entry to read.
Find(p) ==
    /\ ceAt[p] = "idle"
    /\ \E r \in CacheRef, k \in CacheKey, restore \in BOOLEAN :
          LET m == FindCache(r, k, restore)
          IN  /\ m # NoEntry
              /\ ceReq' = [ceReq EXCEPT ![p] = [ref |-> r, key |-> k, found |-> m, body |-> ceEntry[m].body,
                                                       born |-> ceEntry[m].created]]
    /\ ceAt' = [ceAt EXCEPT ![p] = "get"]
    /\ UNCHANGED <<ceNow, ceEntry, ceJanitor, ceSince>>

\* Handler.GetCache and MarkCacheRead: the entry is served, and used now; or
\* it was evicted since it was found.  A resumed download does not count.
Get(p) ==
    LET s == ceReq[p].found
    IN  /\ ceAt[p] = "get"
        /\ \E resumed \in BOOLEAN :
             IF s \in Held /\ ~resumed
             THEN /\ ceEntry' = [ceEntry EXCEPT ![s].used = ceNow]
                  /\ ceSince' = IF ceJanitor.at # "idle" THEN ceSince \cup {s} ELSE ceSince
             ELSE UNCHANGED <<ceEntry, ceSince>>
        /\ ceAt' = [ceAt EXCEPT ![p] = "idle"]
        /\ ceReq' = [ceReq EXCEPT ![p] = NoRequest]
        /\ UNCHANGED <<ceNow, ceJanitor>>

\* A save or a restore is broken off; a body that was stored has no row.
GiveUp(p) ==
    /\ ceAt[p] # "idle"
    /\ ceAt' = [ceAt EXCEPT ![p] = "idle"]
    /\ ceReq' = [ceReq EXCEPT ![p] = NoRequest]
    /\ UNCHANGED <<ceNow, ceEntry, ceJanitor, ceSince>>

----------------------------------------------------------------------------
(* The janitor.  A pass works on the list it read at its start.            *)

\* Janitor.Start's tick: deferred while a write is in flight.
BeginCacheSweep ==
    /\ ceJanitor.at = "idle"
    /\ \A p \in CacheJob : ceAt[p] # "insert"
    /\ Held # {}
    /\ ceJanitor' = [at |-> "expire", time |-> ceNow, list |-> Held, rows |-> [s \in Held |-> ceEntry[s]]]
    /\ ceSince' = {}
    /\ UNCHANGED <<ceNow, ceEntry, ceAt, ceReq>>

CacheListed == ceJanitor.list
IdleFor(s) == ceJanitor.time - ceJanitor.rows[s].used

\* ListCacheEntries: ORDER BY used_at.
LeastRecent(S) == {s \in S : \A t \in S : ceJanitor.rows[s].used <= ceJanitor.rows[t].used}

Evict(s) ==
    /\ ceEntry' = [ceEntry EXCEPT ![s] = NoEntry]
    /\ ceJanitor' = [ceJanitor EXCEPT !.list = @ \ {s}]

\* sweep, first loop: an entry unused for Keep goes; a delete that fails is
\* logged and the entry left.
EvictExpired ==
    /\ ceJanitor.at = "expire"
    /\ \E s \in LeastRecent(CacheListed) :
          /\ IdleFor(s) >= CacheKeep
          /\ \/ Evict(s)
             \/ ceJanitor' = [ceJanitor EXCEPT !.list = @ \ {s}] /\ UNCHANGED ceEntry
    /\ UNCHANGED <<ceNow, ceAt, ceReq, ceSince>>

\* The loop has seen the list; what it kept is relievePressure's.
EndExpiry ==
    /\ ceJanitor.at = "expire"
    /\ \A s \in CacheListed : IdleFor(s) < CacheKeep
    /\ ceJanitor' = [ceJanitor EXCEPT !.at = "pressure"]
    /\ UNCHANGED <<ceNow, ceEntry, ceAt, ceReq, ceSince>>

\* relievePressure, taking entries whatever their last use.
RelieveIgnoringGrace ==
    /\ ceJanitor.at = "pressure"
    /\ \E s \in LeastRecent(CacheListed) : Evict(s)
    /\ UNCHANGED <<ceNow, ceAt, ceReq, ceSince>>

\* relievePressure: while disk is low, the least recently used entry that is
\* out of its grace goes.
Relieve ==
    /\ ceJanitor.at = "pressure"
    /\ \E s \in LeastRecent({t \in CacheListed : IdleFor(t) >= PressureGrace}) : Evict(s)
    /\ UNCHANGED <<ceNow, ceAt, ceReq, ceSince>>

\* Disk is not low, cannot be read, or every entry left was used recently.
EndCacheSweep ==
    /\ ceJanitor.at = "pressure"
    /\ ceJanitor' = Resting
    /\ ceSince' = {}
    /\ UNCHANGED <<ceNow, ceEntry, ceAt, ceReq>>

CacheTick ==
    /\ ceNow < MaxCacheTime
    /\ ceNow' = ceNow + 1
    /\ UNCHANGED <<ceEntry, ceAt, ceReq, ceJanitor, ceSince>>

CacheNext ==
    \/ \E p \in CacheJob : BeginSave(p) \/ EndSave(p) \/ Find(p) \/ Get(p) \/ GiveUp(p)
    \/ BeginCacheSweep \/ EvictExpired \/ EndExpiry \/ Relieve \/ EndCacheSweep
    \/ CacheTick

CacheSpec == CacheInit /\ [][CacheNext]_ceVars

----------------------------------------------------------------------------
(* Properties.                                                             *)

\* Types of the table and the requests.
CacheTypeOK ==
    /\ ceNow \in 0..MaxCacheTime
    /\ ceEntry \in [CacheSlot -> CacheRow \cup {NoEntry}]
    /\ ceAt \in [CacheJob -> {"idle", "insert", "get"}]
    /\ ceReq \in [CacheJob -> [ref : CacheRef, key : CacheKey, body : CacheBody \cup {NoEntry},
                               found : CacheSlot \cup {NoEntry}, born : 0..MaxCacheTime]]
    /\ ceJanitor.at \in {"idle", "expire", "pressure"}
    /\ CacheListed \subseteq CacheSlot /\ ceSince \subseteq CacheSlot

\* The bytes under a key never change while the scope holds it: a job that
\* found an entry gets that entry's body or is told it is gone, never the
\* body of a save that was under way at the same time (PutCache).  Other bytes
\* come only with an entry saved after the found one was evicted.
RestoresWhatWasFound ==
    /\ CacheTypeOK
    /\ \A p \in CacheJob : ceAt[p] = "get" /\ ceReq[p].found \in Held =>
          \/ ceEntry[ceReq[p].found].body = ceReq[p].body
          \/ ceEntry[ceReq[p].found].created > ceReq[p].born

\* An entry the janitor takes was idle for the grace when the pass began,
\* unless a restore used it after the pass had listed it (sweep,
\* relievePressure against MarkCacheRead).
EvictionSparesTheUsed ==
    [][\A s \in Held : ceEntry'[s] = NoEntry =>
          \/ ceJanitor.time - ceEntry[s].used >= PressureGrace
          \/ s \in ceSince]_ceVars
============================================================================
