--------------------------- MODULE DashboardCache ---------------------------
(***************************************************************************)
(* The dashboard cache: concurrent HTTP requests that read a dashboard     *)
(* aggregate through two layers of Redis lookups (the use case and the     *)
(* CachedRecordRepository), concurrent requests that write a financial     *)
(* record and invalidate the cached aggregates before and after COMMIT,    *)
(* and requests that rename a category and invalidate nothing.             *)
(*                                                                         *)
(* An aggregate is a function of the committed records in its scope (one   *)
(* owner, or all of them) and, when it is the category totals, of the      *)
(* names of the categories.  It is abstracted to the number of commits     *)
(* that have touched each: version[s] and names.  A cached aggregate is    *)
(* stale when its scope has been written since it was computed, outdated   *)
(* when that or a rename has happened.                                     *)
(*                                                                         *)
(* Every await of the code is a boundary between two steps: one Redis      *)
(* command, one database statement or one COMMIT per action.               *)
(***************************************************************************)
EXTENDS Naturals, FiniteSets

CONSTANTS
    Users,      \* record owners, who are also the actors
    ReadAll,    \* actors holding records:read, who may ask for any scope
    Editors,    \* actors holding records:update and records:delete
    Global,     \* the scope of the aggregate over every owner
    Nobody,     \* no actor
    Kinds,      \* the dashboard queries exercised
    NoKey,      \* the key of a request that reads no aggregate
    NoEntry,    \* an absent Redis key
    Procs,      \* the slots for requests in flight, over all workers
    Settings    \* the circumstances of a behaviour that Init chooses from

AllKinds  == {"summary", "categories", "trends"}
ListKinds == {"categories", "trends"}

ASSUME UsersAssumption == Global \notin Users /\ Nobody \notin Users
ASSUME RightsAssumption == ReadAll \subseteq Users /\ Editors \subseteq Users
ASSUME KindsAssumption == Kinds \subseteq AllKinds

(* faults: which of "redis" (a command fails) and "crash" (a worker dies)  *)
(* happen; atOnce: the most requests in flight; kinds: the queries asked;  *)
(* writes and renames: bounds on the number of committed ones.             *)
ASSUME SettingsAssumption ==
    Settings \subseteq [faults : SUBSET {"redis", "crash"}, atOnce : Nat,
                       kinds : SUBSET Kinds, writes : Nat, renames : Nat]

Scopes == Users \cup {Global}
Keys   == Kinds \X Scopes
Named  == {k \in Keys : k[1] = "categories"}

ASSUME NoKeyAssumption == NoKey \notin Keys

Aggregate == [records : Nat, names : Nat]
Entry     == [data : Aggregate, at : Nat, ttl : BOOLEAN]

ASSUME NoEntryAssumption == NoEntry \notin Entry \cup Aggregate

VARIABLES
    setting,  \* the setting of this behaviour, fixed
    version,  \* [Scopes -> Nat] commits that touched the scope
    names,    \* the number of committed renames of categories
    cache,    \* [Keys -> Entry or NoEntry] the Redis keys dashboard:*
    pc,       \* the step each request is about to take
    key,      \* the key a reading request computes
    val,      \* the aggregate a reading request has in hand
    actor,    \* the actor of a writing request
    owner,    \* the owner of the record a writing request writes
    found,    \* the keys the KEYS commands of a writing request returned
    pinned,   \* readers of a key that were in flight when it was last set
    overlap   \* history: a read of the key overlapped a write of its scope

vars == <<setting, version, names, cache, pc, key, val, actor, owner, found,
          pinned, overlap>>

tableVars  == <<version, names>>
readerVars == <<key, val>>
writerVars == <<actor, owner, found>>

BeforeCommit == {"flush", "preUser", "preGlobal", "preDelete", "commit"}
AfterCommit  == {"postUser", "postGlobal", "postDelete"}
ReaderSteps  == {"ucGet", "repoGet", "dbRead", "repoSet", "ucSet"}
InHand       == {"repoSet", "ucSet"}
Steps        == {"idle", "rename"} \cup ReaderSteps \cup BeforeCommit \cup AfterCommit

Goto(p, from, to) ==
    /\ pc[p] = from
    /\ pc' = [pc EXCEPT ![p] = to]

ScopesOf(w)  == {owner[w], Global}
KeysOf(scope) == {k \in Keys : k[2] = scope}
Present      == {k \in Keys : cache[k] # NoEntry}
Flaky        == "redis" \in setting.faults
Busy         == {q \in Procs : pc[q] # "idle"}

Nothing      == [records |-> 0, names |-> 0]

(* What a database query for key k returns, were it run now.               *)
Current(k) == [records |-> version[k[2]],
               names   |-> IF k \in Named THEN names ELSE 0]

(* setex(key, CACHE_TTL, value): the value, with an expiry.  `at' is a     *)
(* history field: the version of the scope at the moment of the SET.       *)
Fill(k, v) == [data |-> v, at |-> version[k[2]], ttl |-> TRUE]

InFlight(k) == {q \in Procs : key[q] = k /\ pc[q] \in ReaderSteps}

Init ==
    /\ setting \in Settings
    /\ version = [s \in Scopes |-> 0]
    /\ names   = 0
    /\ cache   = [k \in Keys |-> NoEntry]
    /\ pc      = [p \in Procs |-> "idle"]
    /\ key     = [p \in Procs |-> NoKey]
    /\ val     = [p \in Procs |-> Nothing]
    /\ actor   = [p \in Procs |-> Nobody]
    /\ owner   = [p \in Procs |-> Nobody]
    /\ found   = [p \in Procs |-> {}]
    /\ pinned  = [k \in Keys |-> {}]
    /\ overlap = [k \in Keys |-> FALSE]

-----------------------------------------------------------------------------
(* Reading an aggregate.                                                   *)

(* Variant: the scope is left unset for callers without records:read.      *)
ScopeForUnset(a, requested) == IF a \in ReadAll THEN requested ELSE Nobody

(* Callers without records:read are always scoped to their own data.       *)
ScopeFor(a, requested) == IF a \in ReadAll THEN requested ELSE a

BeginRead(p, kind) ==
    /\ kind \in setting.kinds
    /\ Goto(p, "idle", "ucGet")
    /\ \E a \in Users, requested \in Scopes :
          key' = [key EXCEPT ![p] = <<kind, ScopeFor(a, requested)>>]
    /\ UNCHANGED <<tableVars, cache, val, writerVars, pinned, overlap>>

BeginSummary(p) == BeginRead(p, "summary")
BeginCategoryTotals(p) == BeginRead(p, "categories")
BeginTrends(p) == BeginRead(p, "trends")

EndRead(p) ==
    /\ key' = [key EXCEPT ![p] = NoKey]
    /\ val' = [val EXCEPT ![p] = Nothing]

(* Variant: a hit is stored again, which restarts its expiry.              *)
UcHitSliding(p) ==
    /\ Goto(p, "ucGet", "ucSet")
    /\ cache[key[p]] # NoEntry
    /\ val' = [val EXCEPT ![p] = cache[key[p]].data]
    /\ UNCHANGED <<tableVars, cache, key, writerVars, pinned, overlap>>

(* The use case's own lookup: a hit is returned to the caller as it is.    *)
UcHit(p) ==
    /\ Goto(p, "ucGet", "idle")
    /\ cache[key[p]] # NoEntry
    /\ EndRead(p)
    /\ pinned' = [k \in Keys |-> pinned[k] \ {p}]
    /\ UNCHANGED <<tableVars, cache, writerVars, overlap>>

UcMiss(p) ==
    /\ Goto(p, "ucGet", "repoGet")
    /\ cache[key[p]] = NoEntry \/ Flaky
    /\ UNCHANGED <<tableVars, cache, readerVars, writerVars, pinned, overlap>>

(* The repository decorator looks the same key up again.  A hit there goes *)
(* back through the use case, which stores it a second time.               *)
RepoHit(p) ==
    /\ Goto(p, "repoGet", "ucSet")
    /\ cache[key[p]] # NoEntry
    /\ val' = [val EXCEPT ![p] = cache[key[p]].data]
    /\ overlap' = [overlap EXCEPT ![key[p]] = @ \/
          \E w \in Procs : pc[w] \in AfterCommit /\ key[p][2] \in ScopesOf(w)]
    /\ UNCHANGED <<tableVars, cache, key, writerVars, pinned>>

(* An empty list is falsy in `if cached:', so a list query may miss here   *)
(* on a key that is present.                                               *)
RepoMiss(p) ==
    /\ Goto(p, "repoGet", "dbRead")
    /\ \/ cache[key[p]] = NoEntry
       \/ key[p][1] \in ListKinds
       \/ Flaky
    /\ UNCHANGED <<tableVars, cache, readerVars, writerVars, pinned, overlap>>

(* Variant: the read sees the rows that open transactions have flushed.    *)
DbReadDirty(p) ==
    /\ Goto(p, "dbRead", "repoSet")
    /\ val' = [val EXCEPT ![p] = [Current(key[p]) EXCEPT !.records = @ +
          Cardinality({w \in Procs : /\ pc[w] \in BeforeCommit \ {"flush"}
                                     /\ key[p][2] \in ScopesOf(w)})]]
    /\ UNCHANGED <<tableVars, cache, key, writerVars, pinned, overlap>>

(* One aggregation statement under READ COMMITTED; the category totals     *)
(* join the table of categories for their names.                           *)
DbRead(p) ==
    /\ Goto(p, "dbRead", "repoSet")
    /\ val' = [val EXCEPT ![p] = Current(key[p])]
    /\ UNCHANGED <<tableVars, cache, key, writerVars, pinned, overlap>>

RepoSet(p) ==
    /\ Goto(p, "repoSet", "ucSet")
    /\ \/ /\ cache' = [cache EXCEPT ![key[p]] = Fill(key[p], val[p])]
          /\ pinned' = [pinned EXCEPT ![key[p]] = InFlight(key[p])]
       \/ Flaky /\ UNCHANGED <<cache, pinned>>
    /\ UNCHANGED <<tableVars, readerVars, writerVars, overlap>>

UcSet(p) ==
    /\ Goto(p, "ucSet", "idle")
    /\ \/ /\ cache' = [cache EXCEPT ![key[p]] = Fill(key[p], val[p])]
          /\ pinned' = [pinned EXCEPT ![key[p]] = InFlight(key[p]) \ {p}]
       \/ /\ Flaky
          /\ pinned' = [k \in Keys |-> pinned[k] \ {p}]
          /\ UNCHANGED cache
    /\ EndRead(p)
    /\ UNCHANGED <<tableVars, writerVars, overlap>>

-----------------------------------------------------------------------------
(* Writing a record.  The guards that end a request before it has changed  *)
(* anything (record not found, inactive category, not the owner) are the   *)
(* absence of the Begin step.                                              *)

Uncommitted == {w \in Procs : pc[w] \in BeforeCommit}

BeginWrite(p, a, o) ==
    /\ version[Global] + Cardinality(Uncommitted) < setting.writes
    /\ Goto(p, "idle", "flush")
    /\ actor' = [actor EXCEPT ![p] = a]
    /\ owner' = [owner EXCEPT ![p] = o]
    /\ UNCHANGED <<tableVars, cache, readerVars, found, pinned, overlap>>

BeginCreate(p) == \E a \in Users : BeginWrite(p, a, a)

BeginUpdate(p) ==
    \E a, o \in Users : (a \in Editors \/ o = a) /\ BeginWrite(p, a, o)

BeginDelete(p) ==
    \E a, o \in Users : (a \in Editors \/ o = a) /\ BeginWrite(p, a, o)

EndWrite(p) ==
    /\ actor' = [actor EXCEPT ![p] = Nobody]
    /\ owner' = [owner EXCEPT ![p] = Nobody]
    /\ found' = [found EXCEPT ![p] = {}]

(* The INSERT or UPDATE reaches the database inside the open transaction.  *)
Flush(p) ==
    /\ Goto(p, "flush", "preUser")
    /\ UNCHANGED <<tableVars, cache, readerVars, writerVars, pinned, overlap>>

(* KEYS dashboard:*:scope:*, whose failure returns the empty list.         *)
ListKeys(p, scope) ==
    /\ \/ found' = [found EXCEPT ![p] = @ \cup (KeysOf(scope) \cap Present)]
       \/ Flaky /\ UNCHANGED found
    /\ UNCHANGED <<tableVars, cache, readerVars, actor, owner, pinned, overlap>>

(* DELETE of the keys found, whose failure leaves them all.                *)
DeleteFound(p) ==
    \/ /\ cache' = [k \in Keys |-> IF k \in found[p] THEN NoEntry ELSE cache[k]]
       /\ pinned' = [k \in Keys |-> IF k \in found[p] THEN {} ELSE pinned[k]]
    \/ Flaky /\ UNCHANGED <<cache, pinned>>

(* Variant: the repository, too, invalidates the actor's keys.             *)
PreListActor(p) == Goto(p, "preUser", "preGlobal") /\ ListKeys(p, actor[p])

(* CachedRecordRepository._invalidate: the OWNER's keys, before COMMIT.    *)
PreListUser(p) == Goto(p, "preUser", "preGlobal") /\ ListKeys(p, owner[p])
PreListGlobal(p) == Goto(p, "preGlobal", "preDelete") /\ ListKeys(p, Global)

PreDelete(p) ==
    /\ Goto(p, "preDelete", "commit")
    /\ DeleteFound(p)
    /\ found' = [found EXCEPT ![p] = {}]
    /\ UNCHANGED <<tableVars, readerVars, actor, owner, overlap>>

(* Variant: nothing is invalidated after COMMIT.                           *)
CommitAndReturn(p) ==
    /\ Goto(p, "commit", "idle")
    /\ version' = [s \in Scopes |->
                     version[s] + IF s \in ScopesOf(p) THEN 1 ELSE 0]
    /\ EndWrite(p)
    /\ overlap' = [k \in Keys |-> overlap[k] \/
                     (/\ k[2] \in ScopesOf(p)
                      /\ \E q \in Procs : key[q] = k /\ pc[q] \in InHand)]
    /\ UNCHANGED <<names, cache, readerVars, pinned>>

(* The audit row is flushed and the transaction commits.                   *)
Commit(p) ==
    /\ Goto(p, "commit", "postUser")
    /\ version' = [s \in Scopes |->
                     version[s] + IF s \in ScopesOf(p) THEN 1 ELSE 0]
    /\ overlap' = [k \in Keys |-> overlap[k] \/
                     (/\ k[2] \in ScopesOf(p)
                      /\ \E q \in Procs : key[q] = k /\ pc[q] \in InHand)]
    /\ UNCHANGED <<names, cache, readerVars, writerVars, pinned>>

(* Variant: the aggregates over all owners are left out.                   *)
PostListNoGlobal(p) ==
    Goto(p, "postGlobal", "postDelete") /\ ListKeys(p, actor[p])

(* The use case's _invalidate_cache: the ACTOR's keys, after COMMIT.       *)
PostListUser(p) == Goto(p, "postUser", "postGlobal") /\ ListKeys(p, actor[p])
PostListGlobal(p) == Goto(p, "postGlobal", "postDelete") /\ ListKeys(p, Global)

PostDelete(p) ==
    /\ Goto(p, "postDelete", "idle")
    /\ DeleteFound(p)
    /\ EndWrite(p)
    /\ UNCHANGED <<tableVars, readerVars, overlap>>

-----------------------------------------------------------------------------
(* Renaming a category: a COMMIT that changes a name, be it the one asked  *)
(* for or an old one written back (EntityUpdates).  What the transaction   *)
(* does before is seen by nobody here, and after the COMMIT no dashboard   *)
(* key is invalidated, the category totals included.                       *)

Renaming == {w \in Procs : pc[w] = "rename"}

BeginRename(p) ==
    /\ names + Cardinality(Renaming) < setting.renames
    /\ Goto(p, "idle", "rename")
    /\ UNCHANGED <<tableVars, cache, readerVars, writerVars, pinned, overlap>>

CommitRename(p) ==
    /\ Goto(p, "rename", "idle")
    /\ names' = names + 1
    /\ UNCHANGED <<version, cache, readerVars, writerVars, pinned, overlap>>

(* Any exception before COMMIT: __aexit__ rolls the transaction back.      *)
RollBack(p) ==
    /\ pc[p] \in BeforeCommit \cup {"rename"}
    /\ pc' = [pc EXCEPT ![p] = "idle"]
    /\ EndWrite(p)
    /\ UNCHANGED <<tableVars, cache, readerVars, pinned, overlap>>

-----------------------------------------------------------------------------
(* The environment.                                                        *)

(* A worker process dies: its request is lost and the database rolls its   *)
(* open transaction back.                                                  *)
Crash(p) ==
    /\ "crash" \in setting.faults
    /\ pc[p] # "idle"
    /\ pc' = [pc EXCEPT ![p] = "idle"]
    /\ EndRead(p)
    /\ EndWrite(p)
    /\ pinned' = [k \in Keys |-> pinned[k] \ {p}]
    /\ UNCHANGED <<tableVars, cache, overlap>>

(* Redis expires a key CACHE_TTL (300 s) after its last SET.  A request    *)
(* lasts less than that, so those in flight at the SET have ended by then. *)
Expire(k) ==
    /\ cache[k] # NoEntry
    /\ cache[k].ttl
    /\ pinned[k] = {}
    /\ cache' = [cache EXCEPT ![k] = NoEntry]
    /\ UNCHANGED <<tableVars, pc, readerVars, writerVars, pinned, overlap>>

Read(p) ==
    \/ UcHit(p) \/ UcMiss(p) \/ RepoHit(p) \/ RepoMiss(p)
    \/ DbRead(p) \/ RepoSet(p) \/ UcSet(p)

Write(p) ==
    \/ Flush(p) \/ PreListUser(p) \/ PreListGlobal(p) \/ PreDelete(p)
    \/ Commit(p) \/ PostListUser(p) \/ PostListGlobal(p) \/ PostDelete(p)
    \/ CommitRename(p)

Begin(p) ==
    \/ BeginSummary(p) \/ BeginCategoryTotals(p) \/ BeginTrends(p)
    \/ BeginCreate(p) \/ BeginUpdate(p) \/ BeginDelete(p) \/ BeginRename(p)

(* A request begins while fewer than setting.atOnce are in flight.         *)
Next ==
    /\ UNCHANGED setting
    /\ \/ \E p \in Procs : \/ Cardinality(Busy) < setting.atOnce /\ Begin(p)
                           \/ Read(p) \/ Write(p) \/ RollBack(p) \/ Crash(p)
       \/ \E k \in Keys : Expire(k)

Spec == Init /\ [][Next]_vars

(* A request that has begun runs to its end, and Redis expires keys; that  *)
(* requests arrive is not assumed.                                         *)
Fairness ==
    /\ \A p \in Procs : WF_vars(UNCHANGED setting /\ (Read(p) \/ Write(p)))
    /\ \A k \in Keys : WF_vars(UNCHANGED setting /\ Expire(k))

FairSpec == Spec /\ Fairness
-----------------------------------------------------------------------------
(* Properties.                                                             *)

TypeOK ==
    /\ setting \in Settings
    /\ version \in [Scopes -> Nat]
    /\ names   \in Nat
    /\ cache   \in [Keys -> Entry \cup {NoEntry}]
    /\ pc      \in [Procs -> Steps]
    /\ key     \in [Procs -> Keys \cup {NoKey}]
    /\ val     \in [Procs -> Aggregate]
    /\ actor   \in [Procs -> Users \cup {Nobody}]
    /\ owner   \in [Procs -> Users \cup {Nobody}]
    /\ found   \in [Procs -> SUBSET Keys]
    /\ pinned  \in [Keys -> SUBSET Procs]
    /\ overlap \in [Keys -> BOOLEAN]

(* The entry misses a committed write of a record; or that or a rename.    *)
Stale(k)    == cache[k] # NoEntry /\ cache[k].data.records < version[k[2]]
Outdated(k) == cache[k] # NoEntry /\ cache[k].data # Current(k)

(* Request w has committed and will still delete the entry now under k.    *)
StillInvalidating(w, k) ==
    \/ pc[w] = "postUser"   /\ k[2] \in {actor[w], Global}
    \/ pc[w] = "postGlobal" /\ (k[2] = Global \/ k \in found[w])
    \/ pc[w] = "postDelete" /\ k \in found[w]

(* Redis answers, and no worker dies.                                      *)
Calm == setting.faults = {}

(* The keys a writer invalidates after its COMMIT: those over all owners   *)
(* always, an owner's own when only owners write their records.            *)
Covered == {k \in Keys : k[2] = Global \/ Editors = {}}

(* No aggregate computed from uncommitted data is ever in a request's hand *)
(* or in Redis, although the cache is written while transactions that will *)
(* roll back are open (UoW rollback, cached_repo.py add/update).           *)
NoDirtyRead ==
    /\ \A k \in Keys : cache[k] # NoEntry =>
          /\ cache[k].data.records <= cache[k].at
          /\ cache[k].at <= version[k[2]]
          /\ cache[k].data.names <= Current(k).names
    /\ \A p \in Procs : pc[p] \in InHand =>
          /\ val[p].records <= version[key[p][2]]
          /\ val[p].names <= Current(key[p]).names

(* Invalidation after COMMIT is complete: an entry that was already in     *)
(* Redis when a write of its scope committed does not outlive that write's *)
(* request, whatever other requests set or delete between its KEYS and its *)
(* DELETE (create_record.py _invalidate_cache).                            *)
EntriesFollowWrites ==
    Calm => \A k \in Covered :
        cache[k] # NoEntry /\ cache[k].at < version[k[2]]
            => \E w \in Procs : StillInvalidating(w, k)

(* The only way a completed write leaves a stale aggregate behind is a     *)
(* read of the same key that overlapped it: one that had its value in hand *)
(* at the COMMIT, or hit the entry before the writer deleted it.           *)
OnlyOverlapLeavesStale ==
    Calm => \A k \in Covered :
        Stale(k) /\ ~overlap[k] => \E w \in Procs : StillInvalidating(w, k)

(* With one request at a time no entry ever misses a committed write of a  *)
(* record, not even between the COMMIT and the invalidation after it or if *)
(* a worker dies there.  That is what invalidating the owner's keys before *)
(* COMMIT is for: the invalidation after COMMIT leaves the owner of        *)
(* another's record out.  Of the names in the category totals it says      *)
(* nothing: a rename leaves them as they were stored.                      *)
NoWriteMissed == setting.atOnce <= 1 /\ ~Flaky => \A k \in Keys : ~Stale(k)

(* Once writes and renames stop, those that roll back too, overlapping     *)
(* readers can store an outdated aggregate again for a while (the use      *)
(* case's second SET), but not for ever: every key is finally absent or    *)
(* current, in its totals and its names.  CACHE_TTL is the backstop for    *)
(* every race, and all there is against a rename.                          *)
NoWriter ==
    \A p \in Procs : pc[p] \notin BeforeCommit \cup AfterCommit \cup {"rename"}
EventuallyFresh == Calm /\ <>[]NoWriter => <>[](\A k \in Keys : ~Outdated(k))

(* To callers it is a cache of committed data, whatever interleaves or     *)
(* fails: an entry is stored as of a version and of names that its scope   *)
(* has reached.  With one request at a time it is exact: a value is stored *)
(* only while it is current, and the COMMIT of a record finds no entry of  *)
(* the scopes it moves on, which is what CachedRecordRepository._invalidate *)
(* is for.  The COMMIT of a rename finds entries, and outdates them.       *)
Promise == INSTANCE ScopedCache WITH
    Absent <- NoEntry,
    exact  <- setting.atOnce <= 1 /\ ~Flaky,
    data   <- [k \in Keys |-> IF cache[k] = NoEntry THEN NoEntry ELSE cache[k].data]
ImplementsScopedCache == Promise!Spec

(* CACHE_TTL outlasts the requests in flight when an entry was last set:   *)
(* while Redis answers, an entry that expires is put back by nobody who    *)
(* had looked it up before it expired, only by a request that computes it  *)
(* anew (UcSet and RepoSet after DbRead), so a stale one does not return.  *)
PastLookup == ReaderSteps \ {"ucGet"}
ExpiryIsFinal ==
    [][\A k \in Keys : ~Flaky /\ Expire(k) =>
          \A p \in Procs : key[p] = k => pc[p] \notin PastLookup]_vars
=============================================================================
