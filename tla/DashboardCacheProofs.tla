------------------------ MODULE DashboardCacheProofs ------------------------
(* Theorems about DashboardCache, for every number of users and requests.  *)
EXTENDS DashboardCache, FiniteSetTheorems, TLAPS

-----------------------------------------------------------------------------
(* Type correctness.                                                       *)

(* What a step finds in the local variables of its request.                *)
RequestOK ==
    \A p \in Procs :
        /\ pc[p] \in ReaderSteps => key[p] \in Keys
        /\ pc[p] \in BeforeCommit \cup AfterCommit =>
              actor[p] \in Users /\ owner[p] \in Users

TypeInv == TypeOK /\ RequestOK

(* The setting of a behaviour never changes.                               *)
LEMMA SettingFixed == [Next]_vars => setting' = setting
  BY DEF Next, vars

LEMMA InitTypeInv == Init => TypeInv
  BY DEF Init, TypeInv, TypeOK, RequestOK, Steps, ReaderSteps, BeforeCommit,
         AfterCommit, Nothing, Aggregate

(* Every step keeps the variables in their types and gives each request    *)
(* the key or the record its next step needs.                              *)
LEMMA NextTypeInv == TypeInv /\ [Next]_vars => TypeInv'
<1> SUFFICES ASSUME TypeInv, [Next]_vars, setting' = setting PROVE TypeInv'
  BY SettingFixed
<1> USE DEF TypeInv, TypeOK, RequestOK, Steps, ReaderSteps, BeforeCommit,
            AfterCommit, Goto, readerVars, writerVars, tableVars
<1>1. ASSUME NEW p \in Procs, Begin(p) PROVE TypeInv'
  <2>1. ASSUME NEW kind, BeginRead(p, kind) PROVE TypeInv'
    <3>1. PICK a \in Users, requested \in Scopes :
            key' = [key EXCEPT ![p] = <<kind, ScopeFor(a, requested)>>]
      BY <2>1 DEF BeginRead
    <3>2. <<kind, ScopeFor(a, requested)>> \in Keys
      BY <2>1, SettingsAssumption DEF BeginRead, ScopeFor, Keys, Scopes
    <3>3. QED
      BY <2>1, <3>1, <3>2 DEF BeginRead
  <2>2. ASSUME NEW a \in Users, NEW o \in Users, BeginWrite(p, a, o)
        PROVE  TypeInv'
    BY <2>2 DEF BeginWrite
  <2>3. QED
    BY <1>1, <2>1, <2>2 DEF Begin, BeginSummary, BeginCategoryTotals,
         BeginTrends, BeginCreate, BeginUpdate, BeginDelete, BeginRename
<1>2. ASSUME NEW p \in Procs, Read(p) PROVE TypeInv'
  <2> USE DEF EndRead, Nothing, Aggregate
  <2>1. ASSUME pc[p] \in ReaderSteps
        PROVE  /\ key[p] \in Keys
               /\ key[p][2] \in Scopes
               /\ Fill(key[p], val[p]) \in Entry
               /\ Current(key[p]) \in Aggregate
               /\ cache[key[p]] # NoEntry => cache[key[p]].data \in Aggregate
    BY <2>1 DEF Keys, Fill, Entry, Current, Aggregate
  <2>2. CASE UcHit(p)
    BY <2>2 DEF UcHit
  <2>3. CASE UcMiss(p)
    BY <2>3 DEF UcMiss
  <2>4. CASE RepoHit(p)
    BY <2>1, <2>4 DEF RepoHit
  <2>5. CASE RepoMiss(p)
    BY <2>5 DEF RepoMiss
  <2>6. CASE DbRead(p)
    BY <2>1, <2>6 DEF DbRead
  <2>7. CASE RepoSet(p)
    BY <2>1, <2>7 DEF RepoSet, InFlight
  <2>8. CASE UcSet(p)
    <3>1. /\ pc' = [pc EXCEPT ![p] = "idle"] /\ key' = [key EXCEPT ![p] = NoKey]
          /\ UNCHANGED <<actor, owner>>
      BY <2>8 DEF UcSet
    <3>2. TypeOK'
      BY <2>1, <2>8 DEF UcSet, InFlight
    <3>3. RequestOK'
      BY <3>1
    <3>4. QED
      BY <3>2, <3>3
  <2>9. QED
    BY <1>2, <2>2, <2>3, <2>4, <2>5, <2>6, <2>7, <2>8 DEF Read
<1>3. ASSUME NEW p \in Procs, Write(p) PROVE TypeInv'
  <2> USE DEF EndWrite, ListKeys, DeleteFound, KeysOf, Present
  <2>1. CASE Flush(p)
    BY <2>1 DEF Flush
  <2>2. CASE PreListUser(p)
    BY <2>2 DEF PreListUser
  <2>3. CASE PreListGlobal(p)
    BY <2>3 DEF PreListGlobal
  <2>4. CASE PreDelete(p)
    BY <2>4 DEF PreDelete
  <2>5. CASE Commit(p)
    BY <2>5 DEF Commit
  <2>6. CASE PostListUser(p)
    BY <2>6 DEF PostListUser
  <2>7. CASE PostListGlobal(p)
    BY <2>7 DEF PostListGlobal
  <2>8. CASE PostDelete(p)
    BY <2>8 DEF PostDelete
  <2>9. CASE CommitRename(p)
    BY <2>9 DEF CommitRename
  <2>10. QED
    BY <1>3, <2>1, <2>2, <2>3, <2>4, <2>5, <2>6, <2>7, <2>8, <2>9 DEF Write
<1>4. ASSUME NEW p \in Procs, RollBack(p) PROVE TypeInv'
  BY <1>4 DEF RollBack, EndWrite
<1>5. ASSUME NEW p \in Procs, Crash(p) PROVE TypeInv'
  BY <1>5 DEF Crash, EndRead, EndWrite, Nothing, Aggregate
<1>6. ASSUME NEW k \in Keys, Expire(k) PROVE TypeInv'
  BY <1>6 DEF Expire
<1>7. CASE UNCHANGED vars
  BY <1>7 DEF vars
<1>8. QED
  BY <1>1, <1>2, <1>3, <1>4, <1>5, <1>6, <1>7 DEF Next

(* Every variable keeps its type, whatever requests, faults and expiries   *)
(* interleave.                                                             *)
THEOREM TypeCorrect == Spec => []TypeOK
<1>1. TypeInv => TypeOK
  BY DEF TypeInv
<1>2. QED
  BY <1>1, InitTypeInv, NextTypeInv, PTL DEF Spec

-----------------------------------------------------------------------------
(* No dirty read.                                                          *)

LEMMA KeyFacts ==
  ASSUME TypeInv
  PROVE  /\ names \in Nat
         /\ \A k \in Keys : k[2] \in Scopes /\ version[k[2]] \in Nat
         /\ \A k \in Keys : /\ Current(k) \in Aggregate
                            /\ Current(k).records = version[k[2]]
                            /\ Current(k).names = IF k \in Named THEN names ELSE 0
         /\ \A k \in Keys : cache[k] # NoEntry =>
               /\ cache[k] \in Entry
               /\ cache[k].data \in Aggregate /\ cache[k].at \in Nat
         /\ \A k \in Keys, v \in Aggregate :
               /\ Fill(k, v) # NoEntry
               /\ Fill(k, v).data = v
               /\ Fill(k, v).at = version[k[2]]
         /\ \A p \in Procs : pc[p] \in ReaderSteps => key[p] \in Keys
         /\ \A p \in Procs : val[p] \in Aggregate
         /\ \A v \in Aggregate : v.records \in Nat /\ v.names \in Nat
<1>1. names \in Nat /\ \A k \in Keys : k[2] \in Scopes /\ version[k[2]] \in Nat
  BY DEF TypeInv, TypeOK, Keys
<1>2. \A k \in Keys : /\ Current(k) \in Aggregate
                     /\ Current(k).records = version[k[2]]
                     /\ Current(k).names = IF k \in Named THEN names ELSE 0
  BY <1>1 DEF Current, Aggregate
<1>3. \A k \in Keys : cache[k] # NoEntry =>
         /\ cache[k] \in Entry
         /\ cache[k].data \in Aggregate /\ cache[k].at \in Nat
  BY DEF TypeInv, TypeOK, Entry
<1>4. ASSUME NEW k \in Keys, NEW v \in Aggregate
      PROVE  /\ Fill(k, v) # NoEntry
             /\ Fill(k, v).data = v
             /\ Fill(k, v).at = version[k[2]]
  <2>1. Fill(k, v) \in Entry
    BY <1>1 DEF Fill, Entry
  <2>2. QED
    BY <2>1, NoEntryAssumption DEF Fill
<1>5. /\ \A p \in Procs : pc[p] \in ReaderSteps => key[p] \in Keys
      /\ \A p \in Procs : val[p] \in Aggregate
  BY DEF TypeInv, TypeOK, RequestOK
<1>6. \A v \in Aggregate : v.records \in Nat /\ v.names \in Nat
  BY DEF Aggregate
<1>7. QED
  BY <1>1, <1>2, <1>3, <1>4, <1>5, <1>6

(* Moving a version or the names on leaves what was stored before clean.   *)
LEMMA VersionsGrow ==
  ASSUME TypeInv, TypeInv', NoDirtyRead, UNCHANGED <<cache, key, val>>,
         \A q \in Procs : pc'[q] \in InHand => pc[q] \in InHand,
         names <= names', \A s \in Scopes : version[s] <= version'[s]
  PROVE  NoDirtyRead'
<1>1. version' \in [Scopes -> Nat] /\ names' \in Nat
  BY DEF TypeInv, TypeOK
<1>2. \A k \in Keys : /\ version[k[2]] <= version'[k[2]] /\ version'[k[2]] \in Nat
                     /\ Current(k).names <= Current(k)'.names
                     /\ Current(k)'.names \in Nat
  BY <1>1, KeyFacts DEF Current
<1>3. ASSUME NEW k \in Keys, cache'[k] # NoEntry
      PROVE  /\ cache'[k].data.records <= cache'[k].at
             /\ cache'[k].at <= version'[k[2]]
             /\ cache'[k].data.names <= Current(k)'.names
  <2>1. /\ cache[k].data.records <= cache[k].at /\ cache[k].at <= version[k[2]]
        /\ cache[k].data.names <= Current(k).names
    BY <1>3 DEF NoDirtyRead
  <2>2. QED
    BY <1>2, <1>3, <2>1, KeyFacts DEF Aggregate
<1>4. ASSUME NEW q \in Procs, pc'[q] \in InHand
      PROVE  /\ val'[q].records <= version'[key'[q][2]]
             /\ val'[q].names <= Current(key[q])'.names
  <2>1. key[q] \in Keys /\ pc[q] \in InHand
    BY <1>4, KeyFacts DEF InHand, ReaderSteps
  <2>2. PICK k \in Keys : k = key[q]
    BY <2>1
  <2>3. val[q].records <= version[k[2]] /\ val[q].names <= Current(k).names
    BY <2>1, <2>2 DEF NoDirtyRead
  <2>4. val[q].records <= version'[k[2]] /\ val[q].names <= Current(k)'.names
    BY <1>2, <2>3, KeyFacts
  <2>5. Current(k)' = Current(key[q])'
    BY <2>2
  <2>6. QED
    BY <2>2, <2>4, <2>5
<1>5. QED
  BY <1>3, <1>4 DEF NoDirtyRead

(* The invariant is inductive together with the types: a value enters a    *)
(* request's hand from the committed version or from an entry that is      *)
(* itself no newer than the committed version, and versions and names only *)
(* grow.                                                                   *)
LEMMA NextNoDirtyRead ==
  TypeInv /\ NoDirtyRead /\ [Next]_vars => NoDirtyRead'
<1> SUFFICES ASSUME TypeInv, NoDirtyRead, [Next]_vars PROVE NoDirtyRead'
  OBVIOUS
<1>f. TypeInv'
  BY NextTypeInv
<1> USE KeyFacts DEF NoDirtyRead, Current, InHand, Goto, readerVars, writerVars, tableVars
<1>t. /\ cache \in [Keys -> Entry \cup {NoEntry}] /\ pc \in [Procs -> Steps]
      /\ val \in [Procs -> Aggregate] /\ key \in [Procs -> Keys \cup {NoKey}]
      /\ version \in [Scopes -> Nat]
  BY DEF TypeInv, TypeOK
<1>1. ASSUME NEW p \in Procs, Begin(p) PROVE NoDirtyRead'
  BY <1>1, <1>t DEF Begin, BeginSummary, BeginCategoryTotals, BeginTrends,
     BeginRead, BeginCreate, BeginUpdate, BeginDelete, BeginWrite, BeginRename
<1>2. ASSUME NEW p \in Procs, Read(p) PROVE NoDirtyRead'
  <2> USE <1>t DEF EndRead, ReaderSteps
  <2>1. CASE UcHit(p)
    BY <2>1 DEF UcHit
  <2>2. CASE UcMiss(p)
    BY <2>2 DEF UcMiss
  <2>3. CASE RepoHit(p)
    BY <2>3 DEF RepoHit
  <2>4. CASE RepoMiss(p)
    BY <2>4 DEF RepoMiss
  <2>5. CASE DbRead(p)
    BY <2>5 DEF DbRead
  <2>6. CASE RepoSet(p)
    BY <2>6 DEF RepoSet
  <2>7. CASE UcSet(p)
    BY <2>7 DEF UcSet
  <2>8. QED
    BY <1>2, <2>1, <2>2, <2>3, <2>4, <2>5, <2>6, <2>7 DEF Read
<1>3. ASSUME NEW p \in Procs, Write(p) PROVE NoDirtyRead'
  <2> USE <1>t
  <2>1. CASE Commit(p)
    <3>1. /\ cache' = cache /\ key' = key /\ val' = val
          /\ \A q \in Procs : pc'[q] \in InHand => pc[q] \in InHand
          /\ names' = names /\ \A s \in Scopes : version[s] <= version'[s]
      BY <2>1 DEF Commit
    <3>2. QED
      BY <1>f, <3>1, VersionsGrow
  <2>2. CASE PreDelete(p) \/ PostDelete(p)
    <3>1. /\ UNCHANGED <<version, names, key, val>>
          /\ \A k \in Keys : cache'[k] = NoEntry \/ cache'[k] = cache[k]
          /\ \A q \in Procs : pc'[q] \in InHand => pc[q] \in InHand
      BY <2>2 DEF PreDelete, PostDelete, DeleteFound
    <3>2. \A k \in Keys : Current(k)' = Current(k)
      BY <3>1
    <3>3. QED
      BY ONLY NoDirtyRead, <3>1, <3>2 DEF NoDirtyRead, Current
  <2>3. CASE CommitRename(p)
    <3>1. /\ cache' = cache /\ key' = key /\ val' = val
          /\ \A q \in Procs : pc'[q] \in InHand => pc[q] \in InHand
          /\ names <= names' /\ version' = version
      BY <2>3 DEF CommitRename
    <3>2. QED
      BY <1>f, <1>t, <3>1, VersionsGrow
  <2>4. CASE ~Commit(p) /\ ~PreDelete(p) /\ ~PostDelete(p) /\ ~CommitRename(p)
    BY <1>3, <2>4 DEF Write, Flush, PreListUser, PreListGlobal, PostListUser,
       PostListGlobal, ListKeys
  <2>5. QED
    BY <2>1, <2>2, <2>3, <2>4
<1>4. ASSUME NEW p \in Procs, RollBack(p) \/ Crash(p) PROVE NoDirtyRead'
  BY <1>4, <1>t DEF RollBack, Crash, EndRead, EndWrite
<1>5. ASSUME NEW k \in Keys, Expire(k) PROVE NoDirtyRead'
  BY <1>5, <1>t DEF Expire
<1>6. CASE UNCHANGED vars
  BY <1>6 DEF vars
<1>7. QED
  BY <1>1, <1>2, <1>3, <1>4, <1>5, <1>6 DEF Next

(* Redis never holds, and no request ever has in hand, an aggregate of     *)
(* data that had not committed.                                            *)
THEOREM NoDirtyReads == Spec => []NoDirtyRead
<1>1. Init => NoDirtyRead
  BY DEF Init, NoDirtyRead, InHand
<1>2. QED
  BY <1>1, InitTypeInv, NextTypeInv, NextNoDirtyRead, PTL DEF Spec

-----------------------------------------------------------------------------
(* Invalidation after COMMIT.                                              *)

(* What a writing request has found so far, and, where nobody may write    *)
(* another owner's record, that the actor is the owner.                    *)
WriterOK ==
    \A p \in Procs :
        /\ pc[p] \in {"flush", "preUser", "commit", "postUser"} => found[p] = {}
        /\ pc[p] \in AfterCommit =>
              \A k \in found[p] : k[2] \in {actor[p], Global}
        /\ Editors = {} => owner[p] = actor[p]
        /\ pc[p] \in ReaderSteps \cup {"idle", "rename"} => found[p] = {}

LEMMA NextWriterOK == TypeInv /\ WriterOK /\ [Next]_vars => WriterOK'
<1> SUFFICES ASSUME TypeInv, WriterOK, [Next]_vars PROVE WriterOK'
  OBVIOUS
<1> USE DEF WriterOK, Goto, readerVars, writerVars, tableVars, AfterCommit, ReaderSteps
<1>t. /\ pc \in [Procs -> Steps]
      /\ actor \in [Procs -> Users \cup {Nobody}]
      /\ owner \in [Procs -> Users \cup {Nobody}]
      /\ found \in [Procs -> SUBSET Keys]
  BY DEF TypeInv, TypeOK
<1>1. ASSUME NEW p \in Procs, Begin(p) PROVE WriterOK'
  BY <1>1, <1>t DEF Begin, BeginSummary, BeginCategoryTotals, BeginTrends,
     BeginRead, BeginCreate, BeginUpdate, BeginDelete, BeginWrite, BeginRename
<1>2. ASSUME NEW p \in Procs, Read(p) PROVE WriterOK'
  BY <1>2, <1>t DEF Read, UcHit, UcMiss, RepoHit, RepoMiss, DbRead, RepoSet,
     UcSet
<1>3. ASSUME NEW p \in Procs, Write(p) PROVE WriterOK'
  <2> USE <1>t DEF EndWrite, ListKeys, KeysOf
  <2>1. CASE Flush(p) \/ PreListUser(p) \/ PreListGlobal(p)
    BY <2>1 DEF Flush, PreListUser, PreListGlobal
  <2>2. CASE PreDelete(p) \/ Commit(p)
    BY <2>2 DEF PreDelete, Commit
  <2>3. CASE PostListUser(p)
    BY <2>3 DEF PostListUser
  <2>4. CASE PostListGlobal(p)
    BY <2>4 DEF PostListGlobal
  <2>5. CASE PostDelete(p) \/ CommitRename(p)
    BY <2>5 DEF PostDelete, CommitRename
  <2>6. QED
    BY <1>3, <2>1, <2>2, <2>3, <2>4, <2>5 DEF Write
<1>4. ASSUME NEW p \in Procs, RollBack(p) \/ Crash(p) PROVE WriterOK'
  BY <1>4, <1>t DEF RollBack, Crash, EndRead, EndWrite
<1>5. ASSUME NEW k \in Keys, Expire(k) PROVE WriterOK'
  BY <1>5 DEF Expire
<1>6. CASE UNCHANGED vars
  BY <1>6 DEF vars
<1>7. QED
  BY <1>1, <1>2, <1>3, <1>4, <1>5, <1>6 DEF Next

(* A request that will still delete the entry under a key goes on doing so *)
(* until the entry is gone, as long as no Redis command fails and no       *)
(* worker dies.                                                            *)
LEMMA InvalidationHolds ==
  ASSUME Calm, TypeInv, WriterOK, [Next]_vars,
         NEW k \in Covered, NEW w \in Procs, StillInvalidating(w, k),
         cache[k] # NoEntry
  PROVE  cache'[k] = NoEntry \/ StillInvalidating(w, k)'
<1> USE DEF StillInvalidating, Goto, readerVars, writerVars, tableVars, Flaky, Calm
<1>t. /\ k \in Keys /\ k \in Present /\ k \in KeysOf(k[2])
      /\ pc \in [Procs -> Steps]
      /\ actor \in [Procs -> Users \cup {Nobody}]
      /\ owner \in [Procs -> Users \cup {Nobody}]
      /\ found \in [Procs -> SUBSET Keys]
  BY DEF TypeInv, TypeOK, Covered, Present, KeysOf
<1>1. ASSUME NEW p \in Procs, Begin(p) PROVE StillInvalidating(w, k)'
  BY <1>1, <1>t DEF Begin, BeginSummary, BeginCategoryTotals, BeginTrends,
     BeginRead, BeginCreate, BeginUpdate, BeginDelete, BeginWrite, BeginRename
<1>2. ASSUME NEW p \in Procs, Read(p) PROVE StillInvalidating(w, k)'
  BY <1>2, <1>t DEF Read, UcHit, UcMiss, RepoHit, RepoMiss, DbRead, RepoSet,
     UcSet
<1>3. ASSUME NEW p \in Procs, Write(p)
      PROVE  cache'[k] = NoEntry \/ StillInvalidating(w, k)'
  <2> USE <1>t DEF ListKeys
  <2>1. CASE Flush(p) \/ PreListUser(p) \/ PreListGlobal(p) \/ Commit(p)
    BY <2>1 DEF Flush, PreListUser, PreListGlobal, Commit
  <2>2. CASE PreDelete(p)
    BY <2>2 DEF PreDelete, DeleteFound
  <2>3. CASE PostListUser(p)
    BY <2>3 DEF PostListUser
  <2>4. CASE PostListGlobal(p)
    BY <2>4 DEF PostListGlobal
  <2>5. CASE PostDelete(p) \/ CommitRename(p)
    BY <2>5 DEF PostDelete, DeleteFound, EndWrite, CommitRename
  <2>6. QED
    BY <1>3, <2>1, <2>2, <2>3, <2>4, <2>5 DEF Write
<1>4. ASSUME NEW p \in Procs, RollBack(p) PROVE StillInvalidating(w, k)'
  BY <1>4, <1>t DEF RollBack, EndWrite, BeforeCommit
<1>5. ASSUME NEW p \in Procs, Crash(p) PROVE FALSE
  BY <1>5 DEF Crash
<1>6. ASSUME NEW j \in Keys, Expire(j) PROVE StillInvalidating(w, k)'
  BY <1>6 DEF Expire
<1>7. CASE UNCHANGED vars
  BY <1>7 DEF vars
<1>8. QED
  BY <1>1, <1>2, <1>3, <1>4, <1>5, <1>6, <1>7 DEF Next

(* A step either leaves an entry and its scope's version alone, or removes *)
(* the entry, or sets it at the current version, or is a COMMIT.           *)
LEMMA EntrySteps ==
  ASSUME TypeInv, [Next]_vars, NEW k \in Keys
  PROVE  \/ cache'[k] = NoEntry
         \/ cache'[k] = cache[k] /\ version'[k[2]] = version[k[2]]
         \/ cache'[k].at = version'[k[2]]
         \/ \E p \in Procs : Commit(p)
<1> USE KeyFacts DEF Goto, readerVars, writerVars, tableVars
<1>t. cache \in [Keys -> Entry \cup {NoEntry}]
  BY DEF TypeInv, TypeOK
<1> DEFINE Goal == \/ cache'[k] = NoEntry
                   \/ cache'[k] = cache[k] /\ version'[k[2]] = version[k[2]]
                   \/ cache'[k].at = version'[k[2]]
<1>1. ASSUME NEW p \in Procs, Begin(p) \/ RollBack(p) \/ Crash(p) PROVE Goal
  BY <1>1 DEF Begin, BeginSummary, BeginCategoryTotals, BeginTrends,
     BeginRead, BeginCreate, BeginUpdate, BeginDelete, BeginWrite, BeginRename, RollBack,
     Crash
<1>2. ASSUME NEW p \in Procs, Read(p) PROVE Goal
  <2>1. CASE RepoSet(p)
    BY <2>1, <1>t DEF RepoSet, ReaderSteps
  <2>2. CASE UcSet(p)
    BY <2>2, <1>t DEF UcSet, ReaderSteps
  <2>3. QED
    BY <1>2, <2>1, <2>2 DEF Read, UcHit, UcMiss, RepoHit, RepoMiss, DbRead
<1>3. ASSUME NEW p \in Procs, Write(p), ~Commit(p) PROVE Goal
  BY <1>3 DEF Write, Flush, PreListUser, PreListGlobal, PreDelete,
     PostListUser, PostListGlobal, PostDelete, CommitRename, ListKeys, DeleteFound
<1>4. ASSUME NEW j \in Keys, Expire(j) PROVE Goal
  BY <1>4, <1>t DEF Expire
<1>5. CASE UNCHANGED vars
  BY <1>5 DEF vars
<1>6. QED
  BY <1>1, <1>2, <1>3, <1>4, <1>5 DEF Next

(* The committing request itself will delete the covered entries of the    *)
(* scopes it wrote, and no other scope changes its version.                *)
LEMMA CommitCovers ==
  ASSUME TypeInv, WriterOK, NEW p \in Procs, Commit(p), NEW k \in Covered
  PROVE  \/ version'[k[2]] = version[k[2]]
         \/ StillInvalidating(p, k)'
<1>1. k \in Keys /\ k[2] \in Scopes
  BY KeyFacts DEF Covered
<1>2. CASE k[2] \in ScopesOf(p)
  <2>1. k[2] \in {actor[p], Global}
    BY <1>2 DEF ScopesOf, Covered, WriterOK
  <2>2. pc'[p] = "postUser" /\ actor' = actor
    BY DEF Commit, Goto, TypeInv, TypeOK, writerVars
  <2>3. QED
    BY <2>1, <2>2 DEF StillInvalidating
<1>3. CASE k[2] \notin ScopesOf(p)
  BY <1>1, <1>3 DEF Commit, TypeInv, TypeOK
<1>4. QED
  BY <1>2, <1>3

LEMMA NextEntriesFollowWrites ==
  TypeInv /\ NoDirtyRead /\ WriterOK /\ EntriesFollowWrites /\ [Next]_vars
    => EntriesFollowWrites'
<1> SUFFICES ASSUME TypeInv, NoDirtyRead, WriterOK, EntriesFollowWrites,
                    [Next]_vars, Calm,
                    NEW k \in Covered, cache'[k] # NoEntry,
                    cache'[k].at < version'[k[2]]
             PROVE  \E w \in Procs : StillInvalidating(w, k)'
  BY SettingFixed DEF EntriesFollowWrites, Covered, Keys, Scopes, Calm
<1>1. k \in Keys
  BY DEF Covered
<1>2. TypeInv' /\ version'[k[2]] \in Nat
  BY <1>1, NextTypeInv, KeyFacts DEF TypeInv, TypeOK
<1>3. CASE \E w \in Procs : StillInvalidating(w, k)
  <2>1. PICK w \in Procs : StillInvalidating(w, k)
    BY <1>3
  <2>2. CASE cache[k] # NoEntry
    BY <2>1, <2>2, InvalidationHolds
  <2>3. CASE cache[k] = NoEntry
    BY <1>1, <1>2, <2>3, EntrySteps DEF Commit
  <2>4. QED
    BY <2>2, <2>3
<1>4. CASE ~ \E w \in Procs : StillInvalidating(w, k)
  <2>1. cache[k] = NoEntry \/ ~(cache[k].at < version[k[2]])
    BY <1>4 DEF EntriesFollowWrites
  <2>2. \/ cache'[k] # NoEntry /\ ~(cache'[k].at < version'[k[2]])
        \/ \E p \in Procs : Commit(p)
    BY <1>1, <1>2, <2>1, EntrySteps
  <2>3. PICK p \in Procs : Commit(p)
    BY <2>2
  <2>4. cache' = cache
    BY <2>3 DEF Commit
  <2>5. QED
    BY <2>1, <2>3, <2>4, CommitCovers
<1>5. QED
  BY <1>3, <1>4

(* In the absence of faults no covered entry outlives the request whose    *)
(* COMMIT it precedes, whatever the other requests do in between.          *)
THEOREM InvalidationComplete == Spec => []EntriesFollowWrites
<1>1. Init => NoDirtyRead /\ WriterOK /\ EntriesFollowWrites
  BY DEF Init, NoDirtyRead, InHand, WriterOK, EntriesFollowWrites, Covered,
         AfterCommit
<1>2. QED
  BY <1>1, InitTypeInv, NextTypeInv, NextNoDirtyRead, NextWriterOK,
     NextEntriesFollowWrites, PTL DEF Spec

-----------------------------------------------------------------------------
(* Overlap is the only source of stale aggregates.                         *)

(* In the absence of faults, and unless a read of the key has overlapped a *)
(* write, the values in the hands of its readers are current.              *)
HandsCurrent ==
    Calm => \A k \in Covered : ~overlap[k] =>
        \A q \in Procs : key[q] = k /\ pc[q] \in InHand
            => val[q].records = version[k[2]]

OverlapInv == HandsCurrent /\ OnlyOverlapLeavesStale

(* overlap is never reset.                                                 *)
LEMMA OverlapSteps ==
  ASSUME TypeInv, [Next]_vars, NEW k \in Keys, overlap[k]
  PROVE  overlap'[k]
<1>1. overlap \in [Keys -> BOOLEAN]
  BY DEF TypeInv, TypeOK
<1>2. ASSUME NEW p \in Procs, Begin(p) \/ Read(p) \/ Write(p) \/ RollBack(p)
                                \/ Crash(p)
      PROVE  overlap'[k]
  <2>1. CASE RepoHit(p)
    BY <1>1, <2>1 DEF RepoHit
  <2>2. CASE Commit(p)
    BY <1>1, <2>2 DEF Commit
  <2>3. CASE ~RepoHit(p) /\ ~Commit(p)
    BY <1>2, <2>3 DEF Begin, BeginSummary, BeginCategoryTotals, BeginTrends,
       BeginRead, BeginCreate, BeginUpdate, BeginDelete, BeginWrite, BeginRename, Read,
       UcHit, UcMiss, RepoMiss, DbRead, RepoSet, UcSet, Write, Flush,
       PreListUser, PreListGlobal, PreDelete, PostListUser, PostListGlobal,
       PostDelete, CommitRename, ListKeys, RollBack, Crash
  <2>4. QED
    BY <2>1, <2>2, <2>3
<1>3. ASSUME NEW j \in Keys, Expire(j) PROVE overlap'[k]
  BY <1>3 DEF Expire
<1>4. QED
  BY <1>2, <1>3 DEF Next, vars

(* While no covered reader overlaps a write, the value a repository hit    *)
(* takes from Redis misses no record: a stale entry would be one that a request  *)
(* in its post-COMMIT steps still has to delete.                           *)
LEMMA HitIsCurrent ==
  ASSUME TypeInv, NoDirtyRead, WriterOK, OverlapInv, Calm, NEW p \in Procs,
         RepoHit(p), key[p] \in Covered, ~overlap'[key[p]]
  PROVE  val'[p].records = version[key[p][2]]
<1> DEFINE k == key[p]
<1>1. k \in Keys /\ cache[k] # NoEntry /\ val'[p] = cache[k].data
  BY KeyFacts DEF RepoHit, Goto, TypeInv, TypeOK, ReaderSteps
<1>2. /\ ~overlap[k]
      /\ ~ \E w \in Procs : pc[w] \in AfterCommit /\ k[2] \in ScopesOf(w)
  BY <1>1 DEF RepoHit, TypeInv, TypeOK
<1>3. ASSUME NEW w \in Procs, StillInvalidating(w, k) PROVE FALSE
  <2>1. pc[w] \in AfterCommit /\ k[2] \in {actor[w], Global}
    BY <1>3 DEF StillInvalidating, AfterCommit, WriterOK
  <2>2. k[2] \in ScopesOf(w)
    BY <2>1 DEF ScopesOf, Covered, WriterOK
  <2>3. QED
    BY <1>2, <2>1, <2>2
<1>4. ~Stale(k)
  BY <1>2, <1>3 DEF OverlapInv, OnlyOverlapLeavesStale
<1>5. QED
  BY <1>1, <1>4, KeyFacts DEF Stale, NoDirtyRead

LEMMA NextHandsCurrent ==
  TypeInv /\ NoDirtyRead /\ WriterOK /\ OverlapInv /\ [Next]_vars
    => HandsCurrent'
<1> SUFFICES ASSUME TypeInv, NoDirtyRead, WriterOK, OverlapInv, [Next]_vars,
                    Calm, NEW k \in Covered, ~overlap'[k],
                    NEW q \in Procs, key'[q] = k, pc'[q] \in InHand
             PROVE  val'[q].records = version'[k[2]]
  BY SettingFixed DEF HandsCurrent, Covered, Keys, Scopes, Calm
<1> USE DEF Goto, readerVars, writerVars, tableVars, InHand
<1>1. k \in Keys /\ ~overlap[k]
  BY OverlapSteps DEF Covered, TypeInv, TypeOK
<1>t. /\ pc \in [Procs -> Steps] /\ val \in [Procs -> Aggregate]
      /\ key \in [Procs -> Keys \cup {NoKey}]
      /\ version \in [Scopes -> Nat]
  BY DEF TypeInv, TypeOK
<1>2. key[q] = k /\ pc[q] \in InHand => val[q].records = version[k[2]]
  BY <1>1 DEF OverlapInv, HandsCurrent
<1>3. ASSUME NEW p \in Procs, Begin(p) \/ RollBack(p) \/ Crash(p)
      PROVE  val'[q].records = version'[k[2]]
  BY <1>2, <1>3, <1>t, NoKeyAssumption DEF Begin, BeginSummary,
     BeginCategoryTotals, BeginTrends, BeginRead, BeginCreate, BeginUpdate,
     BeginDelete, BeginWrite, BeginRename, RollBack, Crash, EndRead
<1>4. ASSUME NEW p \in Procs, Read(p) PROVE val'[q].records = version'[k[2]]
  <2>1. CASE RepoHit(p)
    <3>1. CASE q = p
      BY <1>1, <2>1, <3>1, HitIsCurrent DEF RepoHit
    <3>2. CASE q # p
      BY <1>2, <1>t, <2>1, <3>2 DEF RepoHit
    <3>3. QED
      BY <3>1, <3>2
  <2>2. CASE DbRead(p)
    BY <1>1, <1>2, <1>t, <2>2, KeyFacts DEF DbRead
  <2>3. CASE RepoSet(p)
    BY <1>2, <1>t, <2>3 DEF RepoSet
  <2>4. CASE UcHit(p) \/ UcMiss(p) \/ RepoMiss(p) \/ UcSet(p)
    BY <1>2, <1>t, <2>4 DEF UcHit, UcMiss, RepoMiss, UcSet, EndRead
  <2>5. QED
    BY <1>4, <2>1, <2>2, <2>3, <2>4 DEF Read
<1>5. ASSUME NEW p \in Procs, Write(p) PROVE val'[q].records = version'[k[2]]
  <2>1. CASE Commit(p)
    <3>1. pc[q] \in InHand /\ key[q] = k
      BY <1>t, <2>1 DEF Commit
    <3>2. k[2] \notin ScopesOf(p)
      BY <1>1, <2>1, <3>1 DEF Commit
    <3>3. QED
      BY <1>1, <1>2, <1>t, <2>1, <3>1, <3>2, KeyFacts DEF Commit
  <2>2. CASE ~Commit(p)
    BY <1>2, <1>5, <1>t, <2>2 DEF Write, Flush, PreListUser, PreListGlobal,
       PreDelete, PostListUser, PostListGlobal, PostDelete, CommitRename, ListKeys
  <2>3. QED
    BY <2>1, <2>2
<1>6. ASSUME NEW j \in Keys, Expire(j) PROVE val'[q].records = version'[k[2]]
  BY <1>2, <1>6 DEF Expire
<1>7. CASE UNCHANGED vars
  BY <1>2, <1>7 DEF vars
<1>8. QED
  BY <1>3, <1>4, <1>5, <1>6, <1>7 DEF Next

(* Under a key nobody has overlapped, an entry that is set is current.     *)
LEMMA SetIsCurrent ==
  ASSUME TypeInv, OverlapInv, Calm, NEW p \in Procs, Read(p), NEW k \in Covered,
         ~overlap[k]
  PROVE  \/ cache'[k] = cache[k] /\ version' = version
         \/ cache'[k].data.records = version'[k[2]]
<1> USE KeyFacts DEF Goto, writerVars, readerVars, tableVars
<1>t. /\ cache \in [Keys -> Entry \cup {NoEntry}] /\ k \in Keys
  BY DEF TypeInv, TypeOK, Covered
<1>1. key[p] = k /\ pc[p] \in InHand => val[p].records = version[k[2]]
  BY DEF OverlapInv, HandsCurrent
<1>2. CASE RepoSet(p)
  BY <1>1, <1>2, <1>t DEF RepoSet, InHand, ReaderSteps
<1>3. CASE UcSet(p)
  BY <1>1, <1>3, <1>t DEF UcSet, InHand, ReaderSteps
<1>4. QED
  BY <1>2, <1>3 DEF Read, UcHit, UcMiss, RepoHit, RepoMiss, DbRead

LEMMA NextOnlyOverlap ==
  TypeInv /\ WriterOK /\ OverlapInv /\ [Next]_vars => OnlyOverlapLeavesStale'
<1> SUFFICES ASSUME TypeInv, WriterOK, OverlapInv, [Next]_vars, Calm,
                    NEW k \in Covered, Stale(k)', ~overlap'[k]
             PROVE  \E w \in Procs : StillInvalidating(w, k)'
  BY SettingFixed DEF OnlyOverlapLeavesStale, Covered, Keys, Scopes, Calm
<1> USE DEF Goto, readerVars, writerVars, tableVars
<1>1. k \in Keys /\ ~overlap[k]
  BY OverlapSteps DEF Covered, TypeInv, TypeOK
<1>2. cache'[k] # NoEntry /\ cache'[k].data.records < version'[k[2]]
  BY DEF Stale
<1>3. TypeInv' /\ version'[k[2]] \in Nat
  BY <1>1, NextTypeInv, KeyFacts DEF TypeInv, TypeOK
<1>4. ASSUME Stale(k) PROVE \E w \in Procs : StillInvalidating(w, k)'
  <2>1. PICK w \in Procs : StillInvalidating(w, k)
    BY <1>1, <1>4 DEF OverlapInv, OnlyOverlapLeavesStale
  <2>2. QED
    BY <1>2, <1>4, <2>1, InvalidationHolds DEF Stale
<1>5. ASSUME cache'[k] = cache[k], version' = version
      PROVE  \E w \in Procs : StillInvalidating(w, k)'
  BY <1>2, <1>4, <1>5 DEF Stale
<1>6. ASSUME NEW p \in Procs, Read(p)
      PROVE  \E w \in Procs : StillInvalidating(w, k)'
  BY <1>1, <1>2, <1>3, <1>5, <1>6, SetIsCurrent
<1>7. ASSUME NEW p \in Procs, Commit(p)
      PROVE  \E w \in Procs : StillInvalidating(w, k)'
  BY <1>2, <1>4, <1>7, CommitCovers DEF Stale, Commit
<1>8. ASSUME NEW p \in Procs,
             Begin(p) \/ RollBack(p) \/ Crash(p) \/ (Write(p) /\ ~Commit(p))
      PROVE  \E w \in Procs : StillInvalidating(w, k)'
  <2>1. version' = version /\ (cache'[k] = cache[k] \/ cache'[k] = NoEntry)
    BY <1>1, <1>8 DEF Begin, BeginSummary, BeginCategoryTotals, BeginTrends,
       BeginRead, BeginCreate, BeginUpdate, BeginDelete, BeginWrite, BeginRename, RollBack,
       Crash, Write, Flush, PreListUser, PreListGlobal, PreDelete,
       PostListUser, PostListGlobal, PostDelete, CommitRename, ListKeys,
       DeleteFound
  <2>2. QED
    BY <1>2, <1>5, <2>1
<1>9. ASSUME NEW j \in Keys, Expire(j)
      PROVE  \E w \in Procs : StillInvalidating(w, k)'
  <2>1. version' = version /\ (cache'[k] = cache[k] \/ cache'[k] = NoEntry)
    BY <1>1, <1>9 DEF Expire, TypeInv, TypeOK
  <2>2. QED
    BY <1>2, <1>5, <2>1
<1>10. CASE UNCHANGED vars
  BY <1>5, <1>10 DEF vars
<1>11. QED
  BY <1>6, <1>7, <1>8, <1>9, <1>10 DEF Next

(* In the absence of faults a covered aggregate that is stale, and that no *)
(* request is about to delete, was stored by a read that overlapped a      *)
(* write: no interleaving of the invalidations alone leaves one behind.    *)
THEOREM OverlapIsTheOnlySource == Spec => []OnlyOverlapLeavesStale
<1>1. Init => NoDirtyRead /\ WriterOK /\ OverlapInv
  BY DEF Init, NoDirtyRead, InHand, WriterOK, OverlapInv, HandsCurrent,
         OnlyOverlapLeavesStale, Stale, Covered, AfterCommit
<1>2. TypeInv /\ NoDirtyRead /\ WriterOK /\ OverlapInv /\ [Next]_vars
        => OverlapInv'
  BY NextHandsCurrent, NextOnlyOverlap DEF OverlapInv
<1>3. OverlapInv => OnlyOverlapLeavesStale
  BY DEF OverlapInv
<1>4. QED
  BY <1>1, <1>2, <1>3, InitTypeInv, NextTypeInv, NextNoDirtyRead,
     NextWriterOK, PTL DEF Spec

-----------------------------------------------------------------------------
(* One request at a time.                                                  *)

(* A reader that has missed goes on to the database, since nobody sets the *)
(* entry meanwhile, and its value in hand stays current in every part.     *)
(* Before it commits, a writer has found, and then deleted, every entry of *)
(* the scopes it writes.                                                   *)
OneAtATime == setting.atOnce <= 1 /\ ~Flaky

RequestFresh(p) ==
    /\ pc[p] = "repoGet" => cache[key[p]] = NoEntry
    /\ pc[p] \in InHand => val[p] = Current(key[p])
    /\ pc[p] = "preGlobal" => KeysOf(owner[p]) \cap Present \subseteq found[p]
    /\ pc[p] = "preDelete" =>
          \A s \in ScopesOf(p) : KeysOf(s) \cap Present \subseteq found[p]
    /\ pc[p] = "commit" =>
          \A s \in ScopesOf(p) : KeysOf(s) \cap Present = {}

SequentialInv == OneAtATime =>
    /\ \A p, q \in Procs : pc[p] # "idle" /\ pc[q] # "idle" => p = q
    /\ \A k \in Keys : ~Stale(k)
    /\ \A p \in Procs : RequestFresh(p)

(* There a request begins only when none is in flight.                     *)
LEMMA NoneBusy ==
  ASSUME IsFiniteSet(Procs), TypeInv, OneAtATime,
         Cardinality(Busy) < setting.atOnce
  PROVE  \A q \in Procs : pc[q] = "idle"
<1>1. setting.atOnce \in Nat
  BY SettingsAssumption DEF TypeInv, TypeOK
<1>2. IsFiniteSet(Busy)
  BY FS_Subset DEF Busy
<1>3. Cardinality(Busy) = 0
  BY <1>1, <1>2, FS_CardinalityType DEF OneAtATime
<1>4. Busy = {}
  BY <1>2, <1>3, FS_EmptySet
<1>5. QED
  BY <1>4 DEF Busy

LEMMA NextSequentialInv ==
  ASSUME IsFiniteSet(Procs)
  PROVE  TypeInv /\ NoDirtyRead /\ SequentialInv /\ [Next]_vars => SequentialInv'
<1> SUFFICES ASSUME TypeInv, NoDirtyRead, SequentialInv, [Next]_vars,
                    OneAtATime, setting' = setting
             PROVE  SequentialInv'
  BY SettingFixed DEF SequentialInv, OneAtATime, Flaky
<1> USE KeyFacts DEF RequestFresh, Stale, InHand, Goto, KeysOf, Current,
                     Present, ScopesOf, readerVars, writerVars, tableVars, Flaky, OneAtATime
<1>t. /\ pc \in [Procs -> Steps] /\ val \in [Procs -> Aggregate]
      /\ key \in [Procs -> Keys \cup {NoKey}]
      /\ cache \in [Keys -> Entry \cup {NoEntry}]
      /\ version \in [Scopes -> Nat]
      /\ found \in [Procs -> SUBSET Keys]
      /\ owner \in [Procs -> Users \cup {Nobody}]
  BY DEF TypeInv, TypeOK
<1>s. /\ \A p, q \in Procs : pc[p] # "idle" /\ pc[q] # "idle" => p = q
      /\ \A k \in Keys : ~Stale(k)
      /\ \A p \in Procs : RequestFresh(p)
  BY DEF SequentialInv
<1> DEFINE Fresh(p) == (\A k \in Keys : ~Stale(k)') /\ RequestFresh(p)'
<1>o. ASSUME NEW p \in Procs, NEW to, pc[p] # "idle", Fresh(p),
             pc' = [pc EXCEPT ![p] = to]
      PROVE  SequentialInv'
  BY <1>o, <1>s, <1>t DEF SequentialInv
<1>1. ASSUME NEW p \in Procs, Begin(p), Cardinality(Busy) < setting.atOnce
      PROVE  SequentialInv'
  <2>1. \A q \in Procs : pc[q] = "idle"
    BY <1>1, NoneBusy
  <2>2. QED
    BY <1>1, <1>s, <1>t, <2>1
       DEF SequentialInv, Begin, BeginSummary, BeginCategoryTotals, BeginTrends, BeginRead,
           BeginCreate, BeginUpdate, BeginDelete, BeginWrite, BeginRename
<1>2. ASSUME NEW p \in Procs, Read(p) PROVE SequentialInv'
  <2> USE <1>s, <1>t DEF EndRead, ReaderSteps
  <2>1. ASSUME UcHit(p) \/ UcMiss(p) \/ RepoMiss(p) PROVE Fresh(p)
    BY <2>1 DEF UcHit, UcMiss, RepoMiss
  <2>2. ASSUME RepoHit(p) PROVE Fresh(p)
    BY <2>2 DEF RepoHit
  <2>3. ASSUME DbRead(p) PROVE Fresh(p)
    BY <2>3 DEF DbRead
  <2>4. ASSUME RepoSet(p) PROVE Fresh(p)
    <3>1. /\ pc' = [pc EXCEPT ![p] = "ucSet"] /\ pc[p] = "repoSet"
          /\ version' = version /\ names' = names /\ key' = key /\ val' = val
          /\ cache' = [cache EXCEPT ![key[p]] = Fill(key[p], val[p])]
      BY <2>4 DEF RepoSet
    <3>2. key[p] \in Keys /\ val[p] \in Aggregate /\ val[p] = Current(key[p])
      BY <3>1
    <3>3. /\ Fill(key[p], val[p]).data.records = version[key[p][2]]
          /\ version[key[p][2]] \in Nat
      BY <3>2
    <3>4. \A k \in Keys : ~Stale(k)'
      BY ONLY <1>s, <1>t, <3>1, <3>2, <3>3 DEF Stale
    <3>5. RequestFresh(p)'
      BY <3>1, <3>2
    <3>6. QED
      BY <3>4, <3>5
  <2>5. ASSUME UcSet(p) PROVE Fresh(p)
    <3>1. /\ pc' = [pc EXCEPT ![p] = "idle"] /\ pc[p] = "ucSet"
          /\ version' = version
          /\ cache' = [cache EXCEPT ![key[p]] = Fill(key[p], val[p])]
      BY <2>5 DEF UcSet
    <3>2. key[p] \in Keys /\ val[p] \in Aggregate /\ val[p] = Current(key[p])
      BY <3>1
    <3>3. /\ Fill(key[p], val[p]).data.records = version[key[p][2]]
          /\ version[key[p][2]] \in Nat
      BY <3>2
    <3>4. \A k \in Keys : ~Stale(k)'
      BY ONLY <1>s, <1>t, <3>1, <3>2, <3>3 DEF Stale
    <3>5. RequestFresh(p)'
      BY <3>1
    <3>6. QED
      BY <3>4, <3>5
  <2>6. pc[p] # "idle" /\ \E to : pc' = [pc EXCEPT ![p] = to]
    BY ONLY <1>2 DEF Read, UcHit, UcMiss, RepoMiss, RepoHit, DbRead, RepoSet,
       UcSet, Goto
  <2> HIDE DEF Fresh
  <2>7. Fresh(p)
    BY ONLY <1>2, <2>1, <2>2, <2>3, <2>4, <2>5 DEF Read
  <2>8. QED
    BY <1>o, <2>6, <2>7
<1>3. ASSUME NEW p \in Procs, Write(p) PROVE SequentialInv'
  <2> USE <1>s, <1>t DEF EndWrite, ListKeys, DeleteFound
  <2>1. ASSUME Flush(p) PROVE Fresh(p)
    BY <2>1 DEF Flush
  <2>2. ASSUME PreListUser(p) PROVE Fresh(p)
    BY <2>2 DEF PreListUser
  <2>3. ASSUME PreListGlobal(p) PROVE Fresh(p)
    BY <2>3 DEF PreListGlobal
  <2>4. ASSUME PreDelete(p) PROVE Fresh(p)
    BY <2>4 DEF PreDelete
  <2>5. ASSUME Commit(p) PROVE Fresh(p)
    <3>1. \A k \in Keys : cache[k] # NoEntry => version'[k[2]] = version[k[2]]
      BY <2>5 DEF Commit
    <3>2. pc'[p] = "postUser" /\ cache' = cache
      BY <2>5 DEF Commit
    <3>3. QED
      BY <3>1, <3>2
  <2>6. ASSUME PostListUser(p) \/ PostListGlobal(p) PROVE Fresh(p)
    BY <2>6 DEF PostListUser, PostListGlobal
  <2>7. ASSUME PostDelete(p) PROVE Fresh(p)
    <3>1. /\ pc' = [pc EXCEPT ![p] = "idle"] /\ pc[p] = "postDelete"
          /\ version' = version /\ key' = key /\ val' = val
          /\ \A k \in Keys : cache'[k] = NoEntry \/ cache'[k] = cache[k]
      BY <2>7 DEF PostDelete
    <3>2. \A k \in Keys : ~Stale(k)'
      BY <3>1
    <3>3. QED
      BY <3>1, <3>2
  <2>8. ASSUME CommitRename(p) PROVE Fresh(p)
    BY <2>8 DEF CommitRename
  <2>9. pc[p] # "idle" /\ \E to : pc' = [pc EXCEPT ![p] = to]
    BY ONLY <1>3 DEF Write, Flush, PreListUser, PreListGlobal, PreDelete,
       Commit, PostListUser, PostListGlobal, PostDelete, CommitRename, Goto
  <2> HIDE DEF Fresh
  <2>10. Fresh(p)
    BY ONLY <1>3, <2>1, <2>2, <2>3, <2>4, <2>5, <2>6, <2>7, <2>8 DEF Write
  <2>11. QED
    BY <1>o, <2>9, <2>10
<1>4. ASSUME NEW p \in Procs, RollBack(p) \/ Crash(p) PROVE SequentialInv'
  <2>1. Fresh(p)
    BY <1>4, <1>s, <1>t DEF RollBack, Crash, EndRead, EndWrite
  <2>2. pc[p] # "idle" /\ pc' = [pc EXCEPT ![p] = "idle"]
    BY ONLY <1>4 DEF RollBack, Crash, BeforeCommit
  <2>3. QED
    BY <1>o, <2>1, <2>2
<1>5. ASSUME NEW k \in Keys, Expire(k) PROVE SequentialInv'
  BY <1>5, <1>s, <1>t DEF Expire, SequentialInv
<1>6. CASE UNCHANGED vars
  BY <1>6, <1>s DEF vars, SequentialInv
<1>7. QED
  BY <1>1, <1>2, <1>3, <1>4, <1>5, <1>6 DEF Next

(* When requests come one at a time and Redis works, no cached aggregate   *)
(* ever misses a committed write of a record, even if workers die: also    *)
(* for an editor's writes.                                                 *)
THEOREM SequentialWritesNotMissed ==
  ASSUME IsFiniteSet(Procs)
  PROVE  Spec => []NoWriteMissed
<1>1. Init => NoDirtyRead /\ SequentialInv
  BY DEF Init, NoDirtyRead, InHand, SequentialInv, Stale, RequestFresh
<1>2. SequentialInv => NoWriteMissed
  BY DEF SequentialInv, NoWriteMissed, OneAtATime
<1>3. QED
  BY <1>1, <1>2, InitTypeInv, NextTypeInv, NextNoDirtyRead,
     NextSequentialInv, PTL DEF Spec
-----------------------------------------------------------------------------
(* The cache its callers are promised.                                     *)

(* A single SET of the value in hand, which NoDirtyRead and SequentialInv  *)
(* bound.                                                                  *)
LEMMA SetStores ==
  ASSUME TypeInv, NoDirtyRead, SequentialInv, NEW p \in Procs, pc[p] \in InHand,
         cache' = [cache EXCEPT ![key[p]] = Fill(key[p], val[p])],
         UNCHANGED <<setting, version, names>>
  PROVE  Promise!Next
<1>1. PICK k \in Keys : k = key[p]
  BY KeyFacts DEF InHand, ReaderSteps
<1>2. PICK v \in Aggregate : v = val[p]
  BY KeyFacts
<1>3. Fill(k, v) # NoEntry /\ Fill(k, v).data = v
  BY KeyFacts
<1>4. /\ v.records <= version[k[2]] /\ v.names <= Current(k).names
      /\ setting.atOnce <= 1 /\ ~Flaky => v = Current(k)
  BY <1>1, <1>2 DEF NoDirtyRead, SequentialInv, OneAtATime, RequestFresh
<1>5. /\ cache' = [cache EXCEPT ![k] = Fill(k, v)]
      /\ cache \in [Keys -> Entry \cup {NoEntry}]
  BY <1>1, <1>2 DEF TypeInv, TypeOK
<1> DEFINE d == [j \in Keys |-> IF cache[j] = NoEntry THEN NoEntry ELSE cache[j].data]
<1>6. d'[k] = v /\ d' = [d EXCEPT ![k] = v]
  BY <1>3, <1>5
<1>7. Current(k) = Promise!Current(k) /\ Current(k).names = Promise!Names(k)
  BY KeyFacts DEF Current, Promise!Current, Promise!Names
<1>8. v \in Promise!Reached(k)
  <2>1. /\ v.records \in Nat /\ v.names \in Nat
        /\ version[k[2]] \in Nat /\ Current(k).names \in Nat
    BY KeyFacts
  <2>2. v.records \in 0 .. version[k[2]] /\ v.names \in 0 .. Promise!Names(k)
    BY <1>4, <1>7, <2>1
  <2>3. v = [records |-> v.records, names |-> v.names]
    BY DEF Aggregate
  <2>4. QED
    BY <2>2, <2>3 DEF Promise!Reached
<1>9. UNCHANGED <<setting.atOnce <= 1 /\ ~Flaky, version, names>>
  BY DEF Flaky
<1>10. d'[k] \in Promise!Reached(k)
  BY <1>6, <1>8
<1>11. setting.atOnce <= 1 /\ ~Flaky => d'[k] = Promise!Current(k)
  BY <1>4, <1>6, <1>7
<1>12. Promise!Store(k)
  BY ONLY <1>6, <1>9, <1>10, <1>11 DEF Promise!Store
<1>13. QED
  BY <1>12 DEF Promise!Next

(* A DELETE, an expiry, or a step that only looks.                         *)
LEMMA DeletionDrops ==
  ASSUME NEW ks \in SUBSET Keys,
         cache' = [k \in Keys |-> IF k \in ks THEN NoEntry ELSE cache[k]],
         UNCHANGED <<setting, version, names>>
  PROVE  Promise!Next
<1>1. Promise!Drop
  BY DEF Promise!Drop, Flaky
<1>2. QED
  BY <1>1 DEF Promise!Next

(* A COMMIT moves the scopes of its record on; when it is the only request *)
(* it finds none of their entries.                                         *)
LEMMA CommitWrites ==
  ASSUME TypeInv, SequentialInv, NEW p \in Procs, Commit(p),
         UNCHANGED setting
  PROVE  Promise!Next
<1>1. owner[p] \in Users
  BY DEF Commit, Goto, TypeInv, RequestOK, BeforeCommit
<1>2. ASSUME setting.atOnce <= 1, ~Flaky
      PROVE  Promise!Of(owner[p]) \cap Promise!Held = {}
  <2>1. \A s \in ScopesOf(p) : KeysOf(s) \cap Present = {}
    BY <1>2 DEF SequentialInv, OneAtATime, RequestFresh, Commit, Goto
  <2>2. \A k \in Keys : k[2] \in {owner[p], Global} => cache[k] = NoEntry
    BY <2>1 DEF ScopesOf, KeysOf, Present
  <2>3. QED
    BY <2>2 DEF Promise!Of, Promise!Held
<1>3. /\ cache' = cache /\ names' = names
      /\ version' = [s \in Scopes |->
                        version[s] + IF s \in {owner[p], Global} THEN 1 ELSE 0]
  BY DEF Commit, ScopesOf
<1>4. Promise!Write(owner[p])
  BY <1>2, <1>3 DEF Promise!Write, Promise!Scopes, Scopes, Flaky
<1>5. QED
  BY <1>1, <1>4 DEF Promise!Next

LEMMA CacheStep ==
  TypeInv /\ NoDirtyRead /\ SequentialInv /\ [Next]_vars
    => [Promise!Next]_(Promise!vars)
<1> SUFFICES ASSUME TypeInv, NoDirtyRead, SequentialInv, [Next]_vars
             PROVE  [Promise!Next]_(Promise!vars)
  OBVIOUS
<1>s. setting' = setting
  BY SettingFixed
<1> USE DEF tableVars
<1>q. ASSUME UNCHANGED <<cache, version, names>> PROVE UNCHANGED Promise!vars
  BY <1>s, <1>q DEF Promise!vars, Flaky
<1>t. cache \in [Keys -> Entry \cup {NoEntry}] /\ found \in [Procs -> SUBSET Keys]
  BY DEF TypeInv, TypeOK
<1>1. ASSUME NEW p \in Procs, Begin(p) \/ RollBack(p) \/ Crash(p)
      PROVE  UNCHANGED Promise!vars
  BY <1>1, <1>q DEF Begin, BeginSummary, BeginCategoryTotals, BeginTrends,
     BeginRead, BeginCreate, BeginUpdate, BeginDelete, BeginWrite, BeginRename, RollBack,
     Crash
<1>2. ASSUME NEW p \in Procs, Read(p) PROVE [Promise!Next]_(Promise!vars)
  <2>1. CASE RepoSet(p) \/ UcSet(p)
    <3>1. pc[p] \in InHand /\ version' = version /\ names' = names
      BY <2>1 DEF RepoSet, UcSet, Goto, InHand
    <3>2. \/ cache' = [cache EXCEPT ![key[p]] = Fill(key[p], val[p])]
          \/ cache' = cache
      BY <2>1 DEF RepoSet, UcSet
    <3>3. QED
      BY <1>q, <1>s, <3>1, <3>2, SetStores
  <2>2. CASE ~RepoSet(p) /\ ~UcSet(p)
    BY <1>2, <1>q, <2>2 DEF Read, UcHit, UcMiss, RepoHit, RepoMiss, DbRead
  <2>3. QED
    BY <2>1, <2>2
<1>3. ASSUME NEW p \in Procs, Write(p) PROVE [Promise!Next]_(Promise!vars)
  <2>1. CASE Commit(p)
    BY <1>s, <2>1, CommitWrites
  <2>2. CASE PreDelete(p) \/ PostDelete(p)
    <3>1. found[p] \in SUBSET Keys /\ version' = version /\ names' = names
      BY <1>t, <2>2 DEF PreDelete, PostDelete
    <3>2. \/ cache' = [k \in Keys |-> IF k \in found[p] THEN NoEntry ELSE cache[k]]
          \/ cache' = cache
      BY <2>2 DEF PreDelete, PostDelete, DeleteFound
    <3>3. QED
      BY <1>q, <1>s, <3>1, <3>2, DeletionDrops
  <2>3. CASE CommitRename(p)
    <3>1. Promise!Rename
      BY <1>s, <2>3 DEF CommitRename, Promise!Rename, Flaky
    <3>2. QED
      BY <3>1 DEF Promise!Next
  <2>4. CASE ~Commit(p) /\ ~PreDelete(p) /\ ~PostDelete(p) /\ ~CommitRename(p)
    BY <1>3, <1>q, <2>4 DEF Write, Flush, PreListUser, PreListGlobal,
       PostListUser, PostListGlobal, ListKeys
  <2>5. QED
    BY <2>1, <2>2, <2>3, <2>4
<1>4. ASSUME NEW k \in Keys, Expire(k) PROVE [Promise!Next]_(Promise!vars)
  <2>1. cache' = [j \in Keys |-> IF j \in {k} THEN NoEntry ELSE cache[j]]
    BY <1>4, <1>t DEF Expire
  <2>2. QED
    BY <1>4, <1>s, <2>1, DeletionDrops DEF Expire
<1>5. CASE UNCHANGED vars
  BY <1>5, <1>q DEF vars
<1>6. QED
  BY <1>1, <1>2, <1>3, <1>4, <1>5 DEF Next

(* Whatever requests overlap, roll back or die and whichever Redis command *)
(* fails, an entry is only ever stored at a version and with names that    *)
(* were reached.  One request at a time stores only what is current, and   *)
(* no entry is there to be outdated by the COMMIT of a record; only the    *)
(* COMMIT of a rename outdates entries, the category totals.               *)
THEOREM CacheRefinement ==
  ASSUME IsFiniteSet(Procs)
  PROVE  Spec => ImplementsScopedCache
<1>1. Init => Promise!Init
  BY DEF Init, Promise!Init, Promise!Scopes, Scopes
<1>2. Init => NoDirtyRead /\ SequentialInv
  BY DEF Init, NoDirtyRead, InHand, SequentialInv, Stale, RequestFresh
<1>3. QED
  BY <1>1, <1>2, InitTypeInv, NextTypeInv, NextNoDirtyRead, NextSequentialInv,
     CacheStep, PTL DEF Spec, ImplementsScopedCache, Promise!Spec

-----------------------------------------------------------------------------
(* Expiry.                                                                 *)

(* A request that has looked a key up since the entry now under it was     *)
(* last set was in flight at that SET.                                     *)
PinnedInv ==
    ~Flaky => \A k \in Keys, p \in Procs :
        cache[k] # NoEntry /\ key[p] = k /\ pc[p] \in PastLookup => p \in pinned[k]

LEMMA NextPinnedInv == TypeInv /\ PinnedInv /\ [Next]_vars => PinnedInv'
<1> SUFFICES ASSUME TypeInv, PinnedInv, [Next]_vars, ~Flaky,
                    NEW k \in Keys, NEW q \in Procs, cache'[k] # NoEntry,
                    key'[q] = k, pc'[q] \in PastLookup
             PROVE  q \in pinned'[k]
  BY SettingFixed DEF PinnedInv, Flaky
<1> USE DEF Goto, readerVars, writerVars, tableVars, PastLookup, ReaderSteps
<1>t. /\ pc \in [Procs -> Steps] /\ key \in [Procs -> Keys \cup {NoKey}]
      /\ cache \in [Keys -> Entry \cup {NoEntry}]
      /\ pinned \in [Keys -> SUBSET Procs]
  BY DEF TypeInv, TypeOK
<1>i. cache[k] # NoEntry /\ key[q] = k /\ pc[q] \in PastLookup => q \in pinned[k]
  BY DEF PinnedInv
<1>1. ASSUME NEW p \in Procs, Begin(p) PROVE q \in pinned'[k]
  BY <1>1, <1>i, <1>t DEF Begin, BeginSummary, BeginCategoryTotals, BeginTrends,
     BeginRead, BeginCreate, BeginUpdate, BeginDelete, BeginWrite, BeginRename
<1>2. ASSUME NEW p \in Procs, Read(p) PROVE q \in pinned'[k]
  <2> USE <1>i, <1>t DEF EndRead, InFlight
  <2>1. CASE UcHit(p)
    BY <2>1, NoKeyAssumption DEF UcHit
  <2>2. CASE UcMiss(p)
    BY <2>2 DEF UcMiss
  <2>3. CASE RepoHit(p) \/ RepoMiss(p) \/ DbRead(p)
    BY <2>3 DEF RepoHit, RepoMiss, DbRead
  <2>4. CASE RepoSet(p)
    BY <2>4 DEF RepoSet
  <2>5. CASE UcSet(p)
    BY <2>5, NoKeyAssumption DEF UcSet
  <2>6. QED
    BY <1>2, <2>1, <2>2, <2>3, <2>4, <2>5 DEF Read
<1>3. ASSUME NEW p \in Procs, Write(p) PROVE q \in pinned'[k]
  <2>1. CASE PreDelete(p) \/ PostDelete(p)
    BY <1>i, <1>t, <2>1 DEF PreDelete, PostDelete, DeleteFound, EndWrite
  <2>2. CASE ~PreDelete(p) /\ ~PostDelete(p)
    BY <1>3, <1>i, <1>t, <2>2 DEF Write, Flush, PreListUser, PreListGlobal,
       Commit, PostListUser, PostListGlobal, CommitRename, ListKeys
  <2>3. QED
    BY <2>1, <2>2
<1>4. ASSUME NEW p \in Procs, RollBack(p) \/ Crash(p) PROVE q \in pinned'[k]
  BY <1>4, <1>i, <1>t, NoKeyAssumption DEF RollBack, Crash, EndRead, EndWrite
<1>5. ASSUME NEW j \in Keys, Expire(j) PROVE q \in pinned'[k]
  BY <1>5, <1>i, <1>t DEF Expire
<1>6. CASE UNCHANGED vars
  BY <1>6, <1>i DEF vars
<1>7. QED
  BY <1>1, <1>2, <1>3, <1>4, <1>5, <1>6 DEF Next

(* While Redis answers, a stale entry that CACHE_TTL removes is not put    *)
(* back by a reader that had already looked its key up: what keeps the     *)
(* cache from staying stale when reads and writes have raced.              *)
THEOREM ExpiredStayAway == Spec => ExpiryIsFinal
<1>1. Init => PinnedInv
  BY DEF Init, PinnedInv
<1>2. TypeInv /\ PinnedInv
        => \A k \in Keys : ~Flaky /\ Expire(k) =>
              \A p \in Procs : key[p] = k => pc[p] \notin PastLookup
  BY DEF PinnedInv, Expire
<1>3. QED
  BY <1>1, <1>2, InitTypeInv, NextTypeInv, NextPinnedInv, PTL
     DEF Spec, ExpiryIsFinal
=============================================================================
