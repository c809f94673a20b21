--------------------------- MODULE ConnectionPool ---------------------------
(***************************************************************************)
(* The pool of database connections and the sessions that requests open on *)
(* it.  A session takes a connection at its first statement, waiting for   *)
(* one if the pool is exhausted, and gives it back when it commits or is   *)
(* closed.  Most requests use their sessions one after the other.  A login *)
(* or a refresh does not: its unit of work has read the user, and so holds *)
(* a connection, when the token service opens a session of its own.        *)
(*                                                                         *)
(* What the statements read and write is left out; AuthSessions models it. *)
(***************************************************************************)
EXTENDS Naturals, FiniteSets

CONSTANTS
    Procs,                  \* the requests the server handles at a time
    PoolSize, MaxOverflow,  \* DB_POOL_SIZE and DB_MAX_OVERFLOW
    Settings                \* what varies from one instance to another:
                            \*   timeouts: waits end after DB_POOL_TIMEOUT
                            \*   nested: requests that may log in or refresh

Capacity == PoolSize + MaxOverflow

ASSUME ProcsAssumption == IsFiniteSet(Procs)
ASSUME PoolAssumption ==
    PoolSize \in Nat /\ MaxOverflow \in Nat /\ Capacity > 0
ASSUME SettingsAssumption ==
    Settings \subseteq [timeouts : BOOLEAN, nested : SUBSET Procs]

VARIABLES
    setting,    \* the member of Settings this behaviour is about; constant
    kind,       \* [Procs -> Kinds] the request a slot is handling
    pc,         \* the step it is about to take
    free,       \* connections that can still be handed out
    held,       \* <<p, s>>: session s of request p holds a connection
    committed   \* requests with a commit of theirs in the database

vars == <<setting, kind, pc, free, held, committed>>

Nested   == {"login", "refresh"}
Kinds    == Nested \cup {"logout", "plain", "none"}
Sessions == {"actor", "uow", "token"}
Waits    == {"wantActor", "wantUow", "wantToken"}
Steps    == Waits \cup {"idle", "actor", "lookup", "store", "last"}

Waiting(p) == pc[p] \in Waits
Holds(p)   == \E s \in Sessions : <<p, s>> \in held

Init ==
    /\ setting \in Settings
    /\ kind = [p \in Procs |-> "none"]
    /\ pc = [p \in Procs |-> "idle"]
    /\ free = Capacity
    /\ held = {}
    /\ committed = {}

-----------------------------------------------------------------------------
(* The session's first statement: a connection is checked out.             *)
Take(p, s, to) ==
    /\ free > 0
    /\ free' = free - 1
    /\ held' = held \cup {<<p, s>>}
    /\ pc' = [pc EXCEPT ![p] = to]
    /\ UNCHANGED <<setting, kind, committed>>

(* Variant: the commit gives the connection back, and close once more.     *)
GiveTwice(p, s) ==
    /\ free' = free + 2
    /\ held' = held \ {<<p, s>>}

(* The session commits or is closed: the connection is back in the pool.   *)
Give(p, s) ==
    /\ free' = free + 1
    /\ held' = held \ {<<p, s>>}

(* Variant: the session is rolled back and never closed.                   *)
RollbackOnly(p) ==
    LET mine == {<<p, s>> : s \in Sessions} IN
    /\ held' = held \ mine
    /\ UNCHANGED free

(* __aexit__ of every open `async with`: rollback, then close.             *)
Unwind(p) ==
    LET mine == {<<p, s>> : s \in Sessions} IN
    /\ free' = free + Cardinality(held \cap mine)
    /\ held' = held \ mine

Over(p) ==
    /\ pc' = [pc EXCEPT ![p] = "idle"]
    /\ kind' = [kind EXCEPT ![p] = "none"]
    /\ committed' = committed \ {p}
    /\ UNCHANGED setting

-----------------------------------------------------------------------------
(* A request arrives at an idle slot, and first needs the session that     *)
(* `first` waits for.                                                      *)
Begin(p, k, first) ==
    /\ pc[p] = "idle"
    /\ kind' = [kind EXCEPT ![p] = k]
    /\ pc' = [pc EXCEPT ![p] = first]
    /\ UNCHANGED <<setting, free, held, committed>>

(* The attempt counter of a login and the signature of a refresh token are *)
(* read without a connection; what they refuse is Fail.                    *)
BeginNested(p) ==
    /\ p \in setting.nested
    /\ \E k \in Nested : Begin(p, k, "wantUow")

(* Without a refresh token in the body there is nothing to revoke.         *)
BeginLogout(p) == \E first \in {"wantToken", "wantUow"} : Begin(p, "logout", first)

(* Any other route: with a lookup of the caller, in a unit of work of its  *)
(* own, or without.  The readiness probe is one of those without.          *)
BeginPlain(p) == \E first \in {"wantActor", "wantUow"} : Begin(p, "plain", first)

TakeActor(p) == pc[p] = "wantActor" /\ Take(p, "actor", "actor")

(* Variant: the caller's unit of work stays open during the use case.      *)
LoadActorKeepOpen(p) ==
    /\ pc[p] = "actor"
    /\ pc' = [pc EXCEPT ![p] = "wantUow"]
    /\ UNCHANGED <<setting, kind, free, held, committed>>

(* GetUserUseCase returns: its unit of work is closed before the route     *)
(* calls the use case.                                                     *)
LoadActor(p) ==
    /\ pc[p] = "actor"
    /\ Give(p, "actor")
    /\ pc' = [pc EXCEPT ![p] = "wantUow"]
    /\ UNCHANGED <<setting, kind, committed>>

(* Variant: a logout reads the user for its audit row before it revokes.   *)
TakeUowForLogout(p) ==
    /\ pc[p] = "wantUow"
    /\ Take(p, "uow", IF kind[p] = "plain" THEN "last" ELSE "lookup")

(* The first statement of the unit of work.  A login or refresh looks the  *)
(* user up; for the others these are all the statements up to the commit.  *)
TakeUow(p) ==
    /\ pc[p] = "wantUow"
    /\ Take(p, "uow", IF kind[p] \in Nested THEN "lookup" ELSE "last")

(* Variant: login commits its transaction, then asks for the tokens.       *)
LookupThenCommit(p) ==
    /\ pc[p] = "lookup"
    /\ Give(p, "uow")
    /\ pc' = [pc EXCEPT ![p] = "wantToken"]
    /\ committed' = committed \cup {p}
    /\ UNCHANGED <<setting, kind>>

(* The user is active; the token service is called with the unit of work   *)
(* open.  A user who is unknown or refused, or a wrong password, is Fail.  *)
Lookup(p) ==
    /\ pc[p] = "lookup"
    /\ pc' = [pc EXCEPT ![p] = "wantToken"]
    /\ UNCHANGED <<setting, kind, free, held, committed>>

TakeToken(p) == pc[p] = "wantToken" /\ Take(p, "token", "store")

(* The token service's session stores, rotates or revokes and commits; it  *)
(* is closed without a commit when a logout finds no live token.           *)
Store(p) ==
    /\ pc[p] = "store"
    /\ Give(p, "token")
    /\ IF kind[p] \in Nested
       THEN /\ pc' = [pc EXCEPT ![p] = "last"]
            /\ committed' = committed \cup {p}
       ELSE /\ pc' = [pc EXCEPT ![p] = "wantUow"]
            /\ committed' \in {committed, committed \cup {p}}
    /\ UNCHANGED <<setting, kind>>

(* The unit of work commits, or a read ends, and the response goes out.    *)
Finish(p) ==
    /\ pc[p] = "last"
    /\ Give(p, "uow")
    /\ Over(p)

(* An exception, or a client that is gone, at any step.                    *)
Fail(p) ==
    /\ pc[p] # "idle"
    /\ Unwind(p)
    /\ Over(p)

(* Variant: the pool's timeout is switched off.                            *)
NoTimeout(p) == FALSE /\ Fail(p)

(* QueuePool gives up a wait after DB_POOL_TIMEOUT: TimeoutError.          *)
Timeout(p) ==
    /\ setting.timeouts
    /\ Waiting(p)
    /\ free = 0
    /\ Unwind(p)
    /\ Over(p)

Checkout(p) == TakeActor(p) \/ TakeUow(p) \/ TakeToken(p)
Statement(p) == LoadActor(p) \/ Lookup(p) \/ Store(p) \/ Finish(p)

Next ==
    \E p \in Procs :
        \/ BeginNested(p) \/ BeginLogout(p) \/ BeginPlain(p)
        \/ Checkout(p)
        \/ Statement(p)
        \/ Fail(p)
        \/ Timeout(p)

Spec == Init /\ [][Next]_vars

(* A statement the database has taken returns.  The pool's queue serves    *)
(* its waiters in order, so no wait is passed over for ever, and its timer *)
(* runs on while connections come and go.  Nothing makes a request fail.   *)
FairSpec ==
    /\ Spec
    /\ \A p \in Procs :
          /\ WF_vars(Statement(p))
          /\ SF_vars(Checkout(p))
          /\ SF_vars(Timeout(p))

-----------------------------------------------------------------------------
TypeOK ==
    /\ setting \in Settings
    /\ kind \in [Procs -> Kinds]
    /\ pc \in [Procs -> Steps]
    /\ free \in 0 .. Capacity
    /\ held \subseteq Procs \X Sessions
    /\ committed \subseteq Procs

(* Every connection is either in the pool or held by a session of a        *)
(* request in progress: whatever way a request ends, it leaves none        *)
(* checked out, and the pool never hands out more than it may.             *)
ConnectionsAccounted ==
    /\ free + Cardinality(held) = Capacity
    /\ \A p \in Procs : Holds(p) => pc[p] # "idle"

(* Only a login or a refresh waits for a connection while it holds one,    *)
(* and then for the token service's, with the unit of work's in hand: no   *)
(* other request can be part of a circle of waits.                         *)
OnlyTokenIssueHoldsAndWaits ==
    \A p \in Procs :
        Waiting(p) /\ Holds(p) =>
            /\ kind[p] \in Nested
            /\ pc[p] = "wantToken"
            /\ {s \in Sessions : <<p, s>> \in held} = {"uow"}

(* With fewer logins and refreshes at a time than the pool has             *)
(* connections, the requests never exhaust it with every holder waiting    *)
(* for one more: some connection is free or will be given back.            *)
ProgressBelowCapacity ==
    Cardinality(setting.nested) < Capacity =>
        \/ free > 0
        \/ \E p \in Procs : Holds(p) /\ ~Waiting(p)

(* A request whose wait for a connection fails can be sent again: nothing  *)
(* of it is in the database.  A logout is the exception: its token may be  *)
(* revoked already when the wait for the audit row's connection fails.     *)
WaitsBeforeItCommits ==
    \A p \in committed : Waiting(p) => kind[p] = "logout"

(* How far a request is from its end.  A login needs the unit of work's    *)
(* connection first, every other request needs it last.                    *)
Ahead(p) ==
    CASE pc[p] = "idle" -> 0
      [] pc[p] = "last" -> 1
      [] pc[p] \in {"actor", "store"} -> 3
      [] pc[p] \in {"wantActor", "wantToken"} -> 4
      [] pc[p] = "lookup" -> 5
      [] pc[p] = "wantUow" -> IF kind[p] \in Nested THEN 6 ELSE 2

(* No request waits for a connection twice or goes round in its use case:  *)
(* every step starts one at an idle slot, or brings one nearer its end,    *)
(* and moves no other.  RequestsEnd adds that the steps go on.             *)
RequestsAdvance ==
    [][\E p \in Procs :
          /\ pc[p] = "idle" \/ Ahead(p)' < Ahead(p)
          /\ \A q \in Procs \ {p} : pc'[q] = pc[q] /\ kind'[q] = kind[q]]_vars

(* Every request ends, one that exhausts the pool included: by the pool's  *)
(* timeout or, where no timeout ends a wait, because fewer logins and      *)
(* refreshes run at a time than there are connections.                     *)
RequestsEnd == \A p \in Procs : pc[p] # "idle" ~> pc[p] = "idle"
=============================================================================
