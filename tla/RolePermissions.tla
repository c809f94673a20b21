-------------------------- MODULE RolePermissions --------------------------
(***************************************************************************)
(* The role_permissions table: administrators who assign permissions to a  *)
(* role and take permissions from it (manage_permissions.py), while roles  *)
(* are deactivated, activated and soft deleted.                            *)
(*                                                                         *)
(* A request loads the role with its permissions, then INSERTs or DELETEs  *)
(* the rows one permission at a time, in no particular order, changing the *)
(* loaded entity alongside; the audit row is written from the entity.  A   *)
(* statement on a row that another open transaction has written waits for  *)
(* that transaction to end.  The permissions asked for all exist.          *)
(***************************************************************************)
EXTENDS Naturals, FiniteSets

CONSTANTS
    Roles, Perms, Managers,
    NoRole, NoPerm,
    System,    \* SYSTEM_ROLES: their permissions change, their state never
    Seed       \* ROLE_PERMISSIONS of scripts/seed.py, and the custom roles'

ASSUME SeedAssumption == Seed \in [Roles -> SUBSET Perms]
ASSUME ManagersAssumption == IsFiniteSet(Managers)
ASSUME PermsAssumption == IsFiniteSet(Perms)
ASSUME NoneAssumption == NoRole \notin Roles /\ NoPerm \notin Perms

VARIABLES
    roleState,  \* [Roles -> RoleStates]
    granted,    \* [Roles -> SUBSET Perms] the rows of role_permissions
    mpc,        \* the step each manager's request is about to take
    mop,        \* the use case it runs
    mrole,      \* the role it is about
    todo,       \* the permissions of the request still to be handled
    cur,        \* the permission whose row it is about to write
    entity,     \* the permissions of its Role entity
    did,        \* the permissions whose rows its open transaction wrote
    mraced      \* history: requests whose role's rows another one changed

tables == <<roleState, granted>>
vars_rp == <<tables, mpc, mop, mrole, todo, cur, entity, did, mraced>>

RoleStates == {"active", "inactive", "deleted"}
ManagerSteps == {"idle", "load", "each", "write", "done"}
ManagerOps == {"none", "assign", "remove"}

InitRP ==
    /\ roleState = [r \in Roles |-> "active"]
    /\ granted = Seed
    /\ mpc = [m \in Managers |-> "idle"]
    /\ mop = [m \in Managers |-> "none"]
    /\ mrole = [m \in Managers |-> NoRole]
    /\ todo = [m \in Managers |-> {}]
    /\ cur = [m \in Managers |-> NoPerm]
    /\ entity = [m \in Managers |-> {}]
    /\ did = [m \in Managers |-> {}]
    /\ mraced = {}

(* The row (mrole[m], x) was written by an open transaction of n.          *)
Blocks(n, m, x) == n # m /\ mrole[n] = mrole[m] /\ x \in did[n]

WaitsFor(m, n) == mpc[m] = "write" /\ Blocks(n, m, cur[m])

MGoto(m, from, to) ==
    /\ mpc[m] = from
    /\ mpc' = [mpc EXCEPT ![m] = to]

(* The request is over; a transaction still open is rolled back.           *)
MEnded(m) ==
    /\ mpc' = [mpc EXCEPT ![m] = "idle"]
    /\ mop' = [mop EXCEPT ![m] = "none"]
    /\ mrole' = [mrole EXCEPT ![m] = NoRole]
    /\ todo' = [todo EXCEPT ![m] = {}]
    /\ cur' = [cur EXCEPT ![m] = NoPerm]
    /\ entity' = [entity EXCEPT ![m] = {}]
    /\ did' = [did EXCEPT ![m] = {}]
    /\ mraced' = mraced \ {m}
    /\ UNCHANGED tables

-----------------------------------------------------------------------------
BeginManage(m) ==
    /\ MGoto(m, "idle", "load")
    /\ \E o \in {"assign", "remove"} : mop' = [mop EXCEPT ![m] = o]
    /\ \E r \in Roles : mrole' = [mrole EXCEPT ![m] = r]
    /\ \E xs \in SUBSET Perms \ {{}} : todo' = [todo EXCEPT ![m] = xs]
    /\ UNCHANGED <<tables, cur, entity, did, mraced>>

(* get_by_id_with_permissions: an inactive role may be managed.            *)
LoadRole(m) ==
    /\ MGoto(m, "load", "each")
    /\ roleState[mrole[m]] # "deleted"
    /\ entity' = [entity EXCEPT ![m] = granted[mrole[m]]]
    /\ mraced' = mraced \ {m}
    /\ UNCHANGED <<tables, mop, mrole, todo, cur, did>>

RoleNotFound(m) ==
    /\ mpc[m] = "load"
    /\ roleState[mrole[m]] = "deleted"
    /\ MEnded(m)

(* The entity with permission x assigned or removed.                       *)
Edited(m, x) == IF mop[m] = "assign" THEN entity[m] \cup {x} ELSE entity[m] \ {x}

(* Variant: a permission whose row needs no write is not put in the entity. *)
EachSkipping(m) ==
    /\ mpc[m] = "each"
    /\ \E x \in todo[m] :
          LET write == (x \in granted[mrole[m]]) <=> (mop[m] = "remove") IN
          /\ todo' = [todo EXCEPT ![m] = @ \ {x}]
          /\ entity' = IF write THEN entity ELSE [entity EXCEPT ![m] = Edited(m, x)]
          /\ mpc' = [mpc EXCEPT ![m] = IF write THEN "write" ELSE "each"]
          /\ cur' = [cur EXCEPT ![m] = IF write THEN x ELSE NoPerm]
    /\ UNCHANGED <<tables, mop, mrole, did, mraced>>

(* One round of the loop: the entity is changed, and the row is looked up: *)
(* assign_permission writes if it is not there, remove_permission if it is. *)
Each(m) ==
    /\ mpc[m] = "each"
    /\ \E x \in todo[m] :
          LET write == (x \in granted[mrole[m]]) <=> (mop[m] = "remove") IN
          /\ todo' = [todo EXCEPT ![m] = @ \ {x}]
          /\ entity' = [entity EXCEPT ![m] = Edited(m, x)]
          /\ mpc' = [mpc EXCEPT ![m] = IF write THEN "write" ELSE "each"]
          /\ cur' = [cur EXCEPT ![m] = IF write THEN x ELSE NoPerm]
    /\ UNCHANGED <<tables, mop, mrole, did, mraced>>

(* The flush of the INSERT or DELETE.  A DELETE that matches no row any    *)
(* more is not an error.                                                   *)
Write(m) ==
    /\ MGoto(m, "write", "each")
    /\ \A n \in Managers : ~Blocks(n, m, cur[m])
    /\ mop[m] = "assign" => cur[m] \notin granted[mrole[m]]
    /\ did' = [did EXCEPT ![m] =
          IF mop[m] = "assign" THEN @ \cup {cur[m]} ELSE @ \cup ({cur[m]} \cap granted[mrole[m]])]
    /\ cur' = [cur EXCEPT ![m] = NoPerm]
    /\ UNCHANGED <<tables, mop, mrole, todo, entity, mraced>>

(* Another request has inserted the row since: the primary key refuses it. *)
InsertRefused(m) ==
    /\ mpc[m] = "write"
    /\ mop[m] = "assign"
    /\ cur[m] \in granted[mrole[m]]
    /\ \A n \in Managers : ~Blocks(n, m, cur[m])
    /\ MEnded(m)

(* Variant: the database never breaks a circle of waits.                   *)
NoVictim(m) == FALSE /\ MEnded(m)

InRing(m) ==
    \E ring \in SUBSET Managers :
        m \in ring /\ \A n \in ring : \E o \in ring : WaitsFor(n, o)

(* The database finds a circle of waits and aborts one of its members.     *)
Victim(m) == InRing(m) /\ MEnded(m)

(* The rows of m's role once its transaction has committed.                *)
Result(m) ==
    IF mop[m] = "assign" THEN granted[mrole[m]] \cup did[m] ELSE granted[mrole[m]] \ did[m]

(* All permissions are handled: the audit row is flushed, the transaction  *)
(* commits.                                                                *)
Commit(m) ==
    /\ todo[m] = {}
    /\ MGoto(m, "each", "done")
    /\ granted' = [granted EXCEPT ![mrole[m]] = Result(m)]
    /\ did' = [did EXCEPT ![m] = {}]
    /\ mraced' = mraced \cup
          {n \in Managers \ {m} : did[m] # {} /\ mrole[n] = mrole[m]}
    /\ UNCHANGED <<roleState, mop, mrole, todo, cur, entity>>

Respond(m) == mpc[m] = "done" /\ MEnded(m)

(* Any exception, or a lost worker.                                        *)
MAbort(m) == mpc[m] # "idle" /\ MEnded(m)

(* UpdateRoleUseCase and DeleteRoleUseCase, each as one COMMIT.            *)
SetRole(r, s) ==
    /\ r \notin System
    /\ roleState[r] \notin {"deleted", s}
    /\ roleState' = [roleState EXCEPT ![r] = s]
    /\ UNCHANGED <<granted, mpc, mop, mrole, todo, cur, entity, did, mraced>>

Proceed(m) ==
    \/ LoadRole(m) \/ RoleNotFound(m) \/ Each(m) \/ Write(m) \/ InsertRefused(m)
    \/ Commit(m) \/ Respond(m)

-----------------------------------------------------------------------------
TypeOKRP ==
    /\ roleState \in [Roles -> RoleStates]
    /\ granted \in [Roles -> SUBSET Perms]
    /\ mpc \in [Managers -> ManagerSteps]
    /\ mop \in [Managers -> ManagerOps]
    /\ mrole \in [Managers -> Roles \cup {NoRole}]
    /\ todo \in [Managers -> SUBSET Perms]
    /\ cur \in [Managers -> Perms \cup {NoPerm}]
    /\ entity \in [Managers -> SUBSET Perms]
    /\ did \in [Managers -> SUBSET Perms]
    /\ mraced \subseteq Managers

(* "Logs before/after permission snapshot in audit": the after-snapshot,   *)
(* taken from the entity, is what the table holds when the request has     *)
(* committed, unless another request changed the role's permissions since  *)
(* the load.                                                               *)
AuditMatchesTable ==
    \A m \in Managers \ mraced : mpc[m] = "done" => entity[m] = granted[mrole[m]]

(* Whatever a waiting request waits for, however indirectly, among those   *)
(* is one that can go on or one the database can abort: no request waits   *)
(* for one that has ended, and no wait is left that ends in neither        *)
(* (manage_permissions.py, the flush of each row).                         *)
Blocked(m) == \E n \in Managers : WaitsFor(m, n)
WaitsResolve ==
    \A ms \in SUBSET Managers :
        /\ \E m \in ms : mpc[m] # "idle"
        /\ \A m \in ms, n \in Managers : WaitsFor(m, n) => n \in ms
        => \E n \in ms : mpc[n] # "idle" /\ (~Blocked(n) \/ InRing(n))

(* The steps a request may still take at most, which no step of another    *)
(* request adds to, and each of its own takes from.                        *)
StepsLeft(step, perms) ==
    2 * Cardinality(perms) +
        CASE step = "idle" -> 0
          [] step = "done" -> 1
          [] step = "each" -> 2
          [] step \in {"load", "write"} -> 3
Left(m) == StepsLeft(mpc[m], todo[m])
ManagersAdvance ==
    [][\A m \in Managers : mpc[m] # "idle" =>
          Left(m)' <= Left(m) /\ (Proceed(m) => Left(m)' < Left(m))]_vars_rp

(* Every such request ends: two that write the same rows in opposite       *)
(* orders wait for each other only until the database aborts one.          *)
ManagersEnd == \A m \in Managers : mpc[m] # "idle" ~> mpc[m] = "idle"
=============================================================================
