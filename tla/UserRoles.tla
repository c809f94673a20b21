------------------------------ MODULE UserRoles ------------------------------
(***************************************************************************)
(* The user_roles table: administrators who create users, assign roles to  *)
(* them and remove roles from them, while roles are deactivated, activated *)
(* and soft deleted.                                                       *)
(*                                                                         *)
(* A request decides on what it has loaded, then INSERTs or DELETEs one    *)
(* row of user_roles and commits.  An INSERT or DELETE of a row that an    *)
(* open transaction has inserted or deleted waits for it to end.  Changes  *)
(* to a role row overlap in EntityUpdates; here each is one COMMIT.  The   *)
(* soft deletion of a user, after which these requests refuse the user and *)
(* the rows stay as they are, is in EntityUpdates too.                     *)
(***************************************************************************)
EXTENDS Naturals, FiniteSets

CONSTANTS
    Users, Roles, Procs,
    System,    \* SYSTEM_ROLES, which are never deactivated or deleted
    Viewer,    \* the role that registration looks up
    None       \* no user, no role

ASSUME SystemAssumption == System \subseteq Roles /\ Viewer \in System
ASSUME RolesAssumption == IsFiniteSet(Roles)
ASSUME NoneAssumption == None \notin Users /\ None \notin Roles

VARIABLES
    present,   \* the rows of users
    member,    \* [Users -> SUBSET Roles] the rows of user_roles
    roleState, \* [Roles -> {"active", "inactive", "deleted"}]
    pc,        \* the step each request is about to take
    op,        \* the use case a request runs
    user,      \* the user it is about
    role,      \* the role it assigns or removes
    roles,     \* the roles it has loaded: the user's, or the new user's
    did,       \* what its open transaction has written
    raced      \* history: requests whose user's roles another one changed

vars == <<present, member, roleState, pc, op, user, role, roles, did, raced>>

tables == <<present, member, roleState>>
inputs == <<op, user, role>>

Ops   == {"none", "assign", "remove", "create"}
Steps == {"idle", "loadUser", "loadRole", "exists", "insert", "find", "delete",
          "names", "add", "commit", "done"}
Decided == {"insert", "find", "delete", "commit", "done"}

Goto(p, from, to) ==
    /\ pc[p] = from
    /\ pc' = [pc EXCEPT ![p] = to]

(* The roles a user is loaded with: map_user skips deleted ones.           *)
Effective(u) == {r \in member[u] : roleState[r] # "deleted"}

(* An open transaction of another request holds the row (u, r).            *)
Held(p, u, r) ==
    \E q \in Procs \ {p} : /\ did[q] \in {"insert", "delete"}
                           /\ user[q] = u /\ role[q] = r

Init ==
    /\ present   = {}
    /\ member    = [u \in Users |-> {}]
    /\ roleState = [r \in Roles |-> "active"]
    /\ pc        = [p \in Procs |-> "idle"]
    /\ op        = [p \in Procs |-> "none"]
    /\ user      = [p \in Procs |-> None]
    /\ role      = [p \in Procs |-> None]
    /\ roles     = [p \in Procs |-> {}]
    /\ did       = [p \in Procs |-> "none"]
    /\ raced     = {}

Begin(p, o, u, r, to) ==
    /\ Goto(p, "idle", to)
    /\ op' = [op EXCEPT ![p] = o]
    /\ user' = [user EXCEPT ![p] = u]
    /\ role' = [role EXCEPT ![p] = r]
    /\ UNCHANGED <<tables, did, raced>>

(* The request is over; a transaction still open is rolled back.           *)
Ended(p) ==
    /\ pc' = [pc EXCEPT ![p] = "idle"]
    /\ op' = [op EXCEPT ![p] = "none"]
    /\ user' = [user EXCEPT ![p] = None]
    /\ role' = [role EXCEPT ![p] = None]
    /\ roles' = [roles EXCEPT ![p] = {}]
    /\ did' = [did EXCEPT ![p] = "none"]
    /\ raced' = raced \ {p}
    /\ UNCHANGED tables

Refused(p, from) == pc[p] = from /\ Ended(p)

-----------------------------------------------------------------------------
(* AssignRoleToUserUseCase.                                                *)

BeginAssign(p) ==
    /\ \E u \in Users, r \in Roles : Begin(p, "assign", u, r, "loadUser")
    /\ UNCHANGED roles

(* Variant: the user is not looked up.                                     *)
AssignUserUnchecked(p) ==
    /\ Goto(p, "loadUser", "loadRole")
    /\ op[p] = "assign"
    /\ UNCHANGED <<tables, inputs, roles, did, raced>>

AssignUser(p) ==
    /\ Goto(p, "loadUser", "loadRole")
    /\ op[p] = "assign"
    /\ user[p] \in present
    /\ UNCHANGED <<tables, inputs, roles, did, raced>>

AssignRole(p) ==
    /\ Goto(p, "loadRole", "exists")
    /\ roleState[role[p]] = "active"
    /\ UNCHANGED <<tables, inputs, roles, did, raced>>

(* Not found, or inactive.                                                 *)
RoleRefused(p) == Refused(p, "loadRole") /\ roleState[role[p]] # "active"

(* Variant: the count forgets to name the role.                            *)
ExistsAny(p) ==
    /\ pc[p] = "exists"
    /\ Goto(p, "exists", IF member[user[p]] # {} THEN "commit" ELSE "insert")
    /\ raced' = raced \ {p}
    /\ UNCHANGED <<tables, inputs, roles, did>>

(* assign_role skips the INSERT when the row is there already.             *)
Exists(p) ==
    /\ pc[p] = "exists"
    /\ Goto(p, "exists", IF role[p] \in member[user[p]] THEN "commit" ELSE "insert")
    /\ raced' = raced \ {p}
    /\ UNCHANGED <<tables, inputs, roles, did>>

Insert(p) ==
    /\ Goto(p, "insert", "commit")
    /\ ~Held(p, user[p], role[p])
    /\ role[p] \notin member[user[p]]
    /\ did' = [did EXCEPT ![p] = "insert"]
    /\ UNCHANGED <<tables, inputs, roles, raced>>

(* Another request has inserted the row since: the primary key refuses it. *)
InsertRefused(p) ==
    /\ Refused(p, "insert")
    /\ ~Held(p, user[p], role[p])
    /\ role[p] \in member[user[p]]

-----------------------------------------------------------------------------
(* RemoveRoleFromUserUseCase.                                              *)

BeginRemove(p) ==
    /\ \E u \in Users, r \in Roles : Begin(p, "remove", u, r, "loadUser")
    /\ UNCHANGED roles

(* Variant: the roles counted include deleted ones.                        *)
RemoveUserAll(p) ==
    /\ Goto(p, "loadUser", "find")
    /\ op[p] = "remove"
    /\ user[p] \in present
    /\ Cardinality(member[user[p]]) > 1
    /\ roles' = [roles EXCEPT ![p] = member[user[p]]]
    /\ raced' = raced \ {p}
    /\ UNCHANGED <<tables, inputs, did>>

(* The guard against removing the last role.                               *)
RemoveUser(p) ==
    /\ Goto(p, "loadUser", "find")
    /\ op[p] = "remove"
    /\ user[p] \in present
    /\ Cardinality(Effective(user[p])) > 1
    /\ roles' = [roles EXCEPT ![p] = Effective(user[p])]
    /\ raced' = raced \ {p}
    /\ UNCHANGED <<tables, inputs, did>>

LastRoleRefused(p) ==
    /\ op[p] = "remove"
    /\ user[p] \in present
    /\ Cardinality(Effective(user[p])) <= 1
    /\ Refused(p, "loadUser")

UserRefused(p) == user[p] \notin present /\ Refused(p, "loadUser")

(* remove_role does nothing about a role that the user does not have.      *)
Find(p) ==
    /\ pc[p] = "find"
    /\ Goto(p, "find", IF role[p] \in member[user[p]] THEN "delete" ELSE "commit")
    /\ UNCHANGED <<tables, inputs, roles, did, raced>>

(* A DELETE that matches no row any more is not an error.                  *)
Delete(p) ==
    /\ Goto(p, "delete", "commit")
    /\ ~Held(p, user[p], role[p])
    /\ did' = [did EXCEPT ![p] =
                 IF role[p] \in member[user[p]] THEN "delete" ELSE "none"]
    /\ UNCHANGED <<tables, inputs, roles, raced>>

-----------------------------------------------------------------------------
(* CreateUserUseCase and RegisterUseCase.                                  *)

BeginCreate(p) ==
    \E u \in Users, rs \in SUBSET Roles :
        /\ Begin(p, "create", u, None, "names")
        /\ roles' = [roles EXCEPT ![p] = rs]

BeginRegister(p) ==
    \E u \in Users :
        /\ Begin(p, "create", u, None, "names")
        /\ roles' = [roles EXCEPT ![p] = {Viewer}]

(* The e-mail is free and the roles exist; they may be inactive.           *)
Names(p) ==
    /\ Goto(p, "names", "add")
    /\ user[p] \notin present
    /\ \A r \in roles[p] : roleState[r] # "deleted"
    /\ UNCHANGED <<tables, inputs, roles, did, raced>>

NamesRefused(p) ==
    /\ \/ user[p] \in present
       \/ \E r \in roles[p] : roleState[r] = "deleted"
    /\ Refused(p, "names")

(* INSERT INTO users; the roles stay on the entity.                        *)
Add(p) ==
    /\ Goto(p, "add", "commit")
    /\ ~\E q \in Procs \ {p} : did[q] = "create" /\ user[q] = user[p]
    /\ user[p] \notin present
    /\ did' = [did EXCEPT ![p] = "create"]
    /\ UNCHANGED <<tables, inputs, roles, raced>>

AddRefused(p) == user[p] \in present /\ Refused(p, "add")

-----------------------------------------------------------------------------
(* The requests in flight about a user whose rows change to m, or one of   *)
(* whose roles is deleted as states change to s.                           *)
Disturbed(m, s) ==
    {q \in Procs :
        /\ pc[q] \in Decided /\ user[q] \in Users
        /\ \/ m[user[q]] # member[user[q]]
           \/ \E r \in member[user[q]] : s[r] # roleState[r] /\ s[r] = "deleted"}

(* The rows that the open transaction adds and takes away.                 *)
Inserted(p) == IF did[p] = "insert" THEN {role[p]} ELSE {}
Deleted(p)  == IF did[p] = "delete" THEN {role[p]} ELSE {}

(* The audit row is flushed and the transaction commits.                   *)
Commit(p) ==
    /\ Goto(p, "commit", "done")
    /\ present' = IF did[p] = "create" THEN present \cup {user[p]} ELSE present
    /\ member' = [u \in Users |->
          IF u = user[p] THEN (member[u] \cup Inserted(p)) \ Deleted(p) ELSE member[u]]
    /\ did' = [did EXCEPT ![p] = "none"]
    /\ raced' = raced \cup (Disturbed(member', roleState) \ {p})
    /\ UNCHANGED <<roleState, inputs, roles>>

Respond(p) == Refused(p, "done")

(* Any exception, or a lost worker.                                        *)
Abort(p) == pc[p] # "idle" /\ Ended(p)

(* UpdateRoleUseCase and DeleteRoleUseCase, which look at no members.      *)
SetRole(r, s) ==
    /\ r \notin System
    /\ roleState[r] \notin {"deleted", s}
    /\ roleState' = [roleState EXCEPT ![r] = s]
    /\ raced' = raced \cup Disturbed(member, roleState')
    /\ UNCHANGED <<present, member, pc, inputs, roles, did>>

ActivateRole(r)   == SetRole(r, "active")
DeactivateRole(r) == SetRole(r, "inactive")
DeleteRole(r)     == SetRole(r, "deleted")

Assign(p) == BeginAssign(p) \/ AssignUser(p) \/ AssignRole(p) \/ RoleRefused(p)
             \/ Exists(p) \/ Insert(p) \/ InsertRefused(p)

Remove(p) == BeginRemove(p) \/ RemoveUser(p) \/ LastRoleRefused(p)
             \/ Find(p) \/ Delete(p)

Create(p) == BeginCreate(p) \/ BeginRegister(p) \/ Names(p) \/ NamesRefused(p)
             \/ Add(p) \/ AddRefused(p)

Next ==
    \/ \E p \in Procs : \/ Assign(p) \/ Remove(p) \/ Create(p) \/ UserRefused(p)
                        \/ Commit(p) \/ Respond(p) \/ Abort(p)
    \/ \E r \in Roles : ActivateRole(r) \/ DeactivateRole(r) \/ DeleteRole(r)

Spec == Init /\ [][Next]_vars

-----------------------------------------------------------------------------
(* Properties.                                                             *)

(* With the foreign keys: only a user who exists has rows in user_roles.   *)
TypeOK ==
    /\ present   \subseteq Users
    /\ member    \in [Users -> SUBSET Roles]
    /\ \A u \in Users \ present : member[u] = {}
    /\ roleState \in [Roles -> {"active", "inactive", "deleted"}]
    /\ pc        \in [Procs -> Steps]
    /\ op        \in [Procs -> Ops]
    /\ user      \in [Procs -> Users \cup {None}]
    /\ role      \in [Procs -> Roles \cup {None}]
    /\ roles     \in [Procs -> SUBSET Roles]
    /\ did       \in [Procs -> {"none", "insert", "delete", "create"}]
    /\ raced     \subseteq Procs

(* A user loses the last role only with the deletion of that role, or by a *)
(* removal during which another request took a role of the same user away  *)
(* (manage_roles.py, the guard of RemoveRoleFromUserUseCase).              *)
LastRoleNeedsRace ==
    [][\A u \in Users :
          Effective(u) # {} /\ Effective(u)' = {} =>
              \/ roleState' # roleState
              \/ \E p \in raced : pc[p] = "commit" /\ pc'[p] = "done"
                                  /\ user[p] = u]_vars

(* When an assignment has committed, the user has the role: the no-op of   *)
(* an existing row is as good as the INSERT, and no INSERT is sent that    *)
(* the primary key will refuse (user_repo.py assign_role, "idempotent").   *)
(* When a removal has, the row is gone, that of a deleted or an inactive   *)
(* role too.  All unless another request changed the user's roles since    *)
(* the row was looked for.                                                 *)
AnsweredIsStored ==
    \A p \in Procs \ raced :
        /\ pc[p] = "insert" => role[p] \notin member[user[p]]
        /\ pc[p] = "done" =>
              /\ op[p] = "assign" => role[p] \in member[user[p]]
              /\ op[p] = "remove" => role[p] \notin member[user[p]]

(* "Creates user, assigns roles": when a creation has committed, the new   *)
(* user has the roles asked for.  No row of user_roles is written.         *)
CreatedWithRoles ==
    \A p \in Procs \ raced :
        pc[p] = "done" /\ op[p] = "create" => roles[p] \subseteq member[user[p]]

(* What a creation does instead, for whatever roles it was asked: its user *)
(* has none when it has committed.  The first comes with an assignment.    *)
CreatedWithoutRoles ==
    \A p \in Procs \ raced :
        pc[p] = "done" /\ op[p] = "create" => user[p] \in present /\ member[user[p]] = {}
=============================================================================
