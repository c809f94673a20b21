------------------------- MODULE AccessRightsProofs -------------------------
(* Theorems about AccessRights and the RolePermissions it builds on, for   *)
(* every number of users, roles, permissions, tokens and requests.         *)
EXTENDS AccessRights, FiniteSetTheorems, TLAPS

-----------------------------------------------------------------------------
(* The managers of role_permissions.                                       *)

ManagerStep(m) == BeginManage(m) \/ Proceed(m) \/ Victim(m) \/ MAbort(m)
RoleStep == \E r \in Roles, s \in RoleStates : SetRole(r, s)

(* What the entity and the open transaction of m amount to.                *)
Pending(m) == did[m] \cup (IF mpc[m] = "write" THEN {cur[m]} ELSE {})

Snapshot(m) ==
    entity[m] = IF mop[m] = "assign" THEN granted[mrole[m]] \cup Pending(m)
                                     ELSE granted[mrole[m]] \ Pending(m)

ManagerShape(m) ==
    /\ mpc[m] # "idle" => mop[m] \in {"assign", "remove"} /\ mrole[m] \in Roles
    /\ mpc[m] = "write" => cur[m] \in Perms
    /\ mpc[m] \in {"idle", "load", "done"} => did[m] = {}
    /\ mpc[m] \in {"each", "write", "done"} /\ m \notin mraced => Snapshot(m)

RPInv == TypeOKRP /\ \A m \in Managers : ManagerShape(m)

LEMMA EndedManager ==
  ASSUME RPInv, NEW m \in Managers, MEnded(m)
  PROVE  RPInv'
<1>1. TypeOKRP'
  BY DEF RPInv, TypeOKRP, MEnded, tables, ManagerSteps, ManagerOps
<1>2. ManagerShape(m)'
  BY DEF RPInv, TypeOKRP, MEnded, ManagerShape
<1>3. ASSUME NEW n \in Managers, n # m PROVE ManagerShape(n)'
  <2>1. ManagerShape(n)
    BY DEF RPInv
  <2>2. /\ mpc'[n] = mpc[n] /\ mop'[n] = mop[n] /\ mrole'[n] = mrole[n] /\ cur'[n] = cur[n]
        /\ entity'[n] = entity[n] /\ did'[n] = did[n] /\ granted' = granted
        /\ n \in mraced' <=> n \in mraced
    BY <1>3 DEF RPInv, TypeOKRP, MEnded, tables
  <2> QED
    BY <2>1, <2>2 DEF ManagerShape, Snapshot, Pending
<1> QED
  BY <1>1, <1>2, <1>3 DEF RPInv

(* A step that leaves the other managers' part of the state alone.         *)
LEMMA OtherManagers ==
  ASSUME RPInv, NEW n \in Managers,
         mpc'[n] = mpc[n], mop'[n] = mop[n], mrole'[n] = mrole[n], cur'[n] = cur[n],
         entity'[n] = entity[n], did'[n] = did[n],
         granted' = granted, n \in mraced' <=> n \in mraced
  PROVE  ManagerShape(n)'
<1>1. ManagerShape(n)
  BY DEF RPInv
<1> QED
  BY <1>1 DEF ManagerShape, Snapshot, Pending

LEMMA BeginManageStep ==
  ASSUME RPInv, NEW m \in Managers, BeginManage(m)
  PROVE  RPInv'
<1>1. PICK o \in {"assign", "remove"}, r \in Roles, xs \in SUBSET Perms :
        /\ mpc[m] = "idle" /\ mpc' = [mpc EXCEPT ![m] = "load"]
        /\ mop' = [mop EXCEPT ![m] = o] /\ mrole' = [mrole EXCEPT ![m] = r]
        /\ todo' = [todo EXCEPT ![m] = xs]
        /\ UNCHANGED <<tables, cur, entity, did, mraced>>
  BY DEF BeginManage, MGoto
<1>2. TypeOKRP'
  BY <1>1 DEF RPInv, TypeOKRP, tables, ManagerSteps, ManagerOps
<1>3. ManagerShape(m)'
  BY <1>1 DEF RPInv, TypeOKRP, ManagerShape
<1>4. ASSUME NEW n \in Managers, n # m PROVE ManagerShape(n)'
  BY <1>1, <1>4, OtherManagers DEF RPInv, TypeOKRP, tables
<1> QED
  BY <1>2, <1>3, <1>4 DEF RPInv

LEMMA LoadRoleStep ==
  ASSUME RPInv, NEW m \in Managers, LoadRole(m)
  PROVE  RPInv'
<1>1. ManagerShape(m) /\ mpc[m] = "load"
  BY DEF RPInv, LoadRole, MGoto
<1>2. mrole[m] \in Roles /\ did[m] = {}
  BY <1>1 DEF ManagerShape
<1>3. TypeOKRP'
  BY <1>2 DEF RPInv, TypeOKRP, LoadRole, MGoto, tables, ManagerSteps
<1>4. ManagerShape(m)'
  BY <1>1, <1>2 DEF RPInv, TypeOKRP, LoadRole, MGoto, tables, ManagerShape, Snapshot, Pending
<1>5. ASSUME NEW n \in Managers, n # m PROVE ManagerShape(n)'
  BY <1>5, OtherManagers DEF RPInv, TypeOKRP, LoadRole, MGoto, tables
<1> QED
  BY <1>3, <1>4, <1>5 DEF RPInv

LEMMA EachStep ==
  ASSUME RPInv, NEW m \in Managers, Each(m)
  PROVE  RPInv'
<1> DEFINE r == mrole[m]
<1>1. PICK x \in todo[m] :
        /\ mpc[m] = "each"
        /\ todo' = [todo EXCEPT ![m] = @ \ {x}]
        /\ entity' = [entity EXCEPT ![m] = Edited(m, x)]
        /\ LET write == (x \in granted[r]) <=> (mop[m] = "remove") IN
           /\ mpc' = [mpc EXCEPT ![m] = IF write THEN "write" ELSE "each"]
           /\ cur' = [cur EXCEPT ![m] = IF write THEN x ELSE NoPerm]
        /\ UNCHANGED <<tables, mop, mrole, did, mraced>>
  BY DEF Each
<1>2. ManagerShape(m) /\ TypeOKRP
  BY DEF RPInv
<1>3. x \in Perms /\ mop[m] \in {"assign", "remove"} /\ r \in Roles
  BY <1>1, <1>2 DEF TypeOKRP, ManagerShape
<1>4. Edited(m, x) \in SUBSET Perms
  BY <1>2, <1>3 DEF Edited, TypeOKRP
<1>5. TypeOKRP'
  BY <1>1, <1>2, <1>3, <1>4 DEF TypeOKRP, tables, ManagerSteps
<1>6. ManagerShape(m)'
  <2>1. /\ mop'[m] = mop[m] /\ mrole'[m] = r /\ did'[m] = did[m] /\ granted' = granted
        /\ entity'[m] = Edited(m, x) /\ mpc'[m] \in {"each", "write"}
        /\ mpc'[m] = "write" => cur'[m] = x
        /\ m \in mraced' <=> m \in mraced
    BY <1>1, <1>2, <1>4 DEF TypeOKRP, tables
  <2>2. (mpc'[m] = "write") <=> ((x \in granted[r]) <=> (mop[m] = "remove"))
    BY <1>1, <1>2 DEF TypeOKRP
  <2>3. ASSUME m \notin mraced PROVE Snapshot(m)'
    <3>1. entity[m] = IF mop[m] = "assign" THEN granted[r] \cup did[m] ELSE granted[r] \ did[m]
      BY <1>1, <1>2, <2>3 DEF ManagerShape, Snapshot, Pending
    <3>2. CASE mop[m] = "assign"
      BY <1>3, <2>1, <2>2, <3>1, <3>2 DEF Snapshot, Pending, Edited
    <3>3. CASE mop[m] = "remove"
      BY <1>3, <2>1, <2>2, <3>1, <3>3 DEF Snapshot, Pending, Edited
    <3> QED
      BY <1>3, <3>2, <3>3
  <2> QED
    BY <1>3, <2>1, <2>3 DEF ManagerShape
<1>7. ASSUME NEW n \in Managers, n # m PROVE ManagerShape(n)'
  BY <1>1, <1>2, <1>7, OtherManagers DEF TypeOKRP, tables
<1> QED
  BY <1>5, <1>6, <1>7 DEF RPInv

LEMMA WriteStep ==
  ASSUME RPInv, NEW m \in Managers, Write(m)
  PROVE  RPInv'
<1> DEFINE r == mrole[m]
           new == IF mop[m] = "assign" THEN did[m] \cup {cur[m]}
                                       ELSE did[m] \cup ({cur[m]} \cap granted[r])
<1>1. /\ mpc[m] = "write" /\ mpc' = [mpc EXCEPT ![m] = "each"]
      /\ did' = [did EXCEPT ![m] = new]
      /\ cur' = [cur EXCEPT ![m] = NoPerm]
      /\ UNCHANGED <<tables, mop, mrole, todo, entity, mraced>>
  BY DEF Write, MGoto
<1>2. ManagerShape(m) /\ TypeOKRP
  BY DEF RPInv
<1>3. cur[m] \in Perms /\ mop[m] \in {"assign", "remove"} /\ r \in Roles
  BY <1>1, <1>2 DEF ManagerShape
<1>4. new \in SUBSET Perms
  BY <1>2, <1>3 DEF TypeOKRP
<1>5. TypeOKRP'
  BY <1>1, <1>2, <1>4 DEF TypeOKRP, tables, ManagerSteps
<1>6. ManagerShape(m)'
  <2>1. /\ mop'[m] = mop[m] /\ mrole'[m] = r /\ did'[m] = new /\ granted' = granted
        /\ entity'[m] = entity[m] /\ mpc'[m] = "each"
        /\ m \in mraced' <=> m \in mraced
    BY <1>1, <1>2 DEF TypeOKRP, tables
  <2>2. ASSUME m \notin mraced PROVE Snapshot(m)'
    <3>1. entity[m] = IF mop[m] = "assign" THEN granted[r] \cup (did[m] \cup {cur[m]})
                                           ELSE granted[r] \ (did[m] \cup {cur[m]})
      BY <1>1, <1>2, <2>2 DEF ManagerShape, Snapshot, Pending
    <3> QED
      BY <1>3, <2>1, <3>1 DEF Snapshot, Pending
  <2> QED
    BY <1>3, <2>1, <2>2 DEF ManagerShape
<1>7. ASSUME NEW n \in Managers, n # m PROVE ManagerShape(n)'
  BY <1>1, <1>2, <1>7, OtherManagers DEF TypeOKRP, tables
<1> QED
  BY <1>5, <1>6, <1>7 DEF RPInv

LEMMA CommitStep ==
  ASSUME RPInv, NEW m \in Managers, Commit(m)
  PROVE  RPInv'
<1> DEFINE r == mrole[m]
<1>1. /\ mpc[m] = "each" /\ mpc' = [mpc EXCEPT ![m] = "done"]
      /\ granted' = [granted EXCEPT ![r] = Result(m)]
      /\ did' = [did EXCEPT ![m] = {}]
      /\ mraced' = mraced \cup {n \in Managers \ {m} : did[m] # {} /\ mrole[n] = mrole[m]}
      /\ UNCHANGED <<roleState, mop, mrole, todo, cur, entity>>
  BY DEF Commit, MGoto
<1>2. ManagerShape(m) /\ TypeOKRP
  BY DEF RPInv
<1>3. mop[m] \in {"assign", "remove"} /\ r \in Roles
  BY <1>1, <1>2 DEF ManagerShape
<1>4. Result(m) \in SUBSET Perms
  BY <1>2, <1>3 DEF TypeOKRP, Result
<1>5. TypeOKRP'
  BY <1>1, <1>2, <1>4 DEF TypeOKRP, ManagerSteps
<1>6. ManagerShape(m)'
  <2>1. /\ mop'[m] = mop[m] /\ mrole'[m] = r /\ did'[m] = {} /\ granted'[r] = Result(m)
        /\ entity'[m] = entity[m] /\ mpc'[m] = "done"
        /\ m \in mraced' <=> m \in mraced
    BY <1>1, <1>2, <1>3 DEF TypeOKRP
  <2>2. ASSUME m \notin mraced PROVE Snapshot(m)'
    <3>1. entity[m] = Result(m)
      BY <1>1, <1>2, <2>2 DEF ManagerShape, Snapshot, Pending, Result
    <3> QED
      BY <2>1, <3>1 DEF Snapshot, Pending
  <2> QED
    BY <1>3, <2>1, <2>2 DEF ManagerShape
<1>7. ASSUME NEW n \in Managers, n # m PROVE ManagerShape(n)'
  <2>1. ManagerShape(n)
    BY DEF RPInv
  <2>2. /\ mpc'[n] = mpc[n] /\ mop'[n] = mop[n] /\ mrole'[n] = mrole[n] /\ cur'[n] = cur[n]
        /\ entity'[n] = entity[n] /\ did'[n] = did[n]
    BY <1>1, <1>2, <1>7 DEF TypeOKRP
  <2>3. ASSUME n \notin mraced', mrole[n] \in Roles
        PROVE  n \notin mraced /\ granted'[mrole[n]] = granted[mrole[n]]
    <3>1. n \notin mraced /\ (did[m] = {} \/ mrole[n] # r)
      BY <1>1, <1>7, <2>3
    <3>2. CASE mrole[n] # r
      BY <1>1, <1>2, <2>3, <3>1, <3>2 DEF TypeOKRP
    <3>3. CASE did[m] = {}
      <4>1. Result(m) = granted[r]
        BY <3>3 DEF Result
      <4> QED
        BY <1>1, <1>2, <2>3, <3>1, <4>1 DEF TypeOKRP
    <3> QED
      BY <3>1, <3>2, <3>3
  <2> QED
    BY <2>1, <2>2, <2>3 DEF ManagerShape, Snapshot, Pending
<1> QED
  BY <1>5, <1>6, <1>7 DEF RPInv

LEMMA RoleStepKeeps ==
  ASSUME RPInv, RoleStep
  PROVE  RPInv'
<1>1. PICK r \in Roles, s \in RoleStates : SetRole(r, s)
  BY DEF RoleStep
<1>2. TypeOKRP'
  BY <1>1 DEF RPInv, TypeOKRP, SetRole
<1>3. ASSUME NEW n \in Managers PROVE ManagerShape(n)'
  BY <1>1, OtherManagers DEF SetRole
<1> QED
  BY <1>2, <1>3 DEF RPInv

LEMMA ManagerStepKeeps ==
  ASSUME RPInv, NEW m \in Managers, ManagerStep(m)
  PROVE  RPInv'
<1>1. CASE BeginManage(m)
  BY <1>1, BeginManageStep
<1>2. CASE LoadRole(m)
  BY <1>2, LoadRoleStep
<1>3. CASE Each(m)
  BY <1>3, EachStep
<1>4. CASE Write(m)
  BY <1>4, WriteStep
<1>5. CASE Commit(m)
  BY <1>5, CommitStep
<1>6. CASE RoleNotFound(m) \/ InsertRefused(m) \/ Respond(m) \/ Victim(m) \/ MAbort(m)
  <2>1. MEnded(m)
    BY <1>6 DEF RoleNotFound, InsertRefused, Respond, Victim, MAbort
  <2> QED
    BY <2>1, EndedManager
<1> QED
  BY <1>1, <1>2, <1>3, <1>4, <1>5, <1>6 DEF ManagerStep, Proceed

LEMMA InitRPInv == InitRP => RPInv
<1> SUFFICES ASSUME InitRP PROVE RPInv
  OBVIOUS
<1>1. TypeOKRP
  BY SeedAssumption DEF InitRP, TypeOKRP, RoleStates, ManagerSteps, ManagerOps
<1>2. \A m \in Managers : ManagerShape(m)
  BY DEF InitRP, ManagerShape
<1> QED
  BY <1>1, <1>2 DEF RPInv

LEMMA SameRP ==
  ASSUME RPInv, UNCHANGED vars_rp
  PROVE  RPInv'
<1>1. TypeOKRP'
  BY DEF RPInv, TypeOKRP, vars_rp, tables
<1>2. ASSUME NEW m \in Managers PROVE ManagerShape(m)'
  BY OtherManagers DEF vars_rp, tables
<1> QED
  BY <1>1, <1>2 DEF RPInv

-----------------------------------------------------------------------------
(* The steps, by who takes them.                                           *)

CallerStep(p) == (Issue(p) \/ Use(p) \/ Logout(p) \/ Abort(p)) /\ TablesStay
AdminStep == \/ ChangeRole \/ ChangeMember \/ ChangeStatus \/ StartManaging
             \/ \E m \in Managers : Manage(m)

LEMMA WhoSteps ==
  ASSUME Next, setting \in Settings
  PROVE  \/ \E p \in Callers : CallerStep(p)
         \/ AdminStep
         \/ \E m \in Managers : AbortManaging(m)
         \/ Tick
<1>1. setting.callers \subseteq Callers
  BY SettingsAssumption
<1> QED
  BY <1>1 DEF Next, CallerStep, AdminStep

(* What an administrator's step leaves alone, and whom it overtakes.       *)
LEMMA AdminStays ==
  ASSUME AdminStep
  PROVE  RequestsStay /\ Overtake
  BY DEF AdminStep, ChangeRole, ChangeMember, ChangeStatus, StartManaging, Change, Manage

(* The table of permissions under AccessRights.                            *)
LEMMA NextRPInv ==
  ASSUME RPInv, setting \in Settings, [Next]_vars
  PROVE  RPInv'
<1>1. ASSUME NEW p \in Callers, CallerStep(p) PROVE RPInv'
  BY <1>1, SameRP DEF CallerStep, TablesStay
<1>2. CASE ChangeRole
  BY <1>2, RoleStepKeeps DEF ChangeRole, RoleStep
<1>3. CASE ChangeMember \/ ChangeStatus
  BY <1>3, SameRP DEF ChangeMember, ChangeStatus
<1>4. CASE StartManaging
  <2>1. setting.managers \subseteq Managers
    BY SettingsAssumption
  <2> QED
    BY <1>4, <2>1, ManagerStepKeeps DEF StartManaging, ManagerStep
<1>5. ASSUME NEW m \in Managers, Manage(m) \/ AbortManaging(m) PROVE RPInv'
  BY <1>5, ManagerStepKeeps DEF Manage, AbortManaging, ManagerStep
<1>6. CASE Tick \/ UNCHANGED vars
  BY <1>6, SameRP DEF Tick, vars
<1> QED
  BY <1>1, <1>2, <1>3, <1>4, <1>5, <1>6, WhoSteps DEF AdminStep

-----------------------------------------------------------------------------
(* Types, by what keeps the state: the tables and the clock, the tokens,   *)
(* the blacklist, the requests.                                            *)

WorldType ==
    /\ setting \in Settings
    /\ changes \in Nat
    /\ sec \in Nat /\ part \in 0 .. Parts - 1
    /\ status \in [Users -> Statuses]
    /\ member \in [Users -> SUBSET Roles]
    /\ offSec \in [Users -> Nat]
TokenType ==
    /\ owner \in [Tokens -> Users \cup {NoUser}]
    /\ carries \in [Tokens -> SUBSET Perms]
    /\ exp \in [Tokens -> Nat]
    /\ late \subseteq Tokens
BlackType ==
    /\ blackSec \in [Tokens -> Nat]
    /\ blackPart \in [Tokens -> 0 .. Parts - 1]
    /\ closed \subseteq Tokens
RequestType ==
    /\ pc \in [Callers -> Steps]
    /\ op \in [Callers -> Ops]
    /\ user \in [Callers -> Users \cup {NoUser}]
    /\ tok \in [Callers -> Tokens \cup {NoToken}]
    /\ need \in [Callers -> Perms \cup {NoPerm}]
    /\ seen \in [Callers -> SUBSET Perms]
    /\ can \in [Callers -> BOOLEAN]
    /\ remaining \in [Callers -> Nat]
    /\ stale \subseteq Callers /\ overtaken \subseteq Callers

LEMMA TypesTogether ==
  TypeOK <=> TypeOKRP /\ WorldType /\ TokenType /\ BlackType /\ RequestType
  BY DEF TypeOK, WorldType, TokenType, BlackType, RequestType

(* What a role's rights and a user's rights are sets of.                   *)
LEMMA RightsType ==
  ASSUME TypeOKRP, WorldType, NEW u \in Users
  PROVE  Rights(u) \in SUBSET Perms
<1>1. \A r \in Loaded(u) : granted[r] \in SUBSET Perms
  BY DEF TypeOKRP, WorldType, Loaded
<1> QED
  BY <1>1 DEF Rights

LEMMA NextWorldType ==
  ASSUME WorldType, [Next]_vars
  PROVE  WorldType'
<1> USE TimeAssumption DEF WorldType
<1>1. ASSUME NEW p \in Callers, CallerStep(p) PROVE WorldType'
  BY <1>1 DEF CallerStep, TablesStay, clock, userVars
<1>2. CASE ChangeRole \/ StartManaging
  BY <1>2 DEF ChangeRole, StartManaging, Change, RequestsStay, clock, userVars
<1>3. CASE ChangeMember
  <2>1. PICK u \in setting.users, r \in Roles :
          member' = [member EXCEPT ![u] = IF r \in @ THEN @ \ {r} ELSE @ \cup {r}]
    BY <1>3 DEF ChangeMember
  <2>2. member' \in [Users -> SUBSET Roles]
    BY <2>1
  <2> QED
    BY <1>3, <2>2 DEF ChangeMember, Change, RequestsStay, clock
<1>4. CASE ChangeStatus
  <2>1. PICK u \in setting.users, s \in Statuses :
          /\ status' = [status EXCEPT ![u] = s]
          /\ offSec' = [offSec EXCEPT ![u] = IF status[u] = "active" THEN sec ELSE @]
    BY <1>4 DEF ChangeStatus
  <2>2. status' \in [Users -> Statuses] /\ offSec' \in [Users -> Nat]
    BY <2>1
  <2> QED
    BY <1>4, <2>2 DEF ChangeStatus, Change, RequestsStay, clock
<1>5. ASSUME NEW m \in Managers, Manage(m) \/ AbortManaging(m) PROVE WorldType'
  BY <1>5 DEF Manage, AbortManaging, RequestsStay, accessVars, clock, userVars
<1>6. CASE Tick
  BY <1>6 DEF Tick, userVars
<1>7. CASE UNCHANGED vars
  BY <1>7 DEF vars, accessVars, clock, userVars
<1> QED
  BY <1>1, <1>2, <1>3, <1>4, <1>5, <1>6, <1>7, WhoSteps DEF AdminStep

(* Who a request acts for, and with what, at each of its steps.            *)
Issuing == {"roles", "mint"}
Presenting == {"lookup", "actor", "act", "done", "remaining", "store"}

Shape(p) ==
    /\ pc[p] \in Issuing => user[p] \in Users /\ op[p] \in Issues
    /\ pc[p] \in Presenting =>
          /\ tok[p] \in Tokens /\ user[p] \in Users /\ owner[tok[p]] = user[p]

(* Request q has not moved.                                                *)
Kept(q) ==
    /\ pc'[q] = pc[q] /\ op'[q] = op[q] /\ user'[q] = user[q] /\ tok'[q] = tok[q]
    /\ need'[q] = need[q] /\ seen'[q] = seen[q] /\ can'[q] = can[q]
    /\ remaining'[q] = remaining[q]
    /\ q \in stale' <=> q \in stale
    /\ q \in overtaken' <=> q \in overtaken

(* The request of p is over.                                               *)
LEMMA EndedFacts ==
  ASSUME RequestType, NEW p \in Callers, Ended(p)
  PROVE  /\ RequestType'
         /\ \A q \in Callers \ {p} : Kept(q)
         /\ pc'[p] = "idle"
  BY DEF RequestType, Ended, Kept, Steps, Ops

LEMMA EndedSteps ==
  ASSUME NEW p \in Callers,
         UserGone(p) \/ Mint(p) \/ LookupRefused(p) \/ ActorGone(p) \/ OwnershipRefused(p)
         \/ Answer(p) \/ NothingToBlacklist(p) \/ Store(p) \/ Abort(p)
  PROVE  Ended(p)
  BY DEF UserGone, Mint, LookupRefused, ActorGone, OwnershipRefused, Answer,
         NothingToBlacklist, Store, Abort, Refused

(* What each step does to the request that takes it, and to no other.      *)
LEMMA BeginIssueFacts ==
  ASSUME TypeOKRP, WorldType, RequestType, NEW p \in Callers, BeginIssue(p)
  PROVE  \E u \in Users, o \in Issues :
           /\ status[u] = "active"
           /\ RequestType'
           /\ \A q \in Callers \ {p} : Kept(q)
           /\ pc[p] = "idle" /\ pc'[p] = "roles"
           /\ user'[p] = u /\ op'[p] = o /\ seen'[p] = Rights(u)
           /\ UNCHANGED <<tokenVars, blackVars, histories>>
<1>1. PICK u \in setting.users, o \in Issues :
        /\ status[u] = "active"
        /\ op' = [op EXCEPT ![p] = o]
        /\ user' = [user EXCEPT ![p] = u]
        /\ seen' = [seen EXCEPT ![p] = Rights(u)]
  BY DEF BeginIssue
<1>2. u \in Users /\ o \in Ops
  BY <1>1, SettingsAssumption DEF WorldType, Ops
<1>3. Rights(u) \in SUBSET Perms
  BY <1>2, RightsType
<1>4. /\ pc[p] = "idle" /\ pc' = [pc EXCEPT ![p] = "roles"]
      /\ UNCHANGED <<tok, need, can, remaining, tokenVars, blackVars, histories>>
  BY DEF BeginIssue, Goto
<1>5. RequestType'
  BY <1>1, <1>2, <1>3, <1>4 DEF RequestType, Steps, histories
<1>6. \A q \in Callers \ {p} : Kept(q)
  BY <1>1, <1>4 DEF RequestType, Kept, histories
<1>7. pc'[p] = "roles" /\ user'[p] = u /\ op'[p] = o /\ seen'[p] = Rights(u)
  BY <1>1, <1>4 DEF RequestType
<1> QED
  BY <1>1, <1>2, <1>4, <1>5, <1>6, <1>7

LEMMA LoadRolesFacts ==
  ASSUME TypeOKRP, WorldType, RequestType, NEW p \in Callers, Shape(p), LoadRoles(p)
  PROVE  /\ RequestType'
         /\ \A q \in Callers \ {p} : Kept(q)
         /\ pc[p] = "roles" /\ pc'[p] = "mint"
         /\ user'[p] = user[p] /\ op'[p] = op[p]
         /\ \/ seen'[p] = Rights(user[p])
            \/ seen'[p] = seen[p] /\ stale' = stale
         /\ stale' \subseteq stale /\ overtaken' = overtaken
         /\ UNCHANGED <<tokenVars, blackVars>>
<1>1. /\ pc[p] = "roles" /\ pc' = [pc EXCEPT ![p] = "mint"]
      /\ UNCHANGED <<overtaken, requestVars, can, remaining, tokenVars, blackVars>>
  BY DEF LoadRoles, Goto
<1>2. user[p] \in Users
  BY <1>1 DEF Shape, Issuing
<1>3. Rights(user[p]) \in SUBSET Perms
  BY <1>2, RightsType
<1>4. PICK s \in {seen[p], Rights(user[p])} :
        /\ seen' = [seen EXCEPT ![p] = s]
        /\ s = Rights(user[p]) \/ stale' = stale
        /\ stale' \in {stale, stale \ {p}}
  BY DEF LoadRoles
<1>5. s \in SUBSET Perms
  BY <1>3, <1>4 DEF RequestType
<1>6. RequestType'
  BY <1>1, <1>4, <1>5 DEF RequestType, requestVars, Steps
<1>7. \A q \in Callers \ {p} : Kept(q)
  BY <1>1, <1>4 DEF RequestType, requestVars, Kept
<1>8. seen'[p] = s /\ pc'[p] = "mint"
  BY <1>1, <1>4 DEF RequestType
<1> QED
  BY <1>1, <1>4, <1>6, <1>7, <1>8 DEF requestVars

LEMMA DecodeFacts ==
  ASSUME RequestType, NEW p \in Callers, NEW t \in Tokens, NEW o \in Ops,
         NEW x \in Perms \cup {NoPerm}, TokenType, Decode(p, t, o, x)
  PROVE  /\ RequestType'
         /\ \A q \in Callers \ {p} : Kept(q)
         /\ pc[p] = "idle" /\ pc'[p] = "lookup"
         /\ owner[t] \in Users /\ ~Expired(t)
         /\ tok'[p] = t /\ user'[p] = owner[t] /\ op'[p] = o
         /\ UNCHANGED <<tokenVars, blackVars, histories>>
<1>1. /\ owner[t] # NoUser /\ ~Expired(t)
      /\ pc[p] = "idle" /\ pc' = [pc EXCEPT ![p] = "lookup"]
      /\ op' = [op EXCEPT ![p] = o]
      /\ tok' = [tok EXCEPT ![p] = t]
      /\ user' = [user EXCEPT ![p] = owner[t]]
      /\ need' = [need EXCEPT ![p] = x]
      /\ UNCHANGED <<seen, can, remaining, stale, overtaken>>
  BY DEF Decode, Goto, loaded, histories
<1>2. owner[t] \in Users
  BY <1>1 DEF TokenType
<1>3. RequestType'
  BY <1>1, <1>2 DEF RequestType, Steps
<1>4. \A q \in Callers \ {p} : Kept(q)
  BY <1>1 DEF RequestType, Kept
<1>5. pc'[p] = "lookup" /\ tok'[p] = t /\ user'[p] = owner[t] /\ op'[p] = o
  BY <1>1 DEF RequestType
<1>6. UNCHANGED <<tokenVars, blackVars, histories>>
  BY DEF Decode
<1> QED
  BY <1>1, <1>2, <1>3, <1>4, <1>5, <1>6

LEMMA LookupFacts ==
  ASSUME RequestType, NEW p \in Callers, Lookup(p)
  PROVE  /\ RequestType'
         /\ \A q \in Callers \ {p} : Kept(q)
         /\ pc[p] = "lookup" /\ pc'[p] = AfterLookup(op[p])
         /\ pc'[p] \in {"remaining", "act", "actor"}
         /\ ~Blacklisted(tok[p])
         /\ UNCHANGED <<requestVars, loaded, tokenVars, blackVars, histories>>
<1>1. /\ pc[p] = "lookup" /\ pc' = [pc EXCEPT ![p] = AfterLookup(op[p])]
      /\ ~Blacklisted(tok[p])
      /\ UNCHANGED <<requestVars, loaded, tokenVars, blackVars, histories>>
  BY DEF Lookup, Goto
<1>2. AfterLookup(op[p]) \in {"remaining", "act", "actor"}
  BY DEF AfterLookup
<1> QED
  BY <1>1, <1>2 DEF RequestType, Steps, Kept, requestVars, loaded, histories

LEMMA LoadActorFacts ==
  ASSUME RequestType, NEW p \in Callers, LoadActor(p)
  PROVE  /\ RequestType'
         /\ \A q \in Callers \ {p} : Kept(q)
         /\ pc[p] = "actor" /\ pc'[p] = "act"
         /\ status[user[p]] # "deleted"
         /\ can'[p] => Asked(p) \in ActiveRights(user[p])
         /\ UNCHANGED <<requestVars, tokenVars, blackVars>>
<1> DEFINE c == Asked(p) \in ActiveRights(user[p])
<1>1. /\ pc[p] = "actor" /\ pc' = [pc EXCEPT ![p] = "act"]
      /\ status[user[p]] # "deleted"
      /\ can' = [can EXCEPT ![p] = c]
      /\ stale' = stale \ {p} /\ overtaken' = overtaken \ {p}
      /\ UNCHANGED <<requestVars, seen, remaining, tokenVars, blackVars>>
  BY DEF LoadActor, Goto
<1>2. c \in BOOLEAN
  OBVIOUS
<1> HIDE DEF c
<1>3. RequestType'
  BY <1>1, <1>2 DEF RequestType, Steps, requestVars
<1>4. \A q \in Callers \ {p} : Kept(q)
  BY <1>1 DEF RequestType, Kept, requestVars
<1>5. pc'[p] = "act" /\ can'[p] = c
  BY <1>1 DEF RequestType
<1> QED
  BY <1>1, <1>3, <1>4, <1>5 DEF c

LEMMA ActFacts ==
  ASSUME RequestType, NEW p \in Callers, Act(p)
  PROVE  /\ RequestType'
         /\ \A q \in Callers \ {p} : Kept(q)
         /\ pc[p] = "act" /\ pc'[p] = "done"
         /\ op'[p] \in Foreign => op'[p] = op[p] /\ can[p]
         /\ UNCHANGED <<user, tok, tokenVars, blackVars>>
<1> DEFINE o == IF op[p] = "overview" /\ ~can[p] THEN "own" ELSE op[p]
<1>1. /\ pc[p] = "act" /\ pc' = [pc EXCEPT ![p] = "done"]
      /\ op[p] = "others" => can[p]
      /\ op' = [op EXCEPT ![p] = o]
      /\ UNCHANGED <<user, tok, need, loaded, tokenVars, blackVars, histories>>
  BY DEF Act, Goto
<1>2. o \in Ops
  BY DEF RequestType, Ops, Uses
<1>3. RequestType' /\ \A q \in Callers \ {p} : Kept(q)
  <2> HIDE DEF o
  <2> QED
    BY <1>1, <1>2 DEF RequestType, Steps, Kept, loaded, histories
<1>4. op'[p] = o /\ pc'[p] = "done"
  BY <1>1 DEF RequestType
<1>5. op'[p] \in Foreign => op'[p] = op[p] /\ can[p]
  BY <1>1, <1>4 DEF Foreign
<1> QED
  BY <1>1, <1>3, <1>4, <1>5

LEMMA RemainingFacts ==
  ASSUME WorldType, TokenType, RequestType, NEW p \in Callers, Shape(p), Remaining(p)
  PROVE  /\ RequestType'
         /\ \A q \in Callers \ {p} : Kept(q)
         /\ pc[p] = "remaining" /\ pc'[p] = "store"
         /\ remaining'[p] = exp[tok[p]] - sec
         /\ UNCHANGED <<requestVars, tokenVars, blackVars, histories>>
<1>1. /\ pc[p] = "remaining" /\ pc' = [pc EXCEPT ![p] = "store"]
      /\ ~Expired(tok[p])
      /\ remaining' = [remaining EXCEPT ![p] = exp[tok[p]] - sec]
      /\ UNCHANGED <<requestVars, seen, can, tokenVars, blackVars, histories>>
  BY DEF Remaining, Goto
<1>2. tok[p] \in Tokens
  BY <1>1 DEF Shape, Presenting
<1>3. exp[tok[p]] - sec \in Nat
  BY <1>1, <1>2 DEF Expired, WorldType, TokenType
<1>4. RequestType'
  BY <1>1, <1>3 DEF RequestType, Steps, requestVars, histories
<1>5. \A q \in Callers \ {p} : Kept(q)
  BY <1>1 DEF RequestType, Kept, requestVars, histories
<1>6. pc'[p] = "store" /\ remaining'[p] = exp[tok[p]] - sec
  BY <1>1 DEF RequestType
<1> QED
  BY <1>1, <1>4, <1>5, <1>6

LEMMA MintFacts ==
  ASSUME WorldType, TokenType, NEW p \in Callers, Shape(p), Mint(p)
  PROVE  \E t \in Tokens :
           /\ pc[p] = "mint" /\ owner[t] = NoUser /\ user[p] \in Users
           /\ owner' = [owner EXCEPT ![t] = user[p]]
           /\ carries' = [carries EXCEPT ![t] = seen[p]]
           /\ exp' = [exp EXCEPT ![t] = sec + Lifetime]
           /\ late' = IF p \in overtaken THEN late \cup {t} ELSE late
           /\ UNCHANGED blackVars
<1>1. Unissued \subseteq {t \in Tokens : owner[t] = NoUser}
  BY SettingsAssumption DEF Unissued, WorldType
<1>2. pc[p] = "mint" /\ user[p] \in Users
  BY DEF Mint, Shape, Issuing
<1> QED
  BY <1>1, <1>2 DEF Mint

(* Issued tokens stay their owners', and what they are.                    *)
IssuedStay ==
    \A t \in Tokens : owner[t] # NoUser =>
        /\ owner'[t] = owner[t] /\ carries'[t] = carries[t] /\ exp'[t] = exp[t]
        /\ t \in late' <=> t \in late

LEMMA MintKeepsTokens ==
  ASSUME WorldType, TokenType, RequestType, NEW p \in Callers, Shape(p), Mint(p)
  PROVE  TokenType' /\ IssuedStay
<1>1. PICK t \in Tokens :
        /\ owner[t] = NoUser /\ user[p] \in Users
        /\ owner' = [owner EXCEPT ![t] = user[p]]
        /\ carries' = [carries EXCEPT ![t] = seen[p]]
        /\ exp' = [exp EXCEPT ![t] = sec + Lifetime]
        /\ late' = IF p \in overtaken THEN late \cup {t} ELSE late
  BY MintFacts
<1>2. seen[p] \in SUBSET Perms /\ sec + Lifetime \in Nat
  BY TimeAssumption DEF RequestType, WorldType
<1>3. TokenType'
  BY <1>1, <1>2 DEF TokenType
<1>4. IssuedStay
  BY <1>1 DEF TokenType, IssuedStay
<1> QED
  BY <1>3, <1>4

(* The steps of requests that leave the tokens, or the blacklist, alone.   *)
LEMMA TokensStay ==
  ASSUME NEW p \in Callers, CallerStep(p), ~Mint(p)
  PROVE  UNCHANGED tokenVars
  BY DEF CallerStep, Issue, Use, Logout, BeginIssue, LoadRoles, UserGone, BeginUse, Lookup,
         LookupRefused, LoadActor, ActorGone, Act, OwnershipRefused, Answer, BeginLogout,
         Remaining, NothingToBlacklist, Store, Abort, Decode, Refused

LEMMA BlacklistStays ==
  ASSUME NEW p \in Callers, CallerStep(p), ~NothingToBlacklist(p), ~Store(p)
  PROVE  UNCHANGED blackVars
  BY DEF CallerStep, Issue, Use, Logout, BeginIssue, LoadRoles, UserGone, Mint, BeginUse,
         Lookup, LookupRefused, LoadActor, ActorGone, Act, OwnershipRefused, Answer,
         BeginLogout, Remaining, Abort, Decode, Refused

LEMMA SameIssued ==
  ASSUME UNCHANGED tokenVars
  PROVE  IssuedStay /\ (TokenType => TokenType')
  BY DEF IssuedStay, tokenVars, TokenType

(* An entry that ends, a logout that is through.                           *)
LEMMA ClosingKeepsBlacklist ==
  ASSUME WorldType, BlackType, RequestType, NEW p \in Callers, Shape(p),
         NothingToBlacklist(p) \/ Store(p)
  PROVE  BlackType'
<1>1. tok[p] \in Tokens
  BY DEF NothingToBlacklist, Store, Shape, Presenting
<1>2. CASE NothingToBlacklist(p)
  BY <1>1, <1>2 DEF NothingToBlacklist, BlackType
<1>3. CASE Store(p)
  <2>1. sec + remaining[p] \in Nat /\ part \in 0 .. Parts - 1
    BY DEF WorldType, RequestType
  <2>2. closed' \subseteq Tokens
    BY <1>1, <1>3 DEF Store, BlackType
  <2>3. CASE remaining[p] > 0
    <3>1. /\ blackSec' = [blackSec EXCEPT ![tok[p]] = sec + remaining[p]]
          /\ blackPart' = [blackPart EXCEPT ![tok[p]] = part]
      BY <1>3, <2>3 DEF Store
    <3> QED
      BY <2>1, <2>2, <3>1 DEF BlackType
  <2>4. CASE ~(remaining[p] > 0)
    BY <1>3, <2>2, <2>4 DEF Store, BlackType
  <2> QED
    BY <2>3, <2>4
<1> QED
  BY <1>2, <1>3

LEMMA KeptShape ==
  ASSUME NEW q \in Callers, Kept(q), Shape(q), TokenType, IssuedStay
  PROVE  Shape(q)'
<1>1. NoUser \notin Users
  BY NullAssumption
<1> QED
  BY <1>1 DEF Kept, Shape, IssuedStay, TokenType

-----------------------------------------------------------------------------
(* The first invariant: types, and what the requests are about.            *)
Typed == RPInv /\ WorldType /\ TokenType /\ BlackType /\ RequestType
         /\ \A p \in Callers : Shape(p)

LEMMA TypedMeans ==
  ASSUME Typed
  PROVE  /\ TypeOK /\ TypeOKRP /\ WorldType /\ TokenType /\ BlackType /\ RequestType
         /\ \A p \in Callers : Shape(p)
         /\ setting \in Settings
  BY TypesTogether DEF Typed, RPInv, WorldType

LEMMA CallerTyped ==
  ASSUME Typed, NEW p \in Callers, CallerStep(p)
  PROVE  /\ TokenType' /\ BlackType' /\ RequestType' /\ \A q \in Callers : Shape(q)'
         /\ IssuedStay
         /\ \A q \in Callers \ {p} : Kept(q)
<1> USE TypedMeans
<1>1. TokenType' /\ IssuedStay
  BY TokensStay, SameIssued, MintKeepsTokens
<1>2. BlackType'
  <2>1. UNCHANGED blackVars => BlackType'
    BY DEF blackVars, BlackType
  <2> QED
    BY <2>1, BlacklistStays, ClosingKeepsBlacklist
<1>3. RequestType' /\ (\A q \in Callers \ {p} : Kept(q)) /\ Shape(p)'
  <2>1. CASE Ended(p)
    BY <2>1, EndedFacts DEF Shape, Issuing, Presenting
  <2>2. CASE BeginIssue(p)
    BY <2>2, BeginIssueFacts DEF Shape, Issuing, Presenting
  <2>3. CASE LoadRoles(p)
    BY <2>3, LoadRolesFacts DEF Shape, Issuing, Presenting
  <2>4. ASSUME NEW t \in Tokens, NEW o \in Ops, NEW x \in Perms \cup {NoPerm}, Decode(p, t, o, x)
        PROVE  RequestType' /\ (\A q \in Callers \ {p} : Kept(q)) /\ Shape(p)'
    BY <2>4, DecodeFacts DEF Shape, Issuing, Presenting, tokenVars
  <2>5. CASE BeginUse(p) \/ BeginLogout(p)
    <3>1. PICK t \in Tokens, o \in Ops, x \in Perms \cup {NoPerm} : Decode(p, t, o, x)
      BY <2>5 DEF BeginUse, BeginLogout, Ops
    <3> QED
      BY <3>1, <2>4
  <2>6. CASE Lookup(p)
    BY <2>6, LookupFacts DEF Shape, Issuing, Presenting, requestVars, tokenVars
  <2>7. CASE LoadActor(p)
    BY <2>7, LoadActorFacts DEF Shape, Issuing, Presenting, requestVars, tokenVars
  <2>8. CASE Act(p)
    BY <2>8, ActFacts DEF Shape, Issuing, Presenting, tokenVars
  <2>9. CASE Remaining(p)
    BY <2>9, RemainingFacts DEF Shape, Issuing, Presenting, requestVars, tokenVars
  <2> QED
    BY <2>1, <2>2, <2>3, <2>5, <2>6, <2>7, <2>8, <2>9, EndedSteps
       DEF CallerStep, Issue, Use, Logout
<1> QED
  BY <1>1, <1>2, <1>3, KeptShape

(* A step of an administrator or of the clock.                             *)
LEMMA RequestsStayTyped ==
  ASSUME Typed,
         UNCHANGED <<tokenVars, blackVars, pc, requestVars, loaded>>,
         stale' \subseteq Callers, overtaken' \subseteq Callers
  PROVE  TokenType' /\ BlackType' /\ RequestType' /\ \A q \in Callers : Shape(q)'
<1> USE TypedMeans DEF tokenVars, blackVars, requestVars, loaded
<1>1. TokenType' /\ BlackType'
  BY DEF TokenType, BlackType
<1>2. RequestType'
  BY DEF RequestType
<1>3. \A q \in Callers : Shape(q)'
  BY DEF Shape
<1> QED
  BY <1>1, <1>2, <1>3

LEMMA NextTyped == Typed /\ [Next]_vars => Typed'
<1> SUFFICES ASSUME Typed, [Next]_vars PROVE Typed'
  OBVIOUS
<1> USE TypedMeans
<1>1. RPInv' /\ WorldType'
  BY NextRPInv, NextWorldType DEF Typed
<1> SUFFICES TokenType' /\ BlackType' /\ RequestType' /\ \A q \in Callers : Shape(q)'
  BY <1>1 DEF Typed
<1>2. stale \subseteq Callers /\ overtaken \subseteq Callers
  BY DEF RequestType
<1>3. ASSUME NEW p \in Callers, CallerStep(p)
      PROVE  TokenType' /\ BlackType' /\ RequestType' /\ \A q \in Callers : Shape(q)'
  BY <1>3, CallerTyped
<1>4. CASE AdminStep
  <2>1. stale' \subseteq Callers /\ overtaken' \subseteq Callers
    BY <1>2, <1>4, AdminStays DEF Overtake
  <2>2. UNCHANGED <<tokenVars, blackVars, pc, requestVars, loaded>>
    BY <1>4, AdminStays DEF RequestsStay
  <2> QED
    BY <2>1, <2>2, RequestsStayTyped
<1>5. CASE Tick \/ UNCHANGED vars \/ \E m \in Managers : AbortManaging(m)
  <2>1. UNCHANGED <<tokenVars, blackVars, pc, requestVars, loaded, histories>>
    BY <1>5 DEF Tick, vars, AbortManaging, accessVars
  <2> QED
    BY <1>2, <2>1, RequestsStayTyped DEF histories
<1> QED
  BY <1>3, <1>4, <1>5, WhoSteps

LEMMA InitTyped == Init => Typed
<1> SUFFICES ASSUME Init PROVE Typed
  OBVIOUS
<1>1. RPInv
  BY InitRPInv DEF Init
<1>2. WorldType
  BY TimeAssumption DEF Init, WorldType, Statuses
<1>3. TokenType /\ BlackType
  BY TimeAssumption DEF Init, TokenType, BlackType
<1>4. RequestType /\ \A p \in Callers : Shape(p)
  BY DEF Init, RequestType, Shape, Steps, Ops, Issuing, Presenting
<1> QED
  BY <1>1, <1>2, <1>3, <1>4 DEF Typed

LEMMA AlwaysTyped == Spec => []Typed
BY InitTyped, NextTyped, PTL DEF Spec

(* Every variable keeps its type; in particular the time to live a logout  *)
(* computes is never negative.                                             *)
THEOREM TypeCorrect == Spec => []TypeOK
<1>1. Typed => TypeOK
  BY TypedMeans
<1> QED
  BY <1>1, AlwaysTyped, PTL

(* The after-snapshot in the audit row of a change of a role's permissions *)
(* is what the table holds, unless another request changed them meanwhile. *)
THEOREM SnapshotIsTrue == Spec => []AuditMatchesTable
<1>1. Typed => AuditMatchesTable
  <2> SUFFICES ASSUME RPInv, NEW m \in Managers \ mraced, mpc[m] = "done"
               PROVE  entity[m] = granted[mrole[m]]
    BY DEF AuditMatchesTable, Typed
  <2>1. ManagerShape(m)
    BY DEF RPInv
  <2> QED
    BY <2>1 DEF ManagerShape, Snapshot, Pending
<1> QED
  BY <1>1, AlwaysTyped, PTL

-----------------------------------------------------------------------------
(* Why a change of a role's permissions comes to an end.                   *)

(* A request that others wait for has open writes, so it goes on or waits  *)
(* for a third; if all those reachable wait, they are a ring themselves.   *)
THEOREM WaitsAreResolved == Spec => []WaitsResolve
<1>1. Typed => WaitsResolve
  <2> SUFFICES ASSUME RPInv, NEW ms \in SUBSET Managers,
                      NEW m \in ms, mpc[m] # "idle",
                      \A n \in ms, o \in Managers : WaitsFor(n, o) => o \in ms
               PROVE  \E n \in ms : mpc[n] # "idle" /\ (~Blocked(n) \/ InRing(n))
    BY DEF WaitsResolve, Typed
  <2>1. CASE \E n \in ms : mpc[n] # "idle" /\ ~Blocked(n)
    BY <2>1
  <2>2. CASE \A n \in ms : mpc[n] # "idle" => Blocked(n)
    <3> DEFINE ring == {n \in ms : mpc[n] # "idle"}
    <3>1. ASSUME NEW n \in ring PROVE \E o \in ring : WaitsFor(n, o)
      <4>1. PICK o \in Managers : WaitsFor(n, o)
        BY <2>2 DEF Blocked
      <4>2. o \in ms /\ did[o] # {}
        BY <4>1 DEF WaitsFor, Blocks
      <4>3. mpc[o] # "idle"
        BY <4>2 DEF RPInv, ManagerShape
      <4>4. QED
        BY <4>1, <4>2, <4>3
    <3>2. m \in ring /\ ring \in SUBSET Managers
      OBVIOUS
    <3> HIDE DEF ring
    <3>3. \E r \in SUBSET Managers :
             m \in r /\ \A n \in r : \E o \in r : WaitsFor(n, o)
      BY <3>1, <3>2
    <3>4. QED
      BY <3>3 DEF InRing
  <2>3. QED
    BY <2>1, <2>2
<1>2. QED
  BY <1>1, AlwaysTyped, PTL

LEMMA StepsLeftFacts ==
  ASSUME NEW step \in ManagerSteps, NEW perms \in SUBSET Perms
  PROVE  /\ IsFiniteSet(perms) /\ Cardinality(perms) \in Nat
         /\ StepsLeft(step, perms) \in Nat
         /\ StepsLeft(step, perms) = 2 * Cardinality(perms) +
               (IF step = "idle" THEN 0 ELSE IF step = "done" THEN 1
                ELSE IF step = "each" THEN 2 ELSE 3)
<1>1. IsFiniteSet(perms) /\ Cardinality(perms) \in Nat
  BY PermsAssumption, FS_Subset, FS_CardinalityType
<1>2. QED
  BY <1>1 DEF StepsLeft, ManagerSteps

LEMMA LeftType ==
  ASSUME TypeOKRP, TypeOKRP', NEW m \in Managers
  PROVE  /\ mpc[m] \in ManagerSteps /\ mpc'[m] \in ManagerSteps
         /\ todo[m] \in SUBSET Perms /\ todo'[m] \in SUBSET Perms
         /\ Left(m) = StepsLeft(mpc[m], todo[m]) /\ Left(m) \in Nat
         /\ Left(m)' = StepsLeft(mpc'[m], todo'[m]) /\ Left(m)' \in Nat
<1>1. /\ mpc[m] \in ManagerSteps /\ mpc'[m] \in ManagerSteps
      /\ todo[m] \in SUBSET Perms /\ todo'[m] \in SUBSET Perms
  BY DEF TypeOKRP
<1>2. /\ StepsLeft(mpc[m], todo[m]) \in Nat
      /\ StepsLeft(mpc'[m], todo'[m]) \in Nat
  BY <1>1, StepsLeftFacts
<1>3. /\ Left(m) = StepsLeft(mpc[m], todo[m])
      /\ Left(m)' = StepsLeft(mpc'[m], todo'[m])
  BY DEF Left
<1>4. QED
  BY <1>1, <1>2, <1>3

(* The end of a request leaves it nothing to do.                           *)
LEMMA EndShrinks ==
  ASSUME TypeOKRP, TypeOKRP', NEW m \in Managers, mpc[m] # "idle", MEnded(m)
  PROVE  Left(m)' < Left(m)
<1>1. mpc'[m] = "idle" /\ todo'[m] = {}
  BY DEF MEnded, TypeOKRP
<1>2. Cardinality({}) = 0
  BY FS_EmptySet
<1>3. StepsLeft("idle", {}) = 0
  <2>1. "idle" \in ManagerSteps /\ {} \in SUBSET Perms
    BY DEF ManagerSteps
  <2>2. StepsLeft("idle", {}) = 2 * Cardinality({}) + 0
    BY ONLY <2>1, StepsLeftFacts
  <2>3. QED
    BY ONLY <1>2, <2>2
<1>4. Left(m)' = StepsLeft("idle", {})
  BY <1>1, LeftType
<1>5. Left(m) > 0
  BY LeftType, StepsLeftFacts
<1>6. QED
  BY <1>3, <1>4, <1>5

(* One round of the loop handles one permission.                           *)
LEMMA RoundShrinks ==
  ASSUME TypeOKRP, TypeOKRP', NEW m \in Managers, Each(m)
  PROVE  Left(m)' < Left(m)
<1>1. PICK x \in todo[m] : todo' = [todo EXCEPT ![m] = @ \ {x}]
  BY DEF Each
<1>2. mpc[m] = "each" /\ mpc'[m] \in {"each", "write"}
  BY DEF Each, TypeOKRP
<1>3. todo'[m] = todo[m] \ {x}
  BY <1>1 DEF TypeOKRP
<1>4. IsFiniteSet(todo[m]) /\ Cardinality(todo[m]) \in Nat /\ Cardinality(todo'[m]) \in Nat
  BY LeftType, StepsLeftFacts
<1>5. Cardinality(todo'[m]) = Cardinality(todo[m]) - 1
  BY <1>3, <1>4, FS_RemoveElement
<1>6. /\ Left(m)' <= 2 * Cardinality(todo'[m]) + 3
      /\ Left(m) = 2 * Cardinality(todo[m]) + 2
  BY <1>2, <1>4, LeftType, StepsLeftFacts
<1>7. QED
  BY <1>4, <1>5, <1>6, LeftType

LEMMA ProceedShrinks ==
  ASSUME TypeOKRP, TypeOKRP', NEW m \in Managers, Proceed(m)
  PROVE  Left(m)' < Left(m)
<1>1. CASE LoadRole(m) \/ Write(m) \/ Commit(m)
  <2>1. /\ todo' = todo
        /\ \/ mpc[m] \in {"load", "write"} /\ mpc'[m] = "each"
           \/ mpc[m] = "each" /\ mpc'[m] = "done"
    BY <1>1 DEF LoadRole, Write, Commit, MGoto, TypeOKRP
  <2>2. QED
    BY <2>1, LeftType, StepsLeftFacts
<1>2. CASE Each(m)
  BY <1>2, RoundShrinks
<1>3. CASE RoleNotFound(m) \/ InsertRefused(m) \/ Respond(m)
  <2>1. mpc[m] # "idle" /\ MEnded(m)
    BY <1>3 DEF RoleNotFound, InsertRefused, Respond
  <2>2. QED
    BY <2>1, EndShrinks
<1>4. QED
  BY <1>1, <1>2, <1>3 DEF Proceed

(* Who changes the managers' part of the state.                            *)
LEMMA ManagersMove ==
  ASSUME setting \in Settings, [Next]_vars
  PROVE  UNCHANGED <<mpc, todo>> \/ \E n \in Managers : ManagerStep(n)
<1>1. ASSUME NEW p \in Callers, CallerStep(p) PROVE UNCHANGED <<mpc, todo>>
  BY <1>1 DEF CallerStep, TablesStay, vars_rp
<1>2. CASE ChangeRole \/ ChangeMember \/ ChangeStatus \/ Tick
  BY <1>2 DEF ChangeRole, SetRole, ChangeMember, ChangeStatus, Tick, vars_rp
<1>3. CASE StartManaging
  <2>1. setting.managers \subseteq Managers
    BY SettingsAssumption
  <2>2. QED
    BY <1>3, <2>1 DEF StartManaging, ManagerStep
<1>4. ASSUME NEW m \in Managers, Manage(m) \/ AbortManaging(m) PROVE ManagerStep(m)
  BY <1>4 DEF Manage, AbortManaging, ManagerStep
<1>5. CASE UNCHANGED vars
  BY <1>5 DEF vars, vars_rp
<1>6. QED
  BY <1>1, <1>2, <1>3, <1>4, <1>5, WhoSteps DEF AdminStep

(* A request has a bounded number of steps left, whatever the others do:   *)
(* with WaitsAreResolved, why every request ends.                          *)
THEOREM ManagersGoOn == Spec => ManagersAdvance
<1> DEFINE A == \A m \in Managers : mpc[m] # "idle" =>
                  Left(m)' <= Left(m) /\ (Proceed(m) => Left(m)' < Left(m))
<1>1. Typed /\ Typed' /\ [Next]_vars => [A]_vars_rp
  <2> SUFFICES ASSUME TypeOKRP, TypeOKRP', setting \in Settings, [Next]_vars,
                      NEW m \in Managers, mpc[m] # "idle"
               PROVE  Left(m)' <= Left(m) /\ (Proceed(m) => Left(m)' < Left(m))
    BY TypedMeans DEF TypeOK, Typed, RPInv
  <2>1. Left(m) \in Nat /\ Left(m)' \in Nat
    BY LeftType
  <2>2. CASE UNCHANGED <<mpc, todo>>
    <3>1. Left(m)' = Left(m)
      BY <2>2, LeftType
    <3>2. QED
      BY <2>1, <3>1, ProceedShrinks
  <2>3. ASSUME NEW n \in Managers, ManagerStep(n) PROVE Left(m)' <= Left(m)
    <3>1. CASE n = m
      <4>1. ~BeginManage(m)
        BY DEF BeginManage, MGoto
      <4>2. CASE Victim(m) \/ MAbort(m)
        BY <2>1, <4>2, EndShrinks DEF Victim, MAbort
      <4>3. QED
        BY <2>1, <2>3, <3>1, <4>1, <4>2, ProceedShrinks DEF ManagerStep
    <3>2. CASE n # m
      <4>1. mpc'[m] = mpc[m] /\ todo'[m] = todo[m]
        BY <2>3, <3>2 DEF ManagerStep, Proceed, BeginManage, LoadRole, RoleNotFound, Each,
           Write, InsertRefused, Commit, Respond, Victim, MAbort, MGoto, MEnded, TypeOKRP
      <4>2. QED
        BY <2>1, <4>1, LeftType
    <3>3. QED
      BY <3>1, <3>2
  <2>4. QED
    BY <2>1, <2>2, <2>3, ManagersMove, ProceedShrinks
<1>2. QED
  BY <1>1, AlwaysTyped, PTL DEF Spec, ManagersAdvance

-----------------------------------------------------------------------------
(* What a request has read, and what has become of it.                     *)

Reading == {"roles", "mint", "act"}

(* The rights read are those the user has, unless they changed since.      *)
RightsRead(p) ==
    p \notin stale => \A u \in Users : user[p] = u =>
        /\ pc[p] \in Issuing => seen[p] = Rights(u)
        /\ pc[p] = "act" /\ op[p] \in Foreign /\ can[p] => Asked(p) \in ActiveRights(u)

(* So is the status.                                                       *)
StatusRead(p) ==
    p \notin overtaken =>
        /\ pc[p] \in Issuing => status[user[p]] = "active"
        /\ pc[p] = "act" /\ op[p] # "view" => status[user[p]] # "deleted"

LEMMA RightsStay ==
  ASSUME UNCHANGED <<roleState, granted, member>>, NEW u \in Users
  PROVE  Rights(u)' = Rights(u) /\ ActiveRights(u)' = ActiveRights(u)
  BY DEF Rights, ActiveRights, Loaded

LEMMA NotOvertaken ==
  ASSUME Overtake, UNCHANGED <<pc, user>>, NEW p \in Callers, NEW u \in Users,
         pc[p] \in Reading, user[p] = u
  PROVE  /\ p \notin stale' =>
              p \notin stale /\ Rights(u)' = Rights(u) /\ ActiveRights(u)' = ActiveRights(u)
         /\ p \notin overtaken' => p \notin overtaken /\ status'[u] = status[u]
<1>1. ASSUME p \notin stale'
      PROVE  p \notin stale /\ Rights(u)' = Rights(u) /\ ActiveRights(u)' = ActiveRights(u)
  BY <1>1 DEF Overtake, Reading, Rights, ActiveRights, Loaded
<1>2. ASSUME p \notin overtaken'
      PROVE  p \notin overtaken /\ status'[u] = status[u]
  BY <1>2 DEF Overtake, Reading
<1> QED
  BY <1>1, <1>2

(* A step of the request itself.                                           *)
LEMMA CallerReads ==
  ASSUME Typed, NEW p \in Callers, CallerStep(p), RightsRead(p), StatusRead(p)
  PROVE  RightsRead(p)' /\ StatusRead(p)'
<1> USE TypedMeans
<1>1. /\ UNCHANGED <<roleState, granted, member, status>>
      /\ Shape(p)
  BY DEF CallerStep, TablesStay, vars_rp, tables, userVars
<1>2. CASE Ended(p)
  BY <1>2, EndedFacts DEF RightsRead, StatusRead, Issuing
<1>3. CASE BeginIssue(p)
  <2>1. PICK u \in Users, o \in Issues :
          /\ status[u] = "active"
          /\ pc'[p] = "roles"
          /\ user'[p] = u /\ op'[p] = o /\ seen'[p] = Rights(u)
    BY <1>3, BeginIssueFacts
  <2>2. Rights(u)' = Rights(u)
    BY <1>1, RightsStay
  <2> QED
    BY <1>1, <2>1, <2>2 DEF RightsRead, StatusRead
<1>4. CASE LoadRoles(p)
  <2>1. /\ pc[p] = "roles" /\ pc'[p] = "mint"
        /\ user'[p] = user[p] /\ op'[p] = op[p]
        /\ \/ seen'[p] = Rights(user[p])
           \/ seen'[p] = seen[p] /\ stale' = stale
        /\ overtaken' = overtaken
    BY <1>4, LoadRolesFacts
  <2>2. user[p] \in Users
    BY <2>1 DEF Shape, Issuing
  <2>3. RightsRead(p)'
    <3> SUFFICES ASSUME p \notin stale', NEW u \in Users, user'[p] = u
                 PROVE  seen'[p] = Rights(u)'
      BY <2>1 DEF RightsRead
    <3>1. Rights(u)' = Rights(u)
      BY <1>1, RightsStay
    <3> QED
      BY <2>1, <3>1 DEF RightsRead, Issuing
  <2>4. StatusRead(p)'
    BY <1>1, <2>1 DEF StatusRead, Issuing
  <2> QED
    BY <2>3, <2>4
<1>5. CASE BeginUse(p) \/ BeginLogout(p)
  <2>1. PICK t \in Tokens, o \in Ops, x \in Perms \cup {NoPerm} : Decode(p, t, o, x)
    BY <1>5 DEF BeginUse, BeginLogout, Ops
  <2>2. pc'[p] = "lookup"
    BY <2>1, DecodeFacts
  <2> QED
    BY <2>2 DEF RightsRead, StatusRead, Issuing
<1>6. CASE Lookup(p)
  <2>1. /\ pc'[p] = AfterLookup(op[p]) /\ op' = op
    BY <1>6, LookupFacts DEF requestVars
  <2>2. pc'[p] \notin Issuing /\ (pc'[p] = "act" => op'[p] = "view")
    BY <2>1 DEF AfterLookup, Issuing
  <2> QED
    BY <2>2 DEF RightsRead, StatusRead, Foreign
<1>7. CASE LoadActor(p)
  <2>1. /\ pc[p] = "actor" /\ pc'[p] = "act" /\ status[user[p]] # "deleted"
        /\ can'[p] => Asked(p) \in ActiveRights(user[p])
        /\ op' = op /\ user' = user /\ Asked(p)' = Asked(p)
    BY <1>7, LoadActorFacts DEF requestVars, Asked
  <2>2. ASSUME NEW u \in Users PROVE ActiveRights(u)' = ActiveRights(u)
    BY <1>1, RightsStay
  <2> QED
    BY <1>1, <2>1, <2>2 DEF RightsRead, StatusRead, Issuing
<1>8. CASE Act(p)
  BY <1>8, ActFacts DEF RightsRead, StatusRead, Issuing
<1>9. CASE Remaining(p)
  BY <1>9, RemainingFacts DEF RightsRead, StatusRead, Issuing
<1> QED
  BY <1>2, <1>3, <1>4, <1>5, <1>6, <1>7, <1>8, <1>9, EndedSteps
     DEF CallerStep, Issue, Use, Logout

(* A step of another request, or one that touches no tables.               *)
LEMMA KeptReads ==
  ASSUME NEW q \in Callers, Kept(q), UNCHANGED <<roleState, granted, member, status>>,
         RightsRead(q), StatusRead(q)
  PROVE  RightsRead(q)' /\ StatusRead(q)'
<1>1. \A u \in Users : Rights(u)' = Rights(u) /\ ActiveRights(u)' = ActiveRights(u)
  BY RightsStay
<1> QED
  BY <1>1 DEF Kept, RightsRead, StatusRead, Asked

(* A step of an administrator.                                             *)
LEMMA AdminReads ==
  ASSUME Typed, NEW p \in Callers, Overtake, RequestsStay, RightsRead(p), StatusRead(p)
  PROVE  RightsRead(p)' /\ StatusRead(p)'
<1> USE TypedMeans
<1>1. /\ pc' = pc /\ op' = op /\ user' = user /\ seen' = seen /\ can' = can
      /\ Asked(p)' = Asked(p)
      /\ Shape(p)
  BY DEF RequestsStay, requestVars, loaded, Asked
<1>2. RightsRead(p)'
  <2> SUFFICES ASSUME p \notin stale', NEW u \in Users, user[p] = u, pc[p] \in Reading
               PROVE  /\ pc[p] \in Issuing => seen[p] = Rights(u)'
                      /\ pc[p] = "act" /\ op[p] \in Foreign /\ can[p]
                            => Asked(p) \in ActiveRights(u)'
    BY <1>1 DEF RightsRead, Reading, Issuing
  <2>1. p \notin stale /\ Rights(u)' = Rights(u) /\ ActiveRights(u)' = ActiveRights(u)
    BY <1>1, NotOvertaken
  <2> QED
    BY <2>1 DEF RightsRead
<1>3. StatusRead(p)'
  <2> SUFFICES ASSUME p \notin overtaken', pc[p] \in Reading
               PROVE  /\ pc[p] \in Issuing => status'[user[p]] = "active"
                      /\ pc[p] = "act" /\ op[p] # "view" => status'[user[p]] # "deleted"
    BY <1>1 DEF StatusRead, Reading, Issuing
  <2>1. user[p] \in Users
    BY <1>1 DEF Shape, Reading, Issuing, Presenting
  <2>2. p \notin overtaken /\ status'[user[p]] = status[user[p]]
    BY <1>1, <2>1, NotOvertaken
  <2> QED
    BY <2>2 DEF StatusRead
<1> QED
  BY <1>2, <1>3

ReadsInv == Typed /\ \A p \in Callers : RightsRead(p) /\ StatusRead(p)

LEMMA NextReads == ReadsInv /\ [Next]_vars => ReadsInv'
<1> SUFFICES ASSUME ReadsInv, [Next]_vars, NEW q \in Callers
             PROVE  RightsRead(q)' /\ StatusRead(q)'
  BY NextTyped DEF ReadsInv
<1>1. Typed /\ RightsRead(q) /\ StatusRead(q) /\ setting \in Settings
  BY TypedMeans DEF ReadsInv
<1>2. ASSUME NEW p \in Callers, CallerStep(p) PROVE RightsRead(q)' /\ StatusRead(q)'
  <2>1. UNCHANGED <<roleState, granted, member, status>>
    BY <1>2 DEF CallerStep, TablesStay, vars_rp, tables, userVars
  <2>2. CASE q = p
    BY <1>1, <1>2, <2>2, CallerReads
  <2>3. CASE q # p
    BY <1>1, <1>2, <2>1, <2>3, CallerTyped, KeptReads
  <2> QED
    BY <2>2, <2>3
<1>3. CASE AdminStep
  BY <1>1, <1>3, AdminStays, AdminReads
<1>4. CASE Tick \/ UNCHANGED vars \/ \E m \in Managers : AbortManaging(m)
  <2>1. UNCHANGED <<roleState, granted, member, status>> /\ Kept(q)
    BY <1>4 DEF Tick, vars, vars_rp, tables, AbortManaging, MAbort, MEnded, accessVars, userVars,
                requestVars, loaded, histories, Kept
  <2> QED
    BY <1>1, <2>1, KeptReads
<1> QED
  BY <1>1, <1>2, <1>3, <1>4, WhoSteps

LEMMA InitReads == Init => ReadsInv
<1> SUFFICES ASSUME Init, NEW p \in Callers PROVE RightsRead(p) /\ StatusRead(p)
  BY InitTyped DEF ReadsInv
<1> QED
  BY DEF Init, RightsRead, StatusRead, Issuing

LEMMA AlwaysReads == Spec => []ReadsInv
BY InitReads, NextReads, PTL DEF Spec

-----------------------------------------------------------------------------
(* Which step takes a request from one place to another.                   *)

LEMMA Mover ==
  ASSUME Typed, [Next]_vars, NEW p \in Callers, pc'[p] # pc[p]
  PROVE  CallerStep(p)
<1> USE TypedMeans
<1>1. ASSUME NEW q \in Callers, CallerStep(q) PROVE q = p
  BY <1>1, CallerTyped DEF Kept
<1>2. CASE AdminStep
  BY <1>2, AdminStays DEF RequestsStay
<1>3. CASE Tick \/ UNCHANGED vars \/ \E m \in Managers : AbortManaging(m)
  BY <1>3 DEF Tick, vars, AbortManaging, accessVars
<1> QED
  BY <1>1, <1>2, <1>3, WhoSteps

LEMMA WhoTakes ==
  ASSUME Typed, NEW p \in Callers, CallerStep(p)
  PROVE  /\ Takes(p, "act", "done") => Act(p)
         /\ pc[p] = "lookup" /\ pc'[p] # "idle" => Lookup(p)
         /\ Takes(p, "idle", "lookup") =>
              \E t \in Tokens, o \in Ops, x \in Perms \cup {NoPerm} : Decode(p, t, o, x)
<1> USE TypedMeans
<1>1. Shape(p)
  OBVIOUS
<1>2. CASE Ended(p)
  <2>1. pc'[p] = "idle"
    BY <1>2, EndedFacts
  <2> QED
    BY <2>1 DEF Takes
<1>3. CASE BeginIssue(p)
  <2>1. pc[p] = "idle" /\ pc'[p] = "roles"
    BY <1>3, BeginIssueFacts
  <2> QED
    BY <2>1 DEF Takes
<1>4. CASE LoadRoles(p)
  <2>1. pc[p] = "roles"
    BY <1>4 DEF LoadRoles, Goto
  <2> QED
    BY <2>1 DEF Takes
<1>5. CASE BeginUse(p) \/ BeginLogout(p)
  <2>1. PICK t \in Tokens, o \in Ops, x \in Perms \cup {NoPerm} : Decode(p, t, o, x)
    BY <1>5 DEF BeginUse, BeginLogout, Ops
  <2>2. pc[p] = "idle"
    BY <2>1 DEF Decode, Goto
  <2> QED
    BY <2>1, <2>2 DEF Takes
<1>6. CASE Lookup(p)
  <2>1. pc[p] = "lookup"
    BY <1>6 DEF Lookup
  <2> QED
    BY <1>6, <2>1 DEF Takes
<1>7. CASE LoadActor(p) \/ Remaining(p)
  <2>1. pc[p] \in {"actor", "remaining"}
    BY <1>7 DEF LoadActor, Remaining, Goto
  <2> QED
    BY <2>1 DEF Takes
<1>8. CASE Act(p)
  <2>1. pc[p] = "act"
    BY <1>8 DEF Act, Goto
  <2> QED
    BY <1>8, <2>1 DEF Takes
<1> QED
  BY <1>2, <1>3, <1>4, <1>5, <1>6, <1>7, <1>8, EndedSteps DEF CallerStep, Issue, Use, Logout

(* The use case is reached by Act alone.                                   *)
LEMMA Acting ==
  ASSUME Typed, [Next]_vars, NEW p \in Callers, Takes(p, "act", "done")
  PROVE  Act(p)
  BY Mover, WhoTakes DEF Takes

-----------------------------------------------------------------------------
(* A token carries the permissions of its user's roles as of its issue.    *)
THEOREM TokensAreFresh == Spec => FreshTokens
<1>1. ReadsInv /\ [Next]_vars =>
        [\A p \in Callers \ stale, t \in Tokens :
          pc[p] = "mint" /\ pc'[p] = "idle" /\ owner'[t] # owner[t]
              => carries'[t] = Rights(user[p])]_vars
  <2> SUFFICES ASSUME ReadsInv, [Next]_vars, NEW p \in Callers, p \notin stale, NEW t \in Tokens,
                      pc[p] = "mint", pc'[p] = "idle", owner'[t] # owner[t]
               PROVE  carries'[t] = Rights(user[p])
    OBVIOUS
  <2>1. Typed /\ RightsRead(p) /\ Shape(p) /\ WorldType /\ TokenType
    BY TypedMeans DEF ReadsInv
  <2>2. CallerStep(p)
    BY <2>1, Mover
  <2>3. Mint(p)
    BY <2>2, TokensStay DEF tokenVars
  <2>4. PICK u \in Tokens :
          /\ user[p] \in Users
          /\ owner' = [owner EXCEPT ![u] = user[p]]
          /\ carries' = [carries EXCEPT ![u] = seen[p]]
    BY <2>1, <2>3, MintFacts
  <2>5. u = t
    BY <2>1, <2>4 DEF TokenType
  <2>6. carries'[t] = seen[p]
    BY <2>1, <2>4, <2>5 DEF TokenType
  <2>7. seen[p] = Rights(user[p])
    BY <2>1, <2>4 DEF RightsRead, Issuing
  <2> QED
    BY <2>6, <2>7
<1> QED
  BY <1>1, AlwaysReads, PTL DEF Spec, FreshTokens

(* A deleted user's requests end where the caller is loaded.               *)
THEOREM DeletedStopped == Spec => DeletedActsNoMore
<1>1. ReadsInv /\ [Next]_vars =>
        [\A p \in Callers \ overtaken :
          Takes(p, "act", "done") /\ status[user[p]] = "deleted" => op[p] = "view"]_vars
  BY DEF ReadsInv, StatusRead, Takes
<1> QED
  BY <1>1, AlwaysReads, PTL DEF Spec, DeletedActsNoMore

(* The caller of a use case on another's record has, by an active role,    *)
(* the permission its route asks for.                                      *)
THEOREM RoleIsActive == Spec => OthersNeedActiveRole
<1>1. ReadsInv /\ [Next]_vars =>
        [\A p \in Callers \ stale :
          Takes(p, "act", "done") /\ op'[p] \in Foreign
              => Asked(p) \in ActiveRights(user[p])]_vars
  <2> SUFFICES ASSUME ReadsInv, [Next]_vars, NEW p \in Callers, p \notin stale,
                      Takes(p, "act", "done"), op'[p] \in Foreign
               PROVE  Asked(p) \in ActiveRights(user[p])
    OBVIOUS
  <2>1. Typed /\ RightsRead(p) /\ Shape(p)
    BY TypedMeans DEF ReadsInv
  <2>2. pc[p] = "act" /\ op[p] \in Foreign /\ can[p]
    BY <2>1, TypedMeans, Acting, ActFacts
  <2>3. user[p] \in Users
    BY <2>1, <2>2 DEF Shape, Presenting
  <2> QED
    BY <2>1, <2>2, <2>3 DEF RightsRead
<1> QED
  BY <1>1, AlwaysReads, PTL DEF Spec, OthersNeedActiveRole

-----------------------------------------------------------------------------
(* Time: what a logout stores outlasts the token, up to its last second,   *)
(* and a token issued to a user who is disabled does not outlast that by   *)
(* more than its lifetime.                                                 *)

LogoutTime(p) == pc[p] = "store" => remaining[p] + sec >= exp[tok[p]]

TokenTime(t) ==
    owner[t] # NoUser =>
        /\ exp[t] <= sec + Lifetime
        /\ t \in late \/ status[owner[t]] = "active" \/ exp[t] <= offSec[owner[t]] + Lifetime

ClosedTime(t) ==
    t \in closed => owner[t] # NoUser /\ (blackSec[t] >= exp[t] \/ sec >= exp[t])

LEMMA ClockForward == Typed /\ [Next]_vars => sec' >= sec /\ sec' \in Nat
<1> SUFFICES ASSUME Typed, [Next]_vars PROVE sec' >= sec /\ sec' \in Nat
  OBVIOUS
<1>1. sec \in Nat /\ setting \in Settings
  BY DEF Typed, WorldType
<1>2. CASE AdminStep
  BY <1>1, <1>2, AdminStays DEF RequestsStay, clock
<1>3. CASE Tick
  BY <1>1, <1>3 DEF Tick
<1>4. CASE UNCHANGED vars \/ (\E p \in Callers : CallerStep(p))
                         \/ \E m \in Managers : AbortManaging(m)
  BY <1>1, <1>4 DEF vars, AbortManaging, accessVars, clock, CallerStep, TablesStay
<1> QED
  BY <1>1, <1>2, <1>3, <1>4, WhoSteps

TimeInv == ReadsInv /\ (\A p \in Callers : LogoutTime(p))
                    /\ \A t \in Tokens : TokenTime(t) /\ ClosedTime(t)

(* A step that leaves the requests, the tokens and the blacklist alone.    *)
LEMMA OnlyTimePasses ==
  ASSUME TimeInv, [Next]_vars, UNCHANGED <<tokenVars, blackVars, pc, tok, remaining>>
  PROVE  /\ \A p \in Callers : LogoutTime(p)'
         /\ \A t \in Tokens : ClosedTime(t)'
         /\ UNCHANGED <<status, offSec>> => \A t \in Tokens : TokenTime(t)'
<1>1. sec \in Nat /\ sec' \in Nat /\ sec' >= sec /\ Lifetime \in Nat
  BY ClockForward, TimeAssumption DEF TimeInv, ReadsInv, Typed, WorldType
<1>2. TokenType /\ RequestType /\ BlackType /\ \A p \in Callers : Shape(p)
  BY TypedMeans DEF TimeInv, ReadsInv
<1>3. UNCHANGED <<owner, exp, late, closed, blackSec, pc, tok, remaining>>
  BY DEF tokenVars, blackVars
<1>4. ASSUME NEW p \in Callers PROVE LogoutTime(p)'
  <2>1. LogoutTime(p) /\ Shape(p)
    BY <1>2 DEF TimeInv
  <2> SUFFICES ASSUME pc[p] = "store" PROVE remaining[p] + sec' >= exp[tok[p]]
    BY <1>3 DEF LogoutTime
  <2>2. remaining[p] \in Nat /\ exp[tok[p]] \in Nat
    BY <1>2, <2>1 DEF Shape, Presenting, TokenType, RequestType
  <2> QED
    BY <1>1, <2>1, <2>2 DEF LogoutTime
<1>5. ASSUME NEW t \in Tokens PROVE ClosedTime(t)'
  <2>1. ClosedTime(t) /\ exp[t] \in Nat /\ blackSec[t] \in Nat
    BY <1>2 DEF TimeInv, TokenType, BlackType
  <2> QED
    BY <1>1, <1>3, <2>1 DEF ClosedTime
<1>6. ASSUME NEW t \in Tokens, UNCHANGED <<status, offSec>> PROVE TokenTime(t)'
  <2>1. TokenTime(t) /\ exp[t] \in Nat
    BY <1>2 DEF TimeInv, TokenType
  <2> QED
    BY <1>1, <1>3, <1>6, <2>1 DEF TokenTime
<1> QED
  BY <1>4, <1>5, <1>6

(* A user changes status.                                                  *)
LEMMA StatusTime ==
  ASSUME TimeInv, ChangeStatus, NEW t \in Tokens
  PROVE  TokenTime(t)'
<1>1. WorldType /\ TokenType /\ TokenTime(t)
  BY TypedMeans DEF TimeInv, ReadsInv
<1>2. PICK u \in setting.users, s \in Statuses :
        /\ status' = [status EXCEPT ![u] = s]
        /\ offSec' = [offSec EXCEPT ![u] = IF status[u] = "active" THEN sec ELSE offSec[u]]
  BY DEF ChangeStatus
<1>3. UNCHANGED <<sec, owner, exp, late>>
  BY DEF ChangeStatus, Change, RequestsStay, clock, tokenVars
<1> SUFFICES ASSUME owner[t] # NoUser
             PROVE  /\ exp[t] <= sec + Lifetime
                    /\ t \in late \/ status'[owner[t]] = "active"
                       \/ exp[t] <= offSec'[owner[t]] + Lifetime
  BY <1>3 DEF TokenTime
<1>4. /\ owner[t] \in Users /\ exp[t] <= sec + Lifetime
      /\ t \in late \/ status[owner[t]] = "active" \/ exp[t] <= offSec[owner[t]] + Lifetime
  BY <1>1 DEF TokenTime, TokenType
<1>5. CASE owner[t] # u
  <2>1. status'[owner[t]] = status[owner[t]] /\ offSec'[owner[t]] = offSec[owner[t]]
    BY <1>1, <1>2, <1>4, <1>5 DEF WorldType
  <2> QED
    BY <1>4, <2>1
<1>6. CASE owner[t] = u
  <2>1. offSec'[u] = IF status[u] = "active" THEN sec ELSE offSec[u]
    BY <1>1, <1>2, <1>4, <1>6 DEF WorldType
  <2> QED
    BY <1>4, <1>6, <2>1
<1> QED
  BY <1>5, <1>6

(* A step of a request: the token it issues.                               *)
LEMMA CallerTokenTime ==
  ASSUME TimeInv, NEW p \in Callers, CallerStep(p), NEW t \in Tokens
  PROVE  TokenTime(t)'
<1>1. /\ WorldType /\ TokenType /\ TokenTime(t) /\ StatusRead(p) /\ Shape(p) /\ Typed
      /\ UNCHANGED <<sec, status, offSec>>
  BY TypedMeans DEF TimeInv, ReadsInv, CallerStep, TablesStay, clock, userVars
<1>2. CASE ~Mint(p)
  BY <1>1, <1>2, TokensStay DEF TokenTime, tokenVars
<1>3. CASE Mint(p)
  <2>1. PICK u \in Tokens :
          /\ pc[p] = "mint" /\ owner[u] = NoUser /\ user[p] \in Users
          /\ owner' = [owner EXCEPT ![u] = user[p]]
          /\ exp' = [exp EXCEPT ![u] = sec + Lifetime]
          /\ late' = IF p \in overtaken THEN late \cup {u} ELSE late
    BY <1>1, <1>3, MintFacts
  <2>2. CASE t = u
    <3>1. /\ owner'[t] = user[p] /\ exp'[t] = sec + Lifetime
          /\ t \in late' \/ status[user[p]] = "active"
      BY <1>1, <2>1, <2>2 DEF TokenType, StatusRead, Issuing
    <3>2. sec + Lifetime \in Nat
      BY <1>1, TimeAssumption DEF WorldType
    <3> QED
      BY <1>1, <3>1, <3>2 DEF TokenTime
  <2>3. CASE t # u
    <3>1. owner'[t] = owner[t] /\ exp'[t] = exp[t] /\ (t \in late => t \in late')
      BY <1>1, <2>1, <2>3 DEF TokenType
    <3> QED
      BY <1>1, <3>1 DEF TokenTime
  <2> QED
    BY <2>2, <2>3
<1> QED
  BY <1>2, <1>3

(* The entry it stores.                                                    *)
LEMMA CallerClosedTime ==
  ASSUME TimeInv, NEW p \in Callers, CallerStep(p), NEW t \in Tokens
  PROVE  ClosedTime(t)'
<1>1. /\ WorldType /\ TokenType /\ BlackType /\ RequestType /\ Typed /\ Shape(p)
      /\ ClosedTime(t) /\ LogoutTime(p) /\ sec' = sec
  BY TypedMeans DEF TimeInv, ReadsInv, CallerStep, TablesStay, clock
<1>2. IssuedStay
  BY <1>1, CallerTyped
<1>3. CASE ~NothingToBlacklist(p) /\ ~Store(p)
  <2>1. UNCHANGED <<closed, blackSec>>
    BY <1>3, BlacklistStays DEF blackVars
  <2> QED
    BY <1>1, <1>2, <2>1 DEF ClosedTime, IssuedStay
<1>4. CASE NothingToBlacklist(p) \/ Store(p)
  <2>1. /\ tok[p] \in Tokens /\ owner[tok[p]] # NoUser
        /\ closed' = closed \cup {tok[p]}
        /\ owner' = owner /\ exp' = exp
    BY <1>1, <1>4, NullAssumption
       DEF NothingToBlacklist, Store, Shape, Presenting, tokenVars
  <2>2. ASSUME t # tok[p] PROVE ClosedTime(t)'
    <3>1. blackSec'[t] = blackSec[t]
      BY <1>1, <1>4, <2>1, <2>2 DEF NothingToBlacklist, Store, BlackType
    <3> QED
      BY <1>1, <2>1, <2>2, <3>1 DEF ClosedTime
  <2>3. ASSUME t = tok[p] PROVE ClosedTime(t)'
    <3>1. exp[t] \in Nat /\ sec \in Nat /\ remaining[p] \in Nat
      BY <1>1 DEF TokenType, WorldType, RequestType
    <3>2. CASE NothingToBlacklist(p)
      BY <1>1, <2>1, <2>3, <3>1, <3>2 DEF NothingToBlacklist, Expired, ClosedTime
    <3>3. CASE Store(p) /\ remaining[p] > 0
      <4>1. blackSec'[t] = sec + remaining[p]
        BY <1>1, <2>3, <3>3 DEF Store, BlackType
      <4>2. remaining[p] + sec >= exp[t]
        BY <1>1, <2>3, <3>3 DEF Store, LogoutTime
      <4> QED
        BY <2>1, <2>3, <3>1, <4>1, <4>2 DEF ClosedTime
    <3>4. CASE Store(p) /\ ~(remaining[p] > 0)
      <4>1. remaining[p] + sec >= exp[t]
        BY <1>1, <2>3, <3>4 DEF Store, LogoutTime
      <4> QED
        BY <1>1, <2>1, <2>3, <3>1, <3>4, <4>1 DEF ClosedTime
    <3> QED
      BY <1>4, <3>2, <3>3, <3>4
  <2> QED
    BY <2>2, <2>3
<1> QED
  BY <1>3, <1>4

(* The time to live it computes.                                           *)
LEMMA CallerLogoutTime ==
  ASSUME TimeInv, NEW p \in Callers, CallerStep(p), NEW q \in Callers
  PROVE  LogoutTime(q)'
<1>1. /\ TypeOKRP /\ WorldType /\ TokenType /\ RequestType /\ Typed /\ Shape(p) /\ Shape(q)
      /\ LogoutTime(q) /\ sec' = sec
  BY TypedMeans DEF TimeInv, ReadsInv, CallerStep, TablesStay, clock
<1>2. IssuedStay /\ (q # p => Kept(q))
  BY <1>1, CallerTyped
<1>3. CASE q # p
  <2>1. pc[q] = "store" => tok[q] \in Tokens /\ owner[tok[q]] # NoUser
    BY <1>1, NullAssumption DEF Shape, Presenting
  <2> QED
    BY <1>1, <1>2, <1>3, <2>1 DEF Kept, LogoutTime, IssuedStay
<1>4. CASE q = p
  <2>1. CASE Remaining(p)
    <3>1. /\ remaining'[p] = exp[tok[p]] - sec /\ tok' = tok /\ exp' = exp
          /\ pc[p] = "remaining"
      BY <1>1, <2>1, RemainingFacts DEF requestVars, tokenVars
    <3>2. exp[tok[p]] \in Nat /\ sec \in Nat
      BY <1>1, <3>1 DEF Shape, Presenting, TokenType, WorldType
    <3> QED
      BY <1>1, <1>4, <3>1, <3>2 DEF LogoutTime
  <2>2. CASE ~Remaining(p)
    <3>1. CASE Ended(p)
      BY <1>1, <1>4, <3>1, EndedFacts DEF LogoutTime
    <3>2. CASE BeginIssue(p)
      BY <1>1, <1>4, <3>2, BeginIssueFacts DEF LogoutTime
    <3>3. CASE LoadRoles(p)
      BY <1>1, <1>4, <3>3, LoadRolesFacts DEF LogoutTime
    <3>4. CASE BeginUse(p) \/ BeginLogout(p)
      <4>1. PICK t \in Tokens, o \in Ops, x \in Perms \cup {NoPerm} : Decode(p, t, o, x)
        BY <3>4 DEF BeginUse, BeginLogout, Ops
      <4>2. pc'[p] = "lookup"
        BY <1>1, <4>1, DecodeFacts
      <4> QED
        BY <1>4, <4>2 DEF LogoutTime
    <3>5. CASE Lookup(p)
      <4>1. pc'[p] \in {"remaining", "act", "actor"}
        BY <1>1, <3>5, LookupFacts
      <4> QED
        BY <1>4, <4>1 DEF LogoutTime
    <3>6. CASE LoadActor(p)
      BY <1>1, <1>4, <3>6, LoadActorFacts DEF LogoutTime
    <3>7. CASE Act(p)
      BY <1>1, <1>4, <3>7, ActFacts DEF LogoutTime
    <3> QED
      BY <2>2, <3>1, <3>2, <3>3, <3>4, <3>5, <3>6, <3>7, EndedSteps
         DEF CallerStep, Issue, Use, Logout
  <2> QED
    BY <2>1, <2>2
<1> QED
  BY <1>3, <1>4

LEMMA NextTime == TimeInv /\ [Next]_vars => TimeInv'
<1> SUFFICES ASSUME TimeInv, [Next]_vars PROVE TimeInv'
  OBVIOUS
<1>1. ReadsInv /\ ReadsInv' /\ setting \in Settings
  BY NextReads, TypedMeans DEF TimeInv, ReadsInv
<1> SUFFICES /\ \A p \in Callers : LogoutTime(p)'
             /\ \A t \in Tokens : TokenTime(t)' /\ ClosedTime(t)'
  BY <1>1 DEF TimeInv
<1>2. CASE \E p \in Callers : CallerStep(p)
  BY <1>2, CallerTokenTime, CallerClosedTime, CallerLogoutTime
<1>3. CASE AdminStep
  <2>1. UNCHANGED <<tokenVars, blackVars, pc, tok, remaining>>
    BY <1>3, AdminStays DEF RequestsStay, requestVars, loaded
  <2>2. ChangeStatus \/ UNCHANGED <<status, offSec>>
    BY <1>3 DEF AdminStep, ChangeRole, ChangeMember, StartManaging, Manage, userVars
  <2> QED
    BY <2>1, <2>2, OnlyTimePasses, StatusTime
<1>4. CASE Tick \/ UNCHANGED vars \/ \E m \in Managers : AbortManaging(m)
  <2>1. UNCHANGED <<tokenVars, blackVars, pc, tok, remaining, status, offSec>>
    BY <1>4 DEF Tick, vars, AbortManaging, accessVars, userVars, requestVars, loaded
  <2> QED
    BY <2>1, OnlyTimePasses
<1> QED
  BY <1>1, <1>2, <1>3, <1>4, WhoSteps

LEMMA InitTime == Init => TimeInv
<1> SUFFICES ASSUME Init PROVE TimeInv
  OBVIOUS
<1> QED
  BY InitReads DEF Init, TimeInv, LogoutTime, TokenTime, ClosedTime

LEMMA AlwaysTime == Spec => []TimeInv
BY InitTime, NextTime, PTL DEF Spec

(* After a logout its access token passes the blacklist in its last second *)
(* at most.                                                                *)
THEOREM LogoutHolds == Spec => LoggedOutStaysOut
<1>1. TimeInv /\ [Next]_vars =>
        [\A p \in Callers :
          /\ pc[p] = "lookup" /\ pc'[p] \in {"remaining", "actor", "act"}
          /\ tok[p] \in closed
          => sec >= exp[tok[p]]]_vars
  <2> SUFFICES ASSUME TimeInv, [Next]_vars, NEW p \in Callers, pc[p] = "lookup",
                      pc'[p] \in {"remaining", "actor", "act"}, tok[p] \in closed
               PROVE  sec >= exp[tok[p]]
    OBVIOUS
  <2>1. Typed /\ WorldType /\ TokenType /\ BlackType
    BY TypedMeans DEF TimeInv, ReadsInv
  <2>2. ~Blacklisted(tok[p])
    BY <2>1, Mover, WhoTakes DEF Lookup
  <2>3. tok[p] \in Tokens
    BY <2>1 DEF BlackType
  <2>4. ClosedTime(tok[p])
    BY <2>3 DEF TimeInv
  <2>5. blackSec[tok[p]] \in Nat /\ exp[tok[p]] \in Nat /\ sec \in Nat
    BY <2>1, <2>3 DEF WorldType, TokenType, BlackType
  <2> QED
    BY <2>2, <2>4, <2>5 DEF ClosedTime, Blacklisted
<1> QED
  BY <1>1, AlwaysTime, PTL DEF Spec, LoggedOutStaysOut

(* A disabled user's last request comes in a token's lifetime later.       *)
THEOREM DisabledLockedOut == Spec => DisabledWithinLifetime
<1>1. TimeInv /\ [Next]_vars =>
        [\A p \in Callers :
          LET t == tok'[p] IN
          /\ Takes(p, "idle", "lookup")
          /\ t \notin late
          /\ status[owner[t]] # "active"
          => sec <= offSec[owner[t]] + Lifetime]_vars
  <2> SUFFICES ASSUME TimeInv, [Next]_vars, NEW p \in Callers, Takes(p, "idle", "lookup"),
                      tok'[p] \notin late, status[owner[tok'[p]]] # "active"
               PROVE  sec <= offSec[owner[tok'[p]]] + Lifetime
    OBVIOUS
  <2>1. Typed /\ WorldType /\ TokenType /\ RequestType
    BY TypedMeans DEF TimeInv, ReadsInv
  <2>2. PICK t \in Tokens, o \in Ops, x \in Perms \cup {NoPerm} : Decode(p, t, o, x)
    BY <2>1, Mover, WhoTakes DEF Takes
  <2>3. tok'[p] = t /\ owner[t] \in Users /\ ~Expired(t)
    BY <2>1, <2>2, DecodeFacts
  <2>4. exp[t] <= offSec[owner[t]] + Lifetime
    BY <2>3, NullAssumption DEF TimeInv, TokenTime
  <2>5. exp[t] \in Nat /\ sec \in Nat /\ offSec[owner[t]] \in Nat /\ Lifetime \in Nat
    BY <2>1, <2>3, TimeAssumption DEF TokenType, WorldType
  <2> QED
    BY <2>3, <2>4, <2>5 DEF Expired
<1> QED
  BY <1>1, AlwaysTime, PTL DEF Spec, DisabledWithinLifetime
=============================================================================
