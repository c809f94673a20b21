---------------------------- MODULE AccessRights ----------------------------
(***************************************************************************)
(* What an access token lets a request do.  A token carries the            *)
(* permissions its user's roles had when it was issued, and is accepted    *)
(* until it expires, whatever happens to the user, the roles or their      *)
(* permissions meanwhile; a logout puts it on the blacklist in Redis.      *)
(* Routes look at the token, and most load the caller; the record use      *)
(* cases look at the caller's permissions once more.                       *)
(*                                                                         *)
(* The role_permissions table and its managers are RolePermissions, whose  *)
(* actions are actions of this module too.  Refresh tokens, and what Redis *)
(* loses, are in AuthSessions.                                             *)
(***************************************************************************)
EXTENDS RolePermissions

CONSTANTS
    Users, Tokens, Callers,
    NoUser, NoToken,
    Lifetime,   \* seconds from issue to expiry
    Parts,      \* instants per second that the model tells apart
    Viewer,     \* the built-in role
    ReadOthers, \* the permission records:read
    Settings    \* what varies from one instance to another:
                \*   callers, managers, users, tokens: those that take part
                \*   changes: bound on the changes of administrators
                \*   horizon: bound on the clock, in seconds

ASSUME TimeAssumption == Lifetime \in Nat /\ Parts \in Nat \ {0}
ASSUME NullAssumption == NoUser \notin Users /\ NoToken \notin Tokens
ASSUME SettingsAssumption ==
    Settings \subseteq [callers : SUBSET Callers, managers : SUBSET Managers,
                        users : SUBSET Users, tokens : SUBSET Tokens, changes : Nat, horizon : Nat]

VARIABLES
    setting,    \* the member of Settings this behaviour is about; constant
    changes,    \* changes made so far
    sec, part,  \* the clock
    status,     \* [Users -> {"active", "inactive", "deleted"}]
    member,     \* [Users -> SUBSET Roles] the rows of user_roles
    owner,      \* [Tokens -> Users or NoUser, as long as it is not issued]
    carries,    \* [Tokens -> SUBSET Perms] the claim "permissions"
    exp,        \* [Tokens -> Nat] the claim "exp"
    blackSec, blackPart, \* when the blacklist entry of a token ends
    pc,         \* the step each request is about to take
    op,         \* what it wants to do
    user,       \* the user it acts for
    tok,        \* the token it presents
    need,       \* the permission its route requires
    seen,       \* issue: the permissions of the user's roles, as loaded
    can,        \* use: the caller, as loaded, has the permission
    remaining,  \* logout: the time to live computed for the entry
    stale,      \* history: requests whose user's rights changed since read
    overtaken,  \* history: requests whose user's status changed since check
    late,       \* history: tokens issued by an overtaken request
    closed,     \* history: tokens whose logout has been through
    offSec      \* history: when each user was last disabled

clock     == <<sec, part>>
userVars  == <<status, member, offSec>>
tokenVars == <<owner, carries, exp, late>>
blackVars == <<blackSec, blackPart, closed>>
histories == <<stale, overtaken>>
requestVars == <<op, user, tok, need>>
loaded    == <<seen, can, remaining>>
accessVars == <<setting, changes, clock, userVars, tokenVars, blackVars, pc, requestVars,
                loaded, histories>>
vars == <<vars_rp, accessVars>>

Statuses == {"active", "inactive", "deleted"}
Issues   == {"login", "refresh"}
Foreign  == {"others", "overview"}
Uses     == Foreign \cup {"view", "manage", "own"}
Ops      == Issues \cup Uses \cup {"logout", "none"}
Steps    == {"idle", "roles", "mint", "lookup", "actor", "act", "done",
             "remaining", "store"}

(* map_user skips deleted roles.  get_all_permissions counts every role    *)
(* left, has_permission only the active ones.                              *)
Loaded(u) == {r \in member[u] : roleState[r] # "deleted"}
Rights(u) == UNION {granted[r] : r \in Loaded(u)}
ActiveRights(u) == UNION {granted[r] : r \in {s \in Loaded(u) : roleState[s] = "active"}}

(* The permission that the use case asks the caller for: a listing and the *)
(* dashboards, whatever their route requires, for the right to read.       *)
Asked(p) == IF op[p] = "overview" THEN ReadOthers ELSE need[p]

(* jose compares whole seconds: a token works through the second `exp`.    *)
Expired(t) == sec > exp[t]

Blacklisted(t) ==
    \/ sec < blackSec[t]
    \/ sec = blackSec[t] /\ part < blackPart[t]

Goto(p, from, to) ==
    /\ pc[p] = from
    /\ pc' = [pc EXCEPT ![p] = to]

Init ==
    /\ InitRP
    /\ setting \in Settings
    /\ changes = 0
    /\ sec = 0 /\ part = 0
    /\ status = [u \in Users |-> "active"]
    /\ member \in [Users -> SUBSET Roles]
    /\ \A u \in Users \ setting.users : member[u] = {}
    /\ owner = [t \in Tokens |-> NoUser]
    /\ carries = [t \in Tokens |-> {}]
    /\ exp = [t \in Tokens |-> 0]
    /\ blackSec = [t \in Tokens |-> 0]
    /\ blackPart = [t \in Tokens |-> 0]
    /\ pc = [p \in Callers |-> "idle"]
    /\ op = [p \in Callers |-> "none"]
    /\ user = [p \in Callers |-> NoUser]
    /\ tok = [p \in Callers |-> NoToken]
    /\ need = [p \in Callers |-> NoPerm]
    /\ seen = [p \in Callers |-> {}]
    /\ can = [p \in Callers |-> FALSE]
    /\ remaining = [p \in Callers |-> 0]
    /\ stale = {} /\ overtaken = {} /\ late = {} /\ closed = {}
    /\ offSec = [u \in Users |-> 0]

(* The request is over: what it had loaded is gone.                        *)
Ended(p) ==
    /\ pc' = [pc EXCEPT ![p] = "idle"]
    /\ op' = [op EXCEPT ![p] = "none"]
    /\ user' = [user EXCEPT ![p] = NoUser]
    /\ tok' = [tok EXCEPT ![p] = NoToken]
    /\ need' = [need EXCEPT ![p] = NoPerm]
    /\ seen' = [seen EXCEPT ![p] = {}]
    /\ can' = [can EXCEPT ![p] = FALSE]
    /\ remaining' = [remaining EXCEPT ![p] = 0]
    /\ stale' = stale \ {p}
    /\ overtaken' = overtaken \ {p}

Refused(p, from) ==
    /\ pc[p] = from
    /\ Ended(p)
    /\ UNCHANGED <<tokenVars, blackVars>>

(* Requests touch no table of users or roles and not the clock.            *)
TablesStay == UNCHANGED <<vars_rp, setting, changes, clock, userVars>>

-----------------------------------------------------------------------------
(* Login and refresh: the issue of an access token.                        *)

Unissued == {t \in setting.tokens : owner[t] = NoUser}

(* Variant: the user's status is not looked at.                            *)
BeginIssueAny(p) ==
    /\ Goto(p, "idle", "roles")
    /\ \E u \in setting.users, o \in Issues :
          /\ status[u] # "deleted"
          /\ op' = [op EXCEPT ![p] = o]
          /\ user' = [user EXCEPT ![p] = u]
          /\ seen' = [seen EXCEPT ![p] = Rights(u)]
    /\ UNCHANGED <<tok, need, can, remaining, tokenVars, blackVars, histories>>

(* The user is looked up, with roles, and is active: get_by_email in login, *)
(* get_by_id_with_roles in refresh.                                        *)
BeginIssue(p) ==
    /\ Goto(p, "idle", "roles")
    /\ \E u \in setting.users, o \in Issues :
          /\ status[u] = "active"
          /\ op' = [op EXCEPT ![p] = o]
          /\ user' = [user EXCEPT ![p] = u]
          /\ seen' = [seen EXCEPT ![p] = Rights(u)]
    /\ UNCHANGED <<tok, need, can, remaining, tokenVars, blackVars, histories>>

(* Variant: a refresh issues the token from the user it looked up first.   *)
KeepRoles(p) ==
    /\ Goto(p, "roles", "mint")
    /\ status[user[p]] # "deleted"
    /\ IF op[p] = "refresh"
       THEN stale' = stale \ {p}
       ELSE UNCHANGED stale
    /\ UNCHANGED <<seen, overtaken, requestVars, can, remaining, tokenVars, blackVars>>

(* The user is loaded again, by id.  A refresh does so in the token        *)
(* service's session and sees what is committed now.  A login does it in   *)
(* the session of the first lookup: SQLAlchemy hands out the entity it has *)
(* in its identity map, unless the garbage collector has taken that.       *)
LoadRoles(p) ==
    /\ Goto(p, "roles", "mint")
    /\ status[user[p]] # "deleted"
    /\ IF op[p] = "refresh"
       THEN /\ seen' = [seen EXCEPT ![p] = Rights(user[p])]
            /\ stale' = stale \ {p}
       ELSE /\ \E s \in {seen[p], Rights(user[p])} : seen' = [seen EXCEPT ![p] = s]
            /\ UNCHANGED stale
    /\ UNCHANGED <<overtaken, requestVars, can, remaining, tokenVars, blackVars>>

UserGone(p) == pc[p] = "roles" /\ status[user[p]] = "deleted" /\ Refused(p, "roles")

(* create_access_token, and the response that carries the token.           *)
Mint(p) ==
    /\ pc[p] = "mint"
    /\ \E t \in Unissued :
          /\ owner' = [owner EXCEPT ![t] = user[p]]
          /\ carries' = [carries EXCEPT ![t] = seen[p]]
          /\ exp' = [exp EXCEPT ![t] = sec + Lifetime]
          /\ late' = IF p \in overtaken THEN late \cup {t} ELSE late
    /\ Ended(p)
    /\ UNCHANGED blackVars

-----------------------------------------------------------------------------
(* A request that presents a token.                                        *)

(* The token's signature and expiry hold; its payload is in hand.          *)
Decode(p, t, o, x) ==
    /\ owner[t] # NoUser
    /\ ~Expired(t)
    /\ Goto(p, "idle", "lookup")
    /\ op' = [op EXCEPT ![p] = o]
    /\ tok' = [tok EXCEPT ![p] = t]
    /\ user' = [user EXCEPT ![p] = owner[t]]
    /\ need' = [need EXCEPT ![p] = x]
    /\ UNCHANGED <<loaded, tokenVars, blackVars, histories>>

BeginUse(p) == \E t \in Tokens, o \in Uses, x \in Perms : Decode(p, t, o, x)
BeginLogout(p) == \E t \in Tokens : Decode(p, t, "logout", NoPerm)

AfterLookup(o) ==
    IF o = "logout" THEN "remaining" ELSE IF o = "view" THEN "act" ELSE "actor"

(* The blacklist in Redis, then require_permission.  GET routes of users,  *)
(* roles and categories do not load the caller.                            *)
Lookup(p) ==
    /\ pc[p] = "lookup"
    /\ ~Blacklisted(tok[p])
    /\ op[p] = "logout" \/ need[p] \in carries[tok[p]]
    /\ Goto(p, "lookup", AfterLookup(op[p]))
    /\ UNCHANGED <<requestVars, loaded, tokenVars, blackVars, histories>>

LookupRefused(p) ==
    /\ pc[p] = "lookup"
    /\ \/ Blacklisted(tok[p])
       \/ op[p] # "logout" /\ need[p] \notin carries[tok[p]]
    /\ Refused(p, "lookup")

(* Variant: the caller has what the token would get.                       *)
LoadActorAll(p) ==
    /\ Goto(p, "actor", "act")
    /\ status[user[p]] # "deleted"
    /\ can' = [can EXCEPT ![p] = Asked(p) \in Rights(user[p])]
    /\ stale' = stale \ {p}
    /\ overtaken' = overtaken \ {p}
    /\ UNCHANGED <<requestVars, seen, remaining, tokenVars, blackVars>>

(* GetUserUseCase: the caller as an entity.  An inactive user is found.    *)
LoadActor(p) ==
    /\ Goto(p, "actor", "act")
    /\ status[user[p]] # "deleted"
    /\ can' = [can EXCEPT ![p] = Asked(p) \in ActiveRights(user[p])]
    /\ stale' = stale \ {p}
    /\ overtaken' = overtaken \ {p}
    /\ UNCHANGED <<requestVars, seen, remaining, tokenVars, blackVars>>

ActorGone(p) == pc[p] = "actor" /\ status[user[p]] = "deleted" /\ Refused(p, "actor")

(* The use case.  Only those about records look at the caller's rights:    *)
(* another user's record needs the permission, and without it a listing or *)
(* a dashboard of all records shows the caller's own.  Records of one's    *)
(* own, and everything that is not a record, need nothing more.            *)
Act(p) ==
    /\ op[p] = "others" => can[p]
    /\ op' = [op EXCEPT ![p] = IF @ = "overview" /\ ~can[p] THEN "own" ELSE @]
    /\ Goto(p, "act", "done")
    /\ UNCHANGED <<user, tok, need, loaded, tokenVars, blackVars, histories>>

Answer(p) == Refused(p, "done")

OwnershipRefused(p) == op[p] = "others" /\ ~can[p] /\ Refused(p, "act")

(* Variant: a second is kept in hand.                                      *)
RemainingShort(p) ==
    /\ Goto(p, "remaining", "store")
    /\ ~Expired(tok[p])
    /\ remaining' = [remaining EXCEPT ![p] =
          IF exp[tok[p]] - sec > 0 THEN exp[tok[p]] - sec - 1 ELSE 0]
    /\ UNCHANGED <<requestVars, seen, can, tokenVars, blackVars, histories>>

(* Variant: the expiry is not looked at again.                             *)
RemainingUnchecked(p) ==
    /\ Goto(p, "remaining", "store")
    /\ remaining' = [remaining EXCEPT ![p] = exp[tok[p]] - sec]
    /\ UNCHANGED <<requestVars, seen, can, tokenVars, blackVars, histories>>

(* blacklist_access_token: the difference of two whole seconds.            *)
Remaining(p) ==
    /\ Goto(p, "remaining", "store")
    /\ ~Expired(tok[p])
    /\ remaining' = [remaining EXCEPT ![p] = exp[tok[p]] - sec]
    /\ UNCHANGED <<requestVars, seen, can, tokenVars, blackVars, histories>>

(* Expired since the lookup: nothing to blacklist, and the logout goes on. *)
NothingToBlacklist(p) ==
    /\ pc[p] = "remaining"
    /\ Expired(tok[p])
    /\ closed' = closed \cup {tok[p]}
    /\ Ended(p)
    /\ UNCHANGED <<tokenVars, blackSec, blackPart>>

(* SETEX, unless nothing remains; Redis counts the time to live from now.  *)
Store(p) ==
    /\ pc[p] = "store"
    /\ IF remaining[p] > 0
       THEN /\ blackSec' = [blackSec EXCEPT ![tok[p]] = sec + remaining[p]]
            /\ blackPart' = [blackPart EXCEPT ![tok[p]] = part]
       ELSE UNCHANGED <<blackSec, blackPart>>
    /\ closed' = closed \cup {tok[p]}
    /\ Ended(p)
    /\ UNCHANGED tokenVars

Abort(p) ==
    /\ pc[p] # "idle"
    /\ Ended(p)
    /\ UNCHANGED <<tokenVars, blackVars>>

-----------------------------------------------------------------------------
(* The administrators' commits, and the clock.                             *)

(* The requests that have read rights, or a status, that change now.       *)
Overtake ==
    /\ stale' = stale \cup {p \in Callers :
          /\ pc[p] \in {"roles", "mint", "act"} /\ user[p] \in Users
          /\ <<Rights(user[p]), ActiveRights(user[p])>>'
                # <<Rights(user[p]), ActiveRights(user[p])>>}
    /\ overtaken' = overtaken \cup {p \in Callers :
          /\ pc[p] \in {"roles", "mint", "act"} /\ user[p] \in Users
          /\ status'[user[p]] # status[user[p]]}

RequestsStay ==
    UNCHANGED <<setting, clock, tokenVars, blackVars, pc, requestVars, loaded>>

Change ==
    /\ changes < setting.changes
    /\ changes' = changes + 1
    /\ RequestsStay
    /\ Overtake

ChangeRole ==
    /\ \E r \in Roles, s \in RoleStates : SetRole(r, s)
    /\ UNCHANGED userVars
    /\ Change

ChangeMember ==
    /\ \E u \in setting.users, r \in Roles :
          member' = [member EXCEPT ![u] = IF r \in @ THEN @ \ {r} ELSE @ \cup {r}]
    /\ UNCHANGED <<vars_rp, status, offSec>>
    /\ Change

(* ChangeUserStatusUseCase and DeleteUserUseCase.                          *)
ChangeStatus ==
    /\ \E u \in setting.users, s \in Statuses :
          /\ status[u] \notin {"deleted", s}
          /\ status' = [status EXCEPT ![u] = s]
          /\ offSec' = [offSec EXCEPT ![u] = IF status[u] = "active" THEN sec ELSE @]
    /\ UNCHANGED <<vars_rp, member>>
    /\ Change

StartManaging ==
    /\ \E m \in setting.managers : BeginManage(m)
    /\ UNCHANGED userVars
    /\ Change

Manage(m) ==
    /\ Proceed(m) \/ Victim(m)
    /\ UNCHANGED <<changes, userVars>>
    /\ RequestsStay
    /\ Overtake

AbortManaging(m) ==
    /\ MAbort(m)
    /\ UNCHANGED accessVars

Tick ==
    /\ sec < setting.horizon
    /\ IF part + 1 < Parts
       THEN part' = part + 1 /\ UNCHANGED sec
       ELSE part' = 0 /\ sec' = sec + 1
    /\ UNCHANGED <<vars_rp, setting, changes, userVars, tokenVars, blackVars, pc, requestVars,
                   loaded, histories>>

Issue(p) == BeginIssue(p) \/ LoadRoles(p) \/ UserGone(p) \/ Mint(p)
Use(p) == BeginUse(p) \/ Lookup(p) \/ LookupRefused(p) \/ LoadActor(p) \/ ActorGone(p)
          \/ Act(p) \/ OwnershipRefused(p) \/ Answer(p)
Logout(p) == BeginLogout(p) \/ Remaining(p) \/ NothingToBlacklist(p) \/ Store(p)

Next ==
    \/ \E p \in setting.callers : (Issue(p) \/ Use(p) \/ Logout(p) \/ Abort(p)) /\ TablesStay
    \/ ChangeRole \/ ChangeMember \/ ChangeStatus \/ StartManaging
    \/ \E m \in Managers : Manage(m) \/ AbortManaging(m)
    \/ Tick

Spec == Init /\ [][Next]_vars

(* The database answers, and PostgreSQL looks for circles of waits.        *)
FairSpec == Spec /\ \A m \in Managers : WF_vars(Manage(m))

-----------------------------------------------------------------------------
TypeOK ==
    /\ TypeOKRP
    /\ setting \in Settings
    /\ changes \in Nat
    /\ sec \in Nat /\ part \in 0 .. Parts - 1
    /\ status \in [Users -> Statuses]
    /\ member \in [Users -> SUBSET Roles]
    /\ owner \in [Tokens -> Users \cup {NoUser}]
    /\ carries \in [Tokens -> SUBSET Perms]
    /\ exp \in [Tokens -> Nat]
    /\ blackSec \in [Tokens -> Nat]
    /\ blackPart \in [Tokens -> 0 .. Parts - 1]
    /\ pc \in [Callers -> Steps]
    /\ op \in [Callers -> Ops]
    /\ user \in [Callers -> Users \cup {NoUser}]
    /\ tok \in [Callers -> Tokens \cup {NoToken}]
    /\ need \in [Callers -> Perms \cup {NoPerm}]
    /\ seen \in [Callers -> SUBSET Perms]
    /\ can \in [Callers -> BOOLEAN]
    /\ remaining \in [Callers -> Nat]
    /\ stale \subseteq Callers /\ overtaken \subseteq Callers
    /\ late \subseteq Tokens /\ closed \subseteq Tokens
    /\ offSec \in [Users -> Nat]

Takes(p, from, to) == pc[p] = from /\ pc'[p] = to

(* After a logout the access token is of no use but in its last second: a  *)
(* whole second of "exp" is accepted, while the blacklist entry, whose     *)
(* time to live is a difference of whole seconds, may end within it.       *)
LoggedOutStaysOut ==
    [][\A p \in Callers :
          /\ pc[p] = "lookup" /\ pc'[p] \in {"remaining", "actor", "act"}
          /\ tok[p] \in closed
          => sec >= exp[tok[p]]]_vars

(* "Load the user's current roles + permissions (always fresh)": a token   *)
(* carries the permissions of the user's roles, deleted ones excepted, as  *)
(* they are when it is issued, unless they changed after the rotation read *)
(* them or, for a login, after its first lookup.                           *)
FreshTokens ==
    [][\A p \in Callers \ stale, t \in Tokens :
          pc[p] = "mint" /\ pc'[p] = "idle" /\ owner'[t] # owner[t]
              => carries'[t] = Rights(user[p])]_vars

(* A deleted user's token opens only the routes that do not load the       *)
(* caller: everything else is refused, unless the deletion came after the  *)
(* caller was loaded.                                                      *)
DeletedActsNoMore ==
    [][\A p \in Callers \ overtaken :
          Takes(p, "act", "done") /\ status[user[p]] = "deleted" => op[p] = "view"]_vars

(* Another user's record is touched, listed or counted only with a         *)
(* permission that an active role of the caller grants at that time, or    *)
(* did when the caller was loaded: what an inactive role has put in the    *)
(* token is not enough.                                                    *)
OthersNeedActiveRole ==
    [][\A p \in Callers \ stale :
          Takes(p, "act", "done") /\ op'[p] \in Foreign
              => Asked(p) \in ActiveRights(user[p])]_vars

(* A user who was deactivated or deleted is locked out at the latest when  *)
(* the tokens issued before have expired: no request comes in later,       *)
(* except with a token whose issue the administrator overtook.             *)
DisabledWithinLifetime ==
    [][\A p \in Callers :
          LET t == tok'[p] IN
          /\ Takes(p, "idle", "lookup")
          /\ t \notin late
          /\ status[owner[t]] # "active"
          => sec <= offSec[owner[t]] + Lifetime]_vars

(* "Viewers can only fetch their own records" (get_record.py): nobody      *)
(* whose only role is viewer reads another user's record, on its own or in *)
(* a listing.                                                              *)
ViewersReadTheirOwn ==
    [][\A p \in Callers :
          Takes(p, "act", "done") /\ op'[p] \in Foreign /\ Asked(p) = ReadOthers
              => member[user[p]] # {Viewer}]_vars
=============================================================================
