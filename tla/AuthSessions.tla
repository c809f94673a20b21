---------------------------- MODULE AuthSessions ----------------------------
(***************************************************************************)
(* Login, token refresh and logout as concurrent HTTP requests, with the   *)
(* administrator's deactivation and deletion of users.                     *)
(*                                                                         *)
(* A login or a refresh issues a pair: an access JWT, which no table holds, *)
(* and a refresh JWT, whose row is in refresh_tokens.  One member of Tokens *)
(* stands for a pair.  The token service commits in database sessions of   *)
(* its own, apart from the unit of work of the use case, so a request makes *)
(* several commits; every await that reads or commits state is one action. *)
(* Password checks and the attempt counter are left out: BeginLogin is a   *)
(* login with the right password.                                          *)
(***************************************************************************)
EXTENDS Naturals, FiniteSets

CONSTANTS
    Users, Tokens, Procs,
    NoUser, NoToken,
    Faults   \* which of "redis" (a command fails), "abort" (a request is lost)

ASSUME FaultsAssumption == Faults \subseteq {"redis", "abort"}
ASSUME NullAssumption == NoUser \notin Users /\ NoToken \notin Tokens
ASSUME ProcsAssumption == IsFiniteSet(Procs)

VARIABLES
    status,     \* [Users -> Statuses] the users table
    row,        \* [Tokens -> {"absent","live","revoked"}] refresh_tokens
    holder,     \* [Tokens -> Users or NoUser] column user_id
    blacklist,  \* the pairs whose access token's jti is in Redis
    audited,    \* the pairs whose issue is in audit_logs
    handed,     \* the pairs a response has carried to a client
    pc,         \* the step each request is about to take
    user,       \* the user a request acts for
    tok,        \* the refresh token a request presents
    acc,        \* the access token a logout presents
    new,        \* the pair a request has issued
    parent,     \* history: the token each token was rotated from
    raced,      \* history: tokens revoked while a rotation held them checked
    grace,      \* history: requests past their checks when a user was disabled
    closed,     \* history: access tokens of the logouts that have answered
    spent,      \* history: refresh tokens of the logouts that have answered
    dropped     \* history: access tokens whose blacklist entry Redis lost

logoutVars  == <<closed, spent, dropped>>
userVars    == <<status, grace>>
tableVars   == <<row, holder, parent, raced>>
requestVars == <<user, tok, acc>>
vars == <<userVars, tableVars, blacklist, audited, handed, pc, requestVars, new,
          logoutVars>>

Statuses     == {"active", "inactive", "deleted"}
LoginSteps   == {"reload", "issue", "loginAudit"}
RefreshSteps == {"select", "loadUser", "rotate", "refreshAudit"}
LogoutSteps  == {"blacklist", "find", "revoke", "logoutAudit"}
Steps        == {"idle", "respond"} \cup LoginSteps \cup RefreshSteps \cup LogoutSteps

UncheckedDeactivation == {"reload", "issue", "select", "loadUser", "rotate"}
UncheckedDeletion     == {"issue", "rotate"}
Checked               == {"loadUser", "rotate"}

Flaky == "redis" \in Faults

Goto(p, from, to) ==
    /\ pc[p] = from
    /\ pc' = [pc EXCEPT ![p] = to]

(* Bound: no request begins that could find every member of Tokens issued. *)
(* The refresh of a revoked token issues none, and begins at any time.     *)
Room ==
    Cardinality({p \in Procs : pc[p] \in UncheckedDeactivation})
        < Cardinality({t \in Tokens : row[t] = "absent"})

(* The request is over: its local state is gone.                           *)
Ended(p) ==
    /\ pc' = [pc EXCEPT ![p] = "idle"]
    /\ user' = [user EXCEPT ![p] = NoUser]
    /\ tok' = [tok EXCEPT ![p] = NoToken]
    /\ acc' = [acc EXCEPT ![p] = NoToken]
    /\ new' = [new EXCEPT ![p] = NoToken]
    /\ grace' = [u \in Users |-> grace[u] \ {p}]
    /\ UNCHANGED status

(* Token s is revoked; a request that has found it live may still hold it. *)
RacedBy(p, s) ==
    raced' = raced \cup
        {x \in {s} : \E q \in Procs \ {p} : tok[q] = x /\ pc[q] \in Checked}

Init ==
    /\ status    = [u \in Users |-> "active"]
    /\ row       = [t \in Tokens |-> "absent"]
    /\ holder    = [t \in Tokens |-> NoUser]
    /\ blacklist = {}
    /\ audited   = {}
    /\ handed    = {}
    /\ pc        = [p \in Procs |-> "idle"]
    /\ user      = [p \in Procs |-> NoUser]
    /\ tok       = [p \in Procs |-> NoToken]
    /\ acc       = [p \in Procs |-> NoToken]
    /\ new       = [p \in Procs |-> NoToken]
    /\ parent    = [t \in Tokens |-> NoToken]
    /\ raced     = {}
    /\ grace     = [u \in Users |-> {}]
    /\ closed    = {}
    /\ spent     = {}
    /\ dropped   = {}

-----------------------------------------------------------------------------
(* Login.  A login refused at the first lookup changes nothing here.       *)

BeginLogin(p, u) ==
    /\ Room
    /\ status[u] = "active"
    /\ Goto(p, "idle", "reload")
    /\ user' = [user EXCEPT ![p] = u]
    /\ UNCHANGED <<userVars, tableVars, blacklist, audited, handed, tok, acc,
                   new, logoutVars>>

(* The second lookup, with roles; a user deleted since then is None there. *)
Reload(p) ==
    /\ Goto(p, "reload", "issue")
    /\ status[user[p]] # "deleted"
    /\ UNCHANGED <<userVars, tableVars, blacklist, audited, handed, requestVars,
                   new, logoutVars>>

(* create_and_store_refresh_token: the row is committed at once, in a      *)
(* session of the token service.                                           *)
Issue(p) ==
    /\ Goto(p, "issue", "loginAudit")
    /\ \E t \in Tokens :
          /\ row[t] = "absent"
          /\ row' = [row EXCEPT ![t] = "live"]
          /\ holder' = [holder EXCEPT ![t] = user[p]]
          /\ new' = [new EXCEPT ![p] = t]
    /\ UNCHANGED <<userVars, parent, raced, blacklist, audited, handed,
                   requestVars, logoutVars>>

(* Variant: the audit row is flushed, and the session closed without the   *)
(* commit.                                                                 *)
LoginAuditFlushed(p) ==
    /\ Goto(p, "loginAudit", "respond")
    /\ UNCHANGED <<userVars, tableVars, blacklist, audited, handed, requestVars,
                   new, logoutVars>>

(* The use case's unit of work commits the audit row.                      *)
CommitAudit(p) ==
    /\ audited' = audited \cup {new[p]}
    /\ UNCHANGED <<userVars, tableVars, blacklist, handed, requestVars, new,
                   logoutVars>>

LoginAudit(p) == Goto(p, "loginAudit", "respond") /\ CommitAudit(p)

Answer(p) ==
    /\ handed' = handed \cup {new[p]}
    /\ Ended(p)
    /\ UNCHANGED <<tableVars, blacklist, audited, logoutVars>>

(* The session is closed and the response goes out; if the request is lost *)
(* instead, the pair is stored and audited, and nobody has it.             *)
Respond(p) == pc[p] = "respond" /\ Answer(p)

-----------------------------------------------------------------------------
(* Refresh: a client presents a refresh token it has been given, as often  *)
(* as it likes, also one whose successor it was never sent.                *)

BeginRefresh(p, t) ==
    /\ row[t] = "revoked" \/ Room
    /\ t \in handed
    /\ status[holder[t]] = "active"
    /\ Goto(p, "idle", "select")
    /\ user' = [user EXCEPT ![p] = holder[t]]
    /\ tok' = [tok EXCEPT ![p] = t]
    /\ UNCHANGED <<userVars, tableVars, blacklist, audited, handed, acc, new,
                   logoutVars>>

(* Variant: a revoked token passes.                                        *)
SelectAny(p) ==
    /\ Goto(p, "select", "loadUser")
    /\ UNCHANGED <<userVars, tableVars, blacklist, audited, handed, requestVars,
                   new, logoutVars>>

(* The row is read without a lock and found live; `record.revoked = True'  *)
(* stays in the session until the commit.                                  *)
Select(p) ==
    /\ Goto(p, "select", "loadUser")
    /\ row[tok[p]] = "live"
    /\ UNCHANGED <<userVars, tableVars, blacklist, audited, handed, requestVars,
                   new, logoutVars>>

(* Variant: the user is loaded whether deleted or not.                     *)
LoadUserAny(p) ==
    /\ Goto(p, "loadUser", "rotate")
    /\ UNCHANGED <<userVars, tableVars, blacklist, audited, handed, requestVars,
                   new, logoutVars>>

LoadUser(p) ==
    /\ Goto(p, "loadUser", "rotate")
    /\ status[user[p]] # "deleted"
    /\ UNCHANGED <<userVars, tableVars, blacklist, audited, handed, requestVars,
                   new, logoutVars>>

(* Variant: the successor is committed without the parent's revocation.    *)
RotateInsertOnly(p) ==
    /\ Goto(p, "rotate", "refreshAudit")
    /\ \E t \in Tokens :
          /\ row[t] = "absent"
          /\ row' = [row EXCEPT ![t] = "live"]
          /\ holder' = [holder EXCEPT ![t] = user[p]]
          /\ parent' = [parent EXCEPT ![t] = tok[p]]
          /\ new' = [new EXCEPT ![p] = t]
    /\ RacedBy(p, tok[p])
    /\ UNCHANGED <<userVars, blacklist, audited, handed, requestVars, logoutVars>>

(* The COMMIT of rotate_refresh_token: the UPDATE by primary key, blind to *)
(* what the row has become, and the INSERT of the successor.               *)
Rotate(p) ==
    /\ Goto(p, "rotate", "refreshAudit")
    /\ \E t \in Tokens :
          /\ row[t] = "absent"
          /\ row' = [row EXCEPT ![tok[p]] = "revoked", ![t] = "live"]
          /\ holder' = [holder EXCEPT ![t] = user[p]]
          /\ parent' = [parent EXCEPT ![t] = tok[p]]
          /\ new' = [new EXCEPT ![p] = t]
    /\ RacedBy(p, tok[p])
    /\ UNCHANGED <<userVars, blacklist, audited, handed, requestVars, logoutVars>>

RefreshAudit(p) == Goto(p, "refreshAudit", "respond") /\ CommitAudit(p)

-----------------------------------------------------------------------------
(* Logout, authenticated by an access token; the refresh token of the body *)
(* may be missing, or be any the client has.                               *)

BeginLogout(p, a, r) ==
    /\ a \in handed
    /\ a \notin blacklist \/ Flaky
    /\ r \in handed \cup {NoToken}
    /\ Goto(p, "idle", "blacklist")
    /\ user' = [user EXCEPT ![p] = holder[a]]
    /\ acc' = [acc EXCEPT ![p] = a]
    /\ tok' = [tok EXCEPT ![p] = r]
    /\ UNCHANGED <<userVars, tableVars, blacklist, audited, handed, new,
                   logoutVars>>

(* SETEX of the jti, whose failure the cache service swallows.             *)
Blacklist(p) ==
    /\ \/ tok[p] = NoToken /\ Goto(p, "blacklist", "logoutAudit")
       \/ tok[p] # NoToken /\ Goto(p, "blacklist", "find")
    /\ \/ blacklist' = blacklist \cup {acc[p]} /\ UNCHANGED dropped
       \/ Flaky /\ dropped' = dropped \cup {acc[p]} /\ UNCHANGED blacklist
    /\ UNCHANGED <<userVars, tableVars, audited, handed, requestVars, new,
                   closed, spent>>

(* revoke_refresh_token looks for the row of this token AND this user.     *)
FindToken(p) ==
    /\ pc[p] = "find"
    /\ IF holder[tok[p]] = user[p] /\ row[tok[p]] = "live"
       THEN Goto(p, "find", "revoke")
       ELSE Goto(p, "find", "logoutAudit")
    /\ UNCHANGED <<userVars, tableVars, blacklist, audited, handed, requestVars,
                   new, logoutVars>>

(* Variant: the session closes without the commit.                         *)
RevokeUncommitted(p) ==
    /\ Goto(p, "revoke", "logoutAudit")
    /\ UNCHANGED <<userVars, tableVars, blacklist, audited, handed, requestVars,
                   new, logoutVars>>

Revoke(p) ==
    /\ Goto(p, "revoke", "logoutAudit")
    /\ row' = [row EXCEPT ![tok[p]] = "revoked"]
    /\ RacedBy(p, tok[p])
    /\ UNCHANGED <<userVars, holder, parent, blacklist, audited, handed,
                   requestVars, new, logoutVars>>

(* Logout's last commit is of an audit row nothing here reads, so losing    *)
(* the request before it and losing the response after it are one: Abort.  *)
LogoutAudit(p) ==
    /\ pc[p] = "logoutAudit"
    /\ closed' = closed \cup {acc[p]}
    /\ spent' = spent \cup {t \in {tok[p]} \cap Tokens : holder[t] = user[p]}
    /\ Ended(p)
    /\ UNCHANGED <<tableVars, blacklist, audited, handed, dropped>>

-----------------------------------------------------------------------------
(* Variant: a refused request is answered like a successful one.           *)
RefuseAnswered(p) == pc[p] = "select" /\ Answer(p)

(* A check fails: the exception rolls the open sessions back.  A stored    *)
(* token may also have passed its expires_at.                              *)
Refuse(p) ==
    /\ \/ pc[p] = "reload" /\ status[user[p]] = "deleted"
       \/ pc[p] = "select"
       \/ pc[p] = "loadUser" /\ status[user[p]] = "deleted"
    /\ Ended(p)
    /\ UNCHANGED <<tableVars, blacklist, audited, handed, logoutVars>>

(* A statement or a COMMIT fails, or the worker dies: what this request    *)
(* committed before stays.                                                 *)
Abort(p) ==
    /\ "abort" \in Faults
    /\ pc[p] # "idle"
    /\ Ended(p)
    /\ UNCHANGED <<tableVars, blacklist, audited, handed, logoutVars>>

(* The commits of ChangeUserStatusUseCase and DeleteUserUseCase.           *)
Disabled(u, steps) ==
    grace' = [grace EXCEPT ![u] = {p \in Procs : user[p] = u /\ pc[p] \in steps}]

ChangeStatus(u, s) ==
    /\ status[u] # "deleted"
    /\ status[u] # s
    /\ status' = [status EXCEPT ![u] = s]
    /\ IF s = "inactive" THEN Disabled(u, UncheckedDeactivation)
                         ELSE UNCHANGED grace
    /\ UNCHANGED <<tableVars, blacklist, audited, handed, pc, requestVars, new,
                   logoutVars>>

DeleteUser(u) ==
    /\ status[u] # "deleted"
    /\ status' = [status EXCEPT ![u] = "deleted"]
    /\ Disabled(u, UncheckedDeletion)
    /\ UNCHANGED <<tableVars, blacklist, audited, handed, pc, requestVars, new,
                   logoutVars>>

Login(p) == (\E u \in Users : BeginLogin(p, u)) \/ Reload(p) \/ Issue(p)
            \/ LoginAudit(p)

Refresh(p) == (\E t \in Tokens : BeginRefresh(p, t)) \/ Select(p) \/ LoadUser(p)
              \/ Rotate(p) \/ RefreshAudit(p)

Logout(p) ==
    \/ \E a \in Tokens, r \in Tokens \cup {NoToken} : BeginLogout(p, a, r)
    \/ Blacklist(p) \/ FindToken(p) \/ Revoke(p) \/ LogoutAudit(p)

Next ==
    \/ \E p \in Procs : \/ Login(p) \/ Refresh(p) \/ Respond(p) \/ Logout(p)
                       \/ Refuse(p) \/ Abort(p)
    \/ \E u \in Users, s \in {"active", "inactive"} : ChangeStatus(u, s)
    \/ \E u \in Users : DeleteUser(u)

Spec == Init /\ [][Next]_vars

-----------------------------------------------------------------------------
(* Properties.                                                             *)

TypeOK ==
    /\ status    \in [Users -> Statuses]
    /\ row       \in [Tokens -> {"absent", "live", "revoked"}]
    /\ holder    \in [Tokens -> Users \cup {NoUser}]
    /\ blacklist \subseteq Tokens
    /\ audited   \subseteq Tokens
    /\ handed    \subseteq Tokens
    /\ pc        \in [Procs -> Steps]
    /\ user      \in [Procs -> Users \cup {NoUser}]
    /\ tok       \in [Procs -> Tokens \cup {NoToken}]
    /\ acc       \in [Procs -> Tokens \cup {NoToken}]
    /\ new       \in [Procs -> Tokens \cup {NoToken}]
    /\ parent    \in [Tokens -> Tokens \cup {NoToken}]
    /\ raced     \subseteq Tokens
    /\ grace     \in [Users -> SUBSET Procs]
    /\ closed    \subseteq Tokens
    /\ spent     \subseteq Tokens
    /\ dropped   \subseteq Tokens

Minted(t) == row[t] = "absent" /\ row'[t] = "live"

(* The table keeps its promise whatever requests overlap, fail or die: no  *)
(* token comes back to life, and a successor is committed together with    *)
(* its parent's revocation (token_service.py, rotate_refresh_token).       *)
Ledger == INSTANCE TokenLedger WITH SingleUse <- FALSE
ImplementsLedger == Ledger!Spec

(* With one request at a time only live tokens are rotated: the tokens of  *)
(* a login form a chain (rotate_refresh_token's check of record.revoked).  *)
SingleUseLedger == INSTANCE TokenLedger WITH SingleUse <- TRUE
ImplementsSingleUse == SingleUseLedger!Spec

(* A token that a rotation or a logout has revoked yields a successor only *)
(* to a refresh that had found it live before that revocation committed.   *)
RevokedMintsNothing ==
    [][\A t \in Tokens :
          Minted(t) /\ parent'[t] # NoToken
              => row[parent'[t]] = "live" \/ parent'[t] \in raced]_vars

(* However requests overlap, a refresh token yields no more successors than *)
(* the server handles requests at a time: once the first rotation has      *)
(* committed, nobody else finds the token live, so a client that goes on   *)
(* presenting it gains nothing (token_service.py, rotate_refresh_token).   *)
Successors(s) == {t \in Tokens : parent[t] = s}
SuccessorsBounded ==
    \A s \in Tokens : Cardinality(Successors(s)) <= Cardinality(Procs)

(* A disabled user gets new tokens only from requests that were past their *)
(* checks when the user was disabled; the rotation checks deletion once    *)
(* more, so there the window is its last step (refresh.py, check 2; the    *)
(* query of step 3 of rotate_refresh_token).                               *)
DisabledUsersMintNothing ==
    [][\A t \in Tokens :
          Minted(t) /\ status[holder'[t]] # "active"
              => \E p \in grace[holder'[t]] : pc'[p] # pc[p]]_vars

(* A logout that has answered leaves its access token refused, unless      *)
(* Redis lost the entry, and its refresh token, if that is the same user's, *)
(* revoked for good (README: it blacklists the one and revokes the other). *)
LogoutEndsBoth ==
    /\ closed \subseteq blacklist \cup dropped
    /\ \A t \in spent : row[t] = "revoked"

(* A client never holds a pair whose row was not committed or whose issue  *)
(* is not in the audit log, although the row, the audit row and the        *)
(* response are three steps and the request may be lost after each: the    *)
(* use cases commit before they return the pair.                           *)
HandedAreAudited ==
    handed \subseteq audited /\ \A t \in audited : row[t] # "absent"

(* A refresh token yields at most one successor, as "Raises ValueError if  *)
(* token invalid, expired, or already revoked" implies.  Two overlapping   *)
(* rotations both find it live, so it fails.                               *)
OneSuccessor ==
    \A s, t \in Tokens : parent[s] # NoToken /\ parent[s] = parent[t] => s = t
=============================================================================
