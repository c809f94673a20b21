------------------------- MODULE AuthSessionsProofs -------------------------
(* Theorems about AuthSessions, for every number of users, tokens and      *)
(* overlapping requests and every combination of faults.                   *)
EXTENDS AuthSessions, FiniteSetTheorems, TLAPS

-----------------------------------------------------------------------------
(* Type correctness.                                                       *)

Stored(t) == t \in Tokens /\ row[t] # "absent"

(* What a step finds in the local variables of its request.                *)
RequestOK ==
    \A p \in Procs :
        /\ pc[p] # "idle" => user[p] \in Users
        /\ pc[p] \in RefreshSteps \cup {"find", "revoke"} => Stored(tok[p])
        /\ pc[p] = "revoke" => holder[tok[p]] = user[p]
        /\ pc[p] \in LogoutSteps =>
              acc[p] \in Tokens /\ (tok[p] # NoToken => Stored(tok[p]))
        /\ pc[p] \in {"loginAudit", "refreshAudit", "respond"} => Stored(new[p])
        /\ pc[p] = "respond" => new[p] \in audited

(* The tables: a row has a user, an audited issue has a row, what a client *)
(* has is audited, and what has no row has no parent.                      *)
TablesOK ==
    /\ handed \subseteq audited
    /\ \A t \in audited : row[t] # "absent"
    /\ \A t \in Tokens : row[t] # "absent" => holder[t] \in Users
    /\ \A t \in Tokens : row[t] = "absent" => parent[t] = NoToken

TypeInv == TypeOK /\ RequestOK /\ TablesOK

LEMMA InitTypeInv == Init => TypeInv
  BY NullAssumption DEF Init, TypeInv, TypeOK, RequestOK, TablesOK, Statuses,
     Steps, LoginSteps, RefreshSteps, LogoutSteps, Stored

(* The disjuncts of Next, one per action.                                  *)
LEMMA StepCases ==
  ASSUME NEW P,
         [Next]_vars,
         \A p \in Procs, u \in Users : BeginLogin(p, u) => P,
         \A p \in Procs : Reload(p) => P,
         \A p \in Procs : Issue(p) => P,
         \A p \in Procs : LoginAudit(p) \/ RefreshAudit(p) => P,
         \A p \in Procs : Respond(p) => P,
         \A p \in Procs, t \in Tokens : BeginRefresh(p, t) => P,
         \A p \in Procs : Select(p) => P,
         \A p \in Procs : LoadUser(p) => P,
         \A p \in Procs : Rotate(p) => P,
         \A p \in Procs, a \in Tokens, r \in Tokens \cup {NoToken} :
            BeginLogout(p, a, r) => P,
         \A p \in Procs : Blacklist(p) => P,
         \A p \in Procs : FindToken(p) => P,
         \A p \in Procs : Revoke(p) => P,
         \A p \in Procs : LogoutAudit(p) => P,
         \A p \in Procs : Refuse(p) \/ Abort(p) => P,
         \A u \in Users, s \in {"active", "inactive"} : ChangeStatus(u, s) => P,
         \A u \in Users : DeleteUser(u) => P,
         UNCHANGED vars => P
  PROVE  P
  BY DEF Next, Login, Refresh, Logout

(* Every step keeps the variables in their types and leaves each request   *)
(* with the user and the stored tokens its next step needs.                *)
LEMMA NextTypeInv == TypeInv /\ [Next]_vars => TypeInv'
<1> SUFFICES ASSUME TypeInv, [Next]_vars PROVE TypeInv'
  OBVIOUS
<1> USE NullAssumption DEF TypeInv, TypeOK, RequestOK, TablesOK, Statuses,
        Steps, LoginSteps, RefreshSteps, LogoutSteps, Stored, Goto, userVars,
        tableVars, requestVars, logoutVars
<1>1. ASSUME NEW p \in Procs, NEW u \in Users, BeginLogin(p, u) PROVE TypeInv'
  BY <1>1 DEF BeginLogin
<1>2. ASSUME NEW p \in Procs, Reload(p) PROVE TypeInv'
  BY <1>2 DEF Reload
<1>3. ASSUME NEW p \in Procs, Issue(p) PROVE TypeInv'
  <2>1. PICK t \in Tokens : /\ row[t] = "absent"
                            /\ row' = [row EXCEPT ![t] = "live"]
                            /\ holder' = [holder EXCEPT ![t] = user[p]]
                            /\ new' = [new EXCEPT ![p] = t]
    BY <1>3 DEF Issue
  <2>2. TypeOK'
    BY <1>3, <2>1 DEF Issue
  <2>3. RequestOK'
    BY <1>3, <2>1 DEF Issue
  <2>4. TablesOK'
    BY <1>3, <2>1 DEF Issue
  <2>5. QED
    BY <2>2, <2>3, <2>4
<1>4. ASSUME NEW p \in Procs, LoginAudit(p) \/ RefreshAudit(p) PROVE TypeInv'
  BY <1>4 DEF LoginAudit, RefreshAudit, CommitAudit
<1>4r. ASSUME NEW p \in Procs, Respond(p) PROVE TypeInv'
  BY <1>4r DEF Respond, Answer, Ended
<1>5. ASSUME NEW p \in Procs, NEW t \in Tokens, BeginRefresh(p, t)
      PROVE  TypeInv'
  BY <1>5 DEF BeginRefresh
<1>6. ASSUME NEW p \in Procs, Select(p) PROVE TypeInv'
  BY <1>6 DEF Select
<1>7. ASSUME NEW p \in Procs, LoadUser(p) PROVE TypeInv'
  BY <1>7 DEF LoadUser
<1>8. ASSUME NEW p \in Procs, Rotate(p) PROVE TypeInv'
  <2>1. PICK t \in Tokens :
            /\ row[t] = "absent"
            /\ row' = [row EXCEPT ![tok[p]] = "revoked", ![t] = "live"]
            /\ holder' = [holder EXCEPT ![t] = user[p]]
            /\ parent' = [parent EXCEPT ![t] = tok[p]]
            /\ new' = [new EXCEPT ![p] = t]
    BY <1>8 DEF Rotate
  <2>2. TypeOK'
    BY <1>8, <2>1 DEF Rotate, RacedBy
  <2>3. RequestOK'
    BY <1>8, <2>1 DEF Rotate
  <2>4. TablesOK'
    BY <1>8, <2>1 DEF Rotate
  <2>5. QED
    BY <2>2, <2>3, <2>4
<1>9. ASSUME NEW p \in Procs, NEW a \in Tokens, NEW r \in Tokens \cup {NoToken},
             BeginLogout(p, a, r)
      PROVE  TypeInv'
  BY <1>9 DEF BeginLogout
<1>10. ASSUME NEW p \in Procs, Blacklist(p) PROVE TypeInv'
  BY <1>10 DEF Blacklist
<1>11. ASSUME NEW p \in Procs, FindToken(p) PROVE TypeInv'
  BY <1>11 DEF FindToken
<1>12. ASSUME NEW p \in Procs, Revoke(p) PROVE TypeInv'
  BY <1>12 DEF Revoke, RacedBy
<1>13. ASSUME NEW p \in Procs, LogoutAudit(p) PROVE TypeInv'
  BY <1>13 DEF LogoutAudit, Ended
<1>14. ASSUME NEW p \in Procs, Refuse(p) \/ Abort(p) PROVE TypeInv'
  BY <1>14 DEF Refuse, Abort, Ended
<1>15. ASSUME NEW u \in Users, NEW s \in {"active", "inactive"},
              ChangeStatus(u, s)
       PROVE  TypeInv'
  BY <1>15 DEF ChangeStatus, Disabled
<1>16. ASSUME NEW u \in Users, DeleteUser(u) PROVE TypeInv'
  BY <1>16 DEF DeleteUser, Disabled
<1>17. CASE UNCHANGED vars
  BY <1>17 DEF vars
<1>18. QED
  <2> HIDE DEF TypeInv
  <2>1. QED
    BY ONLY StepCases, [Next]_vars, <1>1, <1>2, <1>3, <1>4, <1>4r, <1>5, <1>6,
       <1>7, <1>8, <1>9, <1>10, <1>11, <1>12, <1>13, <1>14, <1>15, <1>16, <1>17

LEMMA Typing == Spec => []TypeInv
  BY InitTypeInv, NextTypeInv, PTL DEF Spec

(* Every variable keeps its type, whatever requests, administrators and    *)
(* faults interleave.                                                      *)
THEOREM TypeCorrect == Spec => []TypeOK
<1>1. TypeInv => TypeOK
  BY DEF TypeInv
<1>2. QED
  BY <1>1, Typing, PTL

(* No client ever holds a pair without a committed row and an audited      *)
(* issue, whichever of a request's commits fails and whichever response is *)
(* lost: a request that is about to answer has committed its audit row     *)
(* (RequestOK), and neither table forgets.                                 *)
THEOREM HandedOnlyAudited == Spec => []HandedAreAudited
<1>1. TypeInv => HandedAreAudited
  BY DEF TypeInv, TablesOK, HandedAreAudited
<1>2. QED
  BY <1>1, Typing, PTL

-----------------------------------------------------------------------------
(* The table implements the ledger.                                        *)

(* Every action that writes the table is one ledger step, which is why no  *)
(* crash can separate a successor from its parent's revocation.            *)
LEMMA LedgerStep ==
  ASSUME TypeInv, [Next]_vars
  PROVE  [Ledger!Next]_(Ledger!vars)
<1> USE DEF Ledger!vars, Goto, tableVars
<1>1. ASSUME NEW p \in Procs, Issue(p) PROVE Ledger!Next
  BY <1>1 DEF Issue, Ledger!Next, Ledger!Issue
<1>2. ASSUME NEW p \in Procs, Rotate(p) PROVE Ledger!Next
  <2>1. PICK t \in Tokens :
            /\ row[t] = "absent"
            /\ row' = [row EXCEPT ![tok[p]] = "revoked", ![t] = "live"]
            /\ parent' = [parent EXCEPT ![t] = tok[p]]
    BY <1>2 DEF Rotate
  <2>2. tok[p] \in Tokens /\ row[tok[p]] # "absent"
    BY <1>2 DEF Rotate, TypeInv, RequestOK, RefreshSteps, Stored
  <2>3. Ledger!Rotate(tok[p], t)
    BY <2>1, <2>2 DEF Ledger!Rotate
  <2>4. QED
    BY <2>2, <2>3 DEF Ledger!Next
<1>3. ASSUME NEW p \in Procs, Revoke(p) PROVE [Ledger!Next]_(Ledger!vars)
  <2>1. /\ tok[p] \in Tokens /\ row[tok[p]] # "absent"
        /\ row \in [Tokens -> {"absent", "live", "revoked"}]
    BY <1>3 DEF Revoke, TypeInv, TypeOK, RequestOK, Stored
  <2>2. CASE row[tok[p]] = "live"
    BY <1>3, <2>1, <2>2 DEF Revoke, Ledger!Next, Ledger!Revoke
  <2>3. CASE row[tok[p]] = "revoked"
    BY <1>3, <2>1, <2>3 DEF Revoke
  <2>4. QED
    BY <2>1, <2>2, <2>3
<1>4. ASSUME UNCHANGED <<row, parent>> PROVE [Ledger!Next]_(Ledger!vars)
  BY <1>4
<1>5. ASSUME NEW p \in Procs, NEW u \in Users, BeginLogin(p, u)
      PROVE  UNCHANGED <<row, parent>>
  BY <1>5 DEF BeginLogin
<1>6. ASSUME NEW p \in Procs, NEW t \in Tokens, BeginRefresh(p, t)
      PROVE  UNCHANGED <<row, parent>>
  BY <1>6 DEF BeginRefresh
<1>7. ASSUME NEW p \in Procs, NEW a \in Tokens,
             NEW r \in Tokens \cup {NoToken}, BeginLogout(p, a, r)
      PROVE  UNCHANGED <<row, parent>>
  BY <1>7 DEF BeginLogout
<1>8. ASSUME NEW p \in Procs,
             \/ Reload(p) \/ Select(p) \/ LoadUser(p) \/ LoginAudit(p)
             \/ RefreshAudit(p) \/ Respond(p) \/ Blacklist(p) \/ FindToken(p)
             \/ LogoutAudit(p) \/ Refuse(p) \/ Abort(p)
      PROVE  UNCHANGED <<row, parent>>
  BY <1>8 DEF Reload, Select, LoadUser, LoginAudit, RefreshAudit, CommitAudit, Respond, Answer,
     Blacklist, FindToken, LogoutAudit, Refuse, Abort
<1>9. ASSUME NEW u \in Users, NEW s, ChangeStatus(u, s) \/ DeleteUser(u)
      PROVE  UNCHANGED <<row, parent>>
  BY <1>9 DEF ChangeStatus, DeleteUser
<1>10. ASSUME UNCHANGED vars PROVE UNCHANGED <<row, parent>>
  BY <1>10 DEF vars
<1>11. QED
  BY ONLY StepCases, [Next]_vars, <1>1, <1>2, <1>3, <1>4, <1>5, <1>6, <1>7,
     <1>8, <1>9, <1>10

(* The refresh_tokens table refines the ledger: revocation is for ever and *)
(* rotation is atomic, under every interleaving and every fault.           *)
THEOREM LedgerRefinement == Spec => ImplementsLedger
<1>1. Init => Ledger!Init
  BY DEF Init, Ledger!Init
<1>2. TypeInv /\ [Next]_vars => [Ledger!Next]_(Ledger!vars)
  BY LedgerStep
<1>3. QED
  BY <1>1, <1>2, Typing, PTL DEF Spec, ImplementsLedger, Ledger!Spec

-----------------------------------------------------------------------------
(* Revoked tokens.                                                         *)

(* A rotation that holds its token checked holds it live, or the token was *)
(* revoked under it.                                                       *)
RaceInv ==
    \A q \in Procs :
        pc[q] \in Checked => row[tok[q]] = "live" \/ tok[q] \in raced

(* Only Rotate and Revoke take a token from live to revoked, and both mark *)
(* it raced when another request holds it checked.                         *)
LEMMA NextRaceInv == TypeInv /\ RaceInv /\ [Next]_vars => RaceInv'
<1> SUFFICES ASSUME TypeInv, RaceInv, [Next]_vars PROVE RaceInv'
  OBVIOUS
<1>t. /\ row \in [Tokens -> {"absent", "live", "revoked"}]
      /\ pc \in [Procs -> Steps] /\ tok \in [Procs -> Tokens \cup {NoToken}]
      /\ \A q \in Procs : pc[q] \in Checked \cup {"select", "revoke"} =>
            tok[q] \in Tokens /\ row[tok[q]] # "absent"
  BY DEF TypeInv, TypeOK, RequestOK, RefreshSteps, Checked, Stored
<1> USE <1>t DEF RaceInv, Checked, Goto, tableVars, requestVars
<1>1. ASSUME NEW p \in Procs, Issue(p) PROVE RaceInv'
  <2>1. PICK t \in Tokens : row[t] = "absent" /\ row' = [row EXCEPT ![t] = "live"]
    BY <1>1 DEF Issue
  <2>2. QED
    BY <1>1, <2>1 DEF Issue
<1>2. ASSUME NEW p \in Procs, Rotate(p) PROVE RaceInv'
  <2>1. PICK t \in Tokens :
            row[t] = "absent" /\ row' = [row EXCEPT ![tok[p]] = "revoked", ![t] = "live"]
    BY <1>2 DEF Rotate
  <2>2. QED
    BY <1>2, <2>1 DEF Rotate, RacedBy
<1>3. ASSUME NEW p \in Procs, Revoke(p) PROVE RaceInv'
  BY <1>3 DEF Revoke, RacedBy
<1>4. ASSUME NEW p \in Procs, Select(p) PROVE RaceInv'
  BY <1>4 DEF Select
<1>5. ASSUME NEW p \in Procs, NEW u \in Users, BeginLogin(p, u) PROVE RaceInv'
  BY <1>5 DEF BeginLogin
<1>6. ASSUME NEW p \in Procs, NEW t \in Tokens, BeginRefresh(p, t)
      PROVE  RaceInv'
  BY <1>6 DEF BeginRefresh
<1>7. ASSUME NEW p \in Procs, NEW a \in Tokens,
             NEW r \in Tokens \cup {NoToken}, BeginLogout(p, a, r)
      PROVE  RaceInv'
  BY <1>7 DEF BeginLogout
<1>8. ASSUME NEW p \in Procs,
             Reload(p) \/ LoadUser(p) \/ Blacklist(p) \/ FindToken(p)
      PROVE  RaceInv'
  BY <1>8 DEF Reload, LoadUser, Blacklist, FindToken
<1>9. ASSUME NEW p \in Procs,
             \/ LoginAudit(p) \/ RefreshAudit(p) \/ Respond(p)
             \/ LogoutAudit(p) \/ Refuse(p) \/ Abort(p)
      PROVE  RaceInv'
  BY <1>9 DEF LoginAudit, RefreshAudit, CommitAudit, Respond, Answer, LogoutAudit, Refuse, Abort,
     Ended
<1>10. ASSUME NEW u \in Users, NEW s, ChangeStatus(u, s) \/ DeleteUser(u)
       PROVE  RaceInv'
  BY <1>10 DEF ChangeStatus, DeleteUser
<1>11. ASSUME UNCHANGED vars PROVE RaceInv'
  BY <1>11 DEF vars
<1>12. QED
  BY ONLY StepCases, [Next]_vars, <1>1, <1>2, <1>3, <1>4, <1>5, <1>6, <1>7,
     <1>8, <1>9, <1>10, <1>11

LEMMA RaceInvHolds == Spec => [](TypeInv /\ RaceInv)
<1>1. Init => RaceInv
  BY DEF Init, RaceInv, Checked
<1>2. QED
  BY <1>1, InitTypeInv, NextTypeInv, NextRaceInv, PTL DEF Spec

(* The steps that mint a token are Issue and Rotate.                       *)
LEMMA MintingSteps ==
  ASSUME TypeInv, [Next]_vars, NEW t \in Tokens, Minted(t)
  PROVE  \E p \in Procs : Issue(p) \/ Rotate(p)
<1> DEFINE P == \E p \in Procs : Issue(p) \/ Rotate(p)
<1> USE DEF Minted, tableVars
<1>1. \A p \in Procs : Issue(p) => P
  OBVIOUS
<1>2. \A p \in Procs : Rotate(p) => P
  OBVIOUS
<1>3. \A p \in Procs : Revoke(p) => P
  BY DEF Revoke, Goto, TypeInv, TypeOK
<1>4. \A p \in Procs, u \in Users : BeginLogin(p, u) => P
  BY DEF BeginLogin
<1>5. \A p \in Procs, s \in Tokens : BeginRefresh(p, s) => P
  BY DEF BeginRefresh
<1>6. \A p \in Procs, a \in Tokens, r \in Tokens \cup {NoToken} :
         BeginLogout(p, a, r) => P
  BY DEF BeginLogout
<1>7. ASSUME NEW p \in Procs,
             \/ Reload(p) \/ Select(p) \/ LoadUser(p) \/ LoginAudit(p)
             \/ RefreshAudit(p) \/ Respond(p) \/ Blacklist(p) \/ FindToken(p)
             \/ LogoutAudit(p) \/ Refuse(p) \/ Abort(p)
      PROVE  P
  BY <1>7 DEF Reload, Select, LoadUser, LoginAudit, RefreshAudit, CommitAudit, Respond, Answer,
     Blacklist, FindToken, LogoutAudit, Refuse, Abort
<1>8. \A u \in Users, s \in {"active", "inactive"} : ChangeStatus(u, s) => P
  BY DEF ChangeStatus
<1>9. \A u \in Users : DeleteUser(u) => P
  BY DEF DeleteUser
<1>10. UNCHANGED vars => P
  BY DEF vars
<1>11. P
  <2> HIDE DEF P
  <2>1. QED
    BY ONLY StepCases, [Next]_vars, <1>1, <1>2, <1>3, <1>4, <1>5, <1>6, <1>7,
       <1>8, <1>9, <1>10
<1>12. QED
  BY <1>11

LEMMA RevokedMintsStep ==
  ASSUME TypeInv, RaceInv, [Next]_vars,
         NEW t \in Tokens, Minted(t), parent'[t] # NoToken
  PROVE  row[parent'[t]] = "live" \/ parent'[t] \in raced
<1>1. PICK p \in Procs : Issue(p) \/ Rotate(p)
  BY MintingSteps
<1>2. CASE Issue(p)
  BY <1>2 DEF Issue, Minted, TypeInv, TablesOK
<1>3. CASE Rotate(p)
  BY <1>3 DEF Rotate, Minted, RaceInv, Checked, Goto, TypeInv, TypeOK
<1>4. QED
  BY <1>1, <1>2, <1>3

(* A revoked token mints a successor only for a refresh that had found it  *)
(* live before the revocation.                                             *)
THEOREM RevokedMints == Spec => RevokedMintsNothing
<1>1. TypeInv /\ RaceInv /\ [Next]_vars =>
         [\A t \in Tokens :
            Minted(t) /\ parent'[t] # NoToken
                => row[parent'[t]] = "live" \/ parent'[t] \in raced]_vars
  BY RevokedMintsStep
<1>2. QED
  BY <1>1, RaceInvHolds, PTL DEF Spec, RevokedMintsNothing

-----------------------------------------------------------------------------
(* How many successors a token can have.                                   *)

(* The refreshes that have found s live and have not rotated it yet.       *)
Rotating(s) == {p \in Procs : tok[p] = s /\ pc[p] \in Checked}

(* Each successor of s was minted by a request that has left Rotating(s),  *)
(* and once s is revoked nobody joins that set; the number of successors   *)
(* alone says nothing about the rotations still to come.                   *)
SuccessorsInv ==
    \A s \in Tokens :
        /\ IsFiniteSet(Successors(s))
        /\ row[s] # "revoked" => Successors(s) = {}
        /\ Cardinality(Successors(s)) + Cardinality(Rotating(s)) <= Cardinality(Procs)

LEMMA RotatingFinite ==
  ASSUME NEW s
  PROVE  /\ IsFiniteSet(Rotating(s)) /\ Cardinality(Rotating(s)) \in Nat
         /\ Cardinality(Rotating(s)) <= Cardinality(Procs)
         /\ Cardinality(Procs) \in Nat
<1>1. Rotating(s) \in SUBSET Procs
  BY DEF Rotating
<1>2. QED
  BY <1>1, ProcsAssumption, FS_Subset, FS_CardinalityType

(* A step that leaves the successors alone, revives nothing and lets       *)
(* nobody join the rotations of s.                                         *)
LEMMA QuietSuccessors ==
  ASSUME SuccessorsInv, NEW s \in Tokens,
         Successors(s)' = Successors(s), row[s] = "revoked" => row'[s] = "revoked",
         Rotating(s)' \subseteq Rotating(s)
  PROVE  /\ IsFiniteSet(Successors(s)')
         /\ row'[s] # "revoked" => Successors(s)' = {}
         /\ Cardinality(Successors(s)') + Cardinality(Rotating(s)') <= Cardinality(Procs)
<1>1. /\ IsFiniteSet(Successors(s))
      /\ row[s] # "revoked" => Successors(s) = {}
      /\ Cardinality(Successors(s)) + Cardinality(Rotating(s)) <= Cardinality(Procs)
  BY DEF SuccessorsInv
<1>2. IsFiniteSet(Rotating(s)) /\ Cardinality(Rotating(s)) \in Nat /\ Cardinality(Procs) \in Nat
  BY RotatingFinite
<1>3. Cardinality(Rotating(s)') \in Nat /\ Cardinality(Rotating(s)') <= Cardinality(Rotating(s))
  BY <1>2, FS_Subset, FS_CardinalityType
<1>4. Cardinality(Successors(s)) \in Nat
  BY <1>1, FS_CardinalityType
<1>5. Cardinality(Successors(s)') + Cardinality(Rotating(s)') <= Cardinality(Procs)
  BY <1>1, <1>2, <1>3, <1>4
<1>6. QED
  BY <1>1, <1>5

(* Select lets a request join the rotations, but only of a live token,     *)
(* which has no successor.                                                 *)
LEMMA SelectSuccessors ==
  ASSUME TypeInv, SuccessorsInv, NEW p \in Procs, Select(p)
  PROVE  SuccessorsInv'
<1>1. /\ UNCHANGED <<row, parent, tok>> /\ row[tok[p]] = "live"
      /\ pc' = [pc EXCEPT ![p] = "loadUser"] /\ pc \in [Procs -> Steps]
  BY DEF Select, Goto, tableVars, requestVars, TypeInv, TypeOK
<1>2. SUFFICES ASSUME NEW s \in Tokens
      PROVE  /\ IsFiniteSet(Successors(s)')
             /\ row'[s] # "revoked" => Successors(s)' = {}
             /\ Cardinality(Successors(s)') + Cardinality(Rotating(s)') <= Cardinality(Procs)
  BY DEF SuccessorsInv
<1>3. Successors(s)' = Successors(s)
  BY <1>1 DEF Successors
<1>4. CASE tok[p] # s
  <2>1. Rotating(s)' \subseteq Rotating(s)
    BY <1>1, <1>4 DEF Rotating
  <2>2. QED
    BY <1>1, <1>3, <2>1, QuietSuccessors
<1>5. CASE tok[p] = s
  <2>1. Successors(s)' = {} /\ row'[s] = "live"
    BY <1>1, <1>3, <1>5 DEF SuccessorsInv
  <2>2. Rotating(s)' \in SUBSET Procs
    BY DEF Rotating
  <2>3. /\ Cardinality(Rotating(s)') <= Cardinality(Procs)
        /\ Cardinality(Rotating(s)') \in Nat
    BY <2>2, ProcsAssumption, FS_Subset, FS_CardinalityType
  <2>4. IsFiniteSet(Successors(s)') /\ Cardinality(Successors(s)') = 0
    BY <2>1, FS_EmptySet
  <2>5. QED
    BY <2>1, <2>3, <2>4
<1>6. QED
  BY <1>4, <1>5

(* Rotate adds a successor and leaves the rotations.                       *)
LEMMA RotateSuccessors ==
  ASSUME TypeInv, SuccessorsInv, NEW p \in Procs, Rotate(p)
  PROVE  SuccessorsInv'
<1>1. PICK t \in Tokens :
          /\ row[t] = "absent"
          /\ row' = [row EXCEPT ![tok[p]] = "revoked", ![t] = "live"]
          /\ parent' = [parent EXCEPT ![t] = tok[p]]
  BY DEF Rotate
<1>2. /\ pc' = [pc EXCEPT ![p] = "refreshAudit"] /\ tok' = tok /\ pc[p] \in Checked
      /\ pc \in [Procs -> Steps]
  BY DEF Rotate, Goto, requestVars, Checked, TypeInv, TypeOK
<1>3. /\ tok[p] \in Tokens /\ row[tok[p]] # "absent" /\ parent[t] = NoToken
      /\ row \in [Tokens -> {"absent", "live", "revoked"}]
      /\ parent \in [Tokens -> Tokens \cup {NoToken}]
  BY <1>1 DEF Rotate, Goto, TypeInv, TypeOK, RequestOK, TablesOK, RefreshSteps, Stored
<1>4. SUFFICES ASSUME NEW s \in Tokens
      PROVE  /\ IsFiniteSet(Successors(s)')
             /\ row'[s] # "revoked" => Successors(s)' = {}
             /\ Cardinality(Successors(s)') + Cardinality(Rotating(s)') <= Cardinality(Procs)
  BY DEF SuccessorsInv
<1>5. CASE s # tok[p]
  <2>1. Successors(s)' = Successors(s)
    BY <1>1, <1>3, <1>5, NullAssumption DEF Successors
  <2>2. Rotating(s)' \subseteq Rotating(s)
    BY <1>2, <1>5 DEF Rotating, Checked
  <2>3. row[s] = "revoked" => row'[s] = "revoked"
    BY <1>1, <1>3, <1>5
  <2>4. QED
    BY <2>1, <2>2, <2>3, QuietSuccessors
<1>6. CASE s = tok[p]
  <2>1. Successors(s)' = Successors(s) \cup {t} /\ t \notin Successors(s)
    BY <1>1, <1>3, <1>6, NullAssumption DEF Successors
  <2>2. Rotating(s)' = Rotating(s) \ {p} /\ p \in Rotating(s)
    BY <1>2, <1>6 DEF Rotating, Checked
  <2>3. /\ IsFiniteSet(Successors(s)) /\ Cardinality(Successors(s)) \in Nat
        /\ Cardinality(Successors(s)) + Cardinality(Rotating(s)) <= Cardinality(Procs)
    BY FS_CardinalityType DEF SuccessorsInv
  <2>4. IsFiniteSet(Rotating(s)) /\ Cardinality(Rotating(s)) \in Nat /\ Cardinality(Procs) \in Nat
    BY RotatingFinite
  <2>5. IsFiniteSet(Successors(s)') /\ Cardinality(Successors(s)') = Cardinality(Successors(s)) + 1
    BY <2>1, <2>3, FS_AddElement
  <2>6. Cardinality(Rotating(s)') = Cardinality(Rotating(s)) - 1
    BY <2>2, <2>4, FS_RemoveElement
  <2>7. row'[s] = "revoked"
    BY <1>1, <1>3, <1>6
  <2>8. Cardinality(Successors(s)') + Cardinality(Rotating(s)') <= Cardinality(Procs)
    BY <2>3, <2>4, <2>5, <2>6
  <2>9. QED
    BY <2>5, <2>7, <2>8
<1>7. QED
  BY <1>5, <1>6

(* What every other step does to the tables and to the rotations.          *)
LEMMA OtherSteps ==
  ASSUME TypeInv, [Next]_vars,
         \A p \in Procs : ~Select(p) /\ ~Rotate(p)
  PROVE  /\ parent' = parent
         /\ \A s \in Tokens : row[s] = "revoked" => row'[s] = "revoked"
         /\ \A s \in Tokens : Rotating(s)' \subseteq Rotating(s)
<1> DEFINE P == /\ parent' = parent
                /\ \A s \in Tokens : row[s] = "revoked" => row'[s] = "revoked"
                /\ \A s \in Tokens : Rotating(s)' \subseteq Rotating(s)
<1>t. /\ row \in [Tokens -> {"absent", "live", "revoked"}] /\ pc \in [Procs -> Steps]
      /\ tok \in [Procs -> Tokens \cup {NoToken}]
  BY DEF TypeInv, TypeOK
<1> USE <1>t DEF Rotating, Checked, Goto, tableVars, requestVars, Ended
<1>1. \A p \in Procs : Issue(p) => P
  BY DEF Issue
<1>2. \A p \in Procs : Revoke(p) => P
  BY DEF Revoke
<1>3. \A p \in Procs, u \in Users : BeginLogin(p, u) => P
  BY DEF BeginLogin
<1>4. \A p \in Procs, t \in Tokens : BeginRefresh(p, t) => P
  BY DEF BeginRefresh
<1>5. \A p \in Procs, a \in Tokens, r \in Tokens \cup {NoToken} : BeginLogout(p, a, r) => P
  BY DEF BeginLogout
<1>6. \A p \in Procs : Reload(p) => P
  BY DEF Reload
<1>7. \A p \in Procs : LoadUser(p) => P
  BY DEF LoadUser
<1>8. \A p \in Procs : Blacklist(p) => P
  BY DEF Blacklist
<1>9. \A p \in Procs : FindToken(p) => P
  BY DEF FindToken
<1>10. \A p \in Procs : LoginAudit(p) \/ RefreshAudit(p) => P
  BY DEF LoginAudit, RefreshAudit, CommitAudit
<1>10r. \A p \in Procs : Respond(p) => P
  BY DEF Respond, Answer
<1>11. \A p \in Procs : LogoutAudit(p) => P
  BY DEF LogoutAudit
<1>12. \A p \in Procs : Refuse(p) \/ Abort(p) => P
  BY DEF Refuse, Abort
<1>13. \A u \in Users, s \in {"active", "inactive"} : ChangeStatus(u, s) => P
  BY DEF ChangeStatus
<1>14. \A u \in Users : DeleteUser(u) => P
  BY DEF DeleteUser
<1>15. UNCHANGED vars => P
  BY DEF vars
<1>16. P
  <2> HIDE DEF P
  <2>1. \A p \in Procs : Select(p) => P
    OBVIOUS
  <2>2. \A p \in Procs : Rotate(p) => P
    OBVIOUS
  <2>3. QED
    BY ONLY StepCases, [Next]_vars, <1>1, <1>2, <1>3, <1>4, <1>5, <1>6, <1>7, <1>8,
       <1>9, <1>10, <1>10r, <1>11, <1>12, <1>13, <1>14, <1>15, <2>1, <2>2
<1>17. QED
  BY <1>16

LEMMA NextSuccessors == TypeInv /\ SuccessorsInv /\ [Next]_vars => SuccessorsInv'
<1> SUFFICES ASSUME TypeInv, SuccessorsInv, [Next]_vars PROVE SuccessorsInv'
  OBVIOUS
<1>1. CASE \E p \in Procs : Select(p)
  BY <1>1, SelectSuccessors
<1>2. CASE \E p \in Procs : Rotate(p)
  BY <1>2, RotateSuccessors
<1>3. CASE \A p \in Procs : ~Select(p) /\ ~Rotate(p)
  <2>1. /\ parent' = parent
        /\ \A s \in Tokens : row[s] = "revoked" => row'[s] = "revoked"
        /\ \A s \in Tokens : Rotating(s)' \subseteq Rotating(s)
    BY <1>3, OtherSteps
  <2>2. \A s \in Tokens : Successors(s)' = Successors(s)
    BY <2>1 DEF Successors
  <2>3. QED
    BY <2>1, <2>2, QuietSuccessors DEF SuccessorsInv
<1>4. QED
  BY <1>1, <1>2, <1>3

LEMMA InitSuccessors == Init => SuccessorsInv
<1> SUFFICES ASSUME Init, NEW s \in Tokens
             PROVE  /\ IsFiniteSet(Successors(s)) /\ Successors(s) = {}
                    /\ Cardinality(Successors(s)) + Cardinality(Rotating(s)) <= Cardinality(Procs)
  BY DEF SuccessorsInv
<1>1. Successors(s) = {}
  BY NullAssumption DEF Init, Successors
<1>2. IsFiniteSet(Successors(s)) /\ Cardinality(Successors(s)) = 0
  BY <1>1, FS_EmptySet
<1>3. QED
  BY <1>1, <1>2, RotatingFinite

(* The price of the missing lock in rotate_refresh_token has a bound: a    *)
(* refresh token yields at most as many successors as there are requests   *)
(* in flight at a time, and none after the first of them was followed by a *)
(* moment without any.                                                     *)
THEOREM SuccessorsOfOne == Spec => []SuccessorsBounded
<1>1. SuccessorsInv => SuccessorsBounded
  <2> SUFFICES ASSUME SuccessorsInv, NEW s \in Tokens
               PROVE  Cardinality(Successors(s)) <= Cardinality(Procs)
    BY DEF SuccessorsBounded
  <2>1. /\ IsFiniteSet(Successors(s))
        /\ Cardinality(Successors(s)) + Cardinality(Rotating(s)) <= Cardinality(Procs)
    BY DEF SuccessorsInv
  <2>2. Cardinality(Successors(s)) \in Nat /\ Cardinality(Rotating(s)) \in Nat
        /\ Cardinality(Procs) \in Nat
    BY <2>1, RotatingFinite, FS_CardinalityType
  <2>3. QED
    BY <2>1, <2>2
<1>2. QED
  BY <1>1, InitTypeInv, NextTypeInv, InitSuccessors, NextSuccessors, PTL DEF Spec

-----------------------------------------------------------------------------
(* One request at a time.                                                  *)

(* With a single request nothing is ever revoked under a rotation.         *)
LEMMA NothingRaced ==
  ASSUME NEW r, Procs = {r}, raced = {}, [Next]_vars PROVE raced' = {}
<1> USE DEF tableVars
<1>1. \A p \in Procs : Rotate(p) => raced' = {}
  BY DEF Rotate, RacedBy
<1>2. \A p \in Procs : Revoke(p) => raced' = {}
  BY DEF Revoke, RacedBy
<1>3. \A p \in Procs : Issue(p) => raced' = {}
  BY DEF Issue
<1>4. \A p \in Procs, u \in Users : BeginLogin(p, u) => raced' = {}
  BY DEF BeginLogin
<1>5. \A p \in Procs, t \in Tokens : BeginRefresh(p, t) => raced' = {}
  BY DEF BeginRefresh
<1>6. \A p \in Procs, a \in Tokens, t \in Tokens \cup {NoToken} :
         BeginLogout(p, a, t) => raced' = {}
  BY DEF BeginLogout
<1>7. ASSUME NEW p \in Procs,
             \/ Reload(p) \/ Select(p) \/ LoadUser(p) \/ LoginAudit(p)
             \/ RefreshAudit(p) \/ Respond(p) \/ Blacklist(p) \/ FindToken(p)
             \/ LogoutAudit(p) \/ Refuse(p) \/ Abort(p)
      PROVE  raced' = {}
  BY <1>7 DEF Reload, Select, LoadUser, LoginAudit, RefreshAudit, CommitAudit, Respond, Answer,
     Blacklist, FindToken, LogoutAudit, Refuse, Abort
<1>8. \A u \in Users, s \in {"active", "inactive"} :
         ChangeStatus(u, s) => raced' = {}
  BY DEF ChangeStatus
<1>9. \A u \in Users : DeleteUser(u) => raced' = {}
  BY DEF DeleteUser
<1>10. UNCHANGED vars => raced' = {}
  BY DEF vars
<1>11. QED
  BY ONLY StepCases, [Next]_vars, <1>1, <1>2, <1>3, <1>4, <1>5, <1>6, <1>7,
     <1>8, <1>9, <1>10

(* Served one request at a time, every rotation is of a live token: the    *)
(* check of record.revoked is enough, and only overlap defeats it.         *)
THEOREM SequentialSingleUse ==
  ASSUME NEW r, Procs = {r} PROVE Spec => ImplementsSingleUse
<1>1. Init => SingleUseLedger!Init /\ raced = {}
  BY DEF Init, SingleUseLedger!Init
<1>2. raced = {} /\ [Next]_vars => (raced = {})'
  BY NothingRaced
<1>3. ASSUME TypeInv, RaceInv, raced = {}, [Next]_vars
      PROVE  [SingleUseLedger!Next]_(SingleUseLedger!vars)
  <2> USE DEF SingleUseLedger!vars
  <2>1. CASE \E t \in Tokens : Ledger!Issue(t) \/ Ledger!Revoke(t)
    BY <2>1 DEF Ledger!Issue, Ledger!Revoke, SingleUseLedger!Next,
       SingleUseLedger!Issue, SingleUseLedger!Revoke
  <2>2. ASSUME NEW s \in Tokens, NEW t \in Tokens, Ledger!Rotate(s, t)
        PROVE  SingleUseLedger!Next
    <3>1. Minted(t) /\ parent'[t] = s
      BY <1>3, <2>2 DEF Ledger!Rotate, Minted, TypeInv, TypeOK
    <3>2. row[s] = "live"
      BY <1>3, <3>1, RevokedMintsStep, NullAssumption
    <3>3. SingleUseLedger!Rotate(s, t)
      BY <2>2, <3>2 DEF Ledger!Rotate, SingleUseLedger!Rotate
    <3>4. QED
      BY <3>3 DEF SingleUseLedger!Next
  <2>3. CASE UNCHANGED Ledger!vars
    BY <2>3 DEF Ledger!vars
  <2>4. QED
    BY <1>3, LedgerStep, <2>1, <2>2, <2>3 DEF Ledger!Next
<1>4. TypeInv /\ RaceInv /\ raced = {} /\ [Next]_vars
         => [SingleUseLedger!Next]_(SingleUseLedger!vars)
  BY <1>3
<1>5. QED
  BY <1>1, <1>2, <1>4, RaceInvHolds, PTL
     DEF Spec, ImplementsSingleUse, SingleUseLedger!Spec

-----------------------------------------------------------------------------
(* Disabled users.                                                         *)

(* A request that will not look at the status again was caught in flight   *)
(* when its user was disabled.                                             *)
GraceInv ==
    \A p \in Procs :
        /\ pc[p] \in UncheckedDeactivation /\ status[user[p]] = "inactive"
              => p \in grace[user[p]]
        /\ pc[p] \in UncheckedDeletion /\ status[user[p]] = "deleted"
              => p \in grace[user[p]]

LEMMA NextGraceInv == TypeInv /\ GraceInv /\ [Next]_vars => GraceInv'
<1> SUFFICES ASSUME TypeInv, GraceInv, [Next]_vars PROVE GraceInv'
  OBVIOUS
<1>t. /\ status \in [Users -> Statuses] /\ grace \in [Users -> SUBSET Procs]
      /\ pc \in [Procs -> Steps] /\ user \in [Procs -> Users \cup {NoUser}]
      /\ \A p \in Procs : pc[p] # "idle" => user[p] \in Users
      /\ \A t \in handed : holder[t] \in Users
  BY DEF TypeInv, TypeOK, RequestOK, TablesOK
<1> USE <1>t DEF GraceInv, UncheckedDeactivation, UncheckedDeletion, Goto,
                 userVars, requestVars, Statuses
<1>1. ASSUME NEW p \in Procs, NEW u \in Users, BeginLogin(p, u) PROVE GraceInv'
  BY <1>1 DEF BeginLogin
<1>2. ASSUME NEW p \in Procs, Reload(p) PROVE GraceInv'
  BY <1>2 DEF Reload
<1>3. ASSUME NEW p \in Procs, Issue(p) PROVE GraceInv'
  BY <1>3 DEF Issue
<1>4. ASSUME NEW p \in Procs,
             Respond(p) \/ LogoutAudit(p) \/ Refuse(p) \/ Abort(p)
      PROVE  GraceInv'
  <2>1. Ended(p)
    BY <1>4 DEF Respond, Answer, LogoutAudit, Refuse, Abort
  <2>2. QED
    BY <2>1 DEF Ended
<1>4a. ASSUME NEW p \in Procs, LoginAudit(p) \/ RefreshAudit(p) PROVE GraceInv'
  BY <1>4a DEF LoginAudit, RefreshAudit, CommitAudit
<1>5. ASSUME NEW p \in Procs, NEW t \in Tokens, BeginRefresh(p, t)
      PROVE  GraceInv'
  BY <1>5 DEF BeginRefresh
<1>6. ASSUME NEW p \in Procs, Select(p) PROVE GraceInv'
  BY <1>6 DEF Select
<1>7. ASSUME NEW p \in Procs, LoadUser(p) PROVE GraceInv'
  BY <1>7 DEF LoadUser
<1>8. ASSUME NEW p \in Procs, Rotate(p) PROVE GraceInv'
  BY <1>8 DEF Rotate
<1>9. ASSUME NEW p \in Procs, NEW a \in Tokens, NEW r \in Tokens \cup {NoToken},
             BeginLogout(p, a, r)
      PROVE  GraceInv'
  BY <1>9 DEF BeginLogout
<1>10. ASSUME NEW p \in Procs, Blacklist(p) \/ FindToken(p) \/ Revoke(p)
       PROVE  GraceInv'
  BY <1>10 DEF Blacklist, FindToken, Revoke
<1>11. ASSUME NEW u \in Users, NEW s \in {"active", "inactive"},
              ChangeStatus(u, s)
       PROVE  GraceInv'
  BY <1>11 DEF ChangeStatus, Disabled
<1>12. ASSUME NEW u \in Users, DeleteUser(u) PROVE GraceInv'
  BY <1>12 DEF DeleteUser, Disabled
<1>13. ASSUME UNCHANGED vars PROVE GraceInv'
  BY <1>13 DEF vars
<1>14. QED
  BY ONLY StepCases, [Next]_vars, <1>1, <1>2, <1>3, <1>4, <1>4a, <1>5, <1>6, <1>7,
     <1>8, <1>9, <1>10, <1>11, <1>12, <1>13

(* A disabled user gets tokens only from requests in flight past the check *)
(* at the moment of the deactivation, or of the deletion.                  *)
THEOREM DisabledUsers == Spec => DisabledUsersMintNothing
<1>1. ASSUME TypeInv, GraceInv, [Next]_vars,
             NEW t \in Tokens, Minted(t), status[holder'[t]] # "active"
      PROVE  \E p \in grace[holder'[t]] : pc'[p] # pc[p]
  <2>1. PICK p \in Procs : Issue(p) \/ Rotate(p)
    BY <1>1, MintingSteps
  <2>2. holder'[t] = user[p] /\ pc[p] \in UncheckedDeletion /\ pc'[p] # pc[p]
    BY <1>1, <2>1 DEF Issue, Rotate, Minted, Goto, UncheckedDeletion, TypeInv,
       TypeOK
  <2>3. status[user[p]] \in {"inactive", "deleted"}
    BY <1>1, <2>2 DEF TypeInv, TypeOK, RequestOK, Statuses, UncheckedDeletion
  <2>4. p \in grace[user[p]]
    BY <1>1, <2>2, <2>3 DEF GraceInv, UncheckedDeactivation, UncheckedDeletion
  <2>5. QED
    BY <2>2, <2>4
<1>2. TypeInv /\ GraceInv /\ [Next]_vars =>
         [\A t \in Tokens :
            Minted(t) /\ status[holder'[t]] # "active"
                => \E p \in grace[holder'[t]] : pc'[p] # pc[p]]_vars
  BY <1>1
<1>3. Init => GraceInv
  BY DEF Init, GraceInv, UncheckedDeactivation, UncheckedDeletion
<1>4. QED
  BY <1>2, <1>3, InitTypeInv, NextTypeInv, NextGraceInv, PTL
     DEF Spec, DisabledUsersMintNothing

-----------------------------------------------------------------------------
(* Logout.                                                                 *)

(* What a logout has achieved by the time it reaches each of its steps.    *)
LogoutInv ==
    /\ LogoutEndsBoth
    /\ \A p \in Procs :
          /\ pc[p] \in {"find", "revoke", "logoutAudit"}
                => acc[p] \in blacklist \cup dropped
          /\ pc[p] = "find" => tok[p] \in Tokens
          /\ pc[p] = "logoutAudit" =>
                (tok[p] \in Tokens /\ holder[tok[p]] = user[p]
                    => row[tok[p]] = "revoked")

LEMMA NextLogoutInv == TypeInv /\ LogoutInv /\ [Next]_vars => LogoutInv'
<1> SUFFICES ASSUME TypeInv, LogoutInv, [Next]_vars PROVE LogoutInv'
  OBVIOUS
<1>t. /\ row \in [Tokens -> {"absent", "live", "revoked"}]
      /\ holder \in [Tokens -> Users \cup {NoUser}]
      /\ pc \in [Procs -> Steps] /\ tok \in [Procs -> Tokens \cup {NoToken}]
      /\ acc \in [Procs -> Tokens \cup {NoToken}]
      /\ user \in [Procs -> Users \cup {NoUser}]
      /\ spent \subseteq Tokens
      /\ \A p \in Procs : pc[p] = "logoutAudit" /\ tok[p] \in Tokens =>
            row[tok[p]] # "absent"
      /\ \A p \in Procs : pc[p] \in {"rotate", "find", "revoke"} =>
            tok[p] \in Tokens /\ row[tok[p]] # "absent"
  BY NullAssumption
     DEF TypeInv, TypeOK, RequestOK, RefreshSteps, LogoutSteps, Stored
<1> USE <1>t, NullAssumption DEF LogoutInv, LogoutEndsBoth, Goto,
        tableVars, requestVars, logoutVars
<1>1. ASSUME NEW p \in Procs, Issue(p) PROVE LogoutInv'
  <2>1. PICK t \in Tokens : /\ row[t] = "absent"
                            /\ row' = [row EXCEPT ![t] = "live"]
                            /\ holder' = [holder EXCEPT ![t] = user[p]]
    BY <1>1 DEF Issue
  <2>2. QED
    BY <1>1, <2>1 DEF Issue
<1>2. ASSUME NEW p \in Procs, Rotate(p) PROVE LogoutInv'
  <2>1. PICK t \in Tokens :
            /\ row[t] = "absent"
            /\ row' = [row EXCEPT ![tok[p]] = "revoked", ![t] = "live"]
            /\ holder' = [holder EXCEPT ![t] = user[p]]
    BY <1>2 DEF Rotate
  <2>2. QED
    BY <1>2, <2>1 DEF Rotate
<1>3. ASSUME NEW p \in Procs, Blacklist(p) PROVE LogoutInv'
  BY <1>3 DEF Blacklist
<1>4. ASSUME NEW p \in Procs, FindToken(p) PROVE LogoutInv'
  BY <1>4 DEF FindToken
<1>5. ASSUME NEW p \in Procs, Revoke(p) PROVE LogoutInv'
  BY <1>5 DEF Revoke
<1>6. ASSUME NEW p \in Procs, LogoutAudit(p) PROVE LogoutInv'
  <2> USE <1>6 DEF LogoutAudit, Ended
  <2>1. UNCHANGED <<row, holder, blacklist, dropped>>
    OBVIOUS
  <2>2. closed' \subseteq blacklist' \cup dropped'
    OBVIOUS
  <2>3. \A x \in spent' : row'[x] = "revoked"
    OBVIOUS
  <2>4. \A q \in Procs : pc'[q] # "idle" =>
           /\ pc'[q] = pc[q] /\ tok'[q] = tok[q] /\ acc'[q] = acc[q]
           /\ user'[q] = user[q]
    OBVIOUS
  <2>5. QED
    BY ONLY LogoutInv, <2>1, <2>2, <2>3, <2>4 DEF LogoutInv, LogoutEndsBoth
<1>7. ASSUME NEW p \in Procs,
             Respond(p) \/ Refuse(p) \/ Abort(p)
      PROVE  LogoutInv'
  <2>1. UNCHANGED <<row, holder, blacklist, closed, spent, dropped>> /\ Ended(p)
    BY <1>7 DEF Respond, Answer, Refuse, Abort
  <2>2. \A q \in Procs : pc'[q] # "idle" =>
           /\ pc'[q] = pc[q] /\ tok'[q] = tok[q] /\ acc'[q] = acc[q]
           /\ user'[q] = user[q]
    BY <2>1 DEF Ended
  <2>3. QED
    BY ONLY LogoutInv, <2>1, <2>2 DEF LogoutInv, LogoutEndsBoth
<1>8. ASSUME NEW p \in Procs, Reload(p) \/ Select(p) \/ LoadUser(p)
                              \/ LoginAudit(p) \/ RefreshAudit(p)
      PROVE  LogoutInv'
  BY <1>8 DEF Reload, Select, LoadUser, LoginAudit, RefreshAudit, CommitAudit
<1>9. ASSUME NEW p \in Procs, NEW u \in Users, BeginLogin(p, u)
      PROVE  LogoutInv'
  BY <1>9 DEF BeginLogin
<1>10. ASSUME NEW p \in Procs, NEW t \in Tokens, BeginRefresh(p, t)
       PROVE  LogoutInv'
  BY <1>10 DEF BeginRefresh
<1>11. ASSUME NEW p \in Procs, NEW a \in Tokens,
              NEW r \in Tokens \cup {NoToken}, BeginLogout(p, a, r)
       PROVE  LogoutInv'
  BY <1>11 DEF BeginLogout
<1>12. ASSUME NEW u \in Users, NEW s, ChangeStatus(u, s) \/ DeleteUser(u)
       PROVE  LogoutInv'
  BY <1>12 DEF ChangeStatus, DeleteUser
<1>13. ASSUME UNCHANGED vars PROVE LogoutInv'
  BY <1>13 DEF vars
<1>14. QED
  <2> HIDE DEF LogoutInv
  <2>1. QED
    BY ONLY StepCases, [Next]_vars, <1>1, <1>2, <1>3, <1>4, <1>5, <1>6, <1>7,
       <1>8, <1>9, <1>10, <1>11, <1>12, <1>13

(* Nothing brings back what a logout that has answered has ended.          *)
THEOREM LogoutIsFinal == Spec => []LogoutEndsBoth
<1>1. Init => LogoutInv
  BY DEF Init, LogoutInv, LogoutEndsBoth
<1>2. LogoutInv => LogoutEndsBoth
  BY DEF LogoutInv
<1>3. QED
  BY <1>1, <1>2, InitTypeInv, NextTypeInv, NextLogoutInv, PTL DEF Spec
=============================================================================
