--------------------------- MODULE UserRolesProofs ---------------------------
(***************************************************************************)
(* Theorems about UserRoles, for any users, roles and requests.            *)
(***************************************************************************)
EXTENDS UserRoles, FiniteSetTheorems, TLAPS

(* What a request has established by its step, and may rely on: users and  *)
(* rows of user_roles are never taken from under it by other requests in a *)
(* way that breaks the foreign keys.                                       *)
StepsOK ==
    \A p \in Procs :
        /\ pc[p] \in {"loadRole", "exists", "insert"} => op[p] = "assign"
        /\ pc[p] \in {"find", "delete"} => op[p] = "remove"
        /\ pc[p] \in {"names", "add"} => op[p] = "create"
        /\ did[p] # "none" => pc[p] = "commit"
        /\ did[p] = "insert" => op[p] = "assign"
        /\ did[p] = "delete" => op[p] = "remove"
        /\ did[p] = "create" => op[p] = "create"
        /\ op[p] = "none" <=> pc[p] = "idle"
        /\ op[p] # "none" => user[p] \in Users
        /\ op[p] \in {"assign", "remove"} => role[p] \in Roles
        /\ op[p] \in {"assign", "remove"} /\ pc[p] # "loadUser" => user[p] \in present

TypeInv == TypeOK /\ StepsOK

-----------------------------------------------------------------------------
LEMMA InitTypeInv == Init => TypeInv
  BY DEF Init, TypeInv, TypeOK, StepsOK, Steps, Ops

LEMMA NextTypeInv == TypeInv /\ [Next]_vars => TypeInv'
<1> SUFFICES ASSUME TypeInv, [Next]_vars PROVE TypeInv'
  OBVIOUS
<1> USE DEF TypeInv, TypeOK, StepsOK, Steps, Ops, tables, inputs
<1>1. ASSUME NEW p \in Procs, Ended(p) PROVE TypeInv'
  BY <1>1 DEF Ended
<1>2. ASSUME NEW p \in Procs, Assign(p) PROVE TypeInv'
  <2>1. CASE BeginAssign(p)
    BY <2>1 DEF BeginAssign, Begin, Goto
  <2>2. CASE AssignUser(p) \/ AssignRole(p) \/ Exists(p) \/ Insert(p)
    BY <2>2 DEF AssignUser, AssignRole, Exists, Insert, Goto
  <2>3. CASE RoleRefused(p) \/ InsertRefused(p)
    BY <2>3, <1>1 DEF RoleRefused, InsertRefused, Refused
  <2> QED
    BY <1>2, <2>1, <2>2, <2>3 DEF Assign
<1>3. ASSUME NEW p \in Procs, Remove(p) PROVE TypeInv'
  <2>1. CASE BeginRemove(p)
    BY <2>1 DEF BeginRemove, Begin, Goto
  <2>2. CASE RemoveUser(p) \/ Find(p) \/ Delete(p)
    BY <2>2 DEF RemoveUser, Find, Delete, Goto, Effective
  <2>3. CASE LastRoleRefused(p)
    BY <2>3, <1>1 DEF LastRoleRefused, Refused
  <2> QED
    BY <1>3, <2>1, <2>2, <2>3 DEF Remove
<1>4. ASSUME NEW p \in Procs, Create(p) PROVE TypeInv'
  <2>1. CASE BeginCreate(p) \/ BeginRegister(p)
    BY <2>1, SystemAssumption DEF BeginCreate, BeginRegister, Begin, Goto
  <2>2. CASE Names(p) \/ Add(p)
    BY <2>2 DEF Names, Add, Goto
  <2>3. CASE NamesRefused(p) \/ AddRefused(p)
    BY <2>3, <1>1 DEF NamesRefused, AddRefused, Refused
  <2> QED
    BY <1>4, <2>1, <2>2, <2>3 DEF Create
<1>5. ASSUME NEW p \in Procs, Commit(p) PROVE TypeInv'
  <2>1. /\ pc[p] = "commit" /\ user[p] \in Users
        /\ did[p] \in {"insert", "delete"} => role[p] \in Roles /\ user[p] \in present
    BY <1>5 DEF Commit, Goto
  <2>2. present' \subseteq Users /\ present \subseteq present'
    BY <1>5, <2>1 DEF Commit
  <2>3. /\ member' \in [Users -> SUBSET Roles]
        /\ \A u \in Users \ present' : member'[u] = {}
    BY <1>5, <2>1, <2>2 DEF Commit, Inserted, Deleted
  <2>4. raced' \subseteq Procs
    BY <1>5 DEF Commit, Disturbed
  <2> QED
    BY <1>5, <2>1, <2>2, <2>3, <2>4 DEF Commit, Goto
<1>6. ASSUME NEW p \in Procs, UserRefused(p) \/ Respond(p) \/ Abort(p) PROVE TypeInv'
  BY <1>6, <1>1 DEF UserRefused, Respond, Abort, Refused
<1>7. ASSUME NEW r \in Roles, NEW s \in {"active", "inactive", "deleted"}, SetRole(r, s)
      PROVE  TypeInv'
  BY <1>7 DEF SetRole, Disturbed
<1>8. ASSUME UNCHANGED vars PROVE TypeInv'
  BY <1>8 DEF vars
<1> QED
  BY <1>2, <1>3, <1>4, <1>5, <1>6, <1>7, <1>8
     DEF Next, ActivateRole, DeactivateRole, DeleteRole

(* Every variable keeps its type, and no row of user_roles refers to a     *)
(* user who does not exist.                                                *)
THEOREM TypeCorrect == Spec => []TypeOK
<1>1. TypeInv => TypeOK
  BY DEF TypeInv
<1> QED
  BY <1>1, InitTypeInv, NextTypeInv, PTL DEF Spec

-----------------------------------------------------------------------------
(* What a request that is not raced still knows about its user.            *)

(* Between the load of a removal and its COMMIT: the roles it counted.     *)
CountedOK(p) ==
    pc[p] \in {"find", "delete"} \/ did[p] = "delete" =>
        /\ roles[p] \subseteq Effective(user[p])
        /\ Cardinality(roles[p]) > 1

(* From the existence check of an assignment on: a request that is to      *)
(* INSERT found no row, one without an INSERT of its own found it there.   *)
AssignOK(p) ==
    /\ pc[p] = "insert" => role[p] \notin member[user[p]]
    /\ op[p] = "assign" /\ pc[p] \in {"commit", "done"} =>
          did[p] = "insert" \/ role[p] \in member[user[p]]

(* The same for a removal: without a DELETE there is no row.               *)
RemoveOK(p) ==
    op[p] = "remove" /\ pc[p] \in {"commit", "done"} =>
        did[p] = "delete" \/ role[p] \notin member[user[p]]

KnownInv == \A p \in Procs \ raced : CountedOK(p) /\ AssignOK(p) /\ RemoveOK(p)

(* The state a request's knowledge is about, when no other request has     *)
(* disturbed it.                                                           *)
LEMMA NotDisturbed ==
  ASSUME NEW q \in Procs, pc[q] \in Decided, user[q] \in Users,
         NEW m, NEW s, q \notin Disturbed(m, s)
  PROVE  /\ m[user[q]] = member[user[q]]
         /\ \A r \in member[user[q]] : s[r] = roleState[r] \/ s[r] # "deleted"
  BY DEF Disturbed

(* Steps that leave the request's own fields and the tables alone.         *)
LEMMA KnownStutter ==
  ASSUME TypeInv, KnownInv, NEW p \in Procs, UNCHANGED tables,
         raced \ {p} \subseteq raced',
         \A q \in Procs \ {p} : /\ pc'[q] = pc[q] /\ op'[q] = op[q]
                                /\ user'[q] = user[q] /\ role'[q] = role[q]
                                /\ roles'[q] = roles[q] /\ did'[q] = did[q],
         p \notin raced' => (CountedOK(p) /\ AssignOK(p) /\ RemoveOK(p))'
  PROVE  KnownInv'
<1> SUFFICES ASSUME NEW q \in Procs, q \notin raced'
             PROVE  (CountedOK(q) /\ AssignOK(q) /\ RemoveOK(q))'
  BY DEF KnownInv
<1>1. CASE q = p
  BY <1>1
<1>2. CASE q # p
  <2>1. CountedOK(q) /\ AssignOK(q) /\ RemoveOK(q)
    BY <1>2 DEF KnownInv
  <2>2. /\ pc'[q] = pc[q] /\ op'[q] = op[q] /\ user'[q] = user[q]
        /\ role'[q] = role[q] /\ roles'[q] = roles[q] /\ did'[q] = did[q]
        /\ member' = member /\ roleState' = roleState
    BY <1>2 DEF tables
  <2> QED
    BY <2>1, <2>2 DEF CountedOK, AssignOK, RemoveOK, Effective
<1> QED
  BY <1>1, <1>2

LEMMA NextKnown == TypeInv /\ KnownInv /\ [Next]_vars => KnownInv'
<1> SUFFICES ASSUME TypeInv, KnownInv, [Next]_vars PROVE KnownInv'
  OBVIOUS
<1> DEFINE Known(q) == CountedOK(q) /\ AssignOK(q) /\ RemoveOK(q)
<1>0. /\ pc \in [Procs -> Steps] /\ op \in [Procs -> Ops]
      /\ user \in [Procs -> Users \cup {None}] /\ role \in [Procs -> Roles \cup {None}]
      /\ roles \in [Procs -> SUBSET Roles] /\ member \in [Users -> SUBSET Roles]
      /\ did \in [Procs -> {"none", "insert", "delete", "create"}]
      /\ roleState \in [Roles -> {"active", "inactive", "deleted"}]
      /\ raced \subseteq Procs /\ StepsOK
  BY DEF TypeInv, TypeOK
<1> USE <1>0 DEF StepsOK
<1>1. ASSUME NEW p \in Procs, Ended(p) PROVE KnownInv'
  <2>1. Known(p)'
    BY <1>1 DEF Ended, CountedOK, AssignOK, RemoveOK
  <2> QED
    BY <1>1, <2>1, KnownStutter DEF Ended
<1>2. ASSUME NEW p \in Procs, Assign(p) PROVE KnownInv'
  <2>1. CASE BeginAssign(p)
    BY <2>1, KnownStutter DEF BeginAssign, Begin, Goto, CountedOK, AssignOK, RemoveOK
  <2>2. CASE AssignUser(p) \/ AssignRole(p)
    BY <2>2, KnownStutter DEF AssignUser, AssignRole, Goto, inputs,
                              CountedOK, AssignOK, RemoveOK
  <2>3. CASE Exists(p)
    BY <2>3, KnownStutter DEF Exists, Goto, tables, inputs, CountedOK, AssignOK, RemoveOK
  <2>4. CASE Insert(p)
    BY <2>4, KnownStutter DEF Insert, Goto, tables, inputs, CountedOK, AssignOK, RemoveOK
  <2>5. CASE RoleRefused(p) \/ InsertRefused(p)
    BY <2>5, <1>1 DEF RoleRefused, InsertRefused, Refused
  <2> QED
    BY <1>2, <2>1, <2>2, <2>3, <2>4, <2>5 DEF Assign
<1>3. ASSUME NEW p \in Procs, Remove(p) PROVE KnownInv'
  <2>1. CASE BeginRemove(p)
    BY <2>1, KnownStutter DEF BeginRemove, Begin, Goto, CountedOK, AssignOK, RemoveOK
  <2>2. CASE RemoveUser(p)
    <3>1. /\ roles'[p] = Effective(user[p])
          /\ Cardinality(Effective(user[p])) > 1
          /\ Effective(user[p])' = Effective(user[p])
      BY <2>2 DEF RemoveUser, Goto, tables, inputs, Effective
    <3>2. Known(p)'
      BY <2>2, <3>1 DEF RemoveUser, Goto, tables, inputs, CountedOK, AssignOK, RemoveOK
    <3> QED
      BY <2>2, <3>2, KnownStutter DEF RemoveUser, Goto, inputs
  <2>3. CASE Find(p)
    <3>1. p \notin raced => Known(p)'
      BY <2>3 DEF Find, Goto, tables, inputs, KnownInv, CountedOK, AssignOK, RemoveOK,
                  Effective
    <3> QED
      BY <2>3, <3>1, KnownStutter DEF Find, Goto, inputs
  <2>4. CASE Delete(p)
    <3>1. p \notin raced => Known(p)'
      BY <2>4 DEF Delete, Goto, tables, inputs, KnownInv, CountedOK, AssignOK, RemoveOK,
                  Effective
    <3> QED
      BY <2>4, <3>1, KnownStutter DEF Delete, Goto, inputs
  <2>5. CASE LastRoleRefused(p)
    BY <2>5, <1>1 DEF LastRoleRefused, Refused
  <2> QED
    BY <1>3, <2>1, <2>2, <2>3, <2>4, <2>5 DEF Remove
<1>4. ASSUME NEW p \in Procs, Create(p) PROVE KnownInv'
  <2>1. CASE BeginCreate(p) \/ BeginRegister(p)
    BY <2>1, KnownStutter DEF BeginCreate, BeginRegister, Begin, Goto,
                              CountedOK, AssignOK, RemoveOK
  <2>2. CASE Names(p) \/ Add(p)
    BY <2>2, KnownStutter DEF Names, Add, Goto, inputs, CountedOK, AssignOK, RemoveOK
  <2>3. CASE NamesRefused(p) \/ AddRefused(p)
    BY <2>3, <1>1 DEF NamesRefused, AddRefused, Refused
  <2> QED
    BY <1>4, <2>1, <2>2, <2>3 DEF Create
<1>5. ASSUME NEW p \in Procs, Commit(p) PROVE KnownInv'
  <2> SUFFICES ASSUME NEW q \in Procs, q \notin raced' PROVE Known(q)'
    BY DEF KnownInv
  <2>1. /\ pc[p] = "commit" /\ pc' = [pc EXCEPT ![p] = "done"]
        /\ did' = [did EXCEPT ![p] = "none"]
        /\ UNCHANGED <<roleState, op, user, role, roles>>
        /\ raced' = raced \cup (Disturbed(member', roleState) \ {p})
    BY <1>5 DEF Commit, Goto, inputs
  <2>2. Known(q)
    BY <2>1 DEF KnownInv
  <2>3. CASE q = p
    <3>1. member'[user[p]] = (member[user[p]] \cup Inserted(p)) \ Deleted(p)
      BY <1>5, <2>1 DEF Commit
    <3> QED
      BY <2>1, <2>2, <2>3, <3>1 DEF CountedOK, AssignOK, RemoveOK, Inserted, Deleted
  <2>4. CASE q # p
    <3>1. pc[q] \in Decided \/ did[q] # "none" =>
            pc[q] \in Decided /\ q \notin Disturbed(member', roleState)
      BY <2>1, <2>4 DEF Decided
    <3>2. pc[q] \in Decided /\ user[q] \in Users => member'[user[q]] = member[user[q]]
      BY <3>1, NotDisturbed
    <3>3. pc[q] \in Decided => user[q] \in Users
      BY DEF Decided
    <3> QED
      BY <2>1, <2>2, <2>4, <3>1, <3>2, <3>3
         DEF CountedOK, AssignOK, RemoveOK, Effective, Decided
  <2> QED
    BY <2>3, <2>4
<1>6. ASSUME NEW p \in Procs, UserRefused(p) \/ Respond(p) \/ Abort(p) PROVE KnownInv'
  BY <1>6, <1>1 DEF UserRefused, Respond, Abort, Refused
<1>7. ASSUME NEW r \in Roles, NEW s, SetRole(r, s) PROVE KnownInv'
  <2> SUFFICES ASSUME NEW q \in Procs, q \notin raced' PROVE Known(q)'
    BY DEF KnownInv
  <2>1. /\ UNCHANGED <<member, pc, op, user, role, roles, did>>
        /\ q \notin raced /\ q \notin Disturbed(member, roleState')
    BY <1>7 DEF SetRole, inputs
  <2>2. Known(q)
    BY <2>1 DEF KnownInv
  <2>3. pc[q] \in Decided => user[q] \in Users
    BY DEF Decided
  <2>4. pc[q] \in Decided => Effective(user[q]) \subseteq Effective(user[q])'
    BY <2>1, <2>3, NotDisturbed DEF Effective
  <2> QED
    BY <2>1, <2>2, <2>4 DEF CountedOK, AssignOK, RemoveOK, Decided
<1>8. ASSUME UNCHANGED vars PROVE KnownInv'
  BY <1>8 DEF vars, KnownInv, CountedOK, AssignOK, RemoveOK, Effective
<1> QED
  BY <1>2, <1>3, <1>4, <1>5, <1>6, <1>7, <1>8
     DEF Next, ActivateRole, DeactivateRole, DeleteRole

LEMMA InitKnown == Init => KnownInv
  BY DEF Init, KnownInv, CountedOK, AssignOK, RemoveOK

(* An assignment that nobody disturbed is not refused, a committed one is  *)
(* in user_roles, and a committed removal has left no row.                 *)
THEOREM Answered == Spec => []AnsweredIsStored
<1>1. TypeInv /\ KnownInv => AnsweredIsStored
  BY DEF TypeInv, TypeOK, StepsOK, KnownInv, AssignOK, RemoveOK, AnsweredIsStored
<1> QED
  BY <1>1, InitTypeInv, NextTypeInv, InitKnown, NextKnown, PTL DEF Spec

(* Only a raced removal, or the deletion of the role, takes the last role. *)
THEOREM LastRole == Spec => LastRoleNeedsRace
<1> DEFINE A == \A u \in Users :
                  Effective(u) # {} /\ Effective(u)' = {} =>
                      \/ roleState' # roleState
                      \/ \E p \in raced : pc[p] = "commit" /\ pc'[p] = "done"
                                          /\ user[p] = u
<1>1. TypeInv /\ KnownInv /\ [Next]_vars => [A]_vars
  <2> SUFFICES ASSUME TypeInv, KnownInv, Next, NEW u \in Users,
                      Effective(u) # {}, Effective(u)' = {}, roleState' = roleState
               PROVE  \E p \in raced : pc[p] = "commit" /\ pc'[p] = "done" /\ user[p] = u
    OBVIOUS
  <2>1. member'[u] # member[u]
    BY DEF Effective
  <2>2. PICK p \in Procs : Commit(p)
    BY <2>1 DEF Next, Assign, Remove, Create, UserRefused, Respond, Abort, Refused, Ended,
                BeginAssign, AssignUser, AssignRole, RoleRefused, Exists, Insert,
                InsertRefused, BeginRemove, RemoveUser, LastRoleRefused, Find, Delete,
                BeginCreate, BeginRegister, Names, NamesRefused, Add, AddRefused, Begin,
                ActivateRole, DeactivateRole, DeleteRole, SetRole, tables
  <2>3. pc[p] = "commit" /\ pc'[p] = "done"
    BY <2>2 DEF Commit, Goto, TypeInv, TypeOK
  <2>4. user[p] = u /\ member'[u] = (member[u] \cup Inserted(p)) \ Deleted(p)
    BY <2>1, <2>2 DEF Commit
  <2>5. did[p] = "delete"
    BY <2>4 DEF Effective, Inserted, Deleted
  <2>6. SUFFICES ASSUME p \notin raced PROVE FALSE
    BY <2>3, <2>4
  <2>7. roles[p] \subseteq Effective(u) /\ Cardinality(roles[p]) > 1
    BY <2>4, <2>5, <2>6 DEF KnownInv, CountedOK
  <2>8. roles[p] \subseteq {role[p]}
    BY <2>4, <2>5, <2>7 DEF Effective, Inserted, Deleted
  <2>9. Cardinality(roles[p]) <= Cardinality({role[p]}) /\ Cardinality({role[p]}) = 1
    BY <2>8, FS_Singleton, FS_Subset
  <2>10. Cardinality(roles[p]) \in Nat
    BY <2>8, FS_Singleton, FS_Subset, FS_CardinalityType
  <2> QED
    BY <2>7, <2>9, <2>10
<1> QED
  BY <1>1, InitTypeInv, NextTypeInv, InitKnown, NextKnown, PTL DEF Spec, LastRoleNeedsRace

-----------------------------------------------------------------------------
(* Creations.                                                              *)

(* A user row that is inserted and not committed: its user is not there    *)
(* yet, and no other transaction has inserted it as well.                  *)
UncommittedOK ==
    \A p \in Procs :
        /\ op[p] = "create" /\ pc[p] = "commit" => did[p] = "create"
        /\ did[p] = "create" => user[p] \notin present
        /\ \A q \in Procs \ {p} :
              did[p] = "create" /\ did[q] = "create" => user[p] # user[q]

CreationInv == UncommittedOK /\ CreatedWithoutRoles

(* A step of p that leaves the tables alone.                               *)
LEMMA CreationStutter ==
  ASSUME TypeInv, CreationInv, NEW p \in Procs, UNCHANGED tables,
         raced \ {p} \subseteq raced',
         \A q \in Procs \ {p} : /\ pc'[q] = pc[q] /\ op'[q] = op[q]
                                /\ user'[q] = user[q] /\ did'[q] = did[q],
         pc'[p] # "done",
         \/ did'[p] # "create" /\ ~(op'[p] = "create" /\ pc'[p] = "commit")
         \/ did'[p] = did[p] /\ op'[p] = op[p] /\ pc'[p] = pc[p] /\ user'[p] = user[p]
         \/ did'[p] = "create" /\ user'[p] \notin present
            /\ ~\E q \in Procs \ {p} : did[q] = "create" /\ user[q] = user'[p]
  PROVE  CreationInv'
<1>1. UncommittedOK'
  BY DEF CreationInv, UncommittedOK, tables
<1>2. CreatedWithoutRoles'
  BY DEF CreationInv, CreatedWithoutRoles, tables
<1> QED
  BY <1>1, <1>2 DEF CreationInv

(* The COMMIT of a creation makes its user present, with no row in         *)
(* user_roles; any other leaves the users alone, and disturbs those whose  *)
(* user's rows it changes.                                                 *)
LEMMA CreationCommit ==
  ASSUME TypeInv, CreationInv, NEW p \in Procs, Commit(p)
  PROVE  CreationInv'
<1>1. /\ pc[p] = "commit" /\ pc' = [pc EXCEPT ![p] = "done"]
      /\ did' = [did EXCEPT ![p] = "none"]
      /\ UNCHANGED <<roleState, op, user, role>>
      /\ raced' = raced \cup (Disturbed(member', roleState) \ {p})
  BY DEF Commit, Goto, inputs
<1>2. /\ pc \in [Procs -> Steps] /\ user[p] \in Users
      /\ did \in [Procs -> {"none", "insert", "delete", "create"}]
  BY <1>1 DEF TypeInv, TypeOK, StepsOK
<1>3. did[p] # "create" => present' = present
  BY DEF Commit
<1>4. did[p] = "create" => /\ present' = present \cup {user[p]}
                           /\ member'[user[p]] = member[user[p]]
                           /\ member[user[p]] = {}
  BY <1>2 DEF Commit, Inserted, Deleted, TypeInv, TypeOK, CreationInv, UncommittedOK
<1>5. UncommittedOK'
  <2> SUFFICES ASSUME NEW q \in Procs
               PROVE  /\ op'[q] = "create" /\ pc'[q] = "commit" => did'[q] = "create"
                      /\ did'[q] = "create" => user'[q] \notin present'
                      /\ \A o \in Procs \ {q} :
                            did'[q] = "create" /\ did'[o] = "create" => user'[q] # user'[o]
    BY DEF UncommittedOK
  <2>1. CASE q = p
    BY <2>1, <1>1, <1>2
  <2>2. CASE q # p
    BY <2>2, <1>1, <1>2, <1>3, <1>4 DEF CreationInv, UncommittedOK
  <2> QED
    BY <2>1, <2>2
<1>6. CreatedWithoutRoles'
  <2> SUFFICES ASSUME NEW q \in Procs, q \notin raced', pc'[q] = "done", op'[q] = "create"
               PROVE  user'[q] \in present' /\ member'[user'[q]] = {}
    BY DEF CreatedWithoutRoles
  <2>1. CASE q = p
    BY <2>1, <1>1, <1>4 DEF CreationInv, UncommittedOK
  <2>2. CASE q # p
    <3>1. pc[q] = "done" /\ op[q] = "create" /\ q \notin raced /\ user[q] \in Users
      BY <2>2, <1>1 DEF TypeInv, StepsOK
    <3>2. user[q] \in present /\ member[user[q]] = {}
      BY <3>1 DEF CreationInv, CreatedWithoutRoles
    <3>3. q \notin Disturbed(member', roleState)
      BY <1>1, <2>2
    <3>4. member'[user[q]] = member[user[q]]
      BY <3>1, <3>3, NotDisturbed DEF Decided
    <3> QED
      BY <1>1, <1>3, <1>4, <3>2, <3>4
         DEF TypeInv, TypeOK
  <2> QED
    BY <2>1, <2>2
<1> QED
  BY <1>5, <1>6 DEF CreationInv

LEMMA NextCreation == TypeInv /\ CreationInv /\ [Next]_vars => CreationInv'
<1> SUFFICES ASSUME TypeInv, CreationInv, [Next]_vars PROVE CreationInv'
  OBVIOUS
<1>0. /\ pc \in [Procs -> Steps] /\ op \in [Procs -> Ops]
      /\ user \in [Procs -> Users \cup {None}]
      /\ did \in [Procs -> {"none", "insert", "delete", "create"}]
      /\ raced \subseteq Procs /\ StepsOK
  BY DEF TypeInv, TypeOK
<1> USE <1>0
<1>1. ASSUME NEW p \in Procs, Ended(p) PROVE CreationInv'
  BY <1>1, CreationStutter DEF Ended
<1>2. ASSUME NEW p \in Procs, Assign(p) PROVE CreationInv'
  <2>1. CASE BeginAssign(p)
    BY <2>1, CreationStutter DEF BeginAssign, Begin, Goto, StepsOK
  <2>2. CASE AssignUser(p) \/ AssignRole(p) \/ Exists(p) \/ Insert(p)
    BY <2>2, CreationStutter DEF AssignUser, AssignRole, Exists, Insert, Goto, inputs, StepsOK
  <2>3. CASE RoleRefused(p) \/ InsertRefused(p)
    BY <2>3, <1>1 DEF RoleRefused, InsertRefused, Refused
  <2> QED
    BY <1>2, <2>1, <2>2, <2>3 DEF Assign
<1>3. ASSUME NEW p \in Procs, Remove(p) PROVE CreationInv'
  <2>1. CASE BeginRemove(p)
    BY <2>1, CreationStutter DEF BeginRemove, Begin, Goto, StepsOK
  <2>2. CASE RemoveUser(p) \/ Find(p) \/ Delete(p)
    BY <2>2, CreationStutter DEF RemoveUser, Find, Delete, Goto, inputs, StepsOK
  <2>3. CASE LastRoleRefused(p)
    BY <2>3, <1>1 DEF LastRoleRefused, Refused
  <2> QED
    BY <1>3, <2>1, <2>2, <2>3 DEF Remove
<1>4. ASSUME NEW p \in Procs, Create(p) PROVE CreationInv'
  <2>1. CASE BeginCreate(p) \/ BeginRegister(p)
    BY <2>1, CreationStutter DEF BeginCreate, BeginRegister, Begin, Goto, StepsOK
  <2>2. CASE Names(p)
    BY <2>2, CreationStutter DEF Names, Goto, inputs, StepsOK
  <2>3. CASE Add(p)
    BY <2>3, CreationStutter DEF Add, Goto, tables, inputs
  <2>4. CASE NamesRefused(p) \/ AddRefused(p)
    BY <2>4, <1>1 DEF NamesRefused, AddRefused, Refused
  <2> QED
    BY <1>4, <2>1, <2>2, <2>3, <2>4 DEF Create
<1>5. ASSUME NEW p \in Procs, UserRefused(p) \/ Respond(p) \/ Abort(p) PROVE CreationInv'
  BY <1>5, <1>1 DEF UserRefused, Respond, Abort, Refused
<1>6. ASSUME NEW r \in Roles, NEW s, SetRole(r, s) PROVE CreationInv'
  <2>1. UNCHANGED <<present, member, pc, op, user, did>> /\ raced \subseteq raced'
    BY <1>6 DEF SetRole, inputs
  <2> QED
    BY <2>1 DEF CreationInv, UncommittedOK, CreatedWithoutRoles
<1>7. ASSUME UNCHANGED vars PROVE CreationInv'
  BY <1>7 DEF vars, CreationInv, UncommittedOK, CreatedWithoutRoles
<1> QED
  BY <1>2, <1>3, <1>4, <1>5, <1>6, <1>7, CreationCommit
     DEF Next, ActivateRole, DeactivateRole, DeleteRole

(* No creation stores the roles it was asked for, whatever roles there are *)
(* and whatever else goes on: the committed user has none.                 *)
THEOREM CreationStoresNone == Spec => []CreatedWithoutRoles
<1>1. Init => CreationInv
  BY DEF Init, CreationInv, UncommittedOK, CreatedWithoutRoles
<1>2. CreationInv => CreatedWithoutRoles
  BY DEF CreationInv
<1> QED
  BY <1>1, <1>2, InitTypeInv, NextTypeInv, NextCreation, PTL DEF Spec
=============================================================================
