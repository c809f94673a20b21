-------------------------- MODULE UniqueNamesProofs --------------------------
(***************************************************************************)
(* Theorems about UniqueNames, for any rows, names and requests.           *)
(***************************************************************************)
EXTENDS UniqueNames, TLAPS

(* What a request has at each of its steps.  Rows never become absent.     *)
CreateOK(p) ==
    op[p] = "create" =>
        /\ pc[p] \in {"check", "write", "commit"} /\ want[p] \in Names
        /\ loaded[p] = Absent /\ seen[p] = Absent
        /\ pc[p] # "commit" => id[p] = NoId
        /\ pc[p] = "commit" => id[p] \in Ids /\ rows[id[p]].state = "absent"

ChangeOK(p) ==
    op[p] \in {"update", "delete"} =>
        /\ id[p] \in Ids
        /\ op[p] = "delete" => want[p] = NoName /\ pc[p] # "check"
        /\ pc[p] # "load" => /\ rows[id[p]].state # "absent"
                             /\ loaded[p].state = "live" /\ loaded[p].name \in Names
        /\ pc[p] = "check" => want[p] # NoName /\ want[p].word # loaded[p].name.word

StepsOK(p) ==
    /\ op[p] = "none" <=> pc[p] = "idle"
    /\ pc[p] = "idle" => loaded[p] = Absent /\ seen[p] = Absent
    /\ CreateOK(p) /\ ChangeOK(p)

(* Statements that have been sent and wait for their COMMIT: they hold     *)
(* different rows, and nobody has, or will get, the same new name.         *)
Renames(p) == NewName(p) # seen[p].name

HeldOK ==
    \A p \in Procs : Holds(p) =>
        /\ Renames(p) => \A j \in Ids \ {id[p]} : rows[j].name # NewName(p)
        /\ \A q \in Procs \ {p} : Holds(q) =>
               /\ id[p] # id[q]
               /\ Renames(p) /\ Renames(q) => NewName(p) # NewName(q)

NamesInv == TypeOK /\ (\A p \in Procs : StepsOK(p)) /\ HeldOK

(* What a request that nobody has overtaken still knows: its row is as it  *)
(* was loaded; after the check, no other live row has the name it is about *)
(* to write, unless a race or an unchecked rename comes into it.           *)
RaceOK(p) ==
    p \notin overtaken =>
        /\ op[p] # "create" /\ pc[p] \in Loaded => loaded[p] = rows[id[p]]
        /\ op[p] # "create" /\ pc[p] \in {"write", "commit"} => seen[p] = rows[id[p]]
        /\ op[p] # "delete" /\ pc[p] \in Decided =>
               \/ id[p] \in tainted
               \/ AsksEmpty(p)
               \/ \A j \in Ids \ {id[p]} :
                      rows[j].state = "live" /\ rows[j].name.word = NewName(p).word
                          => j \in tainted

RaceInv == SharedNamesNeedRace /\ \A p \in Procs : RaceOK(p)

(* What is stored or loaded is in lower case, but for category names, and  *)
(* is stripped: the empty name has one form.                               *)
Stored(n) == n # NoName /\ (table # "categories" \/ n.word = Blank) => n.case = "lower"

StoredInv == (\A i \in Ids : Stored(rows[i].name)) /\ \A p \in Procs : Stored(loaded[p].name)

(* Requests that passed the protection of a built-in row do not rename it. *)
PassedOK(p) ==
    op[p] # "create" /\ pc[p] \in Loaded /\ loaded[p].name.word \in Builtin =>
        \/ table = "users"
        \/ /\ table = "roles" /\ op[p] = "update"
           /\ want[p] \in {NoName, Empty} \/ want[p].word = loaded[p].name.word

PassedInv == \A p \in Procs : PassedOK(p)

-----------------------------------------------------------------------------
(* Types and the unique index.                                             *)

(* Normalising a name changes at most its case.                            *)
LEMMA NormaliseKeepsWord ==
  \A n \in Names : /\ Normalise(n) \in Names /\ Normalise(n).word = n.word
                   /\ Stored(Normalise(n))
  BY DEF Normalise, Names, Cases, Stored

LEMMA EmptyName == Empty \in Names /\ Empty.word = Blank /\ Empty # NoName
  BY WordsAssumption, NullAssumption DEF Empty, Names, Cases

(* The name a request is about to write is a name.                         *)
LEMMA NewNameTyped ==
  ASSUME Typed, NEW p \in Procs, StepsOK(p), pc[p] \in Decided
  PROVE  NewName(p) \in Names
<1>1. op[p] \in {"create", "update", "delete"}
  BY DEF Typed, StepsOK, Decided, Ops
<1>2. CASE want[p] # NoName
  BY <1>2, NormaliseKeepsWord DEF Typed, NewName
<1>3. CASE want[p] = NoName
  BY <1>1, <1>3, NullAssumption DEF StepsOK, CreateOK, ChangeOK, Decided, NewName
<1> QED
  BY <1>2, <1>3

(* What a COMMIT leaves in the row.                                        *)
LEMMA AfterTyped ==
  ASSUME Typed, NEW p \in Procs, StepsOK(p), pc[p] = "commit"
  PROVE  /\ id[p] \in Ids
         /\ After(p) \in Row /\ After(p).state # "absent" /\ After(p).name # NoName
         /\ After(p).name \in {NewName(p), rows[id[p]].name}
<1>1. NewName(p) \in Names /\ NewName(p) # NoName
  BY NewNameTyped, NullAssumption DEF Decided
<1>2. id[p] \in Ids /\ rows[id[p]] \in Row
  BY DEF Typed, StepsOK, CreateOK, ChangeOK, Ops
<1>3. Entity(p).state \in {"live", "deleted"}
  BY DEF Entity
<1>4. rows[id[p]].state = "absent" =>
          Entity(p).state # seen[p].state /\ NewName(p) # seen[p].name
  <2> SUFFICES ASSUME rows[id[p]].state = "absent"
               PROVE  Entity(p).state # seen[p].state /\ NewName(p) # seen[p].name
    OBVIOUS
  <2>1. op[p] = "create"
    BY DEF Typed, StepsOK, ChangeOK, Ops
  <2> QED
    BY <1>1, <2>1 DEF StepsOK, CreateOK, Absent, Entity
<1>5. rows[id[p]].state # "absent" => rows[id[p]].name # NoName
  BY <1>2 DEF Typed
<1> QED
  BY <1>1, <1>2, <1>3, <1>4, <1>5 DEF After, Row

(* Steps that leave the table and the other requests alone.                *)
Quiet(p) ==
    /\ UNCHANGED <<table, rows>>
    /\ \A q \in Procs \ {p} :
           /\ pc'[q] = pc[q] /\ op'[q] = op[q] /\ id'[q] = id[q]
           /\ want'[q] = want[q] /\ loaded'[q] = loaded[q] /\ seen'[q] = seen[q]

LEMMA QuietNames ==
  ASSUME NamesInv, NEW p \in Procs, Quiet(p), Typed', StepsOK(p)', pc'[p] # "commit"
  PROVE  NamesInv'
<1>1. TypeOK'
  BY DEF NamesInv, TypeOK, Quiet
<1>2. ASSUME NEW q \in Procs, q # p PROVE StepsOK(q)'
  BY <1>2 DEF NamesInv, Quiet, StepsOK, CreateOK, ChangeOK
<1>3. HeldOK'
  <2>1. ~Holds(p)'
    BY DEF Holds
  <2>2. ASSUME NEW q \in Procs, q # p
        PROVE  /\ Holds(q)' = Holds(q) /\ NewName(q)' = NewName(q)
               /\ Renames(q)' = Renames(q) /\ id'[q] = id[q] /\ rows' = rows
    BY <2>2 DEF Quiet, Holds, Writes, Entity, NewName, Normalise, Renames
  <2> QED
    BY <2>1, <2>2 DEF NamesInv, HeldOK
<1> QED
  BY <1>1, <1>2, <1>3 DEF NamesInv

LEMMA InitNames == Init => NamesInv
<1> SUFFICES ASSUME Init PROVE NamesInv
  OBVIOUS
<1>1. Seeds \subseteq Row /\ Absent \in Row /\ \A s \in Seeds : s.name # NoName
  BY WordsAssumption, NullAssumption DEF Seeds, Row, Absent, Names, Cases
<1>2. ASSUME NEW i \in Ids PROVE rows[i] \in Seeds \/ rows[i] = Absent
  BY DEF Init
<1>3. \A i \in Ids : rows[i].name = NoName <=> rows[i].state = "absent"
  BY <1>1, <1>2 DEF Seeds, Absent
<1>4. Typed
  BY <1>1, <1>2, <1>3 DEF Init, Typed, Row, Absent, Steps, Ops
<1>5. \A i, j \in Ids : rows[i].name = rows[j].name /\ rows[i].name # NoName => i = j
  BY <1>1, <1>2 DEF Init, Seeded, Absent
<1> QED
  BY <1>4, <1>5 DEF Init, NamesInv, TypeOK, StepsOK, CreateOK, ChangeOK, HeldOK, Holds

LEMMA EndedStep ==
  ASSUME NamesInv, NEW p \in Procs, Ended(p), UNCHANGED rows, Typed'
  PROVE  NamesInv'
<1>1. /\ Quiet(p) /\ pc'[p] = "idle" /\ op'[p] = "none"
      /\ loaded'[p] = Absent /\ seen'[p] = Absent
  BY DEF Ended, Quiet, NamesInv, TypeOK, Typed
<1>2. StepsOK(p)'
  BY <1>1 DEF StepsOK, CreateOK, ChangeOK
<1> QED
  BY <1>1, <1>2, QuietNames

LEMMA BeginStep ==
  ASSUME NamesInv, NEW p \in Procs, NEW o \in Ops, NEW i \in Ids \cup {NoId},
         NEW n \in Names \cup {NoName}, NEW to \in {"check", "load"},
         Begin(p, o, i, n, to),
         \/ o = "create" /\ i = NoId /\ n \in Names /\ to = "check"
         \/ o = "update" /\ i \in Ids /\ to = "load"
         \/ o = "delete" /\ i \in Ids /\ n = NoName /\ to = "load"
  PROVE  NamesInv'
<1> USE DEF NamesInv, TypeOK, Typed, StepsOK
<1>1. Quiet(p) /\ Typed'
  BY DEF Begin, Goto, Quiet, Steps
<1>2. /\ pc'[p] = to /\ op'[p] = o /\ id'[p] = i /\ want'[p] = n
      /\ loaded'[p] = loaded[p] /\ seen'[p] = seen[p] /\ pc[p] = "idle"
  BY DEF Begin, Goto
<1>3. loaded[p] = Absent /\ seen[p] = Absent
  BY <1>2
<1> QED
  BY <1>1, <1>2, <1>3, QuietNames DEF CreateOK, ChangeOK

(* The statement of p: nobody else holds its row, has or gets its name.    *)
LEMMA WriteStep ==
  ASSUME NamesInv, NEW p \in Procs, Write(p)
  PROVE  NamesInv'
<1> USE DEF NamesInv, TypeOK, Typed
<1>1. PICK i \in Ids :
        /\ Target(p, i) /\ pc[p] = "write" /\ pc' = [pc EXCEPT ![p] = "commit"]
        /\ Writes(p) => ~Waits(p, i) /\ ~Clashes(p, i)
        /\ id' = [id EXCEPT ![p] = i]
        /\ UNCHANGED <<table, rows, op, want, loaded, seen, overtaken, tainted>>
  BY DEF Write, Goto
<1>2. Typed'
  BY <1>1 DEF Steps
<1>3. op[p] \in {"create", "update", "delete"} /\ id'[p] = i
      /\ (op[p] # "create" => i = id[p] /\ rows[i].state # "absent")
      /\ (op[p] = "create" => rows[i].state = "absent")
  BY <1>1 DEF Target, StepsOK, ChangeOK, Ops
<1>4. ASSUME NEW q \in Procs
      PROVE  /\ NewName(q)' = NewName(q) /\ Renames(q)' = Renames(q)
             /\ Writes(q)' = Writes(q)
  BY <1>1 DEF Writes, Entity, NewName, Normalise, Renames
<1>5. ASSUME NEW q \in Procs, q # p
      PROVE  /\ pc'[q] = pc[q] /\ id'[q] = id[q] /\ Holds(q)' = Holds(q)
  BY <1>1, <1>4, <1>5 DEF Holds
<1>6. ASSUME NEW q \in Procs PROVE StepsOK(q)'
  <2>1. CASE q = p
    BY <1>1, <1>3, <2>1 DEF StepsOK, CreateOK, ChangeOK
  <2>2. CASE q # p
    BY <1>1, <1>5, <2>2 DEF StepsOK, CreateOK, ChangeOK
  <2> QED
    BY <2>1, <2>2
<1>7. ASSUME Writes(p), Renames(p), NEW j \in Ids \ {i}
      PROVE  rows[j].name # NewName(p)
  <2>1. NewName(p) # NoName
    BY <1>1, NewNameTyped, NullAssumption DEF Decided
  <2> QED
    BY <1>1, <1>7, <2>1 DEF Clashes, Renames
<1>8. ASSUME Writes(p), NEW q \in Procs \ {p}, Holds(q)
      PROVE  id[q] # i /\ (Renames(p) => NewName(p) # NewName(q))
  BY <1>1, <1>8 DEF Waits, Renames
<1>9. ASSUME NEW a \in Procs, Holds(a)'
      PROVE  /\ Renames(a)' => \A j \in Ids \ {id'[a]} : rows'[j].name # NewName(a)'
             /\ \A q \in Procs \ {a} : Holds(q)' =>
                    /\ id'[a] # id'[q]
                    /\ Renames(a)' /\ Renames(q)' => NewName(a)' # NewName(q)'
  <2>1. CASE a = p
    <3>1. Writes(p)
      BY <1>4, <1>9, <2>1 DEF Holds
    <3> QED
      BY <1>1, <1>3, <1>4, <1>5, <1>7, <1>8, <2>1, <3>1
  <2>2. CASE a # p
    <3>1. Holds(a) /\ id'[a] = id[a]
      BY <1>5, <1>9, <2>2
    <3>2. ASSUME NEW q \in Procs \ {a}, Holds(q)'
          PROVE  id'[a] # id'[q] /\ (Renames(a)' /\ Renames(q)' => NewName(a)' # NewName(q)')
      <4>1. CASE q = p
        <5>1. Writes(p)
          BY <1>4, <3>2, <4>1 DEF Holds
        <5> QED
          BY <1>3, <1>4, <1>8, <3>1, <4>1, <5>1, <2>2
      <4>2. CASE q # p
        <5>1. Holds(q) /\ id'[q] = id[q]
          BY <1>5, <3>2, <4>2
        <5> QED
          BY <1>4, <3>1, <5>1, <3>2 DEF HeldOK
      <4> QED
        BY <4>1, <4>2
    <3> QED
      BY <1>1, <1>4, <3>1, <3>2 DEF HeldOK
  <2> QED
    BY <2>1, <2>2
<1>10. HeldOK'
  BY <1>9 DEF HeldOK
<1> QED
  BY <1>1, <1>2, <1>6, <1>10

(* The COMMIT of p: its row gets a name that no other row has.             *)
LEMMA CommitStep ==
  ASSUME NamesInv, NEW p \in Procs, Commit(p)
  PROVE  NamesInv'
<1> USE DEF NamesInv, TypeOK
<1>1. /\ pc[p] = "commit" /\ rows' = [rows EXCEPT ![id[p]] = After(p)]
      /\ Ended(p) /\ UNCHANGED table
  BY DEF Commit, Ended
<1>2. /\ id[p] \in Ids /\ rows \in [Ids -> Row]
      /\ After(p) \in Row /\ After(p).state # "absent" /\ After(p).name # NoName
  BY <1>1, AfterTyped DEF Typed
<1>3. Typed'
  BY <1>1, <1>2 DEF Typed, Commit, Ended, Row, Absent, Steps, Ops
<1>4. ~Holds(p) => After(p) = rows[id[p]]
  <2>1. ~Holds(p) => Entity(p).state = seen[p].state /\ Entity(p).name = seen[p].name
    BY <1>1 DEF Holds, Writes
  <2>2. rows[id[p]] \in Row /\ Entity(p).name = NewName(p)
    BY <1>2 DEF Entity
  <2> QED
    BY <2>1, <2>2 DEF After, Row
<1>5. ASSUME NEW j \in Ids \ {id[p]} PROVE rows[j].name # After(p).name
  <2>1. CASE Holds(p) /\ Renames(p)
    BY <1>2, <1>5, <2>1 DEF HeldOK, After, Renames
  <2>2. CASE ~(Holds(p) /\ Renames(p))
    <3>1. After(p).name = rows[id[p]].name
      BY <1>4, <2>2 DEF After, Renames
    <3> QED
      BY <1>2, <1>5, <3>1
  <2> QED
    BY <2>1, <2>2
<1>6. TypeOK'
  <2>1. ASSUME NEW i \in Ids, NEW j \in Ids, rows'[i].name = rows'[j].name,
               rows'[i].name # NoName
        PROVE  i = j
    BY <1>1, <1>2, <1>5, <2>1
  <2> QED
    BY <1>3, <2>1
<1>7. ASSUME NEW q \in Procs, q # p
      PROVE  /\ pc'[q] = pc[q] /\ op'[q] = op[q] /\ id'[q] = id[q] /\ want'[q] = want[q]
             /\ loaded'[q] = loaded[q] /\ seen'[q] = seen[q] /\ table' = table
             /\ NewName(q)' = NewName(q) /\ Renames(q)' = Renames(q)
             /\ Holds(q)' = Holds(q)
  BY <1>1, <1>7 DEF Ended, Typed, Holds, Writes, Entity, NewName, Normalise, Renames
<1>8. ~Holds(p)' /\ pc'[p] = "idle" /\ op'[p] = "none"
      /\ loaded'[p] = Absent /\ seen'[p] = Absent
  BY <1>1 DEF Ended, Holds, Typed
<1>9. ASSUME NEW q \in Procs, Holds(q), q # p
      PROVE  /\ Holds(p) => id[q] # id[p]
             /\ Renames(q) => \A j \in Ids \ {id[q]} : rows'[j].name # NewName(q)
  <2>1. CASE Holds(p)
    <3>1. /\ id[p] # id[q] /\ (Renames(p) /\ Renames(q) => NewName(p) # NewName(q))
          /\ (Renames(q) => \A j \in Ids \ {id[q]} : rows[j].name # NewName(q))
      BY <1>9, <2>1 DEF HeldOK
    <3>2. After(p).name = IF Renames(p) THEN NewName(p) ELSE rows[id[p]].name
      BY DEF After, Renames
    <3> QED
      BY <1>1, <1>2, <3>1, <3>2
  <2>2. CASE ~Holds(p)
    <3>1. rows' = rows
      BY <1>1, <1>2, <1>4, <2>2
    <3> QED
      BY <1>9, <2>2, <3>1 DEF HeldOK
  <2> QED
    BY <2>1, <2>2
<1>10. HeldOK'
  BY <1>7, <1>8, <1>9 DEF HeldOK
<1>11. ASSUME NEW q \in Procs PROVE StepsOK(q)'
  <2>1. CASE q = p
    BY <1>8, <2>1 DEF StepsOK, CreateOK, ChangeOK
  <2>2. CASE q # p
    <3>1. op[q] = "create" /\ pc[q] = "commit" => id[q] # id[p]
      <4> SUFFICES ASSUME op[q] = "create", pc[q] = "commit", id[q] = id[p] PROVE FALSE
        OBVIOUS
      <4>1. Holds(q) /\ rows[id[p]].state = "absent"
        BY DEF StepsOK, CreateOK, Holds, Writes, Entity, Absent
      <4>2. Holds(p)
        BY <1>2, <1>4, <4>1
      <4> QED
        BY <1>9, <2>2, <4>1, <4>2
    <3>2. ASSUME NEW i \in Ids, rows[i].state # "absent" PROVE rows'[i].state # "absent"
      BY <1>1, <1>2, <3>2
    <3>3. CreateOK(q)'
      BY <1>1, <1>7, <2>2, <3>1 DEF StepsOK, CreateOK
    <3>4. ChangeOK(q)'
      BY <1>7, <2>2, <3>2 DEF StepsOK, ChangeOK
    <3> QED
      BY <1>7, <2>2, <3>3, <3>4 DEF StepsOK
  <2> QED
    BY <2>1, <2>2
<1> QED
  BY <1>6, <1>10, <1>11

(* Every step of a request is one of these; the names of its use case only *)
(* decide what it begins with.                                             *)
Begins(p) ==
    \E o \in Ops, i \in Ids \cup {NoId}, n \in Names \cup {NoName}, to \in {"check", "load"} :
        /\ Begin(p, o, i, n, to)
        /\ \/ o = "create" /\ i = NoId /\ n \in Names /\ to = "check"
           \/ o = "update" /\ i \in Ids /\ to = "load"
           \/ o = "delete" /\ i \in Ids /\ n = NoName /\ to = "load"

LEMMA NextSteps ==
  ASSUME NEW p \in Procs,
         \/ CreateUser(p) \/ Register(p) \/ UpdateUser(p) \/ DeleteUser(p)
         \/ CreateRole(p) \/ UpdateRole(p) \/ DeleteRole(p)
         \/ CreateCategory(p) \/ UpdateCategory(p) \/ DeleteCategory(p)
         \/ Load(p) \/ NotFound(p) \/ BuiltinRefused(p) \/ Check(p) \/ NameTaken(p)
         \/ Reselect(p) \/ Write(p) \/ WriteRefused(p) \/ Commit(p) \/ Abort(p)
  PROVE  \/ Begins(p) \/ Load(p) \/ Check(p) \/ Reselect(p) \/ Write(p)
         \/ Commit(p) \/ Refused(p)
<1>1. ASSUME NEW t, Create(p, t) \/ Update(p, t) \/ Rename(p, t) \/ SoftDelete(p, t)
      PROVE  Begins(p)
  <2>1. CASE Create(p, t)
    BY <2>1, AskedAssumption DEF Create, Begins, Ops
  <2>2. CASE Update(p, t) \/ Rename(p, t)
    BY <2>2, AskedAssumption DEF Update, Rename, Begins, Ops
  <2>3. CASE SoftDelete(p, t)
    BY <2>3 DEF SoftDelete, Begins, Ops
  <2> QED
    BY <1>1, <2>1, <2>2, <2>3
<1>2. NotFound(p) \/ BuiltinRefused(p) \/ NameTaken(p) \/ WriteRefused(p) \/ Abort(p)
          => Refused(p)
  BY DEF NotFound, BuiltinRefused, NameTaken, WriteRefused, Abort
<1> QED
  BY <1>1, <1>2 DEF CreateUser, Register, UpdateUser, DeleteUser, CreateRole, UpdateRole,
                    DeleteRole, CreateCategory, UpdateCategory, DeleteCategory

LEMMA NextNames == NamesInv /\ [Next]_vars => NamesInv'
<1> SUFFICES ASSUME NamesInv, [Next]_vars PROVE NamesInv'
  OBVIOUS
<1>1. ASSUME NEW p \in Procs, Begins(p) PROVE NamesInv'
  BY <1>1, BeginStep DEF Begins
<1> USE DEF NamesInv, TypeOK
<1>2. ASSUME NEW p \in Procs, Load(p) PROVE NamesInv'
  <2>1. /\ op[p] \in {"update", "delete"} /\ id'[p] \in Ids /\ id'[p] = id[p]
        /\ op'[p] = op[p] /\ want'[p] = want[p] /\ rows' = rows
        /\ loaded'[p] = rows[id[p]] /\ rows[id[p]] \in Row /\ rows[id[p]].state = "live"
        /\ pc'[p] = IF AsksName(p) THEN "check" ELSE "reselect"
    BY <1>2 DEF Load, Goto, Typed, Ops, StepsOK, CreateOK, ChangeOK, inputs
  <2>2. Quiet(p) /\ Typed'
    BY <1>2, <2>1 DEF Load, Goto, Quiet, Typed, Steps, inputs
  <2>3. rows[id[p]].name \in Names
    BY <2>1 DEF Typed, Row
  <2>4. StepsOK(p)' /\ pc'[p] # "commit"
    BY <2>1, <2>3 DEF StepsOK, CreateOK, ChangeOK, AsksName
  <2> QED
    BY <2>2, <2>4, QuietNames
<1>3. ASSUME NEW p \in Procs, Check(p) PROVE NamesInv'
  <2>1. Quiet(p) /\ Typed'
    BY <1>3 DEF Check, Goto, Quiet, Typed, Steps, inputs
  <2>2. StepsOK(p)' /\ pc'[p] # "commit"
    BY <1>3 DEF Check, Goto, Typed, Ops, StepsOK, CreateOK, ChangeOK, inputs
  <2> QED
    BY <2>1, <2>2, QuietNames
<1>4. ASSUME NEW p \in Procs, Reselect(p) PROVE NamesInv'
  <2>1. op[p] \in {"update", "delete"} /\ id[p] \in Ids
    BY <1>4 DEF Reselect, Goto, Typed, Ops, StepsOK, CreateOK, ChangeOK
  <2>2. Quiet(p) /\ Typed'
    BY <1>4, <2>1 DEF Reselect, Goto, Quiet, Typed, Steps, inputs
  <2>3. StepsOK(p)' /\ pc'[p] # "commit"
    BY <1>4, <2>1 DEF Reselect, Goto, Typed, Ops, StepsOK, CreateOK, ChangeOK, inputs
  <2> QED
    BY <2>2, <2>3, QuietNames
<1>5. ASSUME NEW p \in Procs, Refused(p) PROVE NamesInv'
  <2>1. Typed'
    BY <1>5 DEF Refused, Ended, Typed, Row, Absent, Steps, Ops
  <2> QED
    BY <1>5, <2>1, EndedStep DEF Refused
<1>6. ASSUME UNCHANGED vars PROVE NamesInv'
  BY <1>6 DEF vars, Typed, StepsOK, CreateOK, ChangeOK, HeldOK, Holds, Writes, Entity,
              NewName, Normalise, Renames
<1> QED
  BY <1>1, <1>2, <1>3, <1>4, <1>5, <1>6, WriteStep, CommitStep, NextSteps DEF Next

(* Every variable keeps its type, and the unique index holds: the waits    *)
(* and refusals of the statements leave no COMMIT that could break it.     *)
THEOREM TypeCorrect == Spec => []TypeOK
<1>1. NamesInv => TypeOK
  BY DEF NamesInv
<1> QED
  BY <1>1, InitNames, NextNames, PTL DEF Spec

-----------------------------------------------------------------------------
(* Stored names.                                                           *)
LEMMA InitStored == Init => StoredInv
<1> SUFFICES ASSUME Init PROVE StoredInv
  OBVIOUS
<1>1. ASSUME NEW i \in Ids PROVE Stored(rows[i].name)
  <2>1. CASE rows[i] = Absent
    BY <2>1 DEF Absent, Stored
  <2>2. CASE rows[i] # Absent
    <3>1. rows[i] \in Seeds /\ rows[i].name.word # Blank
      BY <2>2, WordsAssumption DEF Init, Seeds
    <3>2. table \in {"roles", "categories"} /\ (table = "roles" => rows[i].name.case = "lower")
      BY <2>2, TablesAssumption DEF Init, Seeded, Seeds
    <3> QED
      BY <3>1, <3>2 DEF Stored
  <2> QED
    BY <2>1, <2>2
<1>2. ASSUME NEW p \in Procs PROVE Stored(loaded[p].name)
  BY DEF Init, Absent, Stored
<1> QED
  BY <1>1, <1>2 DEF StoredInv

LEMMA NextTable == [Next]_vars => table' = table
  BY DEF Next, vars, Create, Update, Rename, SoftDelete, Begin, CreateUser, Register,
         UpdateUser, DeleteUser, CreateRole, UpdateRole, DeleteRole, CreateCategory,
         UpdateCategory, DeleteCategory, Load, NotFound, BuiltinRefused, Check, NameTaken,
         Reselect, Write, WriteRefused, Commit, Abort, Refused, Ended

LEMMA NextStored == NamesInv /\ StoredInv /\ [Next]_vars => StoredInv'
<1> SUFFICES ASSUME NamesInv, StoredInv, [Next]_vars PROVE StoredInv'
  OBVIOUS
<1> USE DEF NamesInv, TypeOK, Stored
<1>1. table' = table
  BY NextTable
<1>2. ASSUME rows' = rows, loaded' = loaded PROVE StoredInv'
  BY <1>1, <1>2 DEF StoredInv
<1>3. ASSUME NEW p \in Procs, Load(p) PROVE StoredInv'
  <2>1. id[p] \in Ids /\ rows' = rows /\ loaded' = [loaded EXCEPT ![p] = rows[id[p]]]
    BY <1>3 DEF Load, Typed, Ops, StepsOK, CreateOK, ChangeOK
  <2> QED
    BY <1>1, <2>1 DEF StoredInv, Typed
<1>4. ASSUME NEW p \in Procs, Ended(p), rows' = rows PROVE StoredInv'
  BY <1>1, <1>4 DEF StoredInv, Ended, Typed, Absent
<1>5. ASSUME NEW p \in Procs, Commit(p) PROVE StoredInv'
  <2>1. /\ pc[p] = "commit" /\ rows' = [rows EXCEPT ![id[p]] = After(p)]
        /\ loaded' = [loaded EXCEPT ![p] = Absent]
    BY <1>5 DEF Commit, Ended
  <2>2. After(p).name \in {NewName(p), rows[id[p]].name} /\ id[p] \in Ids
    BY <2>1, AfterTyped
  <2>3. Stored(NewName(p))
    BY NormaliseKeepsWord DEF NewName, StoredInv, Typed
  <2>4. Stored(After(p).name)
    BY <2>2, <2>3 DEF StoredInv
  <2> QED
    BY <1>1, <2>1, <2>2, <2>4 DEF StoredInv, Typed, Absent
<1>6. ASSUME NEW p \in Procs,
             Begins(p) \/ Check(p) \/ Reselect(p) \/ Write(p)
      PROVE  StoredInv'
  BY <1>2, <1>6 DEF Begins, Begin, Check, Reselect, Write
<1>7. ASSUME UNCHANGED vars PROVE StoredInv'
  BY <1>2, <1>7 DEF vars
<1> QED
  BY <1>3, <1>4, <1>5, <1>6, <1>7, NextSteps DEF Next, Refused

(* E-mails and role names are unique, case ignored, deleted rows included, *)
(* whatever requests overlap.                                              *)
THEOREM FoldedUnique == Spec => []FoldedNamesUnique
<1>1. NamesInv /\ StoredInv => FoldedNamesUnique
  <2> SUFFICES ASSUME NamesInv, StoredInv, table # "categories",
                      NEW i \in Ids, NEW j \in Ids,
                      rows[i].name # NoName, rows[j].name # NoName,
                      rows[i].name.word = rows[j].name.word
               PROVE  i = j
    BY DEF FoldedNamesUnique
  <2>1. rows[i].name \in Names /\ rows[j].name \in Names
    BY DEF NamesInv, TypeOK, Typed, Row
  <2>2. rows[i].name.case = rows[j].name.case
    BY DEF StoredInv, Stored
  <2>3. rows[i].name = rows[j].name
    BY <2>1, <2>2 DEF Names
  <2> QED
    BY <2>3 DEF NamesInv, TypeOK
<1> QED
  BY <1>1, InitNames, NextNames, InitStored, NextStored, PTL DEF Spec

-----------------------------------------------------------------------------
(* Races.                                                                  *)
LEMMA QuietRace ==
  ASSUME NamesInv, RaceInv, NEW p \in Procs, Quiet(p), tainted' = tainted,
         overtaken \ {p} \subseteq overtaken', RaceOK(p)'
  PROVE  RaceInv'
<1>1. SharedNamesNeedRace'
  BY DEF RaceInv, SharedNamesNeedRace, Shared, Quiet
<1>2. ASSUME NEW q \in Procs, q # p PROVE RaceOK(q)'
  BY <1>2 DEF RaceInv, RaceOK, NewName, Normalise, Quiet, AsksEmpty
<1> QED
  BY <1>1, <1>2 DEF RaceInv

LEMMA QuietSteps ==
  ASSUME NamesInv, NEW p \in Procs,
         Begins(p) \/ Load(p) \/ Check(p) \/ Reselect(p) \/ Refused(p)
  PROVE  Quiet(p) /\ tainted' = tainted /\ overtaken \ {p} \subseteq overtaken'
<1> USE DEF NamesInv, TypeOK, Typed, Quiet
<1>1. CASE Begins(p)
  BY <1>1 DEF Begins, Begin, Goto
<1>2. CASE Load(p) \/ Check(p)
  BY <1>2 DEF Load, Check, Goto, inputs
<1>3. CASE Reselect(p)
  BY <1>3 DEF Reselect, Goto, inputs
<1>4. CASE Refused(p)
  BY <1>4 DEF Refused, Ended
<1> QED
  BY <1>1, <1>2, <1>3, <1>4

(* What the COMMIT of a request that is not overtaken makes of its row: if *)
(* the row is live, it has the name that the request had checked.          *)
LEMMA AfterExpected ==
  ASSUME NamesInv, NEW p \in Procs, RaceOK(p), pc[p] = "commit", p \notin overtaken,
         After(p).state = "live"
  PROVE  After(p).name = NewName(p) /\ op[p] # "delete"
<1> USE DEF NamesInv, TypeOK
<1>1. op[p] \in {"create", "update", "delete"}
  BY DEF Typed, Ops, StepsOK
<1>2. CASE op[p] = "create"
  <2>1. NewName(p) # NoName /\ seen[p].name = NoName
    BY <1>2, NewNameTyped, NullAssumption DEF StepsOK, CreateOK, Absent, Decided
  <2> QED
    BY <1>2, <2>1 DEF After
<1>3. CASE op[p] # "create"
  <2>1. seen[p] = rows[id[p]] /\ loaded[p] = rows[id[p]]
    BY <1>3 DEF RaceOK, Loaded, Decided
  <2>2. After(p).name = NewName(p)
    BY <2>1 DEF After
  <2>3. op[p] # "delete"
    BY <1>3, <2>1 DEF StepsOK, ChangeOK, After, Entity
  <2> QED
    BY <2>2, <2>3
<1> QED
  BY <1>2, <1>3

LEMMA CommitRace ==
  ASSUME NamesInv, StoredInv, RaceInv, NEW p \in Procs, Commit(p)
  PROVE  RaceInv'
<1>0. \A j \in Ids : j # id[p] /\ rows'[j].name = rows'[id[p]].name /\ id[p] \in Ids
                    => rows'[j].name = NoName
  BY CommitStep DEF NamesInv, TypeOK
<1> USE DEF NamesInv, TypeOK
<1>1. /\ pc[p] = "commit" /\ rows' = [rows EXCEPT ![id[p]] = After(p)]
      /\ tainted' = IF p \in overtaken THEN tainted \cup {id[p]} ELSE tainted
      /\ overtaken' = (overtaken \cup {q \in Procs : Overtakes(p, q)}) \ {p}
      /\ Ended(p)
  BY DEF Commit
<1>2. /\ id[p] \in Ids /\ rows \in [Ids -> Row] /\ After(p) \in Row
      /\ tainted \subseteq tainted' /\ RaceOK(p)
  BY <1>1, AfterTyped DEF Typed, RaceInv
<1>3. ASSUME NEW j \in Ids \ {id[p]}, After(p).state = "live", rows[j].state = "live",
             After(p).name.word = rows[j].name.word
      PROVE  id[p] \in tainted' \/ j \in tainted'
  <2>1. CASE p \in overtaken
    BY <1>1, <2>1
  <2>2. CASE p \notin overtaken
    <3>1. After(p).name = NewName(p) /\ op[p] # "delete"
      BY <1>1, <1>2, <1>3, <2>2, AfterExpected
    <3>2. CASE AsksEmpty(p)
      <4>1. NewName(p) = Empty
        BY <3>2, EmptyName, NormaliseKeepsWord DEF NewName, Normalise, Empty, AsksEmpty
      <4>2. rows[j].name = Empty
        <5>1. rows[j].name \in Names
          BY <1>2, <1>3 DEF Typed, Row
        <5>2. rows[j].name.word = Blank /\ rows[j].name.case = "lower"
          BY <1>3, <3>1, <4>1, <5>1, EmptyName, NullAssumption DEF StoredInv, Stored
        <5> QED
          BY <5>1, <5>2 DEF Names, Empty
      <4> QED
        BY <1>0, <1>1, <1>2, <1>3, <3>1, <4>1, <4>2, EmptyName
    <3>3. CASE ~AsksEmpty(p)
      BY <1>1, <1>2, <1>3, <2>2, <3>1, <3>3 DEF RaceOK, Decided, AsksEmpty
    <3> QED
      BY <3>2, <3>3
  <2> QED
    BY <2>1, <2>2
<1>4. SharedNamesNeedRace'
  <2> SUFFICES ASSUME NEW i \in Ids, NEW j \in Ids, Shared(i, j)'
               PROVE  i \in tainted' \/ j \in tainted'
    BY DEF SharedNamesNeedRace
  <2>1. CASE i # id[p] /\ j # id[p]
    BY <1>1, <1>2, <2>1 DEF RaceInv, SharedNamesNeedRace, Shared
  <2>2. CASE i = id[p]
    BY <1>1, <1>2, <1>3, <2>2 DEF Shared
  <2>3. CASE j = id[p]
    BY <1>1, <1>2, <1>3, <2>3 DEF Shared
  <2> QED
    BY <2>1, <2>2, <2>3
<1>5. ASSUME NEW q \in Procs, q # p PROVE RaceOK(q)'
  <2>1. /\ pc'[q] = pc[q] /\ op'[q] = op[q] /\ id'[q] = id[q] /\ want'[q] = want[q]
        /\ loaded'[q] = loaded[q] /\ seen'[q] = seen[q] /\ NewName(q)' = NewName(q)
    BY <1>1, <1>5 DEF Ended, Typed, NewName, Normalise
  <2> SUFFICES ASSUME q \notin overtaken', pc[q] \in Loaded PROVE RaceOK(q)'
    BY <2>1 DEF RaceOK, Loaded, Decided
  <2>2. q \notin overtaken /\ RaceOK(q) /\ ~Overtakes(p, q)
    BY <1>1, <1>5 DEF RaceInv
  <2>3. CASE Writes(p)
    <3>1. /\ id[p] # id[q]
          /\ pc[q] \in Decided =>
                ~(After(p).state = "live" /\ After(p).name.word = NewName(q).word)
      BY <2>2, <2>3 DEF Overtakes
    <3>2. rows'[id[q]] = rows[id[q]] \/ op[q] = "create"
      <4>1. op[q] # "create" => id[q] \in Ids
        BY DEF StepsOK, ChangeOK, Typed, Ops, Loaded, Decided
      <4> QED
        BY <1>1, <1>2, <3>1, <4>1
    <3>3. ASSUME pc[q] \in Decided, NEW j \in Ids, rows'[j].state = "live",
                 rows'[j].name.word = NewName(q).word
          PROVE  rows'[j] = rows[j]
      BY <1>1, <1>2, <3>1, <3>3
    <3> QED
      BY <1>2, <2>1, <2>2, <3>2, <3>3 DEF RaceOK, Decided, AsksEmpty
  <2>4. CASE ~Writes(p)
    <3>1. After(p) = rows[id[p]]
      <4>1. Entity(p).state = seen[p].state /\ Entity(p).name = seen[p].name
        BY <2>4 DEF Writes
      <4> QED
        BY <1>2, <4>1 DEF After, Entity, Row
    <3>2. rows' = rows
      BY <1>1, <1>2, <3>1
    <3> QED
      BY <1>2, <2>1, <2>2, <3>2 DEF RaceOK, AsksEmpty
  <2> QED
    BY <2>3, <2>4
<1>6. RaceOK(p)'
  BY <1>1 DEF Ended, Typed, RaceOK, Loaded, Decided, AsksEmpty
<1> QED
  BY <1>4, <1>5, <1>6 DEF RaceInv

LEMMA NextRace == NamesInv /\ StoredInv /\ RaceInv /\ [Next]_vars => RaceInv'
<1> SUFFICES ASSUME NamesInv, StoredInv, RaceInv, [Next]_vars PROVE RaceInv'
  OBVIOUS
<1> USE DEF TypeOK
<1>1. ASSUME NEW p \in Procs, Begins(p) PROVE RaceInv'
  <2>1. pc'[p] \in {"check", "load"} /\ overtaken' = overtaken
        /\ (op'[p] # "create" => pc'[p] = "load")
    BY <1>1 DEF Begins, Begin, Goto, NamesInv, Typed
  <2>2. RaceOK(p)'
    BY <2>1 DEF RaceOK, Loaded, Decided, AsksEmpty
  <2> QED
    BY <1>1, <2>2, QuietRace, QuietSteps
<1>2. ASSUME NEW p \in Procs, Load(p) PROVE RaceInv'
  <2>1. /\ op[p] \in {"update", "delete"} /\ id[p] \in Ids /\ id'[p] = id[p]
        /\ op'[p] = op[p] /\ want'[p] = want[p] /\ rows' = rows /\ table' = table
        /\ loaded'[p] = rows[id[p]] /\ rows[id[p]].state = "live"
        /\ op[p] = "delete" => want[p] = NoName
        /\ pc'[p] = IF AsksName(p) THEN "check" ELSE "reselect"
    BY <1>2 DEF Load, Goto, NamesInv, Typed, Ops, StepsOK, CreateOK, ChangeOK, inputs
  <2>2. pc'[p] = "reselect" /\ want[p] # Empty => NewName(p)'.word = rows[id[p]].name.word
    BY <2>1, NormaliseKeepsWord DEF NewName, Normalise, AsksName, NamesInv, Typed
  <2>3. \/ id[p] \in tainted
        \/ \A j \in Ids \ {id[p]} :
               rows[j].state = "live" /\ rows[j].name.word = rows[id[p]].name.word
                   => j \in tainted
    BY <2>1 DEF RaceInv, SharedNamesNeedRace, Shared
  <2>4. want[p] = Empty => op[p] = "update"
    BY <2>1, EmptyName
  <2>5. RaceOK(p)'
    BY <1>2, <2>1, <2>2, <2>3, <2>4, QuietSteps DEF RaceOK, Loaded, Decided, AsksEmpty
  <2> QED
    BY <1>2, <2>5, QuietRace, QuietSteps
<1>3. ASSUME NEW p \in Procs, Check(p) PROVE RaceInv'
  <2>1. /\ want[p] \in Names /\ ~Taken(want[p])
        /\ UNCHANGED <<table, rows, tainted, overtaken>>
        /\ pc[p] = "check" /\ op[p] \in {"create", "update"}
        /\ want'[p] = want[p] /\ loaded'[p] = loaded[p] /\ op'[p] = op[p] /\ id'[p] = id[p]
        /\ pc'[p] = IF op[p] = "create" THEN "write" ELSE "reselect"
    BY <1>3 DEF Check, Goto, NamesInv, Typed, Ops, StepsOK, CreateOK, ChangeOK, inputs
  <2>2. NewName(p)'.word = want[p].word
    BY <2>1, NormaliseKeepsWord, NullAssumption DEF NewName, Normalise
  <2>3. \A j \in Ids : ~(rows[j].state = "live" /\ rows[j].name.word = want[p].word)
    BY <2>1 DEF Taken
  <2>4. RaceOK(p)
    BY DEF RaceInv
  <2>5. RaceOK(p)'
    BY <2>1, <2>2, <2>3, <2>4 DEF RaceOK, Loaded, Decided, AsksEmpty
  <2> QED
    BY <1>3, <2>5, QuietRace, QuietSteps
<1>4. ASSUME NEW p \in Procs, Reselect(p) PROVE RaceInv'
  <2>1. /\ pc[p] = "reselect" /\ pc'[p] = "write"
        /\ seen'[p] \in {rows[id[p]], loaded[p]}
        /\ UNCHANGED <<table, rows, inputs, loaded, overtaken, tainted>>
    BY <1>4 DEF Reselect, Goto, NamesInv, Typed
  <2>2. RaceOK(p)
    BY DEF RaceInv
  <2>3. RaceOK(p)'
    BY <2>1, <2>2 DEF RaceOK, NewName, Normalise, Loaded, Decided, inputs, AsksEmpty
  <2> QED
    BY <1>4, <2>3, QuietRace, QuietSteps
<1>5. ASSUME NEW p \in Procs, Write(p) PROVE RaceInv'
  <2>1. PICK i \in Ids :
          /\ Target(p, i) /\ pc[p] = "write" /\ pc' = [pc EXCEPT ![p] = "commit"]
          /\ id' = [id EXCEPT ![p] = i]
          /\ UNCHANGED <<table, rows, op, want, loaded, seen, overtaken, tainted>>
    BY <1>5 DEF Write, Goto
  <2>2. /\ id'[p] = i /\ pc'[p] = "commit"
        /\ op[p] # "create" => i = id[p]
        /\ op[p] = "create" => id[p] \notin Ids \cup tainted
    BY <2>1, NullAssumption DEF Target, NamesInv, Typed, StepsOK, CreateOK
  <2>3. RaceOK(p)'
    <3>1. RaceOK(p) /\ NewName(p)' = NewName(p)
      BY <2>1 DEF RaceInv, NewName, Normalise
    <3>2. CASE op[p] = "create"
      BY <2>1, <2>2, <3>1, <3>2 DEF RaceOK, Decided, AsksEmpty
    <3>3. CASE op[p] # "create"
      BY <2>1, <2>2, <3>1, <3>3 DEF RaceOK, Loaded, Decided, AsksEmpty
    <3> QED
      BY <3>2, <3>3
  <2>4. ASSUME NEW q \in Procs, q # p PROVE RaceOK(q)'
    <3>1. RaceOK(q) /\ NewName(q)' = NewName(q) /\ id'[q] = id[q] /\ pc'[q] = pc[q]
      BY <2>1, <2>4 DEF RaceInv, NewName, Normalise, NamesInv, Typed
    <3> QED
      BY <2>1, <3>1 DEF RaceOK, AsksEmpty
  <2>5. SharedNamesNeedRace'
    BY <2>1 DEF RaceInv, SharedNamesNeedRace, Shared
  <2> QED
    BY <2>3, <2>4, <2>5 DEF RaceInv
<1>6. ASSUME NEW p \in Procs, Refused(p) PROVE RaceInv'
  <2>1. RaceOK(p)'
    BY <1>6 DEF Refused, Ended, RaceOK, Loaded, Decided, NamesInv, Typed, AsksEmpty
  <2> QED
    BY <1>6, <2>1, QuietRace, QuietSteps
<1>7. ASSUME UNCHANGED vars PROVE RaceInv'
  BY <1>7 DEF vars, RaceInv, SharedNamesNeedRace, Shared, RaceOK, NewName, Normalise, AsksEmpty
<1> QED
  BY <1>1, <1>2, <1>3, <1>4, <1>5, <1>6, <1>7, CommitRace, NextSteps DEF Next

LEMMA InitRace == Init => RaceInv
<1> SUFFICES ASSUME Init PROVE RaceInv
  OBVIOUS
<1>1. SharedNamesNeedRace
  BY DEF Init, Seeded, SharedNamesNeedRace, Shared, Absent
<1> QED
  BY <1>1 DEF Init, RaceInv, RaceOK, Loaded, Decided, AsksEmpty

(* Two live rows share a name only through a request that was overtaken    *)
(* between its check and its COMMIT.                                       *)
THEOREM SharedNames == Spec => []SharedNamesNeedRace
<1>1. RaceInv => SharedNamesNeedRace
  BY DEF RaceInv
<1> QED
  BY <1>1, InitNames, NextNames, InitStored, NextStored, InitRace, NextRace, PTL DEF Spec

(* The causes for which the index refuses a name.                          *)
THEOREM IndexRefuses == Spec => IndexRefusesNeedsCause
<1> DEFINE Cause(p) == \/ p \in overtaken \/ id[p] \in tainted
                       \/ AsksEmpty(p)
                       \/ \E i \in Ids : /\ rows[i].name = NewName(p)
                                         /\ rows[i].state = "deleted" \/ i \in tainted
           Refusals == \A p \in Procs : WriteRefused(p) => Cause(p)
<1>1. NamesInv /\ RaceInv => Refusals
  <2> SUFFICES ASSUME NamesInv, RaceInv, NEW p \in Procs, WriteRefused(p),
                      p \notin overtaken, id[p] \notin tainted,
                      ~AsksEmpty(p)
               PROVE  \E i \in Ids : /\ rows[i].name = NewName(p)
                                     /\ rows[i].state = "deleted" \/ i \in tainted
    OBVIOUS
  <2> USE DEF NamesInv, TypeOK
  <2>1. PICK i \in Ids : Target(p, i) /\ pc[p] = "write" /\ Clashes(p, i)
    BY DEF WriteRefused
  <2>2. PICK j \in Ids \ {i} : rows[j].state # "absent" /\ rows[j].name = NewName(p)
    BY <2>1 DEF Clashes
  <2>3. RaceOK(p) /\ op[p] \in {"create", "update", "delete"} /\ j # id[p]
    BY <2>1, <2>2, NullAssumption DEF RaceInv, Typed, Ops, StepsOK, CreateOK, Target
  <2>4. op[p] # "delete"
    <3> SUFFICES ASSUME op[p] = "delete" PROVE FALSE
      OBVIOUS
    <3>1. NewName(p) = loaded[p].name
      BY DEF StepsOK, ChangeOK, NewName
    <3>2. loaded[p] = rows[id[p]] /\ seen[p] = loaded[p]
      BY <2>1, <2>3 DEF RaceOK, Loaded, Decided
    <3> QED
      BY <2>1, <3>1, <3>2 DEF Clashes
  <2>5. rows[j].state \in {"live", "deleted"}
    BY <2>2 DEF Typed, Row
  <2> QED
    BY <2>1, <2>2, <2>3, <2>4, <2>5 DEF RaceOK, Decided
<1> QED
  BY <1>1, InitNames, NextNames, InitStored, NextStored, InitRace, NextRace,
     PTL DEF Spec, IndexRefusesNeedsCause

-----------------------------------------------------------------------------
(* Built-in rows.                                                          *)
LEMMA NextPassed == NamesInv /\ PassedInv /\ [Next]_vars => PassedInv'
<1> SUFFICES ASSUME NamesInv, PassedInv, [Next]_vars PROVE PassedInv'
  OBVIOUS
<1> USE DEF NamesInv, TypeOK, Typed
<1>0. table' = table
  BY NextTable
<1>1. ASSUME NEW p \in Procs, Quiet(p), PassedOK(p)' PROVE PassedInv'
  BY <1>1 DEF PassedInv, PassedOK, Quiet
<1>2. ASSUME NEW p \in Procs, Begins(p) PROVE PassedInv'
  <2>1. pc'[p] = "load" \/ op'[p] = "create"
    BY <1>2 DEF Begins, Begin, Goto
  <2> QED
    BY <1>1, <1>2, <2>1, QuietSteps DEF PassedOK, Loaded, Decided
<1>3. ASSUME NEW p \in Procs, Load(p) PROVE PassedInv'
  <2>1. /\ op'[p] = op[p] /\ want'[p] = want[p] /\ loaded'[p] = rows[id[p]] /\ ~Protected(p)
        /\ op[p] \in {"update", "delete"} /\ table \in {"users", "roles", "categories"}
    BY <1>3, TablesAssumption DEF Load, Goto, inputs, StepsOK, CreateOK, Ops
  <2>2. PassedOK(p)'
    BY <1>0, <2>1 DEF PassedOK, Protected, AsksName
  <2> QED
    BY <1>1, <1>3, <2>2, QuietSteps
<1>4. ASSUME NEW p \in Procs, Check(p) \/ Reselect(p) PROVE PassedInv'
  <2>1. /\ op'[p] = op[p] /\ want'[p] = want[p] /\ loaded'[p] = loaded[p]
        /\ pc[p] \in Loaded
    BY <1>4 DEF Check, Reselect, Goto, inputs, Loaded, Decided
  <2>2. PassedOK(p)'
    BY <1>0, <2>1 DEF PassedInv, PassedOK
  <2> QED
    BY <1>1, <1>4, <2>2, QuietSteps
<1>5. ASSUME NEW p \in Procs, Write(p) PROVE PassedInv'
  BY <1>5 DEF Write, Goto, PassedInv, PassedOK, Loaded, Decided
<1>6. ASSUME NEW p \in Procs, Ended(p) PROVE PassedInv'
  BY <1>0, <1>6 DEF Ended, PassedInv, PassedOK, Loaded, Decided
<1>7. ASSUME UNCHANGED vars PROVE PassedInv'
  BY <1>7 DEF vars, PassedInv, PassedOK
<1> QED
  BY <1>2, <1>3, <1>4, <1>5, <1>6, <1>7, NextSteps DEF Next, Refused, Commit

(* A request that nobody has overtaken leaves a built-in row as it is,     *)
(* unless it asks for the empty name.                                      *)
LEMMA BuiltinUnchanged ==
  ASSUME NamesInv, StoredInv, RaceInv, PassedInv, table # "users",
         NEW p \in Procs, pc[p] = "commit", p \notin overtaken,
         rows[id[p]].state = "live", rows[id[p]].name.word \in Builtin,
         ~AsksEmpty(p)
  PROVE  After(p) = rows[id[p]]
<1> USE DEF NamesInv, TypeOK
<1>1. op[p] # "create" /\ op[p] \in Ops
  BY DEF StepsOK, CreateOK, Typed
<1>2. loaded[p] = rows[id[p]] /\ seen[p] = rows[id[p]]
  BY <1>1 DEF RaceInv, RaceOK, Loaded, Decided, AsksEmpty
<1>3. /\ table = "roles" /\ op[p] = "update"
      /\ want[p] = NoName \/ want[p].word = loaded[p].name.word
  BY <1>1, <1>2 DEF PassedInv, PassedOK, Loaded, Decided, AsksEmpty
<1>4. rows[id[p]] \in Row /\ rows[id[p]].name \in Names /\ rows[id[p]].name # NoName
      /\ id[p] \in Ids
  BY <1>2, <1>3, NullAssumption DEF StepsOK, ChangeOK, Typed
<1>5. rows[id[p]].name.case = "lower"
  BY <1>3, <1>4 DEF StoredInv, Stored
<1>6. NewName(p) = rows[id[p]].name
  <2>1. CASE want[p] = NoName
    BY <1>2, <2>1 DEF NewName
  <2>2. CASE want[p] # NoName
    BY <1>2, <1>3, <1>4, <1>5, <2>2 DEF NewName, Normalise, Names
  <2> QED
    BY <2>1, <2>2
<1> QED
  BY <1>2, <1>3, <1>4, <1>6 DEF After, Entity, Row

(* Built-in roles and categories keep their names and stay, but for        *)
(* renames to the empty name and overlapping changes.                      *)
THEOREM BuiltinStay == Spec => BuiltinKept
<1>1. NamesInv /\ StoredInv /\ RaceInv /\ PassedInv /\ [Next]_vars =>
         [\A i \in Ids :
             BuiltinRow(i) /\ rows'[i] # rows[i] =>
                 \E p \in Procs : /\ pc[p] = "commit" /\ id[p] = i
                                  /\ p \in overtaken \/ AsksEmpty(p)]_vars
  <2> SUFFICES ASSUME NamesInv, StoredInv, RaceInv, PassedInv, Next,
                      NEW i \in Ids, BuiltinRow(i), rows'[i] # rows[i]
               PROVE  \E p \in Procs : /\ pc[p] = "commit" /\ id[p] = i
                                       /\ p \in overtaken \/ AsksEmpty(p)
    OBVIOUS
  <2>1. PICK p \in Procs : Commit(p)
    BY NextSteps DEF Next, Begins, Begin, Load, Check, Reselect, Write, Refused
  <2>2. /\ pc[p] = "commit" /\ rows' = [rows EXCEPT ![id[p]] = After(p)]
        /\ rows \in [Ids -> Row]
    BY <2>1 DEF Commit, NamesInv, TypeOK, Typed
  <2>3. id[p] = i /\ After(p) # rows[i]
    BY <2>2
  <2> QED
    BY <2>2, <2>3, BuiltinUnchanged DEF BuiltinRow
<1>2. Init => PassedInv
  BY DEF Init, PassedInv, PassedOK, Loaded, Decided
<1> QED
  BY <1>1, <1>2, InitNames, NextNames, InitStored, NextStored, InitRace, NextRace,
     NextPassed, PTL DEF Spec, BuiltinKept

-----------------------------------------------------------------------------
(* One request at a time.                                                  *)

Undisturbed == overtaken = {} /\ tainted = {}

LEMMA NobodyOvertakes ==
  ASSUME NEW r, Procs = {r} PROVE Spec => []Undisturbed
<1>1. Init => Undisturbed
  BY DEF Init, Undisturbed
<1>2. Undisturbed /\ [Next]_vars => Undisturbed'
  <2> SUFFICES ASSUME Undisturbed, [Next]_vars PROVE Undisturbed'
    OBVIOUS
  <2>1. CASE UNCHANGED vars
    BY <2>1 DEF vars, Undisturbed
  <2>2. CASE Commit(r)
    BY <2>2 DEF Commit, Undisturbed
  <2>3. CASE \E p \in Procs : ~Commit(p) /\ UNCHANGED tainted /\ overtaken' \subseteq overtaken
    BY <2>3 DEF Undisturbed
  <2> QED
    BY <2>1, <2>2, <2>3, NextSteps
       DEF Next, Begins, Begin, Load, Check, Reselect, Write, Refused
<1> QED
  BY <1>1, <1>2, PTL DEF Spec

(* Requests that do not overlap leave no two live rows with the same name, *)
(* case ignored.                                                           *)
THEOREM NamesUniqueAlone ==
  ASSUME NEW r, Procs = {r} PROVE Spec => []NamesUnique
<1>1. Undisturbed /\ SharedNamesNeedRace => NamesUnique
  BY DEF Undisturbed, SharedNamesNeedRace, NamesUnique
<1> QED
  BY <1>1, NobodyOvertakes, SharedNames, PTL

(* The index then refuses only the names of deleted rows and the empty one. *)
THEOREM RefusalsAlone ==
  ASSUME NEW r, Procs = {r} PROVE Spec => RefusedForDeleted
<1> DEFINE A == \A p \in Procs :
                  WriteRefused(p) =>
                      \/ p \in overtaken \/ id[p] \in tainted
                      \/ AsksEmpty(p)
                      \/ \E i \in Ids : /\ rows[i].name = NewName(p)
                                        /\ rows[i].state = "deleted" \/ i \in tainted
           B == \A p \in Procs :
                  WriteRefused(p) =>
                      \/ AsksEmpty(p)
                      \/ \E i \in Ids : rows[i].name = NewName(p) /\ rows[i].state = "deleted"
<1>1. Undisturbed /\ [A]_vars => [B]_vars
  BY DEF Undisturbed
<1>2. Spec => [][A]_vars
  BY IndexRefuses DEF IndexRefusesNeedsCause
<1>3. Spec => [][B]_vars
  BY <1>1, <1>2, NobodyOvertakes, PTL
<1> QED
  BY <1>3 DEF RefusedForDeleted

(* And built-in rows change only by a rename to the empty name.            *)
THEOREM BuiltinAlone ==
  ASSUME NEW r, Procs = {r} PROVE Spec => BuiltinFixed
<1> DEFINE A == \A i \in Ids :
                  BuiltinRow(i) /\ rows'[i] # rows[i] =>
                      \E p \in Procs : /\ pc[p] = "commit" /\ id[p] = i
                                       /\ p \in overtaken \/ AsksEmpty(p)
           B == \A i \in Ids :
                  BuiltinRow(i) /\ rows'[i] # rows[i] =>
                      \E p \in Procs : pc[p] = "commit" /\ id[p] = i /\ AsksEmpty(p)
<1>1. Undisturbed /\ [A]_vars => [B]_vars
  BY DEF Undisturbed
<1>2. Spec => [][A]_vars
  BY BuiltinStay DEF BuiltinKept
<1>3. Spec => [][B]_vars
  BY <1>1, <1>2, NobodyOvertakes, PTL
<1> QED
  BY <1>3 DEF BuiltinFixed
=============================================================================
