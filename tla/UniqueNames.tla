----------------------------- MODULE UniqueNames -----------------------------
(***************************************************************************)
(* The names of one table, users (by e-mail), roles or categories, while   *)
(* overlapping requests create, rename and soft delete its rows.           *)
(*                                                                         *)
(* A use case looks for a live row of the same name, case ignored, and     *)
(* only later INSERTs or UPDATEs; the unique index compares names exactly, *)
(* and over deleted rows as well.  An update or deletion writes the loaded *)
(* entity back as EntityUpdates describes, here for the columns name and   *)
(* is_deleted.  Built-in roles and categories are protected.  The          *)
(* permissions and roles of new rows are no part of this.                  *)
(***************************************************************************)
EXTENDS Naturals, FiniteSets

CONSTANTS
    Tables,    \* which of "users", "roles", "categories"
    Ids,       \* the rows a table can have
    MaxRows,   \* a bound: how many of them creations fill, per table
    Words,     \* names up to case and surrounding blanks
    Blank,     \* the word of the empty name
    Builtin,   \* the words of SYSTEM_ROLES, of the seeded system categories
    Asked,     \* a bound: the names that requests give
    Procs,     \* requests in flight at once, over all workers
    NoName,    \* the name of an absent row; no name in a request
    NoId

ASSUME TablesAssumption == Tables \subseteq {"users", "roles", "categories"}
ASSUME MaxRowsAssumption == MaxRows \in [Tables -> Nat]
ASSUME WordsAssumption == Blank \in Words /\ Builtin \subseteq Words \ {Blank}

Cases == {"lower", "mixed"}
Names == [word : Words, case : Cases]
ASSUME AskedAssumption == Asked \subseteq Names

Empty == [word |-> Blank, case |-> "lower"]   \* "mixed": nothing but blanks

ASSUME NullAssumption == NoName \notin Names /\ NoId \notin Ids

Row == [state : {"absent", "live", "deleted"}, name : Names \cup {NoName}]
Absent == [state |-> "absent", name |-> NoName]

VARIABLES
    table,     \* the table, fixed
    rows,      \* [Ids -> Row] the committed rows
    pc,        \* the step each request is about to take
    op,        \* "create", "update" or "delete"
    id,        \* the row a request is about, NoId before its INSERT
    want,      \* the name a request gives, as typed
    loaded,    \* the row as the use case loaded it
    seen,      \* the row as the repository's SELECT gave it
    overtaken, \* history: requests whose row or name another has committed
    tainted    \* history: rows last written by such requests

vars == <<table, rows, pc, op, id, want, loaded, seen, overtaken, tainted>>

inputs == <<op, id, want>>
Steps == {"idle", "check", "load", "reselect", "write", "commit"}
Ops   == {"none", "create", "update", "delete"}
Decided == {"reselect", "write", "commit"}
Loaded  == {"check"} \cup Decided

Goto(p, from, to) ==
    /\ pc[p] = from
    /\ pc' = [pc EXCEPT ![p] = to]

(* The seed script stores each built-in role and category once: roles in    *)
(* lower case, categories capitalised.                                     *)
Seeds == [state : {"live"},
          name  : [word : Builtin, case : {IF table = "roles" THEN "lower" ELSE "mixed"}]]

Seeded(r) ==
    /\ \A i \in Ids : table = "users" => r[i] = Absent
    /\ table # "users" => \A w \in Builtin : \E i \in Ids : r[i] # Absent /\ r[i].name.word = w
    /\ \A i, j \in Ids : r[i] # Absent /\ r[j] # Absent /\ r[i].name.word = r[j].name.word
                           => i = j

Init ==
    /\ table \in Tables
    /\ rows \in [Ids -> Seeds \cup {Absent}] /\ Seeded(rows)
    /\ pc        = [p \in Procs |-> "idle"]
    /\ op        = [p \in Procs |-> "none"]
    /\ id        = [p \in Procs |-> NoId]
    /\ want      = [p \in Procs |-> NoName]
    /\ loaded    = [p \in Procs |-> Absent]
    /\ seen      = [p \in Procs |-> Absent]
    /\ overtaken = {}
    /\ tainted   = {}

-----------------------------------------------------------------------------
(* Names.                                                                  *)

(* Variant: the name is stripped but keeps its case in every table.        *)
NormaliseNot(n) == IF n.word # Blank THEN n ELSE Empty

(* Names are stripped; e-mails and role names are lower-cased as well.     *)
Normalise(n) ==
    IF table = "categories" /\ n.word # Blank THEN n
    ELSE [word |-> n.word, case |-> "lower"]

(* Variant: the existence check compares as the index does.                *)
TakenExactly(n) == \E i \in Ids : rows[i].state = "live" /\ rows[i].name = n

(* exists_by_name, exists_by_email: a live row, case ignored; e-mails are   *)
(* all in lower case, so exists_by_email need not ignore it.               *)
Taken(n) == \E i \in Ids : rows[i].state = "live" /\ rows[i].name.word = n.word

(* The entity that a request hands to the repository.                      *)
NewName(p) == IF want[p] = NoName THEN loaded[p].name ELSE Normalise(want[p])
Entity(p) == [state |-> IF op[p] = "delete" THEN "deleted" ELSE "live",
              name  |-> NewName(p)]

(* The row once the request has committed: the columns in which the entity *)
(* differs from what the SELECT gave are set, the others stay.             *)
After(p) ==
    [state |-> IF Entity(p).state # seen[p].state THEN Entity(p).state
                                                  ELSE rows[id[p]].state,
     name  |-> IF NewName(p) # seen[p].name THEN NewName(p) ELSE rows[id[p]].name]

Writes(p) == Entity(p) # seen[p]
Holds(q)  == pc[q] = "commit" /\ Writes(q)

(* The statement waits for another transaction that has written the row,   *)
(* or a row that has or had the same name.                                 *)
Waits(p, i) ==
    \E q \in Procs \ {p} :
        /\ Holds(q)
        /\ \/ id[q] = i
           \/ NewName(p) # seen[p].name /\ NewName(p) \in {NewName(q), rows[id[q]].name}

(* Variant: an index over the live rows only.                              *)
ClashesLive(p, i) ==
    /\ NewName(p) # seen[p].name
    /\ \E j \in Ids \ {i} : rows[j].state = "live" /\ rows[j].name = NewName(p)

(* The unique index has the new name already.                              *)
Clashes(p, i) ==
    /\ NewName(p) # seen[p].name
    /\ \E j \in Ids \ {i} : rows[j].state # "absent" /\ rows[j].name = NewName(p)

-----------------------------------------------------------------------------
(* The requests.                                                           *)

Begin(p, o, i, n, to) ==
    /\ Goto(p, "idle", to)
    /\ op' = [op EXCEPT ![p] = o]
    /\ id' = [id EXCEPT ![p] = i]
    /\ want' = [want EXCEPT ![p] = n]
    /\ UNCHANGED <<table, rows, loaded, seen, overtaken, tainted>>

(* Email refuses an empty address; no schema refuses an empty name.        *)
Create(p, t) ==
    /\ table = t
    /\ \E n \in Asked : /\ t = "users" => n.word # Blank
                        /\ Begin(p, "create", NoId, n, "check")

Update(p, t) == table = t /\ \E i \in Ids : Begin(p, "update", i, NoName, "load")
Rename(p, t) == table = t /\ \E i \in Ids, n \in Asked : Begin(p, "update", i, n, "load")
SoftDelete(p, t) == table = t /\ \E i \in Ids : Begin(p, "delete", i, NoName, "load")

CreateUser(p)     == Create(p, "users")
Register(p)       == Create(p, "users")
UpdateUser(p)     == Update(p, "users")
DeleteUser(p)     == SoftDelete(p, "users")
CreateRole(p)     == Create(p, "roles")
UpdateRole(p)     == Update(p, "roles") \/ Rename(p, "roles")
DeleteRole(p)     == SoftDelete(p, "roles")
CreateCategory(p) == Create(p, "categories")
UpdateCategory(p) == Update(p, "categories") \/ Rename(p, "categories")
DeleteCategory(p) == SoftDelete(p, "categories")

(* The request is over; a transaction still open is rolled back.           *)
Ended(p) ==
    /\ pc' = [pc EXCEPT ![p] = "idle"]
    /\ op' = [op EXCEPT ![p] = "none"]
    /\ id' = [id EXCEPT ![p] = NoId]
    /\ want' = [want EXCEPT ![p] = NoName]
    /\ loaded' = [loaded EXCEPT ![p] = Absent]
    /\ seen' = [seen EXCEPT ![p] = Absent]
    /\ UNCHANGED table

Refused(p) ==
    /\ Ended(p)
    /\ overtaken' = overtaken \ {p}
    /\ UNCHANGED <<rows, tainted>>

AsksEmpty(p) == op[p] = "update" /\ want[p] = Empty

(* A request for a new name; the empty one counts as none.                 *)
AsksName(p) == want[p] \notin {NoName, Empty} /\ want[p].word # rows[id[p]].name.word

(* Variant: every request may change a built-in role.                      *)
ProtectedNot(p) == table = "categories" /\ rows[id[p]].name.word \in Builtin

(* Built-in categories never change; built-in roles, known by their name,  *)
(* are neither deleted nor renamed.                                        *)
Protected(p) ==
    /\ rows[id[p]].name.word \in Builtin
    /\ \/ table = "categories"
       \/ table = "roles" /\ (op[p] = "delete" \/ AsksName(p))

(* Variant: a rename is not checked.                                       *)
LoadUnchecked(p) ==
    /\ Goto(p, "load", "reselect")
    /\ rows[id[p]].state = "live" /\ ~Protected(p)
    /\ loaded' = [loaded EXCEPT ![p] = rows[id[p]]]
    /\ overtaken' = overtaken \ {p}
    /\ UNCHANGED <<table, rows, inputs, seen, tainted>>

(* get_by_id; only a name that differs, case ignored, is looked up.        *)
Load(p) ==
    /\ pc[p] = "load"
    /\ rows[id[p]].state = "live" /\ ~Protected(p)
    /\ Goto(p, "load", IF AsksName(p) THEN "check" ELSE "reselect")
    /\ loaded' = [loaded EXCEPT ![p] = rows[id[p]]]
    /\ overtaken' = overtaken \ {p}
    /\ UNCHANGED <<table, rows, inputs, seen, tainted>>

NotFound(p) == pc[p] = "load" /\ rows[id[p]].state # "live" /\ Refused(p)

BuiltinRefused(p) ==
    pc[p] = "load" /\ rows[id[p]].state = "live" /\ Protected(p) /\ Refused(p)

Check(p) ==
    /\ pc[p] = "check"
    /\ ~Taken(want[p])
    /\ Goto(p, "check", IF op[p] = "create" THEN "write" ELSE "reselect")
    /\ UNCHANGED <<table, rows, inputs, loaded, seen, overtaken, tainted>>

NameTaken(p) == pc[p] = "check" /\ Taken(want[p]) /\ Refused(p)

(* The SELECT of update: an instance still in the session is not refreshed. *)
Reselect(p) ==
    /\ Goto(p, "reselect", "write")
    /\ \E r \in {rows[id[p]], loaded[p]} : seen' = [seen EXCEPT ![p] = r]
    /\ UNCHANGED <<table, rows, inputs, loaded, overtaken, tainted>>

Filled == {i \in Ids : \/ rows[i].state # "absent"
                       \/ \E q \in Procs : op[q] = "create" /\ id[q] = i}

(* The row of the INSERT, or of the UPDATE.                                *)
Target(p, i) ==
    IF op[p] = "create"
    THEN /\ rows[i].state = "absent" /\ \A q \in Procs : id[q] # i
         /\ Cardinality(Filled) < MaxRows[table]
    ELSE i = id[p]

Write(p) ==
    \E i \in Ids :
        /\ Target(p, i)
        /\ Goto(p, "write", "commit")
        /\ Writes(p) => ~Waits(p, i) /\ ~Clashes(p, i)
        /\ id' = [id EXCEPT ![p] = i]
        /\ UNCHANGED <<table, rows, op, want, loaded, seen, overtaken, tainted>>

(* IntegrityError, which no handler expects: the client gets a 500.        *)
WriteRefused(p) ==
    \E i \in Ids :
        /\ pc[p] = "write"
        /\ Target(p, i)
        /\ ~Waits(p, i) /\ Clashes(p, i)
        /\ Refused(p)

(* The COMMIT of q changes the row that p has loaded, or makes a row live  *)
(* of the name that p has found free.                                      *)
Overtakes(q, p) ==
    /\ Writes(q)
    /\ \/ pc[p] \in Loaded /\ id[q] = id[p]
       \/ pc[p] \in Decided /\ After(q).state = "live" /\ After(q).name.word = NewName(p).word

Commit(p) ==
    /\ pc[p] = "commit"
    /\ rows' = [rows EXCEPT ![id[p]] = After(p)]
    /\ tainted' = IF p \in overtaken THEN tainted \cup {id[p]} ELSE tainted
    /\ overtaken' = (overtaken \cup {q \in Procs : Overtakes(p, q)}) \ {p}
    /\ Ended(p)

(* Any other exception, or a lost worker.                                  *)
Abort(p) == pc[p] # "idle" /\ Refused(p)

Next ==
    \E p \in Procs :
        \/ CreateUser(p) \/ Register(p) \/ UpdateUser(p) \/ DeleteUser(p)
        \/ CreateRole(p) \/ UpdateRole(p) \/ DeleteRole(p)
        \/ CreateCategory(p) \/ UpdateCategory(p) \/ DeleteCategory(p)
        \/ Load(p) \/ NotFound(p) \/ BuiltinRefused(p) \/ Check(p) \/ NameTaken(p)
        \/ Reselect(p) \/ Write(p) \/ WriteRefused(p) \/ Commit(p) \/ Abort(p)

Spec == Init /\ [][Next]_vars

-----------------------------------------------------------------------------
(* Properties.                                                             *)

Typed ==
    /\ table     \in Tables
    /\ rows      \in [Ids -> Row]
    /\ \A i \in Ids : rows[i].name = NoName <=> rows[i].state = "absent"
    /\ pc        \in [Procs -> Steps]
    /\ op        \in [Procs -> Ops]
    /\ id        \in [Procs -> Ids \cup {NoId}]
    /\ want      \in [Procs -> Names \cup {NoName}]
    /\ loaded    \in [Procs -> Row]
    /\ seen      \in [Procs -> Row]
    /\ overtaken \subseteq Procs
    /\ tainted   \subseteq Ids

(* The columns' types and the unique index: no two rows, deleted or not,   *)
(* ever have equal names.                                                  *)
TypeOK ==
    /\ Typed
    /\ \A i, j \in Ids : rows[i].name = rows[j].name /\ rows[i].name # NoName => i = j

Shared(i, j) ==
    /\ i # j /\ rows[i].state = "live" /\ rows[j].state = "live"
    /\ rows[i].name.word = rows[j].name.word

(* Live rows share a name, case ignored, only after a race: one of them    *)
(* was last written by a request that another one overtook between its     *)
(* check and its COMMIT (create_category.py, "Name must be unique          *)
(* (case-insensitive)").                                                   *)
SharedNamesNeedRace ==
    \A i, j \in Ids : Shared(i, j) => i \in tainted \/ j \in tainted

(* E-mails and role names are unique, case ignored, whatever overlaps, and *)
(* over deleted rows too: they are stored in lower case (Email, Role.create *)
(* and the rename of UpdateRoleUseCase), so the index compares likewise.   *)
FoldedNamesUnique ==
    table # "categories" =>
        \A i, j \in Ids : rows[i].name # NoName /\ rows[j].name # NoName
                          /\ rows[i].name.word = rows[j].name.word => i = j

(* The index refuses a name that nobody had found taken, and the client    *)
(* gets a 500, for these reasons only: a deleted row has the name, for     *)
(* exists_by_name and exists_by_email look at live rows; another request   *)
(* took the name or changed the row meanwhile; an earlier race has left    *)
(* rows that share the name, where changing the case is unchecked; or the  *)
(* new name is empty, which "if dto.name" takes for none.                  *)
IndexRefusesNeedsCause ==
    [][\A p \in Procs :
          WriteRefused(p) =>
              \/ p \in overtaken \/ id[p] \in tainted
              \/ AsksEmpty(p)
              \/ \E i \in Ids : /\ rows[i].name = NewName(p)
                                /\ rows[i].state = "deleted" \/ i \in tainted]_vars

BuiltinRow(i) ==
    table # "users" /\ rows[i].state = "live" /\ rows[i].name.word \in Builtin

(* "Protected system roles that cannot be renamed, deactivated, or deleted" *)
(* (roles/dtos.py), and system categories likewise: a live row of such a   *)
(* name changes only by a rename to the empty name, which passes for no    *)
(* rename, or by a request whose row was changed after it had loaded it.   *)
BuiltinKept ==
    [][\A i \in Ids :
          BuiltinRow(i) /\ rows'[i] # rows[i] =>
              \E p \in Procs : /\ pc[p] = "commit" /\ id[p] = i
                               /\ p \in overtaken \/ AsksEmpty(p)]_vars

(* What the three properties come to where requests do not overlap.  The   *)
(* look-up alone then keeps names unique, case ignored, although the index *)
(* of categories does not ("Name must be unique (case-insensitive)").      *)
NamesUnique == \A i, j \in Ids : ~Shared(i, j)

(* The index refuses a name that passed the look-up for a deleted row, or  *)
(* for the empty name, which is not looked up.                             *)
RefusedForDeleted ==
    [][\A p \in Procs :
          WriteRefused(p) =>
              \/ AsksEmpty(p)
              \/ \E i \in Ids : rows[i].name = NewName(p) /\ rows[i].state = "deleted"]_vars

(* Only a rename to the empty name changes a built-in row.                 *)
BuiltinFixed ==
    [][\A i \in Ids :
          BuiltinRow(i) /\ rows'[i] # rows[i] =>
              \E p \in Procs : pc[p] = "commit" /\ id[p] = i /\ AsksEmpty(p)]_vars
=============================================================================
