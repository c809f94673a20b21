---------------------------- MODULE EntityUpdates ----------------------------
(***************************************************************************)
(* Overlapping updates and soft deletions of one row of users, roles,      *)
(* categories or financial_records.                                        *)
(*                                                                         *)
(* A use case loads the row into a domain entity, changes the entity and   *)
(* hands it to the repository's update, which SELECTs the row again and    *)
(* copies every attribute of the entity onto it.  SQLAlchemy then writes   *)
(* the columns that differ from what that SELECT gave, and the row stays   *)
(* locked until COMMIT or ROLLBACK.                                        *)
(*                                                                         *)
(* The columns are those of all four tables; a row uses those of its own.  *)
(* The descriptions of roles and categories behave like their names, the   *)
(* other columns of records like amount and category_id.  "deleted" stands *)
(* for is_deleted, deleted_at and deleted_by: the request that deleted the *)
(* row, or NotDeleted.  An edit refused before it writes (no such name, no *)
(* such category, system row, not the owner) is one that never begins.     *)
(***************************************************************************)
CONSTANTS
    Tables,      \* the tables exercised
    Procs,       \* requests in flight at once, over all workers
    Data,        \* values of a text, number or reference column
    Keep,        \* marks a column that a request does not provide
    NotDeleted,
    Unlocked

ASSUME TablesAssumption ==
    Tables \subseteq {"users", "roles", "categories", "records"}
ASSUME NamesAssumption == Unlocked \notin Procs /\ NotDeleted \notin Procs

Columns == {"full_name", "status", "is_active", "name", "amount",
            "category_id", "deleted"}

Domain(c) ==
    CASE c = "status"    -> {"active", "inactive"}
      [] c = "is_active" -> {"yes", "no"}
      [] c = "deleted"   -> Procs \cup {NotDeleted}
      [] OTHER           -> Data

Values == UNION {Domain(c) : c \in Columns}
Rows   == {r \in [Columns -> Values] : \A c \in Columns : r[c] \in Domain(c)}

ASSUME KeepAssumption == Keep \notin Values

VARIABLES
    table,    \* the table of the row, fixed
    row,      \* the committed row
    lock,     \* the request whose UPDATE holds the row lock
    pc,       \* the step each request is about to take
    wanted,   \* the values a request provides, Keep elsewhere
    loaded,   \* the row as the use case loaded it into its entity
    seen,     \* the row as the repository's SELECT gave it
    changed   \* history: columns others changed between the two SELECTs

vars == <<table, row, lock, pc, wanted, loaded, seen, changed>>

Steps == {"idle", "load", "reselect", "flush", "commit"}

Goto(p, from, to) ==
    /\ pc[p] = from
    /\ pc' = [pc EXCEPT ![p] = to]

Live(r) == r["deleted"] = NotDeleted

(* Variant: the column takes the status itself.                            *)
DeriveStatus(r) == [r EXCEPT !["is_active"] = r["status"]]

(* User.is_active is computed from the status and the deletion; the user   *)
(* repository stores it in a column of its own.                            *)
Derive(r) ==
    [r EXCEPT !["is_active"] =
        IF r["status"] = "active" /\ Live(r) THEN "yes" ELSE "no"]

(* Variant: a change of status leaves the column to a later update.        *)
CompleteDeleted(t, r) == IF t = "users" /\ ~Live(r) THEN Derive(r) ELSE r

Complete(t, r) == IF t = "users" THEN Derive(r) ELSE r

(* Edits: what a request provides.                                         *)
Blank == [c \in Columns |-> Keep]
Set(c, x) == [Blank EXCEPT ![c] = x]
Some(c, d) == {[Blank EXCEPT ![c] = x, ![d] = y] :
                  x \in Domain(c) \cup {Keep}, y \in Domain(d) \cup {Keep}}

Profiles  == {Set("full_name", x) : x \in Data} \cup {Blank}
Statuses  == {Set("status", x) : x \in Domain("status")}
Deletions == {Set("deleted", p) : p \in Procs}
Renames   == Some("name", "is_active")
Bookings  == Some("amount", "category_id")
Edits     == Profiles \cup Statuses \cup Deletions \cup Renames \cup Bookings

Init ==
    /\ table \in Tables
    /\ \E x \in Data :
          row = [c \in Columns |-> CASE c = "status"    -> "active"
                                     [] c = "is_active" -> "yes"
                                     [] c = "deleted"   -> NotDeleted
                                     [] OTHER           -> x]
    /\ lock    = Unlocked
    /\ pc      = [p \in Procs |-> "idle"]
    /\ wanted  = [p \in Procs |-> Blank]
    /\ loaded  = [p \in Procs |-> Blank]
    /\ seen    = [p \in Procs |-> Blank]
    /\ changed = [p \in Procs |-> {}]

-----------------------------------------------------------------------------
(* The requests.                                                           *)

Begin(p, t, edit) ==
    /\ table = t
    /\ Goto(p, "idle", "load")
    /\ wanted' = [wanted EXCEPT ![p] = edit]
    /\ UNCHANGED <<table, row, lock, loaded, seen, changed>>

BeginUpdateUser(p)     == \E e \in Profiles : Begin(p, "users", e)
BeginChangeStatus(p)   == \E e \in Statuses : Begin(p, "users", e)
BeginUpdateRole(p)     == \E e \in Renames : Begin(p, "roles", e)
BeginUpdateCategory(p) == \E e \in Renames : Begin(p, "categories", e)
BeginUpdateRecord(p)   == \E e \in Bookings : Begin(p, "records", e)

BeginDeleteUser(p)     == Begin(p, "users", Set("deleted", p))
BeginDeleteRole(p)     == Begin(p, "roles", Set("deleted", p))
BeginDeleteCategory(p) == Begin(p, "categories", Set("deleted", p))
BeginDeleteRecord(p)   == Begin(p, "records", Set("deleted", p))

Ended(p) ==
    /\ pc' = [pc EXCEPT ![p] = "idle"]
    /\ wanted' = [wanted EXCEPT ![p] = Blank]
    /\ loaded' = [loaded EXCEPT ![p] = Blank]
    /\ seen' = [seen EXCEPT ![p] = Blank]
    /\ lock' = IF lock = p THEN Unlocked ELSE lock
    /\ UNCHANGED table

(* get_by_id: SELECT ... WHERE is_deleted = false.                         *)
Load(p) ==
    /\ Goto(p, "load", "reselect")
    /\ Live(row)
    /\ loaded' = [loaded EXCEPT ![p] = row]
    /\ changed' = [changed EXCEPT ![p] = {}]
    /\ UNCHANGED <<table, row, lock, wanted, seen>>

NotFound(p) ==
    /\ pc[p] = "load"
    /\ ~Live(row)
    /\ Ended(p)
    /\ changed' = [changed EXCEPT ![p] = {}]
    /\ UNCHANGED row

(* The SELECT of update: the attributes of an instance that is still in    *)
(* the session's weak identity map are not refreshed, others are.          *)
Reselect(p) ==
    /\ Goto(p, "reselect", "flush")
    /\ \E r \in {row, loaded[p]} : seen' = [seen EXCEPT ![p] = r]
    /\ UNCHANGED <<table, row, lock, wanted, loaded, changed>>

(* The entity after the use case has changed it.                           *)
Entity(p) ==
    Complete(table, [c \in Columns |->
        IF wanted[p][c] = Keep THEN loaded[p][c] ELSE wanted[p][c]])

(* Variant: the UPDATE names every column.                                 *)
DirtyAll(p) == Columns

(* The columns of the UPDATE: those whose new value differs from the one   *)
(* the SELECT gave.                                                        *)
Dirty(p) == {c \in Columns : Entity(p)[c] # seen[p][c]}

(* UPDATE, which waits for the row lock; no UPDATE when nothing differs.   *)
Flush(p) ==
    /\ Goto(p, "flush", "commit")
    /\ IF Dirty(p) = {} THEN UNCHANGED lock ELSE lock = Unlocked /\ lock' = p
    /\ UNCHANGED <<table, row, wanted, loaded, seen, changed>>

(* The audit row is flushed and the transaction commits.                   *)
Commit(p) ==
    /\ pc[p] = "commit"
    /\ row' = [c \in Columns |->
                 IF c \in Dirty(p) THEN Entity(p)[c] ELSE row[c]]
    /\ Ended(p)
    /\ changed' = [q \in Procs |->
          IF q = p THEN {}
          ELSE IF pc[q] = "reselect"
               THEN changed[q] \cup {c \in Columns : row'[c] # row[c]}
               ELSE changed[q]]

(* Any exception before COMMIT, or a lost worker: ROLLBACK.                *)
Abort(p) ==
    /\ pc[p] # "idle"
    /\ Ended(p)
    /\ changed' = [changed EXCEPT ![p] = {}]
    /\ UNCHANGED row

BeginAny(p) ==
    \/ BeginUpdateUser(p) \/ BeginChangeStatus(p) \/ BeginDeleteUser(p)
    \/ BeginUpdateRole(p) \/ BeginDeleteRole(p)
    \/ BeginUpdateCategory(p) \/ BeginDeleteCategory(p)
    \/ BeginUpdateRecord(p) \/ BeginDeleteRecord(p)

Next ==
    \E p \in Procs :
        \/ BeginAny(p)
        \/ Load(p) \/ NotFound(p) \/ Reselect(p) \/ Flush(p) \/ Commit(p) \/ Abort(p)

Spec == Init /\ [][Next]_vars

-----------------------------------------------------------------------------
(* Properties.                                                             *)

TypeOK ==
    /\ table   \in Tables
    /\ row     \in Rows
    /\ lock    \in Procs \cup {Unlocked}
    /\ pc      \in [Procs -> Steps]
    /\ wanted  \in [Procs -> Edits]
    /\ loaded  \in [Procs -> Rows \cup {Blank}]
    /\ seen    \in [Procs -> Rows \cup {Blank}]
    /\ changed \in [Procs -> SUBSET Columns]

Provided(p) == {c \in Columns : wanted[p][c] # Keep}
Stored == {c \in Columns : table # "users" \/ c # "is_active"}

(* A COMMIT can put an old value back into a column its request did not    *)
(* provide, or bring a deleted row back to life, but only when another     *)
(* request changed that column between the two SELECTs; what commits after *)
(* the second SELECT survives, whatever order the UPDATEs get the lock in  *)
(* (user_repo.py, update).                                                 *)
RevertsOnlyBetweenSelects ==
    [][\A c \in Stored : row'[c] # row[c] =>
          \E p \in Procs : pc[p] = "commit" /\ pc'[p] = "idle"
                             /\ (c \in Provided(p) \/ c \in changed[p])]_vars

(* A live user's is_active column says what the status says: the entity    *)
(* answers by its status, get_active_by_id by the column.                  *)
Agrees(r) == Live(r) => (r["is_active"] = "yes" <=> r["status"] = "active")

AtMostTwo == \A p, q, r \in Procs : p = q \/ q = r \/ p = r

(* Two requests may overlap and undo each other, delete the row or revive  *)
(* it, and the column still agrees with the status.  With three it need    *)
(* not: two that have reselected the deleted row can revive it in turns    *)
(* (user_repo.py, update: m.is_active = user.is_active).                   *)
StatusFlagAgrees == AtMostTwo /\ table = "users" => Agrees(row)

(* However many there are, the column and the status part only in the      *)
(* COMMIT of a request whose second SELECT had given a deleted row, or one *)
(* in which they had parted before.                                        *)
FlagPartsOnRevival ==
    [][table = "users" /\ Agrees(row) /\ ~Agrees(row') =>
          \E p \in Procs : /\ pc[p] = "commit" /\ pc'[p] = "idle"
                           /\ ~Live(seen[p]) \/ ~Agrees(seen[p])]_vars

(* With one request at a time every use case changes the columns it was    *)
(* given and no others, and never a deleted row.                           *)
Promise == INSTANCE AtomicRow
ImplementsAtomicRow == Promise!Spec
=============================================================================
