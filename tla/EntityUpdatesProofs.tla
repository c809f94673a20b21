------------------------- MODULE EntityUpdatesProofs -------------------------
(***************************************************************************)
(* Theorems about EntityUpdates, for any tables, requests and data.        *)
(***************************************************************************)
EXTENDS EntityUpdates, TLAPS

(* A request past a SELECT has in hand the row which that SELECT gave.     *)
InHandOK ==
    \A p \in Procs :
        /\ pc[p] \in {"reselect", "flush", "commit"} => loaded[p] \in Rows
        /\ pc[p] \in {"flush", "commit"} => seen[p] \in Rows

TypeInv == TypeOK /\ InHandOK

-----------------------------------------------------------------------------
(* Rows and edits.                                                         *)

LEMMA DomainsInValues == \A c \in Columns : Domain(c) \subseteq Values
  BY DEF Values

LEMMA EditsTyped ==
  \A e \in Edits : /\ e \in [Columns -> Values \cup {Keep}]
                   /\ \A c \in Columns : e[c] = Keep \/ e[c] \in Domain(c)
<1> SUFFICES ASSUME NEW e \in Edits
             PROVE  /\ e \in [Columns -> Values \cup {Keep}]
                    /\ \A c \in Columns : e[c] = Keep \/ e[c] \in Domain(c)
  OBVIOUS
<1>1. ASSUME NEW c \in Columns, NEW d \in Columns,
             NEW x \in Domain(c) \cup {Keep}, NEW y \in Domain(d) \cup {Keep},
             e = [Blank EXCEPT ![c] = x, ![d] = y]
      PROVE  /\ e \in [Columns -> Values \cup {Keep}]
             /\ \A k \in Columns : e[k] = Keep \/ e[k] \in Domain(k)
  <2>1. Blank \in [Columns -> Values \cup {Keep}] /\ \A k \in Columns : Blank[k] = Keep
    BY DEF Blank
  <2>2. x \in Values \cup {Keep} /\ y \in Values \cup {Keep}
    BY DomainsInValues
  <2>3. e \in [Columns -> Values \cup {Keep}]
    BY <1>1, <2>1, <2>2
  <2>4. \A k \in Columns : e[k] = IF k = d THEN y ELSE IF k = c THEN x ELSE Keep
    BY <1>1, <2>1
  <2> QED
    BY <2>3, <2>4
<1>2. ASSUME NEW c \in Columns, NEW x \in Domain(c) \cup {Keep}, e = Set(c, x)
      PROVE  /\ e \in [Columns -> Values \cup {Keep}]
             /\ \A k \in Columns : e[k] = Keep \/ e[k] \in Domain(k)
  <2>1. e = [Blank EXCEPT ![c] = x, ![c] = x]
    BY <1>2 DEF Set, Blank
  <2> QED
    BY <1>1, <2>1
<1>3. {"full_name", "status", "deleted", "name", "is_active", "amount", "category_id"}
        \subseteq Columns
  BY DEF Columns
<1>4. Data = Domain("full_name") /\ Procs \subseteq Domain("deleted")
  BY DEF Domain
<1>5. CASE e \in Profiles
  <2>1. CASE e = Blank
    BY <2>1 DEF Blank
  <2>2. CASE \E x \in Data : e = Set("full_name", x)
    BY <2>2, <1>2, <1>3, <1>4
  <2> QED
    BY <1>5, <2>1, <2>2 DEF Profiles
<1>6. CASE e \in Statuses
  BY <1>6, <1>2, <1>3 DEF Statuses
<1>7. CASE e \in Deletions
  BY <1>7, <1>2, <1>3, <1>4 DEF Deletions
<1>8. CASE e \in Renames
  BY <1>8, <1>1, <1>3 DEF Renames, Some
<1>9. CASE e \in Bookings
  BY <1>9, <1>1, <1>3 DEF Bookings, Some
<1> QED
  BY <1>5, <1>6, <1>7, <1>8, <1>9 DEF Edits

(* Recomputing the derived column leaves a row, and its other columns.     *)
LEMMA CompleteFacts ==
  ASSUME NEW t, NEW r \in Rows
  PROVE  /\ Complete(t, r) \in Rows
         /\ \A c \in Columns : t # "users" \/ c # "is_active" => Complete(t, r)[c] = r[c]
<1> DEFINE v == IF r["status"] = "active" /\ Live(r) THEN "yes" ELSE "no"
<1>1. r \in [Columns -> Values] /\ \A c \in Columns : r[c] \in Domain(c)
  BY DEF Rows
<1>2. Domain("is_active") = {"yes", "no"} /\ "is_active" \in Columns
  BY DEF Domain, Columns
<1>3. v \in Domain("is_active") /\ v \in Values
  BY <1>2, DomainsInValues
<1>4. Derive(r) = [r EXCEPT !["is_active"] = v]
  BY DEF Derive
<1> HIDE DEF v
<1>5. /\ Derive(r) \in [Columns -> Values]
      /\ \A c \in Columns : Derive(r)[c] = IF c = "is_active" THEN v ELSE r[c]
  BY <1>1, <1>2, <1>3, <1>4
<1>6. Derive(r) \in Rows
  BY <1>1, <1>3, <1>5 DEF Rows
<1> QED
  BY <1>5, <1>6 DEF Complete

(* The entity handed to update is a row; a column the request does not     *)
(* provide has the value it had when the use case loaded it.               *)
LEMMA EntityFacts ==
  ASSUME TypeInv, NEW p \in Procs, loaded[p] \in Rows
  PROVE  /\ Entity(p) \in Rows
         /\ \A c \in Stored : c \notin Provided(p) => Entity(p)[c] = loaded[p][c]
<1> DEFINE r == [c \in Columns |-> IF wanted[p][c] = Keep THEN loaded[p][c] ELSE wanted[p][c]]
<1>1. /\ wanted[p] \in [Columns -> Values \cup {Keep}]
      /\ \A c \in Columns : wanted[p][c] = Keep \/ wanted[p][c] \in Domain(c)
  BY EditsTyped DEF TypeInv, TypeOK
<1>2. \A c \in Columns : loaded[p][c] \in Domain(c)
  BY DEF Rows
<1>3. \A c \in Columns : r[c] \in Domain(c) /\ r[c] \in Values
  BY <1>1, <1>2, DomainsInValues
<1>4. r \in Rows
  BY <1>3 DEF Rows
<1>5. Entity(p) = Complete(table, r)
  BY DEF Entity
<1>6. \A c \in Columns : c \notin Provided(p) => r[c] = loaded[p][c]
  BY DEF Provided
<1> HIDE DEF r
<1> QED
  BY <1>4, <1>5, <1>6, CompleteFacts DEF Stored

-----------------------------------------------------------------------------
(* Type correctness.                                                       *)

LEMMA InitTypeInv == Init => TypeInv
<1> SUFFICES ASSUME Init PROVE TypeInv
  OBVIOUS
<1>1. PICK x \in Data :
        row = [c \in Columns |-> CASE c = "status"    -> "active"
                                  [] c = "is_active" -> "yes"
                                  [] c = "deleted"   -> NotDeleted
                                  [] OTHER           -> x]
  BY DEF Init
<1>2. \A c \in Columns : row[c] \in Domain(c)
  BY <1>1 DEF Domain
<1>3. row \in [Columns -> Values]
  BY <1>1, <1>2, DomainsInValues
<1>4. row \in Rows
  BY <1>2, <1>3 DEF Rows
<1>5. Blank \in Edits
  BY DEF Edits, Profiles
<1> QED
  BY <1>4, <1>5 DEF Init, TypeInv, TypeOK, InHandOK, Steps

LEMMA NextTypeInv == TypeInv /\ [Next]_vars => TypeInv'
<1> SUFFICES ASSUME TypeInv, [Next]_vars PROVE TypeInv'
  OBVIOUS
<1> USE DEF TypeInv, TypeOK, InHandOK
<1>1. Blank \in Edits
  BY DEF Edits, Profiles
(* The end of a request, which leaves the others and the table alone.      *)
<1>2. ASSUME NEW p \in Procs, Ended(p), row' \in Rows, changed' \in [Procs -> SUBSET Columns]
      PROVE  TypeInv'
  BY <1>1, <1>2 DEF Ended, Steps
<1>3. ASSUME NEW p \in Procs, NEW t, NEW e \in Edits, Begin(p, t, e) PROVE TypeInv'
  BY <1>3 DEF Begin, Goto, Steps
<1>4. ASSUME NEW p \in Procs, BeginAny(p) PROVE TypeInv'
  <2>1. \E t \in {"users", "roles", "categories", "records"}, e \in Edits : Begin(p, t, e)
    BY <1>4 DEF BeginAny, BeginUpdateUser, BeginChangeStatus, BeginDeleteUser,
                BeginUpdateRole, BeginDeleteRole, BeginUpdateCategory,
                BeginDeleteCategory, BeginUpdateRecord, BeginDeleteRecord,
                Edits, Deletions
  <2> QED
    BY <1>3, <2>1
<1>5. ASSUME NEW p \in Procs, Load(p) PROVE TypeInv'
  BY <1>5 DEF Load, Goto, Steps
<1>6. ASSUME NEW p \in Procs, NotFound(p) PROVE TypeInv'
  BY <1>6, <1>2 DEF NotFound
<1>7. ASSUME NEW p \in Procs, Reselect(p) PROVE TypeInv'
  BY <1>7 DEF Reselect, Goto, Steps
<1>8. ASSUME NEW p \in Procs, Flush(p) PROVE TypeInv'
  BY <1>8 DEF Flush, Goto, Steps
<1>9. ASSUME NEW p \in Procs, Commit(p) PROVE TypeInv'
  <2>1. Entity(p) \in Rows
    BY <1>9, EntityFacts DEF Commit
  <2>2. row' \in Rows
    BY <1>9, <2>1 DEF Commit, Rows
  <2>3. changed' \in [Procs -> SUBSET Columns]
    BY <1>9 DEF Commit
  <2> QED
    BY <1>9, <1>2, <2>2, <2>3 DEF Commit
<1>10. ASSUME NEW p \in Procs, Abort(p) PROVE TypeInv'
  BY <1>10, <1>2 DEF Abort
<1>11. ASSUME UNCHANGED vars PROVE TypeInv'
  BY <1>11 DEF vars
<1> QED
  BY <1>4, <1>5, <1>6, <1>7, <1>8, <1>9, <1>10, <1>11 DEF Next

(* Every column keeps a value of its domain, and every request carries one *)
(* of the edits the use cases accept.                                      *)
THEOREM TypeCorrect == Spec => []TypeOK
<1>1. TypeInv => TypeOK
  BY DEF TypeInv
<1> QED
  BY <1>1, InitTypeInv, NextTypeInv, PTL DEF Spec

-----------------------------------------------------------------------------
(* What a COMMIT can put back.                                             *)

(* Between the SELECTs, changed holds every column that has moved since    *)
(* the load; after them, every column in which the second SELECT differed. *)
WindowInv ==
    \A p \in Procs :
        /\ pc[p] = "reselect" =>
              \A c \in Columns : row[c] # loaded[p][c] => c \in changed[p]
        /\ pc[p] \in {"flush", "commit"} =>
              \A c \in Columns : seen[p][c] # loaded[p][c] => c \in changed[p]

LEMMA NextWindow == TypeInv /\ WindowInv /\ [Next]_vars => WindowInv'
<1> SUFFICES ASSUME TypeInv, WindowInv, [Next]_vars PROVE WindowInv'
  OBVIOUS
<1> USE DEF WindowInv
<1>1. /\ pc \in [Procs -> Steps] /\ loaded \in [Procs -> Rows \cup {Blank}]
      /\ seen \in [Procs -> Rows \cup {Blank}] /\ changed \in [Procs -> SUBSET Columns]
  BY DEF TypeInv, TypeOK
<1>2. ASSUME NEW p \in Procs, BeginAny(p) PROVE WindowInv'
  <2>1. /\ pc' = [pc EXCEPT ![p] = "load"]
        /\ UNCHANGED <<row, loaded, seen, changed>>
    BY <1>2 DEF BeginAny, BeginUpdateUser, BeginChangeStatus, BeginDeleteUser,
                BeginUpdateRole, BeginDeleteRole, BeginUpdateCategory,
                BeginDeleteCategory, BeginUpdateRecord, BeginDeleteRecord,
                Begin, Goto
  <2> QED
    BY <1>1, <2>1
<1>3. ASSUME NEW p \in Procs, Load(p) PROVE WindowInv'
  BY <1>1, <1>3 DEF Load, Goto
<1>4. ASSUME NEW p \in Procs, NotFound(p) \/ Abort(p) PROVE WindowInv'
  BY <1>1, <1>4 DEF NotFound, Abort, Ended
<1>5. ASSUME NEW p \in Procs, Reselect(p) PROVE WindowInv'
  BY <1>1, <1>5 DEF Reselect, Goto
<1>6. ASSUME NEW p \in Procs, Flush(p) PROVE WindowInv'
  BY <1>1, <1>6 DEF Flush, Goto
<1>7. ASSUME NEW p \in Procs, Commit(p) PROVE WindowInv'
  <2> SUFFICES ASSUME NEW q \in Procs
               PROVE  /\ pc'[q] = "reselect" =>
                           \A c \in Columns : row'[c] # loaded'[q][c] => c \in changed'[q]
                      /\ pc'[q] \in {"flush", "commit"} =>
                           \A c \in Columns : seen'[q][c] # loaded'[q][c] => c \in changed'[q]
    OBVIOUS
  <2>1. CASE q = p
    BY <1>1, <1>7, <2>1 DEF Commit, Ended
  <2>2. CASE q # p
    <3>1. pc'[q] = pc[q] /\ loaded'[q] = loaded[q] /\ seen'[q] = seen[q]
      BY <1>1, <1>7, <2>2 DEF Commit, Ended
    <3>2. changed'[q] = IF pc[q] = "reselect"
                        THEN changed[q] \cup {c \in Columns : row'[c] # row[c]}
                        ELSE changed[q]
      BY <1>7, <2>2 DEF Commit
    <3> QED
      BY <3>1, <3>2
  <2> QED
    BY <2>1, <2>2
<1>8. ASSUME UNCHANGED vars PROVE WindowInv'
  BY <1>8 DEF vars
<1> QED
  BY <1>2, <1>3, <1>4, <1>5, <1>6, <1>7, <1>8 DEF Next

(* A COMMIT changes the columns its request provides and those another     *)
(* request changed between the two SELECTs, and no other.                  *)
THEOREM RevertsBounded == Spec => RevertsOnlyBetweenSelects
<1> DEFINE A == \A c \in Stored : row'[c] # row[c] =>
                  \E p \in Procs : pc[p] = "commit" /\ pc'[p] = "idle"
                                     /\ (c \in Provided(p) \/ c \in changed[p])
<1>1. Init => WindowInv
  BY DEF Init, WindowInv
<1>2. TypeInv /\ WindowInv /\ [Next]_vars => [A]_vars
  <2> SUFFICES ASSUME TypeInv, WindowInv, Next PROVE A
    OBVIOUS
  <2> SUFFICES ASSUME NEW c \in Stored, row'[c] # row[c]
               PROVE  \E p \in Procs : pc[p] = "commit" /\ pc'[p] = "idle"
                                     /\ (c \in Provided(p) \/ c \in changed[p])
    OBVIOUS
  <2>1. PICK p \in Procs : Commit(p)
    BY DEF Next, BeginAny, BeginUpdateUser, BeginChangeStatus, BeginDeleteUser,
           BeginUpdateRole, BeginDeleteRole, BeginUpdateCategory,
           BeginDeleteCategory, BeginUpdateRecord, BeginDeleteRecord, Begin,
           Load, NotFound, Reselect, Flush, Abort
  <2>2. pc[p] = "commit" /\ pc'[p] = "idle"
    BY <2>1 DEF Commit, Ended, TypeInv, TypeOK
  <2>3. c \in Columns /\ c \in Dirty(p)
    BY <2>1 DEF Commit, Stored
  <2>4. Entity(p)[c] # seen[p][c]
    BY <2>3 DEF Dirty
  <2>5. CASE c \notin Provided(p)
    <3>1. Entity(p)[c] = loaded[p][c]
      BY <2>2, <2>5, EntityFacts DEF TypeInv, InHandOK
    <3>2. c \in changed[p]
      BY <2>2, <2>3, <2>4, <3>1 DEF WindowInv
    <3> QED
      BY <2>2, <3>2
  <2> QED
    BY <2>2, <2>5
<1> QED
  BY <1>1, <1>2, InitTypeInv, NextTypeInv, NextWindow, PTL
     DEF Spec, RevertsOnlyBetweenSelects

-----------------------------------------------------------------------------
(* One request at a time.                                                  *)

(* Alone, a request has the committed row in hand, and that row is live.   *)
AloneInv ==
    \A p \in Procs :
        /\ pc[p] \in {"reselect", "flush", "commit"} => loaded[p] = row /\ Live(row)
        /\ pc[p] \in {"flush", "commit"} => seen[p] = row

(* When only one request runs at a time, every step is an edit of a live   *)
(* row, of all the columns given and no others, or leaves the row alone.   *)
THEOREM AloneIsAtomic ==
  ASSUME NEW r, Procs = {r} PROVE Spec => ImplementsAtomicRow
<1>1. Init => AloneInv /\ Live(row)
  <2> SUFFICES ASSUME Init PROVE AloneInv /\ Live(row)
    OBVIOUS
  <2>1. row["deleted"] = NotDeleted
    BY DEF Init, Columns
  <2> QED
    BY <2>1 DEF Init, AloneInv, Live
<1>2. TypeInv /\ AloneInv /\ [Next]_vars => AloneInv' /\ [Promise!Next]_(Promise!vars)
  <2> SUFFICES ASSUME TypeInv, AloneInv, [Next]_vars
               PROVE  AloneInv' /\ [Promise!Next]_(Promise!vars)
    OBVIOUS
  <2>t. /\ r \in Procs /\ \A p \in Procs : p = r
        /\ pc \in [Procs -> Steps]
        /\ loaded \in [Procs -> Rows \cup {Blank}] /\ seen \in [Procs -> Rows \cup {Blank}]
    BY DEF TypeInv, TypeOK
  <2> USE <2>t DEF AloneInv, Goto, Promise!vars
  <2>1. CASE BeginAny(r)
    <3>1. /\ pc' = [pc EXCEPT ![r] = "load"]
          /\ UNCHANGED <<table, row, loaded, seen>>
      BY <2>1 DEF BeginAny, BeginUpdateUser, BeginChangeStatus, BeginDeleteUser,
                  BeginUpdateRole, BeginDeleteRole, BeginUpdateCategory,
                  BeginDeleteCategory, BeginUpdateRecord, BeginDeleteRecord, Begin
    <3> QED
      BY <3>1
  <2>2. CASE Load(r)
    BY <2>2 DEF Load
  <2>3. CASE NotFound(r) \/ Abort(r)
    BY <2>3 DEF NotFound, Abort, Ended
  <2>4. CASE Reselect(r)
    BY <2>4 DEF Reselect
  <2>5. CASE Flush(r)
    BY <2>5 DEF Flush
  <2>6. CASE Commit(r)
    <3>1. /\ pc[r] = "commit" /\ loaded[r] = row /\ seen[r] = row /\ Live(row)
          /\ wanted[r] \in Edits /\ row \in Rows
      BY <2>6 DEF Commit, TypeInv, TypeOK
    <3>2. Entity(r) \in Rows
      BY <3>1, EntityFacts
    <3>3. row' = Entity(r)
      <4>1. \A c \in Columns : row'[c] = Entity(r)[c]
        BY <2>6, <3>1 DEF Commit, Dirty
      <4>2. Entity(r) = [c \in Columns |-> Entity(r)[c]]
        BY <3>2 DEF Rows
      <4>3. row' = [c \in Columns |-> row'[c]]
        BY <2>6 DEF Commit
      <4> QED
        BY <4>1, <4>2, <4>3
    <3>4. row' = Complete(table, [c \in Columns |->
                     IF wanted[r][c] = Keep THEN row[c] ELSE wanted[r][c]])
      BY <3>1, <3>3 DEF Entity
    <3>5. table' = table /\ AloneInv'
      BY <2>6 DEF Commit, Ended
    <3>6. Promise!Change(wanted[r])
      BY <3>1, <3>4, <3>5 DEF Promise!Change
    <3> QED
      BY <3>1, <3>5, <3>6 DEF Promise!Next
  <2>7. CASE UNCHANGED vars
    BY <2>7 DEF vars
  <2> QED
    BY <2>1, <2>2, <2>3, <2>4, <2>5, <2>6, <2>7 DEF Next
<1> QED
  BY <1>1, <1>2, InitTypeInv, NextTypeInv, PTL
     DEF Spec, ImplementsAtomicRow, Promise!Spec

-----------------------------------------------------------------------------
(* The column is_active of a user.                                         *)

LEMMA RowFlags ==
  ASSUME NEW r \in Rows
  PROVE  /\ r["is_active"] \in {"yes", "no"} /\ r["status"] \in {"active", "inactive"}
         /\ {"is_active", "status", "deleted"} \subseteq Columns
BY DEF Rows, Columns, Domain

(* The entity handed to update always agrees with itself.                  *)
LEMMA EntityAgrees ==
  ASSUME TypeInv, NEW p \in Procs, loaded[p] \in Rows, table = "users"
  PROVE  Entity(p) \in Rows /\ Agrees(Entity(p))
<1> DEFINE r == [c \in Columns |-> IF wanted[p][c] = Keep THEN loaded[p][c] ELSE wanted[p][c]]
<1>1. /\ r \in [Columns -> Values \cup {r[c] : c \in Columns}]
      /\ {"is_active", "status", "deleted"} \subseteq Columns
  BY DEF Columns
<1>2. Entity(p) = Derive(r)
  BY DEF Entity, Complete
<1> HIDE DEF r
<1>3. /\ Derive(r)["status"] = r["status"] /\ Derive(r)["deleted"] = r["deleted"]
      /\ Derive(r)["is_active"] = IF r["status"] = "active" /\ Live(r) THEN "yes" ELSE "no"
  BY <1>1 DEF Derive
<1>4. Agrees(Entity(p))
  BY <1>2, <1>3 DEF Agrees, Live
<1>5. QED
  BY <1>4, EntityFacts

(* A COMMIT whose second SELECT gave a live row that agreed keeps a row    *)
(* that agrees so: unless it deletes the row, it writes both columns or    *)
(* neither.                                                                *)
LEMMA CommitAgrees ==
  ASSUME TypeInv, NEW p \in Procs, Commit(p), table = "users",
         Live(seen[p]), Agrees(seen[p]), Agrees(row)
  PROVE  Agrees(row')
<1>1. loaded[p] \in Rows /\ seen[p] \in Rows /\ row \in Rows
  BY DEF TypeInv, TypeOK, InHandOK, Commit
<1>2. PICK e \in Rows : e = Entity(p)
  BY <1>1, EntityAgrees
<1>3. Agrees(e)
  BY <1>1, <1>2, EntityAgrees
<1>4. \A c \in Columns : row'[c] = IF e[c] # seen[p][c] THEN e[c] ELSE row[c]
  BY <1>2 DEF Commit, Dirty
<1>5. SUFFICES ASSUME Live(row')
               PROVE  row'["is_active"] = "yes" <=> row'["status"] = "active"
  BY DEF Agrees
<1>6. Live(e) /\ Live(row)
  BY <1>1, <1>4, <1>5, RowFlags DEF Live
<1>7. QED
  BY <1>1, <1>3, <1>4, <1>6, RowFlags DEF Agrees

(* Only a COMMIT changes the row or the table.                             *)
LEMMA RowSteps ==
  ASSUME TypeInv, [Next]_vars
  PROVE  /\ table' = table
         /\ row' = row \/ \E p \in Procs : Commit(p)
BY DEF Next, BeginAny, BeginUpdateUser, BeginChangeStatus, BeginDeleteUser,
       BeginUpdateRole, BeginDeleteRole, BeginUpdateCategory,
       BeginDeleteCategory, BeginUpdateRecord, BeginDeleteRecord, Begin,
       Load, NotFound, Reselect, Flush, Commit, Abort, Ended, vars

(* For any number of requests, the column parts from the status only when  *)
(* a deleted row, or one whose column had parted already, is written back. *)
THEOREM FlagParts == Spec => FlagPartsOnRevival
<1> DEFINE A == table = "users" /\ Agrees(row) /\ ~Agrees(row') =>
                  \E p \in Procs : /\ pc[p] = "commit" /\ pc'[p] = "idle"
                                   /\ ~Live(seen[p]) \/ ~Agrees(seen[p])
<1>1. TypeInv /\ [Next]_vars => [A]_vars
  <2> SUFFICES ASSUME TypeInv, [Next]_vars, table = "users", Agrees(row), ~Agrees(row')
               PROVE  \E p \in Procs : /\ pc[p] = "commit" /\ pc'[p] = "idle"
                                       /\ ~Live(seen[p]) \/ ~Agrees(seen[p])
    OBVIOUS
  <2>1. row' # row
    OBVIOUS
  <2>2. PICK p \in Procs : Commit(p)
    BY <2>1, RowSteps
  <2>3. pc[p] = "commit" /\ pc'[p] = "idle"
    BY <2>2 DEF Commit, Ended, TypeInv, TypeOK
  <2>4. ~Live(seen[p]) \/ ~Agrees(seen[p])
    BY <2>2, CommitAgrees
  <2>5. QED
    BY <2>3, <2>4
<1>2. QED
  BY <1>1, InitTypeInv, NextTypeInv, PTL DEF Spec, FlagPartsOnRevival

(* Two requests: the one that finds the row deleted is alone with it until *)
(* it has committed, because the other has committed the deletion and      *)
(* cannot load the row again.                                              *)
RevivalInv ==
    AtMostTwo /\ table = "users" =>
        /\ Agrees(row)
        /\ \A p \in Procs :
              /\ pc[p] \in {"reselect", "flush", "commit"} => Agrees(loaded[p]) /\ Live(loaded[p])
              /\ pc[p] \in {"flush", "commit"} =>
                    Agrees(seen[p]) /\ (Live(seen[p]) \/ row = seen[p])
              /\ pc[p] \in {"reselect", "flush", "commit"} /\ ~Live(row) =>
                    \A q \in Procs : q = p \/ pc[q] \in {"idle", "load"}

LEMMA NextRevival == TypeInv /\ RevivalInv /\ [Next]_vars => RevivalInv'
<1> SUFFICES ASSUME TypeInv, RevivalInv, [Next]_vars, AtMostTwo, table = "users",
                    table' = table
             PROVE  RevivalInv'
  BY RowSteps DEF RevivalInv, AtMostTwo
<1>t. /\ pc \in [Procs -> Steps] /\ loaded \in [Procs -> Rows \cup {Blank}]
      /\ seen \in [Procs -> Rows \cup {Blank}]
  BY DEF TypeInv, TypeOK
<1>i. /\ Agrees(row)
      /\ \A p \in Procs :
            /\ pc[p] \in {"reselect", "flush", "commit"} => Agrees(loaded[p]) /\ Live(loaded[p])
            /\ pc[p] \in {"flush", "commit"} =>
                  Agrees(seen[p]) /\ (Live(seen[p]) \/ row = seen[p])
            /\ pc[p] \in {"reselect", "flush", "commit"} /\ ~Live(row) =>
                  \A q \in Procs : q = p \/ pc[q] \in {"idle", "load"}
  BY DEF RevivalInv
<1> USE <1>t, <1>i DEF RevivalInv
<1>1. ASSUME NEW p \in Procs, BeginAny(p) PROVE RevivalInv'
  <2>1. /\ pc' = [pc EXCEPT ![p] = "load"] /\ pc[p] = "idle"
        /\ UNCHANGED <<row, loaded, seen>>
    BY <1>1 DEF BeginAny, BeginUpdateUser, BeginChangeStatus, BeginDeleteUser,
                BeginUpdateRole, BeginDeleteRole, BeginUpdateCategory,
                BeginDeleteCategory, BeginUpdateRecord, BeginDeleteRecord,
                Begin, Goto
  <2>2. QED
    BY <2>1
<1>2. ASSUME NEW p \in Procs, Load(p) PROVE RevivalInv'
  BY <1>2 DEF Load, Goto
<1>3. ASSUME NEW p \in Procs, NotFound(p) \/ Abort(p) PROVE RevivalInv'
  BY <1>3 DEF NotFound, Abort, Ended
<1>4. ASSUME NEW p \in Procs, Reselect(p) PROVE RevivalInv'
  BY <1>4 DEF Reselect, Goto
<1>5. ASSUME NEW p \in Procs, Flush(p) PROVE RevivalInv'
  BY <1>5 DEF Flush, Goto
<1>6. ASSUME NEW p \in Procs, Commit(p) PROVE RevivalInv'
  <2>1. /\ pc[p] = "commit" /\ pc' = [pc EXCEPT ![p] = "idle"]
        /\ \A q \in Procs : q # p => loaded'[q] = loaded[q] /\ seen'[q] = seen[q]
    BY <1>6 DEF Commit, Ended
  <2>2. Agrees(row')
    <3>1. CASE Live(seen[p])
      BY <1>6, <2>1, <3>1, CommitAgrees
    <3>2. CASE row = seen[p]
      <4>1. loaded[p] \in Rows
        BY <2>1 DEF TypeInv, InHandOK
      <4>2. PICK e \in Rows : e = Entity(p) /\ Agrees(e)
        BY <4>1, EntityAgrees
      <4>3. \A c \in Columns : row'[c] = e[c]
        BY <1>6, <3>2, <4>2 DEF Commit, Dirty
      <4>4. QED
        BY <4>2, <4>3, RowFlags DEF Agrees, Live
    <3>3. QED
      BY <2>1, <3>1, <3>2
  <2>3. ASSUME NEW q \in Procs, q # p
        PROVE  /\ pc[q] \in {"flush", "commit"} => Live(seen[q]) \/ row' = seen[q]
               /\ pc[q] \in {"reselect", "flush", "commit"} /\ ~Live(row') =>
                     \A r \in Procs : r = q \/ pc'[r] \in {"idle", "load"}
    <3>1. ~Live(row) => pc[q] \in {"idle", "load"}
      BY <2>1, <2>3
    <3>2. \A r \in Procs : r = q \/ r = p
      BY <2>3 DEF AtMostTwo
    <3>3. QED
      BY <2>1, <3>1, <3>2
  <2>4. QED
    BY <2>1, <2>2, <2>3
<1>7. ASSUME UNCHANGED vars PROVE RevivalInv'
  BY <1>7 DEF vars
<1>8. QED
  BY <1>1, <1>2, <1>3, <1>4, <1>5, <1>6, <1>7 DEF Next

(* While at most two requests overlap, is_active says what the status      *)
(* says, whatever they change, delete or revive.                           *)
THEOREM StatusFlag == Spec => []StatusFlagAgrees
<1>1. Init => RevivalInv
  <2> SUFFICES ASSUME Init PROVE RevivalInv
    OBVIOUS
  <2>1. row["status"] = "active" /\ row["is_active"] = "yes"
    BY DEF Init, Columns
  <2>2. QED
    BY <2>1 DEF Init, RevivalInv, Agrees
<1>2. RevivalInv => StatusFlagAgrees
  BY DEF RevivalInv, StatusFlagAgrees
<1>3. QED
  BY <1>1, <1>2, InitTypeInv, NextTypeInv, NextRevival, PTL DEF Spec
=============================================================================
