------------------------------ MODULE AtomicRow ------------------------------
(***************************************************************************)
(* What the use cases that update or delete an entity promise, free of     *)
(* sessions and transactions: a row changes only while it is not deleted,  *)
(* and then exactly in the columns that one request provides.              *)
(***************************************************************************)
CONSTANTS
    Columns,
    Edits,           \* the functions from columns to values a request may ask for
    Keep,            \* marks a column the request leaves alone
    Complete(_, _),  \* a table's row with its derived columns recomputed
    Live(_)          \* the row is not deleted

VARIABLES table, row

vars == <<table, row>>

Change(edit) ==
    /\ Live(row)
    /\ row' = Complete(table, [c \in Columns |->
                               IF edit[c] = Keep THEN row[c] ELSE edit[c]])
    /\ UNCHANGED table

Next == \E edit \in Edits : Change(edit)

Spec == Live(row) /\ [][Next]_vars
=============================================================================
