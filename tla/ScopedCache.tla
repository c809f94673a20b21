----------------------------- MODULE ScopedCache ----------------------------
(***************************************************************************)
(* What the dashboard cache promises its callers, free of requests, Redis  *)
(* commands and transactions: a scope's records move to a new version, and *)
(* the names of the categories to new names, in one step; a key holds      *)
(* nothing, or an aggregate of a version and names that were reached; and  *)
(* entries go at any time.  While `exact' holds, only the current          *)
(* aggregate is ever stored, and records move on only when no key of their *)
(* scopes holds anything.  Names move on without asking: the keys of Named *)
(* then hold the old ones until they are dropped.                          *)
(***************************************************************************)
EXTENDS Naturals

CONSTANTS Users, Global, Keys, Named, Absent

VARIABLES
    exact,    \* whether records are promised to be current, fixed
    version,  \* [Scopes -> Nat] the committed version of each scope's records
    names,    \* the committed version of the names of the categories
    data      \* [Keys -> aggregate or Absent] what a key holds

vars == <<exact, version, names, data>>

Scopes == Users \cup {Global}
Of(o)  == {k \in Keys : k[2] \in {o, Global}}
Held   == {k \in Keys : data[k] # Absent}

Names(k)   == IF k \in Named THEN names ELSE 0
Current(k) == [records |-> version[k[2]], names |-> Names(k)]
Reached(k) == [records : 0 .. version[k[2]], names : 0 .. Names(k)]

Init ==
    /\ exact \in BOOLEAN
    /\ version = [s \in Scopes |-> 0]
    /\ names = 0
    /\ data = [k \in Keys |-> Absent]

Store(k) ==
    /\ data'[k] \in Reached(k)
    /\ exact => data'[k] = Current(k)
    /\ data' = [data EXCEPT ![k] = data'[k]]
    /\ UNCHANGED <<exact, version, names>>

Drop ==
    /\ data' = [k \in Keys |-> data'[k]]
    /\ \A k \in Keys : data'[k] \in {data[k], Absent}
    /\ UNCHANGED <<exact, version, names>>

Write(o) ==
    /\ exact => Of(o) \cap Held = {}
    /\ version' = [s \in Scopes |->
                      version[s] + IF s \in {o, Global} THEN 1 ELSE 0]
    /\ UNCHANGED <<exact, names, data>>

Rename ==
    /\ names' = names + 1
    /\ UNCHANGED <<exact, version, data>>

Next ==
    \/ \E k \in Keys : Store(k)
    \/ Drop
    \/ \E o \in Users : Write(o)
    \/ Rename

Spec == Init /\ [][Next]_vars
=============================================================================
