---------------------------- MODULE MCUniqueNames ----------------------------
(* Model values and symmetry for the runs of UniqueNames.                  *)
EXTENDS UniqueNames, TLC

CONSTANTS i1, i2, i3, admin, food, r1, r2

RowLimits == [users |-> 2, roles |-> 2, categories |-> 3]

(* Not the built-in name itself, which only an empty rename sets free.     *)
AskedNames == {n \in Names : n.word # admin}

Symmetric == Permutations(Ids) \cup Permutations(Procs)
=============================================================================
