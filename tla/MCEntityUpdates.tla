--------------------------- MODULE MCEntityUpdates ---------------------------
(* Instances of EntityUpdates for TLC.                                     *)
EXTENDS EntityUpdates, TLC

CONSTANTS r1, r2, r3, x, y

(* Requests are interchangeable, and so are the data.                      *)
Symmetric == Permutations(Procs) \cup Permutations(Data)
=============================================================================
