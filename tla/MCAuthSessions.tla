--------------------------- MODULE MCAuthSessions ---------------------------
(* Instances of AuthSessions for TLC.                                      *)
EXTENDS AuthSessions, TLC

CONSTANTS alice, bob, t1, t2, t3, t4, r1, r2

Symmetric == Permutations(Tokens) \cup Permutations(Procs) \cup Permutations(Users)
=============================================================================
