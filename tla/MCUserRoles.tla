----------------------------- MODULE MCUserRoles -----------------------------
(* Instances of UserRoles for TLC.                                         *)
EXTENDS UserRoles, TLC

CONSTANTS u1, u2, viewer, ra, rb, r1, r2, r3

(* Requests, users and the roles that are not system roles are             *)
(* interchangeable.                                                        *)
Symmetric ==
    Permutations(Procs) \cup Permutations(Users) \cup Permutations(Roles \ System)
=============================================================================
