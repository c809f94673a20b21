-------------------------- MODULE MCConnectionPool --------------------------
(* Three requests on a pool of two.  Either all of them may log in at once  *)
(* and the pool's timeout ends a wait, or only one may and no wait ends.    *)
EXTENDS ConnectionPool

CONSTANTS p1, p2, p3

RunSettings == {[timeouts |-> TRUE, nested |-> {p1, p2, p3}],
                [timeouts |-> FALSE, nested |-> {p1}]}
=============================================================================
