----------------------------- MODULE TokenLedger -----------------------------
(***************************************************************************)
(* What the refresh_tokens table promises, free of requests, sessions and  *)
(* transactions: a token is issued live, is revoked once and for ever, and *)
(* a successor appears in the very step that leaves its parent revoked.    *)
(* SingleUse adds that only a live token is ever rotated, so the successors *)
(* of a login form a chain of which at most the last is live.              *)
(***************************************************************************)
CONSTANTS Tokens, NoToken, SingleUse

VARIABLES
    row,     \* [Tokens -> {"absent", "live", "revoked"}]
    parent   \* [Tokens -> Tokens or NoToken] the token it was rotated from

vars == <<row, parent>>

Init ==
    /\ row = [t \in Tokens |-> "absent"]
    /\ parent = [t \in Tokens |-> NoToken]

Issue(t) ==
    /\ row[t] = "absent"
    /\ row' = [row EXCEPT ![t] = "live"]
    /\ UNCHANGED parent

Rotate(s, t) ==
    /\ row[s] # "absent"
    /\ SingleUse => row[s] = "live"
    /\ row[t] = "absent"
    /\ row' = [row EXCEPT ![s] = "revoked", ![t] = "live"]
    /\ parent' = [parent EXCEPT ![t] = s]

Revoke(s) ==
    /\ row[s] = "live"
    /\ row' = [row EXCEPT ![s] = "revoked"]
    /\ UNCHANGED parent

Next ==
    \/ \E t \in Tokens : Issue(t) \/ Revoke(t)
    \/ \E s, t \in Tokens : Rotate(s, t)

Spec == Init /\ [][Next]_vars
=============================================================================
