--------------------------- MODULE MCLoginThrottle ---------------------------
(* Instances of LoginThrottle for TLC.                                     *)
EXTENDS LoginThrottle, TLC

CONSTANTS r1, r2, r3

ThreeCalm == [faults |-> {}, slots |-> {r1, r2, r3}]
TwoFaulty == [faults |-> {"redis", "abort"}, slots |-> {r1, r2}]
OneCalm   == [faults |-> {}, slots |-> {r1}]

RunSettings   == {ThreeCalm, TwoFaulty}
AuditSettings == {OneCalm}
=============================================================================
