---------------------------- MODULE LoginThrottle ----------------------------
(***************************************************************************)
(* The failed-attempt counter of one e-mail address: concurrent logins     *)
(* that read login_attempts:<e-mail> before they verify the password, and  *)
(* INCR and EXPIRE it, two Redis commands, after a failure.  The audit row *)
(* of a failure is flushed in the transaction that the exception then      *)
(* rolls back.  What a successful login issues is in AuthSessions.         *)
(***************************************************************************)
EXTENDS Naturals, FiniteSets

CONSTANTS
    Procs,        \* logins in flight at once, over all workers
    MaxAttempts,  \* LoginUseCase.MAX_ATTEMPTS
    MaxCount,     \* bound on the attempts that failing GETs let through
    Settings      \* the circumstances of a behaviour that Init chooses from

ASSUME ProcsAssumption == IsFiniteSet(Procs)
ASSUME AttemptsAssumption == MaxAttempts \in Nat \ {0} /\ MaxCount \in Nat

(* faults: which of "redis" (a command fails) and "abort" (a login is      *)
(* lost) happen; slots: the logins that may be in flight.                  *)
ASSUME SettingsAssumption ==
    Settings \subseteq [faults : SUBSET {"redis", "abort"}, slots : SUBSET Procs]

VARIABLES
    setting,  \* the setting of this behaviour, fixed
    count,    \* the value of the Redis key, 0 when it is absent
    ttl,      \* "set" when the key has an expiry, "none" otherwise
    pinned,   \* logins that were in flight when the expiry was last set
    pc,       \* the step each login is about to take
    known,    \* the logins whose user was found and active
    pending,  \* the audit row flushed in each login's transaction
    logged,   \* the kinds of rows committed to audit_logs
    refused,  \* history: some login with bad credentials has been answered
    tries,    \* history: failed verifications since the key was last absent
    lost      \* history: EXPIREs that never took effect since then

keyVars   == <<count, ttl, tries, lost>>
auditVars == <<logged, refused>>
vars == <<setting, keyVars, pinned, pc, known, pending, auditVars>>

Steps  == {"idle", "check", "lookup", "verify", "clear", "grant",
           "incr", "expire", "audit", "raise"}
Passed == {"lookup", "verify", "incr"}
NoRow  == "none"
Rows   == {"AUTH_LOGIN", "AUTH_LOGIN_FAILED"}

Flaky == "redis" \in setting.faults
At(step) == {p \in Procs : pc[p] = step}

(* The logins that may still count one attempt.                            *)
InFlight == {p \in Procs : pc[p] \in Passed}

(* Bound of the history counters, which matter below it only.              *)
Cap == MaxAttempts + Cardinality(Procs)
Tick(n) == IF n < Cap THEN n + 1 ELSE n

Goto(p, from, to) ==
    /\ pc[p] = from
    /\ pc' = [pc EXCEPT ![p] = to]

Init ==
    /\ setting \in Settings
    /\ count   = 0
    /\ ttl     = "none"
    /\ pinned  = {}
    /\ pc      = [p \in Procs |-> "idle"]
    /\ known   = {}
    /\ pending = [p \in Procs |-> NoRow]
    /\ logged  = {}
    /\ refused = FALSE
    /\ tries   = 0
    /\ lost    = 0

-----------------------------------------------------------------------------
Begin(p) ==
    /\ p \in setting.slots
    /\ Goto(p, "idle", "check")
    /\ UNCHANGED <<keyVars, pinned, known, pending, auditVars>>

(* The request is over; a transaction still open is rolled back.           *)
Ended(p) ==
    /\ pc' = [pc EXCEPT ![p] = "idle"]
    /\ known' = known \ {p}
    /\ pending' = [pending EXCEPT ![p] = NoRow]
    /\ pinned' = pinned \ {p}

(* Variant: the counter is set to 0 and keeps its expiry.                  *)
KeyZeroed ==
    /\ count' = 0
    /\ tries' = 0
    /\ lost' = 0
    /\ UNCHANGED ttl

(* The key is gone, and a new count starts.                                *)
KeyGone ==
    /\ count' = 0
    /\ ttl' = "none"
    /\ tries' = 0
    /\ lost' = 0

(* Variant: the attempt after the last one allowed still passes.           *)
CheckOneMore(p) ==
    /\ Goto(p, "check", "lookup")
    /\ count <= MaxAttempts
    /\ UNCHANGED <<keyVars, pinned, known, pending, auditVars>>

(* _check_brute_force; a GET that fails returns None, which passes.        *)
Check(p) ==
    /\ Goto(p, "check", "lookup")
    /\ count < MaxAttempts \/ (Flaky /\ count + Cardinality(InFlight) < MaxCount)
    /\ UNCHANGED <<keyVars, pinned, known, pending, auditVars>>

(* Variant: a locked-out attempt restarts the window.                      *)
LockedRenews(p) ==
    /\ Goto(p, "check", "expire")
    /\ count >= MaxAttempts
    /\ UNCHANGED <<keyVars, pinned, known, pending, auditVars>>

Locked(p) ==
    /\ pc[p] = "check"
    /\ count >= MaxAttempts
    /\ Ended(p)
    /\ UNCHANGED <<keyVars, auditVars>>

Failed(p, from) ==
    /\ Goto(p, from, "incr")
    /\ tries' = Tick(tries)
    /\ UNCHANGED <<count, ttl, lost, pinned, pending, auditVars>>

UserFound(p) ==
    /\ Goto(p, "lookup", "verify")
    /\ known' = known \cup {p}
    /\ UNCHANGED <<keyVars, pinned, pending, auditVars>>

UserMissing(p) == Failed(p, "lookup") /\ UNCHANGED known

(* The reload with roles and the verification of the password.             *)
WrongPassword(p) == Failed(p, "verify") /\ UNCHANGED known

RightPassword(p) ==
    /\ Goto(p, "verify", "clear")
    /\ UNCHANGED <<keyVars, pinned, known, pending, auditVars>>

(* The user was deleted before the reload: None.password raises.           *)
UserVanished(p) ==
    /\ pc[p] = "verify"
    /\ Ended(p)
    /\ UNCHANGED <<keyVars, auditVars>>

Clear(p) ==
    /\ Goto(p, "clear", "grant")
    /\ \/ KeyGone /\ pinned' = {}
       \/ Flaky /\ UNCHANGED <<keyVars, pinned>>
    /\ UNCHANGED <<known, pending, auditVars>>

(* Tokens are issued, the audit row is flushed and the transaction commits.*)
Grant(p) ==
    /\ pc[p] = "grant"
    /\ logged' = logged \cup {"AUTH_LOGIN"}
    /\ Ended(p)
    /\ UNCHANGED <<keyVars, refused>>

(* INCR creates the key without an expiry.                                 *)
Incr(p) ==
    /\ Goto(p, "incr", "expire")
    /\ \/ count' = count + 1
       \/ Flaky /\ UNCHANGED count
    /\ UNCHANGED <<ttl, tries, lost, pinned, known, pending, auditVars>>

ExpireLost == lost' = IF count > 0 THEN Tick(lost) ELSE lost

(* Variant: the expiry is set only by the login that created the key.      *)
SetExpiryFirst(p) ==
    /\ Goto(p, "expire", "audit")
    /\ \/ /\ ttl' = IF count = 1 THEN "set" ELSE ttl
          /\ pinned' = IF count = 1 THEN {q \in Procs : pc[q] # "idle"} ELSE pinned
          /\ UNCHANGED lost
       \/ Flaky /\ ExpireLost /\ UNCHANGED <<ttl, pinned>>
    /\ UNCHANGED <<count, tries, known, pending, auditVars>>

(* EXPIRE restarts the window of LOCKOUT_SECONDS, on a key that is there.  *)
SetExpiry(p) ==
    /\ Goto(p, "expire", "audit")
    /\ \/ /\ ttl' = IF count > 0 THEN "set" ELSE "none"
          /\ pinned' = IF count > 0 THEN {q \in Procs : pc[q] # "idle"} ELSE {}
          /\ UNCHANGED lost
       \/ Flaky /\ ExpireLost /\ UNCHANGED <<ttl, pinned>>
    /\ UNCHANGED <<count, tries, known, pending, auditVars>>

(* The row of a user who was not found names a random actor_id, which the  *)
(* foreign key refuses: that login ends in an error of the database.       *)
AuditFailure(p) ==
    /\ Goto(p, "audit", "raise")
    /\ p \in known
    /\ pending' = [pending EXCEPT ![p] = "AUTH_LOGIN_FAILED"]
    /\ UNCHANGED <<keyVars, pinned, known, auditVars>>

AuditRejected(p) ==
    /\ pc[p] = "audit"
    /\ p \notin known
    /\ Ended(p)
    /\ UNCHANGED <<keyVars, auditVars>>

(* ValueError("Invalid credentials") leaves the unit of work: ROLLBACK.    *)
Raise(p) ==
    /\ pc[p] = "raise"
    /\ refused' = TRUE
    /\ Ended(p)
    /\ UNCHANGED <<keyVars, logged>>

(* A statement fails or the worker dies.                                   *)
Abort(p) ==
    /\ "abort" \in setting.faults
    /\ pc[p] # "idle"
    /\ IF pc[p] = "expire" THEN ExpireLost ELSE UNCHANGED lost
    /\ Ended(p)
    /\ UNCHANGED <<count, ttl, tries, auditVars>>

(* LOCKOUT_SECONDS (900 s) after the last EXPIRE.  A login lasts less than *)
(* that, so those in flight at the EXPIRE have ended by then.              *)
WindowEnds ==
    /\ count > 0
    /\ ttl = "set"
    /\ pinned = {}
    /\ KeyGone
    /\ UNCHANGED <<pinned, pc, known, pending, auditVars>>

Step(p) ==
    \/ Check(p) \/ Locked(p) \/ UserFound(p) \/ UserMissing(p)
    \/ WrongPassword(p) \/ RightPassword(p) \/ UserVanished(p)
    \/ Clear(p) \/ Grant(p)
    \/ Incr(p) \/ SetExpiry(p) \/ AuditFailure(p) \/ AuditRejected(p) \/ Raise(p)

Next ==
    /\ UNCHANGED setting
    /\ \/ \E p \in Procs : Begin(p) \/ Step(p) \/ Abort(p)
       \/ WindowEnds

Spec == Init /\ [][Next]_vars

(* A login that has begun runs to its end, and Redis expires the key; that *)
(* logins arrive is not assumed.                                           *)
FairSpec ==
    /\ Spec
    /\ \A p \in Procs : WF_vars(UNCHANGED setting /\ Step(p))
    /\ WF_vars(UNCHANGED setting /\ WindowEnds)

-----------------------------------------------------------------------------
(* Properties.                                                             *)

(* Redis answers, and no login is lost.                                    *)
Calm == setting.faults = {}

TypeOK ==
    /\ setting \in Settings
    /\ count   \in Nat
    /\ ttl     \in {"none", "set"} /\ (count = 0 => ttl = "none")
    /\ pinned  \subseteq Procs
    /\ pc      \in [Procs -> Steps]
    /\ known   \subseteq Procs
    /\ pending \in [Procs -> Rows \cup {NoRow}]
    /\ logged  \subseteq Rows
    /\ refused \in BOOLEAN
    /\ tries   \in 0 .. Cap
    /\ lost    \in 0 .. Cap

(* Checking and counting are apart, so overlapping logins pass the check   *)
(* together; but at most one attempt per request in flight goes beyond     *)
(* MAX_ATTEMPTS before the window ends (login.py, _check_brute_force).     *)
AttemptsBounded == Calm => tries < MaxAttempts + Cardinality(Procs)

(* INCR and EXPIRE are two commands.  A counter that has reached the limit *)
(* and has no expiry, and nobody about to set one, would lock the address  *)
(* out for ever: that takes MAX_ATTEMPTS lost EXPIREs in one window.       *)
EndlessLockoutNeedsLosses ==
    count >= MaxAttempts /\ ttl = "none" /\ At("expire") = {} => lost >= MaxAttempts

(* "Account locked for 15 minutes": attempts made during a lockout do not  *)
(* prolong it, so it ends whatever requests arrive.                        *)
LockoutEnds == Calm /\ count >= MaxAttempts ~> count < MaxAttempts

(* Why it ends: during a lockout only a login that had passed the check    *)
(* before it can still set the expiry anew, each of them once, and none    *)
(* joins them (login.py, _check_brute_force before the first lookup).      *)
MayProlong == {p \in Procs : pc[p] \in Passed \cup {"expire"}}
LockoutNotProlonged ==
    [][Calm /\ count >= MaxAttempts /\ count' >= MaxAttempts =>
          /\ MayProlong' \subseteq MayProlong
          /\ pinned' \subseteq pinned \/ MayProlong' # MayProlong]_vars

(* "Audit logged atomically in same UoW transaction": once a login with    *)
(* bad credentials has been answered, audit_logs has a row of that kind.   *)
(* The exception that answers it rolls the row back, so it fails.          *)
FailedLoginsAudited == refused => "AUTH_LOGIN_FAILED" \in logged
=============================================================================
