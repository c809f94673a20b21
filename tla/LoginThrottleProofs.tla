------------------------- MODULE LoginThrottleProofs -------------------------
(* Theorems about LoginThrottle, for every number of overlapping logins    *)
(* and every limit.                                                        *)
EXTENDS LoginThrottle, FiniteSetTheorems, TLAPS

-----------------------------------------------------------------------------
(* Counting the requests at given steps.                                   *)

Where(f, T) == {q \in Procs : f[q] \in T}
Number(f, T) == Cardinality(Where(f, T))

LEMMA CapFacts ==
  /\ Cardinality(Procs) \in Nat
  /\ Cap \in Nat
  /\ MaxAttempts \in Nat /\ MaxAttempts >= 1 /\ MaxAttempts <= Cap
  BY ProcsAssumption, AttemptsAssumption, FS_CardinalityType DEF Cap

LEMMA NumberType ==
  ASSUME NEW f, NEW T
  PROVE  /\ IsFiniteSet(Where(f, T))
         /\ Number(f, T) \in Nat
         /\ Number(f, T) <= Cardinality(Procs)
<1>1. Where(f, T) \in SUBSET Procs
  BY DEF Where
<1>2. IsFiniteSet(Where(f, T)) /\ Number(f, T) <= Cardinality(Procs)
  BY <1>1, ProcsAssumption, FS_Subset DEF Number
<1> QED
  BY <1>2, FS_CardinalityType DEF Number

(* Fewer steps, fewer requests.                                            *)
LEMMA NumberMonotone ==
  ASSUME NEW f, NEW S, NEW T, S \subseteq T
  PROVE  Number(f, S) <= Number(f, T)
<1>1. Where(f, S) \in SUBSET Where(f, T)
  BY DEF Where
<1> QED
  BY <1>1, NumberType, FS_Subset DEF Number

(* One request moves to another step.                                      *)
LEMMA NumberMoves ==
  ASSUME NEW f \in [Procs -> Steps], NEW p \in Procs, NEW to \in Steps, NEW T
  PROVE  /\ f[p] \in T /\ to \in T => Number([f EXCEPT ![p] = to], T) = Number(f, T)
         /\ f[p] \notin T /\ to \notin T => Number([f EXCEPT ![p] = to], T) = Number(f, T)
         /\ f[p] \in T /\ to \notin T => Number([f EXCEPT ![p] = to], T) = Number(f, T) - 1
         /\ f[p] \notin T /\ to \in T => Number([f EXCEPT ![p] = to], T) = Number(f, T) + 1
<1>1. f[p] \in T /\ to \in T => Where([f EXCEPT ![p] = to], T) = Where(f, T)
  BY DEF Where
<1>2. f[p] \notin T /\ to \notin T => Where([f EXCEPT ![p] = to], T) = Where(f, T)
  BY DEF Where
<1>3. f[p] \in T /\ to \notin T =>
         p \in Where(f, T) /\ Where([f EXCEPT ![p] = to], T) = Where(f, T) \ {p}
  BY DEF Where
<1>4. f[p] \notin T /\ to \in T =>
         p \notin Where(f, T) /\ Where([f EXCEPT ![p] = to], T) = Where(f, T) \cup {p}
  BY DEF Where
<1>5. IsFiniteSet(Where(f, T))
  BY NumberType
<1>6. Cardinality(Where(f, T) \ {p}) =
         IF p \in Where(f, T) THEN Number(f, T) - 1 ELSE Number(f, T)
  BY <1>5, FS_RemoveElement DEF Number
<1>7. Cardinality(Where(f, T) \cup {p}) =
         IF p \in Where(f, T) THEN Number(f, T) ELSE Number(f, T) + 1
  BY <1>5, FS_AddElement DEF Number
<1> QED
  BY <1>1, <1>2, <1>3, <1>4, <1>6, <1>7 DEF Number

(* NumberMoves for the step each login is about to take.                   *)
LEMMA PcMoves ==
  ASSUME pc \in [Procs -> Steps], NEW p \in Procs, NEW to \in Steps,
         pc' = [pc EXCEPT ![p] = to], NEW T
  PROVE  /\ pc[p] \in T /\ to \in T => Number(pc', T) = Number(pc, T)
         /\ pc[p] \notin T /\ to \notin T => Number(pc', T) = Number(pc, T)
         /\ pc[p] \in T /\ to \notin T => Number(pc', T) = Number(pc, T) - 1
         /\ pc[p] \notin T /\ to \in T => Number(pc', T) = Number(pc, T) + 1
<1>1. Number(pc', T) = Number([pc EXCEPT ![p] = to], T)
  OBVIOUS
<1> QED
  BY <1>1, NumberMoves, Zenon

LEMMA InFlightIsNumber ==
  /\ InFlight = Where(pc, Passed)
  /\ \A s : At(s) = Where(pc, {s})
  BY DEF InFlight, At, Where

-----------------------------------------------------------------------------
(* Type correctness.                                                       *)

LEMMA TickType ==
  ASSUME NEW n \in 0 .. Cap
  PROVE  Tick(n) \in 0 .. Cap /\ Tick(n) <= n + 1 /\ (Tick(n) = n + 1 \/ n = Cap)
  BY CapFacts DEF Tick

(* The setting of a behaviour never changes.                               *)
LEMMA SettingFixed == [Next]_vars => setting' = setting
  BY DEF Next, vars

LEMMA InitTypeOK == Init => TypeOK
<1> SUFFICES ASSUME Init PROVE TypeOK
  OBVIOUS
<1>1. 0 \in 0 .. Cap
  BY CapFacts
<1>2. pc \in [Procs -> Steps] /\ pending \in [Procs -> Rows \cup {NoRow}]
  BY DEF Init, Steps
<1> QED
  BY <1>1, <1>2 DEF Init, TypeOK

LEMMA NextTypeOK == TypeOK /\ [Next]_vars => TypeOK'
<1> SUFFICES ASSUME TypeOK, [Next]_vars, setting' = setting PROVE TypeOK'
  BY SettingFixed
<1> USE DEF TypeOK, Steps, Rows, NoRow, keyVars, auditVars, Goto, Ended
<1>1. Tick(tries) \in 0 .. Cap /\ Tick(lost) \in 0 .. Cap
  BY TickType
<1>2. ASSUME NEW p \in Procs, Begin(p) \/ Check(p) \/ Locked(p) PROVE TypeOK'
  BY <1>2 DEF Begin, Check, Locked
<1>3. ASSUME NEW p \in Procs, UserFound(p) \/ UserMissing(p) \/ WrongPassword(p)
      PROVE  TypeOK'
  BY <1>3, <1>1 DEF UserFound, UserMissing, WrongPassword, Failed
<1>4. ASSUME NEW p \in Procs, RightPassword(p) \/ UserVanished(p) \/ Grant(p)
      PROVE  TypeOK'
  BY <1>4 DEF RightPassword, UserVanished, Grant
<1>5. ASSUME NEW p \in Procs, Clear(p) PROVE TypeOK'
  BY <1>5, CapFacts DEF Clear, KeyGone
<1>6. ASSUME NEW p \in Procs, Incr(p) PROVE TypeOK'
  BY <1>6 DEF Incr
<1>7. ASSUME NEW p \in Procs, SetExpiry(p) PROVE TypeOK'
  BY <1>7, <1>1 DEF SetExpiry, ExpireLost
<1>8. ASSUME NEW p \in Procs, AuditFailure(p) \/ AuditRejected(p) \/ Raise(p)
      PROVE  TypeOK'
  BY <1>8 DEF AuditFailure, AuditRejected, Raise
<1>9. ASSUME NEW p \in Procs, Abort(p) PROVE TypeOK'
  BY <1>9, <1>1 DEF Abort, ExpireLost
<1>10. CASE WindowEnds
  BY <1>10, CapFacts DEF WindowEnds, KeyGone
<1>11. CASE UNCHANGED vars
  BY <1>11 DEF vars
<1> HIDE DEF TypeOK
<1> QED
  BY <1>2, <1>3, <1>4, <1>5, <1>6, <1>7, <1>8, <1>9, <1>10, <1>11 DEF Next, Step

(* Every variable keeps its type, an expiry only ever belongs to a present *)
(* key, and the history counters stay within their bound.                  *)
THEOREM TypeCorrect == Spec => []TypeOK
  BY InitTypeOK, NextTypeOK, PTL DEF Spec

-----------------------------------------------------------------------------
(* The limit, when no command fails and no login is lost.                  *)

(* Every failed verification has been counted or is about to be, and the   *)
(* counter leaves room for every login that may still count: it was below  *)
(* the limit when each of them passed the check.                           *)
BudgetInv ==
    /\ tries <= count + Number(pc, {"incr"})
    /\ count + Number(pc, Passed) < MaxAttempts + Cardinality(Procs)

LEMMA InitBudget == Init => BudgetInv
<1> SUFFICES ASSUME Init PROVE BudgetInv
  OBVIOUS
<1>1. Number(pc, {"incr"}) \in Nat
  BY NumberType
<1>2. Where(pc, Passed) = {}
  BY DEF Init, Where, Passed
<1>3. Number(pc, Passed) = 0
  BY <1>2, FS_EmptySet DEF Number
<1> QED
  BY <1>1, <1>3, CapFacts DEF Init, BudgetInv

LEMMA NextBudget ==
  Calm /\ TypeOK /\ BudgetInv /\ [Next]_vars => BudgetInv'
<1> SUFFICES ASSUME Calm, TypeOK, BudgetInv, [Next]_vars PROVE BudgetInv'
  OBVIOUS
<1> DEFINE a == Number(pc, {"incr"})
           b == Number(pc, Passed)
           aa == Number(pc', {"incr"})
           bb == Number(pc', Passed)
           N == Cardinality(Procs)
<1>1. /\ a \in Nat /\ b \in Nat /\ aa \in Nat /\ bb \in Nat /\ N \in Nat
      /\ b <= N /\ bb <= N
  BY NumberType, CapFacts
<1>2. pc \in [Procs -> Steps] /\ count \in Nat /\ tries \in 0 .. Cap /\ Cap \in Nat
  BY CapFacts DEF TypeOK
<1>3. Tick(tries) <= tries + 1 /\ Tick(tries) \in Nat
  BY <1>2, TickType
<1>4. ASSUME NEW p \in Procs, NEW to \in Steps, pc' = [pc EXCEPT ![p] = to]
      PROVE  /\ pc[p] = "incr" /\ to # "incr" => aa = a - 1
             /\ pc[p] # "incr" /\ to = "incr" => aa = a + 1
             /\ pc[p] # "incr" /\ to # "incr" => aa = a
             /\ pc[p] \in Passed /\ to \notin Passed => bb = b - 1
             /\ pc[p] \notin Passed /\ to \in Passed => bb = b + 1
             /\ (pc[p] \in Passed <=> to \in Passed) => bb = b
  <2>1. /\ pc[p] \in {"incr"} /\ to \notin {"incr"} => aa = a - 1
        /\ pc[p] \notin {"incr"} /\ to \in {"incr"} => aa = a + 1
        /\ pc[p] \notin {"incr"} /\ to \notin {"incr"} => aa = a
    BY <1>2, <1>4, PcMoves
  <2>2. /\ pc[p] \in Passed /\ to \notin Passed => bb = b - 1
        /\ pc[p] \notin Passed /\ to \in Passed => bb = b + 1
        /\ (pc[p] \in Passed <=> to \in Passed) => bb = b
    BY <1>2, <1>4, PcMoves
  <2> QED
    BY <2>1, <2>2
<1> SUFFICES /\ tries' <= count' + aa
             /\ count' + bb < MaxAttempts + N
  BY DEF BudgetInv
<1>5. tries <= count + a /\ count + b < MaxAttempts + N
  BY DEF BudgetInv
<1> HIDE DEF a, b, aa, bb, N
<1>6. MaxAttempts \in Nat
  BY CapFacts
(* A request moves, and the counter stays.                                 *)
<1>7. ASSUME NEW p \in Procs, NEW to \in Steps, pc' = [pc EXCEPT ![p] = to],
             count' = count, tries' = tries,
             pc[p] # "incr", to # "incr",
             to \in Passed => count < MaxAttempts
      PROVE  tries' <= count' + aa /\ count' + bb < MaxAttempts + N
  <2>1. aa = a
    BY <1>4, <1>7
  <2>2. /\ pc[p] \in Passed /\ to \notin Passed => bb = b - 1
        /\ pc[p] \notin Passed /\ to \in Passed => bb = b + 1
        /\ (pc[p] \in Passed <=> to \in Passed) => bb = b
    BY <1>4, <1>7
  <2>3. CASE to \in Passed /\ pc[p] \notin Passed
    <3>1. bb = b + 1 /\ count < MaxAttempts
      BY <2>2, <2>3, <1>7
    <3> QED
      BY <1>1, <1>2, <1>5, <1>6, <1>7, <2>1, <3>1
  <2>4. CASE ~(to \in Passed /\ pc[p] \notin Passed)
    <3>1. bb = b \/ bb = b - 1
      BY <2>2, <2>4
    <3> QED
      BY <1>1, <1>2, <1>5, <1>6, <1>7, <2>1, <3>1
  <2> QED
    BY <2>3, <2>4
<1>8. ASSUME NEW p \in Procs, Begin(p) \/ Locked(p) \/ Grant(p) \/ RightPassword(p)
             \/ AuditFailure(p) \/ AuditRejected(p) \/ Raise(p) \/ UserVanished(p)
      PROVE  tries' <= count' + aa /\ count' + bb < MaxAttempts + N
  <2>1. PICK to \in {"check", "idle", "clear", "raise"} :
             /\ pc' = [pc EXCEPT ![p] = to]
             /\ count' = count /\ tries' = tries
             /\ pc[p] # "incr"
    BY <1>8 DEF Begin, Locked, Grant, RightPassword, AuditFailure, AuditRejected,
                Raise, UserVanished, Goto, Ended, keyVars
  <2> QED
    BY <2>1, <1>7 DEF Passed, Steps
<1>9. ASSUME NEW p \in Procs, Check(p)
      PROVE  tries' <= count' + aa /\ count' + bb < MaxAttempts + N
  <2>1. /\ pc' = [pc EXCEPT ![p] = "lookup"] /\ pc[p] = "check"
        /\ count' = count /\ tries' = tries /\ count < MaxAttempts
    BY <1>9 DEF Check, Flaky, Calm, Goto, keyVars
  <2> QED
    BY <2>1, <1>7 DEF Steps
<1>10. ASSUME NEW p \in Procs, UserFound(p)
       PROVE  tries' <= count' + aa /\ count' + bb < MaxAttempts + N
  <2>1. /\ pc' = [pc EXCEPT ![p] = "verify"] /\ pc[p] = "lookup"
        /\ count' = count /\ tries' = tries
    BY <1>10 DEF UserFound, Goto, keyVars
  <2>2. aa = a /\ bb = b
    BY <2>1, <1>4 DEF Passed, Steps
  <2> QED
    BY <1>5, <2>1, <2>2
<1>11. ASSUME NEW p \in Procs, UserMissing(p) \/ WrongPassword(p)
       PROVE  tries' <= count' + aa /\ count' + bb < MaxAttempts + N
  <2>1. /\ pc' = [pc EXCEPT ![p] = "incr"] /\ pc[p] \in {"lookup", "verify"}
        /\ count' = count /\ tries' = Tick(tries)
    BY <1>11 DEF UserMissing, WrongPassword, Failed, Goto
  <2>2. aa = a + 1 /\ bb = b
    BY <2>1, <1>4 DEF Passed, Steps
  <2> QED
    BY <1>1, <1>2, <1>3, <1>5, <2>1, <2>2
<1>12. ASSUME NEW p \in Procs, Incr(p)
       PROVE  tries' <= count' + aa /\ count' + bb < MaxAttempts + N
  <2>1. /\ pc' = [pc EXCEPT ![p] = "expire"] /\ pc[p] = "incr"
        /\ count' = count + 1 /\ tries' = tries
    BY <1>12 DEF Incr, Goto, Flaky, Calm
  <2>2. aa = a - 1 /\ bb = b - 1
    BY <2>1, <1>4 DEF Passed, Steps
  <2> QED
    BY <1>1, <1>2, <1>5, <1>6, <2>1, <2>2
<1>13. ASSUME NEW p \in Procs, SetExpiry(p)
       PROVE  tries' <= count' + aa /\ count' + bb < MaxAttempts + N
  <2>1. /\ pc' = [pc EXCEPT ![p] = "audit"] /\ pc[p] = "expire"
        /\ count' = count /\ tries' = tries
    BY <1>13 DEF SetExpiry, Goto
  <2> QED
    BY <2>1, <1>7 DEF Passed, Steps
<1>14. ASSUME count' = 0, tries' = 0
       PROVE  tries' <= count' + aa /\ count' + bb < MaxAttempts + N
  BY <1>14, <1>1, CapFacts
<1>15. ASSUME NEW p \in Procs, Clear(p)
       PROVE  tries' <= count' + aa /\ count' + bb < MaxAttempts + N
  BY <1>15, <1>14 DEF Clear, KeyGone, Flaky, Calm
<1>16. ASSUME WindowEnds
       PROVE  tries' <= count' + aa /\ count' + bb < MaxAttempts + N
  BY <1>16, <1>14 DEF WindowEnds, KeyGone
<1>17. \A p \in Procs : ~Abort(p)
  BY DEF Abort, Calm
<1>18. ASSUME UNCHANGED vars
       PROVE  tries' <= count' + aa /\ count' + bb < MaxAttempts + N
  BY <1>18, <1>5 DEF vars, keyVars, a, b, aa, bb
<1> QED
  BY <1>8, <1>9, <1>10, <1>11, <1>12, <1>13, <1>15, <1>16, <1>17, <1>18
     DEF Next, Step

(* When Redis answers and no login is lost, at most one failed attempt per *)
(* login in flight goes beyond the limit in one window.                    *)
THEOREM LimitHolds == Spec => []AttemptsBounded
<1>1. TypeOK /\ (Calm => BudgetInv) => AttemptsBounded
  <2> SUFFICES ASSUME TypeOK, BudgetInv PROVE AttemptsBounded
    BY DEF AttemptsBounded
  <2>1. {"incr"} \subseteq Passed
    BY DEF Passed
  <2>2. Number(pc, {"incr"}) <= Number(pc, Passed)
    BY <2>1, NumberMonotone
  <2>3. Number(pc, {"incr"}) \in Nat /\ Number(pc, Passed) \in Nat
    BY NumberType
  <2> QED
    BY <2>2, <2>3, CapFacts DEF BudgetInv, AttemptsBounded, TypeOK
<1>2. TypeOK /\ (Calm => BudgetInv) /\ [Next]_vars => (Calm => BudgetInv)'
  BY NextBudget, SettingFixed DEF Calm
<1> QED
  BY InitTypeOK, NextTypeOK, InitBudget, <1>1, <1>2, PTL DEF Spec

-----------------------------------------------------------------------------
(* The counter without an expiry, under every fault.                       *)

(* Each increment of a key without an expiry is owed an EXPIRE that is     *)
(* still to come or has been lost.                                         *)
OwedInv ==
    count > 0 /\ ttl = "none" =>
        \/ count <= lost + Number(pc, {"expire"})
        \/ MaxAttempts <= lost + Number(pc, {"expire"})

LEMMA NextOwed == TypeOK /\ OwedInv /\ [Next]_vars => OwedInv'
<1> SUFFICES ASSUME TypeOK, OwedInv, [Next]_vars, count' > 0, ttl' = "none"
             PROVE  OwedInv'
  BY DEF OwedInv
<1> DEFINE e == Number(pc, {"expire"})
           ee == Number(pc', {"expire"})
           Owed == count' <= lost' + ee \/ MaxAttempts <= lost' + ee
<1>1. e \in Nat /\ ee \in Nat /\ MaxAttempts \in Nat
  BY NumberType, CapFacts
<1>2. pc \in [Procs -> Steps] /\ count \in Nat /\ lost \in 0 .. Cap /\ lost \in Nat
  BY CapFacts DEF TypeOK
<1>3. Tick(lost) \in Nat /\ (Tick(lost) = lost + 1 \/ (Tick(lost) = Cap /\ MaxAttempts <= Cap))
  BY <1>2, CapFacts, TickType DEF Tick
<1>4. ASSUME NEW p \in Procs, NEW to \in Steps, pc' = [pc EXCEPT ![p] = to]
      PROVE  /\ pc[p] = "expire" /\ to # "expire" => ee = e - 1
             /\ pc[p] # "expire" /\ to = "expire" => ee = e + 1
             /\ pc[p] # "expire" /\ to # "expire" => ee = e
  <2>1. /\ pc[p] \in {"expire"} /\ to \notin {"expire"} => ee = e - 1
        /\ pc[p] \notin {"expire"} /\ to \in {"expire"} => ee = e + 1
        /\ pc[p] \notin {"expire"} /\ to \notin {"expire"} => ee = e
    BY <1>2, <1>4, PcMoves
  <2> QED
    BY <2>1
<1> SUFFICES Owed
  BY DEF OwedInv
<1>5. count > 0 /\ ttl = "none" => count <= lost + e \/ MaxAttempts <= lost + e
  BY DEF OwedInv
<1> HIDE DEF e, ee
<1>6. ASSUME NEW p \in Procs, NEW to \in Steps, pc' = [pc EXCEPT ![p] = to],
             pc[p] # "expire", to # "expire",
             count' = count, ttl' = ttl, lost' = lost
      PROVE  Owed
  <2>1. ee = e
    BY <1>4, <1>6
  <2> QED
    BY <1>5, <1>6, <2>1
<1>7. ASSUME NEW p \in Procs, Begin(p) \/ Check(p) \/ Locked(p) \/ UserFound(p)
             \/ UserMissing(p) \/ WrongPassword(p) \/ RightPassword(p)
             \/ UserVanished(p) \/ Grant(p) \/ AuditFailure(p) \/ AuditRejected(p)
             \/ Raise(p)
      PROVE  Owed
  <2>1. \E to \in {"check", "lookup", "idle", "verify", "incr", "clear", "raise"} :
             /\ pc' = [pc EXCEPT ![p] = to]
             /\ pc[p] # "expire"
             /\ count' = count /\ ttl' = ttl /\ lost' = lost
    BY <1>7 DEF Begin, Check, Locked, UserFound, UserMissing, WrongPassword,
                RightPassword, UserVanished, Grant, AuditFailure, AuditRejected,
                Raise, Failed, Goto, Ended, keyVars
  <2> HIDE DEF Owed
  <2> QED
    BY <2>1, <1>6 DEF Steps
<1>8. ASSUME NEW p \in Procs, Clear(p) PROVE Owed
  <2>1. ~KeyGone
    BY DEF KeyGone
  <2>2. pc' = [pc EXCEPT ![p] = "grant"] /\ pc[p] = "clear"
        /\ count' = count /\ ttl' = ttl /\ lost' = lost
    BY <1>8, <2>1 DEF Clear, Goto, keyVars
  <2> QED
    BY <2>2, <1>6 DEF Steps
<1>9. ASSUME NEW p \in Procs, Incr(p) PROVE Owed
  <2>1. /\ pc' = [pc EXCEPT ![p] = "expire"] /\ pc[p] = "incr"
        /\ count' \in {count, count + 1} /\ ttl' = ttl /\ lost' = lost
    BY <1>9 DEF Incr, Goto
  <2>2. ee = e + 1
    BY <2>1, <1>4 DEF Steps
  <2> QED
    BY <1>1, <1>2, <1>5, <2>1, <2>2
<1>10. ASSUME NEW p \in Procs, pc[p] = "expire", NEW to \in Steps, to # "expire",
              pc' = [pc EXCEPT ![p] = to],
              count' = count, ttl' = ttl, ExpireLost
       PROVE  Owed
  <2>1. ee = e - 1
    BY <1>4, <1>10
  <2>2. lost' = Tick(lost)
    BY <1>10 DEF ExpireLost
  <2> QED
    BY <1>1, <1>2, <1>3, <1>5, <1>10, <2>1, <2>2
<1>11. ASSUME NEW p \in Procs, SetExpiry(p) PROVE Owed
  <2>1. pc' = [pc EXCEPT ![p] = "audit"] /\ pc[p] = "expire" /\ count' = count
    BY <1>11 DEF SetExpiry, Goto
  <2>2. ExpireLost /\ ttl' = ttl
    BY <1>11, <2>1 DEF SetExpiry
  <2> QED
    BY <2>1, <2>2, <1>10 DEF Steps
<1>12. ASSUME NEW p \in Procs, Abort(p) PROVE Owed
  <2>1. pc' = [pc EXCEPT ![p] = "idle"] /\ count' = count /\ ttl' = ttl
    BY <1>12 DEF Abort, Ended
  <2>2. CASE pc[p] = "expire"
    <3>1. ExpireLost
      BY <1>12, <2>2 DEF Abort
    <3> QED
      BY <2>1, <2>2, <3>1, <1>10 DEF Steps
  <2>3. CASE pc[p] # "expire"
    <3>1. lost' = lost
      BY <1>12, <2>3 DEF Abort
    <3> QED
      BY <2>1, <2>3, <3>1, <1>6 DEF Steps
  <2> QED
    BY <2>2, <2>3
<1>13. ~WindowEnds
  BY DEF WindowEnds, KeyGone
<1>14. CASE UNCHANGED vars
  BY <1>14, <1>5 DEF vars, keyVars, e, ee
<1> HIDE DEF Owed
<1> QED
  BY <1>7, <1>8, <1>9, <1>11, <1>12, <1>13, <1>14 DEF Next, Step

(* Whatever fails, a lockout without an end takes as many lost EXPIREs as  *)
(* it takes failed attempts to be locked out.                              *)
THEOREM EndlessLockout == Spec => []EndlessLockoutNeedsLosses
<1>1. Init => OwedInv
  BY DEF Init, OwedInv
<1>2. TypeOK /\ OwedInv => EndlessLockoutNeedsLosses
  <2> SUFFICES ASSUME TypeOK, OwedInv, count >= MaxAttempts, ttl = "none",
                      At("expire") = {}
               PROVE  lost >= MaxAttempts
    BY DEF EndlessLockoutNeedsLosses
  <2>1. Number(pc, {"expire"}) = 0
    BY InFlightIsNumber, FS_EmptySet DEF Number
  <2> QED
    BY <2>1, CapFacts DEF OwedInv, TypeOK
<1> QED
  BY InitTypeOK, NextTypeOK, <1>1, NextOwed, <1>2, PTL DEF Spec

-----------------------------------------------------------------------------
(* The lockout.                                                            *)

(* While the address is locked out and Redis answers, a step leaves the    *)
(* logins that may prolong the lockout as they are or takes one away, and  *)
(* the one that sets the expiry is taken away.                             *)
LEMMA ProlongersLeave ==
  ASSUME TypeOK, [Next]_vars, Calm, count >= MaxAttempts, count' >= MaxAttempts
  PROVE  /\ MayProlong' \subseteq MayProlong
         /\ pinned' \subseteq pinned \/ MayProlong' # MayProlong
<1> USE DEF MayProlong, Passed, Goto, Ended, keyVars, auditVars, Flaky, Calm
<1>t. /\ pc \in [Procs -> Steps] /\ pinned \subseteq Procs /\ count \in Nat
      /\ MaxAttempts \in Nat /\ MaxAttempts >= 1
  BY CapFacts DEF TypeOK
<1> DEFINE P == /\ MayProlong' \subseteq MayProlong
                /\ pinned' \subseteq pinned \/ MayProlong' # MayProlong
<1>1. ASSUME NEW p \in Procs, Begin(p) \/ Locked(p) \/ UserFound(p) \/ UserMissing(p) PROVE P
  BY <1>1, <1>t DEF Begin, Locked, UserFound, UserMissing, Failed
<1>2. ASSUME NEW p \in Procs, Check(p) PROVE FALSE
  BY <1>2, <1>t DEF Check
<1>3. ASSUME NEW p \in Procs, WrongPassword(p) \/ RightPassword(p) \/ UserVanished(p) PROVE P
  BY <1>3, <1>t DEF WrongPassword, RightPassword, UserVanished, Failed
<1>4. ASSUME NEW p \in Procs, Clear(p) PROVE FALSE
  BY <1>4, <1>t DEF Clear, KeyGone
<1>5. ASSUME NEW p \in Procs, Grant(p) \/ Incr(p) PROVE P
  BY <1>5, <1>t DEF Grant, Incr
<1>6. ASSUME NEW p \in Procs, SetExpiry(p) PROVE P
  <2>1. p \in MayProlong /\ p \notin MayProlong'
    BY <1>6, <1>t DEF SetExpiry
  <2>2. MayProlong' \subseteq MayProlong
    BY <1>6, <1>t DEF SetExpiry
  <2>3. QED
    BY <2>1, <2>2
<1>7. ASSUME NEW p \in Procs, AuditFailure(p) \/ AuditRejected(p) \/ Raise(p) PROVE P
  BY <1>7, <1>t DEF AuditFailure, AuditRejected, Raise
<1>8. ASSUME NEW p \in Procs, Abort(p) PROVE FALSE
  BY <1>8 DEF Abort
<1>9. ASSUME WindowEnds PROVE P
  BY <1>9, <1>t DEF WindowEnds, KeyGone
<1>10. ASSUME UNCHANGED vars PROVE P
  BY <1>10 DEF vars
<1> HIDE DEF P
<1>11. ASSUME NEW p \in Procs, Step(p) PROVE P
  BY ONLY <1>11, <1>1, <1>2, <1>3, <1>4, <1>5, <1>6, <1>7 DEF Step
<1>12. P
  BY ONLY [Next]_vars, <1>1, <1>8, <1>9, <1>10, <1>11 DEF Next
<1>13. QED
  BY <1>12 DEF P

(* A lockout is prolonged at most once by each login that had passed the   *)
(* check before it, and by no other: the safety behind "locked for 15      *)
(* minutes", for every limit and number of overlapping logins.             *)
THEOREM LockoutProlonged == Spec => LockoutNotProlonged
<1> DEFINE A == Calm /\ count >= MaxAttempts /\ count' >= MaxAttempts =>
                  /\ MayProlong' \subseteq MayProlong
                  /\ pinned' \subseteq pinned \/ MayProlong' # MayProlong
<1>1. TypeOK /\ [Next]_vars => [A]_vars
  BY ProlongersLeave
<1>2. QED
  BY <1>1, TypeCorrect, PTL DEF Spec, LockoutNotProlonged
=============================================================================
