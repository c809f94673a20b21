------------------------ MODULE ConnectionPoolProofs ------------------------
(* Theorems about ConnectionPool, for every number of requests, every pool *)
(* and every setting.                                                      *)
EXTENDS ConnectionPool, FiniteSetTheorems, TLAPS

(* What a request holds is settled by the step it is at and by its kind.   *)
Mine(p) == {<<p, s>> : s \in Sessions}

NestedSteps == {"wantUow", "lookup", "wantToken", "store", "last"}
LogoutSteps == {"wantToken", "store", "wantUow", "last"}
PlainSteps  == {"wantActor", "actor", "wantUow", "last"}

StepOfKind(p) ==
    /\ kind[p] \in Nested => p \in setting.nested /\ pc[p] \in NestedSteps
    /\ kind[p] = "logout" => pc[p] \in LogoutSteps
    /\ kind[p] = "plain" => pc[p] \in PlainSteps
    /\ kind[p] = "none" => pc[p] = "idle"

HoldsAtStep(p) ==
    /\ <<p, "actor">> \in held <=> pc[p] = "actor"
    /\ <<p, "uow">> \in held <=>
          \/ pc[p] \in {"lookup", "last"}
          \/ pc[p] \in {"wantToken", "store"} /\ kind[p] \in Nested
    /\ <<p, "token">> \in held <=> pc[p] = "store"

Commits(p) ==
    p \in committed =>
        \/ kind[p] = "logout"
        \/ kind[p] \in Nested /\ pc[p] = "last"

Shape(p) == StepOfKind(p) /\ HoldsAtStep(p) /\ Commits(p)

Types ==
    /\ setting \in Settings
    /\ kind \in [Procs -> Kinds]
    /\ pc \in [Procs -> Steps]
    /\ free \in Nat
    /\ held \subseteq Procs \X Sessions
    /\ committed \subseteq Procs

Balance ==
    /\ IsFiniteSet(held)
    /\ free + Cardinality(held) = Capacity

IInv == Types /\ Balance /\ (\A p \in Procs : Shape(p))

LEMMA CapacityNat == Capacity \in Nat /\ Capacity > 0
  BY PoolAssumption DEF Capacity

LEMMA MineFinite ==
  ASSUME NEW p PROVE IsFiniteSet(Mine(p))
<1>1. Mine(p) = {p} \X Sessions
  BY DEF Mine
<1>2. IsFiniteSet({p}) /\ IsFiniteSet({"actor"}) /\ IsFiniteSet({"uow"}) /\ IsFiniteSet({"token"})
  BY FS_Singleton
<1>3. IsFiniteSet({"actor"} \cup {"uow"})
  BY <1>2, FS_Union
<1>4. IsFiniteSet(({"actor"} \cup {"uow"}) \cup {"token"})
  BY <1>2, <1>3, FS_Union
<1>5. Sessions = ({"actor"} \cup {"uow"}) \cup {"token"}
  BY DEF Sessions
<1> QED
  BY <1>1, <1>2, <1>4, <1>5, FS_Product

-----------------------------------------------------------------------------
(* The pool's balance.                                                     *)

LEMMA TakeBalances ==
  ASSUME Balance, Types, NEW p \in Procs, NEW s \in Sessions, NEW to,
         <<p, s>> \notin held, Take(p, s, to)
  PROVE  Balance' /\ free' \in Nat /\ held' \subseteq Procs \X Sessions
<1>1. IsFiniteSet(held') /\ Cardinality(held') = Cardinality(held) + 1
  BY FS_AddElement DEF Take, Balance
<1>2. Cardinality(held) \in Nat
  BY FS_CardinalityType DEF Balance
<1>3. free' = free - 1 /\ free > 0 /\ free \in Nat
  BY DEF Take, Types
<1>4. held' \subseteq Procs \X Sessions
  BY DEF Take, Types
<1> QED
  BY <1>1, <1>2, <1>3, <1>4, CapacityNat DEF Balance

LEMMA GiveBalances ==
  ASSUME Balance, Types, NEW p, NEW s, <<p, s>> \in held, Give(p, s)
  PROVE  Balance' /\ free' \in Nat /\ held' \subseteq Procs \X Sessions
<1>1. IsFiniteSet(held') /\ Cardinality(held') = Cardinality(held) - 1
  BY FS_RemoveElement DEF Give, Balance
<1>2. Cardinality(held) \in Nat
  BY FS_CardinalityType DEF Balance
<1>3. free' = free + 1 /\ free \in Nat
  BY DEF Give, Types
<1>4. held' \subseteq Procs \X Sessions
  BY DEF Give, Types
<1> QED
  BY <1>1, <1>2, <1>3, <1>4, CapacityNat DEF Balance

LEMMA UnwindBalances ==
  ASSUME Balance, Types, NEW p, Unwind(p)
  PROVE  Balance' /\ free' \in Nat /\ held' \subseteq Procs \X Sessions
<1>1. free' = free + Cardinality(held \cap Mine(p)) /\ held' = held \ Mine(p)
  BY DEF Unwind, Mine
<1>2. /\ IsFiniteSet(held \ Mine(p))
      /\ Cardinality(held \ Mine(p)) = Cardinality(held) - Cardinality(held \cap Mine(p))
  BY FS_Difference, MineFinite DEF Balance
<1>3. IsFiniteSet(held \cap Mine(p))
  BY FS_Intersection, MineFinite DEF Balance
<1>4. Cardinality(held \cap Mine(p)) \in Nat /\ Cardinality(held) \in Nat
  BY <1>3, FS_CardinalityType DEF Balance
<1>5. held' \subseteq Procs \X Sessions
  BY <1>1 DEF Types
<1> QED
  BY <1>1, <1>2, <1>4, <1>5, CapacityNat DEF Balance, Types

-----------------------------------------------------------------------------
(* The shape of one request.  A step moves one request only.               *)

Other(q) ==
    /\ pc'[q] = pc[q] /\ kind'[q] = kind[q]
    /\ \A s \in Sessions : <<q, s>> \in held' <=> <<q, s>> \in held
    /\ q \in committed' <=> q \in committed

LEMMA OthersKeepShape ==
  ASSUME NEW q, Shape(q), Other(q), setting' = setting
  PROVE  Shape(q)'
<1>1. StepOfKind(q)'
  BY DEF Shape, StepOfKind, Other
<1>2. HoldsAtStep(q)'
  BY DEF Shape, HoldsAtStep, Other, Sessions
<1>3. Commits(q)'
  BY DEF Shape, Commits, Other
<1> QED
  BY <1>1, <1>2, <1>3 DEF Shape

(* One step of p, from the facts about p alone.                            *)
LEMMA BeginStep ==
  ASSUME IInv, NEW p \in Procs, BeginNested(p) \/ BeginLogout(p) \/ BeginPlain(p)
  PROVE  IInv'
<1>1. PICK k \in Kinds, first \in Waits :
        /\ Begin(p, k, first)
        /\ k \in Nested => p \in setting.nested /\ first = "wantUow"
        /\ k = "logout" => first \in {"wantToken", "wantUow"}
        /\ k = "plain" => first \in {"wantActor", "wantUow"}
        /\ k # "none"
  BY DEF BeginNested, BeginLogout, BeginPlain, Nested, Kinds, Waits
<1>2. Types'
  BY <1>1 DEF IInv, Types, Begin, Steps
<1>3. Balance'
  BY <1>1 DEF IInv, Balance, Begin
<1>4. Shape(p)'
  <2>1. pc'[p] = first /\ kind'[p] = k
    BY <1>1 DEF Begin, IInv, Types
  <2>2. pc[p] = "idle" /\ Shape(p)
    BY <1>1 DEF Begin, IInv
  <2>3. held' = held /\ committed' = committed /\ setting' = setting
    BY <1>1 DEF Begin
  <2>4. StepOfKind(p)'
    BY <1>1, <2>1, <2>3 DEF StepOfKind, NestedSteps, LogoutSteps, PlainSteps
  <2>5. HoldsAtStep(p)'
    BY <1>1, <2>1, <2>2, <2>3 DEF Shape, HoldsAtStep, Waits, Nested
  <2>6. p \notin committed
    BY <2>2 DEF Shape, StepOfKind, Commits, LogoutSteps
  <2> QED
    BY <2>3, <2>4, <2>5, <2>6 DEF Shape, Commits
<1>5. ASSUME NEW q \in Procs, q # p PROVE Shape(q)'
  <2>1. Other(q) /\ setting' = setting
    BY <1>1, <1>5 DEF Begin, Other, IInv, Types
  <2> QED
    BY <2>1, <1>5, OthersKeepShape DEF IInv
<1> QED
  BY <1>2, <1>3, <1>4, <1>5 DEF IInv

LEMMA TakeStep ==
  ASSUME IInv, NEW p \in Procs, Checkout(p)
  PROVE  IInv'
<1>1. PICK s \in Sessions, to \in Steps :
        /\ Take(p, s, to)
        /\ \/ pc[p] = "wantActor" /\ s = "actor" /\ to = "actor"
           \/ pc[p] = "wantUow" /\ s = "uow" /\ kind[p] \in Nested /\ to = "lookup"
           \/ pc[p] = "wantUow" /\ s = "uow" /\ kind[p] \notin Nested /\ to = "last"
           \/ pc[p] = "wantToken" /\ s = "token" /\ to = "store"
  BY DEF Checkout, TakeActor, TakeUow, TakeToken, Sessions, Steps
<1>2. Shape(p) /\ Types /\ Balance
  BY DEF IInv
<1>3. <<p, s>> \notin held
  BY <1>1, <1>2 DEF Shape, HoldsAtStep
<1>4. Balance' /\ free' \in Nat /\ held' \subseteq Procs \X Sessions
  BY <1>1, <1>2, <1>3, TakeBalances
<1>5. Types'
  BY <1>1, <1>2, <1>4 DEF Types, Take
<1>6. Shape(p)'
  <2>1. pc'[p] = to /\ kind'[p] = kind[p] /\ setting' = setting /\ committed' = committed
    BY <1>1, <1>2 DEF Take, Types
  <2>2. \A t \in Sessions : <<p, t>> \in held' <=> <<p, t>> \in held \/ t = s
    BY <1>1 DEF Take
  <2>3. StepOfKind(p)'
    BY <1>1, <1>2, <2>1 DEF Types, Kinds, Shape, StepOfKind, NestedSteps, LogoutSteps,
       PlainSteps, Nested
  <2>4. HoldsAtStep(p)'
    BY <1>1, <1>2, <2>1, <2>2 DEF Shape, HoldsAtStep, StepOfKind, LogoutSteps, PlainSteps,
       Types, Kinds, Sessions, Nested
  <2>5. Commits(p)'
    BY <1>1, <1>2, <2>1 DEF Shape, Commits
  <2> QED
    BY <2>3, <2>4, <2>5 DEF Shape
<1>7. ASSUME NEW q \in Procs, q # p PROVE Shape(q)'
  <2>1. Other(q) /\ setting' = setting
    BY <1>1, <1>2, <1>7 DEF Take, Other, Types
  <2> QED
    BY <2>1, <1>7, OthersKeepShape DEF IInv
<1> QED
  BY <1>4, <1>5, <1>6, <1>7 DEF IInv

(* A request that is over holds nothing; the others hold what they held.   *)
LEMMA OverStep ==
  ASSUME IInv, NEW p \in Procs, Over(p),
         Balance', free' \in Nat, held' \subseteq Procs \X Sessions,
         \A s \in Sessions : <<p, s>> \notin held',
         \A q \in Procs \ {p}, s \in Sessions : <<q, s>> \in held' <=> <<q, s>> \in held
  PROVE  IInv'
<1>1. Types'
  BY DEF Over, IInv, Types, Kinds, Steps
<1>2. Shape(p)'
  <2>1. pc'[p] = "idle" /\ kind'[p] = "none" /\ p \notin committed'
    BY DEF Over, IInv, Types
  <2> QED
    BY <2>1 DEF Shape, StepOfKind, HoldsAtStep, Commits, Sessions, Nested
<1>3. ASSUME NEW q \in Procs, q # p PROVE Shape(q)'
  <2>1. Other(q) /\ setting' = setting
    BY <1>3 DEF Over, Other, IInv, Types
  <2> QED
    BY <2>1, <1>3, OthersKeepShape DEF IInv
<1> QED
  BY <1>1, <1>2, <1>3 DEF IInv

LEMMA UnwindStep ==
  ASSUME IInv, NEW p \in Procs, Unwind(p), Over(p)
  PROVE  IInv'
<1>1. Balance' /\ free' \in Nat /\ held' \subseteq Procs \X Sessions
  BY UnwindBalances DEF IInv
<1>2. \A s \in Sessions : <<p, s>> \notin held'
  BY DEF Unwind
<1>3. \A q \in Procs \ {p}, s \in Sessions : <<q, s>> \in held' <=> <<q, s>> \in held
  BY DEF Unwind
<1> QED
  BY <1>1, <1>2, <1>3, OverStep

LEMMA FinishStep ==
  ASSUME IInv, NEW p \in Procs, Finish(p)
  PROVE  IInv'
<1>1. Shape(p) /\ pc[p] = "last" /\ Give(p, "uow") /\ Over(p)
  BY DEF IInv, Finish
<1>2. <<p, "uow">> \in held /\ <<p, "actor">> \notin held /\ <<p, "token">> \notin held
  BY <1>1 DEF Shape, HoldsAtStep
<1>3. Balance' /\ free' \in Nat /\ held' \subseteq Procs \X Sessions
  BY <1>1, <1>2, GiveBalances DEF IInv
<1>4. \A s \in Sessions : <<p, s>> \notin held'
  BY <1>1, <1>2 DEF Give, Sessions
<1>5. \A q \in Procs \ {p}, s \in Sessions : <<q, s>> \in held' <=> <<q, s>> \in held
  BY <1>1 DEF Give
<1> QED
  BY <1>1, <1>3, <1>4, <1>5, OverStep

(* The statements after which the request goes on.                         *)
LEMMA MiddleStep ==
  ASSUME IInv, NEW p \in Procs, LoadActor(p) \/ Lookup(p) \/ Store(p)
  PROVE  IInv'
<1> DEFINE to == pc'[p]
<1>1. Shape(p) /\ Types /\ Balance
  BY DEF IInv
<1>2. /\ \E t \in {"wantUow", "wantToken", "last"} : pc' = [pc EXCEPT ![p] = t]
      /\ setting' = setting /\ kind' = kind
      /\ committed' = committed \/ committed' = committed \cup {p}
  BY DEF LoadActor, Lookup, Store
<1>3. \/ /\ pc[p] = "actor" /\ to = "wantUow" /\ Give(p, "actor") /\ committed' = committed
      \/ /\ pc[p] = "lookup" /\ to = "wantToken" /\ UNCHANGED <<free, held>>
         /\ committed' = committed
      \/ /\ pc[p] = "store" /\ to = "last" /\ Give(p, "token") /\ kind[p] \in Nested
      \/ /\ pc[p] = "store" /\ to = "wantUow" /\ Give(p, "token") /\ kind[p] \notin Nested
  <2>1. CASE LoadActor(p)
    BY <1>1, <2>1 DEF LoadActor, Types
  <2>2. CASE Lookup(p)
    BY <1>1, <2>2 DEF Lookup, Types
  <2>3. CASE Store(p) /\ kind[p] \in Nested
    BY <1>1, <2>3 DEF Store, Types
  <2>4. CASE Store(p) /\ kind[p] \notin Nested
    BY <1>1, <2>4 DEF Store, Types
  <2> QED
    BY <2>1, <2>2, <2>3, <2>4
<1>4. Balance' /\ free' \in Nat /\ held' \subseteq Procs \X Sessions
  <2>1. CASE \E s \in {"actor", "token"} : <<p, s>> \in held /\ Give(p, s)
    BY <1>1, <2>1, GiveBalances
  <2>2. CASE UNCHANGED <<free, held>>
    BY <1>1, <2>2 DEF Balance, Types
  <2> QED
    BY <1>1, <1>3, <2>1, <2>2 DEF Shape, HoldsAtStep
<1>5. Types'
  BY <1>1, <1>2, <1>4 DEF Types, Steps, Waits
<1>6. Shape(p)'
  <2>1. pc'[p] = to /\ kind'[p] = kind[p] /\ setting' = setting
    BY <1>1, <1>2 DEF Types
  <2>2. \A s \in Sessions : <<p, s>> \in held' <=>
            <<p, s>> \in held /\ ~(s = "actor" /\ pc[p] = "actor")
                             /\ ~(s = "token" /\ pc[p] = "store")
    BY <1>1, <1>3 DEF Give, Shape, HoldsAtStep, Sessions
  <2>3. StepOfKind(p)'
    BY <1>1, <1>3, <2>1 DEF Types, Kinds, Shape, StepOfKind, NestedSteps, LogoutSteps,
       PlainSteps, Nested
  <2>4. HoldsAtStep(p)'
    BY <1>1, <1>3, <2>1, <2>2 DEF Shape, HoldsAtStep, StepOfKind, LogoutSteps, PlainSteps,
       Types, Kinds, Sessions, Nested
  <2>5. Commits(p)'
    BY <1>1, <1>3, <2>1 DEF Shape, Commits, StepOfKind, PlainSteps, Types, Kinds, Nested
  <2> QED
    BY <2>3, <2>4, <2>5 DEF Shape
<1>7. ASSUME NEW q \in Procs, q # p PROVE Shape(q)'
  <2>1. /\ pc'[q] = pc[q] /\ kind'[q] = kind[q] /\ setting' = setting
        /\ q \in committed' <=> q \in committed
    BY <1>1, <1>2, <1>7 DEF Types
  <2>2. \A s \in Sessions : <<q, s>> \in held' <=> <<q, s>> \in held
    BY <1>3, <1>7 DEF Give
  <2> QED
    BY <2>1, <2>2, <1>7, OthersKeepShape DEF IInv, Other
<1> QED
  BY <1>4, <1>5, <1>6, <1>7 DEF IInv

-----------------------------------------------------------------------------
LEMMA InitIInv == Init => IInv
<1> SUFFICES ASSUME Init PROVE IInv
  OBVIOUS
<1>1. Types
  BY CapacityNat DEF Init, Types, Kinds, Steps
<1>2. Balance
  BY FS_EmptySet, CapacityNat DEF Init, Balance
<1>3. \A p \in Procs : Shape(p)
  BY DEF Init, Shape, StepOfKind, HoldsAtStep, Commits, Nested
<1> QED
  BY <1>1, <1>2, <1>3 DEF IInv

LEMMA NextIInv == IInv /\ [Next]_vars => IInv'
<1> SUFFICES ASSUME IInv, [Next]_vars PROVE IInv'
  OBVIOUS
<1>1. CASE UNCHANGED vars
  BY <1>1 DEF vars, IInv, Types, Balance, Shape, StepOfKind, HoldsAtStep, Commits
<1>2. CASE Next
  <2>1. PICK p \in Procs :
          \/ BeginNested(p) \/ BeginLogout(p) \/ BeginPlain(p)
          \/ Checkout(p) \/ Statement(p) \/ Fail(p) \/ Timeout(p)
    BY <1>2 DEF Next
  <2>2. CASE BeginNested(p) \/ BeginLogout(p) \/ BeginPlain(p)
    BY <2>2, BeginStep
  <2>3. CASE Checkout(p)
    BY <2>3, TakeStep
  <2>4. CASE Statement(p)
    BY <2>4, MiddleStep, FinishStep DEF Statement
  <2>5. CASE Fail(p) \/ Timeout(p)
    BY <2>5, UnwindStep DEF Fail, Timeout
  <2> QED
    BY <2>1, <2>2, <2>3, <2>4, <2>5
<1> QED
  BY <1>1, <1>2

LEMMA Inductive == Spec => []IInv
  BY InitIInv, NextIInv, PTL DEF Spec

(* The invariants, for every number of requests, pool and setting.         *)
THEOREM TypeCorrect == Spec => []TypeOK
<1>1. IInv => TypeOK
  <2> SUFFICES ASSUME IInv PROVE TypeOK
    OBVIOUS
  <2>1. Cardinality(held) \in Nat /\ free \in Nat /\ free + Cardinality(held) = Capacity
    BY FS_CardinalityType DEF IInv, Balance, Types
  <2>2. free \in 0 .. Capacity
    BY <2>1, CapacityNat
  <2> QED
    BY <2>2 DEF IInv, Types, TypeOK
<1> QED
  BY <1>1, Inductive, PTL

(* No way for a request to end leaks one of the pool's connections.        *)
THEOREM NoLeak == Spec => []ConnectionsAccounted
<1>1. IInv => ConnectionsAccounted
  <2> SUFFICES ASSUME IInv, NEW p \in Procs, Holds(p)
               PROVE  free + Cardinality(held) = Capacity /\ pc[p] # "idle"
    BY DEF ConnectionsAccounted, IInv, Balance
  <2>1. Shape(p)
    BY DEF IInv
  <2>2. pc[p] # "idle"
    BY <2>1 DEF Shape, StepOfKind, HoldsAtStep, Holds, Sessions, Nested, NestedSteps
  <2> QED
    BY <2>2 DEF IInv, Balance
<1> QED
  BY <1>1, Inductive, PTL

LEMMA HoldersThatWait ==
  ASSUME IInv, NEW p \in Procs, Waiting(p), Holds(p)
  PROVE  /\ kind[p] \in Nested /\ pc[p] = "wantToken" /\ p \in setting.nested
         /\ \A s \in Sessions : <<p, s>> \in held <=> s = "uow"
<1>1. Shape(p)
  BY DEF IInv
<1>2. kind[p] \in Nested /\ pc[p] = "wantToken"
  BY <1>1 DEF Shape, HoldsAtStep, Holds, Waiting, Waits, Sessions
<1> QED
  BY <1>1, <1>2 DEF Shape, HoldsAtStep, StepOfKind, Sessions

(* Only logins and refreshes hold a connection while they wait.            *)
THEOREM HoldAndWait == Spec => []OnlyTokenIssueHoldsAndWaits
<1>1. IInv => OnlyTokenIssueHoldsAndWaits
  <2> SUFFICES ASSUME IInv, NEW p \in Procs, Waiting(p), Holds(p)
               PROVE  /\ kind[p] \in Nested /\ pc[p] = "wantToken"
                      /\ {s \in Sessions : <<p, s>> \in held} = {"uow"}
    BY DEF OnlyTokenIssueHoldsAndWaits
  <2> QED
    BY HoldersThatWait DEF Sessions
<1> QED
  BY <1>1, Inductive, PTL

(* Fewer logins and refreshes at a time than connections: never stuck.     *)
THEOREM PoolProgress == Spec => []ProgressBelowCapacity
<1>1. IInv => ProgressBelowCapacity
  <2> SUFFICES ASSUME IInv, Cardinality(setting.nested) < Capacity, ~(free > 0),
                      \A p \in Procs : Holds(p) => Waiting(p)
               PROVE  FALSE
    BY DEF ProgressBelowCapacity
  <2>1. setting.nested \subseteq Procs
    BY SettingsAssumption DEF IInv, Types
  <2>2. IsFiniteSet(setting.nested)
    BY <2>1, ProcsAssumption, FS_Subset
  <2>3. held \subseteq setting.nested \X {"uow"}
    <3> SUFFICES ASSUME NEW p \in Procs, NEW s \in Sessions, <<p, s>> \in held
                 PROVE  p \in setting.nested /\ s = "uow"
      BY DEF IInv, Types
    <3>1. Holds(p) /\ Waiting(p)
      BY DEF Holds
    <3> QED
      BY <3>1, HoldersThatWait
  <2>4. IsFiniteSet({"uow"}) /\ Cardinality({"uow"}) = 1
    BY FS_Singleton
  <2>5. /\ IsFiniteSet(setting.nested \X {"uow"})
        /\ Cardinality(setting.nested \X {"uow"}) = Cardinality(setting.nested) * 1
    BY <2>2, <2>4, FS_Product
  <2>6. Cardinality(held) <= Cardinality(setting.nested) * 1
    BY <2>3, <2>5, FS_Subset
  <2>7. Cardinality(setting.nested) \in Nat /\ Cardinality(held) \in Nat
    BY <2>2, FS_CardinalityType DEF IInv, Balance
  <2>8. free = 0 /\ Cardinality(held) = Capacity
    BY <2>7, CapacityNat DEF IInv, Types, Balance
  <2> QED
    BY <2>6, <2>7, <2>8, CapacityNat
<1> QED
  BY <1>1, Inductive, PTL

(* A failed wait leaves nothing behind, but for a logout's.                *)
THEOREM RetryFindsNothing == Spec => []WaitsBeforeItCommits
<1>1. IInv => WaitsBeforeItCommits
  BY DEF IInv, Types, Shape, Commits, WaitsBeforeItCommits, Waiting, Waits
<1> QED
  BY <1>1, Inductive, PTL
-----------------------------------------------------------------------------
(* Every request goes one way through its use case.                        *)

Nearer(p) ==
    /\ pc[p] = "idle" \/ Ahead(p)' < Ahead(p)
    /\ \A q \in Procs \ {p} : pc'[q] = pc[q] /\ kind'[q] = kind[q]

LEMMA BeginsAtIdle ==
  ASSUME IInv, NEW p \in Procs, BeginNested(p) \/ BeginLogout(p) \/ BeginPlain(p)
  PROVE  Nearer(p)
<1>1. PICK k, first : Begin(p, k, first)
  BY DEF BeginNested, BeginLogout, BeginPlain
<1> QED
  BY <1>1 DEF IInv, Types, Begin, Nearer

(* A request that is over has nothing ahead of it.                         *)
LEMMA OverIsNearer ==
  ASSUME IInv, NEW p \in Procs, pc[p] # "idle", Over(p)
  PROVE  Nearer(p)
<1>1. pc[p] \in Steps /\ pc'[p] = "idle"
  BY DEF IInv, Types, Over
<1>2. Ahead(p)' = 0
  BY <1>1 DEF Ahead
<1>3. Ahead(p) \in 1 .. 6
  BY <1>1 DEF Ahead, Steps, Waits
<1>4. \A q \in Procs \ {p} : pc'[q] = pc[q] /\ kind'[q] = kind[q]
  BY DEF IInv, Types, Over
<1> QED
  BY <1>2, <1>3, <1>4 DEF Nearer

(* What a step that goes on leads to, by the kind of the request.          *)
LEMMA StepsOn ==
  ASSUME IInv, NEW p \in Procs,
         Checkout(p) \/ LoadActor(p) \/ Lookup(p) \/ Store(p)
  PROVE  Nearer(p)
<1>1. Shape(p) /\ Types
  BY DEF IInv
<1>2. \E to : pc' = [pc EXCEPT ![p] = to]
  BY DEF Checkout, TakeActor, TakeUow, TakeToken, Take, LoadActor, Lookup, Store
<1>3. kind' = kind
  BY DEF Checkout, TakeActor, TakeUow, TakeToken, Take, LoadActor, Lookup, Store
<1>4. \/ pc[p] = "wantActor" /\ pc'[p] = "actor"
      \/ pc[p] = "wantUow" /\ kind[p] \in Nested /\ pc'[p] = "lookup"
      \/ pc[p] = "wantUow" /\ kind[p] \notin Nested /\ pc'[p] = "last"
      \/ pc[p] = "wantToken" /\ pc'[p] = "store"
      \/ pc[p] = "actor" /\ pc'[p] = "wantUow"
      \/ pc[p] = "lookup" /\ pc'[p] = "wantToken"
      \/ pc[p] = "store" /\ kind[p] \in Nested /\ pc'[p] = "last"
      \/ pc[p] = "store" /\ kind[p] \notin Nested /\ pc'[p] = "wantUow"
  <2>1. CASE Checkout(p)
    BY <1>1, <2>1 DEF Types, Checkout, TakeActor, TakeUow, TakeToken, Take
  <2>2. CASE LoadActor(p) \/ Lookup(p) \/ Store(p)
    BY <1>1, <2>2 DEF Types, LoadActor, Lookup, Store
  <2> QED
    BY <2>1, <2>2
<1>5. pc[p] = "actor" => kind[p] \notin Nested
  BY <1>1 DEF Shape, StepOfKind, NestedSteps
<1>6. Ahead(p)' < Ahead(p)
  BY <1>3, <1>4, <1>5 DEF Ahead
<1>7. \A q \in Procs \ {p} : pc'[q] = pc[q] /\ kind'[q] = kind[q]
  BY <1>1, <1>2, <1>3 DEF Types
<1> QED
  BY <1>6, <1>7 DEF Nearer

(* However requests and their waits interleave, none goes back a step: one *)
(* that fails, or whose wait is ended, is over at once, and the others ask *)
(* for each of their connections once.                                     *)
THEOREM RequestsGoOn == Spec => RequestsAdvance
<1>1. IInv /\ [Next]_vars => [\E p \in Procs : Nearer(p)]_vars
  <2> SUFFICES ASSUME IInv, Next PROVE \E p \in Procs : Nearer(p)
    OBVIOUS
  <2>1. PICK p \in Procs :
          \/ BeginNested(p) \/ BeginLogout(p) \/ BeginPlain(p)
          \/ Checkout(p) \/ Statement(p) \/ Fail(p) \/ Timeout(p)
    BY DEF Next
  <2>2. CASE BeginNested(p) \/ BeginLogout(p) \/ BeginPlain(p)
    BY <2>2, BeginsAtIdle
  <2>3. CASE Checkout(p) \/ LoadActor(p) \/ Lookup(p) \/ Store(p)
    BY <2>3, StepsOn
  <2>4. CASE Finish(p) \/ Fail(p) \/ Timeout(p)
    <3>1. pc[p] # "idle" /\ Over(p)
      BY <2>4 DEF Finish, Fail, Timeout, Waiting, Waits
    <3> QED
      BY <3>1, OverIsNearer
  <2> QED
    BY <2>1, <2>2, <2>3, <2>4 DEF Statement
<1>2. [\E p \in Procs : Nearer(p)]_vars =>
        [\E p \in Procs :
            /\ pc[p] = "idle" \/ Ahead(p)' < Ahead(p)
            /\ \A q \in Procs \ {p} : pc'[q] = pc[q] /\ kind'[q] = kind[q]]_vars
  BY DEF Nearer
<1> QED
  BY <1>1, <1>2, Inductive, PTL DEF Spec, RequestsAdvance
=============================================================================
