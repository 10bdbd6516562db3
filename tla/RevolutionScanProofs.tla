------------------------- MODULE RevolutionScanProofs -------------------------
(***************************************************************************)
(* RevolutionScan for every plate, every limit and every position count:   *)
(* the rounded moves of a complete scan add up to exactly one revolution,  *)
(* and no scan gets stuck on a move of zero steps.                         *)
(***************************************************************************)
EXTENDS RevolutionScan, TLAPS

(* Euclidean division, the only fact about \div that is used.              *)
LEMMA Division ==
  ASSUME NEW a \in Nat, NEW n \in Nat \ {0}
  PROVE  /\ a \div n \in Nat
         /\ n * (a \div n) <= a
         /\ a < n * (a \div n) + n
  OBVIOUS

LEMMA Quotient ==
  ASSUME NEW a \in Nat, NEW n \in Nat \ {0}, NEW q \in Nat,
         n * q <= a, a < n * q + n
  PROVE  a \div n = q
<1> DEFINE p == a \div n
<1>1. p \in Nat /\ n * p <= a /\ a < n * p + n
  BY Division
<1> HIDE DEF p
<1>2. ~(p < q)
  <2>1. SUFFICES ASSUME p + 1 <= q PROVE FALSE
    BY <1>1
  <2>2. n * (p + 1) <= n * q
    BY <1>1, <2>1
  <2>3. n * (p + 1) = n * p + n
    BY <1>1
  <2>4. QED
    BY <1>1, <2>2, <2>3
<1>3. ~(q < p)
  <2>1. SUFFICES ASSUME q + 1 <= p PROVE FALSE
    BY <1>1
  <2>2. n * (q + 1) <= n * p
    BY <1>1, <2>1
  <2>3. n * (q + 1) = n * q + n
    OBVIOUS
  <2>4. QED
    BY <1>1, <2>2, <2>3
<1>4. p = q
  BY <1>1, <1>2, <1>3
<1>5. QED
  BY <1>4 DEF p

LEMMA Half ==
  ASSUME NEW n \in Nat \ {0}
  PROVE  n \div 2 \in Nat /\ n \div 2 < n
  BY Division

(* The first target is the start, the last one a full revolution.          *)
LEMMA TargetEnds ==
  ASSUME NEW n \in Nat \ {0}
  PROVE  Target(n, 0) = 0 /\ Target(n, n) = Revolution
<1> DEFINE h == n \div 2
<1>1. h \in Nat /\ h < n
  BY Half
<1> HIDE DEF h
<1>2. (0 * Revolution + h) \div n = 0
  BY <1>1, Quotient, ScanAssumption
<1>3. (n * Revolution + h) \div n = Revolution
  <2>1. n * Revolution + h \in Nat /\ Revolution \in Nat
    BY <1>1, ScanAssumption
  <2>2. n * Revolution <= n * Revolution + h /\ n * Revolution + h < n * Revolution + n
    BY <1>1, <2>1
  <2>3. QED
    BY <2>1, <2>2, Quotient
<1>4. QED
  BY <1>2, <1>3 DEF Target, h

(* Adjacent targets are the even spacing apart, or one step more.          *)
LEMMA TargetStep ==
  ASSUME NEW n \in Nat \ {0}, NEW k \in Nat
  PROVE  /\ Target(n, k) \in Nat
         /\ Target(n, k + 1) - Target(n, k)
              \in {Revolution \div n, Revolution \div n + 1}
<1> DEFINE a == k * Revolution + n \div 2
           q == a \div n
           e == Revolution \div n
<1>1. a \in Nat /\ Revolution \in Nat
  BY Half, ScanAssumption
<1>2. (k + 1) * Revolution + n \div 2 = a + Revolution
  <2>1. n \div 2 \in Nat
    BY Half
  <2>2. (k + 1) * Revolution = k * Revolution + Revolution
    BY <1>1
  <2>3. QED
    BY <1>1, <2>1, <2>2
<1> HIDE DEF a
<1>3. q \in Nat /\ n * q <= a /\ a < n * q + n
  BY <1>1, Division
<1>4. e \in Nat /\ n * e <= Revolution /\ Revolution < n * e + n
  BY <1>1, Division
<1> HIDE DEF q, e
<1>5. n * (q + e) = n * q + n * e /\ n * (q + e + 1) = n * q + n * e + n
  BY <1>3, <1>4
<1>6. n * q \in Nat /\ n * e \in Nat
  BY <1>3, <1>4
<1>7. (a + Revolution) \div n \in {q + e, q + e + 1}
  <2>1. CASE a + Revolution < n * (q + e) + n
    BY <1>1, <1>3, <1>4, <1>5, <1>6, <2>1, Quotient
  <2>2. CASE ~(a + Revolution < n * (q + e) + n)
    <3>1. n * (q + e + 1) <= a + Revolution
      BY <1>1, <1>3, <1>4, <1>5, <1>6, <2>2
    <3>2. a + Revolution < n * (q + e + 1) + n
      BY <1>1, <1>3, <1>4, <1>5, <1>6
    <3>3. q + e + 1 \in Nat /\ a + Revolution \in Nat
      BY <1>1, <1>3, <1>4
    <3>4. QED
      BY <3>1, <3>2, <3>3, Quotient
  <2>3. QED
    BY <2>1, <2>2
<1>8. Target(n, k) = q /\ Target(n, k + 1) = (a + Revolution) \div n
  BY <1>2 DEF Target, q, a
<1>9. QED
  BY <1>3, <1>4, <1>7, <1>8 DEF e

(* With at most one position per step, no move is zero.                    *)
LEMMA MoveIsReal ==
  ASSUME TypeOK, CaptureIndex(plan) # 0
  PROVE  LET distance == plan.direction * NextDelta(plan)
             even == Revolution \div plan.positions
         IN  distance \in {even, even + 1} /\ distance # 0
<1> DEFINE n == plan.positions
           gap == Target(n, plan.moves + 1) - Target(n, plan.moves)
<1>1. /\ n \in Nat \ {0} /\ n <= Revolution /\ plan.moves \in Nat
      /\ plan.direction \in {-1, 1} /\ ~Exhausted(plan)
  BY ScanAssumption DEF TypeOK, Plan, CaptureIndex, Exhausted
<1>2. gap \in {Revolution \div n, Revolution \div n + 1} /\ gap \in Int
  <2>1. gap \in {Revolution \div n, Revolution \div n + 1}
    BY <1>1, TargetStep
  <2>2. Revolution \div n \in Nat
    BY <1>1, Division, ScanAssumption
  <2>3. QED
    BY <2>1, <2>2
<1>3. Revolution \div n # 0
  <2>1. SUFFICES ASSUME Revolution \div n = 0 PROVE FALSE
    OBVIOUS
  <2>2. Revolution < n * 0 + n
    BY <1>1, <2>1, Division, ScanAssumption
  <2>3. QED
    BY <1>1, <2>2, ScanAssumption
<1>4. Revolution \div n \in Nat
  BY <1>1, Division, ScanAssumption
<1> HIDE DEF gap
<1>5. plan.direction * (plan.direction * gap) = gap
  BY <1>1, <1>2
<1>6. NextDelta(plan) = plan.direction * gap
  BY <1>1 DEF NextDelta, gap
<1>7. plan.direction * NextDelta(plan) = gap
  BY <1>5, <1>6
<1>8. gap # 0
  BY <1>2, <1>3, <1>4
<1>9. QED
  BY <1>2, <1>7, <1>8

-----------------------------------------------------------------------------
Inv == TypeOK /\ OnTarget

LEMMA InitInv == Init => Inv
  BY ScanAssumption DEF Init, Inv, TypeOK, OnTarget, Plan, NoPlan

LEMMA InvStep == Inv /\ [Next]_vars => Inv'
<1> SUFFICES ASSUME TypeOK, OnTarget, [Next]_vars PROVE TypeOK' /\ OnTarget'
  BY DEF Inv
<1>1. ASSUME NEW request \in Requests, Configure(request)
      PROVE  TypeOK' /\ OnTarget'
  <2> DEFINE n == plan'.positions
  <2>1. plan' \in Plan /\ plan'.moves = 0 /\ travel' = 0 /\ n \in Nat
    BY <1>1, ScanAssumption, RequestsAssumption DEF Configure, Configurable, Configured, Plan
  <2>2. n # 0 => Target(n, 0) = 0
    BY <2>1, TargetEnds
  <2>3. QED
    BY <2>1, <2>2 DEF TypeOK, OnTarget, Plan
<1>2. CASE Begin
  <2> DEFINE n == plan.positions
  <2>1. plan' \in Plan /\ plan'.moves = 0 /\ plan'.positions = n /\ travel' = 0 /\ n \in Nat
    BY <1>2, ScanAssumption DEF Begin, Begun, TypeOK, Plan
  <2>2. n # 0 => Target(n, 0) = 0
    BY <2>1, TargetEnds
  <2>3. QED
    BY <2>1, <2>2 DEF TypeOK, OnTarget, Plan
<1>3. CASE Move
  <2> DEFINE n == plan.positions
             k == plan.moves
             d == plan.direction
  <2>1. n \in Nat \ {0} /\ k \in Nat /\ d \in {-1, 1} /\ k < n /\ n <= MaxPositions
    BY <1>3, ScanAssumption DEF Move, CaptureIndex, Exhausted, TypeOK, Plan
  <2>2. plan' = [plan EXCEPT !.moves = k + 1] /\ ~Exhausted(plan)
    BY <1>3, <2>1 DEF Move, MoveMarked, Exhausted
  <2>3. plan' \in Plan /\ plan'.moves = k + 1 /\ plan'.positions = n /\ plan'.direction = d
    BY <2>1, <2>2, ScanAssumption DEF TypeOK, Plan
  <2>4. Target(n, k) \in Int /\ Target(n, k + 1) \in Int
    BY <2>1, TargetStep
  <2>5. travel = d * Target(n, k)
    BY <2>1 DEF OnTarget
  <2>6. travel' = travel + d * (Target(n, k + 1) - Target(n, k))
    BY <1>3, <2>2 DEF Move, NextDelta
  <2>7. travel' = d * Target(n, k + 1)
    BY <2>1, <2>4, <2>5, <2>6
  <2>8. QED
    BY <2>1, <2>3, <2>4, <2>7 DEF TypeOK, OnTarget
<1>4. CASE UNCHANGED vars
  BY <1>4 DEF vars, TypeOK, OnTarget
<1>5. QED
  BY <1>1, <1>2, <1>3, <1>4 DEF Next

(* Rounding errors never accumulate, for every plate and position count.   *)
THEOREM StaysOnTarget == Spec => [](TypeOK /\ OnTarget)
  BY InitInv, InvStep, PTL DEF Spec, Inv

(* Every complete scan is one revolution in the requested direction.       *)
THEOREM TurnsOnce == Spec => []FullTurn
<1>1. TypeOK /\ OnTarget => FullTurn
  <2> SUFFICES ASSUME TypeOK, OnTarget, Complete(plan)
               PROVE  travel = plan.direction * Revolution
    BY DEF FullTurn
  <2>1. plan.moves = plan.positions /\ plan.positions \in Nat \ {0}
    BY DEF Complete, Exhausted, TypeOK, Plan
  <2>2. QED
    BY <2>1, TargetEnds DEF OnTarget
<1>2. QED
  BY <1>1, StaysOnTarget, PTL

(* No scan ends in MOTOR_START for want of a distance to move.             *)
THEOREM AlwaysMoves == Spec => []NextMoveIsReal
<1>1. TypeOK => NextMoveIsReal
  BY MoveIsReal DEF NextMoveIsReal
<1>2. QED
  BY <1>1, StaysOnTarget, PTL
=============================================================================
