-------------------------- MODULE RandomWalkProofs --------------------------
(***************************************************************************)
(* The client of RandomWalk stays inside its area at every step, for any   *)
(* area, file and number of steps.                                         *)
(***************************************************************************)
EXTENDS RandomWalk, TLAPS

\* The positions that pass the test of the loop.
Tested(q) == /\ q.x <= Upper.x /\ q.x >= Lower.x
             /\ q.y <= Upper.x /\ q.y >= Lower.y

\* A movement under way ends where the test allowed it to.
WalkInv ==
    /\ TypeOK
    /\ Tested(pos)
    /\ chosen => Tested(After(pos, move, Steps - cnt))

\* The first of k steps along a line stays between the ends of the line, and
\* leaves k - 1 steps to the same end.
LEMMA FirstStep ==
    ASSUME NEW k \in Nat \ {0}, NEW p \in Int, NEW m \in Int,
           NEW lo \in Int, NEW hi \in Int,
           lo <= p, p <= hi, lo <= p + k * m, p + k * m <= hi
    PROVE  lo <= p + 1 * m /\ p + 1 * m <= hi
           /\ (p + 1 * m) + (k - 1) * m = p + k * m
<1>1. k * m = m + (k - 1) * m /\ (k - 1) * m \in Int /\ 1 * m = m
  OBVIOUS
<1>2. m >= 0 => (k - 1) * m >= 0
  OBVIOUS
<1>3. m <= 0 => (k - 1) * m <= 0
  OBVIOUS
<1> QED
  BY <1>1, <1>2, <1>3

\* After is componentwise.
LEMMA AfterFields ==
    ASSUME NEW p \in Position, NEW m \in Position, NEW n \in Int
    PROVE  /\ After(p, m, n) \in Position
           /\ After(p, m, n).x = p.x + n * m.x
           /\ After(p, m, n).y = p.y + n * m.y
<1>1. n * m.x \in Int /\ n * m.y \in Int /\ p.x \in Int /\ p.y \in Int
  BY DEF Position
<1> QED
  BY <1>1 DEF After, Position

\* One step of a movement under way stays where the test allows.
LEMMA StepStays ==
    ASSUME NEW p \in Position, NEW m \in Position, NEW k \in Nat \ {0},
           Tested(p), Tested(After(p, m, k))
    PROVE  /\ Tested(After(p, m, 1))
           /\ After(After(p, m, 1), m, k - 1) = After(p, m, k)
<1>1. Upper \in Position /\ Lower \in Position
  BY WalkAssumption
<1>2. /\ p.x \in Int /\ p.y \in Int /\ m.x \in Int /\ m.y \in Int
      /\ Upper.x \in Int /\ Lower.x \in Int /\ Lower.y \in Int
  BY <1>1 DEF Position
<1>3. /\ After(p, m, k).x = p.x + k * m.x /\ After(p, m, k).y = p.y + k * m.y
      /\ After(p, m, 1).x = p.x + 1 * m.x /\ After(p, m, 1).y = p.y + 1 * m.y
  BY DEF After
<1>4. /\ Lower.x <= p.x + 1 * m.x /\ p.x + 1 * m.x <= Upper.x
      /\ (p.x + 1 * m.x) + (k - 1) * m.x = p.x + k * m.x
  BY <1>2, <1>3, FirstStep DEF Tested
<1>5. /\ Lower.y <= p.y + 1 * m.y /\ p.y + 1 * m.y <= Upper.x
      /\ (p.y + 1 * m.y) + (k - 1) * m.y = p.y + k * m.y
  BY <1>2, <1>3, FirstStep DEF Tested
<1>6. Tested(After(p, m, 1))
  BY <1>3, <1>4, <1>5 DEF Tested
<1>7. After(After(p, m, 1), m, k - 1) = After(p, m, k)
  BY <1>3, <1>4, <1>5, Zenon DEF After
<1> QED
  BY <1>6, <1>7

\* A movement that is not illegal ends where the test allows.
LEMMA LegalIsTested ==
    ASSUME NEW p \in Position, NEW m \in Position, ~Illegal(p, m)
    PROVE  Tested(After(p, m, Steps))
<1>1. Upper \in Position /\ Lower \in Position /\ Steps \in Int
  BY WalkAssumption
<1>2. After(p, m, Steps) \in Position
  BY <1>1, AfterFields
<1> DEFINE q == After(p, m, Steps)
<1>3. ~(q.x > Upper.x \/ q.x < Lower.x \/ q.y > Upper.x \/ q.y < Lower.y)
  BY DEF Illegal
<1>4. q.x \in Int /\ q.y \in Int /\ Upper.x \in Int /\ Lower.x \in Int
      /\ Lower.y \in Int
  BY <1>1, <1>2 DEF Position
<1> QED
  BY <1>3, <1>4 DEF Tested

\* Every movement that can be read is a displacement.
LEMMA MovesTyped == Moves \cup {Still} \subseteq Position
BY WalkAssumption DEF Still, Position

\* The walk starts where the test allows.
LEMMA InitWalkInv == Init => WalkInv
<1> SUFFICES ASSUME Init PROVE WalkInv
  OBVIOUS
<1>1. file \in Seq(Moves)
  BY DEF Init
<1>2. Start \in Position /\ Still \in Position /\ Steps \in Nat \ {0}
  BY WalkAssumption, MovesTyped
<1>3. After(Start, Still, Steps) = Start
  <2>1. Start.x + Steps * 0 = Start.x /\ Start.y + Steps * 0 = Start.y
    BY <1>2 DEF Position
  <2> QED
    BY <1>2, <2>1 DEF After, Still, Position
<1>4. Tested(Start)
  BY <1>2, <1>3, StartAssumption, LegalIsTested
<1>5. TypeOK
  <2>1. chosen \in BOOLEAN /\ move \in Moves \cup {Still} /\ ~chosen
    BY Zenon DEF Init
  <2>2. cnt \in 0..Steps - 1 /\ ~(cnt > 0) /\ reports \in 0..1
    BY <1>2 DEF Init
  <2> QED
    BY <1>1, <1>2, <2>1, <2>2 DEF Init, TypeOK
<1> QED
  BY <1>4, <1>5 DEF Init, WalkInv

\* Reading and stepping keep the inductive invariant.
LEMMA NextWalkInv == WalkInv /\ [Next]_vars => WalkInv'
<1> SUFFICES ASSUME WalkInv, [Next]_vars PROVE WalkInv'
  OBVIOUS
<1>1. TypeOK /\ Tested(pos) /\ pos \in Position /\ move \in Position
      /\ cnt \in 0..Steps - 1 /\ Steps \in Nat \ {0}
  BY MovesTyped, WalkAssumption DEF WalkInv, TypeOK
<1>2. CASE ReadMovement
  <2>1. move' \in Moves \cup {Still} /\ file' \in Seq(Moves)
    BY <1>1, <1>2 DEF ReadMovement, GetSingleMovement, TypeOK
  <2>2. cnt = 0 /\ UNCHANGED <<pos, cnt, reports>>
    BY <1>1, <1>2 DEF ReadMovement, TypeOK
  <2>3. TypeOK'
    BY <1>1, <1>2, <2>1, <2>2 DEF ReadMovement, TypeOK
  <2>4. chosen' => Tested(After(pos, move', Steps))
    BY <1>1, <1>2, <2>1, MovesTyped, LegalIsTested DEF ReadMovement
  <2>5. Steps - cnt' = Steps
    BY <1>1, <2>2
  <2> QED
    BY <1>1, <2>2, <2>3, <2>4, <2>5 DEF WalkInv, Tested
<1>3. CASE Step
  <2>1. Steps - cnt \in Nat \ {0} /\ Tested(After(pos, move, Steps - cnt))
    BY <1>1, <1>3 DEF WalkInv, Step
  <2>2. Tested(After(pos, move, 1)) /\ After(pos, move, 1) \in Position
        /\ After(After(pos, move, 1), move, (Steps - cnt) - 1)
             = After(pos, move, Steps - cnt)
    BY <1>1, <2>1, StepStays, AfterFields
  <2>3. /\ cnt' \in 0..Steps - 1
        /\ cnt' # 0 => Steps - cnt' = (Steps - cnt) - 1
    BY <1>1, <1>3 DEF Step
  <2>4. TypeOK'
    <3>1. chosen' = (cnt' # 0) /\ reports' \in 0..1
      BY <1>1, <1>3 DEF Step, TypeOK
    <3>2. cnt' > 0 => cnt' # 0
      BY <2>3
    <3>3. chosen' \in BOOLEAN /\ (cnt' > 0 => chosen')
      BY <3>1, <3>2, Zenon
    <3> QED
      BY <1>1, <1>3, <2>2, <2>3, <3>1, <3>3 DEF Step, TypeOK
  <2>5. Tested(pos')
    BY <1>3, <2>2 DEF Step
  <2>6. chosen' => Tested(After(pos', move', Steps - cnt'))
    BY <1>3, <2>1, <2>2, <2>3 DEF Step
  <2> QED
    BY <2>4, <2>5, <2>6 DEF WalkInv, Tested
<1>4. CASE UNCHANGED vars
  BY <1>4 DEF vars, WalkInv, TypeOK, Tested, After
<1> QED
  BY <1>2, <1>3, <1>4 DEF Next

\* For any area, any file of movements and any number of steps, the client is
\* inside the area after every step, if the area is at least as high as wide.
THEOREM WalkStaysInside == Spec => []StaysInside
<1>1. WalkInv => StaysInside
  <2>1. Upper \in Position /\ Lower \in Position
    BY WalkAssumption
  <2> QED
    BY <2>1 DEF WalkInv, TypeOK, Tested, StaysInside, Inside, Position
<1> QED
  BY <1>1, InitWalkInv, NextWalkInv, PTL DEF Spec
=============================================================================
