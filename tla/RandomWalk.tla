----------------------------- MODULE RandomWalk -----------------------------
(***************************************************************************)
(* The walk of the echo client in lab6 task2 (random-walk.cc): movements   *)
(* are read from a file, one that would leave the area is skipped, and a   *)
(* legal one is made in Steps equal steps, one for each simulator event.   *)
(*                                                                         *)
(* A movement is the displacement in one step.  The rounding of cos, sin   *)
(* and of the sums is left out.                                            *)
(***************************************************************************)
EXTENDS Integers, Sequences

CONSTANTS
    Start,          \* the client's first position
    Upper, Lower,   \* bound[0] and bound[1]
    Moves,          \* the movements a file may hold
    MaxMoves,       \* bound on the length of the file
    Steps           \* steps that make up a movement

Position == [x : Int, y : Int]

ASSUME WalkAssumption ==
    /\ {Start, Upper, Lower} \subseteq Position
    /\ Moves \subseteq Position
    /\ MaxMoves \in Nat
    /\ Steps \in Nat \ {0}

VARIABLES
    file,           \* the movements not yet read
    pos, cnt, move,
    chosen,         \* the loop of Movement has found a legal movement
    reports         \* number of CheckLinkState calls, mod 2

vars == <<file, pos, cnt, move, chosen, reports>>

Still == [x |-> 0, y |-> 0]

After(p, m, n) == [x |-> p.x + n * m.x, y |-> p.y + n * m.y]

\* Variant of Illegal that looks one step ahead.
IllegalNextStep(p, m) ==
    LET q == After(p, m, 1) IN
    q.x > Upper.x \/ q.x < Lower.x \/ q.y > Upper.x \/ q.y < Lower.y

\* The condition of the loop; the third test reads bound[0].x.
Illegal(p, m) ==
    LET q == After(p, m, Steps) IN
    q.x > Upper.x \/ q.x < Lower.x \/ q.y > Upper.x \/ q.y < Lower.y

\* The area read by GetBoundary contains the client, in the sense of the test.
ASSUME StartAssumption == ~Illegal(Start, Still)

\* Variant of GetSingleMovement that keeps the last movement at the end.
LastMovement == IF file = <<>> THEN move ELSE Head(file)

\* At the end of the file fscanf assigns nothing: a movement with speed 0.
GetSingleMovement == IF file = <<>> THEN Still ELSE Head(file)

Init ==
    /\ file \in UNION {[1..n -> Moves] : n \in 0..MaxMoves}
    /\ pos = Start
    /\ cnt = 0 /\ move = Still /\ chosen = FALSE
    /\ reports = 0

\* Movement with cnt = 0: one movement is read and, if illegal, skipped.
ReadMovement ==
    /\ ~chosen
    /\ move' = GetSingleMovement
    /\ file' = IF file = <<>> THEN file ELSE Tail(file)
    /\ chosen' = ~Illegal(pos, move')
    /\ UNCHANGED <<pos, cnt, reports>>

\* The rest of Movement: one step, and after the last a report.
Step ==
    /\ chosen
    /\ pos' = After(pos, move, 1)
    /\ cnt' = (cnt + 1) % Steps
    /\ chosen' = (cnt' # 0)
    /\ reports' = IF cnt' = 0 THEN 1 - reports ELSE reports
    /\ UNCHANGED <<file, move>>

Next == ReadMovement \/ Step

\* The loop runs on, and each call of Movement schedules the next.
Spec == Init /\ [][Next]_vars /\ WF_vars(Next)

-----------------------------------------------------------------------------
\* The types of the walk; a movement is under way exactly while it is chosen.
TypeOK ==
    /\ file \in Seq(Moves)
    /\ pos \in Position /\ move \in Moves \cup {Still}
    /\ cnt \in 0..Steps - 1
    /\ chosen \in BOOLEAN /\ (cnt > 0 => chosen)
    /\ reports \in 0..1

Inside(p) == /\ p.x >= Lower.x /\ p.x <= Upper.x
             /\ p.y >= Lower.y /\ p.y <= Upper.y

\* In an area at least as high as wide, the client is inside after every
\* single step, not only where its movements end.  The premise is needed: the
\* loop compares y with the upper bound of x.
StaysInside == Upper.x <= Upper.y => Inside(pos)

\* The client reports its link again and again, also after the last movement
\* of the file: the loop that skips illegal movements ends.
KeepsReporting == []<>(reports = 0) /\ []<>(reports = 1)
=============================================================================
