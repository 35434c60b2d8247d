---------------------------- MODULE MCRandomWalk ----------------------------
(* Instances of RandomWalk for TLC.                                        *)
EXTENDS RandomWalk

P(a, b) == [x |-> a, y |-> b]

Origin == P(0, 0)
LowerLeft == P(-4, -4)
Square == P(4, 4)
EightWays == {P(a, b) : a, b \in {-1, 0, 1}} \ {P(0, 0)}
=============================================================================
