---------------------------- MODULE MCGreTunnel -----------------------------
(* The bridges of topology.py, and a third.                                *)
EXTENDS GreTunnel

CONSTANTS BRG1, BRG2, BRG3

ThreeBrgs == {BRG1, BRG2, BRG3}
=============================================================================
