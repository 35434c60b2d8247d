---------------------------- MODULE MCVcpeTunnel ----------------------------
(* The two bridges that setup.sh configures.                               *)
EXTENDS VcpeTunnel

CONSTANTS BRG1, BRG2

TwoBrgs == {BRG1, BRG2}
Sports == [b \in Brgs |-> IF b = BRG1 THEN 30000 ELSE 20000]
Dports == [b \in Brgs |-> IF b = BRG1 THEN 50000 ELSE 40000]
Keys == [b \in Brgs |-> IF b = BRG1 THEN 1 ELSE 2]
=============================================================================
