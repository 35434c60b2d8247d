---------------------------- MODULE MCBgpSession ----------------------------
EXTENDS BgpSession
RouterSet == {"r1", "r2"}
Ids == [r \in RouterSet |-> IF r = "r1" THEN 1 ELSE 2]
HoldTimes == [r \in RouterSet |-> IF r = "r1" THEN 9 ELSE 180]
NoHoldTimes == [r \in RouterSet |-> 0]
=============================================================================
