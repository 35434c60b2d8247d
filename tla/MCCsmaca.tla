------------------------------ MODULE MCCsmaca ------------------------------
(* Instances of Csmaca for TLC.                                            *)
EXTENDS Csmaca

CONSTANTS s1, s2

TwoStations == {s1, s2}
Rates == [u \in Stations |-> IF u = s1 THEN 2 ELSE 1]
=============================================================================
