---------------------------- MODULE MCStaWifiMac ----------------------------
(* Instances of StaWifiMac for TLC.                                        *)
EXTENDS StaWifiMac

CONSTANTS a1, a2

Cap(g) == [shortPreamble |-> g, shortSlot |-> g, barker |-> FALSE,
           useProtection |-> ~g, erpRates |-> g, qos |-> g, ht |-> g,
           nonGf |-> FALSE, vht |-> FALSE, he |-> FALSE]

TwoAps == {a1, a2}
OneAp == {a1}
TwoSnrs == {10, 100}
ShortIntervals == [ap \in Aps |-> 1]
MixedCaps == [ap \in Aps |-> Cap(ap = a1)]
Db == [s \in Snrs \cup {0} |->
          CASE s = 0 -> -1000 [] s = 10 -> 10 [] s = 100 -> 20 [] s = 1000 -> 30]
ThreeSnrs == {10, 100, 1000}
Intervals == [ap \in Aps |-> IF ap = a1 THEN 1 ELSE 2]
=============================================================================
