--------------------------- MODULE TunnelService ----------------------------
(***************************************************************************)
(* What a program that creates tunnels on demand promises: its tunnels are *)
(* numbered in the order of their creation, a peer gets one, and none is   *)
(* ever changed or given up.                                               *)
(***************************************************************************)
EXTENDS Sequences, SequencesExt

CONSTANT Peers

VARIABLE served   \* the peers with a tunnel, in the order of the numbers

Init == served = <<>>

Serve(p) == p \notin ToSet(served) /\ served' = Append(served, p)

Next == \E p \in Peers : Serve(p)

Spec == Init /\ [][Next]_served
=============================================================================
