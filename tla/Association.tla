---------------------------- MODULE Association -----------------------------
(***************************************************************************)
(* What the layers above may rely on from a station MAC: an association is *)
(* with the access point that was asked last, the access point does not    *)
(* change while associated, and the link is up whenever associated.        *)
(***************************************************************************)
CONSTANTS Aps, NoAp

VARIABLES
    phase,   \* "idle": scanning or refused; "asked": request sent; "up"
    ap,      \* the access point asked last
    link     \* what the upper layer was told last

vars == <<phase, ap, link>>

Init == phase = "idle" /\ ap = NoAp /\ link = "down"

\* A request is sent, possibly again and possibly to another access point.
Ask == /\ phase' = "asked"
       /\ ap' \in Aps \cup {NoAp}
       /\ UNCHANGED link

Accept == /\ phase = "asked"
          /\ phase' = "up"
          /\ link' = "up"
          /\ UNCHANGED ap

\* A refusal, a new scan or a loss; the last is reported.
GiveUp == /\ phase' = "idle"
          /\ link' \in {link, "down"}
          /\ UNCHANGED ap

Next == Ask \/ Accept \/ GiveUp

Spec == Init /\ [][Next]_vars
=============================================================================
