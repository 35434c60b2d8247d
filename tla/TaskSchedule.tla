---------------------------- MODULE TaskSchedule ----------------------------
(***************************************************************************)
(* What the event loop of Quagga promises to the code that uses it: a task *)
(* that is armed runs once, not before its time and not once disarmed; the *)
(* events posted for one owner run in the order they were posted.          *)
(***************************************************************************)
EXTENDS Integers, Sequences

CONSTANTS Slots, Owners, Owner, Delays, Vals

VARIABLES armed,   \* for each slot NotArmed or the time left, 0 when it may run
          posted   \* for each owner the values of its events, oldest first

NotArmed == -1

Init == armed = [s \in Slots |-> NotArmed] /\ posted = [o \in Owners |-> <<>>]

Arm(s) ==
    /\ armed[s] = NotArmed
    /\ \E d \in Delays[s] : armed' = [armed EXCEPT ![s] = d]
    /\ UNCHANGED posted

Disarm(s) ==
    /\ armed[s] # NotArmed
    /\ armed' = [armed EXCEPT ![s] = NotArmed]
    /\ UNCHANGED posted

Fire(s) == armed[s] = 0 /\ Disarm(s)

Post(o, v) ==
    /\ posted' = [posted EXCEPT ![o] = Append(@, v)]
    /\ UNCHANGED armed

Handle(o) ==
    /\ posted[o] # <<>>
    /\ posted' = [posted EXCEPT ![o] = Tail(@)]
    /\ UNCHANGED armed

Stop(o) ==
    /\ posted' = [posted EXCEPT ![o] = <<>>]
    /\ armed' = [s \in Slots |-> IF Owner[s] = o THEN NotArmed ELSE armed[s]]

Tick ==
    /\ armed' = [s \in Slots |-> IF armed[s] > 0 THEN armed[s] - 1 ELSE armed[s]]
    /\ UNCHANGED posted

\* Inside one handler anything may be armed, disarmed, posted and stopped;
\* what runs next is one task whose time has come.
Next ==
    \/ \E s \in Slots : Arm(s) \/ Disarm(s) \/ Fire(s)
    \/ \E o \in Owners : Handle(o) \/ Stop(o) \/ \E v \in Vals : Post(o, v)
    \/ Tick

Spec == Init /\ [][Next]_<<armed, posted>>
=============================================================================
