------------------------------- MODULE Csmaca -------------------------------
(***************************************************************************)
(* The slotted CSMA/CA simulator of lab5 (csmaca and generate_pkt): one    *)
(* run of the inner loop, for one number of stations.  Every iteration of  *)
(* the loop is one action: packets arrive, and then the medium is idle, or *)
(* pending stations count down and may send, or a transmission goes on.    *)
(*                                                                         *)
(* Random draws are choices.  InterPktTime is kept as its floor, which is  *)
(* all that the code compares; SlotTime is the unit of time.               *)
(***************************************************************************)
EXTENDS Integers, FiniteSets, FiniteSetsExt

CONSTANTS
    Stations,
    SimuTime,            \* slots
    PktLen,              \* bits per packet
    CWmin, CWmax,
    Gaps,                \* floors of 1/poissrnd(lambda)/SlotTime
    FullTime,            \* FullTime[u]: slots PktLen bits take at StaRate(u)
    LongestTx            \* a bound on FullTime: the slowest of DataRate

ASSUME CsmaAssumption ==
    /\ SimuTime \in Nat
    /\ {PktLen, CWmin, CWmax} \subseteq Nat \ {0}
    /\ CWmin <= CWmax
    /\ Gaps \subseteq Nat \ {0} /\ Gaps # {}
    /\ LongestTx \in Nat /\ FullTime \in [Stations -> 0..LongestTx]

VARIABLES
    t,                   \* the next slot
    InterPktTime, StaPktCnt,
    StaPktQ, width,      \* the queue matrix, zero where unset, and its columns
    SentBitCnt, CW, backoff, isBusy, txTime, NumTx, NumCollision,
    offered,             \* history: bits that generate_pkt has queued
    air                  \* history: slots the last transmission still needs

vars == <<t, InterPktTime, StaPktCnt, StaPktQ, width, SentBitCnt, CW, backoff,
          isBusy, txTime, NumTx, NumCollision, offered, air>>

Cols == 1..SimuTime

Init ==
    /\ t = 1
    /\ InterPktTime \in [Stations -> Gaps]
    /\ StaPktCnt = [u \in Stations |-> 0]
    /\ StaPktQ = [u \in Stations |-> [j \in Cols |-> 0]]
    /\ width = 0
    /\ SentBitCnt = [u \in Stations |-> 0]
    /\ CW = [u \in Stations |-> CWmin]
    /\ backoff \in [Stations -> 1..CWmin]
    /\ isBusy = FALSE /\ txTime = 0
    /\ NumTx = 0 /\ NumCollision = 0
    /\ offered = [u \in Stations |-> 0]
    /\ air = 0

-----------------------------------------------------------------------------
(* generate_pkt: the state after the arrivals of slot t.                   *)

Arrived == {u \in Stations : InterPktTime[u] = 1}

Cnt(u) == IF u \in Arrived THEN StaPktCnt[u] + 1 ELSE StaPktCnt[u]

\* Row u of the matrix.
Queue(u) ==
    [j \in Cols |-> IF u \in Arrived /\ j = Cnt(u) THEN PktLen
                    ELSE StaPktQ[u][j]]

\* Assigning beyond the last column widens the matrix.
Width == Max({width} \cup {Cnt(u) : u \in Arrived})

\* Determines InterPktTime, offered, width and t.
GeneratePkt ==
    /\ t <= SimuTime
    /\ t' = t + 1
    /\ \E gap \in [Arrived -> Gaps] :
          InterPktTime' = [u \in Stations |-> IF u \in Arrived THEN gap[u]
                                             ELSE InterPktTime[u] - 1]
    /\ width' = Width
    /\ offered' = [u \in Stations |->
                     IF u \in Arrived THEN offered[u] + PktLen ELSE offered[u]]

-----------------------------------------------------------------------------
(* The rest of the slot.                                                   *)

uid == {u \in Stations : Cnt(u) > 0}

\* The pending stations that count down to 0 in this slot.
Senders == {u \in uid : backoff[u] = 1}

\* A lone sender takes its first packet out: columns 2..end move to 1..end-1.
Shift(u) ==
    IF Senders # {u} THEN Queue(u)
    ELSE [j \in Cols |-> IF j < Width THEN Queue(u)[j + 1] ELSE Queue(u)[j]]

\* Variant of Remaining that misses an arrival in the same slot.
RemainingStale(u) ==
    IF Senders = {u} THEN IF StaPktCnt[u] > 0 THEN StaPktCnt[u] - 1 ELSE 0
    ELSE Cnt(u)

Remaining(u) == IF Senders = {u} THEN Cnt(u) - 1 ELSE Cnt(u)

Doubled(u) == IF CW[u] * 2 >= CWmax THEN CWmax ELSE CW[u] * 2

NewCW(u) == IF u \notin Senders THEN CW[u]
            ELSE IF Senders = {u} THEN CWmin
            ELSE Doubled(u)

\* Variant of DrawFrom that draws before the window is updated.
DrawFromOldWindow(u) == 1..CW[u]

\* What the backoff of a sender is drawn from.
DrawFrom(u) == 1..NewCW(u)

TxSlots(u, bits) == IF bits = 0 THEN 0 ELSE FullTime[u]

\* The packets of a slot and, when the medium is idle, the countdown: common
\* to every slot in which the medium is idle.
IdleSlot ==
    /\ ~isBusy
    /\ GeneratePkt
    /\ StaPktCnt' = [u \in Stations |-> Remaining(u)]
    /\ StaPktQ' = [u \in Stations |-> Shift(u)]
    /\ CW' = [u \in Stations |-> NewCW(u)]
    /\ \E draw \in {f \in [Senders -> 1..CWmax] :
                      \A u \in Senders : f[u] \in DrawFrom(u)} :
          backoff' = [u \in Stations |-> IF u \in Senders THEN draw[u]
                                         ELSE IF u \in uid THEN backoff[u] - 1
                                         ELSE backoff[u]]

\* The history of the medium when nothing starts.
AirPasses == air' = IF air > 0 THEN air - 1 ELSE 0

\* Nobody reaches zero, or nobody is pending.
CountDown ==
    /\ Senders = {}
    /\ IdleSlot
    /\ AirPasses
    /\ UNCHANGED <<SentBitCnt, isBusy, txTime, NumTx, NumCollision>>

\* One sender: its packet is sent.  txTime is computed from the first column
\* after the shift, so it is the time of the NEXT packet, 0 if there is none.
Success(w) ==
    /\ Senders = {w}
    /\ IdleSlot
    /\ SentBitCnt' = [SentBitCnt EXCEPT ![w] = @ + Queue(w)[1]]
    /\ isBusy' = TRUE
    /\ txTime' = TxSlots(w, Shift(w)[1])
    /\ NumTx' = NumTx + 1
    /\ air' = FullTime[w]
    /\ UNCHANGED NumCollision

\* Variant of Collision that holds the medium for the shortest packet.
CollisionShortest ==
    /\ Cardinality(Senders) > 1
    /\ IdleSlot
    /\ isBusy' = TRUE
    /\ txTime' = Min({TxSlots(u, Queue(u)[1]) : u \in Senders})
    /\ NumTx' = NumTx + 1
    /\ NumCollision' = NumCollision + 1
    /\ air' = Max({FullTime[u] : u \in Senders})
    /\ UNCHANGED SentBitCnt

Collision ==
    /\ Cardinality(Senders) > 1
    /\ IdleSlot
    /\ isBusy' = TRUE
    /\ txTime' = Max({TxSlots(u, Queue(u)[1]) : u \in Senders})
    /\ NumTx' = NumTx + 1
    /\ NumCollision' = NumCollision + 1
    /\ air' = Max({FullTime[u] : u \in Senders})
    /\ UNCHANGED SentBitCnt

Busy ==
    /\ isBusy
    /\ GeneratePkt
    /\ StaPktCnt' = [u \in Stations |-> Cnt(u)]
    /\ StaPktQ' = [u \in Stations |-> Queue(u)]
    /\ txTime' = txTime - 1
    /\ isBusy' = (txTime - 1 > 0)
    /\ AirPasses
    /\ UNCHANGED <<SentBitCnt, CW, backoff, NumTx, NumCollision>>

Finished == t > SimuTime /\ UNCHANGED vars

Next == \/ CountDown
        \/ \E w \in Stations : Success(w)
        \/ Collision
        \/ Busy
        \/ Finished

Spec == Init /\ [][Next]_vars

-----------------------------------------------------------------------------
\* The types of the loop's variables; the counters are bounded by the slots.
TypeOK ==
    /\ t \in 1..SimuTime + 1
    /\ InterPktTime \in [Stations -> Nat \ {0}]
    /\ StaPktCnt \in [Stations -> 0..SimuTime]
    /\ StaPktQ \in [Stations -> [Cols -> {0, PktLen}]]
    /\ width \in 0..SimuTime
    /\ SentBitCnt \in [Stations -> Nat]
    /\ CW \in [Stations -> CWmin..CWmax]
    /\ backoff \in [Stations -> Nat]
    /\ isBusy \in BOOLEAN /\ txTime \in Int
    /\ NumTx \in Nat /\ NumCollision \in Nat
    /\ offered \in [Stations -> Nat] /\ air \in Nat

\* A station's counter is at least 1 and within its current window between
\* slots, so min(backoff(uid)) == 0 catches every station that reaches zero:
\* a counter that slipped below would never be found again.
BackoffInWindow == \A u \in Stations : backoff[u] \in 1..CW[u]

\* The first StaPktCnt(u) columns of row u hold the queued packets, through
\* any order of arrivals, widenings by other stations and shifts.
QueueHoldsPackets ==
    \A u \in Stations : \A j \in 1..StaPktCnt[u] : StaPktQ[u][j] = PktLen

\* Every bit that generate_pkt queued is sent or still counted, once.
BitsConserved ==
    \A u \in Stations : SentBitCnt[u] + PktLen * StaPktCnt[u] = offered[u]

\* The medium is held for what is left on the air, through collisions of
\* packets of different lengths and whatever arrives meanwhile.  The one
\* exception is a lone sender that has emptied its queue: its txTime, read
\* after the shift, is 0 (see BusyWhileOnAir).
HeldWhileSending ==
    isBusy => \/ txTime = air
              \/ txTime = 0 /\ \E u \in Stations : StaPktCnt[u] = 0

-----------------------------------------------------------------------------
(* A claim of the source that the code does not keep.                      *)

\* isBusy is the "flag denoting whether the medium is busy": it is set while
\* the packets that were sent are still on the air.
BusyWhileOnAir == air > 0 => isBusy
=============================================================================
