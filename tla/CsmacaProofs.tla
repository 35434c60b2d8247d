---------------------------- MODULE CsmacaProofs ----------------------------
(***************************************************************************)
(* The slot loop of Csmaca keeps its queues, counters and windows in order *)
(* for any number of stations, slots and windows.                          *)
(***************************************************************************)
EXTENDS Csmaca, FiniteSetTheorems, WellFoundedInduction, TLAPS

\* A bounded set of naturals has the greatest element that Max chooses.
LEMMA GreatestNatural ==
    ASSUME NEW b \in Nat, NEW T \in SUBSET (0..b), T # {}
    PROVE  Max(T) \in T /\ \A y \in T : y <= Max(T)
<1> DEFINE D == {b - y : y \in T}
           R == OpToRel(<, Nat)
<1>1. D \in SUBSET Nat /\ D # {}
  OBVIOUS
<1>2. IsWellFoundedOn(R, Nat)
  BY NatLessThanWellFounded
<1> HIDE DEF D, R
<1>3. PICK d \in D : \A e \in D : ~(<<e, d>> \in R)
  BY <1>1, <1>2, WFMin, Zenon
<1>4. d \in Nat /\ \A e \in D : ~(e < d)
  BY <1>1, <1>3 DEF R, OpToRel
<1>5. PICK x \in T : d = b - x
  BY DEF D
<1>6. \A y \in T : b - y \in D
  BY DEF D
<1>7. \A y \in T : x >= y
  BY <1>4, <1>5, <1>6
<1>8. Max(T) \in T /\ \A y \in T : Max(T) >= y
  BY <1>7 DEF Max
<1> QED
  BY <1>8

\* The queues never outgrow the columns of the matrix, nor those the slots.
Bounds == width < t /\ \A u \in Stations : StaPktCnt[u] <= width

CsmaInv == TypeOK /\ BackoffInWindow /\ QueueHoldsPackets /\ BitsConserved
           /\ Bounds

\* A packet more or less counts PktLen.
LEMMA OnePacket ==
    ASSUME NEW c \in Nat
    PROVE  /\ PktLen * (c + 1) = PktLen * c + PktLen
           /\ PktLen * (c - 1) = PktLen * c - PktLen
           /\ PktLen * c \in Nat
BY CsmaAssumption

\* What generate_pkt leaves: counts within the matrix and rows that hold them.
LEMMA ArrivalFacts ==
    ASSUME CsmaInv, t <= SimuTime
    PROVE  /\ Width \in 0..SimuTime /\ Width <= t /\ width <= Width
           /\ \A u \in Stations :
                 /\ Cnt(u) \in 0..SimuTime /\ Cnt(u) <= Width
                 /\ Queue(u) \in [Cols -> {0, PktLen}]
                 /\ \A j \in 1..Cnt(u) : Queue(u)[j] = PktLen
<1> USE CsmaAssumption
<1>1. /\ t \in Nat /\ width \in Nat /\ width < t /\ SimuTime \in Nat
      /\ \A u \in Stations : StaPktCnt[u] \in Nat /\ StaPktCnt[u] <= width
  BY DEF CsmaInv, TypeOK, Bounds
<1>2. \A u \in Stations : Cnt(u) \in Nat /\ Cnt(u) <= t
  BY <1>1 DEF Cnt
<1> DEFINE T == {width} \cup {Cnt(u) : u \in Arrived}
<1>3. T \in SUBSET (0..t) /\ T # {}
  BY <1>1, <1>2 DEF Arrived
<1>4. Max(T) \in T /\ \A y \in T : y <= Max(T)
  <2> HIDE DEF T
  <2> QED
    BY <1>1, <1>3, GreatestNatural
<1>5. Width \in 0..t /\ width <= Width /\ \A u \in Arrived : Cnt(u) <= Width
  BY <1>3, <1>4 DEF Width
<1>6. \A u \in Stations : Cnt(u) <= Width
  <2> TAKE u \in Stations
  <2>1. CASE u \in Arrived
    BY <1>5, <2>1
  <2>2. CASE u \notin Arrived
    BY <1>1, <1>5, <2>2 DEF Cnt
  <2> QED
    BY <2>1, <2>2
<1>7. ASSUME NEW u \in Stations PROVE Queue(u) \in [Cols -> {0, PktLen}]
  BY DEF Queue, CsmaInv, TypeOK
<1>8. ASSUME NEW u \in Stations, NEW j \in 1..Cnt(u)
      PROVE  Queue(u)[j] = PktLen
  <2>1. j \in Cols /\ StaPktCnt[u] \in Nat /\ Cnt(u) \in Nat
    BY <1>1, <1>2 DEF Cols
  <2>2. Queue(u)[j] = IF u \in Arrived /\ j = Cnt(u) THEN PktLen
                      ELSE StaPktQ[u][j]
    BY <2>1 DEF Queue
  <2>3. ~(u \in Arrived /\ j = Cnt(u)) => j \in 1..StaPktCnt[u]
    BY <2>1 DEF Cnt
  <2> QED
    BY <2>2, <2>3 DEF CsmaInv, QueueHoldsPackets
<1> QED
  BY <1>1, <1>2, <1>5, <1>6, <1>7, <1>8

\* Every slot adds its arrivals to what was offered.
LEMMA OfferedFacts ==
    ASSUME CsmaInv, GeneratePkt
    PROVE  /\ offered' \in [Stations -> Nat]
           /\ \A u \in Stations :
                 SentBitCnt[u] + PktLen * Cnt(u) = offered'[u]
<1>1. ASSUME NEW u \in Stations
      PROVE  SentBitCnt[u] + PktLen * Cnt(u) = offered'[u]
  <2>1. StaPktCnt[u] \in Nat /\ SentBitCnt[u] \in Nat /\ offered[u] \in Nat
    BY CsmaAssumption DEF CsmaInv, TypeOK
  <2>2. SentBitCnt[u] + PktLen * StaPktCnt[u] = offered[u]
    BY DEF CsmaInv, BitsConserved
  <2>3. offered'[u] = IF u \in Arrived THEN offered[u] + PktLen ELSE offered[u]
    BY DEF GeneratePkt
  <2>4. PktLen * (StaPktCnt[u] + 1) = PktLen * StaPktCnt[u] + PktLen
        /\ PktLen * StaPktCnt[u] \in Nat /\ PktLen \in Nat
    BY <2>1, OnePacket, CsmaAssumption
  <2>5. CASE u \in Arrived
    BY <2>1, <2>2, <2>3, <2>4, <2>5 DEF Cnt
  <2>6. CASE u \notin Arrived
    BY <2>2, <2>3, <2>6 DEF Cnt
  <2> QED
    BY <2>5, <2>6
<1>2. offered' \in [Stations -> Nat]
  BY CsmaAssumption DEF GeneratePkt, CsmaInv, TypeOK
<1> QED
  BY <1>1, <1>2

\* The clock and the arrival times stay well typed.
LEMMA ClockFacts ==
    ASSUME CsmaInv, GeneratePkt
    PROVE  /\ t' = t + 1 /\ t' \in 1..SimuTime + 1 /\ t <= SimuTime
           /\ InterPktTime' \in [Stations -> Nat \ {0}]
           /\ width' = Width
<1>1. InterPktTime \in [Stations -> Nat \ {0}]
  BY DEF CsmaInv, TypeOK
<1>2. PICK gap \in [Arrived -> Gaps] :
         InterPktTime' = [u \in Stations |-> IF u \in Arrived THEN gap[u]
                                             ELSE InterPktTime[u] - 1]
  BY DEF GeneratePkt
<1>3. \A u \in Stations : u \notin Arrived => InterPktTime[u] - 1 \in Nat \ {0}
  BY <1>1 DEF Arrived
<1>4. InterPktTime' \in [Stations -> Nat \ {0}]
  BY <1>2, <1>3, CsmaAssumption
<1> QED
  BY <1>4, CsmaAssumption DEF GeneratePkt, CsmaInv, TypeOK

\* What a lone sender takes out is a packet.
LEMMA HeadIsPacket ==
    ASSUME CsmaInv, t <= SimuTime, NEW u \in Senders
    PROVE  u \in Stations /\ Cnt(u) \in Nat \ {0} /\ Queue(u)[1] = PktLen
<1>1. u \in Stations /\ Cnt(u) > 0 /\ Cnt(u) \in 0..SimuTime
  BY ArrivalFacts DEF Senders, uid
<1>2. 1 \in 1..Cnt(u)
  BY <1>1, CsmaAssumption
<1> QED
  BY <1>1, <1>2, ArrivalFacts, CsmaAssumption

\* The shift moves every remaining packet to the front, also when the matrix
\* is wider than the row is full.
LEMMA ShiftHolds ==
    ASSUME CsmaInv, t <= SimuTime, NEW u \in Stations
    PROVE  /\ Shift(u) \in [Cols -> {0, PktLen}]
           /\ Remaining(u) \in 0..SimuTime /\ Remaining(u) <= Width
           /\ \A j \in 1..Remaining(u) : Shift(u)[j] = PktLen
<1> USE CsmaAssumption
<1>1. /\ Width \in 0..SimuTime /\ Cnt(u) \in 0..SimuTime /\ Cnt(u) <= Width
      /\ Queue(u) \in [Cols -> {0, PktLen}]
      /\ \A j \in 1..Cnt(u) : Queue(u)[j] = PktLen
  BY ArrivalFacts
<1>2. CASE Senders = {u}
  <2>1. Cnt(u) \in Nat \ {0}
    BY <1>2, HeadIsPacket
  <2>2. Shift(u) = [j \in Cols |-> IF j < Width THEN Queue(u)[j + 1]
                                   ELSE Queue(u)[j]]
        /\ Remaining(u) = Cnt(u) - 1
    BY <1>2 DEF Shift, Remaining
  <2>3. \A j \in Cols : j < Width => j + 1 \in Cols
    BY <1>1 DEF Cols
  <2>4. Shift(u) \in [Cols -> {0, PktLen}]
    BY <1>1, <2>2, <2>3
  <2>5. ASSUME NEW j \in 1..Remaining(u) PROVE Shift(u)[j] = PktLen
    <3>1. j \in Cols /\ j < Width /\ j + 1 \in 1..Cnt(u)
      BY <1>1, <2>1, <2>2 DEF Cols
    <3> QED
      BY <1>1, <2>2, <3>1
  <2> QED
    BY <1>1, <2>1, <2>2, <2>4, <2>5
<1>3. CASE Senders # {u}
  BY <1>1, <1>3 DEF Shift, Remaining
<1> QED
  BY <1>2, <1>3

\* The window of a station stays between CWmin and CWmax.
LEMMA WindowFacts ==
    ASSUME CsmaInv, NEW u \in Stations
    PROVE  NewCW(u) \in CWmin..CWmax
<1>1. CW[u] \in CWmin..CWmax
  BY DEF CsmaInv, TypeOK
<1>2. Doubled(u) \in CWmin..CWmax
  BY <1>1, CsmaAssumption DEF Doubled
<1> QED
  BY <1>1, <1>2, CsmaAssumption DEF NewCW

\* A slot with an idle medium keeps the invariant, if the bits counted as sent
\* are those of a lone sender's packet.
LEMMA IdleSlotKeeps ==
    ASSUME CsmaInv, IdleSlot,
           SentBitCnt' = [u \in Stations |->
                            IF Senders = {u} THEN SentBitCnt[u] + PktLen
                            ELSE SentBitCnt[u]],
           txTime' \in Int, isBusy' \in BOOLEAN, air' \in Nat,
           NumTx' \in Nat, NumCollision' \in Nat
    PROVE  CsmaInv'
<1> USE CsmaAssumption
<1>1. GeneratePkt /\ t <= SimuTime
  BY DEF IdleSlot, GeneratePkt
<1>2. /\ t' = t + 1 /\ t' \in 1..SimuTime + 1 /\ width' = Width
      /\ InterPktTime' \in [Stations -> Nat \ {0}]
  BY <1>1, ClockFacts
<1>3. /\ StaPktCnt' = [u \in Stations |-> Remaining(u)]
      /\ StaPktQ' = [u \in Stations |-> Shift(u)]
      /\ CW' = [u \in Stations |-> NewCW(u)]
  BY DEF IdleSlot
<1>4. Width \in 0..SimuTime /\ Width <= t
  BY <1>1, ArrivalFacts
<1>5. StaPktCnt' \in [Stations -> 0..SimuTime]
      /\ StaPktQ' \in [Stations -> [Cols -> {0, PktLen}]]
  BY <1>1, <1>3, ShiftHolds
<1>6. CW' \in [Stations -> CWmin..CWmax]
  BY <1>3, WindowFacts
<1>7. QueueHoldsPackets'
  BY <1>1, <1>3, ShiftHolds DEF QueueHoldsPackets
<1>8. Bounds'
  <2>1. t \in Nat
    BY DEF CsmaInv, TypeOK
  <2>2. \A u \in Stations : StaPktCnt'[u] <= Width
    BY <1>1, <1>3, ShiftHolds
  <2> QED
    BY <1>2, <1>4, <2>1, <2>2 DEF Bounds
<1>9. BackoffInWindow' /\ backoff' \in [Stations -> Nat]
  <2>1. PICK draw \in [Senders -> 1..CWmax] :
           /\ \A u \in Senders : draw[u] \in DrawFrom(u)
           /\ backoff' = [u \in Stations |->
                            IF u \in Senders THEN draw[u]
                            ELSE IF u \in uid THEN backoff[u] - 1
                            ELSE backoff[u]]
    BY DEF IdleSlot
  <2>2. ASSUME NEW u \in Stations PROVE backoff'[u] \in 1..CW'[u]
    <3>1. backoff[u] \in 1..CW[u] /\ CW[u] \in Nat /\ NewCW(u) \in Nat
      BY WindowFacts DEF CsmaInv, BackoffInWindow, TypeOK
    <3>2. CASE u \in Senders
      BY <1>3, <2>1, <3>2 DEF DrawFrom
    <3>3. CASE u \notin Senders
      <4>1. CW'[u] = CW[u]
        BY <1>3, <3>3 DEF NewCW
      <4>2. u \in uid => backoff[u] # 1
        BY <3>3 DEF Senders
      <4> QED
        BY <2>1, <3>1, <3>3, <4>1, <4>2
    <3> QED
      BY <3>2, <3>3
  <2>3. \A u \in Stations : backoff'[u] \in Nat
    BY <1>6, <2>2
  <2> QED
    BY <2>1, <2>2, <2>3 DEF BackoffInWindow
<1>10. SentBitCnt' \in [Stations -> Nat]
  BY DEF CsmaInv, TypeOK
<1>11. BitsConserved' /\ offered' \in [Stations -> Nat]
  <2>1. ASSUME NEW u \in Stations
        PROVE  SentBitCnt'[u] + PktLen * StaPktCnt'[u] = offered'[u]
    <3>1. SentBitCnt[u] \in Nat /\ Cnt(u) \in Nat
          /\ SentBitCnt[u] + PktLen * Cnt(u) = offered'[u]
      BY <1>1, OfferedFacts, ArrivalFacts DEF CsmaInv, TypeOK
    <3>2. PktLen * (Cnt(u) - 1) = PktLen * Cnt(u) - PktLen
          /\ PktLen * Cnt(u) \in Nat
      BY <3>1, OnePacket
    <3>3. CASE Senders = {u}
      BY <1>3, <3>1, <3>2, <3>3 DEF Remaining
    <3>4. CASE Senders # {u}
      BY <1>3, <3>1, <3>4 DEF Remaining
    <3> QED
      BY <3>3, <3>4
  <2> QED
    BY <1>1, <2>1, OfferedFacts DEF BitsConserved
<1>12. TypeOK'
  BY <1>2, <1>4, <1>5, <1>6, <1>9, <1>10, <1>11 DEF TypeOK
<1> QED
  BY <1>7, <1>8, <1>9, <1>11, <1>12 DEF CsmaInv

\* The loop starts with empty queues and counters in the smallest window.
LEMMA InitCsmaInv == Init => CsmaInv
<1> SUFFICES ASSUME Init PROVE CsmaInv
  OBVIOUS
<1> USE CsmaAssumption
<1>1. TypeOK
  <2>1. /\ CWmin \in CWmin..CWmax /\ 1..CWmin \subseteq Nat
        /\ Gaps \subseteq Nat \ {0} /\ 0 \in 0..SimuTime
    OBVIOUS
  <2>2. StaPktQ \in [Stations -> [Cols -> {0, PktLen}]]
    BY DEF Init
  <2>3. backoff \in [Stations -> Nat]
    BY <2>1 DEF Init
  <2>4. CW \in [Stations -> CWmin..CWmax]
    BY <2>1 DEF Init
  <2>5. InterPktTime \in [Stations -> Nat \ {0}]
    BY <2>1 DEF Init
  <2>6. StaPktCnt \in [Stations -> 0..SimuTime]
        /\ SentBitCnt \in [Stations -> Nat] /\ offered \in [Stations -> Nat]
    BY <2>1 DEF Init
  <2>7. t \in 1..SimuTime + 1 /\ width \in 0..SimuTime
    BY <2>1 DEF Init
  <2>8. isBusy \in BOOLEAN
    BY Zenon DEF Init
  <2>9. txTime \in Int /\ NumTx \in Nat /\ NumCollision \in Nat /\ air \in Nat
    BY <2>1 DEF Init
  <2> QED
    BY <2>2, <2>3, <2>4, <2>5, <2>6, <2>7, <2>8, <2>9 DEF TypeOK
<1>2. BackoffInWindow /\ QueueHoldsPackets /\ Bounds
  BY DEF Init, BackoffInWindow, QueueHoldsPackets, Bounds
<1>3. BitsConserved
  BY DEF Init, BitsConserved
<1> QED
  BY <1>1, <1>2, <1>3 DEF CsmaInv

\* Every slot keeps the inductive invariant.
LEMMA NextCsmaInv == CsmaInv /\ [Next]_vars => CsmaInv'
<1> SUFFICES ASSUME CsmaInv, [Next]_vars PROVE CsmaInv'
  OBVIOUS
<1> USE CsmaAssumption
<1>1. /\ air \in Nat /\ txTime \in Int /\ NumTx \in Nat /\ NumCollision \in Nat
      /\ isBusy \in BOOLEAN /\ SentBitCnt \in [Stations -> Nat]
  BY DEF CsmaInv, TypeOK
<1>2. AirPasses => air' \in Nat
  BY <1>1 DEF AirPasses
<1>3. CASE CountDown
  <2>1. SentBitCnt' = [u \in Stations |->
                         IF Senders = {u} THEN SentBitCnt[u] + PktLen
                         ELSE SentBitCnt[u]]
    BY <1>1, <1>3 DEF CountDown
  <2> QED
    BY <1>1, <1>2, <1>3, <2>1, IdleSlotKeeps DEF CountDown
<1>4. ASSUME NEW w \in Stations, Success(w) PROVE CsmaInv'
  <2>1. Senders = {w} /\ IdleSlot /\ t <= SimuTime
    BY <1>4 DEF Success, IdleSlot, GeneratePkt
  <2>2. Queue(w)[1] = PktLen
    BY <2>1, HeadIsPacket
  <2>3. SentBitCnt' = [u \in Stations |->
                         IF Senders = {u} THEN SentBitCnt[u] + PktLen
                         ELSE SentBitCnt[u]]
    BY <1>1, <1>4, <2>1, <2>2 DEF Success
  <2>4. /\ txTime' \in Int /\ isBusy' \in BOOLEAN /\ air' \in Nat
        /\ NumTx' \in Nat /\ NumCollision' \in Nat
    BY <1>1, <1>4 DEF Success, TxSlots
  <2> QED
    BY <2>1, <2>3, <2>4, IdleSlotKeeps
<1>5. CASE Collision
  <2>1. IdleSlot /\ t <= SimuTime /\ Senders # {} /\ Senders \subseteq Stations
        /\ \A u : Senders # {u}
    <3>1. Senders # {} /\ \A u : Senders # {u}
      BY <1>5, FS_EmptySet, FS_Singleton DEF Collision
    <3> QED
      BY <1>5, <3>1 DEF Collision, IdleSlot, GeneratePkt, Senders, uid
  <2>2. SentBitCnt' = [u \in Stations |->
                         IF Senders = {u} THEN SentBitCnt[u] + PktLen
                         ELSE SentBitCnt[u]]
    BY <1>1, <1>5, <2>1 DEF Collision
  <2>3. txTime' \in Nat
    <3> DEFINE T == {TxSlots(u, Queue(u)[1]) : u \in Senders}
    <3>1. T \in SUBSET (0..LongestTx) /\ T # {}
      BY <2>1 DEF TxSlots
    <3>2. txTime' = Max(T)
      BY <1>5 DEF Collision
    <3> HIDE DEF T
    <3>3. Max(T) \in T
      BY <3>1, GreatestNatural
    <3>4. 0..LongestTx \subseteq Nat
      OBVIOUS
    <3> QED
      BY ONLY <3>1, <3>2, <3>3, <3>4, Zenon
  <2>4. air' \in Nat
    <3> DEFINE T == {FullTime[u] : u \in Senders}
    <3>1. T \in SUBSET (0..LongestTx) /\ T # {}
      BY <2>1
    <3>2. air' = Max(T)
      BY <1>5 DEF Collision
    <3> HIDE DEF T
    <3>3. Max(T) \in T
      BY <3>1, GreatestNatural
    <3>4. 0..LongestTx \subseteq Nat
      OBVIOUS
    <3> QED
      BY ONLY <3>1, <3>2, <3>3, <3>4, Zenon
  <2>5. isBusy' \in BOOLEAN /\ NumTx' \in Nat /\ NumCollision' \in Nat
    BY <1>1, <1>5 DEF Collision
  <2> QED
    BY <2>1, <2>2, <2>3, <2>4, <2>5, IdleSlotKeeps
<1>6. CASE Busy
  <2>1. GeneratePkt /\ t <= SimuTime
    BY <1>6 DEF Busy, GeneratePkt
  <2>2. /\ t' = t + 1 /\ t' \in 1..SimuTime + 1 /\ width' = Width
        /\ InterPktTime' \in [Stations -> Nat \ {0}]
    BY <2>1, ClockFacts
  <2>3. /\ StaPktCnt' = [u \in Stations |-> Cnt(u)]
        /\ StaPktQ' = [u \in Stations |-> Queue(u)]
        /\ UNCHANGED <<SentBitCnt, CW, backoff, NumTx, NumCollision>>
    BY <1>6 DEF Busy
  <2>4. TypeOK'
    <3>1. StaPktCnt' \in [Stations -> 0..SimuTime]
          /\ StaPktQ' \in [Stations -> [Cols -> {0, PktLen}]]
      BY <2>1, <2>3, ArrivalFacts
    <3>2. width' \in 0..SimuTime /\ offered' \in [Stations -> Nat]
      BY <2>1, <2>2, ArrivalFacts, OfferedFacts
    <3>3. txTime' \in Int /\ isBusy' \in BOOLEAN /\ air' \in Nat
      BY <1>1, <1>2, <1>6 DEF Busy
    <3>4. CW' \in [Stations -> CWmin..CWmax] /\ backoff' \in [Stations -> Nat]
      BY <2>3 DEF CsmaInv, TypeOK
    <3> QED
      BY <1>1, <2>2, <2>3, <3>1, <3>2, <3>3, <3>4 DEF TypeOK
  <2>5. BackoffInWindow'
    BY <2>3 DEF CsmaInv, BackoffInWindow
  <2>6. QueueHoldsPackets'
    BY <2>1, <2>3, ArrivalFacts DEF QueueHoldsPackets
  <2>7. BitsConserved'
    BY <2>1, <2>3, OfferedFacts DEF BitsConserved
  <2>8. Bounds'
    <3>1. t \in Nat /\ Width \in Nat /\ Width <= t
          /\ \A u \in Stations : Cnt(u) <= Width
      BY <2>1, ArrivalFacts DEF CsmaInv, TypeOK
    <3> QED
      BY <2>2, <2>3, <3>1 DEF Bounds
  <2> QED
    BY <2>4, <2>5, <2>6, <2>7, <2>8 DEF CsmaInv
<1>7. CASE UNCHANGED vars
  BY <1>7 DEF vars, CsmaInv, TypeOK, BackoffInWindow, QueueHoldsPackets,
              BitsConserved, Bounds
<1> QED
  BY <1>3, <1>4, <1>5, <1>6, <1>7 DEF Next, Finished

\* In every slot of the simulation, for any number of stations, rates, windows
\* and arrival times: the counters of stations stay within their windows, the
\* queue matrix holds the packets that are counted, and every bit that was
\* offered has been sent or is still queued.
THEOREM QueuesInOrder ==
    Spec => [](TypeOK /\ BackoffInWindow /\ QueueHoldsPackets /\ BitsConserved)
<1>1. CsmaInv => TypeOK /\ BackoffInWindow /\ QueueHoldsPackets /\ BitsConserved
  BY DEF CsmaInv
<1> QED
  BY <1>1, InitCsmaInv, NextCsmaInv, PTL DEF Spec

\* A slot keeps the medium held for what is on the air: the queues decide the
\* time, and by CsmaInv their first columns hold the packets.
LEMMA NextHeld ==
    CsmaInv /\ HeldWhileSending /\ [Next]_vars => HeldWhileSending'
<1> SUFFICES ASSUME CsmaInv, HeldWhileSending, [Next]_vars
             PROVE  HeldWhileSending'
  OBVIOUS
<1> USE CsmaAssumption
<1>1. air \in Nat /\ txTime \in Int /\ isBusy \in BOOLEAN
  BY DEF CsmaInv, TypeOK
<1>2. CASE CountDown
  BY <1>2 DEF CountDown, IdleSlot, HeldWhileSending
<1>3. ASSUME NEW w \in Stations, Success(w) PROVE HeldWhileSending'
  <2>1. IdleSlot /\ t <= SimuTime
    BY <1>3 DEF Success, IdleSlot, GeneratePkt
  <2>2. StaPktCnt'[w] = Remaining(w) /\ Remaining(w) \in Nat
        /\ \A j \in 1..Remaining(w) : Shift(w)[j] = PktLen
    BY <2>1, ShiftHolds DEF IdleSlot
  <2>3. Shift(w)[1] = 0 => StaPktCnt'[w] = 0
    BY <2>2
  <2>4. txTime' = TxSlots(w, Shift(w)[1]) /\ air' = FullTime[w]
    BY <1>3 DEF Success
  <2> QED
    BY <2>3, <2>4 DEF TxSlots, HeldWhileSending
<1>4. CASE Collision
  <2>1. t <= SimuTime
    BY <1>4 DEF Collision, IdleSlot, GeneratePkt
  <2>2. \A u \in Senders : TxSlots(u, Queue(u)[1]) = FullTime[u]
    BY <2>1, HeadIsPacket DEF TxSlots
  <2>3. {TxSlots(u, Queue(u)[1]) : u \in Senders} = {FullTime[u] : u \in Senders}
    BY <2>2
  <2>4. txTime' = air'
    BY <1>4, <2>3 DEF Collision
  <2> QED
    BY <2>4 DEF HeldWhileSending
<1>5. CASE Busy
  <2>1. isBusy /\ txTime' = txTime - 1 /\ AirPasses
    BY <1>5 DEF Busy
  <2>2. isBusy' => txTime - 1 > 0
    BY <1>5, Zenon DEF Busy
  <2>3. txTime = air \/ txTime = 0
    BY <2>1, Zenon DEF HeldWhileSending
  <2>4. txTime - 1 > 0 => txTime' = air'
    BY <1>1, <2>1, <2>3 DEF AirPasses
  <2> QED
    BY <2>2, <2>4, Zenon DEF HeldWhileSending
<1>6. CASE UNCHANGED vars
  BY <1>6 DEF vars, HeldWhileSending
<1> QED
  BY <1>2, <1>3, <1>4, <1>5, <1>6 DEF Next, Finished

\* For any number of stations, rates and windows the medium is held for what is
\* left on the air, unless a lone sender has just emptied its queue.
THEOREM MediumHeld == Spec => []HeldWhileSending
<1>1. Init => HeldWhileSending
  BY DEF Init, HeldWhileSending
<1> QED
  BY <1>1, InitCsmaInv, NextCsmaInv, NextHeld, PTL DEF Spec
=============================================================================
