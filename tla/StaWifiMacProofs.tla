-------------------------- MODULE StaWifiMacProofs --------------------------
(***************************************************************************)
(* The invariants of StaWifiMac, for every set of access points, every     *)
(* SNR scale and threshold and all timeouts.                               *)
(***************************************************************************)
EXTENDS CandidateListProofs

\* The parts that beacons and association responses write alike.
LEMMA InfoParts ==
    ASSUME NEW i \in InfoType, NEW ap \in Aps
    PROVE  /\ KeptMcs(i, ap) \in SUBSET {"HT", "VHT", "HE"}
           /\ HtMcs(ap) \cup VhtMcs(ap) \cup HeMcs(ap)
                \in SUBSET {"HT", "VHT", "HE"}
           /\ EdcaOf(i, ap) \in Aps \cup {NoAp}
           /\ QosOf(i, ap) \in SUBSET Aps
           /\ GreenfieldOf(i, ap) \in BOOLEAN
<1>1. KeptMcs(i, ap) \in SUBSET {"HT", "VHT", "HE"}
  BY DEF KeptMcs, InfoType
<1>2. HtMcs(ap) \cup VhtMcs(ap) \cup HeMcs(ap) \in SUBSET {"HT", "VHT", "HE"}
  BY DEF HtMcs, VhtMcs, HeMcs
<1>3. EdcaOf(i, ap) \in Aps \cup {NoAp}
  BY DEF EdcaOf, InfoType
<1>4. QosOf(i, ap) \in SUBSET Aps
  BY DEF QosOf, Mark, InfoType
<1>5. GreenfieldOf(i, ap) \in BOOLEAN
  BY ApAssumption DEF GreenfieldOf, InfoType, CapType
<1> QED
  BY <1>1, <1>2, <1>3, <1>4, <1>5

\* What a beacon makes the station write is again such a record.
LEMMA BeaconInfoType ==
    ASSUME NEW i \in InfoType, NEW ap \in Aps
    PROVE  UpdateApInfoFromBeacon(i, ap) \in InfoType
<1> DEFINE r == UpdateApInfoFromBeacon(i, ap)
<1>1. r.mcs \in [Aps -> SUBSET {"HT", "VHT", "HE"}]
  BY InfoParts DEF UpdateApInfoFromBeacon, InfoType
<1>2. r.shortPreamble \in BOOLEAN /\ r.shortSlot \in BOOLEAN
  BY ApAssumption DEF CapType, UpdateApInfoFromBeacon
<1>3. r.nonErp \in BOOLEAN
  BY ApAssumption DEF CapType, InfoType, UpdateApInfoFromBeacon
<1>4. r.slot \in {9, 20}
  BY DEF SlotFor, InfoType, UpdateApInfoFromBeacon
<1> QED
  BY <1>1, <1>2, <1>3, <1>4, InfoParts DEF InfoType, UpdateApInfoFromBeacon

\* The ERP parts of the two kinds of response.
LEMMA ErpParts ==
    ASSUME NEW i \in InfoType, NEW ap \in Aps
    PROVE  /\ SlotFromResponse(i, ap) \in {9, 20}
           /\ CwMinFromResponse(i, ap) \in {15, 31}
           /\ PreambleFromResponse(ap) \in BOOLEAN
           /\ Caps[ap].shortSlot \in BOOLEAN
BY ApAssumption DEF SlotFromResponse, CwMinFromResponse, PreambleFromResponse,
   SlotFor, InfoType, CapType

\* The same for a probe response.
LEMMA ProbeInfoType ==
    ASSUME NEW i \in InfoType, NEW ap \in Aps, NEW fits \in BOOLEAN
    PROVE  UpdateApInfoFromProbeResp(i, ap, fits) \in InfoType
BY ErpParts DEF UpdateApInfoFromProbeResp, InfoType

\* The same for an association response.
LEMMA AssocInfoType ==
    ASSUME NEW i \in InfoType, NEW ap \in Aps
    PROVE  UpdateApInfoFromAssocResp(i, ap) \in InfoType
<1> DEFINE r == UpdateApInfoFromAssocResp(i, ap)
<1>1. r.mcs \in [Aps -> SUBSET {"HT", "VHT", "HE"}]
  BY InfoParts DEF UpdateApInfoFromAssocResp, InfoType
<1>2. r.bssColor \in Aps \cup {NoAp}
  BY DEF UpdateApInfoFromAssocResp, InfoType
<1> QED
  BY <1>1, <1>2, InfoParts, ErpParts DEF InfoType, UpdateApInfoFromAssocResp

-----------------------------------------------------------------------------
(* The parts of handlers keep types and ranking.                           *)

Typed == TypeOK /\ CandidatesRanked

ScanTyped ==
    /\ m_candidateAps \in Seq(ApInfoEntry)
    /\ CandidatesRanked
    /\ m_probeRequestEvent \in Nat \cup {Off}
    /\ m_waitBeaconEvent \in Nat \cup {Off}

WatchTyped ==
    /\ m_beaconWatchdog \in Nat \cup {Off}
    /\ m_beaconWatchdogEnd \in Nat
    /\ silence \in 0..SilenceBound

\* A delay of the watchdog is positive and within the bound of the history.
LEMMA DelayType ==
    ASSUME NEW ap \in Aps
    PROVE  Delay(ap) \in Nat /\ Delay(ap) > 0 /\ Delay(ap) <= SilenceBound
<1>1. Interval[ap] \in Nat \ {0} /\ MaxMissedBeacons \in Nat \ {0}
  BY TimeAssumption
<1>2. \A m, n \in Nat \ {0} : m * n \in Nat /\ m * n > 0
  OBVIOUS
<1>3. Delay(ap) <= SilenceBound
  BY TimeAssumption
<1> QED
  BY <1>1, <1>2, <1>3 DEF Delay

\* The empty list, with which every scan starts, is ranked.
LEMMA EmptyRanked ==
    <<>> \in Seq(ApInfoEntry) /\ Ranked(<<>>) /\ Strong(<<>>)
BY DEF Ranked, Strong

\* So is the rest of a ranked list once its best entry is taken.
LEMMA TailRanked ==
    ASSUME NEW list \in Seq(ApInfoEntry), Ranked(list), Strong(list),
           list # <<>>
    PROVE  /\ Head(list) \in ApInfoEntry
           /\ Tail(list) \in Seq(ApInfoEntry)
           /\ Ranked(Tail(list)) /\ Strong(Tail(list))
<1>1. /\ Head(list) \in ApInfoEntry
      /\ Tail(list) \in Seq(ApInfoEntry)
      /\ Len(Tail(list)) = Len(list) - 1
      /\ \A i \in 1..Len(Tail(list)) : Tail(list)[i] = list[i + 1]
  BY HeadTailProperties
<1>2. \A i \in 1..Len(Tail(list)) : i + 1 \in 1..Len(list)
  BY <1>1
<1>3. Ranked(Tail(list))
  BY <1>1, <1>2 DEF Ranked
<1>4. Strong(Tail(list))
  BY <1>1, <1>2 DEF Strong
<1> QED
  BY <1>1, <1>3, <1>4

\* StartScanning.
LEMMA StartScanningTyped ==
    ASSUME NEW active \in BOOLEAN, NEW sent \in SUBSET Frames,
           StartScanning(active, sent)
    PROVE  ScanTyped' /\ m_state' \in MacState /\ queued' \subseteq Frames
<1>1. ProbeRequest \in Frames
  BY DEF ProbeRequest, Frames
<1>2. m_state' \in MacState /\ queued' \subseteq Frames
  BY <1>1 DEF StartScanning, MacState
<1>3. /\ m_probeRequestEvent' \in Nat \cup {Off}
      /\ m_waitBeaconEvent' \in Nat \cup {Off}
  BY TimeAssumption DEF StartScanning
<1>4. m_candidateAps' \in Seq(ApInfoEntry) /\ CandidatesRanked'
  BY EmptyRanked DEF StartScanning, CandidatesRanked, Ranked, Strong
<1> QED
  BY <1>2, <1>3, <1>4 DEF ScanTyped

\* RestartBeaconWatchdog.
LEMMA RestartTyped ==
    ASSUME WatchTyped, NEW ap \in Aps, RestartBeaconWatchdog(Delay(ap))
    PROVE  WatchTyped'
<1>1. Delay(ap) \in Nat
  BY DelayType
<1> QED
  BY <1>1, TimeAssumption DEF RestartBeaconWatchdog, WatchTyped, Max2

\* ScanningTimeout when there is a candidate.
LEMMA TryBestTyped ==
    ASSUME Typed, m_candidateAps # <<>>, TryBestCandidate
    PROVE  /\ m_candidateAps' \in Seq(ApInfoEntry) /\ CandidatesRanked'
           /\ m_bssid' \in Aps \cup {NoAp}
           /\ info' \in InfoType
           /\ WatchTyped'
           /\ m_state' \in MacState
           /\ queued' \subseteq Frames
           /\ m_assocRequestEvent' \in Nat \cup {Off}
<1> DEFINE best == Head(m_candidateAps)
           chosen == IF best.active /\ ~best.fits THEN m_bssid ELSE best.bssid
<1>1. /\ best \in ApInfoEntry
      /\ Tail(m_candidateAps) \in Seq(ApInfoEntry)
      /\ Ranked(Tail(m_candidateAps)) /\ Strong(Tail(m_candidateAps))
  BY TailRanked DEF Typed, TypeOK, CandidatesRanked
<1>2. m_candidateAps' \in Seq(ApInfoEntry) /\ CandidatesRanked'
  BY <1>1 DEF TryBestCandidate, CandidatesRanked, Ranked, Strong
<1>3. best.bssid \in Aps /\ best.fits \in BOOLEAN
  BY <1>1, EnvAssumption DEF ApInfoEntry
<1>4. chosen \in Aps \cup {NoAp}
  BY <1>3 DEF Typed, TypeOK
<1>5. info' \in InfoType
  BY <1>3, ProbeInfoType, BeaconInfoType DEF TryBestCandidate, Typed, TypeOK
<1>6. WatchTyped'
  <2>1. WatchTyped
    BY DEF Typed, TypeOK, WatchTyped
  <2> QED
    BY <2>1, <1>3, RestartTyped DEF TryBestCandidate
<1>7. AssocRequest(chosen) \in Frames
  BY <1>4 DEF AssocRequest, Frames
<1> QED
  BY <1>2, <1>4, <1>5, <1>6, <1>7, TimeAssumption
     DEF TryBestCandidate, SendAssociationRequest, MacState

\* Every step keeps types and ranking.
LEMMA TypedStep == Typed /\ [Next]_vars => Typed'
<1> SUFFICES ASSUME Typed, [Next]_vars PROVE Typed'
  OBVIOUS
<1> USE DEF scanVars, watchVars, apVars
<1>0. m_activeProbing \in BOOLEAN /\ m_bssid \in Aps \cup {NoAp}
  BY DEF Typed, TypeOK
<1>1. ASSUME Ignore PROVE Typed'
  BY <1>1 DEF Ignore, Typed, TypeOK, CandidatesRanked, Ranked, Strong
<1>2. CASE DoInitialize
  <2>1. ScanTyped' /\ m_state' \in MacState /\ queued' \subseteq Frames
    BY <1>0, <1>2, StartScanningTyped DEF DoInitialize
  <2> QED
    BY <1>2, <2>1 DEF DoInitialize, ScanTyped, Typed, TypeOK
<1>3. ASSUME NEW enable \in BOOLEAN, SetActiveProbing(enable) PROVE Typed'
  <2>1. CASE Scanning
    <3>1. ScanTyped' /\ m_state' \in MacState /\ queued' \subseteq Frames
      BY <1>3, <2>1, StartScanningTyped DEF SetActiveProbing
    <3> QED
      BY <1>3, <3>1 DEF SetActiveProbing, ScanTyped, Typed, TypeOK
  <2>2. CASE ~Scanning
    BY <1>3, <2>2 DEF SetActiveProbing, Typed, TypeOK, CandidatesRanked,
       Ranked, Strong
  <2> QED
    BY <2>1, <2>2
<1>4. CASE Enqueue
  <2>1. Data(m_bssid) \in Frames
    BY <1>0 DEF Data, Frames
  <2> QED
    BY <1>4, <2>1 DEF Enqueue, Typed, TypeOK, CandidatesRanked, Ranked, Strong
<1>5. CASE PhyCapabilitiesChanged
  <2>1. ReassocRequest(m_bssid) \in Frames
    BY <1>0 DEF ReassocRequest, Frames
  <2> QED
    BY <1>5, <2>1, TimeAssumption DEF PhyCapabilitiesChanged,
       SendAssociationRequest, MacState, Typed, TypeOK, CandidatesRanked,
       Ranked, Strong
<1>6. ASSUME NEW ap \in Aps, NEW snr \in Snrs, NEW ours \in BOOLEAN,
             ReceiveWeakBeacon(ap, snr, ours)
      PROVE  Typed'
  <2>1. Disassociation(m_bssid) \in Frames
    BY <1>0 DEF Disassociation, Frames
  <2>2. ScanTyped' /\ m_state' \in MacState /\ queued' \subseteq Frames
    BY <1>0, <1>6, <2>1, StartScanningTyped
       DEF ReceiveWeakBeacon, LoseAssociation
  <2>3. aborted' \in BOOLEAN
    BY <1>0, <1>6, EnvAssumption DEF ReceiveWeakBeacon
  <2> QED
    BY <1>6, <2>2, <2>3 DEF ReceiveWeakBeacon, LoseAssociation, ScanTyped,
       Typed, TypeOK
<1>7. ASSUME NEW ap \in Aps, NEW snr \in Snrs, NEW ours \in BOOLEAN,
             ReceiveBeaconOfOurAp(ap, snr, ours)
      PROVE  Typed'
  <2>1. WatchTyped'
    <3>1. WatchTyped
      BY DEF Typed, TypeOK, WatchTyped
    <3> QED
      BY <3>1, <1>7, RestartTyped DEF ReceiveBeaconOfOurAp
  <2>2. info' \in InfoType
    BY <1>7, BeaconInfoType DEF ReceiveBeaconOfOurAp, Typed, TypeOK
  <2> QED
    BY <1>7, <2>1, <2>2 DEF ReceiveBeaconOfOurAp, WatchTyped, Typed, TypeOK,
       CandidatesRanked, Ranked, Strong
<1>8. ASSUME NEW ap \in Aps, NEW snr \in Snrs, NEW active \in BOOLEAN,
             NEW fits \in Fits \cup {TRUE},
             m_candidateAps' = UpdateCandidateApList(m_candidateAps,
               [bssid |-> ap, snr |-> snr, active |-> active, fits |-> fits])
      PROVE  m_candidateAps' \in Seq(ApInfoEntry) /\ CandidatesRanked'
  <2> DEFINE c == [bssid |-> ap, snr |-> snr, active |-> active,
                   fits |-> fits]
             l == UpdateCandidateApList(m_candidateAps, c)
  <2>1. c \in ApInfoEntry
    BY DEF ApInfoEntry
  <2>2. l \in Seq(ApInfoEntry) /\ Ranked(l) /\ Strong(l)
    BY <2>1, CandidateUpdate DEF Typed, TypeOK, CandidatesRanked
  <2>3. m_candidateAps' = l
    BY <1>8
  <2> HIDE DEF l, c
  <2> QED
    BY <2>2, <2>3 DEF CandidatesRanked, Ranked, Strong
<1>9. ASSUME NEW ap \in Aps, NEW snr \in Snrs, NEW ours \in BOOLEAN,
             ReceiveBeaconScanning(ap, snr, ours)
      PROVE  Typed'
  <2>1. m_candidateAps' \in Seq(ApInfoEntry) /\ CandidatesRanked'
    BY <1>8, <1>9 DEF ReceiveBeaconScanning
  <2> QED
    BY <1>9, <2>1 DEF ReceiveBeaconScanning, Typed, TypeOK
<1>10. ASSUME NEW ap \in Aps, NEW snr \in Snrs, NEW ours \in BOOLEAN,
              NEW fits \in Fits, ReceiveProbeResp(ap, snr, ours, fits)
       PROVE  Typed'
  <2>1. CASE m_state = "WAIT_PROBE_RESP" /\ ours
    <3>1. fits \in Fits \cup {TRUE}
      OBVIOUS
    <3>2. m_candidateAps' \in Seq(ApInfoEntry) /\ CandidatesRanked'
      BY <1>8, <1>10, <2>1, <3>1 DEF ReceiveProbeResp
    <3> QED
      BY <1>10, <2>1, <3>2 DEF ReceiveProbeResp, Typed, TypeOK
  <2>2. CASE ~(m_state = "WAIT_PROBE_RESP" /\ ours)
    BY <1>1, <1>10, <2>2 DEF ReceiveProbeResp
  <2> QED
    BY <2>1, <2>2
<1>11. ASSUME NEW ap \in Aps, ReceiveAssocSuccess(ap) PROVE Typed'
  <2>1. info' \in InfoType
    BY <1>11, AssocInfoType DEF ReceiveAssocSuccess, Typed, TypeOK
  <2> QED
    BY <1>11, <2>1 DEF ReceiveAssocSuccess, MacState, Typed, TypeOK,
       CandidatesRanked, Ranked, Strong
<1>12. CASE ReceiveAssocRefusal
  <2>1. CASE m_candidateAps = <<>>
    BY <1>12, <2>1 DEF ReceiveAssocRefusal, MacState, Typed, TypeOK,
       CandidatesRanked, Ranked, Strong
  <2>2. CASE m_candidateAps # <<>>
    <3>1. TryBestCandidate
      BY <1>12, <2>2 DEF ReceiveAssocRefusal
    <3> QED
      BY <1>12, <2>2, <3>1, TryBestTyped
         DEF ReceiveAssocRefusal, WatchTyped, Typed, TypeOK
  <2> QED
    BY <2>1, <2>2
<1>13. ASSUME NEW ap \in Aps, NEW cfPoll \in BOOLEAN, ReceiveData(ap, cfPoll)
       PROVE  Typed'
  <2>1. CfNull(m_bssid) \in Frames
    BY <1>0 DEF CfNull, Frames
  <2> QED
    BY <1>13, <2>1 DEF ReceiveData, Typed, TypeOK, CandidatesRanked, Ranked,
       Strong
<1>14. ASSUME NEW probe \in Nat \cup {Off}, NEW wait \in Nat \cup {Off},
              ScanningTimeout(probe, wait)
       PROVE  Typed'
  <2>1. CASE m_candidateAps # <<>>
    <3>1. TryBestCandidate
      BY <1>14, <2>1 DEF ScanningTimeout
    <3> QED
      BY <1>14, <2>1, <3>1, TryBestTyped
         DEF ScanningTimeout, WatchTyped, Typed, TypeOK
  <2>2. CASE m_candidateAps = <<>>
    <3>1. ScanTyped' /\ m_state' \in MacState /\ queued' \subseteq Frames
      BY <1>0, <1>14, <2>2, StartScanningTyped DEF ScanningTimeout
    <3> QED
      BY <1>14, <2>2, <3>1 DEF ScanningTimeout, ScanTyped, Typed, TypeOK
  <2> QED
    BY <2>1, <2>2
<1>15. CASE ProbeRequestEventDue
  BY <1>14, <1>15 DEF ProbeRequestEventDue, Typed, TypeOK
<1>16. CASE WaitBeaconEventDue
  BY <1>14, <1>16 DEF WaitBeaconEventDue, Typed, TypeOK
<1>17. CASE AssocRequestEventDue
  <2>1. AssocRequest(m_bssid) \in Frames
    BY <1>0 DEF AssocRequest, Frames
  <2> QED
    BY <1>17, <2>1, TimeAssumption DEF AssocRequestEventDue,
       SendAssociationRequest, MacState, Typed, TypeOK, CandidatesRanked,
       Ranked, Strong
<1>18. CASE MissedBeacons
  <2>1. CASE m_beaconWatchdogEnd > 0
    BY <1>18, <2>1 DEF MissedBeacons, Typed, TypeOK, CandidatesRanked, Ranked,
       Strong
  <2>2. CASE ~(m_beaconWatchdogEnd > 0)
    <3>1. ScanTyped' /\ m_state' \in MacState /\ queued' \subseteq Frames
      BY <1>0, <1>18, <2>2, StartScanningTyped
         DEF MissedBeacons, LoseAssociation
    <3> QED
      BY <1>18, <2>2, <3>1 DEF MissedBeacons, LoseAssociation, ScanTyped,
         Typed, TypeOK
  <2> QED
    BY <2>1, <2>2
<1>19. CASE Tick
  <2>1. /\ m_probeRequestEvent' \in Nat \cup {Off}
        /\ m_waitBeaconEvent' \in Nat \cup {Off}
        /\ m_assocRequestEvent' \in Nat \cup {Off}
    BY <1>19 DEF Tick, Left, Off, Typed, TypeOK
  <2>2. WatchTyped'
    BY <1>19, TimeAssumption DEF Tick, Left, Off, Max2, Min2, WatchTyped, Typed,
       TypeOK
  <2> QED
    BY <1>19, <2>1, <2>2 DEF Tick, WatchTyped, Typed, TypeOK, CandidatesRanked,
       Ranked, Strong
<1>20. CASE UNCHANGED vars
  BY <1>20 DEF vars, Typed, TypeOK, CandidatesRanked, Ranked, Strong
<1> QED
  BY <1>1, <1>2, <1>3, <1>4, <1>5, <1>6, <1>7, <1>9, <1>10, <1>11, <1>12,
     <1>13, <1>15, <1>16, <1>17, <1>18, <1>19, <1>20
     DEF Next, Receive, Call, Event, Ended, ReceiveOtherBeacon,
         ReceiveAssocRespUnasked

\* The constructor leaves a well-typed state.
LEMMA InitTyped == Init => Typed
<1> SUFFICES ASSUME Init PROVE Typed
  OBVIOUS
<1>1. NoInfo \in InfoType
  BY ApAssumption DEF NoInfo, InfoType
<1>2. m_candidateAps \in Seq(ApInfoEntry) /\ CandidatesRanked
  BY EmptyRanked DEF Init, CandidatesRanked
<1>3. silence \in 0..SilenceBound /\ m_beaconWatchdogEnd \in Nat
  BY TimeAssumption DEF Init
<1>4. queued \subseteq Frames /\ m_state \in MacState
  BY DEF Init, MacState
<1> QED
  BY <1>1, <1>2, <1>3, <1>4 DEF Init, Typed, TypeOK

\* The state is always well typed, for every size of the network and all
\* timeouts, and the candidates are always ranked.
THEOREM TypeCorrect == Spec => [](TypeOK /\ CandidatesRanked)
BY InitTyped, TypedStep, PTL DEF Spec, Typed
=============================================================================
