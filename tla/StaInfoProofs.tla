--------------------------- MODULE StaInfoProofs ----------------------------
(***************************************************************************)
(* What the station has configured is what its own AP advertises, for any  *)
(* sequence of handoffs between any APs.                                   *)
(***************************************************************************)
EXTENDS StaWifiMacProofs

AllMcs(ap) == HtMcs(ap) \cup VhtMcs(ap) \cup HeMcs(ap)

\* No AP is credited with an MCS it does not have.
McsBounded(i) == \A ap \in Aps : i.mcs[ap] \subseteq AllMcs(ap)

\* The short-slot flag is that of the AP in use; the next response sets the
\* slot from it.
SlotFlagCurrent == m_bssid # NoAp => info.shortSlot = Caps[m_bssid].shortSlot

InfoInv == McsBounded(info) /\ SlotFlagCurrent /\ InfoMatchesAp

\* A beacon sets the flag and keeps what is configured for its AP.
LEMMA BeaconKeepsInfo ==
    ASSUME NEW i \in InfoType, NEW ap \in Aps, McsBounded(i)
    PROVE  LET n == UpdateApInfoFromBeacon(i, ap) IN
           /\ n.shortSlot = Caps[ap].shortSlot
           /\ McsBounded(n)
           /\ InfoOf(i, ap) => InfoOf(n, ap)
<1> DEFINE n == UpdateApInfoFromBeacon(i, ap)
<1>1. n.mcs = [i.mcs EXCEPT ![ap] =
                 KeptMcs(i, ap) \cup VhtMcs(ap) \cup HeMcs(ap)]
  BY DEF UpdateApInfoFromBeacon
<1>2. i.mcs \in [Aps -> SUBSET {"HT", "VHT", "HE"}]
  BY DEF InfoType
<1>3. KeptMcs(i, ap) \subseteq i.mcs[ap]
  BY DEF KeptMcs
<1>4. n.mcs[ap] = KeptMcs(i, ap) \cup VhtMcs(ap) \cup HeMcs(ap)
  BY <1>1, <1>2
<1>5. McsBounded(n)
  BY <1>1, <1>2, <1>3 DEF McsBounded, AllMcs
<1>6. i.mcs[ap] = AllMcs(ap) => n.mcs[ap] = AllMcs(ap)
  BY <1>4 DEF AllMcs, KeptMcs, HtMcs
<1>7. n.shortSlot = Caps[ap].shortSlot
  BY DEF UpdateApInfoFromBeacon
<1>8. ASSUME InfoOf(i, ap) PROVE InfoOf(n, ap)
  <2>1. ErpSupported => /\ n.slot = SlotFor(Caps[ap].erpRates /\ Caps[ap].shortSlot)
                        /\ n.cwMin = IF Caps[ap].erpRates THEN 15 ELSE 31
    BY <1>8, ErpAssumption DEF InfoOf, UpdateApInfoFromBeacon, SlotFor
  <2>2. /\ n.shortPreamble =
             (Caps[ap].shortPreamble /\ (ErpSupported => ~Caps[ap].barker))
        /\ n.qos = QosOf(i, ap)
        /\ n.edca = EdcaOf(i, ap)
        /\ ap \in n.modes
    BY DEF UpdateApInfoFromBeacon
  <2>3. QosSupported => /\ ap \in n.qos <=> Caps[ap].qos
                        /\ Caps[ap].qos => n.edca = ap
    BY <2>2 DEF QosOf, EdcaOf, Mark
  <2>4. n.mcs[ap] = AllMcs(ap)
    BY <1>6, <1>8 DEF InfoOf, AllMcs
  <2> HIDE DEF n
  <2> QED
    BY <1>7, <2>1, <2>2, <2>3, <2>4 DEF InfoOf, AllMcs
<1> QED
  BY <1>5, <1>7, <1>8

\* A fitting probe response sets the flag and touches no MCS.
LEMMA ProbeRespKeepsInfo ==
    ASSUME NEW i \in InfoType, NEW ap \in Aps, NEW fits \in BOOLEAN,
           McsBounded(i)
    PROVE  LET n == UpdateApInfoFromProbeResp(i, ap, fits) IN
           /\ fits => n.shortSlot = Caps[ap].shortSlot
           /\ ~fits => n = i
           /\ McsBounded(n)
<1> DEFINE n == UpdateApInfoFromProbeResp(i, ap, fits)
<1>1. n.mcs = i.mcs
  BY DEF UpdateApInfoFromProbeResp
<1> QED
  BY <1>1 DEF UpdateApInfoFromProbeResp, McsBounded

\* The response of an AP whose flag is already set configures all of it.
LEMMA AssocRespSetsInfo ==
    ASSUME NEW i \in InfoType, NEW ap \in Aps, McsBounded(i),
           i.shortSlot = Caps[ap].shortSlot
    PROVE  LET n == UpdateApInfoFromAssocResp(i, ap) IN
           /\ n.shortSlot = Caps[ap].shortSlot
           /\ McsBounded(n)
           /\ InfoOf(n, ap)
<1> DEFINE n == UpdateApInfoFromAssocResp(i, ap)
<1>1. n.mcs = [i.mcs EXCEPT ![ap] = KeptMcs(i, ap)
                 \cup HtMcs(ap) \cup VhtMcs(ap) \cup HeMcs(ap)]
  BY DEF UpdateApInfoFromAssocResp
<1>2. i.mcs \in [Aps -> SUBSET {"HT", "VHT", "HE"}]
  BY DEF InfoType
<1>3. KeptMcs(i, ap) \subseteq AllMcs(ap)
  BY DEF KeptMcs, McsBounded
<1>4. n.mcs[ap] = AllMcs(ap)
  BY <1>1, <1>2, <1>3 DEF AllMcs
<1>5. McsBounded(n)
  BY <1>1, <1>2, <1>3 DEF McsBounded, AllMcs
<1>6. /\ n.slot = SlotFromResponse(i, ap)
      /\ n.cwMin = CwMinFromResponse(i, ap)
      /\ n.shortPreamble = PreambleFromResponse(ap)
      /\ n.shortSlot = Caps[ap].shortSlot
      /\ n.qos = QosOf(i, ap)
      /\ n.edca = EdcaOf(i, ap)
      /\ ap \in n.modes
  BY DEF UpdateApInfoFromAssocResp
<1> HIDE DEF n
<1>7. ErpSupported => /\ n.slot = SlotFor(Caps[ap].erpRates /\ Caps[ap].shortSlot)
                      /\ n.cwMin = IF Caps[ap].erpRates THEN 15 ELSE 31
  BY <1>6 DEF SlotFromResponse, CwMinFromResponse
<1>8. n.shortPreamble = (Caps[ap].shortPreamble /\ ~(ErpSupported /\ Caps[ap].barker))
  BY <1>6, ErpAssumption DEF PreambleFromResponse
<1>9. QosSupported => /\ ap \in n.qos <=> Caps[ap].qos
                      /\ Caps[ap].qos => n.edca = ap
  BY <1>6 DEF QosOf, EdcaOf, Mark
<1>10. InfoOf(n, ap)
  BY <1>4, <1>6, <1>7, <1>8, <1>9 DEF InfoOf, AllMcs
<1> QED
  BY <1>5, <1>6, <1>10 DEF n

\* Taking a candidate switches the BSSID and the flag together.
LEMMA TryBestInfo ==
    ASSUME Typed, InfoInv, m_candidateAps # <<>>, TryBestCandidate
    PROVE  InfoInv'
<1> DEFINE best == Head(m_candidateAps)
<1>1. best \in ApInfoEntry
  BY TailRanked DEF Typed, TypeOK, CandidatesRanked
<1>2. best.bssid \in Aps /\ best.fits \in BOOLEAN /\ best.active \in BOOLEAN
  BY <1>1, EnvAssumption DEF ApInfoEntry
<1>3. /\ m_bssid' = IF best.active /\ ~best.fits THEN m_bssid ELSE best.bssid
      /\ info' = IF best.active
                 THEN UpdateApInfoFromProbeResp(info, best.bssid, best.fits)
                 ELSE UpdateApInfoFromBeacon(info, best.bssid)
      /\ m_state' = "WAIT_ASSOC_RESP"
  BY DEF TryBestCandidate
<1>4. info \in InfoType /\ McsBounded(info)
  BY DEF Typed, TypeOK, InfoInv
<1> HIDE DEF best
<1>5. CASE ~best.active
  BY <1>2, <1>3, <1>4, <1>5, BeaconKeepsInfo
     DEF InfoInv, InfoMatchesAp, SlotFlagCurrent, McsBounded
<1>6. CASE best.active
  BY <1>2, <1>3, <1>4, <1>6, ProbeRespKeepsInfo
     DEF InfoInv, InfoMatchesAp, SlotFlagCurrent, McsBounded
<1> QED
  BY <1>2, <1>5, <1>6

\* Every step keeps the configuration that of the AP in use.
LEMMA InfoStep == ~StrayResponses /\ Typed /\ InfoInv /\ [Next]_vars => InfoInv'
<1> SUFFICES ASSUME ~StrayResponses, Typed, InfoInv, [Next]_vars PROVE InfoInv'
  OBVIOUS
<1> USE DEF scanVars, watchVars, apVars
<1>0. info \in InfoType
  BY DEF Typed, TypeOK
<1>1. ASSUME UNCHANGED <<info, m_bssid>>,
             m_state' = "ASSOCIATED" => m_state = "ASSOCIATED"
      PROVE  InfoInv'
  BY <1>1 DEF InfoInv, InfoMatchesAp, SlotFlagCurrent, McsBounded, InfoOf
<1>2. CASE DoInitialize
  BY <1>1, <1>2 DEF DoInitialize, StartScanning
<1>3. ASSUME NEW enable \in BOOLEAN, SetActiveProbing(enable) PROVE InfoInv'
  BY <1>1, <1>3 DEF SetActiveProbing, StartScanning
<1>4. CASE Enqueue
  BY <1>1, <1>4 DEF Enqueue
<1>5. CASE PhyCapabilitiesChanged
  BY <1>1, <1>5 DEF PhyCapabilitiesChanged
<1>6. ASSUME NEW ap \in Aps, NEW snr \in Snrs, NEW ours \in BOOLEAN,
             ReceiveWeakBeacon(ap, snr, ours)
      PROVE  InfoInv'
  BY <1>1, <1>6 DEF ReceiveWeakBeacon, LoseAssociation, StartScanning
<1>7. ASSUME NEW ap \in Aps, NEW snr \in Snrs, NEW ours \in BOOLEAN,
             ReceiveBeaconOfOurAp(ap, snr, ours)
      PROVE  InfoInv'
  <2>1. /\ ap = m_bssid /\ m_bssid' = ap /\ m_state' = m_state
        /\ m_state = "ASSOCIATED"
        /\ info' = UpdateApInfoFromBeacon(info, ap)
    BY <1>7 DEF ReceiveBeaconOfOurAp, GoodBeacon
  <2>2. McsBounded(info) /\ InfoOf(info, ap)
    BY <2>1 DEF InfoInv, InfoMatchesAp
  <2>3. McsBounded(info') /\ InfoOf(info', ap)
        /\ info'.shortSlot = Caps[ap].shortSlot
    BY <1>0, <2>1, <2>2, BeaconKeepsInfo
  <2> QED
    BY <2>1, <2>3 DEF InfoInv, InfoMatchesAp, SlotFlagCurrent, McsBounded,
       InfoOf
<1>8. ASSUME NEW ap \in Aps, NEW snr \in Snrs, NEW ours \in BOOLEAN,
             ReceiveBeaconScanning(ap, snr, ours)
      PROVE  InfoInv'
  BY <1>1, <1>8 DEF ReceiveBeaconScanning
<1>9. CASE Ignore
  BY <1>1, <1>9 DEF Ignore
<1>10. ASSUME NEW ap \in Aps, NEW snr \in Snrs, NEW ours \in BOOLEAN,
              NEW fits \in Fits, ReceiveProbeResp(ap, snr, ours, fits)
       PROVE  InfoInv'
  BY <1>1, <1>9, <1>10 DEF ReceiveProbeResp
<1>11. ASSUME NEW ap \in Aps, ap = m_bssid, ReceiveAssocSuccess(ap)
       PROVE  InfoInv'
  <2>1. m_bssid' = ap /\ info' = UpdateApInfoFromAssocResp(info, ap)
    BY <1>11 DEF ReceiveAssocSuccess
  <2>2. McsBounded(info) /\ info.shortSlot = Caps[ap].shortSlot
    BY <1>11, ApAssumption DEF InfoInv, SlotFlagCurrent
  <2>3. McsBounded(info') /\ InfoOf(info', ap)
        /\ info'.shortSlot = Caps[ap].shortSlot
    BY <1>0, <2>1, <2>2, AssocRespSetsInfo
  <2> QED
    BY <2>1, <2>3 DEF InfoInv, InfoMatchesAp, SlotFlagCurrent, McsBounded,
       InfoOf
<1>12. CASE ReceiveAssocRefusal
  <2>1. CASE m_candidateAps = <<>>
    BY <1>1, <1>12, <2>1 DEF ReceiveAssocRefusal
  <2>2. CASE m_candidateAps # <<>>
    BY <1>12, <2>2, TryBestInfo DEF ReceiveAssocRefusal
  <2> QED
    BY <2>1, <2>2
<1>13. ASSUME NEW ap \in Aps, NEW cfPoll \in BOOLEAN, ReceiveData(ap, cfPoll)
       PROVE  InfoInv'
  BY <1>1, <1>13 DEF ReceiveData
<1>14. ASSUME NEW probe, NEW wait, ScanningTimeout(probe, wait) PROVE InfoInv'
  <2>1. CASE m_candidateAps # <<>>
    BY <1>14, <2>1, TryBestInfo DEF ScanningTimeout
  <2>2. CASE m_candidateAps = <<>>
    BY <1>1, <1>14, <2>2 DEF ScanningTimeout, StartScanning
  <2> QED
    BY <2>1, <2>2
<1>15. CASE AssocRequestEventDue
  BY <1>1, <1>15 DEF AssocRequestEventDue
<1>16. CASE MissedBeacons
  BY <1>1, <1>16 DEF MissedBeacons, LoseAssociation, StartScanning
<1>17. CASE Tick
  BY <1>1, <1>17 DEF Tick
<1>18. CASE UNCHANGED vars
  BY <1>1, <1>18 DEF vars
<1> QED
  BY <1>2, <1>3, <1>4, <1>5, <1>6, <1>7, <1>8, <1>9, <1>10, <1>11, <1>12,
     <1>13, <1>14, <1>15, <1>16, <1>17, <1>18
     DEF Next, Receive, Call, Event, Ended, ReceiveOtherBeacon,
         ReceiveAssocRespUnasked, ProbeRequestEventDue, WaitBeaconEventDue

\* When association responses come only from the AP that was asked, an
\* associated station is configured with the slot, window, preamble, QoS and
\* MCS set of its own AP, whatever APs it used before.
THEOREM InfoIsOfOurAp ==
    ASSUME ~StrayResponses
    PROVE  Spec => []InfoMatchesAp
<1>1. Init => InfoInv
  BY DEF Init, NoInfo, InfoInv, McsBounded, SlotFlagCurrent, InfoMatchesAp
<1>2. Typed /\ InfoInv /\ [Next]_vars => InfoInv'
  BY InfoStep
<1>3. InfoInv => InfoMatchesAp
  BY DEF InfoInv
<1> QED
  BY <1>1, <1>2, <1>3, InitTyped, TypedStep, PTL DEF Spec
=============================================================================
