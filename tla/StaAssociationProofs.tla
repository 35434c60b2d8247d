------------------------ MODULE StaAssociationProofs ------------------------
(***************************************************************************)
(* StaWifiMac implements Association under the mapping Upper.              *)
(***************************************************************************)
EXTENDS StaWifiMacProofs

USE DEF scanVars, watchVars, apVars

\* A step that leaves state, BSSID and link alone is a stutter above.
LEMMA Unseen ==
    ASSUME UNCHANGED <<m_state, m_bssid, link>>
    PROVE  UNCHANGED Upper!vars
BY DEF Upper!vars, AssocPhase

\* A step to a state without association or request that keeps the BSSID is a
\* GiveUp above.
LEMMA GivesUp ==
    ASSUME m_state' \notin {"ASSOCIATED", "WAIT_ASSOC_RESP"},
           UNCHANGED m_bssid, link' \in {link, "down"}
    PROVE  Upper!Next
BY DEF Upper!Next, Upper!GiveUp, AssocPhase

\* A step to WAIT_ASSOC_RESP that keeps the link is an Ask above.
LEMMA Asks ==
    ASSUME Typed', m_state' = "WAIT_ASSOC_RESP", UNCHANGED link
    PROVE  Upper!Next
BY DEF Upper!Next, Upper!Ask, AssocPhase, Typed, TypeOK

\* Every step of the station is a step or a stutter of Association.
LEMMA AssociationStep == Typed' /\ [Next]_vars => [Upper!Next]_(Upper!vars)
<1> SUFFICES ASSUME Typed', [Next]_vars PROVE [Upper!Next]_(Upper!vars)
  OBVIOUS
<1>1. CASE DoInitialize
  BY <1>1, GivesUp DEF DoInitialize, StartScanning
<1>2. ASSUME NEW enable \in BOOLEAN, SetActiveProbing(enable)
      PROVE  [Upper!Next]_(Upper!vars)
  <2>1. CASE Scanning
    BY <1>2, <2>1, GivesUp DEF SetActiveProbing, StartScanning
  <2>2. CASE ~Scanning
    BY <1>2, <2>2, Unseen DEF SetActiveProbing
  <2> QED
    BY <2>1, <2>2
<1>3. CASE Enqueue
  BY <1>3, Unseen DEF Enqueue
<1>4. CASE PhyCapabilitiesChanged
  BY <1>4, Asks DEF PhyCapabilitiesChanged
<1>5. ASSUME NEW ap \in Aps, NEW snr \in Snrs, NEW ours \in BOOLEAN,
             ReceiveWeakBeacon(ap, snr, ours)
      PROVE  [Upper!Next]_(Upper!vars)
  BY <1>5, GivesUp DEF ReceiveWeakBeacon, LoseAssociation, StartScanning
<1>6. ASSUME NEW ap \in Aps, NEW snr \in Snrs, NEW ours \in BOOLEAN,
             ReceiveBeaconOfOurAp(ap, snr, ours)
      PROVE  [Upper!Next]_(Upper!vars)
  <2>1. ap = m_bssid
    BY <1>6 DEF ReceiveBeaconOfOurAp, GoodBeacon
  <2> QED
    BY <1>6, <2>1, Unseen DEF ReceiveBeaconOfOurAp
<1>7. ASSUME NEW ap \in Aps, NEW snr \in Snrs, NEW ours \in BOOLEAN,
             ReceiveBeaconScanning(ap, snr, ours)
      PROVE  [Upper!Next]_(Upper!vars)
  BY <1>7, Unseen DEF ReceiveBeaconScanning
<1>8. CASE Ignore
  BY <1>8, Unseen DEF Ignore
<1>9. ASSUME NEW ap \in Aps, NEW snr \in Snrs, NEW ours \in BOOLEAN,
             NEW fits \in Fits, ReceiveProbeResp(ap, snr, ours, fits)
      PROVE  [Upper!Next]_(Upper!vars)
  BY <1>8, <1>9, Unseen DEF ReceiveProbeResp
<1>10. ASSUME NEW ap \in Aps, ReceiveAssocSuccess(ap)
       PROVE  [Upper!Next]_(Upper!vars)
  BY <1>10 DEF ReceiveAssocSuccess, Upper!Next, Upper!Accept, AssocPhase
<1>11. CASE ReceiveAssocRefusal
  <2>1. CASE m_candidateAps = <<>>
    BY <1>11, <2>1, GivesUp DEF ReceiveAssocRefusal
  <2>2. CASE m_candidateAps # <<>>
    BY <1>11, <2>2, Asks DEF ReceiveAssocRefusal, TryBestCandidate
  <2> QED
    BY <2>1, <2>2
<1>12. ASSUME NEW ap \in Aps, NEW cfPoll \in BOOLEAN, ReceiveData(ap, cfPoll)
       PROVE  [Upper!Next]_(Upper!vars)
  BY <1>12, Unseen DEF ReceiveData
<1>13. ASSUME NEW probe, NEW wait, ScanningTimeout(probe, wait)
       PROVE  [Upper!Next]_(Upper!vars)
  <2>1. CASE m_candidateAps # <<>>
    BY <1>13, <2>1, Asks DEF ScanningTimeout, TryBestCandidate
  <2>2. CASE m_candidateAps = <<>>
    BY <1>13, <2>2, GivesUp DEF ScanningTimeout, StartScanning
  <2> QED
    BY <2>1, <2>2
<1>14. CASE AssocRequestEventDue
  BY <1>14, Asks DEF AssocRequestEventDue
<1>15. CASE MissedBeacons
  <2>1. CASE m_beaconWatchdogEnd > 0
    BY <1>15, <2>1, Unseen DEF MissedBeacons
  <2>2. CASE ~(m_beaconWatchdogEnd > 0)
    BY <1>15, <2>2, GivesUp DEF MissedBeacons, LoseAssociation, StartScanning
  <2> QED
    BY <2>1, <2>2
<1>16. CASE Tick
  BY <1>16, Unseen DEF Tick
<1>17. CASE UNCHANGED vars
  BY <1>17, Unseen DEF vars
<1> QED
  BY <1>1, <1>2, <1>3, <1>4, <1>5, <1>6, <1>7, <1>8, <1>9, <1>10, <1>11, <1>12,
     <1>13, <1>14, <1>15, <1>16, <1>17
     DEF Next, Receive, Call, Event, Ended, ReceiveOtherBeacon,
         ReceiveAssocRespUnasked, ProbeRequestEventDue, WaitBeaconEventDue

\* The station MAC keeps what the layers above rely on: it associates only with
\* the AP it asked last, changes APs only through a request, and has reported
\* the link up whenever it is associated.
THEOREM StaImplementsAssociation == Spec => ImplementsAssociation
<1>1. Init => Upper!Init
  BY DEF Init, Upper!Init, AssocPhase
<1>2. Typed /\ [Next]_vars => Typed'
  BY TypedStep
<1> QED
  BY <1>1, <1>2, InitTyped, AssociationStep, PTL
     DEF Spec, ImplementsAssociation, Upper!Spec
=============================================================================
