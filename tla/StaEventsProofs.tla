-------------------------- MODULE StaEventsProofs ---------------------------
(***************************************************************************)
(* Which simulator events are armed in which state of StaWifiMac: the      *)
(* station never waits for something no event will end, for all timeouts.  *)
(***************************************************************************)
EXTENDS StaWifiMacProofs

\* Before DoInitialize no request is pending; needed because a due request
\* event would otherwise reach WAIT_ASSOC_RESP with nothing else armed.
Fresh == m_state = "UNASSOCIATED" => ~IsRunning(m_assocRequestEvent)

EventInv == NeverStranded /\ NoLeftoverEvent /\ WatchdogFollowsEnd /\ Fresh

\* The timeouts are running events.
LEMMA TimeoutsRun ==
    /\ IsRunning(ProbeRequestTimeout)
    /\ IsRunning(WaitBeaconTimeout)
    /\ IsRunning(AssocRequestTimeout)
    /\ ~IsRunning(Off)
BY TimeAssumption DEF IsRunning, Off

\* StartScanning arms the one scan event that its state needs.
LEMMA StartScanningEvents ==
    ASSUME NEW active \in BOOLEAN, NEW sent, StartScanning(active, sent)
    PROVE  /\ m_state' \in {"WAIT_PROBE_RESP", "WAIT_BEACON"}
           /\ m_state' = "WAIT_PROBE_RESP" => IsRunning(m_probeRequestEvent)'
           /\ m_state' = "WAIT_BEACON" => IsRunning(m_waitBeaconEvent)'
           /\ ~(IsRunning(m_probeRequestEvent) /\ IsRunning(m_waitBeaconEvent))'
BY TimeAssumption DEF StartScanning, IsRunning, Off

\* When a scan starts and the watchdog keeps to its end, all is armed.
LEMMA ScanEvents ==
    ASSUME NEW active \in BOOLEAN, NEW sent, StartScanning(active, sent),
           WatchdogFollowsEnd'
    PROVE  EventInv'
BY StartScanningEvents DEF EventInv, NeverStranded, NoLeftoverEvent, Fresh

\* RestartBeaconWatchdog leaves the watchdog running and due before its end.
LEMMA RestartEvents ==
    ASSUME TypeOK, WatchdogFollowsEnd, NEW ap \in Aps,
           RestartBeaconWatchdog(Delay(ap))
    PROVE  IsRunning(m_beaconWatchdog)' /\ WatchdogFollowsEnd'
<1>1. Delay(ap) \in Nat /\ Delay(ap) > 0
  BY DelayType
<1> QED
  BY <1>1 DEF RestartBeaconWatchdog, WatchdogFollowsEnd, IsRunning, Off, Max2,
     TypeOK

\* Taking the best candidate arms the watchdog and the request event.
LEMMA TryBestEvents ==
    ASSUME Typed, WatchdogFollowsEnd, m_candidateAps # <<>>, TryBestCandidate
    PROVE  /\ m_state' = "WAIT_ASSOC_RESP"
           /\ IsRunning(m_assocRequestEvent)'
           /\ IsRunning(m_beaconWatchdog)' /\ WatchdogFollowsEnd'
<1>1. Head(m_candidateAps).bssid \in Aps
  BY TailRanked DEF Typed, TypeOK, CandidatesRanked, ApInfoEntry
<1>2. IsRunning(m_beaconWatchdog)' /\ WatchdogFollowsEnd'
  BY <1>1, RestartEvents DEF TryBestCandidate, Typed
<1> QED
  BY <1>2, TimeAssumption DEF TryBestCandidate, SendAssociationRequest,
     IsRunning, Off

\* Every step keeps the needed events armed.
LEMMA EventStep == Typed /\ EventInv /\ [Next]_vars => EventInv'
<1> SUFFICES ASSUME Typed, EventInv, [Next]_vars PROVE EventInv'
  OBVIOUS
<1> USE DEF scanVars, watchVars, apVars
<1> DEFINE Kept == UNCHANGED <<m_state, m_assocRequestEvent,
                               m_probeRequestEvent, m_waitBeaconEvent,
                               m_beaconWatchdog, m_beaconWatchdogEnd>>
<1>0. m_activeProbing \in BOOLEAN
  BY DEF Typed, TypeOK
<1>1. ASSUME Kept PROVE EventInv'
  BY <1>1 DEF EventInv, NeverStranded, NoLeftoverEvent, WatchdogFollowsEnd,
     Fresh, IsRunning
<1>2. ASSUME UNCHANGED watchVars PROVE WatchdogFollowsEnd'
  BY <1>2 DEF EventInv, WatchdogFollowsEnd, IsRunning
<1>3. CASE DoInitialize
  BY <1>0, <1>2, <1>3, ScanEvents DEF DoInitialize
<1>4. ASSUME NEW enable \in BOOLEAN, SetActiveProbing(enable) PROVE EventInv'
  <2>1. CASE Scanning
    BY <1>2, <1>4, <2>1, ScanEvents DEF SetActiveProbing
  <2>2. CASE ~Scanning
    BY <1>1, <1>4, <2>2 DEF SetActiveProbing
  <2> QED
    BY <2>1, <2>2
<1>5. CASE Enqueue
  BY <1>1, <1>5 DEF Enqueue
<1>6. CASE PhyCapabilitiesChanged
  <2>1. IsRunning(m_assocRequestEvent)'
    BY <1>6, TimeoutsRun DEF PhyCapabilitiesChanged, SendAssociationRequest,
       IsRunning
  <2> QED
    BY <1>6, <2>1 DEF PhyCapabilitiesChanged, EventInv, NeverStranded,
       NoLeftoverEvent, WatchdogFollowsEnd, Fresh, IsRunning
<1>7. ASSUME NEW ap \in Aps, NEW snr \in Snrs, NEW ours \in BOOLEAN,
             ReceiveWeakBeacon(ap, snr, ours)
      PROVE  EventInv'
  BY <1>0, <1>2, <1>7, ScanEvents DEF ReceiveWeakBeacon, LoseAssociation
<1>8. ASSUME NEW ap \in Aps, NEW snr \in Snrs, NEW ours \in BOOLEAN,
             ReceiveBeaconOfOurAp(ap, snr, ours)
      PROVE  EventInv'
  <2>1. IsRunning(m_beaconWatchdog)' /\ WatchdogFollowsEnd'
    BY <1>8, RestartEvents DEF ReceiveBeaconOfOurAp, Typed, EventInv
  <2> QED
    BY <1>8, <2>1 DEF ReceiveBeaconOfOurAp, EventInv, NeverStranded,
       NoLeftoverEvent, Fresh, IsRunning
<1>9. ASSUME NEW ap \in Aps, NEW snr \in Snrs, NEW ours \in BOOLEAN,
             ReceiveBeaconScanning(ap, snr, ours)
      PROVE  EventInv'
  BY <1>1, <1>9 DEF ReceiveBeaconScanning
<1>10. ASSUME NEW ap \in Aps, NEW ours \in BOOLEAN, ReceiveOtherBeacon(ap, ours)
       PROVE  EventInv'
  BY <1>1, <1>10 DEF ReceiveOtherBeacon, Ignore
<1>11. ASSUME NEW ap \in Aps, NEW snr \in Snrs, NEW ours \in BOOLEAN,
              NEW fits \in Fits, ReceiveProbeResp(ap, snr, ours, fits)
       PROVE  EventInv'
  BY <1>1, <1>11 DEF ReceiveProbeResp, Ignore
<1>12. ASSUME NEW ap \in Aps, ReceiveAssocSuccess(ap) PROVE EventInv'
  BY <1>12, TimeoutsRun DEF ReceiveAssocSuccess, EventInv, NeverStranded,
     NoLeftoverEvent, WatchdogFollowsEnd, Fresh, IsRunning
<1>13. CASE ReceiveAssocRefusal
  <2>1. CASE m_candidateAps = <<>>
    BY <1>13, <2>1, TimeoutsRun DEF ReceiveAssocRefusal, EventInv,
       NeverStranded, NoLeftoverEvent, WatchdogFollowsEnd, Fresh, IsRunning
  <2>2. CASE m_candidateAps # <<>>
    <3>1. TryBestCandidate
      BY <1>13, <2>2 DEF ReceiveAssocRefusal
    <3>2. /\ m_state' = "WAIT_ASSOC_RESP"
          /\ IsRunning(m_assocRequestEvent)'
          /\ IsRunning(m_beaconWatchdog)' /\ WatchdogFollowsEnd'
      BY <2>2, <3>1, TryBestEvents DEF EventInv
    <3> QED
      BY <1>13, <3>2 DEF ReceiveAssocRefusal, EventInv, NeverStranded,
         NoLeftoverEvent, Fresh, IsRunning
  <2> QED
    BY <2>1, <2>2
<1>14. CASE ReceiveAssocRespUnasked
  BY <1>1, <1>14 DEF ReceiveAssocRespUnasked, Ignore
<1>15. ASSUME NEW ap \in Aps, NEW cfPoll \in BOOLEAN, ReceiveData(ap, cfPoll)
       PROVE  EventInv'
  BY <1>1, <1>15 DEF ReceiveData
<1>16. ASSUME NEW probe, NEW wait, ScanningTimeout(probe, wait),
              ~(IsRunning(probe) /\ IsRunning(wait))
       PROVE  EventInv'
  <2>1. CASE m_candidateAps # <<>>
    <3>1. TryBestCandidate
      BY <1>16, <2>1 DEF ScanningTimeout
    <3>2. /\ m_state' = "WAIT_ASSOC_RESP"
          /\ IsRunning(m_assocRequestEvent)'
          /\ IsRunning(m_beaconWatchdog)' /\ WatchdogFollowsEnd'
      BY <2>1, <3>1, TryBestEvents DEF EventInv
    <3>3. m_probeRequestEvent' = probe /\ m_waitBeaconEvent' = wait
      BY <1>16, <2>1 DEF ScanningTimeout
    <3> QED
      BY <1>16, <3>2, <3>3 DEF EventInv, NeverStranded, NoLeftoverEvent, Fresh,
         IsRunning
  <2>2. CASE m_candidateAps = <<>>
    BY <1>0, <1>2, <1>16, <2>2, ScanEvents DEF ScanningTimeout
  <2> QED
    BY <2>1, <2>2
<1>17. CASE ProbeRequestEventDue
  BY <1>16, <1>17, TimeoutsRun DEF ProbeRequestEventDue
<1>18. CASE WaitBeaconEventDue
  BY <1>16, <1>18, TimeoutsRun DEF WaitBeaconEventDue
<1>19. CASE AssocRequestEventDue
  <2>1. IsRunning(m_assocRequestEvent)' /\ m_state' = "WAIT_ASSOC_RESP"
    BY <1>19, TimeoutsRun DEF AssocRequestEventDue, SendAssociationRequest,
       IsRunning
  <2>2. IsRunning(m_assocRequestEvent)
    BY <1>19 DEF AssocRequestEventDue, IsRunning, Off
  <2>3. m_state \in {"WAIT_PROBE_RESP", "WAIT_BEACON", "WAIT_ASSOC_RESP"}
    BY <2>2 DEF EventInv, Fresh, NoLeftoverEvent, Typed, TypeOK, MacState
  <2> QED
    BY <1>19, <2>1, <2>3 DEF AssocRequestEventDue, EventInv, NeverStranded,
       NoLeftoverEvent, WatchdogFollowsEnd, Fresh, IsRunning
<1>20. CASE MissedBeacons
  <2>1. CASE m_beaconWatchdogEnd > 0
    BY <1>20, <2>1 DEF MissedBeacons, EventInv, NeverStranded, NoLeftoverEvent,
       WatchdogFollowsEnd, Fresh, IsRunning, Off, Typed, TypeOK
  <2>2. CASE ~(m_beaconWatchdogEnd > 0)
    <3>1. WatchdogFollowsEnd'
      BY <1>20, <2>2 DEF MissedBeacons, WatchdogFollowsEnd, IsRunning, Typed,
         TypeOK
    <3> QED
      BY <1>0, <1>20, <2>2, <3>1, ScanEvents DEF MissedBeacons, LoseAssociation
  <2> QED
    BY <2>1, <2>2
<1>21. CASE Tick
  <2>1. /\ IsRunning(m_probeRequestEvent)' <=> IsRunning(m_probeRequestEvent)
        /\ IsRunning(m_waitBeaconEvent)' <=> IsRunning(m_waitBeaconEvent)
        /\ IsRunning(m_assocRequestEvent)' <=> IsRunning(m_assocRequestEvent)
        /\ IsRunning(m_beaconWatchdog)' <=> IsRunning(m_beaconWatchdog)
    BY <1>21 DEF Tick, Left, Off, IsRunning, Typed, TypeOK
  <2>2. WatchdogFollowsEnd'
    BY <1>21 DEF Tick, EventDue, Left, Off, IsRunning, WatchdogFollowsEnd, Max2,
       EventInv, Typed, TypeOK
  <2> QED
    BY <1>21, <2>1, <2>2 DEF Tick, EventInv, NeverStranded, NoLeftoverEvent,
       Fresh
<1>22. CASE UNCHANGED vars
  BY <1>1, <1>22 DEF vars
<1> QED
  BY <1>3, <1>4, <1>5, <1>6, <1>7, <1>8, <1>9, <1>10, <1>11, <1>12, <1>13,
     <1>14, <1>15, <1>17, <1>18, <1>19, <1>20, <1>21, <1>22
     DEF Next, Receive, Call, Event, Ended

\* The station never waits without an event that ends the wait, never runs two
\* scans or resends a request once answered, and its watchdog is armed exactly
\* while a beacon received earlier still covers the present.
THEOREM EventsArmed ==
    Spec => [](NeverStranded /\ NoLeftoverEvent /\ WatchdogFollowsEnd)
<1>1. Init => EventInv
  BY DEF Init, EventInv, NeverStranded, NoLeftoverEvent, WatchdogFollowsEnd,
     Fresh, IsRunning
<1>2. Init => Typed
  BY InitTyped
<1> QED
  BY <1>1, <1>2, TypedStep, EventStep, PTL DEF Spec, EventInv

-----------------------------------------------------------------------------
(* The watchdog's patience.  From the request on, the end time plus the    *)
(* silence so far covers the delay of the AP; this is kept also while a    *)
(* left-over request event may still lead back from a scan.                *)

\* The station has asked m_bssid and may still get or have its answer.
Pending == m_state = "ASSOCIATED" \/ IsRunning(m_assocRequestEvent)

PatientInv ==
    Pending => /\ m_bssid \in Aps
               /\ IsRunning(m_beaconWatchdog) =>
                     m_beaconWatchdogEnd + silence >= Delay(m_bssid)

\* After RestartBeaconWatchdog(Delay(ap)) the watchdog is patient with ap.
LEMMA RestartPatient ==
    ASSUME TypeOK, NEW ap \in Aps, RestartBeaconWatchdog(Delay(ap))
    PROVE  m_beaconWatchdogEnd' + silence' >= Delay(ap)
<1>1. Delay(ap) \in Nat
  BY DelayType
<1> QED
  BY <1>1 DEF RestartBeaconWatchdog, Max2, TypeOK

\* A candidate that passes the membership test is the AP that is asked.
LEMMA TryBestPatient ==
    ASSUME Typed, Fits \subseteq {TRUE}, m_candidateAps # <<>>, TryBestCandidate
    PROVE  PatientInv'
<1> DEFINE best == Head(m_candidateAps)
<1>1. best \in ApInfoEntry
  BY TailRanked DEF Typed, TypeOK, CandidatesRanked
<1>2. best.bssid \in Aps /\ best.fits = TRUE
  BY <1>1 DEF ApInfoEntry
<1>3. m_bssid' = best.bssid /\ RestartBeaconWatchdog(Delay(best.bssid))
  BY <1>2 DEF TryBestCandidate
<1> HIDE DEF best
<1>4. m_beaconWatchdogEnd' + silence' >= Delay(best.bssid)
  BY <1>2, <1>3, RestartPatient DEF Typed
<1> QED
  BY <1>2, <1>3, <1>4 DEF PatientInv, Delay

\* Every step keeps the watchdog patient.
LEMMA PatientStep ==
    Fits \subseteq {TRUE} /\ Typed /\ EventInv /\ PatientInv /\ [Next]_vars
        => PatientInv'
<1> SUFFICES ASSUME Fits \subseteq {TRUE}, Typed, EventInv, PatientInv,
                    [Next]_vars
             PROVE  PatientInv'
  OBVIOUS
<1> USE DEF scanVars, watchVars, apVars
<1>1. ASSUME UNCHANGED watchVars, UNCHANGED m_bssid, Pending' => Pending
      PROVE  PatientInv'
  BY <1>1 DEF PatientInv, IsRunning, Delay
<1>2. CASE DoInitialize
  BY <1>1, <1>2 DEF DoInitialize, StartScanning, Pending, IsRunning
<1>3. ASSUME NEW enable \in BOOLEAN, SetActiveProbing(enable) PROVE PatientInv'
  BY <1>1, <1>3 DEF SetActiveProbing, StartScanning, Pending, IsRunning
<1>4. CASE Enqueue
  BY <1>1, <1>4 DEF Enqueue, Pending, IsRunning
<1>5. CASE PhyCapabilitiesChanged
  BY <1>1, <1>5 DEF PhyCapabilitiesChanged, Pending
<1>6. ASSUME NEW ap \in Aps, NEW snr \in Snrs, NEW ours \in BOOLEAN,
             ReceiveWeakBeacon(ap, snr, ours)
      PROVE  PatientInv'
  BY <1>1, <1>6 DEF ReceiveWeakBeacon, LoseAssociation, StartScanning, Pending,
     IsRunning
<1>7. ASSUME NEW ap \in Aps, NEW snr \in Snrs, NEW ours \in BOOLEAN,
             ReceiveBeaconOfOurAp(ap, snr, ours)
      PROVE  PatientInv'
  <2>1. m_bssid' = ap /\ RestartBeaconWatchdog(Delay(ap))
    BY <1>7 DEF ReceiveBeaconOfOurAp
  <2>2. m_beaconWatchdogEnd' + silence' >= Delay(ap)
    BY <2>1, RestartPatient DEF Typed
  <2> QED
    BY <2>1, <2>2 DEF PatientInv, Delay
<1>8. ASSUME NEW ap \in Aps, NEW snr \in Snrs, NEW ours \in BOOLEAN,
             ReceiveBeaconScanning(ap, snr, ours)
      PROVE  PatientInv'
  BY <1>1, <1>8 DEF ReceiveBeaconScanning, Pending, IsRunning
<1>9. CASE Ignore
  BY <1>1, <1>9 DEF Ignore, Pending, IsRunning
<1>10. ASSUME NEW ap \in Aps, NEW snr \in Snrs, NEW ours \in BOOLEAN,
              NEW fits \in Fits, ReceiveProbeResp(ap, snr, ours, fits)
       PROVE  PatientInv'
  BY <1>1, <1>9, <1>10 DEF ReceiveProbeResp, Pending, IsRunning
<1>11. ASSUME NEW ap \in Aps, ReceiveAssocSuccess(ap) PROVE PatientInv'
  BY <1>1, <1>11 DEF ReceiveAssocSuccess, Pending, EventInv, NeverStranded
<1>12. CASE ReceiveAssocRefusal
  <2>1. CASE m_candidateAps = <<>>
    BY <1>1, <1>12, <2>1 DEF ReceiveAssocRefusal, Pending, IsRunning
  <2>2. CASE m_candidateAps # <<>>
    BY <1>12, <2>2, TryBestPatient DEF ReceiveAssocRefusal
  <2> QED
    BY <2>1, <2>2
<1>13. ASSUME NEW ap \in Aps, NEW cfPoll \in BOOLEAN, ReceiveData(ap, cfPoll)
       PROVE  PatientInv'
  BY <1>1, <1>13 DEF ReceiveData, Pending, IsRunning
<1>14. ASSUME NEW probe, NEW wait, ScanningTimeout(probe, wait) PROVE PatientInv'
  <2>1. CASE m_candidateAps # <<>>
    BY <1>14, <2>1, TryBestPatient DEF ScanningTimeout
  <2>2. CASE m_candidateAps = <<>>
    BY <1>1, <1>14, <2>2 DEF ScanningTimeout, StartScanning, Pending, IsRunning
  <2> QED
    BY <2>1, <2>2
<1>15. CASE AssocRequestEventDue
  BY <1>1, <1>15 DEF AssocRequestEventDue, Pending, IsRunning, Off
<1>16. CASE MissedBeacons
  BY <1>16 DEF MissedBeacons, LoseAssociation, StartScanning, PatientInv,
     Pending, IsRunning, Delay, Off
<1>17. CASE Tick
  <2>1. IsRunning(m_beaconWatchdog)' <=> IsRunning(m_beaconWatchdog)
    BY <1>17 DEF Tick, Left, Off, IsRunning, Typed, TypeOK
  <2>2. Pending' <=> Pending
    BY <1>17 DEF Tick, Left, Off, IsRunning, Pending, Typed, TypeOK
  <2>3. ASSUME Pending, IsRunning(m_beaconWatchdog)
        PROVE  m_beaconWatchdogEnd' + silence' >= Delay(m_bssid)
    <3>1. Delay(m_bssid) \in Nat /\ Delay(m_bssid) <= SilenceBound
      BY <2>3, DelayType, TimeAssumption DEF PatientInv
    <3>2. m_beaconWatchdogEnd + silence >= Delay(m_bssid)
      BY <2>3 DEF PatientInv
    <3> QED
      BY <1>17, <3>1, <3>2, TimeAssumption DEF Tick, Max2, Min2, Typed, TypeOK
  <2> QED
    BY <1>17, <2>1, <2>2, <2>3 DEF Tick, PatientInv, Delay
<1>18. CASE UNCHANGED vars
  BY <1>1, <1>18 DEF vars, Pending, IsRunning
<1> QED
  BY <1>2, <1>3, <1>4, <1>5, <1>6, <1>7, <1>8, <1>9, <1>10, <1>11, <1>12,
     <1>13, <1>14, <1>15, <1>16, <1>17, <1>18
     DEF Next, Receive, Call, Event, Ended, ReceiveOtherBeacon,
         ReceiveAssocRespUnasked, ProbeRequestEventDue, WaitBeaconEventDue

\* When every candidate fits the station's membership selectors, an AP that is
\* asked or associated is never taken for lost before MaxMissedBeacons of its
\* own intervals have passed without a beacon.
THEOREM WatchdogIsPatient ==
    ASSUME Fits \subseteq {TRUE}
    PROVE  Spec => []WatchdogPatient
<1>1. Init => EventInv /\ PatientInv
  BY DEF Init, EventInv, NeverStranded, NoLeftoverEvent, WatchdogFollowsEnd,
     Fresh, PatientInv, Pending, IsRunning
<1>2. EventInv /\ PatientInv => WatchdogPatient
  BY DEF EventInv, NeverStranded, PatientInv, Pending, WatchdogPatient
<1>3. Typed /\ EventInv /\ PatientInv /\ [Next]_vars => PatientInv'
  BY PatientStep
<1> QED
  BY <1>1, <1>2, <1>3, InitTyped, TypedStep, EventStep, PTL DEF Spec
=============================================================================
