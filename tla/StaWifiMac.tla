----------------------------- MODULE StaWifiMac -----------------------------
(***************************************************************************)
(* The association state machine of a Wi-Fi station with SNR-driven        *)
(* handoff (lab6, sta-wifi-mac.cc), against an arbitrary environment: any  *)
(* management frame may arrive, be lost or be repeated at any time.        *)
(*                                                                         *)
(* Time is discrete.  A simulator event is Off (never scheduled, cancelled *)
(* or expired) or the number of ticks until it is due; time does not pass  *)
(* a due event.  Absolute times are kept relative to now.                  *)
(***************************************************************************)
EXTENDS ApInfo, Integers, Sequences, SequencesExt

CONSTANTS
    Snrs,                 \* linear SNRs a frame may be received with
    SnrDb,                \* SnrDb[s] = 10*log10(s), for s = 0 too (-infinity)
    m_snrThreshold,       \* attribute SNR_Threshold, in dB
    ProbeRequestTimeout, WaitBeaconTimeout, AssocRequestTimeout,
    Interval,             \* Interval[ap]: beacon interval of ap
    MaxMissedBeacons,
    Fits,                 \* which answers IsBssMembershipSelectorRate gives
    StrayResponses,       \* may responses of an AP not addressed arrive?
    SilenceBound,         \* cap of the history variable silence
    AssertsEnabled        \* is NS_ASSERT compiled in (debug build)?

Min2(a, b) == IF a < b THEN a ELSE b
Max2(a, b) == IF a < b THEN b ELSE a

\* The delay after which the watchdog takes ap for lost.
Delay(ap) == Interval[ap] * MaxMissedBeacons

ASSUME SnrAssumption ==
    /\ Snrs \subseteq Nat \ {0}
    /\ SnrDb \in [Snrs \cup {0} -> Int]
    /\ m_snrThreshold \in Int
    /\ SnrDb[0] < m_snrThreshold
    /\ \A s, t \in Snrs \cup {0} : s < t => SnrDb[s] < SnrDb[t]

ASSUME TimeAssumption ==
    /\ {ProbeRequestTimeout, WaitBeaconTimeout, AssocRequestTimeout}
         \subseteq Nat \ {0}
    /\ Interval \in [Aps -> Nat \ {0}]
    /\ MaxMissedBeacons \in Nat \ {0}
    /\ SilenceBound \in Nat
    /\ \A ap \in Aps : Delay(ap) <= SilenceBound

ASSUME EnvAssumption ==
    /\ Fits \subseteq BOOLEAN
    /\ StrayResponses \in BOOLEAN
    /\ AssertsEnabled \in BOOLEAN

VARIABLES
    m_state,              \* MacState
    m_bssid,              \* GetBssid()
    m_aid,                \* the AP that issued m_aid
    m_candidateAps,       \* APs heard in the current scan, best first
    m_activeProbing,
    m_probeRequestEvent, m_waitBeaconEvent, m_assocRequestEvent,
    m_beaconWatchdog,     \* the four simulator events
    m_beaconWatchdogEnd,  \* time left until m_beaconWatchdogEnd, 0 if past
    info,                 \* what UpdateApInfoFrom* wrote (module ApInfo)
    link,                 \* the last of the m_linkUp/m_linkDown callbacks
    queued,               \* frames the last handler gave to m_txop
    silence,              \* history: ticks since the last BeaconArrival trace
                          \* or association attempt, capped
    aborted               \* an NS_ASSERT has ended the program

scanVars  == <<m_candidateAps, m_probeRequestEvent, m_waitBeaconEvent>>
watchVars == <<m_beaconWatchdog, m_beaconWatchdogEnd, silence>>
apVars    == <<m_bssid, info>>
vars == <<m_state, m_aid, m_activeProbing, m_assocRequestEvent, link, queued,
          aborted, scanVars, watchVars, apVars>>

Off == -1
IsRunning(event) == event # Off
Left(event) == IF event > 0 THEN event - 1 ELSE event

MacState == {"UNASSOCIATED", "WAIT_PROBE_RESP", "WAIT_BEACON",
             "WAIT_ASSOC_RESP", "ASSOCIATED", "REFUSED"}
Scanning == m_state \in {"WAIT_PROBE_RESP", "WAIT_BEACON"}

ApInfoEntry == [bssid : Aps, snr : Snrs, active : BOOLEAN, fits : Fits \cup {TRUE}]

\* Frames the station sends, by type and receiver address.
ProbeRequest       == [type |-> "PROBE_REQ", to |-> NoAp]
AssocRequest(b)    == [type |-> "ASSOC_REQ", to |-> b]
ReassocRequest(b)  == [type |-> "REASSOC_REQ", to |-> b]
Disassociation(b)  == [type |-> "DISASSOC", to |-> b]
Data(b)            == [type |-> "DATA", to |-> b]
CfNull(b)          == [type |-> "CF_NULL", to |-> b]

Frames == [type : {"PROBE_REQ", "ASSOC_REQ", "REASSOC_REQ", "DISASSOC",
                   "DATA", "CF_NULL"},
           to : Aps \cup {NoAp}]

\* The constructor and the attributes, before DoInitialize.
Init ==
    /\ m_state = "UNASSOCIATED"
    /\ m_bssid = NoAp
    /\ m_aid = NoAp
    /\ m_candidateAps = <<>>
    /\ m_activeProbing \in BOOLEAN
    /\ m_probeRequestEvent = Off
    /\ m_waitBeaconEvent = Off
    /\ m_assocRequestEvent = Off
    /\ m_beaconWatchdog = Off
    /\ m_beaconWatchdogEnd = 0
    /\ info = NoInfo
    /\ link = "down"
    /\ queued = {}
    /\ silence = 0
    /\ aborted = FALSE

-----------------------------------------------------------------------------
(* Parts of handlers.  Each says which variables it determines.            *)

\* Variant of StartScanning that cancels m_waitBeaconEvent after scheduling it.
StartScanningThenCancel(active, sent) ==
    /\ m_candidateAps' = <<>>
    /\ m_state' = IF active THEN "WAIT_PROBE_RESP" ELSE "WAIT_BEACON"
    /\ queued' = IF active THEN sent \cup {ProbeRequest} ELSE sent
    /\ m_probeRequestEvent' = IF active THEN ProbeRequestTimeout ELSE Off
    /\ m_waitBeaconEvent' = Off

\* StartScanning, in mode active, after the frames in sent were queued.
\* Determines m_state, queued and scanVars.  The event of a pending
\* association request is not touched.
StartScanning(active, sent) ==
    /\ m_candidateAps' = <<>>
    /\ m_state' = IF active THEN "WAIT_PROBE_RESP" ELSE "WAIT_BEACON"
    /\ queued' = IF active THEN sent \cup {ProbeRequest} ELSE sent
    /\ m_probeRequestEvent' = IF active THEN ProbeRequestTimeout ELSE Off
    /\ m_waitBeaconEvent' = IF active THEN Off ELSE WaitBeaconTimeout

\* SetState(UNASSOCIATED); TryToEnsureAssociated().  Determines link too.
LoseAssociation(sent) ==
    /\ link' = "down"
    /\ StartScanning(m_activeProbing, sent)

\* Variant of RestartBeaconWatchdog without the std::max.
RestartWithoutMax(delay) ==
    /\ m_beaconWatchdogEnd' = delay
    /\ m_beaconWatchdog' = IF IsRunning(m_beaconWatchdog) \/ delay = 0
                           THEN m_beaconWatchdog ELSE delay
    /\ silence' = 0

\* Variant of RestartBeaconWatchdog that leaves all to a running watchdog.
RestartIfExpired(delay) ==
    /\ silence' = 0
    /\ IF IsRunning(m_beaconWatchdog)
       THEN UNCHANGED <<m_beaconWatchdog, m_beaconWatchdogEnd>>
       ELSE m_beaconWatchdog' = delay /\ m_beaconWatchdogEnd' = delay

\* Determines watchVars.  A running watchdog keeps its due time.
RestartBeaconWatchdog(delay) ==
    /\ m_beaconWatchdogEnd' = Max2(delay, m_beaconWatchdogEnd)
    /\ m_beaconWatchdog' = IF IsRunning(m_beaconWatchdog) \/ delay = 0
                           THEN m_beaconWatchdog ELSE delay
    /\ silence' = 0

\* Determines queued and m_assocRequestEvent.
SendAssociationRequest(frame) ==
    /\ queued' = {frame}
    /\ m_assocRequestEvent' = AssocRequestTimeout

\* Variant of TryBestCandidate without RestartBeaconWatchdog.
TryBestUnwatched ==
    LET best == Head(m_candidateAps)
        chosen == IF best.active /\ ~best.fits THEN m_bssid ELSE best.bssid
    IN  /\ m_candidateAps' = Tail(m_candidateAps)
        /\ m_bssid' = chosen
        /\ info' = IF best.active
                   THEN UpdateApInfoFromProbeResp(info, best.bssid, best.fits)
                   ELSE UpdateApInfoFromBeacon(info, best.bssid)
        /\ m_state' = "WAIT_ASSOC_RESP"
        /\ SendAssociationRequest(AssocRequest(chosen))
        /\ UNCHANGED watchVars

\* ScanningTimeout with the best candidate.  Determines all but m_aid,
\* m_activeProbing, link and the scan events.
TryBestCandidate ==
    LET best == Head(m_candidateAps)
        chosen == IF best.active /\ ~best.fits THEN m_bssid ELSE best.bssid
    IN  /\ m_candidateAps' = Tail(m_candidateAps)
        /\ m_bssid' = chosen
        /\ info' = IF best.active
                   THEN UpdateApInfoFromProbeResp(info, best.bssid, best.fits)
                   ELSE UpdateApInfoFromBeacon(info, best.bssid)
        /\ RestartBeaconWatchdog(Delay(best.bssid))
        /\ m_state' = "WAIT_ASSOC_RESP"
        /\ SendAssociationRequest(AssocRequest(chosen))

\* Variant of UpdateCandidateApList that keeps the old entry of the AP.
UpdateWithoutErase(list, ap) ==
    LET lower == SelectInSeq(list, LAMBDA c : ap.snr > c.snr)
    IN  IF SnrDb[ap.snr] < m_snrThreshold THEN list
        ELSE IF lower = 0 THEN Append(list, ap)
        ELSE InsertAt(list, lower, ap)

\* UpdateCandidateApList: drop the old entry of the same BSSID, then insert
\* before the first entry with a lower SNR unless the SNR is below threshold.
UpdateCandidateApList(list, ap) ==
    LET others == RemoveFirstMatch(list, LAMBDA c : c.bssid = ap.bssid)
        lower  == SelectInSeq(others, LAMBDA c : ap.snr > c.snr)
    IN  IF SnrDb[ap.snr] < m_snrThreshold THEN others
        ELSE IF lower = 0 THEN Append(others, ap)
        ELSE InsertAt(others, lower, ap)

-----------------------------------------------------------------------------
(* Calls from outside.                                                     *)

DoInitialize ==
    /\ m_state = "UNASSOCIATED"
    /\ StartScanning(m_activeProbing, {})
    /\ UNCHANGED <<m_aid, m_activeProbing, m_assocRequestEvent, link, aborted,
                   watchVars, apVars>>

SetActiveProbing(enable) ==
    /\ m_activeProbing' = enable
    /\ IF Scanning
       THEN StartScanning(enable, {})
       ELSE queued' = {} /\ UNCHANGED <<m_state, scanVars>>
    /\ UNCHANGED <<m_aid, m_assocRequestEvent, link, aborted, watchVars, apVars>>

\* A packet from the upper layer; TryToEnsureAssociated changes nothing in the
\* states a handler leaves behind.
Enqueue ==
    /\ m_state # "UNASSOCIATED"
    /\ queued' = IF m_state = "ASSOCIATED" THEN {Data(m_bssid)} ELSE {}
    /\ UNCHANGED <<m_state, m_aid, m_activeProbing, m_assocRequestEvent, link,
                   aborted, scanVars, watchVars, apVars>>

PhyCapabilitiesChanged ==
    /\ m_state = "ASSOCIATED"
    /\ m_state' = "WAIT_ASSOC_RESP"
    /\ SendAssociationRequest(ReassocRequest(m_bssid))
    /\ UNCHANGED <<m_aid, m_activeProbing, link, aborted, scanVars, watchVars,
                   apVars>>

-----------------------------------------------------------------------------
(* Receive, one action per kind of frame.                                  *)

Ignore ==
    /\ queued' = {}
    /\ UNCHANGED <<m_state, m_aid, m_activeProbing, m_assocRequestEvent, link,
                   aborted, scanVars, watchVars, apVars>>

\* Variant of GoodBeacon that accepts the beacons of any AP of our SSID.
GoodBeaconOfAnyAp(ap, ours) == ours

\* ours: the beacon has our SSID and matches our BSS membership selectors.
GoodBeacon(ap, ours) ==
    ours /\ (m_state \in {"WAIT_ASSOC_RESP", "ASSOCIATED"} => ap = m_bssid)

\* The associated AP has become too weak.  In passive mode the state is now
\* WAIT_BEACON and the same beacon goes on to the code for scanning: its SNR
\* tag was already removed, so the assertion there fails; without assertions
\* the SNR reads as 0 and the AP is not inserted.
ReceiveWeakBeacon(ap, snr, ours) ==
    /\ GoodBeacon(ap, ours) /\ m_state = "ASSOCIATED"
    /\ SnrDb[snr] < m_snrThreshold
    /\ LoseAssociation({Disassociation(m_bssid)})
    /\ aborted' = (AssertsEnabled /\ ~m_activeProbing)
    /\ UNCHANGED <<m_aid, m_activeProbing, m_assocRequestEvent, watchVars,
                   apVars>>

ReceiveBeaconOfOurAp(ap, snr, ours) ==
    /\ GoodBeacon(ap, ours) /\ m_state = "ASSOCIATED"
    /\ SnrDb[snr] >= m_snrThreshold
    /\ RestartBeaconWatchdog(Delay(ap))
    /\ m_bssid' = ap
    /\ info' = UpdateApInfoFromBeacon(info, ap)
    /\ queued' = {}
    /\ UNCHANGED <<m_state, m_aid, m_activeProbing, m_assocRequestEvent, link,
                   aborted, scanVars>>

ReceiveBeaconScanning(ap, snr, ours) ==
    /\ GoodBeacon(ap, ours) /\ m_state = "WAIT_BEACON"
    /\ m_candidateAps' = UpdateCandidateApList(m_candidateAps,
           [bssid |-> ap, snr |-> snr, active |-> FALSE, fits |-> TRUE])
    /\ queued' = {}
    /\ UNCHANGED <<m_state, m_aid, m_activeProbing, m_assocRequestEvent, link,
                   aborted, m_probeRequestEvent, m_waitBeaconEvent, watchVars,
                   apVars>>

ReceiveOtherBeacon(ap, ours) ==
    /\ ~(GoodBeacon(ap, ours) /\ m_state \in {"ASSOCIATED", "WAIT_BEACON"})
    /\ Ignore

\* ours: the probe response has our SSID.
ReceiveProbeResp(ap, snr, ours, fits) ==
    IF m_state = "WAIT_PROBE_RESP" /\ ours
    THEN /\ m_candidateAps' = UpdateCandidateApList(m_candidateAps,
               [bssid |-> ap, snr |-> snr, active |-> TRUE, fits |-> fits])
         /\ queued' = {}
         /\ UNCHANGED <<m_state, m_aid, m_activeProbing, m_assocRequestEvent,
                        link, aborted, m_probeRequestEvent, m_waitBeaconEvent,
                        watchVars, apVars>>
    ELSE Ignore

\* Variant of ReceiveAssocSuccess that does not cancel m_assocRequestEvent.
AssocSuccessNoCancel(ap) ==
    /\ m_state = "WAIT_ASSOC_RESP"
    /\ m_state' = "ASSOCIATED"
    /\ m_aid' = ap
    /\ info' = UpdateApInfoFromAssocResp(info, ap)
    /\ link' = "up"
    /\ queued' = {}
    /\ UNCHANGED <<m_bssid, m_activeProbing, aborted, m_assocRequestEvent,
                   scanVars, watchVars>>

\* The sender of an association response is not compared with m_bssid.
ReceiveAssocSuccess(ap) ==
    /\ m_state = "WAIT_ASSOC_RESP"
    /\ m_state' = "ASSOCIATED"
    /\ m_assocRequestEvent' = Off
    /\ m_aid' = ap
    /\ info' = UpdateApInfoFromAssocResp(info, ap)
    /\ link' = "up"
    /\ queued' = {}
    /\ UNCHANGED <<m_bssid, m_activeProbing, aborted, scanVars, watchVars>>

ReceiveAssocRefusal ==
    /\ m_state = "WAIT_ASSOC_RESP"
    /\ IF m_candidateAps = <<>>
       THEN /\ m_state' = "REFUSED"
            /\ m_assocRequestEvent' = Off
            /\ queued' = {}
            /\ UNCHANGED <<m_candidateAps, watchVars, apVars>>
       ELSE TryBestCandidate
    /\ UNCHANGED <<m_aid, m_activeProbing, m_probeRequestEvent,
                   m_waitBeaconEvent, link, aborted>>

ReceiveAssocRespUnasked == m_state # "WAIT_ASSOC_RESP" /\ Ignore

\* Data changes no state of the MAC; a CF-Poll of our AP is answered.
ReceiveData(ap, cfPoll) ==
    /\ queued' = IF cfPoll /\ ap = m_bssid THEN {CfNull(m_bssid)} ELSE {}
    /\ UNCHANGED <<m_state, m_aid, m_activeProbing, m_assocRequestEvent, link,
                   aborted, scanVars, watchVars, apVars>>

-----------------------------------------------------------------------------
(* The simulator events, when due, and the passage of time.                *)

\* probe, wait: the scan events once the one that fired has expired.
ScanningTimeout(probe, wait) ==
    /\ IF m_candidateAps # <<>>
       THEN /\ TryBestCandidate
            /\ m_probeRequestEvent' = probe
            /\ m_waitBeaconEvent' = wait
       ELSE /\ StartScanning(m_activeProbing, {})
            /\ UNCHANGED <<m_assocRequestEvent, watchVars, apVars>>
    /\ UNCHANGED <<m_aid, m_activeProbing, link, aborted>>

ProbeRequestEventDue ==
    m_probeRequestEvent = 0 /\ ScanningTimeout(Off, m_waitBeaconEvent)

WaitBeaconEventDue ==
    m_waitBeaconEvent = 0 /\ ScanningTimeout(m_probeRequestEvent, Off)

AssocRequestEventDue ==
    /\ m_assocRequestEvent = 0
    /\ m_state' = "WAIT_ASSOC_RESP"
    /\ SendAssociationRequest(AssocRequest(m_bssid))
    /\ UNCHANGED <<m_aid, m_activeProbing, link, aborted, scanVars, watchVars,
                   apVars>>

\* Variant of MissedBeacons that returns early without scheduling itself again.
MissedBeaconsOnce ==
    /\ m_beaconWatchdog = 0
    /\ m_beaconWatchdog' = Off
    /\ IF m_beaconWatchdogEnd > 0
       THEN queued' = {} /\ UNCHANGED <<m_state, link, scanVars>>
       ELSE LoseAssociation({})
    /\ UNCHANGED <<m_aid, m_activeProbing, m_assocRequestEvent, aborted,
                   m_beaconWatchdogEnd, silence, apVars>>

\* Variant of MissedBeacons that leaves REFUSED alone.
MissedBeaconsUnlessRefused ==
    /\ m_beaconWatchdog = 0
    /\ m_beaconWatchdog' = Off
    /\ IF m_state = "REFUSED"
       THEN queued' = {} /\ UNCHANGED <<m_state, link, scanVars>>
       ELSE LoseAssociation({})
    /\ UNCHANGED <<m_aid, m_activeProbing, m_assocRequestEvent, aborted,
                   m_beaconWatchdogEnd, silence, apVars>>

MissedBeacons ==
    /\ m_beaconWatchdog = 0
    /\ IF m_beaconWatchdogEnd > 0
       THEN /\ m_beaconWatchdog' = m_beaconWatchdogEnd
            /\ queued' = {}
            /\ UNCHANGED <<m_state, link, scanVars>>
       ELSE /\ m_beaconWatchdog' = Off
            /\ LoseAssociation({})
    /\ UNCHANGED <<m_aid, m_activeProbing, m_assocRequestEvent, aborted,
                   m_beaconWatchdogEnd, silence, apVars>>

EventDue == 0 \in {m_probeRequestEvent, m_waitBeaconEvent,
                   m_assocRequestEvent, m_beaconWatchdog}

Tick ==
    /\ m_state # "UNASSOCIATED"
    /\ ~EventDue
    /\ m_probeRequestEvent' = Left(m_probeRequestEvent)
    /\ m_waitBeaconEvent'   = Left(m_waitBeaconEvent)
    /\ m_assocRequestEvent' = Left(m_assocRequestEvent)
    /\ m_beaconWatchdog'    = Left(m_beaconWatchdog)
    /\ m_beaconWatchdogEnd' = Max2(m_beaconWatchdogEnd - 1, 0)
    /\ silence' = Min2(silence + 1, SilenceBound)
    /\ queued' = {}
    /\ UNCHANGED <<m_state, m_aid, m_activeProbing, link, aborted,
                   m_candidateAps, apVars>>

-----------------------------------------------------------------------------
Receive ==
    \E ap \in Aps :
        \/ \E snr \in Snrs, ours \in BOOLEAN :
              \/ ReceiveWeakBeacon(ap, snr, ours)
              \/ ReceiveBeaconOfOurAp(ap, snr, ours)
              \/ ReceiveBeaconScanning(ap, snr, ours)
              \/ ReceiveOtherBeacon(ap, ours)
              \/ \E fits \in Fits : ReceiveProbeResp(ap, snr, ours, fits)
        \/ (StrayResponses \/ ap = m_bssid) /\ ReceiveAssocSuccess(ap)
        \/ ReceiveAssocRefusal
        \/ ReceiveAssocRespUnasked
        \/ \E cfPoll \in BOOLEAN : ReceiveData(ap, cfPoll)

Call ==
    \/ DoInitialize
    \/ \E enable \in BOOLEAN : SetActiveProbing(enable)
    \/ Enqueue
    \/ PhyCapabilitiesChanged

Event ==
    \/ ProbeRequestEventDue
    \/ WaitBeaconEventDue
    \/ AssocRequestEventDue
    \/ MissedBeacons

Ended == aborted /\ UNCHANGED vars

Next ==
    \/ ~aborted /\ (Receive \/ Call \/ Event \/ Tick)
    \/ Ended

\* The simulator initializes the node, runs every scheduled event and lets
\* time pass; nothing is assumed of the frames.
Fairness ==
    /\ WF_vars(~aborted /\ DoInitialize)
    /\ WF_vars(~aborted /\ ProbeRequestEventDue)
    /\ WF_vars(~aborted /\ WaitBeaconEventDue)
    /\ WF_vars(~aborted /\ AssocRequestEventDue)
    /\ WF_vars(~aborted /\ MissedBeacons)
    /\ WF_vars(~aborted /\ Tick)

Spec == Init /\ [][Next]_vars /\ Fairness

-----------------------------------------------------------------------------
\* The types of the members; silence stays within its cap, an event is Off or
\* has a time left that is not negative.
TypeOK ==
    /\ m_state \in MacState
    /\ m_bssid \in Aps \cup {NoAp}
    /\ m_aid \in Aps \cup {NoAp}
    /\ m_candidateAps \in Seq(ApInfoEntry)
    /\ m_activeProbing \in BOOLEAN
    /\ m_probeRequestEvent \in Nat \cup {Off}
    /\ m_waitBeaconEvent \in Nat \cup {Off}
    /\ m_assocRequestEvent \in Nat \cup {Off}
    /\ m_beaconWatchdog \in Nat \cup {Off}
    /\ m_beaconWatchdogEnd \in Nat
    /\ info \in InfoType
    /\ link \in {"up", "down"}
    /\ queued \subseteq Frames
    /\ silence \in 0..SilenceBound
    /\ aborted \in BOOLEAN

\* Every wait has the event armed that ends it.  While scanning this is the
\* scan event and while a response is awaited the request event; and from the
\* association request on it is the watchdog or, when that has expired, the
\* scan event of the scan that AssocRequestTimeout interrupted.
NeverStranded ==
    /\ m_state = "WAIT_PROBE_RESP" => IsRunning(m_probeRequestEvent)
    /\ m_state = "WAIT_BEACON" => IsRunning(m_waitBeaconEvent)
    /\ m_state = "WAIT_ASSOC_RESP" => IsRunning(m_assocRequestEvent)
    /\ m_state \in {"WAIT_ASSOC_RESP", "ASSOCIATED", "REFUSED"} =>
          \/ IsRunning(m_beaconWatchdog)
          \/ IsRunning(m_probeRequestEvent)
          \/ IsRunning(m_waitBeaconEvent)

\* Two scans never run at once, and no association request is resent by a
\* timer once the station is associated or refused.
NoLeftoverEvent ==
    /\ ~(IsRunning(m_probeRequestEvent) /\ IsRunning(m_waitBeaconEvent))
    /\ m_state \in {"ASSOCIATED", "REFUSED"} => ~IsRunning(m_assocRequestEvent)

\* m_candidateAps is what ScanningTimeout and a refusal take it for: each AP
\* once, the strongest first, and none below the threshold.
Ranked(list) ==
    \A i, j \in 1..Len(list) : i < j => /\ list[i].bssid # list[j].bssid
                                       /\ list[i].snr >= list[j].snr

Strong(list) ==
    \A i \in 1..Len(list) : SnrDb[list[i].snr] >= m_snrThreshold

CandidatesRanked == Ranked(m_candidateAps) /\ Strong(m_candidateAps)

\* The watchdog is due no later than m_beaconWatchdogEnd, and is not running
\* only when that time has passed: no beacon is forgotten.
WatchdogFollowsEnd ==
    IF IsRunning(m_beaconWatchdog) THEN m_beaconWatchdog <= m_beaconWatchdogEnd
    ELSE m_beaconWatchdogEnd = 0

\* While the station tries an AP or is associated, the watchdog leaves the AP
\* all of its own MaxMissedBeacons intervals, whatever the interval of the AP
\* it came from.
WatchdogPatient ==
    m_state \in {"WAIT_ASSOC_RESP", "ASSOCIATED"} /\ IsRunning(m_beaconWatchdog)
        => m_beaconWatchdogEnd + silence >= Delay(m_bssid)

\* What is configured for the AP is what that AP advertises, with nothing left
\* over from the APs before it.
InfoMatchesAp == m_state = "ASSOCIATED" => InfoOf(info, m_bssid)

\* The station seen from above.
AssocPhase == CASE m_state = "ASSOCIATED" -> "up"
                [] m_state = "WAIT_ASSOC_RESP" -> "asked"
                [] OTHER -> "idle"

Upper == INSTANCE Association WITH phase <- AssocPhase, ap <- m_bssid

\* The station is associated only with the m_bssid of its last request, hands
\* over only through a new request, and has reported the link up whenever
\* associated.  Who sent the response is not part of it: Receive does not
\* compare the sender with m_bssid.
ImplementsAssociation == Upper!Spec

-----------------------------------------------------------------------------
(* Liveness.                                                               *)

\* An AP that no longer sends beacons does not keep the station: it leaves
\* ASSOCIATED again and again, by MissedBeacons or a left-over scan event.
SilentApIsLeft ==
    (<>[][~\E ap \in Aps, snr \in Snrs :
              ReceiveBeaconOfOurAp(ap, snr, TRUE)]_vars)
        => []<>(m_state # "ASSOCIATED")

\* An association request that is never answered is given up.
WaitEnds == m_state = "WAIT_ASSOC_RESP" ~> m_state # "WAIT_ASSOC_RESP"

\* A refused station does not stay refused: the watchdog armed for the request
\* starts a new scan.
RefusedIsRetried == m_state = "REFUSED" ~> m_state # "REFUSED"

-----------------------------------------------------------------------------
(* Claims of the source that the code does not keep.                       *)

\* sta-wifi-mac.cc:703 asserts that a beacon met while scanning still carries
\* its SNR tag.
NoAssertFails == ~aborted

\* MaxMissedBeacons is the "Number of beacons which much be consecutively
\* missed before we attempt to restart association"; the SNR rule adds the
\* weak beacon, after which a disassociation is sent.
RestartAfterMissedBeacons ==
    [][m_state = "ASSOCIATED" /\ m_state' \in {"WAIT_PROBE_RESP", "WAIT_BEACON"}
         => silence >= Delay(m_bssid) \/ Disassociation(m_bssid) \in queued']_vars
=============================================================================
