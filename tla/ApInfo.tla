------------------------------- MODULE ApInfo -------------------------------
(***************************************************************************)
(* What a station derives from the capabilities an access point            *)
(* advertises: the UpdateApInfoFrom* functions of sta-wifi-mac.cc.  The    *)
(* PHY and the remote station manager they write to are one record:        *)
(*                                                                         *)
(*   slot, cwMin      m_phy->SetSlot, ConfigureContentionWindow            *)
(*   shortPreamble, shortSlot, nonErp, greenfield                          *)
(*                    the flags of m_stationManager                        *)
(*   modes            the APs whose rates AddSupportedMode registered      *)
(*   basic            the APs whose basic rates AddBasicMode added         *)
(*   mcs              per AP, the PHY generations of its registered MCSs   *)
(*   qos              the APs that SetQosSupport marked                    *)
(*   edca, bssColor   the AP whose EDCA parameters, whose HE colour apply  *)
(*                                                                         *)
(* Rates, MCS tables and EDCA numbers are abstracted to the AP they come   *)
(* from.                                                                   *)
(***************************************************************************)
EXTENDS Naturals

CONSTANTS
    Aps,            \* the access points, named by their BSSID
    NoAp,           \* the BSSID before the first SetBssid
    Caps,           \* Caps[ap]: what ap puts in its management frames
    ErpSupported, QosSupported, HtSupported, VhtSupported, HeSupported
                    \* Get*Supported() of the station

CapType == [shortPreamble : BOOLEAN, shortSlot : BOOLEAN, barker : BOOLEAN,
            useProtection : BOOLEAN, erpRates : BOOLEAN, qos : BOOLEAN,
            ht : BOOLEAN, nonGf : BOOLEAN, vht : BOOLEAN, he : BOOLEAN]

ASSUME ApAssumption ==
    /\ NoAp \notin Aps
    /\ Caps \in [Aps -> CapType]
    /\ {ErpSupported, QosSupported, HtSupported, VhtSupported, HeSupported}
         \subseteq BOOLEAN

\* An AP sends short-slot and Barker indications only with ERP rates.
ASSUME ErpAssumption ==
    \A ap \in Aps : Caps[ap].shortSlot \/ Caps[ap].barker => Caps[ap].erpRates

InfoType == [slot : {9, 20}, cwMin : {15, 31},
             shortPreamble : BOOLEAN, shortSlot : BOOLEAN,
             nonErp : BOOLEAN, greenfield : BOOLEAN,
             modes : SUBSET Aps, basic : SUBSET Aps, qos : SUBSET Aps,
             mcs : [Aps -> SUBSET {"HT", "VHT", "HE"}],
             edca : Aps \cup {NoAp}, bssColor : Aps \cup {NoAp}]

\* Nothing is known of any AP; the PHY has the defaults of its standard.
NoInfo == [slot |-> 20, cwMin |-> IF ErpSupported THEN 15 ELSE 31,
           shortPreamble |-> FALSE, shortSlot |-> FALSE,
           nonErp |-> FALSE, greenfield |-> FALSE,
           modes |-> {}, basic |-> {}, qos |-> {},
           mcs |-> [ap \in Aps |-> {}], edca |-> NoAp, bssColor |-> NoAp]

-----------------------------------------------------------------------------
SlotFor(short) == IF short THEN 9 ELSE 20

\* The part of S to keep or extend when ap does or does not support a feature.
Mark(S, ap, supported) == IF supported THEN S \cup {ap} ELSE S \ {ap}

\* The QoS block common to beacons and association responses.
EdcaOf(info, ap) ==
    IF QosSupported /\ Caps[ap].qos THEN ap ELSE info.edca

QosOf(info, ap) ==
    IF QosSupported THEN Mark(info.qos, ap, Caps[ap].qos) ELSE info.qos

\* The HT block common to both: an AP without MCS 0 loses all its MCSs.
GreenfieldOf(info, ap) ==
    IF HtSupported /\ Caps[ap].ht THEN Caps[ap].nonGf ELSE info.greenfield

KeptMcs(info, ap) ==
    IF HtSupported /\ ~Caps[ap].ht THEN {} ELSE info.mcs[ap]

HtMcs(ap)  == IF HtSupported  /\ Caps[ap].ht  THEN {"HT"}  ELSE {}
VhtMcs(ap) == IF VhtSupported /\ Caps[ap].vht THEN {"VHT"} ELSE {}
HeMcs(ap)  == IF HeSupported  /\ Caps[ap].he  THEN {"HE"}  ELSE {}

UpdateApInfoFromBeacon(info, ap) ==
    LET c == Caps[ap] IN
    [slot          |-> IF ErpSupported THEN SlotFor(c.shortSlot) ELSE info.slot,
     cwMin         |-> info.cwMin,
     shortPreamble |-> c.shortPreamble /\ (ErpSupported => ~c.barker),
     shortSlot     |-> c.shortSlot,
     nonErp        |-> IF ErpSupported THEN c.useProtection ELSE info.nonErp,
     greenfield    |-> GreenfieldOf(info, ap),
     modes         |-> info.modes \cup {ap},
     basic         |-> info.basic,
     qos           |-> QosOf(info, ap),
     mcs           |-> [info.mcs EXCEPT ![ap] =
                          KeptMcs(info, ap) \cup VhtMcs(ap) \cup HeMcs(ap)],
     edca          |-> EdcaOf(info, ap),
     bssColor      |-> info.bssColor]

\* The ERP block common to probe and association responses.  The slot follows
\* the short-slot flag as it was BEFORE this frame; the flag is set afterwards.
SlotFromResponse(info, ap) ==
    IF ~ErpSupported THEN info.slot
    ELSE SlotFor(Caps[ap].erpRates /\ info.shortSlot)

CwMinFromResponse(info, ap) ==
    IF ~ErpSupported THEN info.cwMin
    ELSE IF Caps[ap].erpRates THEN 15 ELSE 31

PreambleFromResponse(ap) ==
    /\ Caps[ap].shortPreamble
    /\ ErpSupported /\ Caps[ap].erpRates => ~Caps[ap].barker

\* Variant of UpdateApInfoFromProbeResp that leaves the short-slot flag alone.
ProbeRespKeepsSlotFlag(info, ap, fits) ==
    IF ~fits THEN info
    ELSE [info EXCEPT !.slot = SlotFromResponse(info, ap),
                      !.cwMin = CwMinFromResponse(info, ap),
                      !.shortPreamble = PreambleFromResponse(ap),
                      !.modes = @ \cup {ap}, !.basic = @ \cup {ap}]

\* fits: the AP's rates contain every BSS membership selector of the station.
UpdateApInfoFromProbeResp(info, ap, fits) ==
    IF ~fits THEN info ELSE
    [slot          |-> SlotFromResponse(info, ap),
     cwMin         |-> CwMinFromResponse(info, ap),
     shortPreamble |-> PreambleFromResponse(ap),
     shortSlot     |-> Caps[ap].shortSlot,
     nonErp        |-> info.nonErp,
     greenfield    |-> info.greenfield,
     modes         |-> info.modes \cup {ap},
     basic         |-> info.basic \cup {ap},
     qos           |-> info.qos,
     mcs           |-> info.mcs,
     edca          |-> info.edca,
     bssColor      |-> info.bssColor]

UpdateApInfoFromAssocResp(info, ap) ==
    [slot          |-> SlotFromResponse(info, ap),
     cwMin         |-> CwMinFromResponse(info, ap),
     shortPreamble |-> PreambleFromResponse(ap),
     shortSlot     |-> Caps[ap].shortSlot,
     nonErp        |-> info.nonErp,
     greenfield    |-> GreenfieldOf(info, ap),
     modes         |-> info.modes \cup {ap},
     basic         |-> info.basic \cup {ap},
     qos           |-> QosOf(info, ap),
     mcs           |-> [info.mcs EXCEPT ![ap] = KeptMcs(info, ap)
                          \cup HtMcs(ap) \cup VhtMcs(ap) \cup HeMcs(ap)],
     edca          |-> EdcaOf(info, ap),
     bssColor      |-> IF HeSupported /\ Caps[ap].he THEN ap
                       ELSE info.bssColor]

-----------------------------------------------------------------------------
\* What the record says of ap once ap has accepted the station, whatever APs
\* were met before: written from the capabilities alone.
InfoOf(info, ap) ==
    LET c == Caps[ap] IN
    /\ ErpSupported => /\ info.slot = SlotFor(c.erpRates /\ c.shortSlot)
                       /\ info.cwMin = IF c.erpRates THEN 15 ELSE 31
    /\ info.shortSlot = c.shortSlot
    /\ info.shortPreamble = (c.shortPreamble /\ ~(ErpSupported /\ c.barker))
    /\ QosSupported => /\ ap \in info.qos <=> c.qos
                       /\ c.qos => info.edca = ap
    /\ info.mcs[ap] = HtMcs(ap) \cup VhtMcs(ap) \cup HeMcs(ap)
    /\ ap \in info.modes
=============================================================================
