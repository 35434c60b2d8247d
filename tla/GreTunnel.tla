----------------------------- MODULE GreTunnel ------------------------------
(***************************************************************************)
(* The tunnel program of the regional bridge BRGr in lab4 (0716206.cpp):   *)
(* the first GRE packet of a customer bridge makes BRGr create its end of  *)
(* the tunnel and exclude the bridge from the capture.                     *)
(*                                                                         *)
(* The handler runs `ip` commands and only then replaces the filter;       *)
(* packets are captured in between, so these are two actions.  The filter  *)
(* typed at the start is taken to select GRE in IPv4.                      *)
(***************************************************************************)
EXTENDS Integers, Sequences, SequencesExt

CONSTANTS
    Brgs,              \* addresses of the customer bridges
    BRGr, Router,      \* 140.113.0.1 and 140.113.0.2
    MaxPackets,        \* bound on the packets sent
    MaxRing            \* bound on the packets captured and not yet handled

Hosts == Brgs \cup {BRGr, Router}

ASSUME GreAssumption ==
    /\ BRGr \notin Brgs /\ Router \notin Brgs
    /\ MaxPackets \in Nat /\ MaxRing \in Nat

VARIABLES
    tunnel_cnt,
    update_filter,     \* the sources that the next filter will exclude
    installed,         \* the sources that the filter in use excludes
    ring,              \* sources of the packets captured, not yet handled
    handling,          \* packetHandler has yet to replace the filter
    links,             \* the GRE devices: number and remote end
    br0,               \* the devices in bridge br0, -1 for BRGr-eth0
    br0Up,
    sent               \* number of packets sent

vars == <<tunnel_cnt, update_filter, installed, ring, handling, links, br0,
          br0Up, sent>>

\* What update_filter excludes before any tunnel exists.
OwnHosts == {BRGr, Router}

Init ==
    /\ tunnel_cnt = 0
    /\ update_filter = OwnHosts /\ installed = {}
    /\ ring = <<>> /\ handling = FALSE
    /\ links = {} /\ br0 = {} /\ br0Up = FALSE
    /\ sent = 0

\* A bridge sends a frame through its end of the tunnel, which topology.py
\* sets up at once, or BRGr through one of its own.
Send(src) ==
    /\ sent < MaxPackets /\ sent' = sent + 1
    /\ Len(ring) < MaxRing
    /\ src \in Brgs \/ (src = BRGr /\ links # {})
    /\ ring' = IF src \in installed THEN ring ELSE Append(ring, src)
    /\ UNCHANGED <<tunnel_cnt, update_filter, installed, handling, links, br0,
                   br0Up>>

\* pcap_setfilter also holds for what the ring had captured before.
Skip ==
    /\ ~handling /\ ring # <<>>
    /\ Head(ring) \in installed
    /\ ring' = Tail(ring)
    /\ UNCHANGED <<tunnel_cnt, update_filter, installed, handling, links, br0,
                   br0Up, sent>>

\* Variant of NewLinks that names every device GRE0.
NewLinksSameName(src) ==
    IF links # {} THEN {} ELSE {[n |-> tunnel_cnt, remote |-> src]}

\* "ip link add GRE<n> type gretap remote <src>", refused by the kernel when
\* a tunnel with this remote end exists.
NewLinks(src) ==
    IF \E l \in links : l.remote = src THEN {}
    ELSE {[n |-> tunnel_cnt, remote |-> src]}

\* Variant of NextFilter that assigns where the code appends.
FilterAfresh(src) == OwnHosts \cup {src}

NextFilter(src) == update_filter \cup {src}

\* packetHandler up to pcap_setfilter.
CreateTunnel ==
    LET src == Head(ring) IN
    /\ ~handling /\ ring # <<>>
    /\ src \notin installed
    /\ ring' = Tail(ring)
    /\ links' = links \cup NewLinks(src)
    /\ br0' = br0 \cup {l.n : l \in NewLinks(src)}
                  \cup (IF tunnel_cnt < 1 THEN {-1} ELSE {})
    /\ br0Up' = TRUE
    /\ tunnel_cnt' = tunnel_cnt + 1
    /\ update_filter' = NextFilter(src)
    /\ handling' = TRUE
    /\ UNCHANGED <<installed, sent>>

\* Variant of SetFilter that keeps the filter that was typed.
SetFilterFails ==
    /\ handling
    /\ handling' = FALSE
    /\ UNCHANGED <<tunnel_cnt, update_filter, installed, ring, links, br0,
                   br0Up, sent>>

SetFilter ==
    /\ handling
    /\ installed' = update_filter
    /\ handling' = FALSE
    /\ UNCHANGED <<tunnel_cnt, update_filter, ring, links, br0, br0Up, sent>>

Next ==
    \/ \E src \in Brgs \cup {BRGr} : Send(src)
    \/ Skip
    \/ CreateTunnel
    \/ SetFilter

\* pcap_loop takes what is captured, and a handler that runs comes to its end.
Fairness == WF_vars(Skip) /\ WF_vars(CreateTunnel) /\ WF_vars(SetFilter)

Spec == Init /\ [][Next]_vars /\ Fairness

-----------------------------------------------------------------------------
\* The types of the program's variables and of the kernel's devices.
TypeOK ==
    /\ tunnel_cnt \in 0..MaxPackets
    /\ update_filter \subseteq Hosts /\ installed \subseteq Hosts
    /\ ring \in Seq(Hosts) /\ Len(ring) <= MaxRing
    /\ handling \in BOOLEAN
    /\ links \subseteq [n : 0..tunnel_cnt - 1, remote : Hosts]
    /\ br0 \subseteq -1..tunnel_cnt - 1 /\ br0Up \in BOOLEAN
    /\ sent \in 0..MaxPackets

\* Every tunnel ever counted exists and is a port of the bridge: the kernel
\* refused none as a second one to the same end.
EveryTunnelIsBridged ==
    /\ {l.n : l \in links} = 0..tunnel_cnt - 1
    /\ links # {} => br0Up /\ br0 = -1..tunnel_cnt - 1

\* A bridge whose frame is captured gets its tunnel.
HeardIsTunnelled ==
    \A b \in Brgs :
        (\E i \in 1..Len(ring) : ring[i] = b) ~> \E l \in links : l.remote = b

\* The remote ends in the order of the numbers.
Remotes ==
    LET inOrder == SetToSortSeq(links, LAMBDA l, m : l.n < m.n)
    IN  [i \in 1..Len(inOrder) |-> inOrder[i].remote]

Service == INSTANCE TunnelService WITH Peers <- Brgs, served <- Remotes

\* The program implements the tunnel service for the customer bridges.
ImplementsService == Service!Spec
=============================================================================
