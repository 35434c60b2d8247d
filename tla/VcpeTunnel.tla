----------------------------- MODULE VcpeTunnel -----------------------------
(***************************************************************************)
(* The tunnel program of the regional bridge BRGr (ns_project,             *)
(* packet_capture.cpp) with the customer bridges whose tunnels             *)
(* tunnel_BRG1.sh and tunnel_BRG2.sh set up, and which announce themselves *)
(* by send_udp.sh.  All bridges sit behind one NAT, so that the ports and  *)
(* the key alone tell their tunnels apart.                                 *)
(*                                                                         *)
(* The handler runs `ip` commands and only then replaces the filter;       *)
(* packets are captured in between, so these are two actions.  The filter  *)
(* typed at the start is taken to be a non-empty expression for UDP.       *)
(***************************************************************************)
EXTENDS Integers, Sequences, SequencesExt

CONSTANTS
    Brgs,              \* customer bridges
    sport,             \* sport[b]: encap-sport of the tunnel at bridge b
    dport,             \* dport[b]: its encap-dport, the port of BRGr
    key,               \* key[b]: its key
    EarlyData,         \* may a bridge send frames before BRGr has its tunnel?
    MaxPackets,        \* bound on the packets sent
    MaxRing            \* bound on the packets captured and not yet handled

Port == 1..65535

ASSUME VcpeAssumption ==
    /\ sport \in [Brgs -> Port] /\ dport \in [Brgs -> Port]
    /\ key \in [Brgs -> Nat]
    /\ \A a, b \in Brgs : /\ sport[a] # dport[b]
                          /\ a # b => sport[a] # sport[b] /\ dport[a] # dport[b]
    /\ EarlyData \in BOOLEAN
    /\ MaxPackets \in Nat /\ MaxRing \in Nat

VARIABLES
    tunnel_cnt,
    filter,            \* the ports that the filter excludes
    ring,              \* packets captured, not yet given to packetHandler
    handled,           \* dst_port while packetHandler runs, else 0
    links,             \* the GRE devices
    br1,               \* the devices in bridge br1, 0 for BRGr-eth0
    br1Up,
    net,               \* announcements on their way
    sent               \* number of packets sent

vars == <<tunnel_cnt, filter, ring, handled, links, br1, br1Up, net, sent>>
kernelVars == <<links, br1, br1Up>>

\* A UDP packet has ports and the number that its payload spells, 0 if it
\* spells none: the GRE header in front of an encapsulated frame.
Packet == [src : 0..65535, dst : Port, payload : 0..65535]

\* The sport of the tunnel as text, to its dport; nc picks a source port of
\* its own, written 0.
Announcement(b) == [src |-> 0, dst |-> dport[b], payload |-> sport[b]]

\* A frame in a tunnel, from bridge b or from BRGr.
FrameIn(b)  == [src |-> sport[b], dst |-> dport[b], payload |-> 0]
FrameOut(l) == [src |-> l.sport, dst |-> l.dport, payload |-> 0]

HasTunnel(b) == \E l \in links : l.sport = dport[b]

\* Variant of Passes that looks at the destination only.
PassesByDst(p) == p.dst \notin filter

\* "and not port n" for every n of filter.
Passes(p) == p.src \notin filter /\ p.dst \notin filter

-----------------------------------------------------------------------------
(* The destination port, read bit by bit from its two bytes.               *)

\* bitset<8>(byte).to_string(), most significant bit first.
to_string(byte) == [i \in 1..8 |-> (byte \div 2^(8 - i)) % 2]

SumOf(f) == FoldFunction(LAMBDA x, y : x + y, 0, f)

b_to_int(s) == SumOf([i \in DOMAIN s |-> s[i] * 2^(Len(s) - i)])

dst_port(p) == b_to_int(to_string(p.dst \div 256) \o to_string(p.dst % 256))

-----------------------------------------------------------------------------
Init ==
    /\ tunnel_cnt = 1
    /\ filter = {} /\ ring = <<>> /\ handled = 0
    /\ links = {} /\ br1 = {} /\ br1Up = FALSE
    /\ net = {} /\ sent = 0

\* The kernel puts a packet that passes the filter in the ring.
Capture(p) ==
    /\ Len(ring) < MaxRing
    /\ ring' = IF Passes(p) THEN Append(ring, p) ELSE ring

\* Somebody runs send_udp.sh at bridge b, possibly again.
SendUdp(b) ==
    /\ sent < MaxPackets /\ sent' = sent + 1
    /\ net' = net \cup {Announcement(b)}
    /\ UNCHANGED <<tunnel_cnt, filter, ring, handled, kernelVars>>

\* An announcement arrives; the network may deliver it once more.
Arrive(p) ==
    /\ p \in net
    /\ Capture(p)
    /\ net' \in {net, net \ {p}}
    /\ UNCHANGED <<tunnel_cnt, filter, handled, kernelVars, sent>>

Lose(p) ==
    /\ p \in net
    /\ net' = net \ {p}
    /\ UNCHANGED <<tunnel_cnt, filter, ring, handled, kernelVars, sent>>

\* A frame crosses BRGr-eth1, in either direction.
Frame(p) ==
    /\ sent < MaxPackets /\ sent' = sent + 1
    /\ Capture(p)
    /\ UNCHANGED <<tunnel_cnt, filter, handled, kernelVars, net>>

SendFrame ==
    \/ \E b \in Brgs : (EarlyData \/ HasTunnel(b)) /\ Frame(FrameIn(b))
    \/ \E l \in links : Frame(FrameOut(l))

\* pcap_setfilter also holds for what the ring had captured before.
Skip ==
    /\ handled = 0 /\ ring # <<>>
    /\ ~Passes(Head(ring))
    /\ ring' = Tail(ring)
    /\ UNCHANGED <<tunnel_cnt, filter, handled, kernelVars, net, sent>>

\* Variant of NewLinks that takes the ports of the packet as they come.
NewLinksSwapped(p) ==
    IF p.payload = 0 THEN {}
    ELSE {[n |-> tunnel_cnt, key |-> tunnel_cnt,
           sport |-> p.payload, dport |-> dst_port(p)]}

\* "ip link add GRE<n>", which fails when the payload is not a port.
NewLinks(p) ==
    IF p.payload = 0 THEN {}
    ELSE {[n |-> tunnel_cnt, key |-> tunnel_cnt,
           sport |-> dst_port(p), dport |-> p.payload]}

\* Variant of CreateTunnel that names every device GRE1.
CreateTunnelSameName ==
    LET p == Head(ring) IN
    /\ handled = 0 /\ ring # <<>>
    /\ Passes(p)
    /\ ring' = Tail(ring)
    /\ links' = IF tunnel_cnt = 1 THEN links \cup NewLinks(p) ELSE links
    /\ br1' = br1 \cup {0} \cup {l.n : l \in NewLinks(p)}
    /\ br1Up' = TRUE
    /\ tunnel_cnt' = tunnel_cnt + 1
    /\ handled' = dst_port(p)
    /\ UNCHANGED <<filter, net, sent>>

\* packetHandler up to the filter: the tunnel, and with the first the bridge.
\* Nothing looks at whether the commands succeed.  (The ports that `ip fou add`
\* has opened are those of filter, and handled.)
CreateTunnel ==
    LET p == Head(ring) IN
    /\ handled = 0 /\ ring # <<>>
    /\ Passes(p)
    /\ ring' = Tail(ring)
    /\ links' = links \cup NewLinks(p)
    /\ br1' = br1 \cup {l.n : l \in NewLinks(p)}
                  \cup (IF tunnel_cnt = 1 THEN {0} ELSE {})
    /\ br1Up' = (br1Up \/ tunnel_cnt = 1)
    /\ tunnel_cnt' = tunnel_cnt + 1
    /\ handled' = dst_port(p)
    /\ UNCHANGED <<filter, net, sent>>

\* Variant of UpdateFilter that starts from nothing every time.
UpdateFilterAfresh ==
    /\ handled # 0
    /\ filter' = {handled}
    /\ handled' = 0
    /\ UNCHANGED <<tunnel_cnt, ring, kernelVars, net, sent>>

\* The rest of packetHandler.
UpdateFilter ==
    /\ handled # 0
    /\ filter' = filter \cup {handled}
    /\ handled' = 0
    /\ UNCHANGED <<tunnel_cnt, ring, kernelVars, net, sent>>

Next ==
    \/ \E b \in Brgs : SendUdp(b)
    \/ \E p \in net : Arrive(p) \/ Lose(p)
    \/ SendFrame
    \/ Skip
    \/ CreateTunnel
    \/ UpdateFilter

\* pcap_loop takes what is captured, and a handler that runs comes to its end.
Fairness == WF_vars(Skip) /\ WF_vars(CreateTunnel) /\ WF_vars(UpdateFilter)

Spec == Init /\ [][Next]_vars /\ Fairness

-----------------------------------------------------------------------------
\* The types of the program's variables and of the kernel's devices.
TypeOK ==
    /\ tunnel_cnt \in 1..MaxPackets + MaxRing + 1
    /\ filter \subseteq Port
    /\ ring \in Seq(Packet) /\ Len(ring) <= MaxRing
    /\ handled \in 0..65535
    /\ links \subseteq [n : Nat, key : Nat, sport : Port, dport : Port]
    /\ br1 \subseteq Nat /\ br1Up \in BOOLEAN
    /\ net \subseteq Packet /\ sent \in 0..MaxPackets

\* A tunnel joins the two ports of one bridge, never those of two, and each
\* end sends to the port at which the other listens.
TunnelMatchesBridge ==
    \A l \in links :
        \E b \in Brgs : l.sport = dport[b] /\ l.dport = sport[b]

\* The numbers of the tunnels are consecutive: no frame of a tunnel, in either
\* direction, is ever taken for an announcement and uses up a key.
NoKeyWasted == {l.key : l \in links} = 1..tunnel_cnt - 1

\* An announcement that is captured leads to a tunnel.
HeardIsTunnelled ==
    \A b \in Brgs :
        (\E i \in 1..Len(ring) : ring[i] = Announcement(b)) ~> HasTunnel(b)

\* The ports of BRGr in the order of the tunnels' numbers.
Served ==
    LET inOrder == SetToSortSeq(links, LAMBDA l, m : l.n < m.n)
    IN  [i \in 1..Len(inOrder) |-> inOrder[i].sport]

Service == INSTANCE TunnelService
    WITH Peers <- {dport[b] : b \in Brgs}, served <- Served

\* The program implements the tunnel service for the ports of the bridges.
ImplementsService == Service!Spec

-----------------------------------------------------------------------------
(* Claims of the scripts and of the program's output.                      *)

\* The two ends of a tunnel have the same key, as the commands for BRGr in
\* setup.sh do: GRE1 with ports 50000 and 30000, GRE2 with 40000 and 20000.
KeysAgree ==
    \A l \in links : \A b \in Brgs : l.sport = dport[b] => l.key = key[b]

\* "Create tunnel ... to 140.113.0.2:<dst_port>" is printed for a tunnel that
\* exists: a port is taken out of the capture only then.
CreatedIsThere == \A n \in filter : \E l \in links : l.sport = n
=============================================================================
