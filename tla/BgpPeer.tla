------------------------------- MODULE BgpPeer ------------------------------
(***************************************************************************)
(* The sessions of bgpd in one router (bgpd/bgp_fsm.c, bgp_packet.c and    *)
(* bgp_network.c): the configured peer, the peers made for connections     *)
(* that were accepted, and the functions that change them.  A function of  *)
(* the code is an operator from a state s of the router to the next one:   *)
(*   s.p      the peers; s.rib: routes of the neighbour are installed;     *)
(*   s.wq     the clear_node_queue of the configured peer has work;        *)
(*   s.ready  events in the event loop's current batch; s.ev: the next     *)
(*            batch's (see ThreadMaster);                                  *)
(*   s.net    the connections; s.ret: the last return value;               *)
(*   s.fail   whether the kernel reports a closed other end as an error;   *)
(*   s.how    how a connect() goes; s.bad: what is wrong with a message.   *)
(***************************************************************************)
EXTENDS Integers, Sequences, FiniteSets, SequencesExt, FiniteSetsExt, TLC

CONSTANTS
    Routers,       \* the two ends of the sessions
    local_id,      \* [Routers -> Nat]: router identifiers
    holdtime,      \* [Routers -> Nat]: configured hold time, in seconds
    Conns,         \* bound: TCP connections alive at once
    MaxAccept      \* bound: accepted peers alive at once in a router

ASSUME PeerAssumption ==
    /\ Cardinality(Routers) = 2
    /\ local_id \in [Routers -> Nat] /\ IsInjective(local_id)
    /\ holdtime \in [Routers -> Nat \ {1, 2}]
    /\ Conns \subseteq Nat \ {0}
    /\ MaxAccept \in 0..2

Other(r) == CHOOSE o \in Routers : o # r

REAL == 0                      \* the configured peer: peer_lookup finds it
Accepts == 1..MaxAccept        \* PEER_STATUS_ACCEPT_PEER
Slots == {REAL} \cup Accepts
NOFD == 0

States == {"Idle", "Connect", "Active", "OpenSent", "OpenConfirm",
           "Established", "Clearing"}
Events == {"BGP_Start", "BGP_Stop", "TCP_connection_open",
           "TCP_connection_closed", "TCP_connection_open_failed",
           "TCP_fatal_error", "ConnectRetry_timer_expired",
           "Hold_Timer_expired", "KeepAlive_timer_expired",
           "Receive_OPEN_message", "Receive_KEEPALIVE_message",
           "Receive_UPDATE_message", "Receive_NOTIFICATION_message",
           "Clearing_Completed", "BGP_Stop_with_error"}
Messages == {"OPEN", "KEEPALIVE", "UPDATE", "NOTIFY"}
Timers == {"start", "connect", "hold", "keepalive", "routeadv"}
Free == "Free"                 \* the status of a peer structure not in use

-----------------------------------------------------------------------------
(* TCP: each router has an end of a connection, and what it can still read. *)

NoConn == [end |-> [r \in Routers |-> "none"], in |-> [r \in Routers |-> <<>>]]

IsFree(conn) == conn = NoConn

\* close(): a connection that neither end holds is gone.
Close(net, r, c) ==
    IF c = NOFD THEN net
    ELSE IF net[c].end[Other(r)] \in {"none", "closed"}
         THEN [net EXCEPT ![c] = NoConn]
         ELSE [net EXCEPT ![c].end[r] = "closed", ![c].in[r] = <<>>]

IsBroken(net, r, c) == net[c].end[Other(r)] = "closed"

\* write(): what is sent to a closed end is lost.
Write(net, r, c, msgs) ==
    IF IsBroken(net, r, c) THEN net
    ELSE [net EXCEPT ![c].in[Other(r)] = @ \o msgs]

\* connect(): the other kernel answers at once, or refuses.
Dial(net, r, c, how) ==
    LET up == how \in {"in_progress", "success"} IN
    [net EXCEPT ![c].end = [x \in Routers |->
        CASE x = r -> IF up THEN "open" ELSE "refused"
          [] x # r -> IF up THEN "backlog" ELSE "none"]]

-----------------------------------------------------------------------------
(* Events, timers and threads of a peer.                                   *)

NewPeer(r, status) ==
    [status |-> status, fd |-> NOFD, timers |-> {}, rd |-> NOFD, wr |-> NOFD,
     obuf |-> <<>>, deferred |-> FALSE, hold |-> holdtime[r]]

BGP_EVENT_ADD(s, k, e) == [s EXCEPT !.ev = Append(@, <<k, e>>)]

BGP_EVENT_FLUSH(s, k) ==
    LET NotOfPeer(x) == x[1] # k
    IN  [s EXCEPT !.ready = SelectSeq(@, NotOfPeer), !.ev = SelectSeq(@, NotOfPeer)]

\* The timers of a state: the others are turned off.
TimersOf(peer) ==
    LET held == IF peer.hold = 0 THEN {} ELSE {"hold", "keepalive"} IN
    CASE peer.status = "Idle" -> {"start"}
      [] peer.status \in {"Connect", "Active"} -> {"connect"}
      [] peer.status = "OpenSent" -> held \ {"keepalive"}
      [] peer.status = "OpenConfirm" -> held
      [] peer.status = "Established" -> held \cup (peer.timers \cap {"routeadv"})
      [] peer.status = "Clearing" -> {}

bgp_timer_set(s, k) == [s EXCEPT !.p[k].timers = TimersOf(s.p[k])]

\* A peer has one read and one write thread, each on the descriptor it was
\* armed with.
BGP_READ_ON(s, k) ==
    [s EXCEPT !.p[k].rd = IF @ = NOFD THEN s.p[k].fd ELSE @]
BGP_WRITE_ON(s, k) ==
    [s EXCEPT !.p[k].wr = IF @ = NOFD THEN s.p[k].fd ELSE @]

\* bgp_packet_add and BGP_WRITE_ON.
Send(s, k, msg) == BGP_WRITE_ON([s EXCEPT !.p[k].obuf = Append(@, msg)], k)

\* A mutant of bgp_open_send: the KEEPALIVE does not wait for the other OPEN.
SendOpenConfirmed(s, k) == Send(Send(s, k, "OPEN"), k, "KEEPALIVE")

bgp_open_send(s, k) == Send(s, k, "OPEN")
bgp_keepalive_send(s, k) == Send(s, k, "KEEPALIVE")

\* bgp_notify_send_with_data and bgp_write_notify: written at once.
bgp_notify_send(s, r, k) ==
    LET c == s.p[k].fd
        a == [s EXCEPT !.p[k].obuf = <<"NOTIFY">>, !.p[k].wr = NOFD]
    IN  IF c = NOFD \/ (IsBroken(s.net, r, c) /\ s.fail)
        THEN BGP_EVENT_ADD(a, k, "TCP_fatal_error")
        ELSE BGP_EVENT_ADD([a EXCEPT !.net = Write(@, r, c, <<"NOTIFY">>)],
                           k, "BGP_Stop_with_error")

-----------------------------------------------------------------------------
(* The functions of the state machine.                                     *)

\* A mutant of bgp_stop: the read thread is left on.
StopReading(s, r, k) ==
    LET a == IF s.p[k].status = "Clearing" THEN s ELSE BGP_EVENT_FLUSH(s, k)
    IN  [a EXCEPT !.net = Close(@, r, s.p[k].fd),
                  !.p[k] = [NewPeer(r, @.status) EXCEPT !.deferred = s.p[k].deferred,
                                                        !.rd = s.p[k].rd]]

\* In Clearing the events are what brings the peer back to Idle.
bgp_stop(s, r, k) ==
    LET a == IF s.p[k].status = "Clearing" THEN s ELSE BGP_EVENT_FLUSH(s, k)
    IN  [a EXCEPT !.net = Close(@, r, s.p[k].fd),
                  !.p[k] = [NewPeer(r, @.status) EXCEPT !.deferred = s.p[k].deferred]]

\* bgp_stop, Deleted, and the last reference is dropped.
peer_delete(s, r, k) ==
    [BGP_EVENT_FLUSH(bgp_stop(s, r, k), k) EXCEPT !.p[k] = NewPeer(r, Free)]

bgp_stop_with_notify(s, r, k) ==
    LET a == bgp_notify_send(s, r, k)
    IN  IF k # REAL THEN [peer_delete(a, r, k) EXCEPT !.ret = -1]
        ELSE bgp_stop(a, r, k)

\* A mutant of bgp_clear_route_all: nothing is queued.
ClearNothing(s) == s

\* The deletion of routes goes through the clear_node_queue.
bgp_clear_route_all(s) == [s EXCEPT !.wq = s.rib]

\* A mutant of bgp_fsm_change_status: no completion event without routes.
ChangeStatusOnly(s, k, status) ==
    [IF status = "Clearing" THEN bgp_clear_route_all(s) ELSE s EXCEPT !.p[k].status = status]

bgp_fsm_change_status(s, k, status) ==
    LET a == IF status # "Clearing" THEN s
             ELSE LET b == bgp_clear_route_all(s)
                  IN  IF b.wq THEN b
                      ELSE BGP_EVENT_ADD(b, k, "Clearing_Completed")
    IN  [a EXCEPT !.p[k].status = status]

bgp_clearing_completed(s, r, k) == BGP_EVENT_FLUSH(bgp_stop(s, r, k), k)

\* On an accepted connection the OPEN waits for the remote's while the
\* configured peer is itself on its way.
bgp_connect_success(s, r, k) ==
    LET a == BGP_READ_ON(s, k) IN
    IF s.p[k].fd = NOFD THEN [s EXCEPT !.ret = -1]
    ELSE IF k # REAL /\ s.p[REAL].status \notin {"Idle", "Clearing"}
         THEN [a EXCEPT !.p[k].deferred = TRUE]
         ELSE bgp_open_send(a, k)

FreeConn(s) == Min({c \in Conns : IsFree(s.net[c])})

\* bgp_start and bgp_connect.
bgp_start(s, r, k) ==
    LET c == FreeConn(s)
        a == [s EXCEPT !.net = Dial(@, r, c, s.how), !.p[k].fd = c]
    IN  CASE s.how = "no_socket" -> [s EXCEPT !.p[k].fd = NOFD]
          [] s.how = "error" -> BGP_EVENT_ADD(a, k, "TCP_connection_open_failed")
          [] s.how = "success" -> BGP_EVENT_ADD(a, k, "TCP_connection_open")
          [] OTHER -> BGP_WRITE_ON(BGP_READ_ON(a, k), k)

bgp_reconnect(s, r, k) == bgp_start(bgp_stop(s, r, k), r, k)

bgp_fsm_open(s, k) ==
    [bgp_keepalive_send(s, k) EXCEPT !.p[k].timers = @ \ {"hold"}]

\* Keepalive or update: bgp_event arms the hold timer anew.
bgp_fsm_keepalive(s, k) == [s EXCEPT !.p[k].timers = @ \ {"hold"}]

\* The first UPDATEs go out when the routeadv timer expires.
bgp_establish(s, k) ==
    LET a == bgp_fsm_change_status(s, k, "Established")
        b == IF s.p[k].hold = 0 THEN a ELSE bgp_keepalive_send(a, k)
    IN  [b EXCEPT !.p[k].timers = @ \cup {"routeadv"}]

-----------------------------------------------------------------------------
(* The table FSM, state by state: what is not listed is ignored.           *)

On(events, func, next) == [e \in events |-> [func |-> func, next |-> next]]

TcpEvents == {"TCP_connection_open", "TCP_connection_closed",
              "TCP_connection_open_failed", "TCP_fatal_error"}
ErrorEvents == {"Receive_NOTIFICATION_message", "BGP_Stop_with_error"}

FSM ==
    [st \in States |->
     CASE st = "Idle" ->
            On({"BGP_Start"}, "bgp_start", "Connect")
         @@ On((TcpEvents \ {"TCP_connection_open_failed"}) \cup {"BGP_Stop"},
               "bgp_stop", "Idle")
         @@ On(Events, "bgp_ignore", "Idle")
       [] st = "Connect" ->
            On({"BGP_Start"}, "bgp_ignore", "Connect")
         @@ On({"BGP_Stop", "TCP_connection_closed",
                "Receive_NOTIFICATION_message", "TCP_fatal_error",
                "BGP_Stop_with_error"}, "bgp_stop", "Idle")
         @@ On({"TCP_connection_open"}, "bgp_connect_success", "OpenSent")
         @@ On({"TCP_connection_open_failed"}, "bgp_stop", "Active")
         @@ On({"ConnectRetry_timer_expired"}, "bgp_reconnect", "Connect")
         @@ On(Events, "bgp_ignore", "Idle")
       [] st = "Active" ->
            On({"BGP_Start", "TCP_connection_open_failed"}, "bgp_ignore", "Active")
         @@ On({"BGP_Stop", "TCP_connection_closed"} \cup ErrorEvents,
               "bgp_stop", "Idle")
         @@ On({"TCP_connection_open"}, "bgp_connect_success", "OpenSent")
         @@ On({"ConnectRetry_timer_expired"}, "bgp_start", "Connect")
         @@ On(Events, "bgp_ignore", "Idle")
       [] st = "OpenSent" ->
            On({"BGP_Start"}, "bgp_ignore", "OpenSent")
         @@ On({"BGP_Stop"} \cup ErrorEvents, "bgp_stop", "Idle")
         @@ On(TcpEvents, "bgp_stop", "Active")
         @@ On({"Receive_OPEN_message"}, "bgp_fsm_open", "OpenConfirm")
         @@ On({"Hold_Timer_expired", "Receive_KEEPALIVE_message",
                "Receive_UPDATE_message"}, "bgp_stop_with_notify", "Idle")
         @@ On(Events, "bgp_ignore", "Idle")
       [] st = "OpenConfirm" ->
            On({"BGP_Start", "KeepAlive_timer_expired"}, "bgp_ignore", "OpenConfirm")
         @@ On({"BGP_Stop"} \cup TcpEvents \cup ErrorEvents, "bgp_stop", "Idle")
         @@ On({"Hold_Timer_expired"}, "bgp_stop_with_notify", "Idle")
         @@ On({"Receive_KEEPALIVE_message"}, "bgp_establish", "Established")
         @@ On(Events, "bgp_ignore", "Idle")
       [] st = "Established" ->
            On({"BGP_Start"}, "bgp_ignore", "Established")
         @@ On({"Receive_KEEPALIVE_message", "Receive_UPDATE_message"},
               "bgp_fsm_keepalive", "Established")
         @@ On({"KeepAlive_timer_expired"}, "bgp_keepalive_send", "Established")
         @@ On({"Hold_Timer_expired"}, "bgp_stop_with_notify", "Clearing")
         @@ On({"Clearing_Completed"}, "bgp_ignore", "Idle")
         @@ On(Events, "bgp_stop", "Clearing")
       [] st = "Clearing" ->
            On({"BGP_Start"}, "bgp_ignore", "Clearing")
         @@ On({"Clearing_Completed"}, "bgp_clearing_completed", "Idle")
         @@ On(Events, "bgp_stop", "Clearing")]

Call(func, s, r, k) ==
    CASE func = "bgp_ignore" -> s
      [] func = "bgp_start" -> bgp_start(s, r, k)
      [] func = "bgp_stop" -> bgp_stop(s, r, k)
      [] func = "bgp_reconnect" -> bgp_reconnect(s, r, k)
      [] func = "bgp_connect_success" -> bgp_connect_success(s, r, k)
      [] func = "bgp_stop_with_notify" -> bgp_stop_with_notify(s, r, k)
      [] func = "bgp_fsm_open" -> bgp_fsm_open(s, k)
      [] func = "bgp_fsm_keepalive" -> bgp_fsm_keepalive(s, k)
      [] func = "bgp_establish" -> bgp_establish(s, k)
      [] func = "bgp_keepalive_send" -> bgp_keepalive_send(s, k)
      [] func = "bgp_clearing_completed" -> bgp_clearing_completed(s, r, k)

bgp_event(s, r, k, e) ==
    LET row == FSM[s.p[k].status][e]
        a == Call(row.func, s, r, k)
        b == IF row.next # a.p[k].status
             THEN bgp_fsm_change_status(a, k, row.next) ELSE a
    IN  IF a.ret < 0 THEN a ELSE bgp_timer_set(b, k)

-----------------------------------------------------------------------------
(* Packets.                                                                *)

bgp_connect_check(s, r, k) ==
    LET c == s.p[k].fd
    IN  BGP_EVENT_ADD([s EXCEPT !.p[k].rd = NOFD, !.p[k].wr = NOFD], k,
                      CASE c = NOFD -> "TCP_fatal_error"
                        [] c # NOFD /\ s.net[c].end[r] = "refused"
                           -> "TCP_connection_open_failed"
                        [] OTHER -> "TCP_connection_open")

\* A NOTIFY left in obuf by bgp_notify_send ends the session when written.
bgp_write(s, r, k) ==
    LET peer == s.p[k]
        a == [s EXCEPT !.p[k].wr = NOFD]
        sent == [a EXCEPT !.net = Write(@, r, peer.fd, peer.obuf)]
    IN  CASE peer.status = "Connect" -> bgp_connect_check(a, r, k)
          [] peer.status # "Connect" /\ peer.obuf = <<>> -> a
          [] OTHER ->
             IF peer.fd = NOFD \/ (IsBroken(s.net, r, peer.fd) /\ s.fail)
             THEN BGP_EVENT_ADD(a, k, "TCP_fatal_error")
             ELSE IF Head(peer.obuf) = "NOTIFY"
                  THEN BGP_EVENT_ADD([a EXCEPT !.net = Write(@, r, peer.fd, <<"NOTIFY">>)],
                                     k, "BGP_Stop_with_error")
                  ELSE [sent EXCEPT !.p[k].obuf = <<>>]

\* The connections an OPEN on k collides with.  Of several the first in the
\* list of peers counts, which accepted peers head, the newest first.
Rivals(s, k) ==
    {j \in Slots \ {k} : s.p[j].status \in {"OpenSent", "OpenConfirm", "Established"}}

\* A mutant of bgp_collision_detect: the identifiers are not compared.
CloseInbound(s, r, k) ==
    LET j == Max(Rivals(s, k))
        lost == IF s.p[j].status = "Established" \/ k # REAL THEN k ELSE j
        told == IF s.p[lost].fd # NOFD THEN bgp_notify_send(s, r, lost) ELSE s
    IN  IF Rivals(s, k) = {} THEN [s EXCEPT !.ret = 0]
        ELSE [told EXCEPT !.ret = IF lost = k THEN -1 ELSE 1]

\* ret: -1 the OPEN's connection loses, 1 the other one does, 0 no collision.
bgp_collision_detect(s, r, k) ==
    LET j == Max(Rivals(s, k))
        inbound == IF k # REAL THEN k ELSE j
        outbound == IF k # REAL THEN j ELSE k
        lost == IF s.p[j].status = "Established" THEN k
                ELSE IF local_id[r] < local_id[Other(r)] THEN outbound ELSE inbound
        told == IF s.p[lost].fd # NOFD THEN bgp_notify_send(s, r, lost) ELSE s
    IN  IF Rivals(s, k) = {} THEN [s EXCEPT !.ret = 0]
        ELSE [told EXCEPT !.ret = IF lost = k THEN -1 ELSE 1]

\* A mutant of MoveConnection: the accepted peer keeps the descriptor.
CopyConnection(s, k) ==
    LET peer == s.p[k] IN
    [s EXCEPT !.p[REAL] = [@ EXCEPT !.fd = peer.fd, !.obuf = peer.obuf,
                                    !.status = peer.status]]

MoveConnection(s, k) ==
    LET peer == s.p[k] IN
    [s EXCEPT !.p[REAL] = [@ EXCEPT !.fd = peer.fd, !.obuf = peer.obuf,
                                    !.status = peer.status],
              !.p[k] = [@ EXCEPT !.fd = NOFD, !.obuf = <<>>]]

\* The configured peer takes over the connection of accepted peer k.
Transfer(s, r, k) ==
    LET a == IF s.ret = 0 /\ s.p[REAL].status \notin {"Active", "Connect"}
             THEN bgp_notify_send(s, r, REAL) ELSE s
        b == MoveConnection(bgp_stop(a, r, REAL), k)
        d == BGP_READ_ON(bgp_stop(b, r, k), REAL)
        e == IF s.p[k].obuf # <<>> THEN BGP_WRITE_ON(d, REAL) ELSE d
    IN  IF s.p[k].deferred THEN bgp_open_send(e, REAL) ELSE e

\* Variant of NegotiatedHold that keeps the local value.
HoldLocal(r) == holdtime[r]

\* The smaller of the local hold time and the one in the OPEN.
NegotiatedHold(r) == Min({holdtime[r], holdtime[Other(r)]})

\* The OPEN is checked before the collision is resolved and again after.
bgp_open_receive(s, r, k) ==
    LET a == bgp_collision_detect(s, r, k)
        down == k # REAL /\ a.p[REAL].status \in {"Idle", "Clearing"}
        b == [IF k # REAL THEN Transfer(a, r, k) ELSE a EXCEPT
                !.p[REAL].hold = NegotiatedHold(r)]
    IN  CASE s.bad = "peer_as" -> bgp_notify_send(s, r, k)
          [] s.bad # "peer_as" /\ (a.ret < 0 \/ down) -> a
          [] OTHER -> IF s.bad = "option" THEN bgp_notify_send(b, r, REAL)
                      ELSE BGP_EVENT_ADD(b, REAL, "Receive_OPEN_message")

\* The routes are installed one after the other: those before an error in
\* the list of routes stay, an error in the attributes comes before any.
bgp_update_receive(s, r, k) ==
    LET a == IF s.bad = "attr" THEN s ELSE [s EXCEPT !.rib = TRUE]
    IN  CASE s.p[k].status # "Established" -> bgp_notify_send(s, r, k)
          [] s.p[k].status = "Established" /\ s.bad \in {"attr", "nlri"}
             -> bgp_notify_send(a, r, k)
          [] OTHER -> bgp_timer_set(a, k)

\* Nothing to read is retried; a packet of which only a part has arrived
\* stays where it is.
bgp_read_packet(s, r, k) ==
    LET c == s.p[k].fd
        msg == Head(s.net[c].in[r])
        a == [s EXCEPT !.net[c].in[r] = Tail(@)]
        nothing == s.net[c].in[r] = <<>>
        again == s.bad = "partial" \/ (nothing /\ ~IsBroken(s.net, r, c))
    IN  CASE again -> s
          [] ~again /\ nothing ->
             BGP_EVENT_ADD(s, k, IF s.fail THEN "TCP_fatal_error"
                                 ELSE "TCP_connection_closed")
          [] OTHER ->
             CASE msg = "OPEN" -> bgp_open_receive(a, r, k)
               [] msg = "UPDATE" -> bgp_update_receive(a, r, k)
               [] msg = "KEEPALIVE" -> BGP_EVENT_ADD(a, k, "Receive_KEEPALIVE_message")
               [] msg = "NOTIFY" -> BGP_EVENT_ADD(a, k, "Receive_NOTIFICATION_message")

\* Whatever an accepted peer read, it is deleted.
bgp_read(s, r, k) ==
    LET a == [s EXCEPT !.p[k].rd = NOFD]
        b == IF s.p[k].status = "Connect" THEN bgp_connect_check(a, r, k)
             ELSE bgp_read_packet(BGP_READ_ON(a, k), r, k)
    IN  IF s.p[k].status # "Connect" /\ s.p[k].fd = NOFD THEN a
        ELSE IF k = REAL THEN b ELSE peer_delete(b, r, k)

\* The accepted peer k starts as Active, with what the OPEN is made of.
bgp_accept(s, r, k, c) ==
    LET peer == [NewPeer(r, "Active") EXCEPT !.fd = c, !.hold = s.p[REAL].hold]
    IN  IF s.p[REAL].status \in {"Idle", "Clearing"} THEN [s EXCEPT !.net = Close(@, r, c)]
        ELSE BGP_EVENT_ADD([s EXCEPT !.net[c].end[r] = "open", !.p[k] = peer],
                           k, "TCP_connection_open")

\* The timers' own threads: routes are sent when routeadv expires, which is
\* armed again.
bgp_timer(s, r, k, t) ==
    LET a == [s EXCEPT !.p[k].timers = @ \ {t}]
    IN  CASE t = "start" -> bgp_event(a, r, k, "BGP_Start")
          [] t = "connect" -> bgp_event(a, r, k, "ConnectRetry_timer_expired")
          [] t = "hold" -> bgp_event(a, r, k, "Hold_Timer_expired")
          [] t = "keepalive" -> bgp_event(a, r, k, "KeepAlive_timer_expired")
          [] t = "routeadv" -> Send(s, k, "UPDATE")

\* The clear_node_queue has withdrawn every route of the peer.
bgp_clear_node_complete(s) ==
    BGP_EVENT_ADD([s EXCEPT !.rib = FALSE, !.wq = FALSE], REAL, "Clearing_Completed")

\* "clear ip bgp": an operator resets the session.
peer_clear(s, r) ==
    IF s.p[REAL].status \in {"OpenSent", "OpenConfirm", "Established"}
    THEN bgp_notify_send(s, r, REAL)
    ELSE BGP_EVENT_ADD(s, REAL, "BGP_Stop")
=============================================================================
