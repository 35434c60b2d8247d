----------------------------- MODULE BgpSession -----------------------------
(***************************************************************************)
(* Two bgpd processes configured as each other's neighbour, the TCP        *)
(* connections between them, and each one's event loop.                    *)
(*                                                                         *)
(* thread_fetch hands out a batch: the events posted before it was         *)
(* gathered, then the timers and sockets that were ready.  An event a      *)
(* batch posts runs in the next one, after the rest of this batch.         *)
(***************************************************************************)
EXTENDS BgpPeer

CONSTANTS FaultKinds, MaxFaults    \* bound: failures in a behaviour

VARIABLES
    peer,      \* [Routers -> [Slots -> peer structures]]
    net,       \* [Conns -> TCP connections]
    rib,       \* [Routers -> BOOLEAN]: the neighbour's routes are installed
    wq,        \* [Routers -> BOOLEAN]: clear_node_queue is scheduled
    ready,     \* [Routers -> Seq]: events of the current batch
    event,     \* [Routers -> Seq]: events posted since
    batch,     \* [Routers -> SUBSET jobs]: timers and sockets of the batch
    faults     \* failures so far

vars == <<peer, net, rib, wq, ready, event, batch, faults>>

StartPeers(r) ==
    [k \in Slots |-> IF k = REAL THEN [NewPeer(r, "Idle") EXCEPT !.timers = {"start"}]
                     ELSE NewPeer(r, Free)]

Init ==
    /\ peer = [r \in Routers |-> StartPeers(r)]
    /\ net = [c \in Conns |-> NoConn]
    /\ rib = [r \in Routers |-> FALSE]
    /\ wq = [r \in Routers |-> FALSE]
    /\ ready = [r \in Routers |-> <<>>]
    /\ event = [r \in Routers |-> <<>>]
    /\ batch = [r \in Routers |-> {}]
    /\ faults = 0

-----------------------------------------------------------------------------
(* Jobs: what select() or the timer queue may report for a router.         *)

Readable(r, c) ==
    net[c].in[r] # <<>> \/ IsBroken(net, r, c) \/ net[c].end[r] = "refused"

Jobs(r) ==
    LET p == peer[r] IN
        {<<"read", k>> : k \in {j \in Slots : p[j].rd # NOFD /\ Readable(r, p[j].rd)}}
   \cup {<<"write", k>> : k \in {j \in Slots : p[j].wr # NOFD}}
   \cup UNION {{<<t, k>> : t \in p[k].timers} : k \in Slots}
   \cup {<<"accept", c>> : c \in {d \in Conns : net[d].end[r] = "backlog"}}
   \cup (IF wq[r] THEN {<<"clear", REAL>>} ELSE {})

State(r, fail, how, bad) ==
    [p |-> peer[r], rib |-> rib[r], wq |-> wq[r], ready |-> ready[r],
     ev |-> event[r], net |-> net, ret |-> 0, fail |-> fail, how |-> how, bad |-> bad]

\* Only on a connection closed at the other end do read() and write() fail.
Failing(r) ==
    {FALSE} \cup {TRUE : k \in {j \in Slots : /\ peer[r][j].fd # NOFD
                                             /\ IsBroken(net, r, peer[r][j].fd)}}

Queued(r) == Range(ready[r]) \cup Range(event[r])

\* The batch matters only while events wait: without any, a new one is
\* gathered before the next job.
Step(r, s, left) ==
    LET idle == s.ready = <<>> /\ s.ev = <<>> IN
    /\ peer' = [peer EXCEPT ![r] = s.p]
    /\ net' = s.net
    /\ rib' = [rib EXCEPT ![r] = s.rib]
    /\ wq' = [wq EXCEPT ![r] = s.wq]
    /\ ready' = [ready EXCEPT ![r] = s.ready]
    /\ event' = [event EXCEPT ![r] = s.ev]
    /\ batch' = [batch EXCEPT ![r] = IF idle \/ faults' = MaxFaults THEN {} ELSE left]

\* A mutant of Runnable: the jobs do not wait for the events.
RunnableAtOnce(r) == IF ready[r] # <<>> THEN {} ELSE Jobs(r)

\* The jobs that may run now, and the peers or connections that have one of
\* a kind.
Runnable(r) ==
    IF ready[r] # <<>> THEN {}
    ELSE IF event[r] = <<>> THEN Jobs(r) ELSE batch[r] \cap Jobs(r)

Due(r, kind) == {job[2] : job \in {j \in Runnable(r) : j[1] = kind}}

\* What a step needs to go wrong is paid from the bound.
Spend(kinds) ==
    /\ kinds \subseteq FaultKinds
    /\ faults' = faults + Cardinality(kinds)
    /\ faults' <= MaxFaults

\* A job that runs ahead of a waiting event is an "overlap".
Job(r, job, s, kinds) ==
    /\ Spend(kinds \cup IF event[r] = <<>> THEN {} ELSE {"overlap"})
    /\ Step(r, s, Runnable(r) \ {job})

-----------------------------------------------------------------------------
(* The event loop of a router.                                             *)

Event(r) ==
    /\ ready[r] # <<>> \/ event[r] # <<>>
    /\ Spend({})
    /\ \E fail \in Failing(r) :
         LET gather == ready[r] = <<>>
             q == IF gather THEN event[r] ELSE ready[r]
             s == [State(r, fail, "in_progress", "none") EXCEPT
                     !.ready = Tail(q), !.ev = IF gather THEN <<>> ELSE @]
         IN  Step(r, bgp_event(s, r, Head(q)[1], Head(q)[2]),
                  IF gather THEN Jobs(r) ELSE batch[r])

\* A newer accepted peer has a higher slot, as it comes first in the list of
\* peers.  Bound: a connection for which there is no such slot is closed.
Accept(r) ==
    LET slots == {k \in Accepts : \A j \in k..MaxAccept : peer[r][j].status = Free}
        s == State(r, FALSE, "in_progress", "none")
    IN  \E c \in Due(r, "accept") :
            Job(r, <<"accept", c>>, IF slots = {} THEN [s EXCEPT !.net = Close(@, r, c)]
                                    ELSE bgp_accept(s, r, Min(slots), c), {})

Read(r) ==
    \E k \in Due(r, "read"), fail \in Failing(r),
       bad \in {"none", "partial", "peer_as", "option", "attr", "nlri"} :
        LET in == IF peer[r][k].fd = NOFD THEN <<>> ELSE net[peer[r][k].fd].in[r] IN
        /\ bad # "none" => in # <<>>
        /\ bad \in {"peer_as", "option"} => Head(in) = "OPEN"
        /\ bad \in {"attr", "nlri"} => Head(in) = "UPDATE"
        /\ Job(r, <<"read", k>>, bgp_read(State(r, fail, "in_progress", bad), r, k),
               CASE bad = "none" -> {} [] bad = "partial" -> {"partial"}
                 [] OTHER -> {"malformed"})

Write_(r) ==
    \E k \in Due(r, "write"), fail \in Failing(r) :
        Job(r, <<"write", k>>, bgp_write(State(r, fail, "in_progress", "none"), r, k), {})

\* The timers that dial.  Bound: without a free connection there is no socket.
Connect(r) ==
    \E t \in {"start", "connect"} : \E k \in Due(r, t),
       how \in {"in_progress", "refused", "success", "error", "no_socket"} :
        LET full == \A c \in Conns : ~IsFree(net[c])
            late == t = "connect" /\ peer[r][k].status = "Connect" /\ peer[r][k].fd # NOFD
        IN  /\ full => how = "no_socket"
            /\ Job(r, <<t, k>>, bgp_timer(State(r, FALSE, how, "none"), r, k, t),
                   IF ~late /\ (full \/ how = "in_progress") THEN {} ELSE {"connect"})

\* Both ends of k's connection have done all they had to do, and the other
\* one sends no keepalives: only a timer can end this.
Silent(r, k) ==
    LET c == peer[r][k].fd IN
    \A q \in Routers :
        /\ net[c].end[q] = "open" /\ net[c].in[q] = <<>>
        /\ \A j \in Slots : peer[q][j].fd = c =>
              /\ peer[q][j].wr = NOFD
              /\ q # r => "keepalive" \notin peer[q][j].timers
              /\ \A e \in Queued(q) : e[1] # j

Hold(r) ==
    \E k \in Due(r, "hold"), fail \in Failing(r) :
        Job(r, <<"hold", k>>,
            bgp_timer(State(r, fail, "in_progress", "none"), r, k, "hold"),
            IF Silent(r, k) THEN {} ELSE {"hold"})

\* Bound: a KEEPALIVE is sent when nothing is under way to the other end.
Keepalive(r) ==
    \E k \in Due(r, "keepalive") :
        /\ peer[r][k].status = "Established"
        /\ peer[r][k].obuf = <<>>
        /\ net[peer[r][k].fd].in[Other(r)] = <<>>
        /\ Job(r, <<"keepalive", k>>,
               bgp_timer(State(r, FALSE, "in_progress", "none"), r, k, "keepalive"), {})

\* Bound: one UPDATE is under way at a time, and none once a NOTIFY is on its
\* way back.
Advertise(r) ==
    \E k \in Due(r, "routeadv") :
        /\ peer[r][k].fd # NOFD /\ peer[r][k].obuf = <<>>
        /\ "UPDATE" \notin Range(net[peer[r][k].fd].in[Other(r)])
        /\ "NOTIFY" \notin Range(net[peer[r][k].fd].in[r])
        /\ Job(r, <<"routeadv", k>>,
            bgp_timer(State(r, FALSE, "in_progress", "none"), r, k, "routeadv"), {})

ClearNodes(r) ==
    \E k \in Due(r, "clear") : Job(r, <<"clear", k>>,
        bgp_clear_node_complete(State(r, FALSE, "in_progress", "none")), {})

-----------------------------------------------------------------------------
(* Failures from outside.                                                  *)

Clear(r) ==
    /\ ready[r] = <<>>
    /\ Spend({"clear"})
    /\ \E fail \in Failing(r) :
         Step(r, peer_clear(State(r, fail, "in_progress", "none"), r), Runnable(r))

\* bgpd dies, its kernel closes its sockets, and it is started again.
Crash(r) ==
    /\ Spend({"crash"})
    /\ peer' = [peer EXCEPT ![r] = StartPeers(r)]
    /\ net' = [c \in Conns |-> IF net[c].end[r] \in {"open", "backlog", "refused"}
                               THEN Close(net, r, c)[c] ELSE net[c]]
    /\ rib' = [rib EXCEPT ![r] = FALSE]
    /\ wq' = [wq EXCEPT ![r] = FALSE]
    /\ ready' = [ready EXCEPT ![r] = <<>>]
    /\ event' = [event EXCEPT ![r] = <<>>]
    /\ batch' = [batch EXCEPT ![r] = {}]

Run(r) ==
    \/ Event(r) \/ Accept(r) \/ Read(r) \/ Write_(r) \/ Connect(r) \/ Hold(r)
    \/ Keepalive(r) \/ Advertise(r) \/ ClearNodes(r)

Next == \E r \in Routers : Run(r) \/ Clear(r) \/ Crash(r)

Spec == Init /\ [][Next]_vars

-----------------------------------------------------------------------------

Peers == [status : States \cup {Free}, fd : Conns \cup {NOFD}, timers : SUBSET Timers,
          rd : Conns \cup {NOFD}, wr : Conns \cup {NOFD}, obuf : Seq(Messages),
          deferred : BOOLEAN, hold : Range(holdtime)]
Ends == {"none", "backlog", "open", "refused", "closed"}

\* Type invariant of the two routers and of what is between them.
TypeOK ==
    /\ peer \in [Routers -> [Slots -> Peers]]
    /\ net \in [Conns -> [end : [Routers -> Ends], in : [Routers -> Seq(Messages)]]]
    /\ rib \in [Routers -> BOOLEAN] /\ wq \in [Routers -> BOOLEAN]
    /\ ready \in [Routers -> Seq(Slots \X Events)]
    /\ event \in [Routers -> Seq(Slots \X Events)]
    /\ faults \in 0..MaxFaults

Owners(r, c) == {k \in Slots : peer[r][k].fd = c}

\* A descriptor is in one peer structure and is open: bgp_open_receive, which
\* moves it from the accepted peer to the configured one, and bgp_stop, which
\* may run twice for a peer, never leave two peers to close the same one.
OneOwner ==
    \A r \in Routers, c \in Conns : Owners(r, c) # {} =>
        Cardinality(Owners(r, c)) = 1 /\ net[c].end[r] \in {"open", "refused"}

\* A peer can always go on: a timer is armed, an event is queued for it, or it
\* is in Clearing and clear_node_queue runs ("the peer would be stuck in
\* Clearing", bgp_fsm_change_status).
NeverStuck ==
    \A r \in Routers, k \in Slots : peer[r][k].status # Free =>
        \/ peer[r][k].timers # {}
        \/ \E e \in Queued(r) : e[1] = k
        \/ peer[r][k].status = "Clearing" /\ wq[r]

\* r has a descriptor that no peer structure knows any more.
Leaked(r, c) ==
    c # NOFD /\ net[c].end[r] \in {"open", "refused"} /\ Owners(r, c) = {}

\* From OpenSent to Established a peer reads from its own connection, also
\* after a collision has given it another one.  The exception is a read thread
\* left on a connection that bgp_start has overwritten: BGP_READ_ON does not
\* move it.
Listening ==
    \A r \in Routers, k \in Slots :
        peer[r][k].status \in {"OpenSent", "OpenConfirm", "Established"} =>
            peer[r][k].rd = peer[r][k].fd \/ Leaked(r, peer[r][k].rd)

Established(r) == peer[r][REAL].status = "Established"

\* Each router has dialled the other, and accepted the other's connection as k;
\* neither has been given up yet.
Colliding(k) ==
    \A r \in Routers :
        /\ peer[r][REAL].fd # NOFD /\ peer[r][REAL].fd = peer[Other(r)][k].fd
        /\ {peer[r][REAL].status, peer[r][k].status} \subseteq {"OpenSent", "OpenConfirm"}
        /\ \A c \in Conns : "NOTIFY" \notin Range(net[c].in[r])

\* The connections on which r gives up if an OPEN arrives for its peer j.
GivenUp(r, j) ==
    LET s == bgp_collision_detect(State(r, FALSE, "in_progress", "none"), r, j)
    IN  {c \in Conns : "NOTIFY" \in Range(s.net[c].in[Other(r)])}

\* The two ends of a collision close the same connection, whichever OPENs
\* arrive first and whether the peers are in OpenSent or OpenConfirm: the
\* comparison of identifiers never makes them close both.
SameVerdict ==
    \A k \in Accepts : Colliding(k) =>
        \A i, j \in {REAL, k}, r, q \in Routers : GivenUp(r, i) = GivenUp(q, j)

\* Established is never one-sided: the other end of an open connection is held
\* by the configured peer of the neighbour, which has taken the OPEN (or has
\* met a second one and left it for Idle), never by an accepted peer that
\* bgp_open_receive has not reconciled yet.
PeerAgrees ==
    \A r \in Routers : LET c == peer[r][REAL].fd IN
        Established(r) /\ ~IsBroken(net, r, c) =>
            \/ Owners(Other(r), c) = {}
            \/ /\ Owners(Other(r), c) = {REAL}
               /\ peer[Other(r)][REAL].status \in {"OpenConfirm", "Established", "Idle"}

\* An UPDATE is read only after the KEEPALIVE before it took the peer to
\* Established, though that goes through the event queue: no neighbour is sent
\* the FSM error of bgp_update_receive for messages it sent in order.
UpdateInOrder ==
    \A r \in Routers, k \in Slots :
       LET c == peer[r][k].fd IN
        /\ k \in Due(r, "read") /\ c # NOFD
        /\ net[c].in[r] # <<>> /\ Head(net[c].in[r]) = "UPDATE"
        => peer[r][k].status \in {"Established", "Idle"}

\* Both ends of a session use the smaller of the two hold times: the value
\* bgp_open_receive computes survives the transfer and the bgp_stop in it.
HoldAgreed ==
    \A r \in Routers : Established(r) => peer[r][REAL].hold = Min(Range(holdtime))

\* Routes of the neighbour are installed only during a session, or while the
\* clear_node_queue is withdrawing them.
Routes ==
    \A r \in Routers : rib[r] => \/ Established(r)
                                 \/ peer[r][REAL].status = "Clearing" /\ wq[r]

\* "a connection collision with an existing BGP connection that is in the
\* Established state causes closing of the newly created connection"
\* (bgp_collision_detect): a session in Established ends by Clearing, or with
\* the process, and no OPEN takes its place.
EstablishedWins ==
    [][\A r \in Routers : Established(r) =>
          peer'[r][REAL].status \in {"Established", "Clearing", "Idle"}]_vars

\* A descriptor is closed before it is forgotten: bgp_start, which makes a new
\* one, runs with none in the peer.
NoLeak == \A r \in Routers, c \in Conns : ~Leaked(r, c)
=============================================================================
