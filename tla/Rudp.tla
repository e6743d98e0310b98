-------------------------------- MODULE Rudp --------------------------------
(***************************************************************************)
(* A librudp client (src/src/client.c) and a librudp server (the server    *)
(* code in src/include/rudp/list.h) exchanging datagrams over UDP, each    *)
(* side driving RudpPeer engines from its event loop.                      *)
(*                                                                         *)
(* Every action is one event-loop callback or one application call, run   *)
(* to completion: an endpoint readable callback (ClientReceive,            *)
(* ServerReceive), a peer service timer (ClientService, ServerService),    *)
(* or an API call (ClientConnect, ClientSend, ClientClose, ServerSend,     *)
(* ServerClientClose).  The network loses, duplicates and reorders         *)
(* datagrams.  A client session binds a fresh ephemeral port, so the      *)
(* client's address is the number of its session.                          *)
(***************************************************************************)
EXTENDS RudpPeer, FiniteSets

CONSTANTS
    InitSeq,      \* values rudp_random may return for a new peer
    MaxConnect,   \* bound on the number of client sessions
    MaxUp,        \* bound on application messages client -> server per session
    MaxDown,      \* bound on application messages server -> client per session
    MaxDup,       \* bound on datagrams the network duplicates
    ServerCloses, \* whether the server application may call rudp_server_close
    BindFails,    \* whether rudp_endpoint_bind may fail
    CloseAfterError \* whether the client application calls rudp_client_close
                    \*   after a failed rudp_client_connect, before it connects
                    \*   again or calls rudp_client_deinit

ASSUME InitSeq \subseteq Seq16 /\ InitSeq # {}
ASSUME MaxConnect \in Nat \ {0} /\ MaxUp \in Nat /\ MaxDown \in Nat /\ MaxDup \in Nat
ASSUME ServerCloses \in BOOLEAN /\ BindFails \in BOOLEAN /\ CloseAfterError \in BOOLEAN

Srv == 0                     \* the server's address
Addrs == 1..MaxConnect       \* client addresses, one per session

VARIABLES
    cpeer,       \* client->peer
    cinit,       \* client->peer initialised and client->endpoint bound
    connected,   \* client->connected
    caddr,       \* the current client session's address (0: none yet)
    speers,      \* server->peer_list: address -> peer
    slistening,  \* server->endpoint bound by rudp_server_bind, not yet closed
    cbound,      \* client->endpoint bound (its socket open and watched)
    csources,    \* event-loop service sources allocated for client->peer
                 \*   (ela_source_alloc) and not yet freed
    cdeinit,     \* rudp_client_deinit has been called
    net,         \* datagrams in flight
    dups,        \* datagrams the network has duplicated so far
    upSent,      \* ghost: per session, reliability of each message the
                 \*   client application sent (message n is upSent[a][n])
    upGot,       \* ghost: per session, message numbers the server
                 \*   application received, in order
    downSent,    \* ghost: the same for server -> client
    downGot,
    born,        \* ghost: per address, server peers created for it (capped at 2)
    cut          \* history: per address, how far the up and down logs had got
                 \*   when a second server peer was created (MaxUp, MaxDown: never)

vars == <<cpeer, cinit, connected, caddr, speers, slistening, cbound, csources, cdeinit,
          net, dups, upSent, upGot, downSent, downGot, born, cut>>
ghosts == <<upSent, upGot, downSent, downGot, born, cut>>
lifecycle == <<csources, cdeinit>>

Datagrams == [src : Addrs \cup {Srv}, dst : Addrs \cup {Srv}, w : Wires]

Dgram(src, dst, w) == [src |-> src, dst |-> dst, w |-> w]

\* Delivering d takes it out of the network, or, while the duplication
\* budget lasts, leaves a copy of it behind.
Consume(d) ==
    \/ net' = net \ {d} /\ UNCHANGED dups
    \/ dups < MaxDup /\ dups' = dups + 1 /\ UNCHANGED net

\* The datagrams a peer sent, addressed.
Emit(src, dst, ws) == {Dgram(src, dst, ws[i]) : i \in DOMAIN ws}

\* rudp_endpoint_bind: the outcomes, whether the endpoint ends up bound.
\* Each error (address, socket, bind, ela_set_fd, ela_add) closes the
\* endpoint and is returned.
rudp_endpoint_bind == IF BindFails THEN BOOLEAN ELSE {TRUE}

\* rudp_server_bind: the server endpoint's bind, whose error is returned to
\* the caller; a server that failed to bind receives nothing.
rudp_server_bind == rudp_endpoint_bind

\* rudp_endpoint_send of datagrams ds: sendto on a closed endpoint
\* (socket_fd -1) fails, and peer_send_raw only records the error.
rudp_endpoint_send(bound, ds) == IF bound THEN ds ELSE {}

\* rto values the PONG handler may compute (see RudpRtt): any value up to
\* the cap; other packets leave rto alone.
RtoChoices(p, w) == IF w.cmd = "PONG" THEN 0..MAX_RTO ELSE {p.rto}

TypeOK ==
    /\ cpeer \in PeerRecords
    /\ cinit \in BOOLEAN /\ connected \in BOOLEAN
    /\ caddr \in 0..MaxConnect
    /\ DOMAIN speers \subseteq Addrs
    /\ \A a \in DOMAIN speers : speers[a] \in PeerRecords
    /\ slistening \in BOOLEAN /\ cbound \in BOOLEAN
    /\ csources \in 0..MaxConnect /\ cdeinit \in BOOLEAN
    /\ \A d \in net : d \in Datagrams
    /\ dups \in 0..MaxDup
    /\ upSent \in [Addrs -> Seq(BOOLEAN)] /\ downSent \in [Addrs -> Seq(BOOLEAN)]
    /\ upGot \in [Addrs -> Seq(Nat)] /\ downGot \in [Addrs -> Seq(Nat)]
    /\ born \in [Addrs -> 0..2]
    /\ cut \in [Addrs -> [up : 0..MaxUp, down : 0..MaxDown]]

Init ==
    /\ cpeer \in {rudp_peer_reset(s) : s \in InitSeq}
    /\ cinit = FALSE
    /\ connected = FALSE
    /\ caddr = 0
    /\ speers = [a \in {} |-> rudp_peer_reset(0)]
    /\ slistening \in rudp_server_bind
    /\ cbound = FALSE
    /\ csources = 0 /\ cdeinit = FALSE
    /\ net = {}
    /\ dups = 0
    /\ upSent = [a \in Addrs |-> <<>>] /\ downSent = [a \in Addrs |-> <<>>]
    /\ upGot = [a \in Addrs |-> <<>>] /\ downGot = [a \in Addrs |-> <<>>]
    /\ born = [a \in Addrs |-> 0]
    /\ cut = [a \in Addrs |-> [up |-> MaxUp, down |-> MaxDown]]

-----------------------------------------------------------------------------
(* Client                                                                  *)

\* rudp_client_connect: initialise the peer (arming its timer), queue a
\* reliable CONN_REQ, then bind a new ephemeral port.  A bind error is
\* returned with the peer left initialised and armed.  The application
\* may call it again once the endpoint is not bound: after a close, a
\* drop or a failed connect.  rudp_peer_init allocates a new service
\* source whatever the peer held.  client->connected is left as it was.
ClientConnect ==
    /\ ~cdeinit /\ ~cbound /\ (CloseAfterError => ~cinit)
    /\ caddr < MaxConnect
    /\ \E s \in InitSeq : cpeer' = rudp_peer_send_connect(rudp_peer_from_sockaddr(s))
    /\ cinit' = TRUE
    /\ caddr' = caddr + 1
    /\ cbound' \in rudp_endpoint_bind
    /\ csources' = csources + 1
    /\ UNCHANGED <<connected, speers, net, dups, slistening, cdeinit, ghosts>>

\* rudp_client_send: refused unless client->connected, the only check
\* made; the packet goes to client->peer whether or not it is still
\* initialised.
ClientSend ==
    /\ connected
    /\ Len(upSent[caddr]) < MaxUp
    /\ \E reliable \in BOOLEAN :
          /\ upSent' = [upSent EXCEPT ![caddr] = Append(@, reliable)]
          /\ cpeer' = IF reliable
                      THEN rudp_peer_send_reliable(cpeer, "APP", Len(upSent'[caddr]))
                      ELSE rudp_peer_send_unreliable(cpeer, "APP", Len(upSent'[caddr]))
    /\ UNCHANGED <<cinit, connected, caddr, speers, net, dups, slistening, cbound, upGot, downSent,
                   downGot, born, cut, lifecycle>>

\* rudp_client_close: an out-of-queue CLOSE, then deinit the peer and
\* close the endpoint.  client->connected is left as it was.
ClientClose ==
    /\ cinit /\ ~cdeinit
    /\ net' = net \cup rudp_endpoint_send(cbound, {Dgram(caddr, Srv, CloseWire(cpeer))})
    /\ \E s \in InitSeq : cpeer' = rudp_peer_deinit(s)
    /\ cinit' = FALSE
    /\ cbound' = FALSE
    /\ csources' = csources - 1
    /\ UNCHANGED <<connected, caddr, speers, dups, slistening, cdeinit, ghosts>>

\* client_peer_dropped: connected = 0, deinit the peer, close the endpoint,
\* then handler->server_lost.
ClientDropped ==
    /\ connected' = FALSE
    /\ \E s \in InitSeq : cpeer' = rudp_peer_deinit(s)
    /\ cinit' = FALSE
    /\ cbound' = FALSE
    /\ csources' = csources - 1

\* client_handle_endpoint_packet: hand any datagram to the peer; on
\* success with client->connected clear, set it and call
\* handler->connected.  The datagram may be duplicated in the network.
ClientReceive ==
    \E d \in net :
      /\ cbound /\ d.dst = caddr
      /\ Consume(d)
      /\ \E rto \in RtoChoices(cpeer, d.w) :
           LET r == rudp_peer_incoming_packet(cpeer, d.w, rto) IN
           /\ IF r.up = "dropped"
              THEN /\ \E s \in InitSeq : cpeer' = rudp_peer_deinit(s)
                   /\ cinit' = FALSE
                   /\ cbound' = FALSE
                   /\ csources' = csources - 1
              ELSE /\ cpeer' = r.peer
                   /\ UNCHANGED <<cinit, cbound, csources>>
           /\ connected' = (connected \/ ~r.err)
           /\ downGot' = IF r.up = "app"
                         THEN [downGot EXCEPT ![caddr] = Append(@, d.w.msg)]
                         ELSE downGot
      /\ UNCHANGED <<caddr, slistening, speers, upSent, upGot, downSent, born, cut, cdeinit>>

\* The client peer's service timer fires.
ClientService ==
    /\ cinit /\ cpeer.scheduled /\ cpeer.wake <= 0
    /\ LET r == peer_service(cpeer) IN
       IF r.dropped
       THEN /\ ClientDropped
            /\ UNCHANGED net
       ELSE /\ cpeer' = r.peer
            /\ net' = net \cup rudp_endpoint_send(cbound, Emit(caddr, Srv, r.out))
            /\ UNCHANGED <<cinit, connected, cbound, csources>>
    /\ UNCHANGED <<caddr, speers, dups, slistening, cdeinit, ghosts>>

\* rudp_client_deinit: deinit the address and the endpoint, which frees the
\* endpoint's socket watcher; the peer is left as it is.  Its documentation
\* asks for an initialised client that is not connected (client->connected
\* clear), which a failed connect leaves.
ClientDeinit ==
    /\ ~cdeinit /\ ~connected
    /\ CloseAfterError => ~cinit
    /\ cdeinit' = TRUE
    /\ cbound' = FALSE
    /\ UNCHANGED <<cpeer, cinit, connected, caddr, speers, slistening, csources, net, dups,
                   ghosts>>

-----------------------------------------------------------------------------
(* Server                                                                  *)

\* server_peer_forget: unlink, deinit and free the peer.
Forget(a) == [x \in DOMAIN speers \ {a} |-> speers[x]]

\* rudp_server_peer_lookup: the server knows a peer for this address.
rudp_server_peer_lookup(a) == a \in DOMAIN speers

\* server_handle_data_packet: the peer's payload goes to the application.
server_handle_data_packet(a, msg) == [upGot EXCEPT ![a] = Append(@, msg)]

\* server_handle_endpoint_packet: a datagram from a known address goes to
\* its peer (whose dropped handler calls peer_dropped and forgets it); from
\* an unknown address only a CONN_REQ is considered: a new peer is
\* created, fed the packet, and announced by peer_new unless the packet
\* was rejected, in which case the peer is forgotten again.
ServerReceive ==
    \E d \in net :
      /\ d.dst = Srv /\ slistening
      /\ Consume(d)
      /\ LET a == d.src IN
         IF rudp_server_peer_lookup(a)
         THEN \E rto \in RtoChoices(speers[a], d.w) :
                LET r == rudp_peer_incoming_packet(speers[a], d.w, rto) IN
                /\ speers' = IF r.up = "dropped" THEN Forget(a)
                             ELSE [speers EXCEPT ![a] = r.peer]
                /\ upGot' = IF r.up = "app" THEN server_handle_data_packet(a, d.w.msg)
                            ELSE upGot
                /\ UNCHANGED <<born, cut>>
         ELSE IF d.w.cmd = "CONN_REQ"
         THEN \E s \in InitSeq :
                LET r == rudp_peer_incoming_packet(rudp_peer_from_sockaddr(s), d.w, MAX_RTO)
                IN  /\ speers' = IF r.err THEN speers
                                 ELSE speers @@ (a :> r.peer)
                    /\ born' = [born EXCEPT ![a] = IF @ = 0 THEN 1 ELSE 2]
                    /\ cut' = IF born[a] = 1
                              THEN [cut EXCEPT ![a] = [up |-> Len(upGot[a]),
                                                       down |-> Len(downSent[a])]]
                              ELSE cut
                    /\ UNCHANGED upGot
         ELSE UNCHANGED <<speers, upGot, born, cut>>
      /\ UNCHANGED <<cpeer, cinit, connected, caddr, slistening, cbound, upSent, downSent, downGot,
                     lifecycle>>

\* rudp_server_send to a peer the application was given by peer_new.
ServerSend(a) ==
    /\ Len(downSent[a]) < MaxDown
    /\ \E reliable \in BOOLEAN :
          /\ downSent' = [downSent EXCEPT ![a] = Append(@, reliable)]
          /\ speers' = [speers EXCEPT ![a] =
                          IF reliable
                          THEN rudp_peer_send_reliable(@, "APP", Len(downSent'[a]))
                          ELSE rudp_peer_send_unreliable(@, "APP", Len(downSent'[a]))]
    /\ UNCHANGED <<cpeer, cinit, connected, caddr, net, dups, slistening, cbound, upSent, upGot,
                   downGot, born, cut, lifecycle>>

\* rudp_server_client_close: forget the peer, sending nothing.
ServerClientClose(a) ==
    /\ speers' = Forget(a)
    /\ UNCHANGED <<cpeer, cinit, connected, caddr, net, dups, slistening, cbound, lifecycle, ghosts>>

\* rudp_server_send_all: rudp_server_send to every peer of the list, with
\* one reliability for all.
ServerSendAll ==
    /\ \A a \in DOMAIN speers : Len(downSent[a]) < MaxDown
    /\ \E reliable \in BOOLEAN :
          /\ downSent' = [a \in Addrs |->
                            IF a \in DOMAIN speers
                            THEN Append(downSent[a], reliable) ELSE downSent[a]]
          /\ speers' = [a \in DOMAIN speers |->
                          IF reliable
                          THEN rudp_peer_send_reliable(speers[a], "APP", Len(downSent'[a]))
                          ELSE rudp_peer_send_unreliable(speers[a], "APP", Len(downSent'[a]))]
    /\ UNCHANGED <<cpeer, cinit, connected, caddr, net, dups, slistening, cbound,
                   upSent, upGot, downGot, born, cut, lifecycle>>

\* rudp_server_close: peer_dropped and forget for every peer, then the
\* endpoint is closed and nothing more is received.
ServerClose ==
    /\ ServerCloses /\ slistening
    /\ speers' = [a \in {} |-> rudp_peer_reset(0)]
    /\ slistening' = FALSE
    /\ UNCHANGED <<cpeer, cinit, connected, caddr, cbound, net, dups, lifecycle, ghosts>>

\* A server peer's service timer fires; past its deadline the peer is
\* dropped (server_peer_dropped: peer_dropped, then forget).
ServerService(a) ==
    /\ speers[a].scheduled /\ speers[a].wake <= 0
    /\ LET r == peer_service(speers[a]) IN
       IF r.dropped
       THEN /\ speers' = Forget(a)
            /\ UNCHANGED net
       ELSE /\ speers' = [speers EXCEPT ![a] = r.peer]
            /\ net' = net \cup Emit(Srv, a, r.out)
    /\ UNCHANGED <<cpeer, cinit, connected, caddr, dups, slistening, cbound, lifecycle, ghosts>>

-----------------------------------------------------------------------------
(* Environment                                                             *)

\* The network loses a datagram.
Lose ==
    /\ \E d \in net : net' = net \ {d}
    /\ UNCHANGED <<cpeer, cinit, connected, caddr, speers, dups, slistening, cbound, lifecycle, ghosts>>

\* The clock advances one tick; the event loop runs every due timer
\* before time moves on.
Armed(p) == p.scheduled
ClockTick ==
    /\ ~(cinit /\ Armed(cpeer) /\ cpeer.wake <= 0)
    /\ \A a \in DOMAIN speers : ~(Armed(speers[a]) /\ speers[a].wake <= 0)
    /\ cpeer' = IF cinit /\ Armed(cpeer) THEN Tick(cpeer) ELSE cpeer
    /\ speers' = [a \in DOMAIN speers |->
                    IF Armed(speers[a]) THEN Tick(speers[a]) ELSE speers[a]]
    /\ UNCHANGED <<cinit, connected, caddr, net, dups, slistening, cbound, lifecycle, ghosts>>

Next ==
    \/ ClientConnect \/ ClientSend \/ ClientClose
    \/ ClientReceive \/ ClientService \/ ClientDeinit
    \/ ServerReceive \/ ServerSendAll \/ ServerClose
    \/ \E a \in DOMAIN speers :
          ServerSend(a) \/ ServerClientClose(a) \/ ServerService(a)
    \/ Lose
    \/ ClockTick

Spec == Init /\ [][Next]_vars

\* The event loop runs every timer that is due (the service callbacks), and
\* time passes whenever none is due.  Application calls and datagram
\* deliveries get no fairness: an application may stay silent and the
\* network may lose everything.
Fairness ==
    /\ WF_vars(ClientService)
    /\ \A a \in Addrs : WF_vars(a \in DOMAIN speers /\ ServerService(a))
    /\ WF_vars(ClockTick)

FairSpec == Spec /\ Fairness

-----------------------------------------------------------------------------
(* Properties                                                              *)

\* Application message numbers a peer still holds in its send queue.
Queued(p) == {p.sendq[i].msg : i \in DOMAIN p.sendq} \ {0}

\* Session a never had a second server peer created for it (see
\* SessionExactlyOnce for what such a peer does to the session).
OneIncarnation(a) == born[a] <= 1

\* Acknowledgement (peer_handle_ack applied to the ack fields stamped by
\* peer_send_queue): in a session served by one server peer, a reliable
\* message that has left the queue of a sender still alive has been
\* delivered to the other application.
AckedWasDelivered ==
    /\ cinit /\ OneIncarnation(caddr) =>
         \A n \in DOMAIN upSent[caddr] :
            upSent[caddr][n] /\ n \notin Queued(cpeer)
               => n \in Range(upGot[caddr])
    /\ \A a \in DOMAIN speers :
         OneIncarnation(a) =>
         \A n \in DOMAIN downSent[a] :
            downSent[a][n] /\ n \notin Queued(speers[a])
               => n \in Range(downGot[a])

\* Send queue discipline (rudp_peer_send_reliable, peer_send_queue,
\* peer_handle_ack): in a session served by one server peer, the reliable
\* entries of a live peer's queue carry consecutive sequence numbers
\* ending at out_seq_reliable, none of them acknowledged yet, and every
\* entry already transmitted precedes every entry not yet transmitted.
Window(p) ==
    LET r == SelectSeq(p.sendq, LAMBDA e : e.reliable)
        n == Len(r)
    IN  /\ \A i \in 1..n : r[i].rel = U16(p.out_rel - n + i)
                           /\ Delta(r[i].rel, p.out_acked) > 0
        /\ \A i, j \in DOMAIN p.sendq :
              i < j /\ p.sendq[j].retx => p.sendq[i].retx
SendQueueWindow ==
    /\ cinit /\ OneIncarnation(caddr) => Window(cpeer)
    /\ \A a \in DOMAIN speers : OneIncarnation(a) => Window(speers[a])

\* client_handle_endpoint_packet: the client becomes connected
\* (client->connected set, handler->connected called) only on the
\* handshake, in a step after which its peer is running, as client.h
\* promises ("after successful handshake with the server").
ConnectedOnHandshake ==
    [][~connected /\ connected' => cpeer'.state = "RUN"]_vars

\* Service sources (rudp_peer_init allocates one, rudp_peer_deinit frees
\* the one the peer holds): whatever the client application does with
\* rudp_client_connect, rudp_client_close and rudp_client_deinit, and
\* whether the connect fails or the server is lost, the client holds
\* exactly one service source while its peer is initialised and the client
\* not deinitialised, and none otherwise: no timer of the client is leaked
\* or outlives the client it calls back into.
ServiceSourceOwned == csources = IF cinit /\ ~cdeinit THEN 1 ELSE 0

\* server_handle_endpoint_packet: peer_new announces a peer only once the
\* engine has accepted its CONN_REQ and moved to RUN.
PeerNewMeansRunning ==
    [][\A a \in DOMAIN speers' \ DOMAIN speers : speers'[a].state = "RUN"]_vars

\* The peers whose timers run: the client's while initialised, and every
\* peer on the server's list.
LivePeers ==
    (IF cinit THEN {cpeer} ELSE {}) \cup {speers[a] : a \in DOMAIN speers}

\* peer_service_schedule ("already transmitted head, wait for rto"): while
\* the head of a peer's queue waits for its retransmission, the service
\* timer is due no later than rto after the last transmission
\* (last_out_time + rto), or in one tick when that moment has passed.
RetransmitOnTime ==
    \A p \in LivePeers :
       p.scheduled /\ p.sendq # <<>> /\ Head(p.sendq).retx =>
          p.wake <= IF p.rto - p.age <= 1 THEN 1 ELSE p.rto - p.age

\* peer_service's deadline check (abs_timeout_deadline < now, then
\* handler->dropped): a client whose server has forgotten its peer
\* eventually drops its own peer, unless a new server peer appears for it.
ClientDetectsLostServer ==
    \A a \in Addrs :
       (cinit /\ caddr = a /\ a \notin DOMAIN speers)
          ~> (~cinit \/ a \in DOMAIN speers)

\* The same check on the server: a peer whose client session has ended
\* (closed, dropped, or replaced by a new session) is eventually dropped
\* and forgotten by server_peer_dropped.
ServerDetectsLostClient ==
    \A a \in Addrs :
       (a \in DOMAIN speers /\ ~(cinit /\ caddr = a))
          ~> (a \notin DOMAIN speers \/ (cinit /\ caddr = a))

\* Refinement: each direction of the sessions, seen through the ghost logs
\* of what one application sent and the other was given, is a RudpChannel.
\* A second server peer for a session is a new connection to the server
\* (see SessionExactlyOnce), so the mapping keeps the first peer's part.
\* The part of session a's logs that belongs to its first server peer:
\* what the server received, and sent, before a second peer was created.
LogPrefix(s, n) == [i \in 1..Len(s) \cap 1..n |-> s[i]]
FirstUpGot(a) == LogPrefix(upGot[a], cut[a].up)
FirstDownSent(a) == LogPrefix(downSent[a], cut[a].down)
FirstDownGot(a) == SelectSeq(downGot[a], LAMBDA n : n <= cut[a].down)

Up == INSTANCE RudpChannel
        WITH Sessions <- Addrs, sent <- upSent,
             got <- [a \in Addrs |-> FirstUpGot(a)]
Down == INSTANCE RudpChannel
        WITH Sessions <- Addrs, sent <- [a \in Addrs |-> FirstDownSent(a)],
             got <- [a \in Addrs |-> FirstDownGot(a)]

\* Both directions of every client session, as far as its first server peer
\* takes part, behave as the abstract channel: every step of the client,
\* the server, the network or the clock leaves a session's logs alone,
\* appends a sent message, or delivers the next message in order, passing
\* over only unreliable ones.
SessionChannels == Up!Spec /\ Down!Spec

\* Per client session, the server application receives each message at
\* most once, across every server peer created for that session.
SessionExactlyOnce ==
    \A a \in Addrs : IsInjective(upGot[a])

=============================================================================
