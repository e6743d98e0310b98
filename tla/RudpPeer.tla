------------------------------ MODULE RudpPeer ------------------------------
(***************************************************************************)
(* The per-peer protocol engine of librudp (src/src/peer.c).               *)
(*                                                                         *)
(* Every engine entry point runs to completion inside one event-loop       *)
(* callback, and its owner's "dropped" handler runs synchronously inside   *)
(* it and deinitialises or frees the peer.  The engine is therefore        *)
(* written here as transition operators on a peer record (one record =    *)
(* one struct rudp_peer); the composing module Rudp applies them to its    *)
(* variables, one action per callback, and sequences the owner's reaction  *)
(* after the engine's step exactly as the C call chain does.               *)
(*                                                                         *)
(* Time is relative: a peer keeps its timer countdown (wake), the          *)
(* distance to abs_timeout_deadline (deadline) and the age of              *)
(* last_out_time (age); one tick of the system clock decrements or         *)
(* increments them.  Payloads are abstracted to an application message    *)
(* number (msg, 0 for protocol packets); PING timestamps are abstracted    *)
(* and the RTT estimator's effect on rto is a choice made by the caller    *)
(* (module RudpRtt models the estimator itself).                           *)
(***************************************************************************)
EXTENDS Integers, Sequences, SequencesExt

CONSTANTS
    ACTION_TIMEOUT,   \* idle delay before a keep-alive PING, in ticks
    MAX_RTO           \* retransmission timeout cap, in ticks

ASSUME ACTION_TIMEOUT \in Nat \ {0} /\ MAX_RTO \in Nat \ {0}

DROP_TIMEOUT == ACTION_TIMEOUT * 2

\* last_out_time is only compared with ACTION_TIMEOUT and added to rto
\* before being clipped by a deadline <= DROP_TIMEOUT: capping its age
\* here loses nothing.
AgeCap == DROP_TIMEOUT

States == {"NEW", "RUN", "CONNECTING", "DEAD"}
Commands == {"NOOP", "CLOSE", "CONN_REQ", "CONN_RSP", "PING", "PONG", "APP"}
Seq16 == 0..65535

\* uint16_t arithmetic and the (int16_t)(a - b) cast used to order sequence
\* numbers across wrap-around.
U16(x) == x % 65536
Delta(a, b) == LET v == U16(a - b) IN IF v >= 32768 THEN v - 65536 ELSE v

\* A send queue entry (struct rudp_packet_chain with its header).
Entries == [cmd : Commands, rel : Seq16, unrel : Seq16,
            reliable : BOOLEAN, retx : BOOLEAN, msg : Nat]

\* A datagram as it leaves peer_send_raw.
Wires == [cmd : Commands, reliable : BOOLEAN, retx : BOOLEAN, ack : BOOLEAN,
          rack : Seq16, rel : Seq16, unrel : Seq16, msg : Nat]

PeerRecords ==
    [state : States, in_rel : Seq16, in_unrel : Seq16, out_rel : Seq16,
     out_unrel : Seq16, out_acked : Seq16, rto : 0..MAX_RTO,
     must_ack : BOOLEAN, sendq : Seq(Entries), scheduled : BOOLEAN,
     wake : Int, deadline : Int, age : 0..AgeCap]

-----------------------------------------------------------------------------
(* Timer                                                                   *)

\* peer_service_schedule: wake at once for an untransmitted head, after
\* (now - last_out_time) + rto for a retransmitted head, after
\* ACTION_TIMEOUT for an empty queue; never later than the drop deadline
\* and never in less than one tick.
peer_service_schedule(p) ==
    LET d0 == IF p.sendq = <<>> THEN ACTION_TIMEOUT
              ELSE IF Head(p.sendq).retx THEN p.age + p.rto
              ELSE 0
        d1 == IF p.deadline < d0 THEN p.deadline ELSE d0
    IN  [p EXCEPT !.scheduled = TRUE, !.wake = IF d1 <= 0 THEN 1 ELSE d1]

\* rudp_peer_reset, with seq the value rudp_random returned.  Frees the
\* send queue and removes the timer.
rudp_peer_reset(seq) ==
    [state |-> "NEW", in_rel |-> 65535, in_unrel |-> 0,
     out_rel |-> seq, out_unrel |-> 0, out_acked |-> U16(seq - 1),
     rto |-> MAX_RTO, must_ack |-> FALSE, sendq |-> <<>>,
     scheduled |-> FALSE, wake |-> 0, deadline |-> DROP_TIMEOUT, age |-> 0]

\* rudp_peer_deinit: reset the peer and free its service source, which
\* disarms the timer.
rudp_peer_deinit(seq) == rudp_peer_reset(seq)

\* rudp_peer_init: reset, then arm the service timer.
rudp_peer_init(seq) == peer_service_schedule(rudp_peer_reset(seq))

\* rudp_peer_from_sockaddr: rudp_peer_init, then the peer's address; the
\* address is the session the caller keeps the peer under.
rudp_peer_from_sockaddr(seq) == rudp_peer_init(seq)

-----------------------------------------------------------------------------
(* Senders                                                                 *)

rudp_peer_send_unreliable(p, cmd, msg) ==
    peer_service_schedule(
      [p EXCEPT !.out_unrel = U16(@ + 1),
                !.sendq = Append(@, [cmd |-> cmd, rel |-> p.out_rel,
                                     unrel |-> U16(p.out_unrel + 1),
                                     reliable |-> FALSE, retx |-> FALSE,
                                     msg |-> msg])])

rudp_peer_send_reliable(p, cmd, msg) ==
    peer_service_schedule(
      [p EXCEPT !.out_rel = U16(@ + 1), !.out_unrel = 0,
                !.sendq = Append(@, [cmd |-> cmd, rel |-> U16(p.out_rel + 1),
                                     unrel |-> 0, reliable |-> TRUE,
                                     retx |-> FALSE, msg |-> msg])])

\* rudp_peer_send_connect
rudp_peer_send_connect(p) ==
    rudp_peer_send_reliable([p EXCEPT !.state = "CONNECTING"], "CONN_REQ", 0)

\* The header rudp_peer_send_close_noqueue builds and sends in place,
\* and the peer after its ++out_seq_unreliable.
CloseWire(p) ==
    [cmd |-> "CLOSE", reliable |-> FALSE, retx |-> FALSE, ack |-> FALSE,
     rack |-> 0, rel |-> p.out_rel, unrel |-> U16(p.out_unrel + 1), msg |-> 0]
rudp_peer_send_close_noqueue(p) ==
    [p EXCEPT !.out_unrel = U16(@ + 1), !.age = 0]

-----------------------------------------------------------------------------
(* Acknowledgement and inbound sequencing                                  *)

\* An entry the ACK walk may free: a reliable packet already transmitted
\* once whose sequence number is not after the acknowledged one.
Ackable(e, ack) == e.reliable /\ e.retx /\ Delta(e.rel, ack) <= 0

\* peer_handle_ack: a stale ack is ignored, an ack of a never assigned
\* sequence number marks the packet broken, any other one advances
\* out_seq_acked and frees the queue's head while it is ackable.
peer_handle_ack(p, ack) ==
    IF Delta(ack, p.out_acked) < 0 THEN [broken |-> FALSE, peer |-> p]
    ELSE IF Delta(ack, p.out_rel) > 0 THEN [broken |-> TRUE, peer |-> p]
    ELSE LET stop == SelectInSeq(p.sendq, LAMBDA e : ~Ackable(e, ack))
             rest == IF stop = 0 THEN <<>> ELSE SubSeq(p.sendq, stop, Len(p.sendq))
         IN  [broken |-> FALSE,
              peer |-> [p EXCEPT !.out_acked = ack, !.sendq = rest]]

peer_analyse_reliable(p, seq) ==
    IF p.in_rel = seq THEN [st |-> "RETRANSMITTED", peer |-> p]
    ELSE IF U16(p.in_rel + 1) # seq THEN [st |-> "UNSEQUENCED", peer |-> p]
    ELSE [st |-> "SEQUENCED",
          peer |-> [p EXCEPT !.in_rel = seq, !.in_unrel = 0]]

\* Fault models: an unreliable packet accepted whatever reliable packet
\* it follows; a repeated unreliable sequence number accepted.
analyse_unreliable_any_epoch(p, rel, unrel) ==
    IF Delta(unrel, p.in_unrel) <= 0
    THEN [st |-> "UNSEQUENCED", peer |-> p]
    ELSE [st |-> "SEQUENCED", peer |-> [p EXCEPT !.in_unrel = unrel]]
analyse_unreliable_repeat(p, rel, unrel) ==
    IF p.in_rel # rel \/ Delta(unrel, p.in_unrel) < 0
    THEN [st |-> "UNSEQUENCED", peer |-> p]
    ELSE [st |-> "SEQUENCED", peer |-> [p EXCEPT !.in_unrel = unrel]]

peer_analyse_unreliable(p, rel, unrel) ==
    IF p.in_rel # rel \/ Delta(unrel, p.in_unrel) <= 0
    THEN [st |-> "UNSEQUENCED", peer |-> p]
    ELSE [st |-> "SEQUENCED", peer |-> [p EXCEPT !.in_unrel = unrel]]

\* peer_post_ack: piggy-back the ack on the next packet, or on a NOOP
\* when the send queue is empty.
peer_post_ack(p) ==
    LET q == [p EXCEPT !.must_ack = TRUE]
    IN  IF q.sendq # <<>> THEN q
        ELSE peer_service_schedule(rudp_peer_send_unreliable(q, "NOOP", 0))

\* peer_handle_connreq: answer with an unreliable CONN_RSP.
peer_handle_connreq(p) ==
    peer_service_schedule(rudp_peer_send_unreliable(p, "CONN_RSP", 0))

\* The UNSEQUENCED branch of rudp_peer_incoming_packet: the two
\* handshake cases, anything else is ignored.
Unsequenced(p, d) ==
    CASE p.state = "NEW" /\ d.cmd = "CONN_REQ" ->
             [peer_handle_connreq(p) EXCEPT !.in_rel = d.rel, !.state = "RUN"]
      [] p.state = "CONNECTING" /\ d.cmd = "CONN_RSP" ->
             [peer_handle_ack([p EXCEPT !.in_rel = d.rel], d.rack).peer
                 EXCEPT !.state = "RUN"]
      [] OTHER -> p

\* peer_handle_ping: a retransmitted PING gets no answer (no RTT sample can
\* be taken from it); otherwise a PONG echoing its timestamp is queued
\* unreliably.
peer_handle_ping(p, d) ==
    IF d.retx THEN p ELSE rudp_peer_send_unreliable(p, "PONG", 0)

\* peer_handle_pong: rto becomes what peer_update_rtt computes from the
\* PING's round trip (module RudpRtt); here that value is the argument.
peer_handle_pong(p, rto) == [p EXCEPT !.rto = rto]

\* The SEQUENCED branch for every command but CLOSE.  rto is the value
\* peer_update_rtt computes when the packet is a PONG.
Sequenced(p, d, rto) ==
    CASE d.cmd = "PING" /\ p.state = "RUN" -> peer_handle_ping(p, d)
      [] d.cmd = "PONG" /\ p.state = "RUN" -> peer_handle_pong(p, rto)
      [] OTHER -> p

\* rudp_peer_incoming_packet.  Returns the peer, whether the packet was
\* rejected (EINVAL) and the upcall made: "dropped" (handler->dropped,
\* after which the engine returns at once), "app" (handler->handle_packet)
\* or "none".
rudp_peer_incoming_packet(p, d, rto) ==
    LET a  == IF d.ack THEN peer_handle_ack(p, d.rack)
              ELSE [broken |-> FALSE, peer |-> p]
        an == IF d.reliable THEN peer_analyse_reliable(a.peer, d.rel)
              ELSE peer_analyse_unreliable(a.peer, d.rel, d.unrel)
        fresh == [an.peer EXCEPT !.deadline = DROP_TIMEOUT]
        p1 == CASE an.st = "UNSEQUENCED" -> Unsequenced(an.peer, d)
                [] an.st = "RETRANSMITTED" -> fresh
                [] OTHER -> Sequenced(fresh, d, rto)
        p2 == IF d.reliable THEN peer_post_ack(p1) ELSE p1
        app == an.st = "SEQUENCED" /\ d.cmd = "APP" /\ fresh.state = "RUN"
    IN  IF a.broken THEN [peer |-> p, err |-> TRUE, up |-> "none"]
        ELSE IF an.st = "SEQUENCED" /\ d.cmd = "CLOSE"
        THEN [peer |-> [fresh EXCEPT !.state = "DEAD"], err |-> FALSE,
              up |-> "dropped"]
        ELSE [peer |-> peer_service_schedule(p2), err |-> FALSE,
              up |-> IF app THEN "app" ELSE "none"]

-----------------------------------------------------------------------------
(* Service                                                                 *)

\* The datagram peer_send_queue emits for entry e: the ACK fields are
\* stamped from must_ack and in_seq_reliable at the time of sending.
Wire(p, e) ==
    [cmd |-> e.cmd, reliable |-> e.reliable, retx |-> e.retx,
     ack |-> p.must_ack, rack |-> IF p.must_ack THEN p.in_rel ELSE 0,
     rel |-> e.rel, unrel |-> e.unrel, msg |-> e.msg]

\* Fault model: the backoff without its MAX_RTO cap.
rto_backoff_uncapped(rto) == rto * 2
peer_rto_backoff(rto) == IF rto * 2 > MAX_RTO THEN MAX_RTO ELSE rto * 2

\* Fault model: the walk keeps reliable entries without setting their
\* RETRANSMITTED flag.
send_queue_unmarked(p) ==
    LET q    == p.sendq
        stop == SelectInSeq(q, LAMBDA e : e.reliable /\ e.retx)
        n    == IF stop = 0 THEN Len(q) ELSE stop
        walked == SubSeq(q, 1, IF stop = 0 THEN n ELSE n - 1)
        left == IF stop = 0 THEN <<>> ELSE SubSeq(q, stop, Len(q))
    IN  [out  |-> [i \in 1..n |-> Wire(p, q[i])],
         peer |-> [p EXCEPT !.sendq = SelectSeq(walked, LAMBDA e : e.reliable) \o left,
                            !.age = IF n > 0 THEN 0 ELSE @,
                            !.rto = IF stop > 0 THEN peer_rto_backoff(@)
                                    ELSE @]]

\* peer_send_queue: send the queue from its head; an unreliable entry is
\* freed once sent, a reliable one is marked RETRANSMITTED, and the walk
\* stops after resending the first entry already so marked (with an rto
\* backoff).  Returns the peer and the datagrams in sending order.
peer_send_queue(p) ==
    LET q    == p.sendq
        stop == SelectInSeq(q, LAMBDA e : e.reliable /\ e.retx)
        n    == IF stop = 0 THEN Len(q) ELSE stop
        walked == SubSeq(q, 1, IF stop = 0 THEN n ELSE n - 1)
        marked == [i \in 1..Len(SelectSeq(walked, LAMBDA e : e.reliable)) |->
                     [SelectSeq(walked, LAMBDA e : e.reliable)[i]
                        EXCEPT !.retx = TRUE]]
        left == IF stop = 0 THEN <<>> ELSE SubSeq(q, stop, Len(q))
    IN  [out  |-> [i \in 1..n |-> Wire(p, q[i])],
         peer |-> [p EXCEPT !.sendq = marked \o left,
                            !.age = IF n > 0 THEN 0 ELSE @,
                            !.rto = IF stop > 0 THEN peer_rto_backoff(@)
                                    ELSE @]]

\* peer_ping: queue a reliable PING.
peer_ping(p) == rudp_peer_send_reliable(p, "PING", 0)

\* Fault model: the deadline check off by one tick.
service_late_drop(p) ==
    LET p0 == [p EXCEPT !.scheduled = FALSE]
        p1 == IF p0.sendq = <<>> /\ p0.age > ACTION_TIMEOUT
              THEN peer_ping(p0) ELSE p0
        s  == peer_send_queue(p1)
    IN  IF p0.deadline < -1 THEN [peer |-> p0, out |-> <<>>, dropped |-> TRUE]
        ELSE [peer |-> peer_service_schedule(s.peer), out |-> s.out,
              dropped |-> FALSE]

\* peer_service: the timer callback.  Past the drop deadline it only
\* calls handler->dropped; otherwise it queues a PING after an idle
\* ACTION_TIMEOUT, sends the queue and re-arms the timer.
peer_service(p) ==
    LET p0 == [p EXCEPT !.scheduled = FALSE]
        p1 == IF p0.sendq = <<>> /\ p0.age > ACTION_TIMEOUT
              THEN peer_ping(p0) ELSE p0
        s  == peer_send_queue(p1)
    IN  IF p0.deadline < 0 THEN [peer |-> p0, out |-> <<>>, dropped |-> TRUE]
        ELSE [peer |-> peer_service_schedule(s.peer), out |-> s.out,
              dropped |-> FALSE]

\* One tick of the clock for an armed peer.  A deadline already passed
\* behaves the same however long ago it passed (peer_service drops,
\* peer_service_schedule wakes in one tick), so it stays at -1.
Tick(p) ==
    [p EXCEPT !.wake = @ - 1, !.deadline = IF @ < 0 THEN @ ELSE @ - 1,
              !.age = IF @ < AgeCap THEN @ + 1 ELSE @]

=============================================================================
