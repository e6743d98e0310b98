# TLA+ models of librudp

librudp is a reliable-datagram transport over UDP: a client and a server
exchange packets, reliable or not, through per-connection *peers* that number,
acknowledge, retransmit, keep alive and time out. This directory holds TLA+
models of the library's C code and the TLC configurations that check them.

## 1. The system

| Part | Source | State | Operations |
|---|---|---|---|
| Peer engine | `src/src/peer.c`, `src/include/rudp/peer.h` | `state` (NEW, RUN, CONNECTING, DEAD), `in_seq_reliable`, `in_seq_unreliable`, `out_seq_reliable`, `out_seq_unreliable`, `out_seq_acked`, `sendq`, `must_ack`, `scheduled`, `abs_timeout_deadline`, `last_out_time`, `srtt`, `rttvar`, `rto` | reset/init/deinit, send_reliable, send_unreliable, send_connect, send_close_noqueue, incoming_packet (ack handling, sequencing, handshake, ping/pong, post_ack), the service timer (drop, keep-alive ping, send_queue, reschedule) |
| Client shell | `src/src/client.c` | `peer`, `endpoint`, `connected` | connect, send, close, deinit, the peer's `dropped` handler, the endpoint's packet handler |
| Server demux | server code in `src/include/rudp/list.h` (lines 229-572) | `peer_list` keyed by address | endpoint packet handler (lookup, create a peer on CONN_REQ, peer_new), send, send_all, client_close, close, the peer's `dropped` handler |
| Library context | `src/include/rudp/list.h` (lines 176-228) | allocator, packet pool, random seed | rudp_init/deinit, rudp_random |
| Packet pool | `src/unnamed/part_002` | free list, `free_packets`, `allocated_packets` | chain_alloc, chain_free (trims the pool to FREE_PACKET_POOL) |
| Packet format | `src/unnamed/part_003` | header: command, opt (RELIABLE, ACK, RETRANSMITTED), reliable_ack, reliable, unreliable | — |
| Endpoint, address | `src/src/endpoint.c`, `src/unnamed/part_004` | socket, sockaddr | bind, send, recv, resolve |
| Time | `src/unnamed/part_001` | — | `rudp_timestamp` (gettimeofday, in ms) |

How they interact. Every entry point runs to completion in one callback of
the event loop. The endpoint reads a datagram and calls the client or server
handler, which hands it to a peer (`rudp_peer_incoming_packet`). The peer may
call back its owner: `handle_packet` for application data, and `dropped` on a
CLOSE or when its deadline has passed. That call is synchronous, and the
client's handler deinitialises the peer while the server's frees it. Sends only
queue packets and arm the peer's service timer. The timer callback
(`peer_service`) then transmits the queue, stamping each packet with the
current ack.

### Hard behaviours
* The network loses, duplicates and reorders datagrams. Retransmitted packets
  carry RETRANSMITTED and are recognised by sequence number.
* Sequence numbers are 16 bits wide, compared through an `int16_t` cast, and wrap.
  `in_seq_reliable` always starts at 0xFFFF, while `out_seq_reliable` starts at
  `rudp_random()`.
* Acks ride on every packet once `must_ack` is set (it is never cleared). The
  ack walk frees only reliable packets already transmitted.
* Timers:
  - the retransmission delay (`rto`, doubled on every retransmission, capped
    at MAX_RTO);
  - a keep-alive PING after ACTION_TIMEOUT of silence;
  - a drop when nothing has been received for DROP_TIMEOUT.
* Owners react to `dropped` inside the engine's call stack.
* The server creates a peer for any CONN_REQ from an unknown address, including
  a stale one.

### What makes each part correct
* Engine:
  - each side delivers the other's messages in order, without duplicates, and
    never an unreliable message past a missing reliable one;
  - a reliable message freed by an ack was delivered;
  - the send queue is a window of unacknowledged consecutive sequence numbers,
    with transmitted packets before untransmitted ones;
  - rto stays within bounds;
  - a dead link is eventually dropped.
* Client:
  - `connected` is raised by the handshake, with the peer running;
  - the client holds exactly one service source while its peer is
    initialised, and none after close, drop or `rudp_client_deinit`.
* Server:
  - a peer announced by `peer_new` has completed the handshake;
  - a session's messages reach the application once, whatever peers the server
    creates.

## 2. Modules

| Module | Models | State and actions |
|---|---|---|
| `RudpPeer` | peer.c | Pure transition operators on a peer record, one per C function (`rudp_peer_reset`, `rudp_peer_send_reliable`, `peer_handle_ack`, `peer_analyse_reliable`, `rudp_peer_incoming_packet`, `peer_send_queue`, `peer_service`, ...). Each operator returns the new peer and, where the C function has them, its results: an error, the upcall made, the datagrams sent. The engine is written this way because the owner's `dropped` handler runs inside it. |
| `Rudp` | client.c, the server code, the network | Variables: `cpeer`, `cinit`, `connected`, `caddr` (the client), `speers` (the server's peer list), `net`, `dups` (the network), and ghost logs of messages sent and delivered per session. The server also has `slistening` (its endpoint is bound and not closed), the client `cbound` (its endpoint is bound). `rudp_endpoint_bind` is modelled by its outcomes: bound, or an error when the constant `BindFails` is TRUE. `rudp_endpoint_send` sends nothing from an unbound endpoint. A client whose bind fails keeps the peer `rudp_client_connect` already initialised and armed, as the code does. `csources` counts the event-loop service sources allocated for the client's peer (`rudp_peer_init` allocates one, `rudp_peer_deinit` frees the one the peer holds) and `cdeinit` records `rudp_client_deinit`. The constant `CloseAfterError` says whether the application calls `rudp_client_close` after a failed connect before it connects again or deinitialises the client. Actions, one per callback or API call: `ClientConnect`, `ClientSend`, `ClientClose`, `ClientDeinit`, `ClientReceive`, `ClientService`, `ServerReceive`, `ServerSend`, `ServerSendAll`, `ServerClientClose`, `ServerClose`, `ServerService`. `ServerClose` is enabled only when the constant `ServerCloses` is TRUE. The environment adds `Lose` and `ClockTick`. |
| `RudpChannel` | the promise of `rudp_client_send`/`rudp_server_send` | The abstract specification: per session, a log `sent` of messages (each reliable or not) and a log `got` of the message numbers delivered. `Send` appends a message; `Deliver` delivers any later message provided no reliable message between the last delivered one and it is passed over. Unreliable messages may be lost, nothing is delivered twice or out of order. |
| `MCRudp` | — | Bounds for TLC: a state constraint on in-flight datagrams, on how far the client's (`MaxRel`) and each server peer's (`MaxSrvRel`) reliable counter advances, and on unreliable packets per reliable epoch (`MaxUnrel`). `Rudp` itself bounds the messages the application sends each way (`MaxUp`, `MaxDown`), the sessions (`MaxConnect`) and the duplicated datagrams (`MaxDup`). |
| `RudpRtt` | `peer_update_rtt`, `peer_rto_backoff`, `peer_handle_pong` (peer.c) | Variables `srtt`, `rto` (milliseconds, as in the code), with counters of PONGs and backoffs and a ghost set of the samples seen. Actions: `HandlePong` (a sample from `Samples`) and `Backoff`. `rttvar` is left out because it is only logged. |
| `MCRudpRtt` | — | A state constraint on the counters, and the sample set of a clock step. |
| `RudpPool` | `rudp_packet_chain_alloc/free` (part_002), `rudp_init/deinit` (list.h) | Variables: `pool` (the free list), `free_packets`, `allocated_packets` (uint16), chains in use by alloc size, and a ghost count of chains held from `mem_alloc`. Actions: `rudp_init`, `rudp_deinit` (allowed once every chain is freed), `Alloc` (a site allocates: pool reuse, `mem_alloc` success, or NULL), `Free` (free list or release, then the trim to FREE_PACKET_POOL). |
| `MCRudpPool` | — | The allocation sites: checked ones (`rudp_client_send`, `rudp_server_send`) and unchecked ones (the engine's control packets, the endpoint's receive buffer). |

### Time
The model keeps relative time. A peer holds three counters:
* `wake`, ticks until its timer fires;
* `deadline`, which is `abs_timeout_deadline - now`;
* `age`, which is `now - last_out_time`.

`ClockTick` advances every armed peer, and only when no armed timer is due,
because the event loop runs due timers before time moves on. Two values are
capped without loss:
* a passed deadline stays at -1, because every negative value behaves the same;
* `age` stops at DROP_TIMEOUT.

The runs scale ACTION_TIMEOUT and MAX_RTO to 1 tick. The relations that matter
still hold: MAX_RTO <= ACTION_TIMEOUT < DROP_TIMEOUT = 2 * ACTION_TIMEOUT.

### Abstractions
* Payloads become message numbers.
* PING timestamps are dropped. The PONG handler picks any rto in `0..MAX_RTO`,
  which covers every value `peer_update_rtt` can produce from non-negative
  samples. `RudpRtt` checks the estimator itself.
* A client session binds a fresh ephemeral port, so session n has address n.
* `rudp_random` is the set `InitSeq`.

### Refinement
`Rudp` instantiates `RudpChannel` twice, `Up` (client to server) and `Down`
(server to client), with the ghost logs as `sent` and `got`. The server may
create a second peer for a session, when a stale CONN_REQ arrives after the
first was forgotten (`resurrection` shows what that peer does). That peer is a
new connection to the server, not part of the client's channel, so `Rudp` keeps
a history variable `cut`: the lengths of the session's logs when its second
server peer was created. The mapping keeps the part of the logs before `cut`.
`SessionChannels` is `Up!Spec /\ Down!Spec`.

## 3. Runs

| Run | Config | Expect | What it shows |
|---|---|---|---|
| channel_up | `MCRudpUp.cfg` | pass | Two client-to-server messages, each reliable or not, from the seed 65533, so the reliable numbers cross 0xFFFF -> 0. Checks `SessionChannels` (the up direction refines `RudpChannel`: in order, at most once, no reliable message passed over) and `SendQueueWindow` on the client's queue (about 0.74M states, 1 min). |
| channel_down | `MCRudpDown.cfg` | pass | Two server-to-client messages, each reliable or not, from the seed 65533, with one duplicated datagram. Checks `SessionChannels`, `SendQueueWindow` on the server peer's queue, and `TypeOK` (about 1.09M states, 90 s). |
| connected_early | `MCRudpConnected.cfg` | violation | `ConnectedOnHandshake`. The server accepts the CONN_REQ and sends an unreliable APP right away; the APP overtakes the CONN_RSP, the CONNECTING client drops it as user payload while not running, but `rudp_peer_incoming_packet` returns 0 and `client_handle_endpoint_packet` (client.c:136) reports connected (9 states deep). |
| source_leak | `MCRudpDeinit.cfg` | violation | `ServiceSourceOwned`, with `BindFails` TRUE, `CloseAfterError` FALSE and two sessions. A connect whose bind fails leaves the peer initialised; a second `rudp_client_connect` calls `rudp_peer_init` again, allocating a second service source while the first stays allocated and armed (peer.c:92). `rudp_client_deinit` after a failed connect leaks it the same way (client.c:71). |
| peer_new_not_running | `MCRudpPeerNew.cfg` | violation | `PeerNewMeansRunning`, with `InitSeq = {65535}`. The CONN_REQ numbered 0 is SEQUENCED at a fresh server peer, so the handshake is skipped, but `peer_new` is still called. |
| resurrection | `MCRudpResurrect.cfg` | violation | `SessionExactlyOnce`. A stale CONN_REQ reaches the server after it dropped the session's peer, creating a new peer that delivers a message a second time. |
| retransmit_late | `MCRudpRetx.cfg` | violation | `RetransmitOnTime`. `peer_service_schedule` (peer.c:275) arms the timer at age + rto rather than rto - age. Once a reliable packet has been sent, a tick passes and a packet arrives, its retransmission is scheduled beyond its rto. |
| acked_undelivered | `MCRudpAcked.cfg` | violation | `AckedWasDelivered`, with the server seeded at 65534. The client's `in_seq_reliable` starts at 0xFFFF (peer.c:67); the server's first reliable APP, numbered 0xFFFF, reaches the client while it is still CONNECTING, is taken as RETRANSMITTED and not delivered, yet the client posts an ack for it (peer.c:445) and the server frees it (12 states deep). |
| liveness | `MCRudpLive.cfg` | pass | `ClientDetectsLostServer` and `ServerDetectsLostClient`, under `FairSpec`. If one side's peer is gone (forgotten, dropped, or closed by `rudp_server_close`, which sends no CLOSE), the other side eventually drops its own peer. `BindFails` is TRUE here: a client whose bind failed, or whose server never bound, also drops its armed peer at the deadline and reports `server_lost` for a connect that returned an error. |
| rtt | `MCRudpRtt.cfg` | pass | `SrttWithinSamples`. With samples 1, 40, 250 and 4000 ms and MAX_RTO = 3000, srtt stays within its samples despite the truncating division (44,388 states). |
| rtt_zero | `MCRudpRttZero.cfg` | violation | `BackoffGrows`. Sub-millisecond round trips (sample 0) bring srtt and rto to 0 after 24 PONGs, and the backoff doubles 0. |
| pool | `MCRudpPool.cfg` | pass | `PoolAccounting`, with the real FREE_PACKET_POOL = 10 and up to 12 chains in use (so the trim runs), and allocations at sites that check for NULL and sites that do not. The counters follow the chains held (792 states). |

The passing Rudp properties are restricted to sessions the server served with
one peer (`OneIncarnation`), since `resurrection` breaks them otherwise.

### Bounds
* **MaxConnect = 1**: one session (two in `source_leak`).
* **MaxUp, MaxDown**: messages per direction. The channel runs send two in
  one direction and none in the other, so that both orders of a reliable and
  an unreliable message, and two of either kind, meet the sequencing code; two
  each way at these counter bounds did not finish in 15 minutes.
* **MaxRel, MaxSrvRel = 3 on the sending side of a channel run**: the
  handshake takes one reliable number and two reliable messages two more.
  The receiving side sends nothing reliable after its handshake and gets 1.
* **MaxUnrel = 3 in the channel runs**: two unreliable messages in one epoch
  plus the NOOP that carries an ack. The violation runs keep 2.
* **MaxDup = 1**: at most one datagram is duplicated (down channel,
  `resurrection`); 0 elsewhere.
* **MaxNet = 2**: at most two datagrams in flight.

These bounds reach the cases that matter:
* each of the handshake's packets is lost, reordered or duplicated;
* the keep-alive PING with its PONG;
* a retransmission with its backoff;
* acks that are stale, current or broken;
* both drop paths (CLOSE and deadline);
* a queue holding a transmitted reliable packet ahead of an untransmitted
  one.

The channel runs start at 65533, so the reliable window crosses the uint16
wrap. The violation runs start at 32767 (the int16 sign boundary), at 65535
(`peer_new_not_running`) or at 65534 (`acked_undelivered`).

### Fairness
The safety runs assume none. The liveness run uses `FairSpec`, which adds weak
fairness of `ClientService`, of every server peer's `ServerService`, and of
`ClockTick`. This is justified because the event loop runs every timer that is
due, and time passes when none is. Application calls, datagram deliveries
and `Lose` get no fairness: an application may stay silent, and the network
may deliver nothing. The liveness run keeps MaxUp = MaxDown = 0, because temporal
checking of the larger state spaces does not finish in time.

### Bounds of the other modules
* `RudpRtt`: at most 6 PONGs and 4 backoffs. This is enough for srtt to move
  across the whole range of samples, and for rto to reach the cap from
  below. The zero-sample run allows 30 PONGs, because srtt reaches 0 only
  after 24 of them.
* `RudpPool`: the code's FREE_PACKET_POOL = 10, and MaxLive = 12 chains in use.
  Freeing 11 default chains is the smallest case that runs the trim.

## 4. Plan for the next sittings
1. **A reconnect run** with messages (MaxConnect = 2, MaxUp > 0) for the
   safety properties, which the current bounds reach only with one session.
2. **The socket** left open by `rudp_endpoint_deinit` (endpoint.c:36), if
   sockets become state of the model.

## 5. Not modelled
* The endpoint's socket calls (beyond the outcome of bind) and address resolution: I/O. The `net` variable
  stands for them.
* Logging.
* The intrusive lists: sequences stand for them.
* Byte order and the header layout.
* The interactive test client program.
* What a leaked service source does after the leak: the model counts the
  client's sources but gives its peer one timer. After `rudp_client_deinit`
  the application makes no more calls, but an armed peer's timer still fires
  (`ClientService`), as it does in the code.
* `connected` surviving `rudp_client_close` (client.c:61): no run checks it.
  `ConnectedOnHandshake` only sees `connected` being raised.
* A NULL chain: `RudpPool` models `rudp_packet_chain_alloc` failing and an
  unchecked site then stopping the pool, but no run checks a property of it.
* Sockets: `rudp_endpoint_deinit` does not close the socket, which the
  model, where `cbound` only says whether the client receives, does not see.
* The server's service sources: `server_peer_forget` always deinitialises
  the peer it frees.
* `rttvar`: it is computed but only logged.
* A wall-clock step backwards (`rudp_timestamp` uses gettimeofday). It would give
  a negative sample, and `BackoffGrows` then fails after one PONG in the same way
  as in `rtt_zero`. There is no separate run for it.
* `allocated_packets` wrapping at 65536: the count is purely informational, and
  65536 chains cannot be held within TLC's reach.
