------------------------------- MODULE RudpRtt -------------------------------
(***************************************************************************)
(* The retransmission timeout estimator of a peer (src/src/peer.c):        *)
(* rudp_peer_reset's initial values, peer_update_rtt fed by                *)
(* peer_handle_pong with the round trip of a PING, and peer_rto_backoff    *)
(* applied by peer_send_queue on every retransmission.  Values are the     *)
(* code's milliseconds.  rttvar is left out: the code computes it but only *)
(* logs it, and rto never depends on it.                                   *)
(***************************************************************************)
EXTENDS Integers

CONSTANTS
    MAX_RTO,      \* the cap on rto, 3000 ms in peer.c
    Samples,      \* round-trip values rudp_timestamp() - orig may produce
    MaxPongs,     \* bound on PONGs handled (state constraint)
    MaxBackoffs   \* bound on retransmissions (state constraint)

ASSUME MAX_RTO \in Nat \ {0} /\ Samples \subseteq Int /\ Samples # {}
ASSUME MaxPongs \in Nat /\ MaxBackoffs \in Nat

VARIABLES
    srtt,     \* peer->srtt
    rto,      \* peer->rto
    pongs,    \* PONGs handled so far
    backoffs, \* retransmissions so far
    seen      \* ghost: round-trip samples taken so far

vars == <<srtt, rto, pongs, backoffs, seen>>

\* C division of rudp_time_t (int64_t) values truncates toward zero.
CDiv(a, b) == IF a >= 0 THEN a \div b ELSE -((-a) \div b)

CapRto(r) == IF r > MAX_RTO THEN MAX_RTO ELSE r

TypeOK ==
    /\ srtt \in Int /\ rto \in Int
    /\ pongs \in Nat /\ backoffs \in Nat
    /\ seen \subseteq Samples

\* rudp_peer_reset: srtt = 100, rto = MAX_RTO.
Init ==
    /\ srtt = 100
    /\ rto = MAX_RTO
    /\ pongs = 0 /\ backoffs = 0
    /\ seen = {}

\* Fault model: the average divided by its weight off by one.
update_rtt_div7(s, last_rtt) ==
    LET s1 == CDiv(7 * s + last_rtt, 7)
    IN  [srtt |-> s1, rto |-> CapRto(s1)]

\* peer_update_rtt(peer, last_rtt): srtt = (7 srtt + last_rtt) / 8, then
\* rto = srtt capped at MAX_RTO.
peer_update_rtt(s, last_rtt) ==
    LET s1 == CDiv(7 * s + last_rtt, 8)
    IN  [srtt |-> s1, rto |-> CapRto(s1)]

\* peer_rto_backoff: rto doubles, capped at MAX_RTO.
peer_rto_backoff(r) == CapRto(r * 2)

\* peer_handle_pong: the sample is the PING's age when its PONG arrives.
HandlePong ==
    /\ \E x \in Samples :
          LET u == peer_update_rtt(srtt, x) IN
          /\ srtt' = u.srtt
          /\ rto' = u.rto
          /\ seen' = seen \cup {x}
    /\ pongs' = pongs + 1
    /\ UNCHANGED backoffs

\* peer_send_queue resends a packet already marked RETRANSMITTED.
Backoff ==
    /\ rto' = peer_rto_backoff(rto)
    /\ backoffs' = backoffs + 1
    /\ UNCHANGED <<srtt, pongs, seen>>

Next == HandlePong \/ Backoff

Spec == Init /\ [][Next]_vars

-----------------------------------------------------------------------------
(* Properties                                                              *)

Lo(S) == CHOOSE m \in S : \A y \in S : m <= y
Hi(S) == CHOOSE m \in S : \A y \in S : m >= y

\* peer_update_rtt's integer average never leaves the range of what it
\* averages: srtt lies between the smallest and the largest of the initial
\* 100 ms and the samples taken, despite the truncating division.
SrttWithinSamples ==
    srtt \in Lo(seen \cup {100})..Hi(seen \cup {100})

\* peer_rto_backoff is the exponential backoff of the retransmission
\* timeout: each retransmission makes rto grow, until it reaches MAX_RTO,
\* and never beyond it.
BackoffGrows ==
    [][Backoff => (rto' > rto \/ rto' = MAX_RTO) /\ rto' <= MAX_RTO]_vars

=============================================================================
