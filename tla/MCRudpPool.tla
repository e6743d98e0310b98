----------------------------- MODULE MCRudpPool -----------------------------
(* Allocation sites of the library for TLC, by the size they ask for and   *)
(* whether they test the result for NULL.                                  *)
EXTENDS RudpPool

\* rudp_client_send and rudp_server_send: header plus payload, small or
\* larger than the default chain; both return RUDP_ERR_NOMEM on NULL.
CheckedSites ==
    {[asked |-> 16, checked |-> TRUE], [asked |-> 5000, checked |-> TRUE]}

\* peer_post_ack, peer_ping, the PONG and CONN_RSP replies and
\* rudp_peer_send_connect ask for a header; _endpoint_handle_incoming asks
\* for RUDP_RECV_BUFFER_SIZE; none of them tests for NULL.
UncheckedSites ==
    {[asked |-> 16, checked |-> FALSE], [asked |-> 4096, checked |-> FALSE]}

AllSites == CheckedSites \cup UncheckedSites
====
