----------------------------- MODULE RudpChannel -----------------------------
(***************************************************************************)
(* What one direction of a librudp session promises the applications:     *)
(* messages are handed over in the order they were sent, each at most     *)
(* once; an unreliable message may be lost, a reliable one is never       *)
(* passed over.  No transport, no sequence numbers, no timers: per        *)
(* session, the sender appends to sent and the receiver to got.  The      *)
(* sessions are independent channels, so one step may move several.       *)
(* Rudp refines one such family per direction.                            *)
(***************************************************************************)
EXTENDS Naturals, Sequences

CONSTANT Sessions

VARIABLES
    sent,   \* per session, reliability of each message sent, in order
    got     \* per session, numbers of the messages delivered, in order

vars == <<sent, got>>

\* The number of the last message delivered on session a, 0 before the first.
LastGot(a) == IF got[a] = <<>> THEN 0 ELSE got[a][Len(got[a])]

Init ==
    /\ sent = [a \in Sessions |-> <<>>]
    /\ got = [a \in Sessions |-> <<>>]

\* The sending application hands a reliable or an unreliable message over.
Send(a) ==
    /\ \E reliable \in BOOLEAN : sent'[a] = Append(sent[a], reliable)
    /\ got'[a] = got[a]

\* Message n reaches the receiving application: it comes after the last
\* one delivered, and every message passed over was unreliable.
Deliver(a) ==
    /\ \E n \in (LastGot(a) + 1)..Len(sent[a]) :
          /\ \A k \in (LastGot(a) + 1)..(n - 1) : ~sent[a][k]
          /\ got'[a] = Append(got[a], n)
    /\ sent'[a] = sent[a]

Next ==
    /\ DOMAIN sent' = Sessions /\ DOMAIN got' = Sessions
    /\ \A a \in Sessions :
          \/ sent'[a] = sent[a] /\ got'[a] = got[a]
          \/ Send(a)
          \/ Deliver(a)

Spec == Init /\ [][Next]_vars

=============================================================================
