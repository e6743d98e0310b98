------------------------------- MODULE MCRudp -------------------------------
(* Model-checking instance of Rudp: the bounds TLC explores.               *)
EXTENDS Rudp

CONSTANTS
    MaxRel,     \* bound on reliable sequence numbers the client peer assigns
    MaxSrvRel,  \* bound on reliable sequence numbers a server peer assigns
    MaxUnrel,   \* bound on unreliable sequence numbers within one epoch
    MaxNet      \* bound on datagrams in flight

\* Sequence numbers a peer that started at one of InitSeq has assigned
\* at most n reliable packets beyond.
WithinRel(p, n) == \E s \in InitSeq : Delta(p.out_rel, s) \in 0..n

StateConstraint ==
    /\ Cardinality(net) <= MaxNet
    /\ WithinRel(cpeer, MaxRel) /\ cpeer.out_unrel <= MaxUnrel
    /\ \A a \in DOMAIN speers :
          WithinRel(speers[a], MaxSrvRel) /\ speers[a].out_unrel <= MaxUnrel

=============================================================================
