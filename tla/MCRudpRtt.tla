------------------------------ MODULE MCRudpRtt ------------------------------
(* Bounds and sample sets for checking RudpRtt with TLC.                    *)
EXTENDS RudpRtt

StateConstraint == pongs <= MaxPongs /\ backoffs <= MaxBackoffs
=============================================================================
