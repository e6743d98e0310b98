\* Failure detection: the drop deadline under fair timers and clock, with
\* keep-alives, retransmissions, a lossy network, server close and bind failure.
CONSTANTS
    ACTION_TIMEOUT = 1
    MAX_RTO = 1
    InitSeq = {32767}
    MaxConnect = 1
    MaxUp = 0
    MaxDown = 0
    MaxDup = 0
    ServerCloses = TRUE
    BindFails = TRUE
    CloseAfterError = TRUE
    MaxRel = 2
    MaxSrvRel = 2
    MaxUnrel = 2
    MaxNet = 2
SPECIFICATION FairSpec
CONSTRAINT StateConstraint
PROPERTY ClientDetectsLostServer
PROPERTY ServerDetectsLostClient
