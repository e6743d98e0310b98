\* A client whose first reliable sequence number is 0xFFFF.
CONSTANTS
    ACTION_TIMEOUT = 1
    MAX_RTO = 1
    InitSeq = {65535}
    MaxConnect = 1
    MaxUp = 1
    MaxDown = 1
    MaxDup = 0
    ServerCloses = FALSE
    BindFails = FALSE
    CloseAfterError = TRUE
    MaxRel = 2
    MaxSrvRel = 2
    MaxUnrel = 2
    MaxNet = 2
SPECIFICATION Spec
CONSTRAINT StateConstraint
PROPERTY PeerNewMeansRunning
