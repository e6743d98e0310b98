\* Acknowledgement at the sequence wrap: the server starts at 32767 or at
\* 65534, so its first reliable message carries 65535.
CONSTANTS
    ACTION_TIMEOUT = 1
    MAX_RTO = 1
    InitSeq = {32767, 65534}
    MaxConnect = 1
    MaxUp = 1
    MaxDown = 1
    MaxDup = 0
    ServerCloses = FALSE
    BindFails = FALSE
    CloseAfterError = TRUE
    MaxRel = 2
    MaxSrvRel = 2
    MaxUnrel = 2
    MaxNet = 2
SPECIFICATION Spec
CONSTRAINT StateConstraint
INVARIANT AckedWasDelivered
