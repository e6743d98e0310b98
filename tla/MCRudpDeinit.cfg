\* The client's service sources across failed connects, retries and rudp_client_deinit.
CONSTANTS
    ACTION_TIMEOUT = 1
    MAX_RTO = 1
    InitSeq = {32767}
    MaxConnect = 2
    MaxUp = 1
    MaxDown = 1
    MaxDup = 0
    ServerCloses = FALSE
    BindFails = TRUE
    CloseAfterError = FALSE
    MaxRel = 2
    MaxSrvRel = 2
    MaxUnrel = 2
    MaxNet = 2
SPECIFICATION Spec
CONSTRAINT StateConstraint
INVARIANT ServiceSourceOwned
