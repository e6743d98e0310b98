\* Delayed and duplicated CONN_REQ datagrams after the server forgot a peer.
CONSTANTS
    ACTION_TIMEOUT = 1
    MAX_RTO = 1
    InitSeq = {32767}
    MaxConnect = 1
    MaxUp = 1
    MaxDown = 1
    MaxDup = 1
    ServerCloses = FALSE
    BindFails = FALSE
    CloseAfterError = TRUE
    MaxRel = 2
    MaxSrvRel = 2
    MaxUnrel = 2
    MaxNet = 2
SPECIFICATION Spec
CONSTRAINT StateConstraint
INVARIANT SessionExactlyOnce
