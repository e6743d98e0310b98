\* Server to client: two application messages, each reliable or not, one
\* session over a lossy, reordering network; the down channel refines RudpChannel.
\* The seed 65533 makes the reliable sequence numbers cross 0xFFFF -> 0.
CONSTANTS
    ACTION_TIMEOUT = 1
    MAX_RTO = 1
    InitSeq = {65533}
    MaxConnect = 1
    MaxUp = 0
    MaxDown = 2
    MaxDup = 1
    ServerCloses = FALSE
    BindFails = FALSE
    CloseAfterError = TRUE
    MaxRel = 1
    MaxSrvRel = 3
    MaxUnrel = 3
    MaxNet = 2
SPECIFICATION Spec
CONSTRAINT StateConstraint
PROPERTY SessionChannels
INVARIANT TypeOK
INVARIANT SendQueueWindow
