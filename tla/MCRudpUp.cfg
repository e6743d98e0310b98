\* Client to server: two application messages, each reliable or not, one
\* session over a lossy, reordering network; the up channel refines RudpChannel.
\* The seed 65533 makes the reliable sequence numbers cross 0xFFFF -> 0.
CONSTANTS
    ACTION_TIMEOUT = 1
    MAX_RTO = 1
    InitSeq = {65533}
    MaxConnect = 1
    MaxUp = 2
    MaxDown = 0
    MaxDup = 0
    ServerCloses = FALSE
    BindFails = FALSE
    CloseAfterError = TRUE
    MaxRel = 3
    MaxSrvRel = 1
    MaxUnrel = 3
    MaxNet = 2
SPECIFICATION Spec
CONSTRAINT StateConstraint
PROPERTY SessionChannels
INVARIANT SendQueueWindow
