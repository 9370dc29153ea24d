CONSTANTS
    q1 = q1  q2 = q2
    p1 = p1  p2 = p2
    Procs = {q1, q2}
    Peers = {p1, p2}
    Local = Local
    Data = 1
    Total = 2
    MinPeers = 2
    Probed = FALSE
    Capacity <- Unlimited
    KeepOriginal = TRUE
    Length <- Shrinks
    MaxFileLength = 2
    MaxVersion = 2
    Faults <- NoFault
SPECIFICATION FairSpec
PROPERTIES RetrySucceeds
