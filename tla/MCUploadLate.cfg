CONSTANTS
    q1 = q1  q2 = q2
    p1 = p1  p2 = p2
    Procs = {q1}
    Peers = {p1, p2}
    Local = Local
    Data = 1
    Total = 2
    MinPeers = 2
    Probed = TRUE
    Capacity <- Unlimited
    KeepOriginal = FALSE
    Length <- OutgrowsTheLimit
    MaxFileLength = 2
    MaxVersion = 3
    Faults <- Late
SPECIFICATION Spec
INVARIANTS ErasedIsPublished
