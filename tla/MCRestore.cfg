CONSTANTS
    q1 = q1  q2 = q2
    p1 = p1  p2 = p2
    Procs = {q1}
    Peers = {p1, p2}
    Data = 2
    Total = 3
    Place <- TwoPeers
    Chunks = 2
    Absent = Absent
    Foreign = Foreign
    Faults <- Mishaps
SPECIFICATION Spec
INVARIANTS TypeOK OutputIsOriginal EnoughShardsSuffice
PROPERTIES OutputNotReplaced
