CONSTANTS
    Requests = {r1, r2}
    NoRequest = NoRequest
    Hashes = {h1, h2}
    Devices = {member, stranger}
    Members = {member}
    Restricted = TRUE
    NoWriter = NoWriter
    NoBody = NoBody
SPECIFICATION FairSpec
INVARIANTS TypeOK NothingLeftRunning NilMeansCancelled
PROPERTIES CreatedIsStored GuardedStore Returns RequestsEnd
