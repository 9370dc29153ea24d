CONSTANTS
    N = 2
    KeepOriginal = FALSE
    MaxVersion = 3
SPECIFICATION FairSpec
INVARIANTS TypeOK
PROPERTIES AttemptsAreSettled NothingNewAfterCancel
           SettledFileIsStored StoredIsAnnounced StopsWhenCancelled
