CONSTANTS
    Data = 1
    Total = 2
    Overhead = 1
    MaxTotal = 8
    MaxChunk = 4
    MaxShards = 4
    DefaultLimit = 6
    DefaultChunk = 2
    PlainNames = {1, 2, 3}
    Slots = 1
    Settings <- AnySetting
    Lists <- Meshes
    Answers <- Agents
    NoAnswer = NoAnswer
    Sources <- Ordinary
    Libraries <- WithOld
    MaxAdds = 2
    Faults <- Mishaps
SPECIFICATION FairSpec
CHECK_DEADLOCK FALSE
INVARIANTS TypeOK PlacedSafely ResultsIdentifyStubs AddComplete RestoreComplete PublishedIsReadable
PROPERTIES NothingLost AddsEnd
