CONSTANTS
    Data = 1
    Total = 2
    Overhead = 1
    MaxTotal = 8
    MaxChunk = 4
    MaxShards = 4
    DefaultLimit = 6
    DefaultChunk = 2
    PlainNames = {1, 2, 3}
    Slots = 1
    Settings <- OneSetting
    Lists <- Meshes
    Answers <- Agents
    NoAnswer = NoAnswer
    Sources <- Extraordinary
    Libraries <- Empty
    MaxAdds = 1
    Faults <- NoFault
SPECIFICATION Spec
CHECK_DEADLOCK FALSE
INVARIANT PublishedIsReadable
