SPECIFICATION ExitSideFairSpec
CONSTANTS
    k1 = k1
    Keys = {k1}
    ExitPackets = 3
    MaxReplies = 1
    MaxExitStreams = 3
    ExitFaults = {"resolve", "reset"}
    NoStream = NoStream
    Packets = 4
    Start <- MCStart
    MaxCopies = 2
INVARIANTS
    StreamsKeptApart
PROPERTIES
    
    DeliversInOrder
    EverythingWritten
\* A writer's stream ends.
CHECK_DEADLOCK FALSE
