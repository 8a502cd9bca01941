SPECIFICATION SurroundingsFairSpec
CONSTANTS
    Networks <- MCNetworks
    Clients = {"node", "tool"}
    NoProtocol = "none"
    Lifetime = 8
    PollDelay = 1
    MaxStarts = 2
    Platforms = {"linux", "macos", "windows"}
    Skies <- MCSkies
    Files <- MCFiles
    Registries <- MCRegistries
    Stores <- MCStores
    MaxRuns = 3
    MaxOutside = 1
    ByteBits = 2
    WordBits = 5
    Capacity = 6
    NumSegments = 3
    SegmentBase = 2
    NumCountries = 2
    MaxBlocks = 3
    Wires <- MCWires
    MaxRead = 27
INVARIANTS
    
    TableSurvivesPacking
    ReadsDoNotMatter

    
    
\* The tools end, and a stream that has ended stays ended.
CHECK_DEADLOCK FALSE
