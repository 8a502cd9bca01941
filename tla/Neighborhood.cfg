SPECIFICATION NeighborhoodFairSpec
CONSTANTS
    p1 = p1
    p2 = p2
    p3 = p3
    Peers = {p1, p2, p3}
    Journeys <- MCJourneys
    MaxMishaps = 1
    Nobody = Nobody
    N = 4
    PatchSize = 3
    Worlds <- MCWorlds
    Absent = Absent
INVARIANTS
    NobodyAhead
    NeighborsReachable
    NobodyAccused
PROPERTIES
    ProgressIsSound
    VersionsNeverFall
    NeighborhoodSettles
\* A Node waits for its user, a network in which everybody has joined is
\* silent, and a panic in a handler ends the Node.
CHECK_DEADLOCK FALSE
