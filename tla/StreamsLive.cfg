\* Requests that are answered or fail; streams on which whatever can fail fails.
SPECIFICATION StreamsFairSpec
CONSTANTS
    b1 = b1
    b2 = b2
    x1 = x1
    x2 = x2
    Addrs = {b1}
    Exits = {x1, x2}
    None = None
    MaxRetries = 2
    Kinds = {"plain", "tunnel", "refused"}
    ProxyFaults = {"dns", "no_route", "close"}
    MaxConns = 1
    MaxRequests = 2
    MaxReplies = 2
    MaxMail = 3
    n1 = n1
    c1 = c1
    Neighbors = {n1}
    Browsers = {c1}
    Packets = {1, 2}
    To <- MCTo
    Last <- MCLast
    BySocket <- MCBySocket
    Absent = Absent
    Opening = Opening
    PoolFaults = {"refused", "close", "break", "unmaskable", "stranger"}
    MaxStreams = 2
INVARIANTS
    NumbersComplete
    OpeningHasCause
    PacketsInOnePlace

    
\* Browsers stop, and the packets run out.
CHECK_DEADLOCK FALSE
