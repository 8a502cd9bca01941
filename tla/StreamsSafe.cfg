\* An address that is used again over a lossy network; streams that both ends open.
SPECIFICATION StreamsSpec
CONSTANTS
    b1 = b1
    b2 = b2
    x1 = x1
    x2 = x2
    Addrs = {b1}
    Exits = {x1}
    None = None
    MaxRetries = 1
    Kinds = {"plain"}
    ProxyFaults = {"dns", "bad_request", "loss", "close"}
    MaxConns = 2
    MaxRequests = 2
    MaxReplies = 1
    MaxMail = 3
    n1 = n1
    c1 = c1
    Neighbors = {n1}
    Browsers = {c1}
    Packets = {1, 2, 3, 4, 5}
    To <- MCTo
    Last <- MCLast
    BySocket <- MCBySocket
    Absent = Absent
    Opening = Opening
    PoolFaults = {}
    MaxStreams = 3
INVARIANTS
    
    NothingLost
\* Browsers stop, and the packets run out.
CHECK_DEADLOCK FALSE
