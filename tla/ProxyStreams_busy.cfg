\* The network is faster than the Node's own mailbox.
SPECIFICATION ProxySpec
CONSTANTS
    b1 = b1
    b2 = b2
    x1 = x1
    x2 = x2
    Addrs = {b1}
    Exits = {x1}
    None = None
    MaxRetries = 0
    Kinds = {"plain"}
    ProxyFaults = {"busy"}
    MaxConns = 1
    MaxRequests = 2
    MaxReplies = 1
    MaxMail = 3
INVARIANTS
    RouteResultsExpected
\* Browsers stop.
CHECK_DEADLOCK FALSE
