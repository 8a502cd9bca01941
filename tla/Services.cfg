SPECIFICATION ServicesFairSpec
CONSTANTS
    Size = 5
    Areas <- MCAreas
    NoKey = NoKey
    Unset = Unset
    HopperSize = 4
    HopperWorlds <- SomeHopperWorlds
    MaxRequests = 2
    MaxTroubles = 1
    w1 = w1
    w2 = w2
    Wallets = {w1}
    MaxBlocks = 4
    MaxDebt = 2
    MaxAge = 3
    Scans = {1, 2}
    Grace = 1
    DebtThreshold = 2
    Permanent = 1
    Interval = 1
    UnbanBelow = 1
    Word = 2
    ServiceLimit = 1
    Faults = {"crash", "error"}
    Uninitialized = Uninitialized
    Idle = Idle
    Half = 8
    Gwei = 3
    Tables = {"payable", "receivable"}
    Terms <- SmallTerms
    Amounts = {1, 5, 8, 13}
    Limits <- MCLimits
    Ages = {0, 3, 8}
    MaxOwed = 36
    OldestAge = 8
INVARIANTS
    LeastUndesirable
    
    KeepsToItsWay
    BooksAgree
    ReceivablesAgree
    ColumnsAreExact
    DueBeforeBanned
PROPERTIES
    BansAreKept
\* Clients may stop asking, and a panic ends the Node.
CHECK_DEADLOCK FALSE
