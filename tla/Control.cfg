SPECIFICATION ControlFairSpec
CONSTANTS
    u1 = u1
    u2 = u2
    s1 = s1
    s2 = s2
    blank = blank
    Uis = {u1, u2}
    Setups = {s1, s2}
    EmptySetup = blank
    Weathers <- DaemonWeathers
    MaxProcesses = 2
    MaxRequests = 3
    Moods <- CliMoods
    MaxCommands = 3
    a1 = a1
    a2 = a2
    Addresses = {a1, a2}
    Climates <- SupClimates
    MaxClients = 2
    MaxTexts = 1
    p1 = p1
    p2 = p2
    none = none
    Passwords = {p1, p2}
    NoPassword = none
    Climes <- ConfigClimes
    MaxAsked = 3
    MaxSaves = 1
    MaxHead = 1
    Files <- MCFiles
    Gwei = 10
    MaxStarts = 3
    MaxLooks = 2
    Seasons <- MCSeasons
INVARIANTS
    OneNodeWithItsSetup
    CommandsFindTheirServer
    MapsAgree
    ConfigurationAgrees
PROPERTIES
    FileSurvives
    WhoWaitsIsServed
\* Users may stop asking, and the Node may stop for good.
CHECK_DEADLOCK FALSE
