SPECIFICATION ServicesSpec
CONSTANTS
    u1 = u1
    u2 = u2
    Users = {u1}
    Clients = {c1, c2}
    MaxGrants = 2
    MaxPairs = 3
    CodeTtl = 1
    AccessTtl = 2
    RefreshTtl = 3
    Owners = {u1}
    Projects = {p1}
    WRuns = {r1}
    Subjects = {s1}
    Askers = {k1, k2}
    HourLimit = 3
    Hour = 2
    MaxOrdinal = 4
    Accounts = {u1}
    Tabs = {k1, k2}
    IRuns = {r1}
    RunOwner <- MCRunOwner
    Anonymous = anon
    NoRun = none
    MaxMessages = 4
    MaxUnusable = 1
    Procs = {w1, w2}
    Rpm = 3
    Minute = 3
    MaxUnlisted = 1
    People = {u1, u2}
    Admins = {u1}
    Browsers = {b1, b2}
    MaxLogins = 2
    StateTtl = 1
    SessionTtl = 2
    MaxBatch = 3
INVARIANTS
    ServicesTypeOK
    OneRefreshChain
    ThreadsConsistent
    AllowanceKept
    SnapshotConsistent
    FleetAtMostTwice
    LoginsStayApart
    EffectsReported
PROPERTIES
    RevocationFinal
    ClaimAndLinkKept
CHECK_DEADLOCK FALSE
