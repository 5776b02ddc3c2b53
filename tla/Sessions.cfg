\* A tick is 30 s, the grace period and the life of a cached state; refresh
\* tokens last two.
SPECIFICATION SessionsSpec
CONSTANTS
    u1 = u1  u2 = u2
    Requesters = {u1, u2}
    Grace = 1
    RefreshTTL = 2
    CacheTTL = 1
    RequestTime = 1
    MaxTokens = 4
    MaxFamilyTime = 4
    Callers = {u1, u2}
    Servers = {"own", "penpot"}
    ManagedServers = {"penpot"}
    MaxSessions = 2
    MaxChanges = 1
    MaxCopies = 1
    Hubs = {u1, u2}
    MaxChildren = 2
    MaxDeaths = 1
SYMMETRY EitherUser
INVARIANTS
    ReplayEnds OneSuccessor PasswordEnds
    NoSessionLost StaleOnlyByRace ServerKept
CHECK_DEADLOCK FALSE
