\* A workspace moves between two replicas; another one shares a replica with it.
SPECIFICATION OtherWorkspaceSpec
CONSTANTS
    g1 = g1  g2 = g2  k1 = k1  k2 = k2  c1 = c1  c2 = c2  c3 = c3  r1 = r1
    Gateways = {g1, g2}
    Keys = {k1, k2}
    Conns = {c1, c2, c3}
    Calls = {r1}
    None = None
    KeyOf <- ThreeKeys
    HomeOf <- ThreeHomes
    CallKey <- CallsK1
    SourceOf <- FromG2
    Retryable = {r1}
    MaxFaults = 1
INVARIANT ResultFromOwnWorkspace
PROPERTIES CallReturns HandlerEnds
CHECK_DEADLOCK FALSE
