\* A workspace moves between two replicas under a call.
SPECIFICATION Spec
CONSTANTS
    g1 = g1  g2 = g2  k1 = k1  k2 = k2  c1 = c1  c2 = c2  c3 = c3  r1 = r1
    Gateways = {g1, g2}
    Keys = {k1}
    Conns = {c1, c2}
    Calls = {r1}
    None = None
    KeyOf <- OneKey
    HomeOf <- TwoHomes
    CallKey <- CallsK1
    SourceOf <- FromG2
    Retryable = {r1}
    MaxFaults = 2
INVARIANTS SingleHandler NoOrphans
PROPERTY OnePlaceAtATime
CHECK_DEADLOCK FALSE
