\* A full batch lasts as long as its lease, so that late items are lost to the
\* other replica; crashes and failed updates.
SPECIFICATION FairSpec
CONSTANTS
    Items = {i1, i2}
    Workers = {w1, w2}
    BatchSize = 2
    Lease = 2
    ProcMax = 1
    MaxAttempts = 4
    Base = 1
    Maximum = 2
    MaxFaults = 1
    MaxPurges = 1
    None = None
    i1 = i1
    i2 = i2
    i3 = i3
    w1 = w1
    w2 = w2
INVARIANT LeaseExclusive
PROPERTIES RetryDelay LapsingClaims Settles
