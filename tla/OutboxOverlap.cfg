\* A batch longer than a lease.
SPECIFICATION Spec
CONSTANTS
    Items = {i1, i2, i3}
    Workers = {w1, w2}
    BatchSize = 3
    Lease = 3
    ProcMax = 1
    MaxAttempts = 2
    Base = 1
    Maximum = 1
    MaxFaults = 0
    MaxPurges = 0
    None = None
    i1 = i1
    i2 = i2
    i3 = i3
    w1 = w1
    w2 = w2
INVARIANT Exclusive
