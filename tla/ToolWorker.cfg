\* One request delivered twice, on workers that may stop under it.
SPECIFICATION FairSpec
CONSTANTS
    Requests = {r1}
    Retryable = {r1}
    Automation = {}
    Workers = {w1, w2}
    MaxEntries = 1
    MaxStops = 1
    MaxErrors = 2
    None = None
    r1 = r1
    r2 = r2
    r3 = r3
    w1 = w1
    w2 = w2
INVARIANTS SameWorkerOnce OnceWithoutStop
PROPERTY DeliveryEnds
CHECK_DEADLOCK FALSE
