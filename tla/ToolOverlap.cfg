\* A request queued on a worker that stops is delivered again to the next worker.
SPECIFICATION Spec
CONSTANTS
    Requests = {r1}
    Retryable = {r1}
    Automation = {}
    Workers = {w1, w2}
    MaxEntries = 1
    MaxStops = 1
    MaxErrors = 0
    None = None
    r1 = r1
    r2 = r2
    r3 = r3
    w1 = w1
    w2 = w2
INVARIANT AtMostOnce
CHECK_DEADLOCK FALSE
