\* Two requests share a journal with room for one, on workers that overlap; a
\* worktree more than the limit allows.
SPECIFICATION MachineSpec
CONSTANTS
    r1 = r1  r2 = r2  r3 = r3  w1 = w1  w2 = w2
    e1 = e1  e2 = e2  t1 = t1  t2 = t2  o1 = o1  o2 = o2  p1 = p1  p2 = p2
    Requests = {r1, r2, r3}
    Retryable = {r1}
    Automation = {r3}
    Workers = {w1, w2}
    MaxEntries = 1
    MaxStops = 1
    MaxErrors = 0
    None = None
    Engines = {e1, e2}
    Tasks = {t1, t2}
    Owners = {o1, o2}
    Repos = {p1, p2}
    Asked <- TwoTasks
    Limits = {1}
    MaxEnsures = 3
    MaxWorkFaults = 1
    MaxWorkCrashes = 1
SYMMETRY Anyone
INVARIANTS OkMeansRan NoWorkLost CheckoutExclusive
CHECK_DEADLOCK FALSE
