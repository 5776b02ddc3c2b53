SPECIFICATION AgentsSpec
CONSTANTS
    m1 = m1  m2 = m2  m3 = m3  o1 = o1  o2 = o2  o3 = o3
    l1 = l1  l2 = l2  c1 = c1  c2 = c2
    Plan <- TeamOfThree
    DependsOn <- FirstThenBoth
    TokenBudget <- TwoEach
    Parallel = 2
    Budgets = {0, 6, 7}
    Actuals = {2}
    MaxFaults = 1
    MaxCrashes = 1
    MaxExecutions = 2
    Occurrences = {o1, o2, o3}
    SignatureOf <- TwoFlakyOnePolicy
    Action <- RepairOrAsk
    MaxAttempts <- OneRetry
    MaxRevision = 8
    MaxKernelFaults = 1
    MaxKernelCrashes = 1
    NumMessages = 2
    Lifetime <- FirstExpires
    MaxTime = 2
    MaxMailFaults = 1
    MaxMailCrashes = 1
    Leases = {l1, l2}
    Clients = {c1, c2}
    Ttl = {1}
    MaxIssues = 2
    MaxLeaseTime = 1
    Order <- ThreeFiles
    Present = {"a", "b"}
    MaxUserEdits = 2
    MaxWriteFaults = 1
    ProcRequests = {"q1"}
    MaxProcesses = 1
    MaxProcs = 2
    MaxStopAlls = 1
INVARIANTS
    AgentsTypeOK
    CompleteIsDurable SessionOnce DependenciesFirst
    RetryBudget CompletedStays
    PresentedOnce AcknowledgedStays
    AllOrNothing UserKept
    ForgottenAreTold RequestCancels
PROPERTY OneShotTokens
CHECK_DEADLOCK FALSE
