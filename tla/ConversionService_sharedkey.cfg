CONSTANTS
    j1 = j1
    j2 = j2
    j3 = j3
    w1 = w1
    w2 = w2
    Jobs = {j1, j2}
    Workers = {w1}
    NULL = NULL
    Owner <- OneUser
    IdempotencyDigest <- SharedDigest
    RequestDigest <- SameRequest
    LeaseSeconds = 1
    RetentionSeconds = 1
    IncompleteSeconds = 1
    ActiveJobsPerUser = 2
    GlobalQueueCapacity = 2
    CleanupLimit = 1
    SkipLocked = FALSE
    ClockLag = 0
    MaxAttempts = 1
    Manifested = {}
    HasBudget = FALSE
    FaultKinds = {"storage"}
    MaxFaults = 1
    Timely = FALSE
SPECIFICATION Spec
INVARIANT SourceAvailable
