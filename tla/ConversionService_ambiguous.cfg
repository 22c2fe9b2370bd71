CONSTANTS
    j1 = j1
    j2 = j2
    j3 = j3
    w1 = w1
    w2 = w2
    Jobs = {j1}
    Workers = {w1}
    NULL = NULL
    Owner <- OneUser
    IdempotencyDigest <- NoDigest
    RequestDigest <- SameRequest
    LeaseSeconds = 1
    RetentionSeconds = 1
    IncompleteSeconds = 1
    ActiveJobsPerUser = 1
    GlobalQueueCapacity = 1
    CleanupLimit = 1
    SkipLocked = FALSE
    ClockLag = 0
    MaxAttempts = 2
    Manifested = {j1}
    HasBudget = TRUE
    FaultKinds = {"ambiguous"}
    MaxFaults = 1
    Timely = FALSE
SPECIFICATION Spec
INVARIANT ResultAvailable
