CONSTANTS
    j1 = j1
    j2 = j2
    j3 = j3
    w1 = w1
    w2 = w2
    Jobs = {j1, j2, j3}
    Workers = {w1}
    NULL = NULL
    Owner <- OneUser
    IdempotencyDigest <- SharedByTwo
    LeaseSeconds = 1
    RetentionSeconds = 1
    IncompleteSeconds = 1
    ActiveJobsPerUser = 1
    GlobalQueueCapacity = 2
    CleanupLimit = 1
    SkipLocked = FALSE
    ClockLag = 1
    MaxAttempts = 2
SPECIFICATION RepositorySpec
INVARIANTS RowWellFormed ActiveWithinCapacity IdempotentOnce
PROPERTY ImplementsLifecycle
