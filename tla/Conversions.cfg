SPECIFICATION ConversionsSpec
CONSTANTS
    j1 = j1
    j2 = j2
    j3 = j3
    w1 = w1
    w2 = w2
    w3 = w3
    r1 = r1
    r2 = r2
    NULL = NULL
    Jobs = {j1}
    Workers = {w1, w2}
    Owner <- OneUser
    IdempotencyDigest <- OneKey
    RequestDigest <- TwoRequests
    LeaseSeconds = 1
    RetentionSeconds = 1
    IncompleteSeconds = 1
    ActiveJobsPerUser = 1
    GlobalQueueCapacity = 1
    CleanupLimit = 1
    SkipLocked = FALSE
    ClockLag = 0
    MaxAttempts = 2
    Manifested = {j1}
    HasBudget = TRUE
    FaultKinds = {"crash", "stop", "storage", "database"}
    MaxFaults = 1
    Timely = FALSE
    Distributed = FALSE
    Objects <- BothObjects
    Restorers = {r1, r2}
    MaxSets = 1
    MaxMishaps = 1
SYMMETRY SameWorkers
INVARIANTS AnswersHonoured CleanedJobsGone PublishedRestorable
PROPERTIES RestoreIsExact
