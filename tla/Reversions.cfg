SPECIFICATION Spec
CONSTANTS
    j1 = j1
    j2 = j2
    w1 = w1
    w2 = w2
    w3 = w3
    NULL = NULL
    Jobs <- OneJob
    UserOf <- OneUser
    KeyOf <- OneKey
    Workers <- TwoWorkers
    Callers <- TwoWorkers
    MaxSequence = 2
    MaxUnits = 2
    MaxRecords = 1
    MaxAbandoned = 1
    HasRecovery = TRUE
    BrokerFaults = {}
    MaxBrokerFaults = 0
    UserQuota = 1
    Capacity = 1
    RunningLimit = 1
    AckBatch = 1
    Overlap = TRUE
    Timely = FALSE
    MaxServiceFaults = 1
    Events = {"retention"}
SYMMETRY Symmetry
CHECK_DEADLOCK FALSE
INVARIANTS AttemptsFenced UnitsAccounted ReverseObjectsKept
PROPERTIES SuccessIsCurrent FreshClaim
