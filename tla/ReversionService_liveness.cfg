SPECIFICATION FairLiveness
CONSTANTS
    j1 = j1
    w1 = w1
    w2 = w2
    NULL = NULL
    Jobs = {j1}
    Workers = {w1, w2}
    Callers = {w1, w2}
    MaxSequence = 1
    MaxUnits = 1
    MaxRecords = 1
    MaxAbandoned = 1
    HasRecovery = TRUE
    BrokerFaults = {"crash", "operation"}
    MaxBrokerFaults = 1
    UserQuota = 1
    Capacity = 1
    RunningLimit = 1
    AckBatch = 1
    Overlap = FALSE
    Timely = TRUE
    Events = {"crash", "timeout"}
    MaxServiceFaults = 1
    UserOf <- OneUser
    KeyOf <- OneKey
CHECK_DEADLOCK FALSE
PROPERTIES ReverseJobEnds
