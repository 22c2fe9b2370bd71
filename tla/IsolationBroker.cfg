SPECIFICATION Spec
CONSTANTS
    c1 = c1
    NULL = NULL
    Callers = {c1}
    MaxSequence = 2
    MaxUnits = 2
    MaxRecords = 1
    MaxAbandoned = 1
    HasRecovery = TRUE
    MaxBrokerFaults = 2
    BrokerFaults = {"crash", "operation", "exit"}
INVARIANTS UnitsTraced ReadyIsSettled
PROPERTIES ReadyAfterSweep ForgottenIsProven KubernetesRestartsReady
