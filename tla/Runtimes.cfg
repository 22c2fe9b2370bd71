SPECIFICATION Spec
CONSTANTS
    Exchanges = {e1, e2}
    Strays = {e1}
    MaxHandshakes = 1
    MaxPending = 1
    MaxHandlers = 2
    Nobody = Nobody
    Openers = {e1, e2}
    Units = {"u1", "u2"}
    MaxGeneration = 3
    MaxDamage = 1
    MaxFaults = 6
    MaxCallFaults = 4
INVARIANTS ExchangesSound InventorySound
PROPERTIES PodmanHonest KubernetesHonest NothingStays
\* The unit is gone, or the broker has stopped.
CHECK_DEADLOCK FALSE
