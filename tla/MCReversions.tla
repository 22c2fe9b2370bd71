---------------------------- MODULE MCReversions ----------------------------
(* The reverse queue in four instances: with two overlapping workers (the   *)
(* constants of the cfg); with one fault anywhere; with a restored backup;  *)
(* with a replayed submission.  A behaviour stays in its instance.          *)
EXTENDS ReversionService, TLC

CONSTANTS j1, j2, w1, w2, w3

VARIABLE instance

OneJob == {j1}
TwoJobs == {j1, j2}
OneWorker == {w3}
TwoWorkers == {w1, w2}
OneUser == [j \in OneJob |-> "user"]
SameUser == [j \in TwoJobs |-> "user"]
OneKey == [j \in OneJob |-> "key"]
SameKey == [j \in TwoJobs |-> "key"]
NoEvents == {}
AllFaults == {"cancel", "crash", "timeout", "storage", "database", "ambiguous"}
RestoreEvents == {"crash", "restore"}
ClientEvents == {"cancel", "crash", "timeout"}
BothBrokerFaults == {"crash", "operation"}

Faults == INSTANCE ReversionService WITH
    Jobs <- OneJob, UserOf <- OneUser, KeyOf <- OneKey,
    Workers <- TwoWorkers, Callers <- TwoWorkers,
    MaxRecords <- 2, MaxAbandoned <- 1, HasRecovery <- TRUE,
    BrokerFaults <- BothBrokerFaults, MaxBrokerFaults <- 1,
    UserQuota <- 1, Capacity <- 1, RunningLimit <- 1, AckBatch <- 1,
    Overlap <- FALSE, Timely <- TRUE, MaxServiceFaults <- 1,
    Events <- AllFaults

Restored == INSTANCE ReversionService WITH
    Jobs <- OneJob, UserOf <- OneUser, KeyOf <- OneKey,
    Workers <- TwoWorkers, Callers <- TwoWorkers,
    MaxRecords <- 2, MaxAbandoned <- 1, HasRecovery <- TRUE,
    BrokerFaults <- NoEvents, MaxBrokerFaults <- 0,
    UserQuota <- 1, Capacity <- 1, RunningLimit <- 1, AckBatch <- 1,
    Overlap <- FALSE, Timely <- TRUE, MaxServiceFaults <- 1,
    Events <- RestoreEvents

Replayed == INSTANCE ReversionService WITH
    Jobs <- TwoJobs, UserOf <- SameUser,
    KeyOf <- SameKey,
    Workers <- OneWorker, Callers <- OneWorker,
    MaxRecords <- 1, MaxAbandoned <- 1, HasRecovery <- FALSE,
    BrokerFaults <- NoEvents, MaxBrokerFaults <- 0,
    UserQuota <- 1, Capacity <- 1, RunningLimit <- 1, AckBatch <- 1,
    Overlap <- FALSE, Timely <- TRUE, MaxServiceFaults <- 1,
    Events <- ClientEvents

\* Bound of the instances that are about one attempt.
OneAttempt == principal'.highWater <= 1

\* Bound of the instance in which something fails, the broker or the rest.
OneFault == faults' + brokerFaults' <= 1

----------------------------------------------------------------------------
Init ==
    \/ instance = "faults" /\ Faults!ServiceInit
    \/ instance = "overlapping" /\ ServiceInit
    \/ instance = "restored" /\ Restored!ServiceInit
    \/ instance = "replayed" /\ Replayed!ServiceInit

Next ==
    /\ UNCHANGED instance
    /\ \/ instance = "faults" /\ Faults!ServiceNext /\ OneFault
       \/ instance = "overlapping" /\ ServiceNext /\ OneAttempt
       \/ instance = "restored" /\ Restored!ServiceNext
       \/ instance = "replayed" /\ Replayed!ServiceNext /\ OneAttempt

Spec == Init /\ [][Next]_<<instance, vars>>

Symmetry == Permutations({w1, w2})
=============================================================================
