--------------------------- MODULE MCConversions ---------------------------
(* The conversion service in three instances: two workers that share a job *)
(* and one fault (the constants of the cfg); the same without faults but a *)
(* stop, in which whatever is cleaned is gone; three submissions under one *)
(* idempotency key.  And the backup and the restore of what a service      *)
(* keeps, standalone and distributed.  A behaviour stays in its instance.  *)
EXTENDS ConversionService, Recovery, TLC

CONSTANTS j1, j2, j3, w1, w2, w3, r1, r2

VARIABLE instance

OneUser == [j \in {j1, j2, j3} |-> "u1"]
OneKey == [j \in {j1, j2, j3} |-> "d"]
TwoRequests == [j \in {j1, j2, j3} |-> IF j = j3 THEN "s" ELSE "r"]
BothObjects == 1 .. 2

Cleanup == INSTANCE ConversionService WITH FaultKinds <- {"stop"}

Keyed == INSTANCE ConversionService WITH
    Jobs <- {j1, j2, j3}, Workers <- {w3}, ActiveJobsPerUser <- 2, GlobalQueueCapacity <- 2,
    MaxAttempts <- 1, HasBudget <- FALSE, FaultKinds <- {"crash", "database"}

Cluster == INSTANCE Recovery WITH Distributed <- TRUE, MaxSets <- 2, MaxMishaps <- 0

Damaged == INSTANCE Recovery WITH Distributed <- TRUE

all == <<instance, vars, recoveryVars>>

\* Nothing to back up, and nobody restores.
NoRecovery ==
    RecoveryInit /\ source = [o \in Objects |-> "new"] /\ target = Empty

\* The service stands still beside a backup or a restore.
ConversionsInit ==
    \/ instance \in {"attempts", "cleanup"} /\ Init /\ NoRecovery
    \/ instance = "keys" /\ Keyed!Init /\ NoRecovery
    \/ instance = "standalone" /\ RecoveryInit /\ Init
    \/ instance = "cluster" /\ Cluster!RecoveryInit /\ Init
    \/ instance = "damaged" /\ Damaged!RecoveryInit /\ Init

ConversionsNext ==
    /\ UNCHANGED instance
    /\ \/ instance = "attempts" /\ Next /\ UNCHANGED recoveryVars
       \/ instance = "cleanup" /\ Cleanup!Next /\ UNCHANGED recoveryVars
       \/ instance = "keys" /\ Keyed!Next /\ UNCHANGED recoveryVars
       \/ instance = "standalone" /\ RecoveryNext /\ UNCHANGED vars
       \/ instance = "cluster" /\ Cluster!RecoveryNext /\ UNCHANGED vars
       \/ instance = "damaged" /\ Damaged!RecoveryNext /\ UNCHANGED vars

ConversionsSpec == ConversionsInit /\ [][ConversionsNext]_all

SameWorkers == Permutations({w1, w2}) \cup Permutations({r1, r2})

\* The rows, objects, workers and commands have their types. (The types of jobs and
\* workers are those of the cfg.)
ConversionsTypeOK == RecoveryTypeOK /\ (instance # "keys" => ServiceTypeOK)

\* As long as no process dies and no object store call fails, only a stale worker may
\* still hold a result of a job that was cleaned, and it deletes it. Everything has its
\* type.
CleanedJobsGone == ConversionsTypeOK /\ (instance = "cleanup" => CleanedResultsGone)

============================================================================
