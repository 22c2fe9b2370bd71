------------------------ MODULE MCConversionLiveness ------------------------
(* What the conversion service owes its users in the end, in two instances: *)
(* two timely workers, one job and one fault (the constants of the cfg);    *)
(* two submissions under one key, one of which may die.  A behaviour stays  *)
(* in its instance.                                                         *)
EXTENDS ConversionService, TLC

CONSTANTS j1, j2, w1, w2

VARIABLE instance

OneUser == [j \in Jobs |-> "u1"]
NoDigest == [j \in Jobs |-> NULL]
OneRequest == [j \in Jobs |-> "r"]

Retried == INSTANCE ConversionService WITH
    Jobs <- {j1, j2}, Workers <- {w1}, Owner <- [j \in {j1, j2} |-> "u1"],
    IdempotencyDigest <- [j \in {j1, j2} |-> "d"], RequestDigest <- [j \in {j1, j2} |-> "r"],
    ActiveJobsPerUser <- 2, GlobalQueueCapacity <- 2, Manifested <- {},
    HasBudget <- FALSE, FaultKinds <- {"crash", "ambiguous"}

InFaults == instance = "faults" /\ UNCHANGED instance

InRetried == instance = "retried" /\ UNCHANGED instance

LivenessInit ==
    \/ instance = "faults" /\ Init
    \/ instance = "retried" /\ Retried!Init

LivenessNext ==
    \/ InFaults /\ Next
    \/ InRetried /\ Retried!Next

\* Fairness, as in FairSpec, in either instance.
CallGoesOn(c) == \/ InFaults /\ c \in Jobs /\ ClientContinues(c)
                 \/ InRetried /\ Retried!ClientContinues(c)

LoopGoesOn(w) == \/ InFaults /\ WorkerStep(w)
                 \/ InRetried /\ w = w1 /\ Retried!WorkerStep(w)

TimeGoesOn == \/ InFaults /\ TimePasses
              \/ InRetried /\ Retried!TimePasses

FairLiveness ==
    /\ LivenessInit /\ [][LivenessNext]_<<instance, vars>>
    /\ \A c \in {j1, j2} : WF_<<instance, vars>>(CallGoesOn(c))
    /\ \A w \in {w1, w2} : WF_<<instance, vars>>(LoopGoesOn(w))
    /\ WF_<<instance, vars>>(TimeGoesOn)
=============================================================================
