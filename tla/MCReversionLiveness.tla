------------------------- MODULE MCReversionLiveness ------------------------
(* What the reverse queue owes its users in the end, in two instances of    *)
(* one job and two workers: one fault of a worker and one of the broker     *)
(* (the constants of the cfg); a cancellation at any moment, and a fault of *)
(* the store or the database.  A behaviour stays in its instance.           *)
EXTENDS ReversionService, TLC

CONSTANTS j1, w1, w2

VARIABLE instance

OneUser == [j \in Jobs |-> "user"]
OneKey == [j \in Jobs |-> "key"]

Cancelled == INSTANCE ReversionService WITH
    BrokerFaults <- {}, MaxBrokerFaults <- 0, Events <- {"cancel", "storage", "database"}

InFaults == instance = "faults" /\ UNCHANGED instance

InCancelled == instance = "cancelled" /\ UNCHANGED instance

LivenessInit == instance \in {"faults", "cancelled"} /\ ServiceInit

LivenessNext ==
    \/ InFaults /\ ServiceNext
    \/ InCancelled /\ Cancelled!ServiceNext

\* Fairness, as in FairServiceSpec, in either instance.
CallGoesOn(j) == \/ InFaults /\ ClientStep(j)
                 \/ InCancelled /\ Cancelled!ClientStep(j)

LoopGoesOn(w) == \/ InFaults /\ WorkerStep(w)
                 \/ InCancelled /\ Cancelled!WorkerStep(w)

BrokerGoesOn == (InFaults \/ InCancelled) /\ BrokerRuns

CollectionEnds(w) == (InFaults \/ InCancelled) /\ CollectInterrupted(w)

LeaseEnds(j) == (InFaults \/ InCancelled) /\ LeaseRunsOut(j)

ReconciliationEnds == (InFaults \/ InCancelled) /\ ReconciliationRunsOut

RecoveryEnds(s) == (InFaults \/ InCancelled) /\ RecoveryRunsOut(s)

FairLiveness ==
    /\ LivenessInit /\ [][LivenessNext]_<<instance, vars>>
    /\ \A w \in Workers : /\ WF_<<instance, vars>>(LoopGoesOn(w))
                          /\ SF_<<instance, vars>>(CollectionEnds(w))
    /\ \A j \in Jobs : /\ WF_<<instance, vars>>(CallGoesOn(j))
                       /\ WF_<<instance, vars>>(LeaseEnds(j))
    /\ WF_<<instance, vars>>(BrokerGoesOn)
    /\ WF_<<instance, vars>>(ReconciliationEnds)
    /\ \A s \in CreateSequences : SF_<<instance, vars>>(RecoveryEnds(s))
=============================================================================
