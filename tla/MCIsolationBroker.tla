------------------------- MODULE MCIsolationBroker -------------------------
(* The broker in its two deployments: Kubernetes, where a recovery binding  *)
(* tells the sweep what it may create again (the constants of the cfg), and *)
(* Podman, whose units carry the labels that recovery reads (the instance). *)
(* What the properties say does not depend on the deployment.               *)
EXTENDS IsolationBroker

CONSTANT c1

VARIABLE deployment

Podman == INSTANCE IsolationBroker WITH
    MaxRecords <- 2, MaxAbandoned <- 0, HasRecovery <- FALSE

vars == <<deployment, brokerVars>>

Init ==
    /\ deployment \in {"podman", "kubernetes"}
    /\ BrokerInit

Step ==
    /\ UNCHANGED deployment
    /\ \/ deployment = "podman" /\ Podman!BrokerStep
       \/ deployment = "kubernetes" /\ BrokerStep

Environment ==
    /\ UNCHANGED deployment
    /\ \/ deployment = "podman" /\ (Podman!BrokerFaultStep \/ Podman!CallerStep)
       \/ deployment = "kubernetes" /\ (BrokerFaultStep \/ CallerStep)

\* Fairness as in FairBrokerSpec.
Spec == Init /\ [][Step \/ Environment]_vars /\ WF_vars(Step)

\* A broker that is down becomes ready again, whatever its crash left, over
\* Kubernetes. With Podman labels alone, an intent without its unit keeps the broker down
\* until an operator has looked at it.
KubernetesRestartsReady == deployment = "kubernetes" /\ gate.pc = "down" ~> ready
=============================================================================
