----------------------------- MODULE MCRuntimes -----------------------------
(* What the isolation broker stands on: its two runtimes, each against the  *)
(* one contract that the broker relies on, the mutual-TLS transport, with a *)
(* second request for one of its clients, and the file of the inventory. A  *)
(* behaviour stays in its instance.                                         *)
EXTENDS MtlsTransport, InventoryStorage, PodmanRuntime, KubernetesRuntime

VARIABLE instance

vars == <<instance, podmanVars, kubernetesVars, transportVars, storageVars>>

\* An instance that a behaviour is not in stays at its initial state.
NoPodman == PodmanInit

NoKubernetes == KubernetesInit

NoTransport == TransportInit

NoStorage == StorageInit /\ inventory = NoFile

RuntimesInit ==
    \/ /\ instance = "podman" /\ PodmanInit
       /\ NoKubernetes /\ NoTransport /\ NoStorage
    \/ /\ instance = "kubernetes" /\ KubernetesInit
       /\ NoPodman /\ NoTransport /\ NoStorage
    \/ /\ instance = "transport" /\ TransportInit
       /\ NoPodman /\ NoKubernetes /\ NoStorage
    \/ /\ instance = "storage" /\ StorageInit
       /\ NoPodman /\ NoKubernetes /\ NoTransport

InPodman ==
    instance = "podman" /\ UNCHANGED <<instance, kubernetesVars, transportVars, storageVars>>

InKubernetes ==
    instance = "kubernetes" /\ UNCHANGED <<instance, podmanVars, transportVars, storageVars>>

\* One deadline passes in a behaviour (MaxLapsed).
MaxLapsed == 1

InTransport ==
    instance = "transport" /\ UNCHANGED <<instance, podmanVars, kubernetesVars, storageVars>>

InStorage ==
    instance = "storage" /\ UNCHANGED <<instance, podmanVars, kubernetesVars, transportVars>>

RuntimesNext ==
    \/ InPodman /\ PodmanNext
    \/ InKubernetes /\ KubernetesNext
    \/ InTransport /\ TransportNext /\ Cardinality(lapsed') <= MaxLapsed
    \/ InStorage /\ StorageNext

----------------------------------------------------------------------------
(* Fairness. The broker goes on with what it has begun, and its caller asks *)
(* again for a termination that failed; a container or a Pod ends within    *)
(* the limit that it was created with; a process of which the watchdog has  *)
(* taken hold exits. Each formula states what is fair in each instance.     *)

CreateGoesOn == \/ InPodman /\ CreateStep
                \/ InKubernetes /\ KubernetesCreate

TerminateGoesOn == \/ InPodman /\ TerminateStep
                   \/ InKubernetes /\ KubernetesTerminate

RecoveryGoesOn == \/ InPodman /\ ReconcileStep
                  \/ InKubernetes /\ RebindPod

WorkspaceGoesOn == \/ InPodman /\ WorkspaceStep
                   \/ InKubernetes /\ StageOrCollect

UnitEnds == \/ InPodman /\ ContainerExits
            \/ InKubernetes /\ KubeletStep

HelperEnds == \/ InPodman /\ MonitorExits
              \/ InKubernetes /\ MarkAcknowledged

ProcessEnds == InTransport /\ HardExit

AskedAgain == \/ InPodman /\ BeginTerminate
              \/ InKubernetes /\ RequestTermination

Spec == /\ RuntimesInit /\ [][RuntimesNext]_vars
        /\ WF_vars(CreateGoesOn) /\ WF_vars(TerminateGoesOn) /\ WF_vars(RecoveryGoesOn)
        /\ WF_vars(WorkspaceGoesOn) /\ WF_vars(UnitEnds) /\ WF_vars(HelperEnds)
        /\ WF_vars(ProcessEnds) /\ SF_vars(AskedAgain)

----------------------------------------------------------------------------
\* A unit that was recorded as created is removed in the end, whatever fails:
\* terminations are asked for again and recovery picks up what a crash left.
\* The one exception is a Pod of which the attester has forgotten the evidence
\* that it recorded, which stays until somebody starts the attester again.
CreatedIsRemoved ==
    /\ stage = "created" ~> stage = "removed"
    /\ unit \in {"intent", "created"} /\ ledger # "none" ~> unit = "gone" \/ []Refusing

\* A created unit is removed in the end, and so is a stopping broker's authority.
NothingStays == CreatedIsRemoved /\ AuthorityGivenUp

=============================================================================
