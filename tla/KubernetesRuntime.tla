------------------------- MODULE KubernetesRuntime -------------------------
(***************************************************************************)
(* The Kubernetes backend of the isolation broker, for one unit: the       *)
(* runtime (broker/kubernetes_runtime.py), the API server as its control   *)
(* plane (kubernetes_api.py), the node attester with its durable ledger    *)
(* (kubernetes_attester.py, _service.py, _inventory.py) and the broker     *)
(* steps that drive them (service.py).                                     *)
(*                                                                         *)
(* The Pod object of the API server and the Pod's sandbox on the node are  *)
(* different things: the object goes as soon as it is deleted, and the     *)
(* kubelet takes the sandbox and its control group away later. The         *)
(* attester handles one request at a time. A call to either may be lost    *)
(* before it is handled or after (MaxCallFaults); a lost call that is      *)
(* still handled is handled before the broker's next one. Nobody but the   *)
(* broker deletes its Pods.                                                *)
(***************************************************************************)
EXTENDS Naturals, Sequences, FiniteSets

CONSTANT MaxCallFaults   \* bound: calls lost, commits in doubt, restarts

ASSUME KubernetesAssumption == MaxCallFaults \in Nat

VARIABLES object,    \* the Pod exists for the API server
          sandbox,   \* the Pod's sandbox on its node
          variance,  \* what of the Pod is not as its contract says, or "none"
          ledger,    \* the attester's durable record of the Pod
          memory,    \* what the attester's process remembers of it: that it is
                     \* bound, and which evidence
          unit,      \* the unit's state in the broker's inventory
          call,      \* the broker's next call
          admits,    \* the broker is ready
          lost       \* faults so far

nodeVars == <<object, sandbox, variance, ledger, memory>>
brokerVars == <<unit, call, admits>>
kubernetesVars == <<object, sandbox, variance, ledger, memory, unit, call, admits, lost>>

\* AttesterLifecycleState with no record first; the broker's states that the
\* attester's `recover` compares them with.
LedgerStates == <<"none", "bound", "exit", "empty", "removed">>
UnitStates == {"none", "intent", "created", "exit", "empty", "removed", "acknowledged"}

Rank(s) == CASE s \in {"bound", "created"} -> 1
             [] s = "exit"  -> 2
             [] s = "empty" -> 3
             [] s \in {"removed", "acknowledged"} -> 4
             [] OTHER -> 0

\* build_pod_manifest: what a Pod is created with.
build_pod_manifest == {"manifest", "node", "fence", "resources", "network", "workspace"}

KubernetesInit == /\ object = FALSE /\ sandbox = "none" /\ variance = "none"
                  /\ ledger = "none" /\ memory = {}
                  /\ unit = "none" /\ call = "idle" /\ admits = FALSE /\ lost = 0

-----------------------------------------------------------------------------
(* Calls *)

\* _fail: the broker stops admitting, and a reconciliation must come first.
GiveUp == /\ call' = "idle"
          /\ admits' = FALSE
          /\ UNCHANGED unit

Go(next) == call' = next /\ UNCHANGED <<unit, admits>>

\* _external_call: handled and answered, or lost on either way.
External(handled, answer) ==
  \/ handled /\ answer /\ UNCHANGED lost
  \/ /\ lost < MaxCallFaults
     /\ lost' = lost + 1
     /\ handled \/ UNCHANGED nodeVars
     /\ GiveUp

\* A call that is refused, or that only reads.
Asked(answer) == External(UNCHANGED nodeVars, answer)

-----------------------------------------------------------------------------
(* The node attester *)

\* project_observed_pod: the API server's Pod, its defaults taken away
\* (_project_like), is the contract's.
_project_like == variance # "manifest"
project_observed_pod == object /\ _project_like

\* node_fence: the node is ready and the dedicated one, its kubelet and network
\* as pinned.
_node_ready == variance # "node"
node_fence == _node_ready /\ variance # "fence"

\* _cgroup_facts: the limits, from the control group or from the CRI.
_cgroup_facts == variance # "resources"

\* _network and _workspace: facts of the running Pod. Of one that does not run
\* the inspector returns no network, and the workspace as the Pod declares it.
_network_interfaces == variance # "network"
_network == sandbox = "running" /\ _network_interfaces
_workspace_size == variance # "workspace"
_workspace == sandbox = "running" => _workspace_size

\* Mutant: a Pod that runs is taken for the one that was asked for.
AttestedRunning == sandbox = "running" /\ object

\* NodeAttestationEngine.bind: the observed Pod is the contract's, on the
\* fenced node, and runs. adopt_create_intent allows exited containers, but
\* bind insists on the network, of which there is none then: an exited Pod
\* that was never bound is refused there as well.
Attested == /\ project_observed_pod /\ node_fence /\ _cgroup_facts
            /\ _network /\ _workspace

\* _select_sandbox: the one sandbox of the Pod's UID, found over the CRI; sandbox
\* reads the Pod and its sandbox's containers.
_select_sandbox == sandbox # "none"
Observable == object /\ _select_sandbox

HasExited == sandbox \in {"exited", "stopped"}

\* engine.recover: a bound Pod runs or has exited, one with evidence of its exit
\* is still visible, an empty one needs only its node, and of a removed one
\* nothing is asked.
Recoverable == CASE ledger = "bound" -> \/ Attested
                                        \/ /\ project_observed_pod /\ node_fence
                                           /\ _cgroup_facts /\ _workspace
                                           /\ Observable /\ HasExited
                 [] ledger = "exit"  -> /\ project_observed_pod /\ node_fence
                                        /\ Observable /\ HasExited
                 [] ledger = "empty" -> node_fence
                 [] OTHER            -> TRUE

\* SQLiteNodeAttesterLedger.reserve and NodeAttesterService._bind: the memory
\* of a binding whose reservation failed is dropped unless it was committed.
CanBind == \/ ledger = "none" /\ Attested
           \/ ledger = "bound" /\ Recoverable

_bind == /\ ledger' = "bound"
         /\ memory' = memory \cup {"bound"}
         /\ UNCHANGED <<object, sandbox, variance>>

\* SQLiteNodeAttesterLedger.transition: only to the next state. A commit whose
\* outcome raised is durable, and the memory does not know of it.
transition(target) ==
  /\ Rank(target) = Rank(ledger) + 1
  /\ ledger' = target
  /\ UNCHANGED <<object, sandbox, variance>>

InDoubt(target) == /\ lost < MaxCallFaults
                   /\ lost' = lost + 1
                   /\ transition(target)
                   /\ UNCHANGED memory
                   /\ GiveUp

\* engine.confirm_exit, confirm_empty and confirm_removed.
Evident(target) == CASE target = "exit"    -> sandbox \in {"exited", "stopped"}
                     [] target = "empty"   -> sandbox = "stopped"
                     [] target = "removed" -> ~_select_sandbox

\* NodeAttesterService._proof: evidence that is recorded already is repeated.
\* That of a removal is looked up in the memory and not in the ledger.
Repeated(target) == IF target = "removed" THEN "removed" \in memory
                    ELSE Rank(ledger) >= Rank(target)

\* _bound, and _exit_evidence or _empty_evidence: what must be remembered for
\* the next proof, whatever the ledger says.
Needed(target) == CASE target = "exit"    -> {"bound"}
                    [] target = "empty"   -> {"bound", "exit"}
                    [] target = "removed" -> {"bound", "empty"}

CanProve(target) == Repeated(target)
                    \/ /\ Needed(target) \subseteq memory /\ Evident(target)
                       /\ Rank(target) = Rank(ledger) + 1

\* The evidence is remembered only after the transition has returned.
_proof(target) ==
  IF Repeated(target) THEN UNCHANGED nodeVars
  ELSE /\ transition(target)
       /\ memory' = IF target = "removed" THEN {"bound", "removed"}
                    ELSE memory \cup {target}

\* NodeAttesterService._acknowledge.
_acknowledge == /\ ledger' = "none"
                /\ memory' = {}
                /\ UNCHANGED <<object, sandbox, variance>>

\* _restore_record: the binding and every evidence of the record.
_restore_record == {e \in {"bound", "exit", "empty", "removed"} : Rank(e) <= Rank(ledger)}

\* The attester's process starts again: _restore_ledger. Nothing in the
\* repository starts it again by itself.
RestoreLedger == /\ lost < MaxCallFaults
                 /\ lost' = lost + 1
                 /\ Recoverable
                 /\ memory' = _restore_record
                 /\ UNCHANGED <<object, sandbox, variance, ledger, brokerVars>>

-----------------------------------------------------------------------------
(* create and recovery of an intent *)

\* prepare and the inventory's transition to CREATE_INTENT: the binding that
\* recovers the intent is durable before the first call.
PrepareIntent == /\ call = "idle" /\ admits /\ unit = "none"
                 /\ unit' = "intent"
                 /\ call' = "create"
                 /\ UNCHANGED <<nodeVars, admits, lost>>

\* KubernetesApiControlPlane.create: a name in use is refused.
CreatePod == /\ call = "create"
             /\ IF object THEN Asked(GiveUp)
                ELSE External(/\ object' = TRUE
                              /\ sandbox' = "pending"
                              /\ variance' \in {"none"} \cup build_pod_manifest
                              /\ UNCHANGED <<ledger, memory>>, Go("bind"))

Bind(step) == /\ call = step
              /\ IF CanBind THEN External(_bind, Go(IF step = "rebind" THEN "stage"
                                                    ELSE "record_created"))
                 ELSE Asked(GiveUp)

BindPod == Bind("bind")
AdoptIntent == Bind("adopt")

\* KubernetesApiControlPlane.find: the unit's Pod, if there is one.
find == object

\* recover_create_intent: the Pod is looked up by its deterministic name, and
\* created again only when there is none.
FindPod == /\ call = "find"
           /\ Asked(Go(IF find THEN "adopt" ELSE "create"))

\* What recovery creates or adopts is terminated, what a request creates runs.
RecordBound == /\ call = "record_created"
               /\ unit' = "created"
               /\ call' = IF admits THEN "idle" ELSE "terminate"
               /\ UNCHANGED <<nodeVars, admits, lost>>

-----------------------------------------------------------------------------
(* stage_request and try_collect_response *)

\* Every staging begins with a new attestation of the Pod.
BeginStaging == /\ call = "idle" /\ admits /\ unit = "created"
                /\ call' \in {"rebind", "collect"}
                /\ UNCHANGED <<nodeVars, unit, admits, lost>>

RebindPod == Bind("rebind")

\* _exec: the helper waits on its input while the Pod's identity is read again;
\* one that cannot be finished in time is given up.
_exec == object /\ sandbox = "running"

StageOrCollect == /\ call \in {"stage", "collect"}
                  /\ Asked(IF _exec THEN Go("idle") ELSE GiveUp)

-----------------------------------------------------------------------------
(* Termination, evidence, removal *)

\* _runtime_for and recover: the Pod must still be there unless its emptiness
\* is recorded, and the attester's ledger may be ahead of the broker, never
\* behind it.
Recovers == /\ object \/ unit = "empty"
            /\ ledger # "none" /\ Rank(ledger) >= Rank(unit)
            /\ ledger = "removed" => unit = "empty"
            /\ Recoverable

RecoverUnit ==
  /\ call = "recover"
  /\ IF Recovers
     THEN External(/\ memory' = memory \cup {"bound"}
                   /\ UNCHANGED <<object, sandbox, variance, ledger>>,
                   Go(CASE unit = "created" -> "terminate"
                        [] unit = "exit"    -> "confirm_exit_again"
                        [] unit = "empty"   -> "delete"))
     ELSE Asked(GiveUp)

RequestTermination == /\ call = "idle" /\ admits
                      /\ unit \in {"created", "exit", "empty"}
                      /\ call' = "recover"
                      /\ UNCHANGED <<nodeVars, unit, admits, lost>>

\* hard_terminate: the exec's own outcome is ignored, and the attempt may miss
\* the signal; only the attester says whether the containers have exited.
TerminatePod ==
  /\ call = "terminate"
  /\ External(/\ sandbox' \in {sandbox} \cup (IF sandbox = "running"
                                              THEN {"exited"} ELSE {})
              /\ UNCHANGED <<object, variance, ledger, memory>>,
              IF object THEN Go("confirm_exit") ELSE GiveUp)

\* confirm_exit, confirm_empty and confirm_removed: what is not observable yet
\* is asked again until the operation's deadline.
Confirm(step, target, answer) ==
  /\ call = step
  /\ IF CanProve(target)
     THEN \/ External(_proof(target), answer)
          \/ ~Repeated(target) /\ InDoubt(target)
     ELSE Asked(GiveUp)

ConfirmPodExit == Confirm("confirm_exit", "exit", Go("record_exit"))
\* confirm_empty asks for the exit's evidence again.
ConfirmExitAgain == Confirm("confirm_exit_again", "exit", Go("confirm_empty"))
ConfirmPodEmpty == Confirm("confirm_empty", "empty", Go("record_empty"))
ConfirmPodRemoved == Confirm("confirm_removed", "removed", Go("absent"))

\* KubernetesApiControlPlane.delete: with the Pod's own UID and no grace; a Pod
\* that is gone is not an error.
DeletePod == /\ call = "delete"
             /\ External(object' = FALSE /\ UNCHANGED <<sandbox, variance, ledger, memory>>,
                         Go("confirm_removed"))

ConfirmPodAbsent == /\ call = "absent"
                    /\ Asked(IF object THEN GiveUp ELSE Go("record_removed"))

\* _terminate_and_prove's transitions.
RecordProof ==
  /\ call \in {"record_exit", "record_empty", "record_removed"}
  /\ unit' = CASE call = "record_exit"    -> "exit"
               [] call = "record_empty"   -> "empty"
               [] call = "record_removed" -> "removed"
  /\ call' = CASE call = "record_exit"    -> "confirm_exit_again"
               [] call = "record_empty"   -> "delete"
               [] call = "record_removed" -> "idle"
  /\ admits' = (admits \/ call = "record_removed")
  /\ UNCHANGED <<nodeVars, lost>>

\* acknowledge: the broker marks the acknowledgement durably before the
\* attester may forget the Pod, and forgets the unit after.
MarkAcknowledged == /\ call = "idle" /\ admits /\ unit = "removed"
                    /\ unit' = "acknowledged"
                    /\ call' = "acknowledge"
                    /\ UNCHANGED <<nodeVars, admits, lost>>

acknowledge_recovery == /\ call = "acknowledge"
                        /\ External(_acknowledge, Go("discard"))

DiscardAcknowledged == /\ call = "discard"
                       /\ unit' = "gone"
                       /\ call' = "idle"
                       /\ admits' = TRUE
                       /\ UNCHANGED <<nodeVars, lost>>

-----------------------------------------------------------------------------
(* Reconciliation and the world *)

\* discover: a managed Pod that no unit accounts for.
discover_pods == object

ReconcilePod ==
  /\ call = "idle" /\ ~admits
  /\ Asked(CASE unit \in {"none", "gone", "removed"} ->
                  admits' = ~discover_pods /\ UNCHANGED <<unit, call>>
             [] unit = "acknowledged" -> Go("acknowledge")
             [] unit = "intent"       -> Go("find")
             [] OTHER                 -> Go("recover"))

KubernetesCrash == /\ call # "idle" \/ admits
                   /\ lost < MaxCallFaults
                   /\ lost' = lost + 1
                   /\ GiveUp
                   /\ UNCHANGED nodeVars

\* The kubelet: a Pod starts, ends of itself or at its activeDeadlineSeconds,
\* its sandbox is stopped, and once its object is deleted it is taken away.
Kubelet(from, to) == /\ sandbox = from
                     /\ sandbox' = to
                     /\ UNCHANGED <<object, variance, ledger, memory, brokerVars, lost>>

PodStarts == Kubelet("pending", "running")
PodExits == Kubelet("running", "exited")
SandboxStops == Kubelet("exited", "stopped")
SandboxRemoved == ~object /\ \E s \in {"pending", "running", "exited", "stopped"} :
                               Kubelet(s, "none")

KubernetesCreate == PrepareIntent \/ CreatePod \/ BindPod \/ AdoptIntent \/ FindPod
                    \/ RecordBound

KubernetesWorkspace == BeginStaging \/ RebindPod \/ StageOrCollect

KubernetesTerminate == RecoverUnit \/ TerminatePod \/ ConfirmPodExit \/ ConfirmExitAgain
                       \/ ConfirmPodEmpty \/ DeletePod \/ ConfirmPodRemoved
                       \/ ConfirmPodAbsent \/ RecordProof \/ acknowledge_recovery
                       \/ DiscardAcknowledged \/ ReconcilePod

KubeletStep == PodStarts \/ PodExits \/ SandboxStops \/ SandboxRemoved

KubernetesNext == \/ KubernetesCreate \/ KubernetesWorkspace \/ RequestTermination \/ KubernetesTerminate
                  \/ MarkAcknowledged \/ KubernetesCrash \/ RestoreLedger
                  \/ KubeletStep

-----------------------------------------------------------------------------
(* Properties *)

KubernetesTypeOK ==
  /\ object \in BOOLEAN /\ variance \in {"none"} \cup build_pod_manifest /\ admits \in BOOLEAN
  /\ sandbox \in {"none", "pending", "running", "exited", "stopped"}
  /\ \E i \in DOMAIN LedgerStates : ledger = LedgerStates[i]
  /\ memory \subseteq {"bound", "exit", "empty", "removed"}
  /\ unit \in UnitStates \cup {"gone"}
  /\ lost \in 0..MaxCallFaults

\* The attester knows of the Pod whatever the broker still has to prove or to
\* hand over, and never less than the broker has recorded: it forgets the Pod
\* only after the broker has durably taken the acknowledgement.
LedgerAhead ==
  /\ unit \in {"created", "exit", "empty", "removed"}
     => ledger # "none" /\ Rank(ledger) >= Rank(unit)
  /\ unit = "gone" => ledger = "none"

\* The Pod of a unit that the broker lets a worker use is the attested one.
UsedAsAttested == admits /\ call = "idle" /\ unit = "created" => variance = "none"

\* The attester has recorded an evidence that its process does not remember,
\* as after a commit in doubt: `recover` restores only the binding, and the
\* next proof is refused until the attester starts again.
Refusing == ledger \in {"exit", "empty", "removed"} /\ ledger \notin memory

KubernetesSpec == KubernetesInit /\ [][KubernetesNext]_kubernetesVars

\* What the broker has recorded of the unit, as the contract's evidence.
KubernetesProofs ==
    CASE unit = "exit"  -> {"exit"}
      [] unit = "empty" -> {"exit", "empty"}
      [] unit \in {"removed", "acknowledged", "gone"} -> {"exit", "empty", "removed"}
      [] OTHER -> {}

Kubernetes == INSTANCE RuntimeContract WITH
    running <- sandbox = "running", members <- sandbox \in {"running", "exited"},
    present <- object \/ sandbox # "none", proved <- KubernetesProofs

\* The evidence that the broker records of a Pod is true and comes in order, which is the
\* contract of IsolationRuntime; the attester knows no less of a Pod than the broker, and
\* a Pod that a worker may use is the attested one (terminate, bind, recover, _proof).
KubernetesHonest ==
    /\ [](KubernetesTypeOK /\ LedgerAhead /\ UsedAsAttested)
    /\ Kubernetes!Contract

=============================================================================
