--------------------------- MODULE PodmanRuntime ---------------------------
(***************************************************************************)
(* The rootless Podman backend of the isolation broker (broker/            *)
(* podman_runtime.py and the modules it is built from), for one unit, with *)
(* the broker steps that call it (broker/service.py) and the reverse       *)
(* attempt inside the container (reversions/attempt_channel.py,            *)
(* attempt_main.py).                                                       *)
(*                                                                         *)
(* Every podman or systemctl command is one step of the program counter    *)
(* `at`. A command takes effect and is answered, takes effect and its      *)
(* answer is lost (the runner's deadline passes, its output is malformed), *)
(* or fails without effect; the last two are faults, MaxFaults of them.    *)
(* BoundedCommandRunner kills a command that it gives up on, so that a     *)
(* command has no effect after its own step.                               *)
(***************************************************************************)
EXTENDS Naturals, Sequences, FiniteSets, SequencesExt

CONSTANT MaxFaults    \* bound: commands that fail or whose answer is lost

ASSUME PodmanAssumption == MaxFaults \in Nat

VARIABLES container,  \* podman's state of the unit's container
          flaw,       \* what podman realised otherwise than it was told, or "none"
          conmon,     \* a process other than the container's is in the slice
          slice,      \* the unit's control group exists
          files,      \* the files in the container's /work
          child,      \* what the attempt in the container is doing
          stage,      \* the unit's state in the broker's durable inventory
          at,         \* the next command of the operation under way
          code,       \* the exit code of `podman create`
          ready,      \* the broker admits requests
          faults

containerVars == <<container, flaw, conmon, slice>>
channelVars == <<files, child>>
podmanVars == <<container, flaw, conmon, slice, files, child, stage, at, code,
                ready, faults>>

Stages == <<"none", "intent", "created", "exit", "empty", "removed">>

Populated == container = "running" \/ conmon

\* _labels and build_create_arguments: what a container is told to be. The
\* labels name the unit and the policy, the command line the image, the
\* isolation and the limits, and the control group the container runs in.
_labels == {"labels"}
build_create_arguments == {"command", "specification", "placement"}

\* _build_request_archive: `podman cp -` unpacks the archive in this order.
\* "pending" and "complete" are the two contents of response.state.
_build_request_archive == <<"source.bin", "request.json", "pending", "request.commit">>

\* write_response: the result of a success, the metadata, then the state file.
write_response(kind) == (IF kind = "success" THEN <<"result.bin">> ELSE <<>>)
                        \o <<"response.json", "complete">>

\* The next file of an order that has been written up to some place.
NextFile(order) == order[1 + Cardinality(files \cap ToSet(order))]

Written(order) == ToSet(order) \subseteq files

\* _atomic_write, _atomic_replace: a file appears whole, and its temporary is
\* gone.
_atomic_write(file) == files' = files \cup {file}

\* encode_channel_state and decode_channel_state.
decode_channel_state == CASE "complete" \in files -> "complete"
                          [] "complete" \notin files /\ "pending" \in files -> "pending"
                          [] OTHER -> "invalid"

\* decode_response_metadata: a success comes with a result, a failure with none.
decode_response_metadata(kind) == (kind = "success") = ("result.bin" \in files)

\* read_request: the commit marker, the metadata and the source it describes.
read_request == {"request.commit", "request.json", "source.bin"} \subseteq files

PodmanInit == /\ container = "none" /\ flaw = "none" /\ conmon = FALSE
              /\ slice = FALSE /\ files = {} /\ child = "waiting"
              /\ stage = "none" /\ at = "idle" /\ code = 0
              /\ ready = FALSE /\ faults = 0

-----------------------------------------------------------------------------
(* Commands *)

\* The broker gives up the operation: _fail clears its readiness.
Fail == /\ at' = "idle"
        /\ ready' = FALSE
        /\ UNCHANGED <<stage, code>>

\* The exception handler of create: a created container is removed by force,
\* and when `create` refused and nothing could be inspected its absence is
\* confirmed. A refused create whose container was inspected is left alone.
FailCreate == IF code = 0 THEN /\ at' = "cleanup_rm"
                               /\ UNCHANGED <<stage, code, ready>>
                          ELSE Fail
FailCreateAbsent == IF code = 0 THEN FailCreate
                    ELSE at' = "cleanup_exists" /\ UNCHANGED <<stage, code, ready>>

\* BoundedCommandRunner.__call__ and _call: a command is answered, or it
\* fails with or without its effect.
Call(effect, answer, failure) ==
  \/ effect /\ answer /\ UNCHANGED faults
  \/ /\ faults < MaxFaults
     /\ faults' = faults + 1
     /\ effect \/ UNCHANGED containerVars
     /\ failure

\* A command that only reads.
Read(answer, failure) == Call(UNCHANGED containerVars, answer, failure)

Continue(step) == at' = step /\ UNCHANGED <<stage, code, ready>>

\* _verify_cgroup_binding: the control group is known once the container runs;
\* podman reports none of a container that has not started or has ended.
_verify_cgroup_binding == container = "running" => flaw # "placement"

\* verify_realized_specification: podman's own account of the container.
verify_realized_specification == flaw # "specification"

\* _matches_create_command and the image's name and digest.
_matches_create_command == flaw # "command"

\* _policy_from_labels: the labels are the managed ones and give a policy.
_policy_from_labels == flaw # "labels"

\* _unit_from_labels, with which every inspection starts; _verified_unit and
\* _verify_incarnation compare its outcome with the unit that is asked for.
_unit_from_labels == /\ _policy_from_labels
                     /\ _matches_create_command
                     /\ verify_realized_specification
                     /\ _verify_cgroup_binding

Verified == container # "none" /\ _unit_from_labels

_container_exists == container # "none"

-----------------------------------------------------------------------------
(* create *)

\* The service records the intent before the first command.
CreateIntent == /\ at = "idle" /\ ready /\ stage = "none"
                /\ stage' = "intent"
                /\ at' = "environment"
                /\ UNCHANGED <<containerVars, channelVars, code, ready, faults>>

\* `podman info`: rootless, cgroup v2, systemd, no hooks. Asked once and kept.
_require_rootless_environment == /\ at = "environment"
                                 /\ Read(Continue("cgroup_create"), Fail)
                                 /\ UNCHANGED channelVars

_create_cgroup == /\ at = "cgroup_create"
                  /\ Call(/\ slice' = TRUE
                          /\ UNCHANGED <<container, flaw, conmon>>,
                          Continue("create"), Fail)
                  /\ UNCHANGED channelVars

\* `podman create`: exit code 125 says that nothing was created. The answer of
\* a command that raised is not handled: the container may exist.
CreateContainer ==
  /\ at = "create"
  /\ \/ Call(/\ container = "none"
             /\ container' = "created"
             /\ flaw' \in {"none"} \cup _labels \cup build_create_arguments
             /\ UNCHANGED <<conmon, slice>>,
             /\ code' = 0
             /\ at' = "inspect"
             /\ UNCHANGED <<stage, ready>>, Fail)
     \/ /\ faults < MaxFaults
        /\ faults' = faults + 1
        /\ code' = 125
        /\ at' = "inspect"
        /\ UNCHANGED <<containerVars, stage, ready>>
  /\ UNCHANGED channelVars

\* A container that is not as specified is never started.
InspectCreated ==
  /\ at = "inspect"
  /\ Read(IF container = "none" THEN FailCreateAbsent
          ELSE IF ~Verified THEN FailCreate
          ELSE Continue(IF container = "created" THEN "start" ELSE "record_created"),
          FailCreateAbsent)
  /\ UNCHANGED channelVars

Start == /\ container' = IF container = "created" THEN "running" ELSE container
         /\ UNCHANGED <<flaw, conmon, slice>>

StartContainer == /\ at = "start"
                  /\ Call(Start, Continue("inspect_started"), FailCreate)
                  /\ UNCHANGED channelVars

InspectStarted == /\ at = "inspect_started"
                  /\ Read(IF Verified /\ container # "created"
                          THEN Continue("record_created") ELSE FailCreate, FailCreate)
                  /\ UNCHANGED channelVars

\* The inventory's transition to CREATED.
RecordCreated == /\ at = "record_created"
                 /\ stage' = "created"
                 /\ at' = "idle"
                 /\ UNCHANGED <<containerVars, channelVars, code, ready, faults>>

\* _cleanup_failed_create: whatever `rm --force` answers, absence is confirmed.
CleanupRemove ==
  /\ at = "cleanup_rm"
  /\ LET go == Continue("cleanup_exists")
     IN  Call(/\ container' = "none"
              /\ conmon' \in {FALSE, conmon}
              /\ UNCHANGED <<flaw, slice>>, go, go)
  /\ files' = {} /\ UNCHANGED child

\* _confirm_container_absence: by identity, then by label.
CleanupAbsence ==
  /\ at \in {"cleanup_exists", "cleanup_ps"}
  /\ Read(IF _container_exists THEN Fail
          ELSE Continue(IF at = "cleanup_exists" THEN "cleanup_ps" ELSE "cleanup_slice"),
          Fail)
  /\ UNCHANGED channelVars

\* SystemdCgroupRemover: stops the slice, and with it what is left in it.
RemoveSlice == /\ slice' = FALSE
               /\ conmon' = FALSE
               /\ UNCHANGED <<container, flaw>>

\* _remove_failed_create_cgroup, then the error of create is raised again.
CleanupSlice == /\ at = "cleanup_slice"
                /\ Call(RemoveSlice, Fail, Fail)
                /\ UNCHANGED channelVars

-----------------------------------------------------------------------------
(* stage_request and try_collect_response *)

\* Both begin and end every copy with _workspace_context.
Workspace == Verified /\ container = "running"

BeginStage == /\ at = "idle" /\ ready /\ stage = "created" /\ files = {}
              /\ at' = "stage_context"
              /\ UNCHANGED <<containerVars, channelVars, stage, code, ready, faults>>

\* `podman cp - ID:/work` unpacks one file after the other, and may be cut off.
StageFile ==
  /\ at = "stage_context"
  /\ IF Written(_build_request_archive) \/ ~Workspace
     THEN /\ Read(IF Workspace THEN Continue("idle") ELSE Fail, Fail)
          /\ UNCHANGED files
     ELSE \/ /\ _atomic_write(NextFile(_build_request_archive))
             /\ UNCHANGED <<containerVars, stage, at, code, ready, faults>>
          \/ /\ faults < MaxFaults
             /\ faults' = faults + 1
             /\ Fail
             /\ UNCHANGED <<containerVars, files>>
  /\ UNCHANGED child

BeginCollect == /\ at = "idle" /\ ready /\ stage = "created"
                /\ Written(_build_request_archive)
                /\ at' = "read_state"
                /\ UNCHANGED <<containerVars, channelVars, stage, code, ready, faults>>

\* _copy_workspace_file: the state first; the rest only once it is complete,
\* and the result only of a success.
CollectFile ==
  /\ at \in {"read_state", "read_metadata", "read_result"}
  /\ Read(IF ~Workspace THEN Fail
          ELSE CASE at = "read_state" ->
                      CASE decode_channel_state = "complete" -> Continue("read_metadata")
                        [] decode_channel_state = "pending"  -> Continue("idle")
                        [] OTHER                             -> Fail
                 [] at = "read_metadata" ->
                      Continue(IF child = "success" THEN "read_result" ELSE "idle")
                 [] at = "read_result" ->
                      IF decode_response_metadata("success") THEN Continue("idle")
                      ELSE Fail, Fail)
  /\ UNCHANGED channelVars

\* What a container that ends leaves: its monitor may outlive it in the slice.
Exited == /\ container' = IF container = "running" THEN "exited" ELSE container
          /\ conmon' \in (IF container = "running" THEN BOOLEAN ELSE {conmon})
          /\ UNCHANGED <<flaw, slice>>

\* wait_for_request, and _execute: every outcome of the conversion becomes a
\* response. A request that cannot be read ends the attempt.
wait_for_request ==
  /\ container = "running" /\ child = "waiting" /\ "request.commit" \in files
  /\ IF read_request THEN /\ child' \in {"success", "failure"}
                          /\ UNCHANGED <<containerVars, files>>
     ELSE Exited /\ files' = {} /\ UNCHANGED child
  /\ UNCHANGED <<stage, at, code, ready, faults>>

\* main: the response is written file by file, and then the attempt lingers.
Respond ==
  /\ container = "running" /\ child # "waiting" /\ ~Written(write_response(child))
  /\ _atomic_write(NextFile(write_response(child)))
  /\ UNCHANGED <<containerVars, child, stage, at, code, ready, faults>>

-----------------------------------------------------------------------------
(* Termination and its evidence *)

\* terminate: the worker asks for the unit's end.
BeginTerminate == /\ at = "idle" /\ ready
                  /\ stage \in {"created", "exit", "empty"}
                  /\ at' = CASE stage = "created" -> "terminate"
                             [] stage = "exit"    -> "confirm_empty"
                             [] stage = "empty"   -> "remove"
                  /\ UNCHANGED <<containerVars, channelVars, stage, code, ready, faults>>

\* hard_terminate: a container that was never started is started first, for
\* only one that ran gives evidence of its exit.
InspectToKill ==
  /\ at \in {"terminate", "terminate_started"}
  /\ Read(IF ~Verified THEN Fail
          ELSE CASE container = "running" -> Continue("kill")
                 [] container = "created" /\ at = "terminate" -> Continue("start_to_kill")
                 [] OTHER -> Continue("confirm_exit"), Fail)
  /\ UNCHANGED channelVars

StartToKill == /\ at = "start_to_kill"
               /\ Call(Start, Continue("terminate_started"), Fail)
               /\ UNCHANGED channelVars

Kill == /\ at = "kill"
        /\ Call(Exited, Continue("killed"), Fail)
        /\ files' = IF container' = "running" THEN files ELSE {}
        /\ UNCHANGED child

\* _kill_and_verify's second inspection, then confirm_exit.
ConfirmExit ==
  /\ at \in {"killed", "confirm_exit"}
  /\ Read(IF Verified /\ container = "exited"
          THEN Continue(IF at = "killed" THEN "confirm_exit" ELSE "record_exit")
          ELSE Fail, Fail)
  /\ UNCHANGED channelVars

\* Mutant: podman's state is taken for the emptiness of the control group.
ConfirmEmptyByState ==
  /\ at = "confirm_empty"
  /\ Read(IF Verified /\ container = "exited" THEN Continue("record_empty") ELSE Fail,
          Fail)
  /\ UNCHANGED channelVars

\* confirm_empty: podman's state once, then the control group until it is
\* empty or the wait is over.
ConfirmEmpty ==
  /\ at = "confirm_empty"
  /\ Read(IF Verified /\ container = "exited" THEN Continue("await_empty") ELSE Fail,
          Fail)
  /\ UNCHANGED channelVars

_await_unpopulated ==
  /\ at = "await_empty"
  /\ IF slice /\ ~Populated THEN Read(Continue("record_empty"), Fail)
     ELSE /\ faults < MaxFaults
          /\ faults' = faults + 1
          /\ Fail
          /\ UNCHANGED containerVars
  /\ UNCHANGED channelVars

\* Mutant: a container that is gone already is an error.
InspectMissing ==
  /\ at = "remove"
  /\ Read(IF Verified THEN Continue("rm") ELSE Fail, Fail)
  /\ UNCHANGED channelVars

\* remove: a container that is gone already is not an error.
InspectToRemove ==
  /\ at = "remove"
  /\ Read(IF ~_container_exists THEN Continue("confirm_removed")
          ELSE IF Verified THEN Continue("rm") ELSE Fail, Fail)
  /\ UNCHANGED channelVars

RemoveContainer ==
  /\ at = "rm"
  /\ Call(container' = "none" /\ UNCHANGED <<flaw, conmon, slice>>,
          Continue("confirm_removed"), Fail)
  /\ files' = IF container' = "none" THEN {} ELSE files
  /\ UNCHANGED child

\* confirm_removed: by name, by label, then the slice.
ConfirmAbsence ==
  /\ at \in {"confirm_removed", "confirm_ps"}
  /\ Read(IF _container_exists THEN Fail
          ELSE Continue(IF at = "confirm_removed" THEN "confirm_ps" ELSE "remove_slice"),
          Fail)
  /\ UNCHANGED channelVars

ConfirmRemoved == /\ at = "remove_slice"
                  /\ Call(RemoveSlice, Continue("record_removed"), Fail)
                  /\ UNCHANGED channelVars

\* _terminate_and_prove records each evidence before it goes on.
RecordEvidence ==
  /\ at \in {"record_exit", "record_empty", "record_removed"}
  /\ stage' = CASE at = "record_exit" -> "exit"
                [] at = "record_empty" -> "empty"
                [] at = "record_removed" -> "removed"
  /\ at' = CASE at = "record_exit" -> "confirm_empty"
             [] at = "record_empty" -> "remove"
             [] at = "record_removed" -> "idle"
  /\ ready' = (ready \/ at = "record_removed")
  /\ UNCHANGED <<containerVars, channelVars, code, faults>>

-----------------------------------------------------------------------------
(* Reconciliation, crashes and the world *)

\* discover: every managed container, running or not, and each as specified.
discover == IF container = "none" THEN "absent"
            ELSE IF Verified THEN "found" ELSE "invalid"

\* start, reconciliation_page: the sweep that comes before any admission. A
\* unit whose container was neither found nor is past its emptiness, or that
\* has an intent and no container, keeps the broker from becoming ready.
Reconcile ==
  /\ at = "idle" /\ ~ready
  /\ Read(CASE stage \in {"none", "removed"} /\ discover = "absent" ->
                 ready' = TRUE /\ UNCHANGED <<stage, at, code>>
            [] stage = "intent" /\ discover = "found" ->
                 at' = "recover_created" /\ UNCHANGED <<stage, code, ready>>
            [] stage = "created" /\ discover = "found" -> Continue("terminate")
            [] stage = "exit" /\ discover = "found" -> Continue("confirm_empty")
            [] stage = "empty" /\ discover # "invalid" -> Continue("remove")
            [] OTHER -> UNCHANGED <<stage, at, code, ready>>,
          UNCHANGED <<stage, at, code, ready>>)
  /\ UNCHANGED channelVars

\* A recovered intent becomes CREATED and is terminated.
RecoverCreated == /\ at = "recover_created"
                  /\ stage' = "created"
                  /\ at' = "terminate"
                  /\ UNCHANGED <<containerVars, channelVars, code, ready, faults>>

\* The broker dies, between any two commands.
PodmanCrash == /\ at # "idle" \/ ready
               /\ faults < MaxFaults
               /\ faults' = faults + 1
               /\ Fail
               /\ UNCHANGED <<containerVars, channelVars>>

\* The attempt ends of itself or at the container's --timeout, and its /work
\* with it.
ContainerExits == /\ container = "running"
                  /\ Exited
                  /\ files' = {}
                  /\ UNCHANGED <<child, stage, at, code, ready, faults>>

MonitorExits == /\ conmon
                /\ conmon' = FALSE
                /\ UNCHANGED <<container, flaw, slice, channelVars, stage, at, code,
                               ready, faults>>

CreateStep == CreateIntent \/ _require_rootless_environment \/ _create_cgroup
              \/ CreateContainer \/ InspectCreated
              \/ StartContainer \/ InspectStarted \/ RecordCreated \/ CleanupRemove
              \/ CleanupAbsence \/ CleanupSlice

WorkspaceStep == BeginStage \/ StageFile \/ BeginCollect \/ CollectFile

TerminateStep == BeginTerminate \/ InspectToKill \/ StartToKill \/ Kill \/ ConfirmExit
                 \/ ConfirmEmpty \/ _await_unpopulated \/ InspectToRemove \/ RemoveContainer
                 \/ ConfirmAbsence \/ ConfirmRemoved \/ RecordEvidence

ReconcileStep == Reconcile \/ RecoverCreated

PodmanNext == \/ CreateStep \/ WorkspaceStep \/ TerminateStep \/ ReconcileStep
              \/ wait_for_request \/ Respond \/ PodmanCrash \/ ContainerExits \/ MonitorExits

-----------------------------------------------------------------------------
(* Properties *)

PodmanTypeOK ==
  /\ container \in {"none", "created", "running", "exited"}
  /\ flaw \in {"none"} \cup _labels \cup build_create_arguments
  /\ conmon \in BOOLEAN /\ slice \in BOOLEAN
  /\ files \subseteq {"source.bin", "request.json", "request.commit", "pending",
                      "result.bin", "response.json", "complete"}
  /\ child \in {"waiting", "success", "failure"}
  /\ stage \in ToSet(Stages)
  /\ code \in {0, 125} /\ ready \in BOOLEAN /\ faults \in 0..MaxFaults

\* A container that podman realised otherwise than its policy says never runs,
\* neither by create nor by a termination that has to start it. One in a wrong
\* control group shows only when it runs; it never receives a request.
RunsAsSpecified == container = "running" => \/ flaw = "none"
                                            \/ flaw = "placement" /\ files = {}

\* The attempt starts on a whole request, and the broker goes on to a response
\* only when all of it is there, although both sides write file by file.
ChannelOrdered ==
  /\ child # "waiting" /\ container = "running" => Written(_build_request_archive)
  /\ at \in {"read_metadata", "read_result"} /\ container = "running"
     => Written(write_response(child)) /\ decode_response_metadata(child)

PodmanSpec == PodmanInit /\ [][PodmanNext]_podmanVars

\* What the broker has recorded of the unit, as the contract's evidence.
PodmanProofs ==
    CASE stage = "exit"    -> {"exit"}
      [] stage = "empty"   -> {"exit", "empty"}
      [] stage = "removed" -> {"exit", "empty", "removed"}
      [] OTHER             -> {}

Podman == INSTANCE RuntimeContract WITH
    running <- container = "running", members <- Populated,
    present <- container # "none" \/ slice, proved <- PodmanProofs

\* The evidence that the broker records of a container is true and comes in order, which
\* is the contract of IsolationRuntime; a container runs as it was specified, on a whole
\* request (terminate, confirm_exit, confirm_empty, confirm_removed).
PodmanHonest ==
    /\ [](PodmanTypeOK /\ RunsAsSpecified /\ ChannelOrdered)
    /\ Podman!Contract

=============================================================================
