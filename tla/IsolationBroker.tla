-------------------------- MODULE IsolationBroker --------------------------
(***************************************************************************)
(* The isolation broker (broker/service.py over broker/inventory.py): it   *)
(* creates one isolated unit per conversion attempt, terminates it, keeps  *)
(* the proof of its termination until the worker acknowledges it, and      *)
(* sweeps whatever a crash left behind before it admits anything.          *)
(*                                                                         *)
(* The inventory is durable; readiness and the staged workspaces are not.  *)
(* One gate serialises the requests, so requests do not interleave, but a  *)
(* request is several durable steps, each of which may be the last one     *)
(* before a crash or an error.  A caller that stops waiting does not stop  *)
(* its request: the request may be served long after.                      *)
(*                                                                         *)
(* One principal is modelled.  It numbers its attempts, so the number      *)
(* stands for the attempt identifier, and a proof is a digest of its unit. *)
(***************************************************************************)
EXTENDS BrokerIdentities

CONSTANTS
    Callers,         \* the connections over which requests arrive
    MaxRecords,      \* capacity of the inventory
    HasRecovery,     \* TRUE: Kubernetes recovery binding, FALSE: Podman labels
    MaxAbandoned,    \* bound: requests whose caller stopped waiting
    BrokerFaults,    \* "crash", "operation", "exit": the faults that occur
    MaxBrokerFaults  \* bound: how many of them

ASSUME BrokerAssumption ==
    /\ NULL \notin Callers
    /\ MaxRecords \in Nat \ {0}
    /\ HasRecovery \in BOOLEAN
    /\ MaxAbandoned \in Nat
    /\ BrokerFaults \subseteq {"crash", "operation", "exit"}
    /\ MaxBrokerFaults \in Nat

VARIABLES
    inventory,     \* the durable rows, state "none" where there is none
    highWater,     \* the principal's durable create high water
    runtime,       \* what the container runtime really holds
    ready,         \* _ready
    staged,        \* _staged_workspaces: the units with a staged request
    gate,          \* the operation that holds the gate
    requests,      \* requests that arrived and wait for the gate
    replies,       \* replies[c]: the response that awaits caller c
    brokerFaults,  \* how many faults have occurred
    births         \* history: <<sequence, unit>> of every unit ever created

brokerVars == <<inventory, highWater, runtime, ready, staged, gate, requests,
                replies, brokerFaults, births>>

----------------------------------------------------------------------------
(* Units, requests and responses.                                          *)

\* ManagedUnitState, and "none" for an identifier that is not inventoried.
UnitStates == {"none", "reserved", "create_intent", "created",
               "exit_confirmed", "empty_confirmed", "removed"}

Unit == [state        : UnitStates,
         sequence     : 0 .. MaxSequence,
         acknowledged : BOOLEAN]   \* proof_acknowledged

NoUnit == [state |-> "none", sequence |-> 0, acknowledged |-> FALSE]

ReservedUnit(s) == [state |-> "reserved", sequence |-> s, acknowledged |-> FALSE]

RuntimeStates == {"absent", "running", "exited"}

Operations == {"create", "stage", "collect", "terminate", "ack", "page", "ready"}

\* "start" stands for the sweep of a starting broker, NULL for a caller that
\* stopped waiting.  The sequence of a page request is its cursor.
Request == [caller   : Callers \cup {NULL},
            op       : Operations \cup {"start"},
            sequence : 0 .. MaxSequence,
            unit     : 0 .. MaxUnits]

StartRequest == [caller |-> NULL, op |-> "start", sequence |-> 0, unit |-> 0]

Reply == [kind      : {"none", "error", "unit", "done", "pending", "success",
                       "failure", "proof", "page"},
          unit      : 0 .. MaxUnits,
          sequence  : 0 .. MaxSequence,   \* of a page's tombstone
          state     : UnitStates,         \* of a created unit
          highWater : 0 .. MaxSequence]   \* of a page

NoReply == [kind |-> "none", unit |-> 0, sequence |-> 0, state |-> "none",
            highWater |-> 0]

ErrorReply == [NoReply EXCEPT !.kind = "error"]

DoneReply == [NoReply EXCEPT !.kind = "done"]

ProofReply(u) == [NoReply EXCEPT !.kind = "proof", !.unit = u]

UnitReply(u, state) ==
    [NoReply EXCEPT !.kind = "unit", !.unit = u, !.state = state]

\* What the operation that holds the gate does next.
GateSteps == {"down", "idle", "intent", "runtime", "created", "kill", "exit",
              "empty", "remove", "removed", "forget", "sweep"}

Gate == [pc : GateSteps, request : Request, unit : 0 .. MaxUnits]

IdleGate == [pc |-> "idle", request |-> StartRequest, unit |-> 0]

DownGate == [IdleGate EXCEPT !.pc = "down"]

BrokerInit ==
    /\ inventory = [u \in UnitIds |-> NoUnit]
    /\ highWater = 0
    /\ runtime = [u \in UnitIds |-> "absent"]
    /\ ready = FALSE
    /\ staged = {}
    /\ gate = DownGate
    /\ requests = {}
    /\ replies = [c \in Callers |-> NoReply]
    /\ brokerFaults = 0
    /\ births = {}

----------------------------------------------------------------------------
(* Callers.                                                                *)

Waiting(c) ==
    \/ \E r \in requests : r.caller = c
    \/ gate.request.caller = c

\* The socket is bound only after the sweep of a starting broker.
Listening == gate.pc = "idle" \/ (gate.pc # "down" /\ gate.request.op # "start")

Send(c, op, s, u) ==
    /\ ~Waiting(c)
    /\ replies[c] = NoReply
    /\ IF Listening
       THEN /\ requests' = requests \cup
                   {[caller |-> c, op |-> op, sequence |-> s, unit |-> u]}
            /\ UNCHANGED replies
       ELSE /\ replies' = [replies EXCEPT ![c] = ErrorReply]
            /\ UNCHANGED requests
    /\ UNCHANGED <<inventory, highWater, runtime, ready, staged, gate,
                   brokerFaults, births>>

Receive(c) ==
    /\ replies[c] # NoReply
    /\ replies' = [replies EXCEPT ![c] = NoReply]
    /\ UNCHANGED <<inventory, highWater, runtime, ready, staged, gate, requests,
                   brokerFaults, births>>

\* The client's deadline passes, or the client dies: nobody waits any more,
\* but the request stays with the broker.
GiveUp(c) ==
    /\ Waiting(c)
    /\ Cardinality({r \in requests : r.caller = NULL}) < MaxAbandoned
    /\ requests' = {IF r.caller = c THEN [r EXCEPT !.caller = NULL] ELSE r : r \in requests}
    /\ gate' = IF gate.request.caller = c THEN [gate EXCEPT !.request.caller = NULL] ELSE gate
    /\ UNCHANGED <<inventory, highWater, runtime, ready, staged, replies,
                   brokerFaults, births>>

----------------------------------------------------------------------------
(* The gate.                                                               *)

BrokerFault(kind) ==
    /\ kind \in BrokerFaults
    /\ brokerFaults < MaxBrokerFaults
    /\ brokerFaults' = brokerFaults + 1

Sweeping == gate.request.op \in {"start", "page"}

\* The gate is free and takes request r.
Serve(r) ==
    /\ gate.pc = "idle"
    /\ r \in requests
    /\ requests' = requests \ {r}

Answer(r, reply) ==
    replies' = IF r.caller = NULL THEN replies ELSE [replies EXCEPT ![r.caller] = reply]

\* A request that is answered in one step.
AnswerAt(r, reply) ==
    /\ Serve(r)
    /\ Answer(r, reply)
    /\ UNCHANGED <<inventory, highWater, runtime, gate, brokerFaults, births>>

\* The operation goes on with step pc on unit u.
Goto(pc, u) == gate' = [gate EXCEPT !.pc = pc, !.unit = u]

\* The operation that holds the gate ends with a reply.
Finish(reply) ==
    /\ gate' = IdleGate
    /\ Answer(gate.request, reply)

Inventoried == {u \in UnitIds : inventory[u].state # "none"}

\* transition and mark_removed: a durable step on the unit of the operation.
Transition(target) ==
    /\ inventory' = [inventory EXCEPT ![gate.unit].state = target]
    /\ UNCHANGED <<highWater, runtime, ready, staged, requests, brokerFaults, births>>

\* _require_ready: only the sweeps and the readiness query do without it.
NotReady(r) ==
    /\ ~ready
    /\ r.op \notin {"page", "ready"}
    /\ AnswerAt(r, ErrorReply)
    /\ UNCHANGED <<ready, staged>>

Ready(r) ==
    /\ r.op = "ready"
    /\ AnswerAt(r, IF ready THEN DoneReply ELSE ErrorReply)
    /\ UNCHANGED <<ready, staged>>

----------------------------------------------------------------------------
(* create: reserve the identity, record the intent, create, record.        *)

SameSequence(s) == {u \in Inventoried : inventory[u].sequence = s}

\* Mutant: the high water is not compared.
ReplayableSequence(s) == SameSequence(s) = {}

\* reserve: a sequence at or below the high water was used before, even if
\* nothing of it is left in the inventory.
FreshSequence(s) == SameSequence(s) = {} /\ s > highWater

\* unit_id_factory draws an identifier that no unit ever had.  A reservation
\* that was discarded left no unit, and no caller learned its identifier.
Issued == {b[2] : b \in births} \cup Inventoried

FreshUnit == CHOOSE u \in UnitIds \ Issued : TRUE

\* The same attempt again: it is told what became of its unit.  A ready
\* broker holds no bare reservation (ReadyIsSettled) that create could resume.
CreateReplayed(r) ==
    /\ ready
    /\ r.op = "create"
    /\ \E u \in SameSequence(r.sequence) :
          /\ inventory[u].state # "reserved"
          /\ AnswerAt(r, UnitReply(u, inventory[u].state))
    /\ UNCHANGED <<ready, staged>>

\* REPLAY_REJECTED or INVENTORY_FULL.
CreateRejected(r) ==
    /\ ready
    /\ r.op = "create"
    /\ SameSequence(r.sequence) = {}
    /\ ~FreshSequence(r.sequence) \/ Cardinality(Inventoried) >= MaxRecords
    /\ AnswerAt(r, ErrorReply)
    /\ UNCHANGED <<ready, staged>>

\* reserve: the row and the high water in one transaction; the operation goes
\* on at step pc.
ReserveThen(r, water, pc) ==
    /\ ready
    /\ r.op = "create"
    /\ FreshSequence(r.sequence)
    /\ Cardinality(Inventoried) < MaxRecords
    /\ UnitIds \ Issued # {}
    /\ Serve(r)
    /\ inventory' = [inventory EXCEPT ![FreshUnit] = ReservedUnit(r.sequence)]
    /\ highWater' = water
    /\ gate' = [pc |-> pc, request |-> r, unit |-> FreshUnit]
    /\ UNCHANGED <<runtime, ready, staged, replies, brokerFaults, births>>

\* Mutant: the runtime is called without a durable intent.
CreateReserveOnly(r) == ReserveThen(r, r.sequence, "runtime")

CreateReserve(r) == ReserveThen(r, r.sequence, "intent")

WriteIntent ==
    /\ gate.pc = "intent"
    /\ Transition("create_intent")
    /\ Goto("runtime", gate.unit)
    /\ UNCHANGED replies

RuntimeCreate ==
    /\ gate.pc = "runtime"
    /\ runtime' = [runtime EXCEPT ![gate.unit] = "running"]
    /\ births' = births \cup {<<inventory[gate.unit].sequence, gate.unit>>}
    /\ Goto("created", gate.unit)
    /\ UNCHANGED <<inventory, highWater, ready, staged, requests, replies, brokerFaults>>

\* A created unit answers the request; a unit that a sweep found is killed.
WriteCreated ==
    /\ gate.pc = "created"
    /\ Transition("created")
    /\ IF Sweeping
       THEN Goto("kill", gate.unit) /\ UNCHANGED replies
       ELSE Finish(UnitReply(gate.unit, "created"))

----------------------------------------------------------------------------
(* stage_workspace and collect_workspace.                                  *)

\* _request_unit: the unit exists and belongs to the attempt.
Owned(r) == r.unit \in Inventoried /\ inventory[r.unit].sequence = r.sequence

\* _require_workspace_identity.
WorkspaceUnit(r) == Owned(r) /\ inventory[r.unit].state = "created"

Stage(r) ==
    /\ ready
    /\ r.op = "stage"
    /\ WorkspaceUnit(r)
    /\ r.unit \notin staged
    /\ IF runtime[r.unit] = "running"
       THEN /\ AnswerAt(r, DoneReply)
            /\ staged' = staged \cup {r.unit}
            /\ UNCHANGED ready
       ELSE /\ AnswerAt(r, ErrorReply)   \* RUNTIME_FAILURE
            /\ ready' = FALSE
            /\ UNCHANGED staged

Collect(r) ==
    /\ ready
    /\ r.op = "collect"
    /\ WorkspaceUnit(r)
    /\ r.unit \in staged
    /\ IF runtime[r.unit] = "running"
       THEN /\ \E kind \in {"pending", "success", "failure"} :
                  AnswerAt(r, [NoReply EXCEPT !.kind = kind])
            /\ UNCHANGED ready
       ELSE /\ AnswerAt(r, ErrorReply)   \* RUNTIME_FAILURE
            /\ ready' = FALSE
    /\ UNCHANGED staged

\* The very request that was staged before: its receipt again. The runtime is asked about
\* the unit first, and FailAtOnce is what follows when it fails or knows another.
StageReplayed(r) ==
    /\ ready
    /\ r.op = "stage"
    /\ WorkspaceUnit(r)
    /\ r.unit \in staged
    /\ AnswerAt(r, DoneReply)
    /\ UNCHANGED <<ready, staged>>

\* PROTOCOL_ERROR, or REPLAY_REJECTED for a stage request that differs from
\* the one that was staged; readiness is kept.
WorkspaceRefused(r) ==
    /\ ready
    /\ \/ r.op = "stage" /\ (~WorkspaceUnit(r) \/ r.unit \in staged)
       \/ r.op = "collect" /\ ~(WorkspaceUnit(r) /\ r.unit \in staged)
    /\ AnswerAt(r, ErrorReply)
    /\ UNCHANGED <<ready, staged>>

----------------------------------------------------------------------------
(* terminate: kill, confirm the exit, confirm the emptiness, remove, prove.*)

\* _terminate_and_prove resumes where the unit's durable state left it.
ResumeAt(state) ==
    CASE state = "created" -> "kill"
      [] state = "exit_confirmed" -> "empty"
      [] state = "empty_confirmed" -> "remove"

TerminateProven(r) ==
    /\ ready
    /\ r.op = "terminate"
    /\ Owned(r)
    /\ inventory[r.unit].state = "removed"
    /\ AnswerAt(r, ProofReply(r.unit))
    /\ UNCHANGED <<ready, staged>>

\* _runtime_for: the runtime unit is there, or durably known to be empty.
Resumable(u) ==
    \/ inventory[u].state \in {"created", "exit_confirmed"} /\ runtime[u] # "absent"
    \/ inventory[u].state = "empty_confirmed"

Terminate(r) ==
    /\ ready
    /\ r.op = "terminate"
    /\ Owned(r)
    /\ Resumable(r.unit)
    /\ Serve(r)
    /\ gate' = [pc |-> ResumeAt(inventory[r.unit].state), request |-> r, unit |-> r.unit]
    /\ UNCHANGED <<inventory, highWater, runtime, ready, staged, replies,
                   brokerFaults, births>>

TerminateRefused(r) ==
    /\ ready
    /\ r.op = "terminate"
    /\ ~Owned(r)
    /\ AnswerAt(r, ErrorReply)
    /\ UNCHANGED <<ready, staged>>

Kill ==
    /\ gate.pc = "kill"
    /\ runtime' = [runtime EXCEPT ![gate.unit] = "exited"]
    /\ Goto("exit", gate.unit)
    /\ UNCHANGED <<inventory, highWater, ready, staged, requests, replies,
                   brokerFaults, births>>

WriteExit ==
    /\ gate.pc = "exit"
    /\ Transition("exit_confirmed")
    /\ Goto("empty", gate.unit)
    /\ UNCHANGED replies

WriteEmpty ==
    /\ gate.pc = "empty"
    /\ Transition("empty_confirmed")
    /\ Goto("remove", gate.unit)
    /\ UNCHANGED replies

Remove ==
    /\ gate.pc = "remove"
    /\ runtime' = [runtime EXCEPT ![gate.unit] = "absent"]
    /\ Goto("removed", gate.unit)
    /\ UNCHANGED <<inventory, highWater, ready, staged, requests, replies,
                   brokerFaults, births>>

\* Mutant: the row goes with the unit, and leaves no tombstone.
RemoveRecord ==
    /\ gate.pc = "removed"
    /\ inventory' = [inventory EXCEPT ![gate.unit] = NoUnit]
    /\ IF Sweeping
       THEN Goto("sweep", 0) /\ UNCHANGED replies
       ELSE Finish(ProofReply(gate.unit))
    /\ UNCHANGED <<highWater, runtime, ready, staged, requests, brokerFaults, births>>

WriteRemoved ==
    /\ gate.pc = "removed"
    /\ Transition("removed")
    /\ IF Sweeping
       THEN Goto("sweep", 0) /\ UNCHANGED replies
       ELSE Finish(ProofReply(gate.unit))

----------------------------------------------------------------------------
(* acknowledge: the tombstone goes, the high water stays.                  *)

Drop(u) ==
    /\ inventory' = [inventory EXCEPT ![u] = NoUnit]
    /\ staged' = staged \ {u}

Acknowledgeable(r) == Owned(r) /\ inventory[r.unit].state = "removed"

\* A unit that is not inventoried was acknowledged before.
AcknowledgeAgain(r) ==
    /\ ready
    /\ r.op = "ack"
    /\ r.unit \notin Inventoried
    /\ AnswerAt(r, DoneReply)
    /\ UNCHANGED <<ready, staged>>

AcknowledgeRefused(r) ==
    /\ ready
    /\ r.op = "ack"
    /\ r.unit \in Inventoried
    /\ ~Acknowledgeable(r)
    /\ AnswerAt(r, ErrorReply)
    /\ UNCHANGED <<ready, staged>>

\* inventory.acknowledge where the runtime keeps no recovery state.
Acknowledge(r) ==
    /\ ~HasRecovery
    /\ ready
    /\ r.op = "ack"
    /\ Acknowledgeable(r)
    /\ Serve(r)
    /\ Drop(r.unit)
    /\ Answer(r, DoneReply)
    /\ UNCHANGED <<highWater, runtime, ready, gate, brokerFaults, births>>

\* mark_acknowledged comes first where it does.
MarkAcknowledged(r) ==
    /\ HasRecovery
    /\ ready
    /\ r.op = "ack"
    /\ Acknowledgeable(r)
    /\ Serve(r)
    /\ inventory' = [inventory EXCEPT ![r.unit].acknowledged = TRUE]
    /\ gate' = [pc |-> "forget", request |-> r, unit |-> r.unit]
    /\ UNCHANGED <<highWater, runtime, ready, staged, replies, brokerFaults, births>>

\* _cleanup_acknowledged: release the recovery state, discard the tombstone.
ForgetAcknowledged ==
    /\ gate.pc = "forget"
    /\ Drop(gate.unit)
    /\ IF Sweeping
       THEN Goto("sweep", 0) /\ UNCHANGED replies
       ELSE Finish(DoneReply)
    /\ UNCHANGED <<highWater, runtime, ready, requests, brokerFaults, births>>

----------------------------------------------------------------------------
(* _reconcile: the sweep at start and before every reconciliation page.    *)

BeginSweep(request) ==
    /\ ready' = FALSE
    /\ staged' = {}
    /\ gate' = [pc |-> "sweep", request |-> request, unit |-> 0]
    /\ UNCHANGED <<inventory, highWater, runtime, replies, brokerFaults, births>>

Start ==
    /\ gate.pc = "down"
    /\ BeginSweep(StartRequest)
    /\ UNCHANGED requests

Page(r) ==
    /\ r.op = "page"
    /\ Serve(r)
    /\ BeginSweep(r)

AcknowledgedUnits == {u \in Inventoried : inventory[u].acknowledged}

\* Mutant: a unit that runs under a recorded incarnation is left alone.
LostUnits == {u \in Inventoried : inventory[u].state \notin {"created", "removed"}}

UnsweptUnits == {u \in Inventoried : inventory[u].state # "removed"}

\* The unit that the sweep takes next: acknowledged ones first, then the
\* others by create sequence.
NextSwept(u) ==
    IF AcknowledgedUnits # {}
    THEN u \in AcknowledgedUnits
    ELSE /\ u \in UnsweptUnits
         /\ \A v \in UnsweptUnits : inventory[u].sequence <= inventory[v].sequence

SweepForget(u) ==
    /\ gate.pc = "sweep"
    /\ NextSwept(u)
    /\ inventory[u].acknowledged
    /\ Goto("forget", u)
    /\ UNCHANGED <<inventory, highWater, runtime, ready, staged, requests, replies,
                   brokerFaults, births>>

\* A reservation without an intent created nothing.
SweepDiscard(u) ==
    /\ gate.pc = "sweep"
    /\ NextSwept(u)
    /\ inventory[u].state = "reserved"
    /\ Drop(u)
    /\ UNCHANGED <<highWater, runtime, ready, gate, requests, replies,
                   brokerFaults, births>>

\* Mutant: an intent without its unit is never created again.
SweepIntentFound(u) ==
    /\ gate.pc = "sweep"
    /\ NextSwept(u)
    /\ inventory[u].state = "create_intent"
    /\ runtime[u] # "absent"
    /\ Goto("created", u)
    /\ UNCHANGED <<inventory, highWater, runtime, ready, staged, requests, replies,
                   brokerFaults, births>>

\* An intent whose creation is known neither to have happened nor not to
\* have: recover_create_intent and discover look for the unit, and only a
\* recovery binding allows to create it again.
SweepIntent(u) ==
    /\ gate.pc = "sweep"
    /\ NextSwept(u)
    /\ inventory[u].state = "create_intent"
    /\ \/ runtime[u] # "absent" /\ Goto("created", u)
       \/ runtime[u] = "absent" /\ HasRecovery /\ Goto("runtime", u)
    /\ UNCHANGED <<inventory, highWater, runtime, ready, staged, requests, replies,
                   brokerFaults, births>>

\* RECONCILIATION_INCOMPLETE: not ready, and a starting broker exits.
SweepIncomplete(u) ==
    /\ gate.pc = "sweep"
    /\ NextSwept(u)
    /\ inventory[u].state = "create_intent"
    /\ runtime[u] = "absent"
    /\ ~HasRecovery
    /\ IF gate.request.op = "start"
       THEN gate' = DownGate /\ UNCHANGED replies
       ELSE Finish(ErrorReply)
    /\ UNCHANGED <<inventory, highWater, runtime, ready, staged, requests,
                   brokerFaults, births>>

SweepTerminate(u) ==
    /\ gate.pc = "sweep"
    /\ NextSwept(u)
    /\ Resumable(u)
    /\ Goto(ResumeAt(inventory[u].state), u)
    /\ UNCHANGED <<inventory, highWater, runtime, ready, staged, requests, replies,
                   brokerFaults, births>>

\* reconciliation_page: the first tombstone after the cursor.
Tombstones(cursor) ==
    {u \in Inventoried : inventory[u].state = "removed" /\ inventory[u].sequence > cursor}

PageReply(cursor) ==
    LET first == {u \in Tombstones(cursor) :
                    \A v \in Tombstones(cursor) : inventory[u].sequence <= inventory[v].sequence}
    IN  IF first = {}
        THEN [NoReply EXCEPT !.kind = "page", !.highWater = highWater]
        ELSE LET u == CHOOSE v \in first : TRUE
             IN  [NoReply EXCEPT !.kind = "page", !.highWater = highWater, !.unit = u,
                                 !.sequence = inventory[u].sequence]

SweepDone ==
    /\ gate.pc = "sweep"
    /\ AcknowledgedUnits = {}
    /\ UnsweptUnits = {}
    /\ ready' = TRUE
    /\ Finish(PageReply(gate.request.sequence))
    /\ UNCHANGED <<inventory, highWater, runtime, staged, requests, brokerFaults, births>>

----------------------------------------------------------------------------
(* Faults.                                                                 *)

\* Mutant: an operation that failed half-way leaves the broker ready.
FailReady ==
    /\ gate.pc \notin {"down", "idle"}
    /\ BrokerFault("operation")
    /\ IF gate.request.op = "start"
       THEN gate' = DownGate /\ UNCHANGED replies
       ELSE Finish(ErrorReply)
    /\ UNCHANGED <<inventory, highWater, runtime, ready, staged, requests, births>>

\* _fail: a call of the runtime or of the inventory fails before the step,
\* or, which is the same, after the step before it.
Fail ==
    /\ gate.pc \notin {"down", "idle"}
    /\ BrokerFault("operation")
    /\ ready' = FALSE
    /\ IF gate.request.op = "start"
       THEN gate' = DownGate /\ UNCHANGED replies
       ELSE Finish(ErrorReply)
    /\ UNCHANGED <<inventory, highWater, runtime, staged, requests, births>>

\* _inventory_call: the first access of a request to the inventory fails; or that to the
\* runtime, of a request that was staged before.
FailAtOnce(r) ==
    /\ ready
    /\ r.op \notin {"page", "ready"}
    /\ BrokerFault("operation")
    /\ Serve(r)
    /\ Answer(r, ErrorReply)
    /\ ready' = FALSE
    /\ UNCHANGED <<inventory, highWater, runtime, staged, gate, births>>

\* The process dies; whoever waits sees the connection close.
Crash ==
    /\ gate.pc # "down"
    /\ BrokerFault("crash")
    /\ ready' = FALSE
    /\ staged' = {}
    /\ gate' = DownGate
    /\ requests' = {}
    /\ replies' = [c \in Callers |-> IF Waiting(c) THEN ErrorReply ELSE replies[c]]
    /\ UNCHANGED <<inventory, highWater, runtime, births>>

\* The runtime's own deadline, or the child itself, ends a unit.
UnitExits(u) ==
    /\ runtime[u] = "running"
    /\ BrokerFault("exit")
    /\ runtime' = [runtime EXCEPT ![u] = "exited"]
    /\ UNCHANGED <<inventory, highWater, ready, staged, gate, requests, replies, births>>

----------------------------------------------------------------------------

ServeRequest ==
    \E r \in requests :
        \/ NotReady(r) \/ Ready(r)
        \/ CreateReplayed(r) \/ CreateRejected(r) \/ CreateReserve(r)
        \/ Stage(r) \/ StageReplayed(r) \/ Collect(r) \/ WorkspaceRefused(r)
        \/ TerminateProven(r) \/ Terminate(r) \/ TerminateRefused(r)
        \/ AcknowledgeAgain(r) \/ AcknowledgeRefused(r)
        \/ Acknowledge(r) \/ MarkAcknowledged(r)
        \/ Page(r)

Sweep ==
    \/ \E u \in UnitIds :
          \/ SweepForget(u) \/ SweepDiscard(u) \/ SweepIntent(u)
          \/ SweepIncomplete(u) \/ SweepTerminate(u)
    \/ SweepDone

BrokerStep ==
    \/ Start
    \/ ServeRequest
    \/ WriteIntent \/ RuntimeCreate \/ WriteCreated
    \/ Kill \/ WriteExit \/ WriteEmpty \/ Remove \/ WriteRemoved
    \/ ForgetAcknowledged
    \/ Sweep

BrokerFaultStep ==
    \/ Fail
    \/ \E r \in requests : FailAtOnce(r)
    \/ Crash
    \/ \E u \in UnitIds : UnitExits(u)

\* Callers that may ask anything at any time, and lose interest at any time.
SendAny(c) ==
    \/ \E s \in CreateSequences : Send(c, "create", s, 0)
    \/ \E op \in {"stage", "collect", "terminate", "ack"} :
          \E s \in CreateSequences, u \in UnitIds : Send(c, op, s, u)
    \/ \E cursor \in 0 .. MaxSequence : Send(c, "page", cursor, 0)
    \/ Send(c, "ready", 0, 0)

CallerStep ==
    \E c \in Callers : SendAny(c) \/ Receive(c) \/ GiveUp(c)

BrokerNext == BrokerStep \/ BrokerFaultStep \/ CallerStep

BrokerSpec == BrokerInit /\ [][BrokerNext]_brokerVars

\* Code that runs keeps running, and systemd restarts a broker that exited.
FairBrokerSpec == BrokerSpec /\ WF_brokerVars(BrokerStep)

----------------------------------------------------------------------------
(* Properties.                                                             *)

\* Types: rows, gate, requests and responses are of their kinds, and the high
\* water and the faults stay within their bounds.
BrokerTypeOK ==
    /\ inventory \in [UnitIds -> Unit]
    /\ highWater \in 0 .. MaxSequence
    /\ runtime \in [UnitIds -> RuntimeStates]
    /\ ready \in BOOLEAN
    /\ staged \subseteq UnitIds
    /\ gate \in Gate
    /\ requests \subseteq Request
    /\ replies \in [Callers -> Reply]
    /\ brokerFaults \in 0 .. MaxBrokerFaults
    /\ births \subseteq CreateSequences \X UnitIds

\* Whatever the runtime holds is inventoried in a state that a sweep will
\* terminate, whenever the broker crashed: create records its intent before
\* it creates, and a proof is recorded after the unit is gone.
NoOrphan ==
    \A u \in UnitIds :
        /\ runtime[u] # "absent" =>
              inventory[u].state \in {"create_intent", "created", "exit_confirmed",
                                      "empty_confirmed"}
        /\ runtime[u] = "running" => inventory[u].state \in {"create_intent", "created"}

\* A create sequence names one unit for ever: a create that is repeated,
\* delayed or served after the acknowledgement starts nothing again.
OneUnitPerSequence ==
    \A b, c \in births : b[1] = c[1] => b[2] = c[2]

\* What exists can be traced: every unit to its row, every row to the one create
\* request that it was reserved for.
UnitsTraced == NoOrphan /\ OneUnitPerSequence

\* Between two requests of a ready broker no unit is half-way: an operation
\* that failed in the middle leaves a broker that must sweep first.
ReadyIsSettled ==
    ready /\ gate.pc = "idle" =>
        \A u \in Inventoried :
            /\ inventory[u].state \in {"created", "removed"}
            /\ ~inventory[u].acknowledged

\* The broker becomes ready only when nothing that it ever created is left.
SweptWhenReady ==
    ~ready /\ ready' => \A u \in UnitIds : runtime'[u] = "absent"

ReadyAfterSweep == [][SweptWhenReady]_brokerVars

\* A unit leaves the inventory only as an unused reservation or as a
\* tombstone: no unit that existed is forgotten before it is proven gone.
ProvenWhenForgotten ==
    \A u \in UnitIds :
        inventory[u].state # "none" /\ inventory'[u].state = "none" =>
            \/ inventory[u].state = "removed"
            \/ \A s \in CreateSequences : <<s, u>> \notin births

ForgottenIsProven == [][ProvenWhenForgotten]_brokerVars
=============================================================================
