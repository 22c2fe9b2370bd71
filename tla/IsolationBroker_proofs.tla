----------------------- MODULE IsolationBroker_proofs -----------------------
(***************************************************************************)
(* Theorems about IsolationBroker, for every set of callers, every number  *)
(* of units, sequences and faults, and both kinds of runtime.              *)
(*                                                                         *)
(* BrokerInv is the inductive invariant.  What the runtime holds must      *)
(* agree with the durable row of the unit at every instant, because any    *)
(* instant may be the last before a crash; and while an operation holds    *)
(* the gate, its next step determines the row and the runtime unit that it *)
(* is about.  The invariants and the action properties follow from it.     *)
(***************************************************************************)
EXTENDS IsolationBroker, TLAPS

\* The durable row of a unit against what the runtime holds.
RowAgrees(u) ==
    /\ inventory[u].state \in {"none", "reserved", "removed"} => runtime[u] = "absent"
    /\ inventory[u].state \in {"exit_confirmed", "empty_confirmed"} => runtime[u] # "running"
    /\ inventory[u].acknowledged => inventory[u].state = "removed"

\* The next step of the operation against the row and the unit it is about.
GateAgrees ==
    LET u == gate.unit
        at(pcs, state) == gate.pc \in pcs => u \in UnitIds /\ inventory[u].state = state
    IN  /\ at({"intent"}, "reserved")
        /\ at({"runtime", "created"}, "create_intent")
        /\ at({"kill", "exit"}, "created")
        /\ at({"empty"}, "exit_confirmed")
        /\ at({"remove", "removed"}, "empty_confirmed")
        /\ at({"forget"}, "removed")
        /\ gate.pc = "exit" => runtime[u] # "running"
        /\ gate.pc = "removed" => runtime[u] = "absent"

\* A sequence that was ever used is at most the high water, and names one
\* unit, among the rows and among the units that ever existed.
SequencesAgree ==
    /\ \A u \in UnitIds : inventory[u].state # "none" =>
          inventory[u].sequence \in 1 .. highWater
    /\ \A b \in births : b[1] <= highWater
    /\ \A u \in UnitIds : \A b \in births :
          inventory[u].state # "none" /\ inventory[u].sequence = b[1] => u = b[2]
    /\ \A u, v \in UnitIds :
          inventory[u].state # "none" /\ inventory[v].state # "none"
          /\ inventory[u].sequence = inventory[v].sequence => u = v
    /\ \A u \in UnitIds : inventory[u].state = "reserved" =>
          \A b \in births : b[2] # u
    /\ OneUnitPerSequence

\* A ready broker has no unit half-way but the one its operation is about.
ReadyAgrees ==
    /\ gate.pc \in {"idle", "down", "sweep"} => gate.unit = 0
    /\ gate.pc \in {"down", "sweep"} => ~ready
    /\ gate.pc # "idle" /\ Sweeping => ~ready
    /\ ready => \A u \in UnitIds : u # gate.unit =>
          /\ inventory[u].state \in {"none", "created", "removed"}
          /\ ~inventory[u].acknowledged

BrokerInv ==
    /\ BrokerTypeOK
    /\ \A u \in UnitIds : RowAgrees(u)
    /\ GateAgrees
    /\ SequencesAgree
    /\ ReadyAgrees

----------------------------------------------------------------------------
(* Types.                                                                  *)

\* Every response that the broker gives is a response.
LEMMA Replies ==
  /\ NoReply \in Reply
  /\ ErrorReply \in Reply
  /\ DoneReply \in Reply
  /\ \A kind \in {"pending", "success", "failure"} : [NoReply EXCEPT !.kind = kind] \in Reply
  /\ \A u \in UnitIds : ProofReply(u) \in Reply
  /\ \A u \in UnitIds : \A state \in UnitStates : UnitReply(u, state) \in Reply
<1>. /\ 0 \in 0 .. MaxUnits
     /\ 0 \in 0 .. MaxSequence
     /\ UnitIds \subseteq 0 .. MaxUnits
     /\ "none" \in UnitStates
  BY IdentityAssumption DEF UnitIds, UnitStates
<1>1. NoReply \in Reply
  BY DEF Reply, NoReply
<1>2. /\ ErrorReply \in Reply
      /\ DoneReply \in Reply
      /\ \A kind \in {"pending", "success", "failure"} : [NoReply EXCEPT !.kind = kind] \in Reply
  BY <1>1 DEF Reply, ErrorReply, DoneReply
<1>3. \A u \in UnitIds : ProofReply(u) \in Reply
  BY <1>1 DEF Reply, ProofReply
<1>4. \A u \in UnitIds : \A state \in UnitStates : UnitReply(u, state) \in Reply
  BY <1>1 DEF Reply, UnitReply
<1>. QED
  BY <1>1, <1>2, <1>3, <1>4

\* reconciliation_page answers with a response.
LEMMA PageReplies ==
  ASSUME BrokerTypeOK, NEW cursor
  PROVE  PageReply(cursor) \in Reply
<1>. DEFINE first == {u \in Tombstones(cursor) :
                        \A v \in Tombstones(cursor) : inventory[u].sequence <= inventory[v].sequence}
<1>1. CASE first = {}
  <2>1. PageReply(cursor) = [NoReply EXCEPT !.kind = "page", !.highWater = highWater]
    BY <1>1 DEF PageReply
  <2>. QED
    BY <2>1, Replies DEF Reply, BrokerTypeOK
<1>2. CASE first # {}
  <2>. DEFINE u == CHOOSE v \in first : TRUE
  <2>1. u \in first
    BY <1>2
  <2>2. u \in UnitIds
    BY <2>1 DEF Tombstones, Inventoried
  <2>3. u \in 0 .. MaxUnits /\ inventory[u].sequence \in 0 .. MaxSequence
    BY <2>2, IdentityAssumption DEF BrokerTypeOK, Unit, UnitIds
  <2>4. PageReply(cursor) = [NoReply EXCEPT !.kind = "page", !.highWater = highWater,
                                            !.unit = u, !.sequence = inventory[u].sequence]
    BY <1>2 DEF PageReply
  <2>. HIDE DEF u
  <2>. QED
    BY <2>3, <2>4, Replies DEF Reply, BrokerTypeOK
<1>. QED
  BY <1>1, <1>2

\* An answer reaches its caller or nobody.
LEMMA AnswerType ==
  ASSUME BrokerTypeOK, NEW r \in Request, NEW reply \in Reply, Answer(r, reply)
  PROVE  replies' \in [Callers -> Reply]
  BY DEF BrokerTypeOK, Request, Answer

\* The gates that steps set are gates.
LEMMA GateTypes ==
  /\ IdleGate \in Gate
  /\ DownGate \in Gate
  BY IdentityAssumption
  DEF IdleGate, DownGate, Gate, GateSteps, StartRequest, Request, Operations

\* A step of an operation on a unit leaves a gate.
LEMMA GotoType ==
  ASSUME BrokerTypeOK, NEW pc \in GateSteps, NEW u \in 0 .. MaxUnits, Goto(pc, u)
  PROVE  gate' \in Gate
  BY DEF BrokerTypeOK, Goto, Gate

\* Units are unit fields, and 0 stands for none.
LEMMA UnitField == UnitIds \subseteq 0 .. MaxUnits /\ 0 \notin UnitIds
  BY IdentityAssumption DEF UnitIds

\* A request that is answered at once changes the type of nothing.
LEMMA AnswerAtType ==
  ASSUME BrokerTypeOK, NEW r \in Request, NEW reply \in Reply, AnswerAt(r, reply),
         ready' \in BOOLEAN, staged' \subseteq UnitIds
  PROVE  BrokerTypeOK'
<1>1. replies' \in [Callers -> Reply]
  BY AnswerType DEF AnswerAt
<1>2. requests' \subseteq Request
  BY DEF AnswerAt, Serve, BrokerTypeOK
<1>. QED
  BY <1>1, <1>2 DEF AnswerAt, BrokerTypeOK

\* transition keeps the inventory well typed.
LEMMA TransitionType ==
  ASSUME BrokerTypeOK, NEW target \in UnitStates, Transition(target)
  PROVE  inventory' \in [UnitIds -> Unit]
  BY DEF BrokerTypeOK, Transition, Unit

\* So does forgetting a unit.
LEMMA DropType ==
  ASSUME BrokerTypeOK, NEW u \in UnitIds, Drop(u)
  PROVE  inventory' \in [UnitIds -> Unit] /\ staged' \subseteq UnitIds
  BY IdentityAssumption DEF BrokerTypeOK, Drop, Unit, NoUnit, UnitStates

----------------------------------------------------------------------------
(* Steps that several actions share.                                       *)

\* Rows that keep their sequence, or go, use no sequence again.
LEMMA SequencesKept ==
  ASSUME BrokerInv, BrokerTypeOK',
         UNCHANGED <<highWater, births>>,
         \A u \in UnitIds : inventory'[u].state # "none" =>
            /\ inventory[u].state # "none"
            /\ inventory'[u].sequence = inventory[u].sequence
            /\ inventory'[u].state = "reserved" => inventory[u].state = "reserved"
  PROVE  SequencesAgree'
<1>1. UNCHANGED OneUnitPerSequence
  BY DEF OneUnitPerSequence
<1>. QED
  BY <1>1 DEF BrokerInv, SequencesAgree

\* A step that leaves the rows, the units and the operation alone, and makes
\* nothing ready, keeps the invariant.
LEMMA Quiet ==
  ASSUME BrokerInv, BrokerTypeOK',
         UNCHANGED <<inventory, highWater, runtime, births>>,
         gate'.pc = gate.pc, gate'.unit = gate.unit, gate'.request.op = gate.request.op,
         ready' => ready
  PROVE  BrokerInv'
<1>1. \A u \in UnitIds : RowAgrees(u)'
  BY DEF BrokerInv, RowAgrees
<1>2. GateAgrees'
  BY DEF BrokerInv, GateAgrees
<1>3. SequencesAgree'
  BY SequencesKept
<1>4. ReadyAgrees'
  BY DEF BrokerInv, ReadyAgrees, Sweeping
<1>. QED
  BY <1>1, <1>2, <1>3, <1>4 DEF BrokerInv

\* A request that is answered at once keeps the invariant.
LEMMA QuietAnswer ==
  ASSUME BrokerInv, NEW r \in requests, NEW reply \in Reply, AnswerAt(r, reply),
         ready' \in BOOLEAN, staged' \subseteq UnitIds, ready' => ready
  PROVE  BrokerInv'
<1>1. r \in Request
  BY DEF BrokerInv, BrokerTypeOK
<1>2. BrokerTypeOK'
  BY <1>1, AnswerAtType DEF BrokerInv
<1>. QED
  BY <1>2, Quiet DEF AnswerAt

\* A step that only moves the gate keeps everything but the gate's part.
LEMMA GateMoves ==
  ASSUME BrokerInv, BrokerTypeOK',
         UNCHANGED <<inventory, highWater, runtime, births>>,
         GateAgrees', ReadyAgrees'
  PROVE  BrokerInv'
<1>1. \A u \in UnitIds : RowAgrees(u)'
  BY DEF BrokerInv, RowAgrees
<1>2. SequencesAgree'
  BY SequencesKept
<1>. QED
  BY <1>1, <1>2 DEF BrokerInv

----------------------------------------------------------------------------
(* Callers and the requests that are answered at once.                     *)

\* The callers' steps keep the invariant.
LEMMA CallersKeep ==
  ASSUME BrokerInv, NEW c \in Callers, SendAny(c) \/ Receive(c) \/ GiveUp(c)
  PROVE  BrokerInv'
<1>1. ASSUME NEW op \in Operations, NEW s \in 0 .. MaxSequence, NEW u \in 0 .. MaxUnits,
             Send(c, op, s, u)
      PROVE  BrokerInv'
  <2>1. requests' \subseteq Request /\ replies' \in [Callers -> Reply]
    BY <1>1, Replies DEF Send, BrokerInv, BrokerTypeOK, Request
  <2>2. BrokerTypeOK'
    BY <1>1, <2>1 DEF Send, BrokerInv, BrokerTypeOK
  <2>. QED
    BY <1>1, <2>2, Quiet DEF Send
<1>2. CASE SendAny(c)
  <2>1. /\ 0 \in 0 .. MaxSequence /\ 0 \in 0 .. MaxUnits
        /\ CreateSequences \subseteq 0 .. MaxSequence
        /\ UnitIds \subseteq 0 .. MaxUnits
        /\ {"create", "stage", "collect", "terminate", "ack", "page", "ready"} \subseteq Operations
    BY IdentityAssumption DEF CreateSequences, UnitIds, Operations
  <2>. QED
    BY <1>1, <1>2, <2>1 DEF SendAny
<1>3. CASE Receive(c)
  <2>1. BrokerTypeOK'
    BY <1>3, Replies DEF Receive, BrokerInv, BrokerTypeOK
  <2>. QED
    BY <1>3, <2>1, Quiet DEF Receive
<1>4. CASE GiveUp(c)
  <2>1. requests' \subseteq Request
    BY <1>4 DEF GiveUp, BrokerInv, BrokerTypeOK, Request
  <2>2. /\ gate' \in Gate
        /\ gate'.pc = gate.pc /\ gate'.unit = gate.unit
        /\ gate'.request.op = gate.request.op
    BY <1>4 DEF GiveUp, BrokerInv, BrokerTypeOK, Gate, Request
  <2>3. BrokerTypeOK'
    BY <1>4, <2>1, <2>2 DEF GiveUp, BrokerInv, BrokerTypeOK
  <2>. QED
    BY <1>4, <2>2, <2>3, Quiet DEF GiveUp
<1>. QED
  BY <1>2, <1>3, <1>4

\* The requests that are answered in one step, and change no row.
AnsweredAtOnce(r) ==
    \/ NotReady(r) \/ Ready(r) \/ CreateReplayed(r) \/ CreateRejected(r)
    \/ Stage(r) \/ StageReplayed(r) \/ Collect(r) \/ WorkspaceRefused(r)
    \/ TerminateProven(r) \/ TerminateRefused(r)
    \/ AcknowledgeAgain(r) \/ AcknowledgeRefused(r)

\* They keep the invariant.
LEMMA AnswersKeep ==
  ASSUME BrokerInv, NEW r \in requests, AnsweredAtOnce(r)
  PROVE  BrokerInv'
<1>. BrokerTypeOK /\ r \in Request
  BY DEF BrokerInv, BrokerTypeOK
<1>1. ASSUME NEW reply \in Reply, AnswerAt(r, reply), UNCHANGED <<ready, staged>>
      PROVE  BrokerInv'
  BY <1>1, QuietAnswer DEF BrokerTypeOK
<1>2. CASE NotReady(r) \/ CreateRejected(r) \/ WorkspaceRefused(r) \/ TerminateRefused(r)
           \/ AcknowledgeRefused(r)
  BY <1>1, <1>2, Replies
  DEF NotReady, CreateRejected, WorkspaceRefused, TerminateRefused, AcknowledgeRefused
<1>3. CASE Ready(r) \/ StageReplayed(r) \/ AcknowledgeAgain(r)
  BY <1>1, <1>3, Replies DEF Ready, StageReplayed, AcknowledgeAgain
<1>4. CASE CreateReplayed(r)
  <2>1. PICK u \in SameSequence(r.sequence) : AnswerAt(r, UnitReply(u, inventory[u].state))
    BY <1>4 DEF CreateReplayed
  <2>2. u \in UnitIds /\ inventory[u].state \in UnitStates
    BY DEF SameSequence, Inventoried, BrokerTypeOK, Unit
  <2>. QED
    BY <1>1, <1>4, <2>1, <2>2, Replies DEF CreateReplayed
<1>5. CASE TerminateProven(r)
  <2>1. r.unit \in UnitIds
    BY <1>5 DEF TerminateProven, Owned, Inventoried
  <2>. QED
    BY <1>1, <1>5, <2>1, Replies DEF TerminateProven
<1>6. CASE Stage(r)
  <2>1. r.unit \in UnitIds
    BY <1>6 DEF Stage, WorkspaceUnit, Owned, Inventoried
  <2>2. CASE runtime[r.unit] = "running"
    BY <1>6, <2>1, <2>2, QuietAnswer, Replies DEF Stage, BrokerTypeOK
  <2>3. CASE runtime[r.unit] # "running"
    BY <1>6, <2>3, QuietAnswer, Replies DEF Stage, BrokerTypeOK
  <2>. QED
    BY <2>2, <2>3
<1>7. CASE Collect(r)
  <2>1. CASE runtime[r.unit] = "running"
    <3>1. PICK kind \in {"pending", "success", "failure"} :
             AnswerAt(r, [NoReply EXCEPT !.kind = kind])
      BY <1>7, <2>1 DEF Collect
    <3>. QED
      BY <1>1, <1>7, <2>1, <3>1, Replies DEF Collect
  <2>2. CASE runtime[r.unit] # "running"
    BY <1>7, <2>2, QuietAnswer, Replies DEF Collect, BrokerTypeOK
  <2>. QED
    BY <2>1, <2>2
<1>. QED
  BY <1>2, <1>3, <1>4, <1>5, <1>6, <1>7 DEF AnsweredAtOnce

----------------------------------------------------------------------------
(* create.                                                                 *)

\* The identifier that is drawn is new: it has no row, and never had a unit.
LEMMA FreshUnitIsNew ==
  ASSUME UnitIds \ Issued # {}
  PROVE  /\ FreshUnit \in UnitIds
         /\ inventory[FreshUnit].state = "none"
         /\ \A b \in births : b[2] # FreshUnit
  BY DEF FreshUnit, Issued, Inventoried

\* reserve keeps the invariant: the sequence is above every one in use.
LEMMA ReserveKeeps ==
  ASSUME BrokerInv, NEW r \in requests, CreateReserve(r)
  PROVE  BrokerInv'
<1>. DEFINE f == FreshUnit
            row == ReservedUnit(r.sequence)
<1>1. /\ f \in UnitIds
      /\ inventory[f].state = "none"
      /\ \A b \in births : b[2] # f
  BY FreshUnitIsNew DEF CreateReserve, ReserveThen
<1>2. /\ r \in Request
      /\ r.sequence \in 0 .. MaxSequence
      /\ r.sequence > highWater
      /\ highWater \in 0 .. MaxSequence
      /\ inventory \in [UnitIds -> Unit]
  BY DEF BrokerInv, BrokerTypeOK, Request, CreateReserve, ReserveThen, FreshSequence
<1>3. /\ row \in Unit
      /\ row.state = "reserved"
      /\ row.sequence = r.sequence
      /\ ~row.acknowledged
  BY <1>2 DEF ReservedUnit, Unit, UnitStates
<1>. HIDE DEF f, row
<1>a. /\ ready /\ r.op = "create" /\ gate.pc = "idle"
      /\ requests' = requests \ {r}
      /\ inventory' = [inventory EXCEPT ![f] = row]
      /\ highWater' = r.sequence
      /\ gate' = [pc |-> "intent", request |-> r, unit |-> f]
      /\ UNCHANGED <<runtime, ready, staged, replies, brokerFaults, births>>
  BY DEF CreateReserve, ReserveThen, Serve, f, row
<1>4. BrokerTypeOK'
  <2>1. inventory' \in [UnitIds -> Unit]
    BY <1>1, <1>2, <1>3, <1>a
  <2>2. gate' \in Gate
    BY <1>1, <1>2, <1>a, UnitField DEF Gate, GateSteps
  <2>. QED
    BY <1>2, <1>a, <2>1, <2>2 DEF BrokerInv, BrokerTypeOK
<1>5. \A u \in UnitIds : RowAgrees(u)'
  BY <1>1, <1>2, <1>3, <1>a DEF BrokerInv, RowAgrees
<1>6. GateAgrees'
  BY <1>1, <1>2, <1>3, <1>a DEF GateAgrees
<1>7. SequencesAgree'
  <2>1. OneUnitPerSequence'
    BY <1>a DEF BrokerInv, SequencesAgree, OneUnitPerSequence
  <2>2. \A u \in UnitIds : inventory'[u].state # "none" => inventory'[u].sequence \in 1 .. highWater'
    BY <1>1, <1>2, <1>3, <1>a DEF BrokerInv, SequencesAgree
  <2>3. \A b \in births' : b[1] <= highWater'
    <3>1. \A b \in births : b[1] \in Int
      BY DEF BrokerInv, BrokerTypeOK, CreateSequences
    <3>. QED
      BY <1>2, <1>a, <3>1 DEF BrokerInv, SequencesAgree
  <2>4. \A u \in UnitIds : \A b \in births' :
           inventory'[u].state # "none" /\ inventory'[u].sequence = b[1] => u = b[2]
    BY <1>1, <1>2, <1>3, <1>a DEF BrokerInv, SequencesAgree
  <2>5. \A u, v \in UnitIds :
           inventory'[u].state # "none" /\ inventory'[v].state # "none"
           /\ inventory'[u].sequence = inventory'[v].sequence => u = v
    BY <1>1, <1>2, <1>3, <1>a DEF BrokerInv, SequencesAgree
  <2>6. \A u \in UnitIds : inventory'[u].state = "reserved" => \A b \in births' : b[2] # u
    BY <1>1, <1>2, <1>3, <1>a DEF BrokerInv, SequencesAgree
  <2>. QED
    BY <2>1, <2>2, <2>3, <2>4, <2>5, <2>6 DEF SequencesAgree
<1>8. ReadyAgrees'
  <2>1. \A u \in UnitIds : u # f => u # gate.unit /\ inventory'[u] = inventory[u]
    BY <1>1, <1>2, <1>a, UnitField DEF BrokerInv, ReadyAgrees
  <2>2. gate'.unit = f /\ gate'.pc = "intent" /\ gate'.request.op = "create"
    BY <1>a
  <2>. QED
    BY <1>a, <2>1, <2>2 DEF BrokerInv, ReadyAgrees, Sweeping
<1>. QED
  BY <1>4, <1>5, <1>6, <1>7, <1>8 DEF BrokerInv

\* A durable step on the unit of the operation keeps the rows and the
\* sequences in agreement.
LEMMA TransitionKeeps ==
  ASSUME BrokerInv, BrokerTypeOK',
         NEW target \in UnitStates \ {"none", "reserved"}, Transition(target),
         gate.unit \in UnitIds,
         inventory[gate.unit].state \notin {"none", "removed"},
         target = "removed" => runtime[gate.unit] = "absent",
         target \in {"exit_confirmed", "empty_confirmed"} => runtime[gate.unit] # "running"
  PROVE  /\ \A u \in UnitIds : RowAgrees(u)'
         /\ SequencesAgree'
<1>. inventory \in [UnitIds -> Unit]
  BY DEF BrokerInv, BrokerTypeOK
<1>1. \A u \in UnitIds :
         /\ inventory'[u].state = IF u = gate.unit THEN target ELSE inventory[u].state
         /\ inventory'[u].sequence = inventory[u].sequence
         /\ inventory'[u].acknowledged = inventory[u].acknowledged
  BY DEF Transition, Unit
<1>2. \A u \in UnitIds : RowAgrees(u)'
  BY <1>1 DEF BrokerInv, RowAgrees, Transition
<1>3. SequencesAgree'
  BY <1>1, SequencesKept DEF Transition
<1>. QED
  BY <1>2, <1>3

\* create_intent keeps the invariant.
LEMMA IntentKeeps ==
  ASSUME BrokerInv, WriteIntent
  PROVE  BrokerInv'
<1>. USE DEF WriteIntent
<1>1. gate.unit \in UnitIds /\ inventory[gate.unit].state = "reserved"
  BY DEF BrokerInv, GateAgrees
<1>2. BrokerTypeOK'
  BY <1>1, TransitionType, GotoType, UnitField
  DEF BrokerInv, BrokerTypeOK, Transition, UnitStates, GateSteps
<1>3. (\A u \in UnitIds : RowAgrees(u)') /\ SequencesAgree'
  BY <1>1, <1>2, TransitionKeeps DEF UnitStates
<1>4. GateAgrees'
  BY <1>1 DEF BrokerInv, BrokerTypeOK, GateAgrees, Transition, Goto, Gate, Unit
<1>5. ReadyAgrees'
  BY <1>1 DEF BrokerInv, BrokerTypeOK, ReadyAgrees, Sweeping, Transition, Goto, Gate, Unit
<1>. QED
  BY <1>2, <1>3, <1>4, <1>5 DEF BrokerInv

\* The runtime's creation keeps the invariant: the row has its intent.
LEMMA RuntimeCreateKeeps ==
  ASSUME BrokerInv, RuntimeCreate
  PROVE  BrokerInv'
<1>. USE DEF RuntimeCreate
<1>. DEFINE g == gate.unit
            s == inventory[gate.unit].sequence
<1>1. g \in UnitIds /\ inventory[g].state = "create_intent"
  BY DEF BrokerInv, GateAgrees
<1>2. s \in 1 .. highWater /\ highWater \in 0 .. MaxSequence
  BY <1>1 DEF BrokerInv, BrokerTypeOK, SequencesAgree
<1>3. births' = births \cup {<<s, g>>}
  OBVIOUS
<1>4. BrokerTypeOK'
  <2>1. births' \subseteq CreateSequences \X UnitIds
    BY <1>1, <1>2, <1>3, IdentityAssumption DEF BrokerInv, BrokerTypeOK, CreateSequences
  <2>2. gate' \in Gate
    BY <1>1, GotoType, UnitField DEF BrokerInv, GateSteps
  <2>. QED
    BY <2>1, <2>2 DEF BrokerInv, BrokerTypeOK, RuntimeStates
<1>5. \A u \in UnitIds : RowAgrees(u)'
  BY <1>1 DEF BrokerInv, BrokerTypeOK, RowAgrees
<1>6. GateAgrees'
  BY <1>1 DEF BrokerInv, BrokerTypeOK, GateAgrees, Goto, Gate
<1>7. SequencesAgree'
  <2>. HIDE DEF RuntimeCreate
  <2>. inventory' = inventory /\ highWater' = highWater
    BY DEF RuntimeCreate
  <2>1. OneUnitPerSequence'
    BY <1>1, <1>3 DEF BrokerInv, SequencesAgree, OneUnitPerSequence
  <2>2. \A b \in births' : b[1] <= highWater'
    BY <1>2, <1>3 DEF BrokerInv, SequencesAgree
  <2>3. \A u \in UnitIds : \A b \in births' :
           inventory'[u].state # "none" /\ inventory'[u].sequence = b[1] => u = b[2]
    BY <1>1, <1>3 DEF BrokerInv, SequencesAgree
  <2>4. \A u \in UnitIds : inventory'[u].state = "reserved" => \A b \in births' : b[2] # u
    BY <1>1, <1>3 DEF BrokerInv, SequencesAgree
  <2>. QED
    BY <2>1, <2>2, <2>3, <2>4 DEF BrokerInv, SequencesAgree
<1>8. ReadyAgrees'
  BY <1>1 DEF BrokerInv, BrokerTypeOK, ReadyAgrees, Sweeping, Goto, Gate
<1>. QED
  BY <1>4, <1>5, <1>6, <1>7, <1>8 DEF BrokerInv

\* Where the gate is after an operation, and after the process.
LEMMA GateFields ==
  /\ IdleGate.pc = "idle" /\ IdleGate.unit = 0 /\ IdleGate.request.op = "start"
  /\ DownGate.pc = "down" /\ DownGate.unit = 0 /\ DownGate.request.op = "start"
  BY DEF IdleGate, DownGate, StartRequest

\* The end of an operation is well typed.
LEMMA FinishType ==
  ASSUME BrokerTypeOK, NEW reply \in Reply, Finish(reply)
  PROVE  gate' \in Gate /\ replies' \in [Callers -> Reply]
<1>1. gate.request \in Request
  BY DEF BrokerTypeOK, Gate
<1>. QED
  BY <1>1, AnswerType, GateTypes DEF Finish

\* A durable step that the operation goes on from, at a step that fits the
\* new state of the row, or that ends the operation in a settled state.
LEMMA DurableStepKeeps ==
  ASSUME BrokerInv,
         NEW target \in UnitStates \ {"none", "reserved"}, Transition(target),
         gate.unit \in UnitIds,
         gate.pc \notin {"idle", "down", "sweep"},
         inventory[gate.unit].state \notin {"none", "removed"},
         target = "removed" => runtime[gate.unit] = "absent",
         target \in {"exit_confirmed", "empty_confirmed"} => runtime[gate.unit] # "running",
         gate' \in Gate, replies' \in [Callers -> Reply],
         \/ /\ gate'.unit = gate.unit
            /\ gate'.request.op = gate.request.op
            /\ <<gate'.pc, target>> \in {<<"runtime", "create_intent">>, <<"kill", "created">>,
                                         <<"empty", "exit_confirmed">>,
                                         <<"remove", "empty_confirmed">>}
         \/ /\ Sweeping
            /\ gate'.pc = "sweep" /\ gate'.unit = 0
         \/ /\ gate' = IdleGate
            /\ target \in {"created", "removed"}
  PROVE  BrokerInv'
<1>. inventory \in [UnitIds -> Unit]
  BY DEF BrokerInv, BrokerTypeOK
<1>1. \A u \in UnitIds :
         /\ inventory'[u].state = IF u = gate.unit THEN target ELSE inventory[u].state
         /\ inventory'[u].acknowledged = inventory[u].acknowledged
  BY DEF Transition, Unit
<1>2. BrokerTypeOK'
  BY TransitionType DEF BrokerInv, BrokerTypeOK, Transition
<1>3. (\A u \in UnitIds : RowAgrees(u)') /\ SequencesAgree'
  BY <1>2, TransitionKeeps
<1>4. GateAgrees'
  BY <1>1, GateFields DEF GateAgrees
<1>5. ReadyAgrees'
  <2>1. ~inventory[gate.unit].acknowledged
    BY DEF BrokerInv, RowAgrees
  <2>2. CASE ~ready
    BY <2>2, GateFields DEF Transition, ReadyAgrees
  <2>3. CASE ready
    <3>1. ready' /\ ~Sweeping
      BY <2>3 DEF Transition, BrokerInv, ReadyAgrees
    <3>2. \A u \in UnitIds : u # gate'.unit =>
            /\ inventory'[u].state \in {"none", "created", "removed"}
            /\ ~inventory'[u].acknowledged
      BY <1>1, <2>1, <2>3, <3>1, GateFields, UnitField DEF BrokerInv, ReadyAgrees
    <3>. QED
      BY <3>1, <3>2, GateFields DEF ReadyAgrees, Sweeping
  <2>. QED
    BY <2>2, <2>3
<1>. QED
  BY <1>2, <1>3, <1>4, <1>5 DEF BrokerInv

\* Where Goto leaves the gate.
LEMMA GotoFields ==
  ASSUME BrokerTypeOK, NEW pc, NEW u, Goto(pc, u)
  PROVE  gate'.pc = pc /\ gate'.unit = u /\ gate'.request = gate.request
  BY DEF BrokerTypeOK, Goto, Gate

\* What remains of create keeps the invariant: the unit is recorded.
LEMMA CreatedKeeps ==
  ASSUME BrokerInv, WriteCreated
  PROVE  BrokerInv'
<1>. USE DEF WriteCreated
<1>1. gate.unit \in UnitIds /\ inventory[gate.unit].state = "create_intent" /\ BrokerTypeOK
  BY DEF BrokerInv, GateAgrees
<1>2. CASE Sweeping
  <2>1. /\ gate' \in Gate /\ gate'.pc = "kill"
        /\ gate'.unit = gate.unit /\ gate'.request = gate.request
    BY <1>1, <1>2, GotoType, GotoFields, UnitField DEF GateSteps
  <2>. QED
    BY <1>1, <1>2, <2>1, DurableStepKeeps DEF BrokerTypeOK, UnitStates
<1>3. CASE ~Sweeping
  <2>1. gate' \in Gate /\ replies' \in [Callers -> Reply] /\ gate' = IdleGate
    BY <1>1, <1>3, FinishType, Replies DEF Finish, UnitStates
  <2>. QED
    BY <1>1, <2>1, DurableStepKeeps DEF UnitStates
<1>. QED
  BY <1>2, <1>3

----------------------------------------------------------------------------
(* terminate.                                                              *)

\* The durable steps of a termination keep the invariant.
LEMMA ExitKeeps ==
  ASSUME BrokerInv, WriteExit \/ WriteEmpty
  PROVE  BrokerInv'
<1>. BrokerTypeOK
  BY DEF BrokerInv
<1>1. CASE WriteExit
  <2>1. gate.unit \in UnitIds /\ inventory[gate.unit].state = "created"
        /\ runtime[gate.unit] # "running"
    BY <1>1 DEF WriteExit, BrokerInv, GateAgrees
  <2>2. /\ gate' \in Gate /\ gate'.pc = "empty"
        /\ gate'.unit = gate.unit /\ gate'.request = gate.request
    BY <1>1, <2>1, GotoType, GotoFields, UnitField DEF WriteExit, GateSteps
  <2>. QED
    BY <1>1, <2>1, <2>2, DurableStepKeeps DEF WriteExit, BrokerTypeOK, UnitStates
<1>2. CASE WriteEmpty
  <2>1. gate.unit \in UnitIds /\ inventory[gate.unit].state = "exit_confirmed"
        /\ runtime[gate.unit] # "running"
    BY <1>2 DEF WriteEmpty, BrokerInv, GateAgrees, RowAgrees
  <2>2. /\ gate' \in Gate /\ gate'.pc = "remove"
        /\ gate'.unit = gate.unit /\ gate'.request = gate.request
    BY <1>2, <2>1, GotoType, GotoFields, UnitField DEF WriteEmpty, GateSteps
  <2>. QED
    BY <1>2, <2>1, <2>2, DurableStepKeeps DEF WriteEmpty, BrokerTypeOK, UnitStates
<1>. QED
  BY <1>1, <1>2

\* mark_removed keeps the invariant: the runtime unit is gone.
LEMMA RemovedKeeps ==
  ASSUME BrokerInv, WriteRemoved
  PROVE  BrokerInv'
<1>. USE DEF WriteRemoved
<1>1. /\ gate.unit \in UnitIds /\ inventory[gate.unit].state = "empty_confirmed"
      /\ runtime[gate.unit] = "absent"
      /\ BrokerTypeOK
  BY DEF BrokerInv, GateAgrees
<1>2. CASE Sweeping
  <2>1. gate' \in Gate /\ gate'.pc = "sweep" /\ gate'.unit = 0
    BY <1>1, <1>2, GotoType, GotoFields, IdentityAssumption DEF GateSteps
  <2>. QED
    BY <1>1, <1>2, <2>1, DurableStepKeeps DEF BrokerTypeOK, UnitStates
<1>3. CASE ~Sweeping
  <2>1. gate' \in Gate /\ replies' \in [Callers -> Reply] /\ gate' = IdleGate
    BY <1>1, <1>3, FinishType, Replies DEF Finish
  <2>. QED
    BY <1>1, <2>1, DurableStepKeeps DEF UnitStates
<1>. QED
  BY <1>2, <1>3

\* What the runtime does to a unit whose row allows it keeps the invariant.
LEMMA RuntimeStepKeeps ==
  ASSUME BrokerInv, NEW u \in UnitIds, NEW state \in {"exited", "absent"},
         state = "exited" => inventory[u].state \notin {"none", "reserved", "removed"},
         runtime' = [runtime EXCEPT ![u] = state],
         UNCHANGED <<inventory, highWater, ready, staged, requests, replies, births>>,
         brokerFaults' \in 0 .. MaxBrokerFaults,
         gate' \in Gate, gate'.unit = gate.unit, gate'.request = gate.request,
         \/ gate'.pc = gate.pc /\ state = "exited" /\ runtime[u] = "running"
         \/ gate.pc = "kill" /\ gate'.pc = "exit" /\ u = gate.unit
         \/ gate.pc = "remove" /\ gate'.pc = "removed" /\ u = gate.unit /\ state = "absent"
  PROVE  BrokerInv'
<1>1. BrokerTypeOK'
  BY DEF BrokerInv, BrokerTypeOK, RuntimeStates
<1>2. \A v \in UnitIds : runtime'[v] = IF v = u THEN state ELSE runtime[v]
  BY DEF BrokerInv, BrokerTypeOK
<1>3. \A v \in UnitIds : RowAgrees(v)'
  BY <1>2 DEF BrokerInv, RowAgrees
<1>4. GateAgrees'
  BY <1>2 DEF BrokerInv, GateAgrees
<1>5. SequencesAgree'
  BY <1>1, SequencesKept
<1>6. ReadyAgrees'
  BY DEF BrokerInv, ReadyAgrees, Sweeping
<1>. QED
  BY <1>1, <1>3, <1>4, <1>5, <1>6 DEF BrokerInv

\* hard_terminate, remove, and a unit that ends by itself.
LEMMA RuntimeKeeps ==
  ASSUME BrokerInv, Kill \/ Remove \/ \E u \in UnitIds : UnitExits(u)
  PROVE  BrokerInv'
<1>. BrokerTypeOK
  BY DEF BrokerInv
<1>. brokerFaults \in 0 .. MaxBrokerFaults /\ gate \in Gate
  BY DEF BrokerTypeOK
<1>1. CASE Kill
  <2>1. gate.unit \in UnitIds /\ inventory[gate.unit].state = "created"
    BY <1>1 DEF Kill, BrokerInv, GateAgrees
  <2>2. /\ gate' \in Gate /\ gate'.pc = "exit"
        /\ gate'.unit = gate.unit /\ gate'.request = gate.request
    BY <1>1, <2>1, GotoType, GotoFields, UnitField DEF Kill, GateSteps
  <2>. QED
    BY <1>1, <2>1, <2>2, RuntimeStepKeeps DEF Kill
<1>2. CASE Remove
  <2>1. gate.unit \in UnitIds
    BY <1>2 DEF Remove, BrokerInv, GateAgrees
  <2>2. /\ gate' \in Gate /\ gate'.pc = "removed"
        /\ gate'.unit = gate.unit /\ gate'.request = gate.request
    BY <1>2, <2>1, GotoType, GotoFields, UnitField DEF Remove, GateSteps
  <2>. QED
    BY <1>2, <2>1, <2>2, RuntimeStepKeeps DEF Remove
<1>3. ASSUME NEW u \in UnitIds, UnitExits(u)
      PROVE  BrokerInv'
  <2>1. inventory[u].state \notin {"none", "reserved", "removed"}
    BY <1>3 DEF UnitExits, BrokerInv, RowAgrees
  <2>2. brokerFaults' \in 0 .. MaxBrokerFaults
    BY <1>3, BrokerAssumption DEF UnitExits, BrokerFault
  <2>. QED
    BY <1>3, <2>1, <2>2, RuntimeStepKeeps DEF UnitExits
<1>. QED
  BY <1>1, <1>2, <1>3

\* terminate begins where the row left off.
LEMMA TerminateKeeps ==
  ASSUME BrokerInv, NEW r \in requests, Terminate(r)
  PROVE  BrokerInv'
<1>. USE DEF Terminate
<1>1. /\ r \in Request /\ r.unit \in UnitIds /\ r.op = "terminate"
      /\ gate.pc = "idle" /\ gate.unit = 0
      /\ inventory[r.unit].state \in {"created", "exit_confirmed", "empty_confirmed"}
  BY DEF BrokerInv, BrokerTypeOK, Owned, Inventoried, Resumable, Serve, ReadyAgrees
<1>2. /\ gate'.unit = r.unit
      /\ gate'.request = r
      /\ <<gate'.pc, inventory[r.unit].state>> \in
            {<<"kill", "created">>, <<"empty", "exit_confirmed">>, <<"remove", "empty_confirmed">>}
      /\ gate' \in Gate
  BY <1>1, UnitField DEF ResumeAt, Gate, GateSteps
<1>3. BrokerTypeOK'
  BY <1>2 DEF BrokerInv, BrokerTypeOK, Serve
<1>4. GateAgrees'
  BY <1>1, <1>2 DEF GateAgrees
<1>5. ReadyAgrees'
  BY <1>1, <1>2, UnitField DEF BrokerInv, ReadyAgrees, Sweeping
<1>. QED
  BY <1>3, <1>4, <1>5, GateMoves

----------------------------------------------------------------------------
(* acknowledge.                                                            *)

\* Forgetting a reservation or a tombstone keeps rows and sequences in
\* agreement.
LEMMA DropKeeps ==
  ASSUME BrokerInv, BrokerTypeOK', NEW u \in UnitIds, Drop(u),
         inventory[u].state \in {"reserved", "removed"},
         UNCHANGED <<highWater, runtime, births>>
  PROVE  /\ \A v \in UnitIds : RowAgrees(v)'
         /\ SequencesAgree'
         /\ \A v \in UnitIds : v # u => inventory'[v] = inventory[v]
         /\ inventory'[u].state = "none" /\ ~inventory'[u].acknowledged
<1>. inventory \in [UnitIds -> Unit]
  BY DEF BrokerInv, BrokerTypeOK
<1>1. /\ \A v \in UnitIds : v # u => inventory'[v] = inventory[v]
      /\ inventory'[u] = NoUnit
  BY DEF Drop
<1>2. NoUnit.state = "none" /\ ~NoUnit.acknowledged
  BY DEF NoUnit
<1>3. \A v \in UnitIds : RowAgrees(v)'
  BY <1>1, <1>2 DEF BrokerInv, RowAgrees
<1>4. SequencesAgree'
  BY <1>1, <1>2, SequencesKept
<1>. QED
  BY <1>1, <1>2, <1>3, <1>4

\* acknowledge keeps the invariant.
LEMMA AcknowledgeKeeps ==
  ASSUME BrokerInv, NEW r \in requests, Acknowledge(r) \/ MarkAcknowledged(r)
  PROVE  BrokerInv'
<1>1. /\ r \in Request /\ r.unit \in UnitIds /\ r.op = "ack" /\ ready
      /\ gate.pc = "idle" /\ gate.unit = 0
      /\ inventory[r.unit].state = "removed"
  BY DEF BrokerInv, BrokerTypeOK, Acknowledge, MarkAcknowledged, Acknowledgeable, Owned,
         Inventoried, Serve, ReadyAgrees
<1>2. CASE Acknowledge(r)
  <2>1. BrokerTypeOK'
    BY <1>1, <1>2, DropType, AnswerType, Replies
    DEF Acknowledge, BrokerInv, BrokerTypeOK, Serve
  <2>2. /\ (\A v \in UnitIds : RowAgrees(v)') /\ SequencesAgree'
        /\ \A v \in UnitIds : v # r.unit => inventory'[v] = inventory[v]
        /\ inventory'[r.unit].state = "none" /\ ~inventory'[r.unit].acknowledged
    BY <1>1, <1>2, <2>1, DropKeeps DEF Acknowledge
  <2>3. GateAgrees'
    BY <1>1, <1>2 DEF Acknowledge, GateAgrees
  <2>4. ReadyAgrees'
    BY <1>1, <1>2, <2>2 DEF Acknowledge, BrokerInv, ReadyAgrees, Sweeping
  <2>. QED
    BY <2>1, <2>2, <2>3, <2>4 DEF BrokerInv
<1>3. CASE MarkAcknowledged(r)
  <2>0. inventory \in [UnitIds -> Unit]
    BY DEF BrokerInv, BrokerTypeOK
  <2>1. inventory' \in [UnitIds -> Unit]
    BY <1>3, <2>0 DEF MarkAcknowledged, Unit
  <2>2. \A v \in UnitIds :
           /\ inventory'[v].state = inventory[v].state
           /\ inventory'[v].sequence = inventory[v].sequence
           /\ v # r.unit => inventory'[v] = inventory[v]
    BY <1>3, <2>0 DEF MarkAcknowledged, Unit
  <2>3. gate' \in Gate /\ gate'.pc = "forget" /\ gate'.unit = r.unit /\ gate'.request.op = "ack"
    BY <1>1, <1>3, UnitField DEF MarkAcknowledged, Gate, GateSteps
  <2>4. BrokerTypeOK'
    BY <1>3, <2>1, <2>3 DEF MarkAcknowledged, BrokerInv, BrokerTypeOK, Serve
  <2>5. \A v \in UnitIds : RowAgrees(v)'
    BY <1>1, <1>3, <2>2 DEF MarkAcknowledged, BrokerInv, RowAgrees
  <2>6. GateAgrees'
    BY <1>1, <2>2, <2>3 DEF GateAgrees
  <2>7. SequencesAgree'
    BY <1>3, <2>2, <2>4, SequencesKept DEF MarkAcknowledged
  <2>8. ReadyAgrees'
    BY <1>1, <1>3, <2>2, <2>3, UnitField DEF MarkAcknowledged, BrokerInv, ReadyAgrees, Sweeping
  <2>. QED
    BY <2>4, <2>5, <2>6, <2>7, <2>8 DEF BrokerInv
<1>. QED
  BY <1>2, <1>3

\* discard_acknowledged keeps the invariant.
LEMMA ForgetKeeps ==
  ASSUME BrokerInv, ForgetAcknowledged
  PROVE  BrokerInv'
<1>. USE DEF ForgetAcknowledged
<1>. DEFINE g == gate.unit
<1>1. g \in UnitIds /\ inventory[g].state = "removed" /\ BrokerTypeOK
  BY DEF BrokerInv, GateAgrees
<1>2. /\ gate' \in Gate /\ replies' \in [Callers -> Reply] /\ gate'.unit = 0
      /\ Sweeping => gate'.pc = "sweep" /\ gate'.request = gate.request
      /\ ~Sweeping => gate'.pc = "idle"
  <2>1. CASE Sweeping
    BY <1>1, <2>1, GotoType, GotoFields, IdentityAssumption DEF GateSteps, BrokerTypeOK
  <2>2. CASE ~Sweeping
    BY <1>1, <2>2, FinishType, Replies, GateFields DEF Finish
  <2>. QED
    BY <2>1, <2>2
<1>3. BrokerTypeOK'
  BY <1>1, <1>2, DropType DEF BrokerTypeOK
<1>4. /\ (\A v \in UnitIds : RowAgrees(v)') /\ SequencesAgree'
      /\ \A v \in UnitIds : v # g => inventory'[v] = inventory[v]
      /\ inventory'[g].state = "none" /\ ~inventory'[g].acknowledged
  BY <1>1, <1>3, DropKeeps
<1>5. GateAgrees'
  BY <1>2 DEF GateAgrees
<1>6. ReadyAgrees'
  BY <1>2, <1>4 DEF BrokerInv, ReadyAgrees, Sweeping
<1>. QED
  BY <1>3, <1>4, <1>5, <1>6 DEF BrokerInv

----------------------------------------------------------------------------
(* The sweep.                                                              *)

\* A sweep begins with a broker that is not ready.
LEMMA BeginSweepKeeps ==
  ASSUME BrokerInv, NEW request \in Request, BeginSweep(request),
         requests' \subseteq Request
  PROVE  BrokerInv'
<1>. USE DEF BeginSweep
<1>1. gate' \in Gate /\ gate'.pc = "sweep" /\ gate'.unit = 0
  BY IdentityAssumption DEF Gate, GateSteps
<1>2. BrokerTypeOK'
  BY <1>1 DEF BrokerInv, BrokerTypeOK
<1>3. GateAgrees' /\ ReadyAgrees'
  BY <1>1 DEF GateAgrees, ReadyAgrees
<1>. QED
  BY <1>2, <1>3, GateMoves

\* start and reconciliation_page keep the invariant.
LEMMA SweepBegins ==
  ASSUME BrokerInv, Start \/ \E r \in requests : Page(r)
  PROVE  BrokerInv'
<1>. requests \subseteq Request
  BY DEF BrokerInv, BrokerTypeOK
<1>1. StartRequest \in Request
  BY IdentityAssumption DEF StartRequest, Request
<1>. QED
  BY <1>1, BeginSweepKeeps DEF Start, Page, Serve

\* Once the sweep took a unit up, its next step fits the unit's row.
LEMMA SweepTakesKeeps ==
  ASSUME BrokerInv, NEW u \in UnitIds,
         SweepForget(u) \/ SweepIntent(u) \/ SweepTerminate(u)
  PROVE  BrokerInv'
<1>. BrokerTypeOK /\ gate.pc = "sweep" /\ ~ready /\ ~ready'
  BY DEF BrokerInv, SweepForget, SweepIntent, SweepTerminate, ReadyAgrees
<1>1. ASSUME NEW pc \in GateSteps, Goto(pc, u),
             UNCHANGED <<inventory, highWater, runtime, ready, staged, requests, replies,
                         brokerFaults, births>>,
             <<pc, inventory[u].state>> \in
               {<<"forget", "removed">>, <<"created", "create_intent">>,
                <<"runtime", "create_intent">>, <<"kill", "created">>,
                <<"empty", "exit_confirmed">>, <<"remove", "empty_confirmed">>}
      PROVE  BrokerInv'
  <2>1. gate' \in Gate /\ gate'.pc = pc /\ gate'.unit = u
    BY <1>1, GotoType, GotoFields, UnitField
  <2>2. BrokerTypeOK'
    BY <1>1, <2>1 DEF BrokerTypeOK
  <2>3. GateAgrees' /\ ReadyAgrees'
    BY <1>1, <2>1 DEF GateAgrees, ReadyAgrees
  <2>. QED
    BY <1>1, <2>2, <2>3, GateMoves
<1>2. CASE SweepForget(u)
  <2>1. inventory[u].state = "removed"
    BY <1>2 DEF SweepForget, BrokerInv, RowAgrees
  <2>. QED
    BY <1>1, <1>2, <2>1 DEF SweepForget, GateSteps
<1>3. CASE SweepIntent(u)
  BY <1>1, <1>3 DEF SweepIntent, GateSteps
<1>4. CASE SweepTerminate(u)
  <2>1. /\ <<ResumeAt(inventory[u].state), inventory[u].state>> \in
              {<<"kill", "created">>, <<"empty", "exit_confirmed">>, <<"remove", "empty_confirmed">>}
        /\ ResumeAt(inventory[u].state) \in GateSteps
    BY <1>4 DEF SweepTerminate, Resumable, ResumeAt, GateSteps
  <2>. QED
    BY <1>1, <1>4, <2>1 DEF SweepTerminate
<1>. QED
  BY <1>2, <1>3, <1>4

\* A reservation without an intent is discarded.
LEMMA DiscardKeeps ==
  ASSUME BrokerInv, NEW u \in UnitIds, SweepDiscard(u)
  PROVE  BrokerInv'
<1>. USE DEF SweepDiscard
<1>1. BrokerTypeOK'
  BY DropType DEF BrokerInv, BrokerTypeOK
<1>2. (\A v \in UnitIds : RowAgrees(v)') /\ SequencesAgree'
  BY <1>1, DropKeeps
<1>3. GateAgrees'
  BY DEF GateAgrees
<1>4. ReadyAgrees'
  BY DEF BrokerInv, ReadyAgrees, Sweeping
<1>. QED
  BY <1>1, <1>2, <1>3, <1>4 DEF BrokerInv

\* An operation that stops before its end, whatever it was, leaves a broker
\* that is not ready.
LEMMA StopKeeps ==
  ASSUME BrokerInv, BrokerTypeOK', gate' = DownGate \/ gate' = IdleGate, ~ready',
         UNCHANGED <<inventory, highWater, runtime, births>>
  PROVE  BrokerInv'
  BY GateMoves, GateFields DEF GateAgrees, ReadyAgrees

\* RECONCILIATION_INCOMPLETE and the end of the sweep.
LEMMA SweepEndKeeps ==
  ASSUME BrokerInv, SweepDone \/ \E u \in UnitIds : SweepIncomplete(u)
  PROVE  BrokerInv'
<1>. BrokerTypeOK
  BY DEF BrokerInv
<1>1. CASE SweepDone
  <2>1. gate' \in Gate /\ replies' \in [Callers -> Reply] /\ gate' = IdleGate
    BY <1>1, FinishType, PageReplies DEF SweepDone, Finish
  <2>2. BrokerTypeOK'
    BY <1>1, <2>1 DEF SweepDone, BrokerTypeOK
  <2>3. GateAgrees'
    BY <2>1, GateFields DEF GateAgrees
  <2>4. \A u \in UnitIds : inventory[u].state \in {"none", "removed"} /\ ~inventory[u].acknowledged
    <3>1. \A u \in UnitIds : inventory[u].state \in {"none", "removed"}
      BY <1>1 DEF SweepDone, UnsweptUnits, Inventoried
    <3>2. \A u \in UnitIds : inventory[u].state = "removed" => ~inventory[u].acknowledged
      BY <1>1 DEF SweepDone, AcknowledgedUnits, Inventoried
    <3>. QED
      BY <3>1, <3>2 DEF BrokerInv, RowAgrees
  <2>5. ReadyAgrees'
    BY <1>1, <2>1, <2>4, GateFields DEF SweepDone, ReadyAgrees
  <2>. QED
    BY <1>1, <2>2, <2>3, <2>5, GateMoves DEF SweepDone
<1>2. ASSUME NEW u \in UnitIds, SweepIncomplete(u)
      PROVE  BrokerInv'
  <2>1. gate' \in Gate /\ replies' \in [Callers -> Reply] /\ (gate' = DownGate \/ gate' = IdleGate)
    BY <1>2, FinishType, Replies, GateTypes DEF SweepIncomplete, Finish, BrokerTypeOK
  <2>2. BrokerTypeOK'
    BY <1>2, <2>1 DEF SweepIncomplete, BrokerTypeOK
  <2>3. ~ready'
    BY <1>2 DEF SweepIncomplete, BrokerInv, ReadyAgrees
  <2>. QED
    BY <1>2, <2>1, <2>2, <2>3, StopKeeps DEF SweepIncomplete
<1>. QED
  BY <1>1, <1>2

----------------------------------------------------------------------------
(* Faults.                                                                 *)

\* Errors and crashes keep the invariant, wherever they happen.
LEMMA FaultsKeep ==
  ASSUME BrokerInv, Fail \/ Crash \/ \E r \in requests : FailAtOnce(r)
  PROVE  BrokerInv'
<1>. BrokerTypeOK
  BY DEF BrokerInv
<1>0. ASSUME NEW kind, BrokerFault(kind)
      PROVE  brokerFaults' \in 0 .. MaxBrokerFaults
  BY <1>0, BrokerAssumption DEF BrokerFault, BrokerTypeOK
<1>1. CASE Fail
  <2>1. gate' \in Gate /\ replies' \in [Callers -> Reply] /\ (gate' = DownGate \/ gate' = IdleGate)
    BY <1>1, FinishType, Replies, GateTypes DEF Fail, Finish, BrokerTypeOK
  <2>2. BrokerTypeOK'
    BY <1>0, <1>1, <2>1 DEF Fail, BrokerTypeOK
  <2>. QED
    BY <1>1, <2>1, <2>2, StopKeeps DEF Fail
<1>2. CASE Crash
  <2>1. replies' \in [Callers -> Reply]
    BY <1>2, Replies DEF Crash, BrokerTypeOK
  <2>2. BrokerTypeOK'
    BY <1>0, <1>2, <2>1, GateTypes DEF Crash, BrokerTypeOK
  <2>. QED
    BY <1>2, <2>2, StopKeeps DEF Crash
<1>3. ASSUME NEW r \in requests, FailAtOnce(r)
      PROVE  BrokerInv'
  <2>1. r \in Request
    BY DEF BrokerTypeOK
  <2>2. replies' \in [Callers -> Reply]
    BY <1>3, <2>1, AnswerType, Replies DEF FailAtOnce
  <2>3. BrokerTypeOK'
    BY <1>0, <1>3, <2>2 DEF FailAtOnce, Serve, BrokerTypeOK
  <2>. QED
    BY <1>3, <2>3, Quiet DEF FailAtOnce
<1>. QED
  BY <1>1, <1>2, <1>3

----------------------------------------------------------------------------
(* The invariant and what follows from it.                                 *)

\* Every step keeps the invariant.
LEMMA NextKeeps ==
  ASSUME BrokerInv, [BrokerNext]_brokerVars
  PROVE  BrokerInv'
<1>1. CASE UNCHANGED brokerVars
  <2>1. BrokerTypeOK'
    BY <1>1 DEF BrokerInv, BrokerTypeOK, brokerVars
  <2>. QED
    BY <1>1, <2>1, Quiet DEF brokerVars
<1>2. CASE CallerStep
  BY <1>2, CallersKeep DEF CallerStep
<1>3. CASE BrokerFaultStep
  BY <1>3, FaultsKeep, RuntimeKeeps DEF BrokerFaultStep
<1>4. CASE ServeRequest
  BY <1>4, AnswersKeep, ReserveKeeps, TerminateKeeps, AcknowledgeKeeps, SweepBegins
  DEF ServeRequest, AnsweredAtOnce
<1>5. CASE Sweep
  BY <1>5, SweepTakesKeeps, DiscardKeeps, SweepEndKeeps DEF Sweep
<1>6. CASE Start \/ WriteIntent \/ RuntimeCreate \/ WriteCreated
  BY <1>6, SweepBegins, IntentKeeps, RuntimeCreateKeeps, CreatedKeeps
<1>7. CASE Kill \/ WriteExit \/ WriteEmpty \/ Remove \/ WriteRemoved \/ ForgetAcknowledged
  BY <1>7, RuntimeKeeps, ExitKeeps, RemovedKeeps, ForgetKeeps
<1>. QED
  BY <1>1, <1>2, <1>3, <1>4, <1>5, <1>6, <1>7 DEF BrokerNext, BrokerStep

\* A broker that was never used satisfies the invariant.
LEMMA InitKeeps ==
  ASSUME BrokerInit
  PROVE  BrokerInv
<1>. USE DEF BrokerInit
<1>0. /\ \A u \in UnitIds : inventory[u] = NoUnit /\ runtime[u] = "absent"
      /\ NoUnit \in Unit /\ NoUnit.state = "none" /\ ~NoUnit.acknowledged
  BY IdentityAssumption DEF NoUnit, Unit, UnitStates
<1>1. BrokerTypeOK
  <2>1. inventory \in [UnitIds -> Unit] /\ runtime \in [UnitIds -> RuntimeStates]
    BY <1>0 DEF RuntimeStates
  <2>2. highWater \in 0 .. MaxSequence /\ brokerFaults \in 0 .. MaxBrokerFaults
    BY IdentityAssumption, BrokerAssumption
  <2>3. replies \in [Callers -> Reply] /\ gate \in Gate /\ ready \in BOOLEAN
    BY GateTypes, Replies
  <2>. QED
    BY <2>1, <2>2, <2>3 DEF BrokerTypeOK
<1>2. \A u \in UnitIds : RowAgrees(u)
  BY <1>0 DEF RowAgrees
<1>3. GateAgrees /\ ReadyAgrees
  BY GateFields DEF GateAgrees, ReadyAgrees
<1>4. SequencesAgree
  BY <1>0 DEF SequencesAgree, OneUnitPerSequence
<1>. QED
  BY <1>1, <1>2, <1>3, <1>4 DEF BrokerInv

\* The inductive invariant holds in every behaviour of the broker.
LEMMA BrokerInvariant == BrokerSpec => []BrokerInv
<1>1. BrokerInit => BrokerInv
  BY InitKeeps
<1>2. BrokerInv /\ [BrokerNext]_brokerVars => BrokerInv'
  BY NextKeeps
<1>. QED
  BY <1>1, <1>2, PTL DEF BrokerSpec

\* Type correctness of the broker's durable and volatile state.
THEOREM BrokerStaysTyped == BrokerSpec => []BrokerTypeOK
<1>1. BrokerInv => BrokerTypeOK
  BY DEF BrokerInv
<1>. QED
  BY <1>1, BrokerInvariant, PTL

\* Whenever the broker stops, every unit of the runtime has a row from which
\* the next sweep terminates it (create, _terminate_and_prove).
THEOREM NoUnitIsOrphaned == BrokerSpec => []NoOrphan
<1>1. BrokerInv => NoOrphan
  <2>. SUFFICES ASSUME BrokerInv, NEW u \in UnitIds
                PROVE  /\ runtime[u] # "absent" =>
                              inventory[u].state \in {"create_intent", "created", "exit_confirmed",
                                                      "empty_confirmed"}
                       /\ runtime[u] = "running" =>
                              inventory[u].state \in {"create_intent", "created"}
    BY DEF NoOrphan
  <2>1. inventory[u].state \in UnitStates
    BY DEF BrokerInv, BrokerTypeOK, Unit
  <2>. QED
    BY <2>1 DEF BrokerInv, RowAgrees, UnitStates
<1>. QED
  BY <1>1, BrokerInvariant, PTL

\* reserve never lets a create sequence start a second unit, however create
\* requests are repeated, delayed or served after an acknowledgement.
THEOREM SequencesNameOneUnit == BrokerSpec => []OneUnitPerSequence
<1>1. BrokerInv => OneUnitPerSequence
  BY DEF BrokerInv, SequencesAgree
<1>. QED
  BY <1>1, BrokerInvariant, PTL

\* Every unit has its row and every row its one create request (reserve, create).
THEOREM UnitsStayTraced == BrokerSpec => []UnitsTraced
BY NoUnitIsOrphaned, SequencesNameOneUnit, PTL DEF UnitsTraced

\* Between the requests of a ready broker no unit is half-way (_fail).
THEOREM ReadyBrokerIsSettled == BrokerSpec => []ReadyIsSettled
<1>1. BrokerInv => ReadyIsSettled
  BY UnitField DEF BrokerInv, ReadyAgrees, ReadyIsSettled, Inventoried
<1>. QED
  BY <1>1, BrokerInvariant, PTL

\* Only the end of a complete sweep makes the broker ready (start,
\* reconciliation_page), and then nothing that it ever created is left.
THEOREM ReadyOnlyAfterSweep == BrokerSpec => ReadyAfterSweep
<1>1. ASSUME BrokerInv, [BrokerNext]_brokerVars, ~ready, ready'
      PROVE  \A u \in UnitIds : runtime'[u] = "absent"
  <2>1. SweepDone
    BY <1>1
    DEF brokerVars, BrokerNext, BrokerStep, BrokerFaultStep, CallerStep, ServeRequest, Sweep,
        SendAny, Send, Receive, GiveUp, AnswerAt, NotReady, Ready, CreateReplayed,
        CreateRejected, CreateReserve, ReserveThen, Stage, StageReplayed, Collect,
        WorkspaceRefused, TerminateProven, Terminate, TerminateRefused, AcknowledgeAgain,
        AcknowledgeRefused, Acknowledge, MarkAcknowledged, Page, Start, BeginSweep,
        Transition, WriteIntent, RuntimeCreate, WriteCreated, Kill, WriteExit, WriteEmpty,
        Remove, WriteRemoved, ForgetAcknowledged, SweepForget, SweepDiscard, SweepIntent,
        SweepIncomplete, SweepTerminate, Fail, FailAtOnce, Crash, UnitExits
  <2>2. \A u \in UnitIds : inventory[u].state \in {"none", "removed"}
    BY <2>1 DEF SweepDone, UnsweptUnits, Inventoried
  <2>. QED
    BY <1>1, <2>1, <2>2 DEF SweepDone, BrokerInv, RowAgrees
<1>2. BrokerInv /\ [BrokerNext]_brokerVars =>
         [~ready /\ ready' => \A u \in UnitIds : runtime'[u] = "absent"]_brokerVars
  BY <1>1
<1>. QED
  BY <1>2, BrokerInvariant, PTL DEF BrokerSpec, ReadyAfterSweep, SweptWhenReady

\* A row leaves the inventory only as a reservation that created nothing or as
\* a tombstone (discard_reserved, acknowledge, discard_acknowledged).
THEOREM OnlyProvenIsForgotten == BrokerSpec => ForgottenIsProven
<1>. DEFINE Proven(u) == inventory[u].state # "none" /\ inventory'[u].state = "none" =>
                           \/ inventory[u].state = "removed"
                           \/ \A s \in CreateSequences : <<s, u>> \notin births
<1>1. ASSUME BrokerInv, [BrokerNext]_brokerVars, NEW u \in UnitIds
      PROVE  Proven(u)
  <2>. inventory \in [UnitIds -> Unit]
    BY <1>1 DEF BrokerInv, BrokerTypeOK
  <2>1. CASE inventory' = inventory
    BY <2>1
  <2>2. ASSUME NEW target, Transition(target), target # "none"
        PROVE  Proven(u)
    BY <2>2 DEF Transition, Unit
  <2>3. ASSUME NEW v \in UnitIds, Drop(v), inventory[v].state \in {"reserved", "removed"}
        PROVE  Proven(u)
    <3>1. inventory[v].state = "reserved" => \A s \in CreateSequences : <<s, v>> \notin births
      BY <1>1 DEF BrokerInv, SequencesAgree
    <3>2. u # v => inventory'[u] = inventory[u]
      BY <2>3 DEF Drop
    <3>. QED
      BY <2>3, <3>1, <3>2
  <2>4. CASE \E r \in requests : CreateReserve(r)
    BY <2>4 DEF CreateReserve, ReserveThen, ReservedUnit
  <2>5. CASE \E r \in requests : Acknowledge(r)
    BY <2>3, <2>5 DEF Acknowledge, Acknowledgeable, Owned, Inventoried
  <2>6. CASE \E r \in requests : MarkAcknowledged(r)
    BY <2>6 DEF MarkAcknowledged, Unit
  <2>7. CASE ForgetAcknowledged
    BY <1>1, <2>3, <2>7 DEF ForgetAcknowledged, BrokerInv, GateAgrees
  <2>8. CASE \E v \in UnitIds : SweepDiscard(v)
    BY <2>3, <2>8 DEF SweepDiscard
  <2>9. CASE WriteIntent \/ WriteCreated \/ WriteExit \/ WriteEmpty \/ WriteRemoved
    BY <2>2, <2>9 DEF WriteIntent, WriteCreated, WriteExit, WriteEmpty, WriteRemoved
  <2>. HIDE DEF Proven
  <2>. QED
    BY <1>1, <2>1, <2>4, <2>5, <2>6, <2>7, <2>8, <2>9
    DEF brokerVars, BrokerNext, BrokerStep, BrokerFaultStep, CallerStep, ServeRequest, Sweep,
        SendAny, Send, Receive, GiveUp, AnswerAt, NotReady, Ready, CreateReplayed,
        CreateRejected, Stage, StageReplayed, Collect, WorkspaceRefused, TerminateProven,
        Terminate, TerminateRefused, AcknowledgeAgain, AcknowledgeRefused, Page, Start,
        BeginSweep, RuntimeCreate, Kill, Remove, SweepForget, SweepIntent, SweepIncomplete,
        SweepTerminate, SweepDone, Fail, FailAtOnce, Crash, UnitExits
<1>2. BrokerInv /\ [BrokerNext]_brokerVars => [\A u \in UnitIds : Proven(u)]_brokerVars
  BY <1>1
<1>. QED
  BY <1>2, BrokerInvariant, PTL DEF BrokerSpec, ForgottenIsProven, ProvenWhenForgotten
=============================================================================
