-------------------------- MODULE ReversionService --------------------------
(***************************************************************************)
(* The reverse queue at work (reversion_jobs): API calls, worker loops,    *)
(* the table, the object store and the isolation broker together.          *)
(*                                                                         *)
(* A step of a worker is one transaction or one call to the store, with    *)
(* the receipt of the broker's answer before it and the sending of the     *)
(* next request after it: an answer waits and a request queues for any     *)
(* time, so nothing is lost by joining them.  A worker process that died   *)
(* is replaced by another one with tokens of its own, so a member of       *)
(* Workers is one life of a process.                                       *)
(***************************************************************************)
EXTENDS IsolationBroker, ReversionRepository

CONSTANTS
    Overlap,           \* TRUE: two workers of the principal may run at once
    Timely,            \* TRUE: no lease ends while its worker is at work
    Events,            \* what may happen: "cancel", "retention" and the faults
                       \* "crash", "timeout", "storage", "database", "ambiguous", "restore"
    MaxServiceFaults   \* bound: how many faults

ASSUME ServiceAssumption ==
    /\ Callers = Workers
    /\ Overlap \in BOOLEAN
    /\ Timely \in BOOLEAN
    /\ MaxServiceFaults \in Nat

VARIABLES
    worker,     \* worker[w]: where the loop of w is, and what it holds
    client,     \* client[j]: where submission j is, and the job it is about
    sources,    \* jobs whose upload is in the object store
    results,    \* <<job, attempt number>> of the results in the object store
    faults,     \* how many faults have occurred
    backup      \* a copy of the table and the store, NULL if there is none

serviceVars == <<worker, client, sources, results, faults, backup>>

vars == <<brokerVars, tableVars, serviceVars>>

----------------------------------------------------------------------------
(* State.                                                                  *)

\* Inside `with ReversionHeartbeat`.
ExecutingSteps == {"load", "intent", "created", "stage", "staged", "collect", "collected",
                   "terminated", "validate", "publish", "put", "check", "succeed",
                   "lookup", "undo", "reject", "acknowledge", "packed"}

WorkerSteps == ExecutingSteps \cup
    {"new", "off", "loop", "page", "ack", "acked", "complete", "readying",
     "rcreated", "rterminated", "racked", "requeue", "clean", "cleaned"}

\* "broken" is an exception that is no ReverseConversionError: the attempt
\* is left as it is and the loop backs off.
Verdicts == {"none", "succeeded", "failed", "cancelled", "broken"}

WorkerState ==
    [pc      : WorkerSteps,
     phase   : {"reconcile", "recover", "recover_proof", "claim"},  \* reverse_phase
     seq     : 0 .. MaxSequence,           \* the attempt in hand
     unit    : 0 .. MaxUnits,              \* its unit, or the page's
     verdict : Verdicts,
     lost    : BOOLEAN,                    \* ReversionHeartbeat._lease_lost
     page    : Reply,                      \* the page under way
     cursor  : 0 .. MaxSequence,           \* its cursor
     acks    : SUBSET CreateSequences,     \* acknowledgements still to send
     job     : Jobs \cup {NULL}]           \* the job being cleaned

NewWorker == [pc |-> "new", phase |-> "reconcile", seq |-> 0, unit |-> 0,
              verdict |-> "none", lost |-> FALSE, page |-> NoReply, cursor |-> 0,
              acks |-> {}, job |-> NULL]

ServiceInit ==
    /\ BrokerInit
    /\ TableInit
    /\ worker = [w \in Workers |-> NewWorker]
    /\ client = [j \in Jobs |-> [pc |-> "new", job |-> NULL]]
    /\ sources = {}
    /\ results = {}
    /\ faults = 0
    /\ backup = NULL

Fault(kind) ==
    /\ kind \in Events
    /\ faults < MaxServiceFaults
    /\ faults' = faults + 1

Store == <<sources, results>>

\* What a step of a worker may leave alone.
NoTable == UNCHANGED tableVars

NoStore == UNCHANGED Store

Others == UNCHANGED <<client, faults, backup>>

At(w, pc) == worker[w].pc = pc

Do(w, new) == worker' = [worker EXCEPT ![w] = new]

Continue(w, pc) == Do(w, [worker[w] EXCEPT !.pc = pc])

\* The exception reaches FairWorkerLoop.run: the phase stays as it is.
\* Every local of the attempt is gone.
BackTo(w, phase) == Do(w, [NewWorker EXCEPT !.pc = "loop", !.phase = phase])

BackOff(w) == BackTo(w, worker[w].phase)

\* The broker client: one request, and the answer before it is consumed.
Ask(w, op, s, u) ==
    /\ requests' = IF Listening
                   THEN requests \cup {[caller |-> w, op |-> op, sequence |-> s, unit |-> u]}
                   ELSE requests
    /\ replies' = [replies EXCEPT ![w] = IF Listening THEN NoReply ELSE ErrorReply]
    /\ UNCHANGED <<inventory, highWater, runtime, ready, staged, gate, brokerFaults, births>>

Answered(w) == replies[w] # NoReply

NoBroker == UNCHANGED brokerVars

----------------------------------------------------------------------------
(* ReversionService.submit and cancel.                                     *)

\* Where the submission is, and the job that it is about.
Submission_at(j, pc) == client[j].pc = pc

Submit(j, pc, k) == client' = [client EXCEPT ![j] = [pc |-> pc, job |-> k]]

SubmitCreate(j) ==
    /\ Submission_at(j, "new")
    /\ create(j)
    /\ Submit(j, "put", j)
    /\ UNCHANGED <<brokerVars, worker, sources, results, faults, backup>>

\* The row of the same key and request; without its source, it is put again.
SubmitReplay(j) ==
    /\ Submission_at(j, "new")
    /\ \E k \in Existing(j) : Submit(j, IF jobs[k].sourceReady THEN "accepted" ELSE "put", k)
    /\ UNCHANGED <<brokerVars, tableVars, worker, sources, results, faults, backup>>

SubmitPut(j) ==
    /\ Submission_at(j, "put")
    /\ sources' = sources \cup {client[j].job}
    /\ Submit(j, "activate", client[j].job)
    /\ UNCHANGED <<brokerVars, tableVars, worker, results, faults, backup>>

\* What a failed put may have left is deleted; the reservation grows old.
SubmitPutFails(j) ==
    /\ Submission_at(j, "put")
    /\ Fault("storage")
    /\ sources' = sources \ {client[j].job}
    /\ Submit(j, "gone", NULL)
    /\ UNCHANGED <<brokerVars, tableVars, worker, results, backup>>

\* activate_source raises for a job that is not queued any more.
SubmitActivate(j) ==
    /\ Submission_at(j, "activate")
    /\ IF jobs[client[j].job].state = "queued"
       THEN activate_source(client[j].job) /\ Submit(j, "accepted", client[j].job)
       ELSE NoTable /\ Submit(j, "gone", NULL)
    /\ UNCHANGED <<brokerVars, worker, sources, results, faults, backup>>

Cancel(j) ==
    /\ "cancel" \in Events
    /\ Submission_at(j, "accepted")
    /\ request_cancel(client[j].job)
    /\ UNCHANGED <<brokerVars, serviceVars>>

ClientDies(j) ==
    /\ client[j].pc \in {"put", "activate"}
    /\ Fault("crash")
    /\ Submit(j, "gone", NULL)
    /\ UNCHANGED <<brokerVars, tableVars, worker, sources, results, backup>>

----------------------------------------------------------------------------
(* ReversionBrokerReconciler.reconcile_step, phase "reconcile".            *)

BeginReconcile(w) ==
    /\ At(w, "loop") /\ worker[w].phase = "reconcile"
    /\ begin_reconciliation(w)
    /\ Ask(w, "page", principal'.cursor, 0)
    /\ Do(w, [worker[w] EXCEPT !.pc = "page", !.cursor = principal'.cursor])
    /\ NoStore /\ Others

PageArrives(w) ==
    /\ At(w, "page") /\ Answered(w)
    /\ IF replies[w].kind = "page" /\ ReconciliationHeld(w)
       THEN /\ pending_reconciliation_acknowledgements(w)
            /\ Do(w, [worker[w] EXCEPT !.pc = "ack", !.page = replies[w],
                                       !.acks = FirstBatch(Unacknowledged)])
       ELSE NoTable /\ BackOff(w)
    /\ Receive(w)
    /\ NoStore /\ Others

ProofOf(s) == IF s \in Known THEN attempts[s].proof ELSE orphans[s].unit

SendAck(w) ==
    /\ At(w, "ack")
    /\ \E s \in worker[w].acks :
          /\ \A t \in worker[w].acks : s <= t
          /\ Ask(w, "ack", s, ProofOf(s))
          /\ Do(w, [worker[w] EXCEPT !.pc = "acked", !.seq = s, !.unit = ProofOf(s)])
    /\ NoTable /\ NoStore /\ Others

AckArrives(w) ==
    /\ At(w, "acked") /\ Answered(w)
    /\ IF replies[w].kind = "done" /\ ReconciliationHeld(w)
       THEN /\ mark_reconciliation_acknowledged(w, worker[w].seq, worker[w].unit)
            /\ Do(w, [worker[w] EXCEPT !.pc = "ack", !.acks = @ \ {worker[w].seq}])
       ELSE NoTable /\ BackOff(w)
    /\ Receive(w)
    /\ NoStore /\ Others

\* The page was read before the acknowledgements and is recorded after them.
RecordPage(w) ==
    LET page == worker[w].page
        fits == /\ ReconciliationHeld(w)
                /\ worker[w].cursor = principal.cursor
                /\ page.unit # 0 => TombstoneFits(page.sequence, page.unit)
    IN  /\ At(w, "ack") /\ worker[w].acks = {}
        /\ IF fits
           THEN /\ record_reconciliation_page(w, worker[w].cursor, page.sequence, page.unit,
                                              page.highWater)
                /\ IF page.unit # 0 THEN BackTo(w, "reconcile") ELSE Continue(w, "complete")
           ELSE NoTable /\ BackOff(w)
        /\ NoBroker /\ NoStore /\ Others

\* Ready, not yet at a fixed point, or an attempt without its proof.
Complete(w) ==
    /\ At(w, "complete")
    /\ \/ /\ complete_reconciliation(w)
          /\ Ask(w, "ready", 0, 0)
          /\ Continue(w, "readying")
       \/ /\ ReconciliationHeld(w) /\ Unproven # {}
          /\ BackTo(w, "recover_proof")
          /\ NoTable /\ NoBroker
       \/ /\ ReconciliationLost(w) \/ ~principal.fixed \/ Unacknowledged # {}
          /\ Unproven = {} \/ ReconciliationLost(w)
          /\ BackTo(w, "reconcile")
          /\ NoTable /\ NoBroker
    /\ NoStore /\ Others

ReadyArrives(w) ==
    /\ At(w, "readying") /\ Answered(w)
    /\ BackTo(w, IF replies[w].kind = "done" THEN "recover" ELSE "reconcile")
    /\ Receive(w)
    /\ NoTable /\ NoStore /\ Others

----------------------------------------------------------------------------
(* ReversionMaintenanceService.recover_step.                               *)

RecoverAttempt(w) ==
    /\ At(w, "loop") /\ worker[w].phase \in {"recover", "recover_proof"}
    /\ \E s \in CreateSequences :
          /\ claim_recovery(w, s)
          /\ LET u == attempts[s].unit
             IN  /\ Ask(w, IF u = 0 THEN "create" ELSE "terminate", s, u)
                 /\ Do(w, [worker[w] EXCEPT !.pc = IF u = 0 THEN "rcreated" ELSE "rterminated",
                                            !.seq = s, !.unit = u])
    /\ NoStore /\ Others

NothingToRecover(w) ==
    /\ At(w, "loop") /\ worker[w].phase \in {"recover", "recover_proof"}
    /\ \A s \in CreateSequences : ~Recoverable(s)
    /\ Continue(w, "requeue")
    /\ NoTable /\ NoBroker /\ NoStore /\ Others

\* A create for an attempt whose unit the table never learned.
RecoveryCreated(w) ==
    /\ At(w, "rcreated") /\ Answered(w)
    /\ IF replies[w].kind = "unit" /\ replies[w].state = "created"
       THEN /\ Ask(w, "terminate", worker[w].seq, replies[w].unit)
            /\ Do(w, [worker[w] EXCEPT !.pc = "rterminated", !.unit = replies[w].unit])
       ELSE Receive(w) /\ BackOff(w)
    /\ NoTable /\ NoStore /\ Others

\* Mutant: the broker is told to forget the proof before it is recorded.
RecoveryTerminatedUnrecorded(w) ==
    /\ At(w, "rterminated") /\ Answered(w)
    /\ IF replies[w].kind = "proof"
       THEN Ask(w, "ack", worker[w].seq, worker[w].unit) /\ Continue(w, "racked")
       ELSE Receive(w) /\ BackOff(w)
    /\ NoTable /\ NoStore /\ Others

RecoveryTerminated(w) ==
    LET s == worker[w].seq  u == worker[w].unit
        stored == /\ replies[w].kind = "proof" /\ RecoveryHeld(w, s)
                  /\ ProofMatches(attempts[s], u) /\ ~UnitTaken(s, u)
    IN  /\ At(w, "rterminated") /\ Answered(w)
        /\ IF stored
           THEN /\ record_recovery_termination_proof(w, s, u)
                /\ Ask(w, "ack", s, u)
                /\ Continue(w, "racked")
           ELSE NoTable /\ Receive(w) /\ BackOff(w)
        /\ NoStore /\ Others

RecoveryAcked(w) ==
    /\ At(w, "racked") /\ Answered(w)
    /\ IF replies[w].kind = "done"
       THEN /\ acknowledge_termination_proof(worker[w].seq, worker[w].unit)
            /\ Continue(w, "requeue")
       ELSE NoTable /\ BackOff(w)
    /\ Receive(w)
    /\ NoStore /\ Others

Requeue(w) ==
    /\ At(w, "requeue")
    /\ recover_expired_leases({j \in Jobs : Returnable(j)}, {j \in Jobs : Incomplete(j)})
    /\ BackTo(w, IF worker[w].phase = "recover" THEN "claim" ELSE "reconcile")
    /\ NoBroker /\ NoStore /\ Others

----------------------------------------------------------------------------
(* run_reconciled_once: claim, execute, publish.                           *)

ClaimJob(w) ==
    /\ At(w, "loop") /\ worker[w].phase = "claim"
    /\ \E j \in Jobs :
          /\ claim(w, j)
          /\ Do(w, [worker[w] EXCEPT !.pc = "load", !.seq = principal'.highWater])
    /\ NoBroker /\ NoStore /\ Others

NothingToClaim(w) ==
    /\ At(w, "loop") /\ worker[w].phase = "claim"
    /\ ~ClaimAllowed \/ \A j \in Jobs : jobs[j].state # "queued" \/ ~jobs[j].sourceReady
    /\ BackTo(w, "reconcile")
    /\ NoTable /\ NoBroker /\ NoStore /\ Others

JobOf(w) == attempts[worker[w].seq].job

ResultKey(w) == <<JobOf(w), attempts[worker[w].seq].number>>

\* raise_if_interrupted: a lost lease, a time limit or a cancellation.
Interruptions(w) ==
    (IF worker[w].lost THEN {"broken"} ELSE {"failed"})
        \cup (IF Owned_current(w, worker[w].seq) /\ jobs[JobOf(w)].cancel
              THEN {"cancelled"} ELSE {})

\* It passes unless the lease is known to be lost or a cancellation is seen.
NotInterrupted(w) == ~worker[w].lost /\ "cancelled" \notin Interruptions(w)

\* Until there is a unit, an error ends the attempt at once.
Load(w) ==
    /\ At(w, "load")
    /\ \/ JobOf(w) \in sources /\ NotInterrupted(w) /\ Continue(w, "intent")
       \/ \E v \in Interruptions(w) :
             IF v = "broken" THEN BackOff(w)
             ELSE Do(w, [worker[w] EXCEPT !.pc = "reject", !.verdict = v])
    /\ NoTable /\ NoBroker /\ NoStore /\ Others

Intent(w) ==
    LET s == worker[w].seq
    IN  /\ At(w, "intent")
        /\ \/ /\ reserve_create_intent(w, s)
              /\ Ask(w, "create", s, 0)
              /\ Continue(w, "created")
           \/ /\ LeaseLost(w, s)
              /\ NoTable /\ NoBroker /\ BackOff(w)
        /\ NoStore /\ Others

\* A unit in another state is a protocol error, which rejects the job.
Created(w) ==
    LET s == worker[w].seq  u == replies[w].unit
    IN  /\ At(w, "created") /\ Answered(w)
        /\ \/ /\ replies[w].kind = "unit" /\ replies[w].state = "created"
              /\ record_broker_unit(w, s, u)
              /\ Do(w, [worker[w] EXCEPT !.pc = "stage", !.unit = u])
           \/ /\ replies[w].kind = "unit" /\ replies[w].state = "created"
              /\ LeaseLost(w, s) \/ attempts[s].unit \notin {0, u} \/ UnitTaken(s, u)
              /\ NoTable /\ BackOff(w)
           \/ /\ replies[w].kind = "unit" /\ replies[w].state # "created"
              /\ NoTable
              /\ Do(w, [worker[w] EXCEPT !.pc = "reject", !.verdict = "failed"])
           \/ /\ replies[w].kind = "error"
              /\ NoTable /\ BackOff(w)
        /\ Receive(w)
        /\ NoStore /\ Others

\* From here on whatever goes wrong is kept while the unit is terminated.
Terminate_unit(w, verdict) ==
    /\ Ask(w, "terminate", worker[w].seq, worker[w].unit)
    /\ Do(w, [worker[w] EXCEPT !.pc = "terminated", !.verdict = verdict])

Stage_source(w) ==
    LET s == worker[w].seq
    IN  /\ At(w, "stage")
        /\ \/ /\ heartbeat(w, s)
              /\ Ask(w, "stage", s, worker[w].unit)
              /\ Continue(w, "staged")
           \/ /\ LeaseLost(w, s)
              /\ NoTable /\ Terminate_unit(w, "broken")
        /\ NoStore /\ Others

Staged(w) ==
    /\ At(w, "staged") /\ Answered(w)
    /\ IF replies[w].kind = "done"
       THEN Receive(w) /\ Continue(w, "collect")
       ELSE Terminate_unit(w, "broken")
    /\ NoTable /\ NoStore /\ Others

Collect_result(w) ==
    /\ At(w, "collect")
    /\ NotInterrupted(w)
    /\ Ask(w, "collect", worker[w].seq, worker[w].unit)
    /\ Continue(w, "collected")
    /\ NoTable /\ NoStore /\ Others

CollectInterrupted(w) ==
    /\ At(w, "collect")
    /\ \E v \in Interruptions(w) : Terminate_unit(w, v)
    /\ NoTable /\ NoStore /\ Others

Collected(w) ==
    /\ At(w, "collected") /\ Answered(w)
    /\ CASE replies[w].kind = "pending" -> Receive(w) /\ Continue(w, "collect")
         [] replies[w].kind = "success" -> Terminate_unit(w, "succeeded")
         [] replies[w].kind = "failure" -> Terminate_unit(w, "failed")
         [] OTHER -> Terminate_unit(w, "broken")
    /\ NoTable /\ NoStore /\ Others

\* The proof is recorded first, then the error that was kept goes on.
Terminated(w) ==
    LET s == worker[w].seq  u == worker[w].unit
    IN  /\ At(w, "terminated") /\ Answered(w)
        /\ \/ /\ replies[w].kind = "proof"
              /\ record_active_termination_proof(w, s, u)
              /\ CASE worker[w].verdict = "succeeded" -> Continue(w, "validate")
                   [] worker[w].verdict = "broken" -> BackOff(w)
                   [] OTHER -> Continue(w, "reject")
           \/ /\ \/ replies[w].kind # "proof" \/ LeaseLost(w, s)
                 \/ ~ProofMatches(attempts[s], u) \/ UnitTaken(s, u)
              /\ NoTable /\ BackOff(w)
        /\ Receive(w)
        /\ NoStore /\ Others

\* validate_reverse_result may still reject what the unit delivered.
Validate(w) ==
    LET s == worker[w].seq
    IN  /\ At(w, "validate")
        /\ \/ heartbeat(w, s) /\ \/ Continue(w, "publish")
                                 \/ Do(w, [worker[w] EXCEPT !.pc = "reject", !.verdict = "failed"])
           \/ LeaseLost(w, s) /\ NoTable /\ BackOff(w)
        /\ NoBroker /\ NoStore /\ Others

Publish(w) ==
    LET s == worker[w].seq
    IN  /\ At(w, "publish")
        /\ \/ heartbeat(w, s) /\ Continue(w, "put")
           \/ LeaseLost(w, s) /\ NoTable /\ BackOff(w)
        /\ NoBroker /\ NoStore /\ Others

PutResult(w) ==
    /\ At(w, "put")
    /\ results' = results \cup {ResultKey(w)}
    /\ Continue(w, "check")
    /\ NoTable /\ NoBroker /\ Others /\ UNCHANGED sources

\* The put failed, and left its object or not; it is deleted all the same.
PutResultFails(w) ==
    /\ At(w, "put")
    /\ Fault("storage")
    /\ results' \in {results, results \cup {ResultKey(w)}}
    /\ Do(w, [worker[w] EXCEPT !.pc = "undo", !.verdict = "broken"])
    /\ NoTable /\ NoBroker /\ UNCHANGED <<sources, client, backup>>

Check(w) ==
    /\ At(w, "check")
    /\ \/ NotInterrupted(w) /\ Continue(w, "succeed")
       \/ \E v \in Interruptions(w) : Do(w, [worker[w] EXCEPT !.pc = "undo", !.verdict = v])
    /\ NoTable /\ NoBroker /\ NoStore /\ Others

\* What publish does when succeed has answered with this state of the job.
AfterSuccess(w, state) ==
    IF state = "cancelled"
    THEN Do(w, [worker[w] EXCEPT !.pc = "undo", !.verdict = "succeeded"])
    ELSE Continue(w, "acknowledge")

Succeed(w) ==
    LET s == worker[w].seq
    IN  /\ At(w, "succeed")
        /\ \/ finish(w, s, "succeeded") /\ AfterSuccess(w, jobs'[JobOf(w)].state)
           \/ LeaseLost(w, s) /\ NoTable /\ Continue(w, "lookup")
        /\ NoBroker /\ NoStore /\ Others

\* The commit happened, or did not, and only an exception arrives.
SucceedAmbiguous(w) ==
    /\ At(w, "succeed")
    /\ Fault("ambiguous")
    /\ finish(w, worker[w].seq, "succeeded") \/ NoTable
    /\ Continue(w, "lookup")
    /\ NoBroker /\ NoStore /\ UNCHANGED <<client, backup>>

\* Mutant: any exception of succeed deletes the result.
LookupNothing(w) ==
    /\ At(w, "lookup")
    /\ Do(w, [worker[w] EXCEPT !.pc = "undo", !.verdict = "broken"])
    /\ NoTable /\ NoBroker /\ NoStore /\ Others

\* get_internal decides whether the result was committed after all.
Lookup(w) ==
    LET job == jobs[JobOf(w)]
    IN  /\ At(w, "lookup")
        /\ IF \/ job.state = "succeeded" /\ job.result = attempts[worker[w].seq].number
              \/ job.state = "cancelled"
           THEN AfterSuccess(w, job.state)
           ELSE Do(w, [worker[w] EXCEPT !.pc = "undo", !.verdict = "broken"])
        /\ NoTable /\ NoBroker /\ NoStore /\ Others

Undo(w) ==
    /\ At(w, "undo")
    /\ results' = results \ {ResultKey(w)}
    /\ CASE worker[w].verdict = "succeeded" -> Continue(w, "acknowledge")
         [] worker[w].verdict = "broken" -> BackOff(w)
         [] OTHER -> Continue(w, "reject")
    /\ NoTable /\ NoBroker /\ Others /\ UNCHANGED sources

\* _finish_rejection: fail or finish_cancelled, unless the job is over.
Reject(w) ==
    LET s == worker[w].seq
    IN  /\ At(w, "reject")
        /\ \/ /\ finish(w, s, worker[w].verdict)
              /\ IF attempts[s].proof # 0 THEN Continue(w, "acknowledge")
                                          ELSE BackTo(w, "reconcile")
           \/ /\ Owned_current(w, s) /\ ~Provable(s, worker[w].verdict)
              /\ NoTable /\ BackTo(w, "recover_proof")
           \/ /\ LeaseLost(w, s)
              /\ NoTable /\ BackOff(w)
        /\ NoBroker /\ NoStore /\ Others

AcknowledgeProof(w) ==
    LET s == worker[w].seq
    IN  /\ At(w, "acknowledge")
        /\ Ask(w, "ack", s, attempts[s].proof)
        /\ Do(w, [worker[w] EXCEPT !.pc = "packed", !.unit = attempts[s].proof])
        /\ NoTable /\ NoStore /\ Others

ProofAcknowledged(w) ==
    /\ At(w, "packed") /\ Answered(w)
    /\ IF replies[w].kind = "done"
       THEN /\ acknowledge_termination_proof(worker[w].seq, worker[w].unit)
            /\ BackTo(w, "reconcile")
       ELSE NoTable /\ BackOff(w)
    /\ Receive(w)
    /\ NoStore /\ Others

----------------------------------------------------------------------------
(* The heartbeat thread, cleanup, and the life of a worker process.        *)

\* A renewal is seen only where the lease may run out.
Beat(w) ==
    /\ worker[w].pc \in ExecutingSteps /\ ~worker[w].lost
    /\ \/ /\ heartbeat(w, worker[w].seq) /\ jobs[JobOf(w)].lapsed
          /\ UNCHANGED worker
       \/ /\ LeaseLost(w, worker[w].seq)
          /\ NoTable
          /\ Do(w, [worker[w] EXCEPT !.lost = TRUE])
    /\ NoBroker /\ NoStore /\ Others

Expire(w) ==
    /\ At(w, "loop")
    /\ \E j \in Jobs : expire_terminal(w, j) /\ Do(w, [worker[w] EXCEPT !.pc = "clean", !.job = j])
    /\ NoBroker /\ NoStore /\ Others

DeleteObjects(w) ==
    LET j == worker[w].job
    IN  /\ At(w, "clean")
        /\ sources' = sources \ {j}
        /\ results' = {r \in results : r[1] # j \/ r[2] > jobs[j].attempt}
        /\ Continue(w, "cleaned")
        /\ NoTable /\ NoBroker /\ Others

CompleteCleanup(w) ==
    /\ At(w, "cleaned")
    /\ IF jobs[worker[w].job].cleaner = w THEN complete_cleanup(w, worker[w].job) ELSE NoTable
    /\ BackOff(w)
    /\ NoBroker /\ NoStore /\ Others

Alive == {w \in DOMAIN worker : worker[w].pc \notin {"new", "off"}}

StartWorker(w) ==
    /\ At(w, "new")
    /\ Overlap \/ Alive = {}
    /\ Continue(w, "loop")
    /\ NoTable /\ NoBroker /\ NoStore /\ Others

\* Nobody waits for the answer any more; the request stays.
Abandon(w, reply) ==
    /\ requests' = {IF r.caller = w THEN [r EXCEPT !.caller = NULL] ELSE r : r \in requests}
    /\ gate' = IF gate.request.caller = w THEN [gate EXCEPT !.request.caller = NULL] ELSE gate
    /\ replies' = [replies EXCEPT ![w] = reply]
    /\ UNCHANGED <<inventory, highWater, runtime, ready, staged, brokerFaults, births>>

\* The process dies, or is stopped in the middle of an attempt.
WorkerDies(w) ==
    /\ w \in Alive
    /\ Fault("crash")
    /\ Abandon(w, NoReply)
    /\ Do(w, [NewWorker EXCEPT !.pc = "off"])
    /\ NoTable /\ NoStore /\ UNCHANGED <<client, backup>>

\* The client's deadline for one broker operation passes.
RequestTimesOut(w) ==
    /\ Waiting(w)
    /\ Fault("timeout")
    /\ Abandon(w, ErrorReply)
    /\ UNCHANGED worker /\ NoTable /\ NoStore /\ UNCHANGED <<client, backup>>

\* A transaction fails and is rolled back.
DatabaseFails(w) ==
    /\ worker[w].pc \in {"ack", "complete", "requeue", "intent", "reject", "validate",
                         "publish", "check", "stage", "collect", "succeed"}
    /\ Fault("database")
    /\ CASE worker[w].pc \in {"stage", "collect"} -> Terminate_unit(w, "broken")
         [] worker[w].pc = "check" -> NoBroker /\
               Do(w, [worker[w] EXCEPT !.pc = "undo", !.verdict = "broken"])
         [] worker[w].pc = "succeed" -> NoBroker /\ Continue(w, "lookup")
         [] OTHER -> NoBroker /\ BackOff(w)
    /\ NoTable /\ NoStore /\ UNCHANGED <<client, backup>>

\* The loop ends between two steps when it is told to.
StopWorker(w) ==
    /\ "restore" \in Events
    /\ At(w, "loop")
    /\ Continue(w, "off")
    /\ NoTable /\ NoBroker /\ NoStore /\ Others

\* No worker runs, no submission is under way, the broker serves nothing.
Quiescent ==
    /\ Alive = {} /\ requests = {} /\ gate.pc = "idle"
    /\ \A j \in Jobs : client[j].pc \notin {"put", "activate"}

\* A backup of the table and of the store, and its restoration.
TakeBackup ==
    /\ "restore" \in Events
    /\ backup = NULL
    /\ Quiescent
    /\ backup' = [jobs |-> jobs, attempts |-> attempts, principal |-> principal,
                  orphans |-> orphans, sources |-> sources, results |-> results]
    /\ UNCHANGED <<brokerVars, tableVars, worker, client, sources, results, faults>>

Restore ==
    /\ backup # NULL
    /\ Fault("restore")
    /\ Quiescent
    /\ jobs' = backup.jobs /\ attempts' = backup.attempts
    /\ principal' = backup.principal /\ orphans' = backup.orphans
    /\ sources' = backup.sources /\ results' = backup.results
    /\ UNCHANGED <<brokerVars, worker, client, backup>>

----------------------------------------------------------------------------
(* The system.                                                             *)

\* The lease of an attempt runs out, unless its worker renews it in time.
LeaseRunsOut(j) ==
    /\ LeaseLapses(j)
    /\ Timely => \A w \in Alive :
          worker[w].pc \in ExecutingSteps => worker[w].seq # jobs[j].current
    /\ UNCHANGED <<brokerVars, serviceVars>>

\* Steps under the reconciliation lease.
ReconcilingSteps == {"page", "ack", "acked", "complete"}

\* w recovers an attempt, or it backs off after an error in that phase, which
\* is meant to be shorter than the lease; nothing checks that it is.
Recovering(w) ==
    \/ worker[w].pc \in {"rcreated", "rterminated"}
    \/ worker[w].pc = "loop" /\ worker[w].phase \in {"recover", "recover_proof"}

ReconciliationRunsOut ==
    /\ ReconciliationLapses
    /\ Timely => \A w \in Alive : worker[w].pc \notin ReconcilingSteps
    /\ UNCHANGED <<brokerVars, serviceVars>>

RecoveryRunsOut(s) ==
    /\ RecoveryLapses(s)
    /\ Timely => \A w \in Alive : attempts[s].recovery = w => ~Recovering(w)
    /\ UNCHANGED <<brokerVars, serviceVars>>

TimeStep ==
    \/ \E j \in Jobs : LeaseRunsOut(j)
    \/ ReconciliationRunsOut
    \/ \E s \in CreateSequences : RecoveryRunsOut(s)
    \/ /\ \/ "retention" \in Events /\ RetentionPasses
          \/ \E j \in Jobs : UploadGrowsOld(j)
       /\ UNCHANGED <<brokerVars, serviceVars>>

ReconcileStep(w) ==
    \/ BeginReconcile(w) \/ PageArrives(w) \/ SendAck(w) \/ AckArrives(w)
    \/ RecordPage(w) \/ Complete(w) \/ ReadyArrives(w)

RecoverStep(w) ==
    \/ RecoverAttempt(w) \/ NothingToRecover(w) \/ RecoveryCreated(w)
    \/ RecoveryTerminated(w) \/ RecoveryAcked(w) \/ Requeue(w)

ExecuteStep(w) ==
    \/ ClaimJob(w) \/ NothingToClaim(w) \/ Load(w) \/ Intent(w) \/ Created(w)
    \/ Stage_source(w) \/ Staged(w) \/ Collect_result(w) \/ CollectInterrupted(w)
    \/ Collected(w) \/ Terminated(w)
    \/ Validate(w) \/ Publish(w) \/ PutResult(w) \/ Check(w) \/ Succeed(w) \/ Lookup(w)
    \/ Undo(w) \/ Reject(w) \/ AcknowledgeProof(w) \/ ProofAcknowledged(w)

CleanStep(w) == Expire(w) \/ DeleteObjects(w) \/ CompleteCleanup(w)

WorkerStep(w) ==
    StartWorker(w) \/ ReconcileStep(w) \/ RecoverStep(w) \/ ExecuteStep(w) \/ CleanStep(w)

ClientStep(j) == SubmitCreate(j) \/ SubmitReplay(j) \/ SubmitPut(j) \/ SubmitActivate(j)

FaultStep ==
    \/ \E j \in Jobs : SubmitPutFails(j) \/ ClientDies(j)
    \/ \E w \in Workers : \/ PutResultFails(w) \/ SucceedAmbiguous(w) \/ WorkerDies(w)
                          \/ RequestTimesOut(w) \/ DatabaseFails(w)
    \/ \E w \in Workers : StopWorker(w)
    \/ TakeBackup \/ Restore

BrokerRuns == BrokerStep /\ UNCHANGED <<tableVars, serviceVars>>

BrokerFails == BrokerFaultStep /\ UNCHANGED <<tableVars, serviceVars>>

ServiceNext ==
    \/ \E j \in Jobs : ClientStep(j) \/ Cancel(j)
    \/ \E w \in Workers : WorkerStep(w) \/ Beat(w)
    \/ BrokerRuns \/ BrokerFails
    \/ TimeStep
    \/ FaultStep

ServiceSpec == ServiceInit /\ [][ServiceNext]_vars

\* Code that runs keeps running: the worker's threads, the API's threads, the
\* broker and the clocks; the time limit ends a collection that stays pending.
\* Nothing makes a client cancel or a fault happen.
FairServiceSpec ==
    /\ ServiceSpec
    /\ \A w \in Workers : WF_vars(WorkerStep(w)) /\ SF_vars(CollectInterrupted(w))
    /\ \A j \in Jobs : WF_vars(ClientStep(j))
    /\ WF_vars(BrokerRuns)
    /\ \A j \in Jobs : WF_vars(LeaseRunsOut(j))
    /\ WF_vars(ReconciliationRunsOut)
    /\ \A s \in CreateSequences : SF_vars(RecoveryRunsOut(s))

----------------------------------------------------------------------------
(* Properties.                                                             *)

\* Types: what a worker holds, where a submission is, what the store keeps.
ServiceTypeOK ==
    /\ worker \in [Workers -> WorkerState]
    /\ client \in [Jobs -> [pc : {"new", "put", "activate", "accepted", "gone"},
                            job : Jobs \cup {NULL}]]
    /\ sources \subseteq Jobs
    /\ results \subseteq Jobs \X CreateSequences
    /\ faults \in 0 .. MaxServiceFaults

\* A unit converts only for the attempt that its job is running now, whoever
\* sent the create request, however late the broker served it, and whatever
\* has died since: no job is ever converted by two units at a time. (A table
\* that may be restored from a backup may be behind the broker.)
LiveUnitIsCurrent ==
    backup = NULL => \A u \in DOMAIN runtime : runtime[u] = "running" =>
        LET s == inventory[u].sequence
        IN  /\ s \in Known
            /\ jobs[attempts[s].job].state = "running"
            /\ jobs[attempts[s].job].current = s

\* The broker forgets a unit only when the table holds its proof: an
\* acknowledgement is never sent for a proof that is not recorded.
ProofNeverLost ==
    backup = NULL => \A b \in births : inventory[b[2]].state = "none" =>
        \/ attempts[b[1]].proof = b[2]
        \/ orphans[b[1]].unit = b[2]

\* A proof in the table is the proof of a unit that is gone.
ProofGenuine ==
    \A s \in DOMAIN attempts :
        /\ attempts[s].proof # 0 =>
              <<s, attempts[s].proof>> \in births /\ runtime[attempts[s].proof] = "absent"
        /\ orphans[s].unit # 0 =>
              <<s, orphans[s].unit>> \in births /\ runtime[orphans[s].unit] = "absent"

\* A success names an object that is in the store, although the outcome of
\* its commit was unknown to the worker that published it.
ReverseResultAvailable ==
    \A j \in DOMAIN jobs : jobs[j].state = "succeeded" => <<j, jobs[j].result>> \in results

\* A job that may still run has its upload.
ReverseSourceAvailable ==
    \A j \in DOMAIN jobs : jobs[j].state \in ActiveStates /\ jobs[j].sourceReady => j \in sources

\* Once a job is cleaned, the result of an attempt that lost its lease and
\* published late is in the hands of a worker that will delete it.
ReverseResultsCleaned ==
    \A j \in DOMAIN jobs : jobs[j].cleaned =>
        \A r \in results : r[1] = j =>
            \E w \in Alive : /\ worker[w].pc \in {"check", "succeed", "lookup", "undo"}
                             /\ ResultKey(w) = r

\* A claim draws a create sequence that the broker has not seen, also after a
\* restoration that took the table back behind the broker.
ClaimsFresh ==
    \A s \in DOMAIN attempts :
        s \notin Known /\ attempts'[s].job # NULL /\ worker' # worker => s > highWater

\* A restoration or a reconciliation never makes the table draw a create
\* sequence that the broker has already seen
\* (record_reconciliation_page raises the high water).
FreshClaim == [][ClaimsFresh]_vars

\* Every unit is accounted for: one that runs works for the attempt that its
\* job runs now, a proof in the table is of a unit that is gone, and until
\* the table has it the broker keeps it
\* (reversion_jobs/worker_maintenance.py, reversion_jobs/reconciliation.py).
UnitsAccounted == LiveUnitIsCurrent /\ ProofNeverLost /\ ProofGenuine

\* A success has its result in the store, a claimable job its source, and a
\* result that nobody refers to is deleted.
ReverseObjectsKept ==
    ReverseResultAvailable /\ ReverseResultsCleaned /\ ReverseSourceAvailable

\* The one state without a way on: the reservation of a create sequence was
\* discarded before its intent, the sequence is used, and no unit will ever
\* prove itself gone.
Wedged(j) ==
    LET s == jobs[j].current
    IN  /\ jobs[j].state = "running"
        /\ attempts[s].intent /\ attempts[s].proof = 0
        /\ s <= highWater
        /\ \A u \in Inventoried : inventory[u].sequence # s

\* The bounds of the instance end: no worker process is left, or a job waits
\* for an attempt and there is no create sequence for it.
Spent(j) ==
    \/ \A w \in Workers : worker[w].pc = "off"
    \/ principal.highWater = MaxSequence /\ jobs[j].state = "queued"

\* An accepted job reaches an outcome, whatever fails on the way, unless it
\* is wedged, as long as a worker is left to run.
ReverseJobEnds ==
    \A j \in Jobs : client[j] = [pc |-> "accepted", job |-> j] ~>
        \/ jobs[j].state \in OutcomeStates \cup {"expired"}
        \/ Wedged(j)
        \/ Spent(j)
=============================================================================
