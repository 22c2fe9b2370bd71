------------------------- MODULE ConversionService -------------------------
(***************************************************************************)
(* The forward conversion service: API processes that submit and cancel    *)
(* jobs (jobs/service.py), workers that claim, convert, publish, recover   *)
(* and clean (jobs/worker*.py, jobs/runner.py), the job table they share   *)
(* (JobRepository) and the object store (storage.py), which has no         *)
(* transaction in common with the table.                                   *)
(*                                                                         *)
(* Every call to the table or to the store is a step of its own, so steps  *)
(* of different processes interleave between any two calls, and any amount *)
(* of time may pass between them: a worker that stalls past its lease is   *)
(* an ordinary behaviour.  Crashes and failing calls come from a budget of *)
(* faults.                                                                 *)
(***************************************************************************)
EXTENDS JobRepository

CONSTANTS
    RequestDigest,   \* RequestDigest[j]: digest of the submitted request
    Manifested,      \* the jobs whose output includes a PDF, hence a manifest
    HasBudget,       \* whether max_job_duration_seconds is configured
    FaultKinds,      \* "crash", "stop", "storage", "database", "ambiguous"
    MaxFaults,       \* bound: how many faults occur
    Timely           \* TRUE: processes that run keep up with time, see OnTime

ASSUME ServiceAssumption ==
    /\ Manifested \subseteq Jobs
    /\ HasBudget \in BOOLEAN
    /\ FaultKinds \subseteq {"crash", "stop", "storage", "database", "ambiguous"}
    /\ MaxFaults \in Nat
    /\ Timely \in BOOLEAN

VARIABLES
    objects,   \* the keys present in the object store
    client,    \* client[j]: where the submit call that drew identifier j is
    worker,    \* worker[w]: where the loop of worker w is
    faults,    \* how many faults have occurred
    asked      \* history: the jobs whose cancellation was requested

vars == <<rows, reverseActive, objects, client, worker, faults, asked>>

----------------------------------------------------------------------------
(* Object keys.  An attempt has its own result and manifest.               *)

UploadKey(j) == <<"upload", j, 0>>

ResultKey(j, attempt) == <<"result", j, attempt>>

ManifestKey(j, attempt) == <<"manifest", j, attempt>>

AttemptKeys(j, attempt) ==
    {ResultKey(j, attempt)} \cup
    (IF j \in Manifested THEN {ManifestKey(j, attempt)} ELSE {})

\* ExpiredJobObjects: the keys that cleanup derives from the row.
JobKeys(j) ==
    {UploadKey(j)} \cup UNION {AttemptKeys(j, a) : a \in IssuedTokens(j)}

Keys == {UploadKey(j) : j \in Jobs} \cup
        UNION {AttemptKeys(j, a) : j \in Jobs, a \in 1 .. MaxAttempts}

----------------------------------------------------------------------------
(* Processes.                                                              *)

ClientSteps == {"new", "put", "undo", "activate", "accepted", "replayed",
                "refused", "error"}

Client == [pc : ClientSteps, job : Jobs]

WorkerSteps == {"stopped", "recover", "claim", "load", "convert", "resolve",
                "finish", "putResult", "putManifest", "publish", "undo",
                "discard", "tail", "clean", "acknowledge"}

Outcomes == {"none", "result", "cancelled", "lease_lost", "repository_error"}
            \cup WorkerErrorCodes

Worker == [pc        : WorkerSteps,
           job       : Jobs \cup {NULL},
           token     : Nat,
           lost      : BOOLEAN,      \* the heartbeat thread recorded an error
           exhausted : BOOLEAN,      \* the duration budget is used up
           outcome   : Outcomes,
           batch     : SUBSET Jobs,  \* jobs left in the cleanup batch
           due       : BOOLEAN,      \* next_cleanup has passed
           stop      : BOOLEAN]      \* the stop signal

FreshWorker == [pc |-> "recover", job |-> NULL, token |-> 0, lost |-> FALSE,
                exhausted |-> FALSE, outcome |-> "none", batch |-> {},
                due |-> FALSE, stop |-> FALSE]

Init ==
    /\ RepositoryInit
    /\ objects = {}
    /\ client = [j \in Jobs |-> [pc |-> "new", job |-> j]]
    /\ worker = [w \in Workers |-> FreshWorker]
    /\ faults = 0
    /\ asked = {}

Fault(kind) ==
    /\ kind \in FaultKinds
    /\ faults < MaxFaults
    /\ faults' = faults + 1

----------------------------------------------------------------------------
(* JobService.submit and JobService.cancel.                                *)

ClientAt(c, pc) ==
    /\ client[c].pc = pc
    /\ UNCHANGED <<worker, asked>>

GotoClient(c, pc) == client' = [client EXCEPT ![c].pc = pc]

SubmitCreate(c) ==
    /\ ClientAt(c, "new")
    /\ \E t \in Readings : create(c, t)
    /\ GotoClient(c, "put")
    /\ UNCHANGED <<objects, faults>>

\* The key names a job already: its request must be the same, and its source
\* is uploaded again unless it is ready.
SubmitReplay(c) ==
    /\ ClientAt(c, "new")
    /\ \E k \in _find_idempotent(c) :
          client' = [client EXCEPT ![c] =
              [pc  |-> CASE RequestDigest[k] # RequestDigest[c] -> "refused"
                         [] RequestDigest[k] = RequestDigest[c]
                            /\ rows[k].source_ready -> "replayed"
                         [] OTHER -> "put",
               job |-> k]]
    /\ UNCHANGED <<repositoryVars, objects, faults>>

\* The quota, the capacity or, at any time, a template that is no longer
\* current refuses the submission.
SubmitRefused(c) ==
    /\ ClientAt(c, "new")
    /\ _find_idempotent(c) = {}
    /\ GotoClient(c, "refused")
    /\ UNCHANGED <<repositoryVars, objects, faults>>

PutSource(c) ==
    /\ ClientAt(c, "put")
    /\ objects' = objects \cup {UploadKey(client[c].job)}
    /\ GotoClient(c, "activate")
    /\ UNCHANGED <<repositoryVars, faults>>

\* An error of put does not tell whether the object is there.
PutSourceFails(c) ==
    /\ ClientAt(c, "put")
    /\ Fault("storage")
    /\ objects' \in {objects, objects \cup {UploadKey(client[c].job)}}
    /\ GotoClient(c, "undo")
    /\ UNCHANGED repositoryVars

UndoSource(c) ==
    /\ ClientAt(c, "undo")
    /\ objects' = objects \ {UploadKey(client[c].job)}
    /\ GotoClient(c, "error")
    /\ UNCHANGED <<repositoryVars, faults>>

ActivateSource(c) ==
    /\ ClientAt(c, "activate")
    /\ activate_source(client[c].job)
    /\ GotoClient(c, "accepted")
    /\ UNCHANGED <<objects, faults>>

\* JobRepositoryError: the job was cancelled, abandoned or even claimed
\* meanwhile.  The upload stays where it is.
ActivateSourceRefused(c) ==
    /\ ClientAt(c, "activate")
    /\ ~SourceActivatable(client[c].job)
    /\ GotoClient(c, "error")
    /\ UNCHANGED <<repositoryVars, objects, faults>>

\* The API process dies, or its last cleaning delete or its activation fails.
ClientFails(c) ==
    /\ client[c].pc \in {"put", "undo", "activate"}
    /\ ClientAt(c, client[c].pc)
    /\ \/ Fault("crash")
       \/ client[c].pc = "undo" /\ Fault("storage")
       \/ client[c].pc = "activate" /\ Fault("database")
    /\ GotoClient(c, "error")
    /\ UNCHANGED <<repositoryVars, objects>>

Cancel(j) ==
    /\ j \in Existing
    /\ j \notin asked
    /\ \E t \in Readings : request_cancel(j, t)
    /\ asked' = asked \cup {j}
    /\ UNCHANGED <<objects, client, worker, faults>>

ClientStep(c) ==
    \/ SubmitCreate(c)
    \/ SubmitReplay(c)
    \/ SubmitRefused(c)
    \/ PutSource(c)
    \/ PutSourceFails(c)
    \/ UndoSource(c)
    \/ ActivateSource(c)
    \/ ActivateSourceRefused(c)
    \/ ClientFails(c)

----------------------------------------------------------------------------
(* The worker loop: recover, run_once, then the periodic cleanup.          *)

At(w, pc) ==
    /\ worker[w].pc = pc
    /\ UNCHANGED <<client, asked>>

Goto(w, pc) == worker' = [worker EXCEPT ![w].pc = pc]

\* run_once is over: nothing of it is kept but the loop's own state.
Forget(w, pc) ==
    worker' = [worker EXCEPT ![w] = [FreshWorker EXCEPT !.pc = pc,
                                                        !.due = worker[w].due,
                                                        !.stop = worker[w].stop]]

\* An exception that the loop catches skips the rest of its iteration.
Raise(w) == Forget(w, "recover")

WorkerRecover(w) ==
    /\ At(w, "recover")
    /\ ~worker[w].stop
    /\ \E t \in Readings : recover_expired_leases(t)
    /\ Goto(w, "claim")
    /\ UNCHANGED <<objects, faults>>

WorkerClaim(w) ==
    /\ At(w, "claim")
    /\ \E j \in Jobs, t \in Readings :
          /\ claim(w, j, t)
          /\ worker' = [worker EXCEPT ![w].pc = "load",
                                      ![w].job = j,
                                      ![w].token = rows[j].attempt + 1]
    /\ UNCHANGED <<objects, faults>>

\* Nothing to claim, or nothing that other transactions leave unlocked.
WorkerIdle(w) ==
    /\ At(w, "claim")
    /\ SkipLocked \/ ClaimCandidates = {}
    /\ Goto(w, "tail")
    /\ UNCHANGED <<repositoryVars, objects, faults>>

----------------------------------------------------------------------------
(* The heartbeat thread and the processor, which run concurrently.         *)

\* Where the heartbeat thread runs; in "finish" the main thread holds its lock.
Beating == {"load", "convert", "resolve", "putResult", "putManifest", "publish"}

Mine(w) == _owned_lease(worker[w].job, w, worker[w].token)

MyHeartbeatAccepted(w, t) ==
    HeartbeatAccepted(worker[w].job, w, worker[w].token, t)

\* The lock orders this worker's clock readings.
MyReadings(w) ==
    {t \in Readings : Mine(w) => rows[worker[w].job].heartbeat_at <= t}

\* A heartbeat of either thread, accepted.
Beat(w) ==
    /\ worker[w].pc \in Beating /\ At(w, worker[w].pc)
    /\ ~worker[w].lost
    /\ \E t \in MyReadings(w) : heartbeat(worker[w].job, w, worker[w].token, t)
    /\ UNCHANGED <<objects, worker, faults>>

\* The heartbeat thread records the refusal and ends.
BeatRefused(w) ==
    /\ worker[w].pc \in Beating /\ At(w, worker[w].pc)
    /\ ~worker[w].lost
    /\ \E t \in MyReadings(w) : ~MyHeartbeatAccepted(w, t)
    /\ worker' = [worker EXCEPT ![w].lost = TRUE]
    /\ UNCHANGED <<repositoryVars, objects, faults>>

\* _load_source: a missing source is a permanent conversion error.
LoadSource(w) ==
    /\ At(w, "load")
    /\ worker' = [worker EXCEPT ![w] =
          IF UploadKey(@.job) \in objects
          THEN [@ EXCEPT !.pc = "convert"]
          ELSE [@ EXCEPT !.pc = "resolve", !.outcome = "conversion_failed"]]
    /\ UNCHANGED <<repositoryVars, objects, faults>>

\* _BudgetCancellationProbe
Probe(w, exhausted) ==
    \/ worker[w].lost
    \/ exhausted
    \/ worker[w].stop
    \/ cancellation_requested(worker[w].job, w, worker[w].token)

\* execute: what the processor may come back with.  The duration budget runs
\* out at any moment.
Convert(w) ==
    /\ At(w, "convert")
    /\ \E exhausted \in {FALSE, HasBudget} :
       \E outcome \in {"result", "cancelled", "lease_lost", "conversion_failed"} :
          /\ outcome = "result" => ~Probe(w, exhausted)
          /\ outcome = "cancelled" => Probe(w, exhausted)
          /\ outcome = "lease_lost" => \E t \in MyReadings(w) : ~MyHeartbeatAccepted(w, t)
          /\ worker' = [worker EXCEPT ![w].pc = "resolve",
                                      ![w].exhausted = exhausted,
                                      ![w].outcome = outcome]
    /\ UNCHANGED <<repositoryVars, objects, faults>>

----------------------------------------------------------------------------
(* JobFailureService.resolve, under the heartbeat lock.                    *)

\* Mutant: an abort for shutdown is taken for a cancellation.
VerdictWithoutStop(w, exhausted) ==
    LET me == worker[w] IN
    IF me.lost \/ me.outcome = "lease_lost" THEN "raise"
    ELSE IF cancellation_requested(me.job, w, me.token) THEN "cancelled"
    ELSE IF exhausted THEN "resource_budget_exceeded"
    ELSE IF me.outcome = "repository_error" THEN "raise"
    ELSE me.outcome

\* The verdict, in the order of the code.  "release" leaves the job running
\* under its lease; "raise" ends the iteration with an exception.
Verdict(w, exhausted) ==
    LET me == worker[w] IN
    IF me.lost \/ me.outcome = "lease_lost" THEN "raise"
    ELSE IF cancellation_requested(me.job, w, me.token) THEN "cancelled"
    ELSE IF exhausted THEN "resource_budget_exceeded"
    ELSE IF me.stop THEN "release"
    ELSE IF me.outcome = "repository_error" THEN "raise"
    ELSE me.outcome

\* The cancellation is read in one transaction and the job finished in another.
Resolve(w) ==
    /\ At(w, "resolve")
    /\ \E exhausted \in {worker[w].exhausted, HasBudget} :
          LET verdict == Verdict(w, exhausted) IN
          \/ verdict = "raise" /\ Raise(w)
          \/ verdict = "release" /\ Forget(w, "tail")
          \/ verdict = "result" /\ Goto(w, "putResult")
          \/ /\ verdict \in {"cancelled"} \cup WorkerErrorCodes
             /\ worker' = [worker EXCEPT ![w].pc = "finish",
                                         ![w].outcome = verdict]
    /\ UNCHANGED <<repositoryVars, objects, faults>>

MyLiveLease(w, t) == LiveLease(worker[w].job, w, worker[w].token, t)

Finish(w) ==
    LET me == worker[w] IN
    /\ At(w, "finish")
    /\ \E t \in Readings :
          IF me.outcome = "cancelled"
          THEN finish_cancelled(me.job, w, me.token, t)
          ELSE fail(me.job, w, me.token, me.outcome, t)
    /\ Forget(w, "tail")
    /\ UNCHANGED <<objects, faults>>

\* JobLeaseLostError
FinishRefused(w) ==
    /\ At(w, "finish")
    /\ \E t \in Readings : ~MyLiveLease(w, t)
    /\ Raise(w)
    /\ UNCHANGED <<repositoryVars, objects, faults>>

----------------------------------------------------------------------------
(* JobPublicationService.publish.                                          *)

PutResult(w) ==
    /\ At(w, "putResult")
    /\ objects' = objects \cup {ResultKey(worker[w].job, worker[w].token)}
    /\ Goto(w, IF worker[w].job \in Manifested THEN "putManifest" ELSE "publish")
    /\ UNCHANGED <<repositoryVars, faults>>

PutManifest(w) ==
    /\ At(w, "putManifest")
    /\ objects' = objects \cup {ManifestKey(worker[w].job, worker[w].token)}
    /\ Goto(w, "publish")
    /\ UNCHANGED <<repositoryVars, faults>>

\* The effective state decides whether the objects stay.
Publish(w) ==
    /\ At(w, "publish")
    /\ ~worker[w].lost
    /\ \E t \in Readings : succeed(worker[w].job, w, worker[w].token, t)
    /\ IF rows[worker[w].job].cancel_requested THEN Goto(w, "discard")
                                               ELSE Forget(w, "tail")
    /\ UNCHANGED <<objects, faults>>

\* The heartbeat's error or JobLeaseLostError.
PublishRefused(w) ==
    /\ At(w, "publish")
    /\ worker[w].lost \/ \E t \in Readings : ~MyLiveLease(w, t)
    /\ Goto(w, "undo")
    /\ UNCHANGED <<repositoryVars, objects, faults>>

\* Mutant: the compensation goes by the job's current attempt.
CurrentKeys(w) == AttemptKeys(worker[w].job, rows[worker[w].job].attempt)

MyKeys(w) == AttemptKeys(worker[w].job, worker[w].token)

\* Both compensations delete the attempt's objects; one ends in the exception.
Compensate(w) ==
    /\ worker[w].pc \in {"undo", "discard"} /\ At(w, worker[w].pc)
    /\ objects' = objects \ MyKeys(w)
    /\ Forget(w, IF worker[w].pc = "undo" THEN "recover" ELSE "tail")
    /\ UNCHANGED <<repositoryVars, faults>>

----------------------------------------------------------------------------
(* WorkerMaintenanceService.cleanup.                                       *)

CleanupNotDue(w) ==
    /\ At(w, "tail")
    /\ ~worker[w].due
    /\ Raise(w)
    /\ UNCHANGED <<repositoryVars, objects, faults>>

\* next_cleanup is moved on before the batch is claimed.
CleanupClaim(w) ==
    /\ At(w, "tail")
    /\ worker[w].due
    /\ \E t \in Readings, S \in SUBSET Jobs :
          /\ expire_terminal(w, S, t)
          /\ worker' = [worker EXCEPT ![w].pc = "clean", ![w].batch = S,
                                      ![w].due = FALSE]
    /\ UNCHANGED <<objects, faults>>

CleanupDelete(w) ==
    /\ At(w, "clean")
    /\ \E j \in worker[w].batch :
          /\ objects' = objects \ JobKeys(j)
          /\ worker' = [worker EXCEPT ![w].pc = "acknowledge", ![w].job = j]
    /\ UNCHANGED <<repositoryVars, faults>>

AcknowledgedBatch(w) ==
    worker' = [worker EXCEPT ![w].pc = "clean", ![w].job = NULL,
                             ![w].batch = @ \ {worker[w].job}]

CleanupAcknowledge(w) ==
    /\ At(w, "acknowledge")
    /\ complete_cleanup(worker[w].job, w)
    /\ AcknowledgedBatch(w)
    /\ UNCHANGED <<objects, faults>>

\* Another worker has taken the claim over: the answer FALSE is ignored.
CleanupFencedOut(w) ==
    /\ At(w, "acknowledge")
    /\ ~CleanupFenced(worker[w].job, w)
    /\ AcknowledgedBatch(w)
    /\ UNCHANGED <<repositoryVars, objects, faults>>

CleanupDone(w) ==
    /\ At(w, "clean")
    /\ worker[w].batch = {}
    /\ Raise(w)
    /\ UNCHANGED <<repositoryVars, objects, faults>>

----------------------------------------------------------------------------
(* Faults.                                                                 *)

\* A put of publish fails, its object stored or not.
PutFails(w) ==
    /\ worker[w].pc \in {"putResult", "putManifest"} /\ At(w, worker[w].pc)
    /\ Fault("storage")
    /\ LET key == IF worker[w].pc = "putResult"
                  THEN ResultKey(worker[w].job, worker[w].token)
                  ELSE ManifestKey(worker[w].job, worker[w].token)
       IN  objects' \in {objects, objects \cup {key}}
    /\ Goto(w, "undo")
    /\ UNCHANGED repositoryVars

\* A delete fails after any of the deletes before it; the rest is left.
DeleteFails(w) ==
    /\ Fault("storage")
    /\ \/ /\ worker[w].pc \in {"undo", "discard"} /\ At(w, worker[w].pc)
          /\ \E gone \in SUBSET MyKeys(w) : objects' = objects \ gone
       \/ /\ At(w, "clean")
          /\ \E j \in worker[w].batch :
             \E gone \in SUBSET JobKeys(j) : objects' = objects \ gone
    /\ Raise(w)
    /\ UNCHANGED repositoryVars

\* The source cannot be read: for the processor, the same as a missing one.
LoadFails(w) ==
    /\ At(w, "load")
    /\ Fault("storage")
    /\ worker' = [worker EXCEPT ![w].pc = "resolve",
                                ![w].outcome = "conversion_failed"]
    /\ UNCHANGED <<repositoryVars, objects>>

\* A transaction fails and is rolled back.
TransactionFails(w) ==
    /\ worker[w].pc # "stopped" /\ At(w, worker[w].pc)
    /\ Fault("database")
    /\ \/ /\ worker[w].pc \in Beating
          /\ ~worker[w].lost
          /\ worker' = [worker EXCEPT ![w].lost = TRUE]
       \/ /\ worker[w].pc = "convert"
          /\ worker' = [worker EXCEPT ![w].pc = "resolve",
                                      ![w].outcome = "repository_error"]
       \/ worker[w].pc \in {"claim", "resolve", "finish", "acknowledge"} /\ Raise(w)
       \/ worker[w].pc = "publish" /\ Goto(w, "undo")
       \/ /\ worker[w].pc = "tail" /\ worker[w].due
          /\ worker' = [worker EXCEPT ![w].pc = "recover", ![w].due = FALSE]
    /\ UNCHANGED <<repositoryVars, objects>>

\* The commit of succeed goes through, but its acknowledgement is lost.
CommitAmbiguous(w) ==
    /\ At(w, "publish")
    /\ ~worker[w].lost
    /\ Fault("ambiguous")
    /\ \E t \in Readings : succeed(worker[w].job, w, worker[w].token, t)
    /\ Goto(w, "undo")
    /\ UNCHANGED objects

Crash(w) ==
    /\ worker[w].pc # "stopped" /\ At(w, worker[w].pc)
    /\ Fault("crash")
    /\ worker' = [worker EXCEPT ![w] = [FreshWorker EXCEPT !.pc = "stopped"]]
    /\ UNCHANGED <<repositoryVars, objects>>

StopSignal(w) ==
    /\ worker[w].pc # "stopped" /\ At(w, worker[w].pc)
    /\ ~worker[w].stop
    /\ Fault("stop")
    /\ worker' = [worker EXCEPT ![w].stop = TRUE]
    /\ UNCHANGED <<repositoryVars, objects>>

Stop(w) ==
    /\ At(w, "recover")
    /\ worker[w].stop
    /\ worker' = [worker EXCEPT ![w] = [FreshWorker EXCEPT !.pc = "stopped"]]
    /\ UNCHANGED <<repositoryVars, objects, faults>>

\* A new process takes the place of one that stopped.
Restart(w) ==
    /\ At(w, "stopped")
    /\ worker' = [worker EXCEPT ![w] = FreshWorker]
    /\ UNCHANGED <<repositoryVars, objects, faults>>

WorkerStep(w) ==
    \/ WorkerRecover(w) \/ WorkerClaim(w) \/ WorkerIdle(w)
    \/ LoadSource(w) \/ Convert(w) \/ Resolve(w) \/ Finish(w) \/ FinishRefused(w)
    \/ PutResult(w) \/ PutManifest(w) \/ Publish(w) \/ PublishRefused(w)
    \/ Compensate(w)
    \/ CleanupNotDue(w) \/ CleanupClaim(w) \/ CleanupDelete(w)
    \/ CleanupAcknowledge(w) \/ CleanupFencedOut(w) \/ CleanupDone(w)
    \/ Stop(w) \/ Restart(w)

WorkerFault(w) ==
    \/ PutFails(w) \/ DeleteFails(w) \/ LoadFails(w) \/ TransactionFails(w)
    \/ CommitAmbiguous(w) \/ Crash(w) \/ StopSignal(w)

\* WorkerPolicy requires heartbeat_seconds < lease_seconds: a worker that runs
\* on time renews its lease before it expires.  The lease of a cleanup claim is
\* never renewed: on time, a batch is done before its lease ends, and an upload
\* before the next tick.
OnTime ==
    /\ \A w \in Workers :
          /\ worker[w].pc \in Beating \cup {"finish"} /\ ~worker[w].lost /\ Mine(w)
                => rows[worker[w].job].lease_expires_at > 0
          /\ worker[w].pc \in {"clean", "acknowledge"}
                => \A j \in worker[w].batch :
                      CleanupFenced(j, w) => rows[j].cleanup_expires_at > 1
    /\ \A c \in Jobs : client[c].pc \notin {"put", "undo", "activate"}

TimePasses ==
    /\ Timely => OnTime
    /\ Tick
    /\ worker' = [w \in Workers |-> [worker[w] EXCEPT !.due = worker[w].pc # "stopped"]]
    /\ UNCHANGED <<objects, client, faults, asked>>

Next ==
    \/ \E c \in Jobs : ClientStep(c) \/ Cancel(c)
    \/ \E w \in Workers : WorkerStep(w) \/ Beat(w) \/ BeatRefused(w) \/ WorkerFault(w)
    \/ TimePasses

Spec == Init /\ [][Next]_vars

----------------------------------------------------------------------------
(* Properties.                                                             *)

\* The processes, the store and the table keep to their types.
ServiceTypeOK ==
    /\ TypeOK
    /\ objects \subseteq Keys
    /\ client \in [Jobs -> Client]
    /\ worker \in [Workers -> Worker]
    /\ faults \in 0 .. MaxFaults
    /\ asked \subseteq Jobs

\* A job that the API reports as succeeded can be downloaded: result and
\* manifest of the published attempt are in the store, although workers stall,
\* lose their lease, compensate and retry in any order around the publication.
ResultAvailable ==
    \A j \in DOMAIN rows : rows[j].state = "succeeded" =>
        AttemptKeys(j, rows[j].result_object_id) \subseteq objects

\* "Submission persists immutable input before a worker can claim the job": a
\* job that is or can be claimed has its source in the store.
SourceAvailable ==
    \A j \in DOMAIN rows : rows[j].state \in ActiveStates /\ rows[j].source_ready =>
        UploadKey(j) \in objects

\* What a client is told is durable: a submission answered with success, the
\* first or a replay, names one job of its own key and request, and that job
\* has its source.
AnswerDurable ==
    \A c \in DOMAIN client : client[c].pc \in {"accepted", "replayed"} =>
        LET j == client[c].job IN
        /\ rows[j].source_ready
        /\ RequestDigest[j] = RequestDigest[c]
        /\ j = c \/ IdempotencyDigest[j] = IdempotencyDigest[c]

\* A job ends cancelled only if somebody asked for it, although the processor
\* also aborts for a lost lease, for shutdown and for an exhausted budget.
CancelledOnlyIfAsked ==
    \A j \in DOMAIN rows : rows[j].state = "cancelled" => j \in asked

\* What clients are told holds: a job that they learn was accepted is durable and has
\* its source, one that succeeded has its result, and one that ends cancelled was asked
\* to.
AnswersHonoured ==
    AnswerDurable /\ SourceAvailable /\ ResultAvailable /\ CancelledOnlyIfAsked

\* A worker on attempt a of job j that may still put or still has to delete.
InFlight(j, a) ==
    \E w \in DOMAIN worker : /\ worker[w].job = j
                             /\ worker[w].token = a
                             /\ worker[w].pc \in {"putResult", "putManifest", "publish",
                                                  "undo", "discard"}

\* Once a job is cleaned, no result or manifest of any attempt is left but what a
\* stale worker is about to delete itself: the cleanup may race a late publication.
CleanedResultsGone ==
    \A j \in DOMAIN rows, a \in 1 .. MaxAttempts :
        rows[j].cleanup_completed /\ AttemptKeys(j, a) \cap objects # {} =>
            InFlight(j, a)

----------------------------------------------------------------------------
(* Liveness.  Users need not submit or cancel and faults need not occur,   *)
(* but a call that has started goes on, worker loops run for ever and are  *)
(* restarted by their supervisor, and time passes.                         *)

ClientContinues(c) ==
    PutSource(c) \/ UndoSource(c) \/ ActivateSource(c) \/ ActivateSourceRefused(c)

Fairness ==
    /\ \A c \in Jobs : WF_vars(ClientContinues(c))
    /\ \A w \in Workers : WF_vars(WorkerStep(w))
    /\ WF_vars(TimePasses)

FairSpec == Spec /\ Fairness

\* Every reservation gets an outcome: abandoned uploads are failed, and a job
\* whose worker died, lost its lease or was shut down is found and retried.
EveryJobFinishes ==
    \A j \in Jobs :
        rows[j].state \in ActiveStates ~> rows[j].state \in FinishedStates

\* Every finished job is cleaned in the end, although a cleanup may fail half
\* way or its worker die with the claim.
EveryJobCleaned ==
    \A j \in Jobs :
        rows[j].state \in FinishedStates ~> rows[j].cleanup_completed

\* Every accepted job comes to an outcome, and every outcome to its cleanup.
EveryJobEnds == EveryJobFinishes /\ EveryJobCleaned

============================================================================
