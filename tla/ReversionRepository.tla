------------------------ MODULE ReversionRepository ------------------------
(***************************************************************************)
(* The table of the reverse queue (persistence/reversion_jobs): jobs,      *)
(* their attempts, the broker principal with its reconciliation cursor,    *)
(* and the proofs of attempts that the table does not know.                *)
(*                                                                         *)
(* A method is one transaction, hence one action.  A claim appends an      *)
(* attempt and draws the next create sequence of the principal, so the     *)
(* sequence stands for the attempt identifier and for the lease token that *)
(* are drawn with it.  The proof of a termination is a digest of its unit, *)
(* so the unit stands for the proof.  The policy revision is constant.     *)
(*                                                                         *)
(* Time is kept as what has passed: a lease is live until an action of     *)
(* time ends it.  A caller reads its clock before its transaction, so its  *)
(* reading may be older than the end of its lease: a holder may act until  *)
(* somebody takes its lease away, and it may be refused from its end on.   *)
(***************************************************************************)
EXTENDS BrokerIdentities

CONSTANTS
    Jobs,          \* submissions, each with the job identifier it would get
    UserOf,        \* UserOf[j]: owner_id
    KeyOf,         \* KeyOf[j]: idempotency_digest, NULL without a key
    UserQuota,     \* active_jobs_per_user
    Capacity,      \* global_queue_capacity, shared with the forward queue
    Workers,       \* worker processes; each has its own identity and tokens
    RunningLimit,  \* running_limit of a claim
    AckBatch       \* ack_batch_limit

ASSUME ReversionAssumption ==
    /\ IsFiniteSet(Jobs)
    /\ NULL \notin Jobs /\ NULL \notin Workers
    /\ UserQuota \in Nat \ {0}
    /\ Capacity \in Nat \ {0}
    /\ RunningLimit \in Nat \ {0}
    /\ AckBatch \in Nat \ {0}

VARIABLES
    jobs,       \* jobs[j]: ReversionJobRow
    attempts,   \* attempts[s]: ReversionAttemptRow of create sequence s
    principal,  \* ReversionBrokerPrincipalRow
    orphans     \* orphans[s]: ReversionOrphanProofRow of create sequence s

tableVars == <<jobs, attempts, principal, orphans>>

----------------------------------------------------------------------------
(* Rows.                                                                   *)

ActiveStates == {"queued", "running"}

OutcomeStates == {"succeeded", "failed", "cancelled"}

Job == [state       : {"none"} \cup ActiveStates \cup OutcomeStates \cup {"expired"},
        sourceReady : BOOLEAN,
        stale       : BOOLEAN,                \* created before incomplete_before
        attempt     : 0 .. MaxSequence,
        current     : 0 .. MaxSequence,       \* current_attempt_id, 0 for none
        lapsed      : BOOLEAN,                \* lease_expires_at has passed
        cancel      : BOOLEAN,                \* cancel_requested
        result      : 0 .. MaxSequence,       \* attempt number of the result object
        error       : BOOLEAN,                \* error_code
        due         : BOOLEAN,                \* expires_at has passed
        cleaner     : Workers \cup {NULL},    \* cleanup_token
        cleanLapsed : BOOLEAN,                \* cleanup_expires_at has passed
        cleaned     : BOOLEAN]                \* cleanup_completed

NoJob == [state |-> "none", sourceReady |-> FALSE, stale |-> FALSE, attempt |-> 0,
          current |-> 0, lapsed |-> FALSE, cancel |-> FALSE, result |-> 0,
          error |-> FALSE, due |-> FALSE, cleaner |-> NULL, cleanLapsed |-> FALSE,
          cleaned |-> FALSE]

Attempt == [job       : Jobs \cup {NULL},
            number    : 0 .. MaxSequence,
            worker    : Workers \cup {NULL},
            intent    : BOOLEAN,              \* create_intent_at
            unit      : 0 .. MaxUnits,        \* unit_id, 0 for none
            proof     : 0 .. MaxUnits,        \* proof_id, 0 for none
            acked     : BOOLEAN,              \* proof_acknowledged_at
            ackIntent : BOOLEAN,              \* reconciliation_ack_intent_at
            recovery  : Workers \cup {NULL},  \* recovery_token
            recLapsed : BOOLEAN]              \* recovery_expires_at has passed

NoAttempt == [job |-> NULL, number |-> 0, worker |-> NULL, intent |-> FALSE,
              unit |-> 0, proof |-> 0, acked |-> FALSE, ackIntent |-> FALSE,
              recovery |-> NULL, recLapsed |-> FALSE]

Principal == [highWater : 0 .. MaxSequence,
              complete  : BOOLEAN,              \* reconciliation_complete
              token     : Workers \cup {NULL},  \* reconciliation_token
              lapsed    : BOOLEAN,              \* reconciliation_expires_at
              cursor    : 0 .. MaxSequence,
              head      : -1 .. MaxSequence,    \* observed_head, -1 for none
              fixed     : BOOLEAN]              \* reconciliation_fixed_point

NewPrincipal == [highWater |-> 0, complete |-> FALSE, token |-> NULL, lapsed |-> FALSE,
                 cursor |-> 0, head |-> -1, fixed |-> FALSE]

Orphan == [unit : 0 .. MaxUnits, acked : BOOLEAN]

NoOrphanProof == [unit |-> 0, acked |-> FALSE]

TableInit ==
    /\ jobs = [j \in Jobs |-> NoJob]
    /\ attempts = [s \in CreateSequences |-> NoAttempt]
    /\ principal = NewPrincipal
    /\ orphans = [s \in CreateSequences |-> NoOrphanProof]

Known == {s \in DOMAIN attempts : attempts[s].job # NULL}

----------------------------------------------------------------------------
(* Submissions: create, activate_source, request_cancel.                   *)

\* The row that the key of submission j found, if any.
Existing(j) ==
    {k \in Jobs : /\ jobs[k].state # "none"
                  /\ KeyOf[j] # NULL
                  /\ KeyOf[k] = KeyOf[j] /\ UserOf[k] = UserOf[j]}

Active == {j \in Jobs : jobs[j].state \in ActiveStates}

\* _enforce_admission, with f active jobs in the forward queue.
Admitted(j, f) ==
    /\ Cardinality({k \in Active : UserOf[k] = UserOf[j]}) < UserQuota
    /\ Cardinality(Active) + f < Capacity

create(j) ==
    /\ jobs[j].state = "none"
    /\ Existing(j) = {}
    /\ \E f \in 0 .. Capacity : Admitted(j, f)
    /\ jobs' = [jobs EXCEPT ![j].state = "queued"]
    /\ UNCHANGED <<attempts, principal, orphans>>

activate_source(j) ==
    /\ jobs[j].state = "queued"
    /\ jobs' = [jobs EXCEPT ![j].sourceReady = TRUE]
    /\ UNCHANGED <<attempts, principal, orphans>>

\* A queued job is cancelled at once, a running one is asked to stop.
request_cancel(j) ==
    /\ jobs[j].state \in ActiveStates
    /\ jobs' = [jobs EXCEPT ![j] =
           IF @.state = "queued" THEN [@ EXCEPT !.state = "cancelled", !.cancel = FALSE]
                                 ELSE [@ EXCEPT !.cancel = TRUE]]
    /\ UNCHANGED <<attempts, principal, orphans>>

----------------------------------------------------------------------------
(* claim and the lease.                                                    *)

Running == {j \in Jobs : jobs[j].state = "running"}

\* An attempt that runs and whose unit is not known yet.
Unbound == {j \in Running : attempts[jobs[j].current].unit = 0}

Reconciled == principal.complete /\ principal.token = NULL

ClaimAllowed ==
    /\ Reconciled
    /\ Cardinality(Running) < RunningLimit
    /\ Unbound = {}

ClaimedJob(job, s) ==
    [job EXCEPT !.state = "running", !.attempt = @ + 1, !.current = s,
                !.lapsed = FALSE, !.cancel = FALSE]

\* The next create sequence and the attempt in one transaction.
claim(w, j) ==
    LET s == principal.highWater + 1
    IN  /\ ClaimAllowed
        /\ jobs[j].state = "queued" /\ jobs[j].sourceReady
        /\ s <= MaxSequence
        /\ jobs' = [jobs EXCEPT ![j] = ClaimedJob(@, s)]
        /\ attempts' = [attempts EXCEPT ![s] =
               [NoAttempt EXCEPT !.job = j, !.number = jobs[j].attempt + 1, !.worker = w]]
        /\ principal' = [principal EXCEPT !.highWater = s]
        /\ UNCHANGED orphans

\* _owned_current: the row still runs attempt s of worker w.
Owned_current(w, s) ==
    /\ s \in Known
    /\ attempts[s].worker = w
    /\ jobs[attempts[s].job].state = "running"
    /\ jobs[attempts[s].job].current = s

\* ReversionJobLeaseLostError: somebody else has the job, or the lease ended
\* before the reading of the clock.
LeaseLost(w, s) ==
    \/ ~Owned_current(w, s)
    \/ jobs[attempts[s].job].lapsed

\* A reading before the end of the old lease; the new lease may end at once.
heartbeat(w, s) ==
    /\ Owned_current(w, s)
    /\ jobs' = [jobs EXCEPT ![attempts[s].job].lapsed = FALSE]
    /\ UNCHANGED <<attempts, principal, orphans>>

----------------------------------------------------------------------------
(* The broker unit of an attempt and its proof.                            *)

reserve_create_intent(w, s) ==
    /\ Owned_current(w, s)
    /\ attempts' = [attempts EXCEPT ![s].intent = TRUE]
    /\ UNCHANGED <<jobs, principal, orphans>>

\* unit_id is unique among the attempts.
UnitTaken(s, u) == \E t \in Known \ {s} : attempts[t].unit = u

record_broker_unit(w, s, u) ==
    /\ Owned_current(w, s)
    /\ attempts[s].intent
    /\ attempts[s].unit \in {0, u}
    /\ ~UnitTaken(s, u)
    /\ attempts' = [attempts EXCEPT ![s].unit = u]
    /\ UNCHANGED <<jobs, principal, orphans>>

\* _store_proof accepts the proof of unit u for the attempt.
ProofMatches(a, u) == a.intent /\ a.unit \in {0, u} /\ a.proof \in {0, u}

record_active_termination_proof(w, s, u) ==
    /\ Owned_current(w, s)
    /\ ProofMatches(attempts[s], u)
    /\ ~UnitTaken(s, u)
    /\ attempts' = [attempts EXCEPT ![s].unit = u, ![s].proof = u]
    /\ UNCHANGED <<jobs, principal, orphans>>

\* A running job whose lease ended is taken over until its unit is proved gone.
Recoverable(s) ==
    /\ s \in Known
    /\ LET j == attempts[s].job
       IN jobs[j].state = "running" /\ jobs[j].current = s /\ jobs[j].lapsed
    /\ attempts[s].intent
    /\ attempts[s].proof = 0
    /\ attempts[s].recovery = NULL \/ attempts[s].recLapsed

claim_recovery(w, s) ==
    /\ Recoverable(s)
    /\ attempts' = [attempts EXCEPT ![s].recovery = w, ![s].recLapsed = FALSE]
    /\ UNCHANGED <<jobs, principal, orphans>>

\* The lapse of the recovery lease refuses only a later reading of the clock.
RecoveryHeld(w, s) ==
    /\ s \in Known
    /\ LET j == attempts[s].job IN jobs[j].state = "running" /\ jobs[j].current = s
    /\ attempts[s].recovery = w
    /\ attempts[s].proof = 0

record_recovery_termination_proof(w, s, u) ==
    /\ RecoveryHeld(w, s)
    /\ ProofMatches(attempts[s], u)
    /\ ~UnitTaken(s, u)
    /\ attempts' = [attempts EXCEPT ![s].unit = u, ![s].proof = u,
                                    ![s].recovery = NULL, ![s].recLapsed = FALSE]
    /\ UNCHANGED <<jobs, principal, orphans>>

acknowledge_termination_proof(s, u) ==
    /\ s \in Known
    /\ attempts[s].proof = u /\ u # 0
    /\ attempts' = [attempts EXCEPT ![s].acked = TRUE]
    /\ UNCHANGED <<jobs, principal, orphans>>

\* Mutant: an attempt that never asked for a unit needs a proof as well.
ProvenReturnable(j) ==
    /\ jobs[j].state = "running" /\ jobs[j].lapsed
    /\ attempts[jobs[j].current].proof # 0

\* recover_expired_leases gives a job back only if its attempt never asked
\* for a unit or if that unit is proved gone.
Returnable(j) ==
    /\ jobs[j].state = "running" /\ jobs[j].lapsed
    /\ LET a == attempts[jobs[j].current] IN ~a.intent \/ a.proof # 0

Incomplete(j) == jobs[j].state = "queued" /\ ~jobs[j].sourceReady /\ jobs[j].stale

ClearedLease(job) == [job EXCEPT !.current = 0, !.lapsed = FALSE, !.cancel = FALSE]

RecoveredJob(job) ==
    [ClearedLease(job) EXCEPT !.state = IF job.cancel THEN "cancelled" ELSE "queued"]

\* One transaction over a batch: first the leases, then the uploads that
\* never completed.
recover_expired_leases(returned, failed) ==
    /\ returned \subseteq {j \in Jobs : Returnable(j)}
    /\ failed \subseteq {j \in Jobs : Incomplete(j)}
    /\ jobs' = [j \in Jobs |->
           CASE j \in returned -> RecoveredJob(jobs[j])
             [] j \in failed -> [jobs[j] EXCEPT !.state = "failed", !.error = TRUE]
             [] OTHER -> jobs[j]]
    /\ attempts' = [s \in CreateSequences |->
           IF \E j \in returned : jobs[j].current = s
           THEN [attempts[s] EXCEPT !.recovery = NULL, !.recLapsed = FALSE]
           ELSE attempts[s]]
    /\ UNCHANGED <<principal, orphans>>

----------------------------------------------------------------------------
(* Outcomes: succeed, fail, finish_cancelled, through _finish.             *)

\* Mutant: only a success needs the proof.
SuccessProvable(s, outcome) == outcome = "succeeded" => attempts[s].proof # 0

\* ReversionProofRequiredError unless this holds.
Provable(s, outcome) ==
    outcome = "succeeded" \/ attempts[s].intent => attempts[s].proof # 0

\* Mutant: the request is cleared with the lease and otherwise ignored.
FinishedAnyway(job, outcome) ==
    [ClearedLease(job) EXCEPT
        !.state = outcome,
        !.result = IF outcome = "succeeded" THEN job.attempt ELSE 0,
        !.error = (outcome = "failed")]

\* A cancellation that was asked for wins over any other outcome.
FinishedJob(job, outcome) ==
    LET effective == IF job.cancel THEN "cancelled" ELSE outcome
    IN  [ClearedLease(job) EXCEPT
            !.state = effective,
            !.result = IF effective = "succeeded" THEN job.attempt ELSE 0,
            !.error = (effective = "failed")]

finish(w, s, outcome) ==
    /\ Owned_current(w, s)
    /\ Provable(s, outcome)
    /\ jobs' = [jobs EXCEPT ![attempts[s].job] = FinishedJob(@, outcome)]
    /\ UNCHANGED <<attempts, principal, orphans>>

----------------------------------------------------------------------------
(* Reconciliation with the broker's inventory.                             *)

\* Another token is refused while the lease of the holder is live.
begin_reconciliation(w) ==
    /\ \/ principal.token \in {w, NULL}
       \/ principal.lapsed
    /\ principal' =
           IF principal.token = w
           THEN [principal EXCEPT !.complete = FALSE, !.lapsed = FALSE]
           ELSE [principal EXCEPT !.complete = FALSE, !.lapsed = FALSE, !.token = w,
                                  !.cursor = 0, !.head = -1, !.fixed = FALSE]
    /\ UNCHANGED <<jobs, attempts, orphans>>

ReconciliationHeld(w) == principal.token = w

ReconciliationLost(w) == principal.token # w \/ principal.lapsed

\* _retain_reconciliation_tombstone refuses a proof that contradicts a row.
TombstoneFits(s, u) ==
    /\ ~UnitTaken(s, u)
    /\ IF s \in Known
       THEN /\ \A t \in CreateSequences : orphans[t].unit # u
            /\ attempts[s].unit \in {0, u}
            /\ attempts[s].proof \in {0, u}
       ELSE /\ orphans[s].unit \in {0, u}
            /\ \A t \in CreateSequences \ {s} : orphans[t].unit # u

RetainTombstone(s, u) ==
    IF s \in Known
    THEN /\ attempts' = [attempts EXCEPT ![s] =
                [@ EXCEPT !.intent = TRUE, !.unit = u, !.proof = u, !.ackIntent = TRUE]]
         /\ UNCHANGED orphans
    ELSE /\ orphans' = [orphans EXCEPT ![s].unit = u]
         /\ UNCHANGED attempts

\* Mutant: only tombstones raise the high water, not the broker's own.
RecordTombstonesOnly(w, cursor, s, u, h) ==
    LET raised == IF s > principal.highWater THEN s ELSE principal.highWater
    IN  /\ ReconciliationHeld(w)
        /\ cursor = principal.cursor
        /\ IF u # 0
           THEN /\ TombstoneFits(s, u)
                /\ RetainTombstone(s, u)
                /\ principal' = [principal EXCEPT !.highWater = raised, !.cursor = s,
                                                  !.head = -1, !.fixed = FALSE]
           ELSE /\ principal' = [principal EXCEPT !.head = h, !.fixed = (principal.head = h)]
                /\ UNCHANGED <<attempts, orphans>>
        /\ UNCHANGED jobs

\* A page with the tombstone of unit u and sequence s, or, with u = 0, the
\* last page, on which the broker's high water h is compared with the last.
record_reconciliation_page(w, cursor, s, u, h) ==
    LET raised == IF h > principal.highWater THEN h ELSE principal.highWater
    IN  /\ ReconciliationHeld(w)
        /\ cursor = principal.cursor
        /\ IF u # 0
           THEN /\ TombstoneFits(s, u)
                /\ RetainTombstone(s, u)
                /\ principal' = [principal EXCEPT !.highWater = raised, !.cursor = s,
                                                  !.head = -1, !.fixed = FALSE]
           ELSE /\ principal' = [principal EXCEPT !.highWater = raised, !.head = h,
                                                  !.fixed = (principal.head = h)]
                /\ UNCHANGED <<attempts, orphans>>
        /\ UNCHANGED jobs

\* Proofs that the broker has not been told to forget.
PendingAttempts == {s \in CreateSequences : attempts[s].proof # 0 /\ ~attempts[s].acked}

PendingOrphans == {s \in CreateSequences : orphans[s].unit # 0 /\ ~orphans[s].acked}

Unacknowledged == PendingAttempts \cup PendingOrphans

FirstBatch(S) == {s \in S : Cardinality({t \in S : t < s}) < AckBatch}

\* The first batch of attempts gets its durable intents; the caller is given
\* FirstBatch(Unacknowledged).
pending_reconciliation_acknowledgements(w) ==
    /\ ReconciliationHeld(w)
    /\ attempts' = [s \in CreateSequences |->
           IF s \in FirstBatch(PendingAttempts)
           THEN [attempts[s] EXCEPT !.ackIntent = TRUE]
           ELSE attempts[s]]
    /\ UNCHANGED <<jobs, principal, orphans>>

\* Only the token is compared, the end of its lease is not.
mark_reconciliation_acknowledged(w, s, u) ==
    /\ ReconciliationHeld(w)
    /\ IF s \in Known
       THEN /\ attempts[s].unit = u /\ attempts[s].proof = u /\ attempts[s].ackIntent
            /\ attempts' = [attempts EXCEPT ![s].acked = TRUE]
            /\ UNCHANGED orphans
       ELSE /\ orphans[s].unit = u
            /\ orphans' = [orphans EXCEPT ![s].acked = TRUE]
            /\ UNCHANGED attempts
    /\ UNCHANGED <<jobs, principal>>

\* ReversionProofRequiredError while there is one.
Unproven == {s \in Known : attempts[s].intent /\ attempts[s].proof = 0}

complete_reconciliation(w) ==
    /\ ReconciliationHeld(w)
    /\ Unproven = {}
    /\ principal.fixed
    /\ Unacknowledged = {}
    /\ principal' = [principal EXCEPT !.complete = TRUE, !.token = NULL, !.lapsed = FALSE]
    /\ UNCHANGED <<jobs, attempts, orphans>>

----------------------------------------------------------------------------
(* Retention: expire_terminal and complete_cleanup.                        *)

Expirable(j) ==
    \/ jobs[j].state \in OutcomeStates /\ jobs[j].due
    \/ /\ jobs[j].state = "expired" /\ ~jobs[j].cleaned
       /\ jobs[j].cleaner = NULL \/ jobs[j].cleanLapsed

expire_terminal(w, j) ==
    /\ Expirable(j)
    /\ jobs' = [jobs EXCEPT ![j] = [@ EXCEPT !.state = "expired", !.result = 0, !.error = FALSE,
                                             !.cleaner = w, !.cleanLapsed = FALSE]]
    /\ UNCHANGED <<attempts, principal, orphans>>

complete_cleanup(w, j) ==
    /\ jobs[j].state = "expired" /\ ~jobs[j].cleaned /\ jobs[j].cleaner = w
    /\ jobs' = [jobs EXCEPT ![j] = [@ EXCEPT !.cleaned = TRUE, !.cleaner = NULL,
                                             !.cleanLapsed = FALSE]]
    /\ UNCHANGED <<attempts, principal, orphans>>

----------------------------------------------------------------------------
(* Time.                                                                   *)

LeaseLapses(j) ==
    /\ jobs[j].state = "running" /\ ~jobs[j].lapsed
    /\ jobs' = [jobs EXCEPT ![j].lapsed = TRUE]
    /\ UNCHANGED <<attempts, principal, orphans>>

UploadGrowsOld(j) ==
    /\ jobs[j].state = "queued" /\ ~jobs[j].sourceReady /\ ~jobs[j].stale
    /\ jobs' = [jobs EXCEPT ![j].stale = TRUE]
    /\ UNCHANGED <<attempts, principal, orphans>>

RetentionEnds(j) ==
    /\ jobs[j].state \in OutcomeStates /\ ~jobs[j].due
    /\ jobs' = [jobs EXCEPT ![j].due = TRUE]
    /\ UNCHANGED <<attempts, principal, orphans>>

CleanupLapses(j) ==
    /\ jobs[j].cleaner # NULL /\ ~jobs[j].cleanLapsed
    /\ jobs' = [jobs EXCEPT ![j].cleanLapsed = TRUE]
    /\ UNCHANGED <<attempts, principal, orphans>>

RecoveryLapses(s) ==
    /\ attempts[s].recovery # NULL /\ ~attempts[s].recLapsed
    /\ attempts' = [attempts EXCEPT ![s].recLapsed = TRUE]
    /\ UNCHANGED <<jobs, principal, orphans>>

ReconciliationLapses ==
    /\ principal.token # NULL /\ ~principal.lapsed
    /\ principal' = [principal EXCEPT !.lapsed = TRUE]
    /\ UNCHANGED <<jobs, attempts, orphans>>

\* The ends of other leases than those of running jobs.
LeasesLapse ==
    \/ \E s \in CreateSequences : RecoveryLapses(s)
    \/ ReconciliationLapses

RetentionPasses == \E j \in Jobs : RetentionEnds(j) \/ CleanupLapses(j)

----------------------------------------------------------------------------
(* The table on its own: any worker calls any method, with any credentials *)
(* it ever had, and the broker's answers name any unit.                    *)

Submission ==
    \E j \in Jobs : create(j) \/ activate_source(j) \/ request_cancel(j)

Holder(w) ==
    \/ \E j \in Jobs : claim(w, j)
    \/ \E s \in CreateSequences :
          \/ heartbeat(w, s)
          \/ reserve_create_intent(w, s)
          \/ \E u \in UnitIds : record_broker_unit(w, s, u)
                                \/ record_active_termination_proof(w, s, u)
          \/ \E outcome \in OutcomeStates : finish(w, s, outcome)

Recovery(w) ==
    \/ \E s \in CreateSequences :
          \/ claim_recovery(w, s)
          \/ \E u \in UnitIds : record_recovery_termination_proof(w, s, u)
                                \/ acknowledge_termination_proof(s, u)
    \/ \E returned, failed \in SUBSET Jobs :
          returned \cup failed # {} /\ recover_expired_leases(returned, failed)

Reconciliation(w) ==
    \/ begin_reconciliation(w)
    \/ \E cursor, s, h \in 0 .. MaxSequence, u \in 0 .. MaxUnits :
          /\ u # 0 => s > cursor /\ s <= h
          /\ record_reconciliation_page(w, cursor, s, u, h)
    \/ pending_reconciliation_acknowledgements(w)
    \/ \E s \in CreateSequences, u \in UnitIds : mark_reconciliation_acknowledged(w, s, u)
    \/ complete_reconciliation(w)

Retention(w) == \E j \in Jobs : expire_terminal(w, j) \/ complete_cleanup(w, j)

\* Everything but the retention of finished jobs.
AttemptNext ==
    \/ Submission
    \/ \E w \in Workers : Holder(w) \/ Recovery(w) \/ Reconciliation(w)
    \/ LeasesLapse
    \/ \E j \in Jobs : LeaseLapses(j) \/ UploadGrowsOld(j)

TableNext ==
    \/ AttemptNext
    \/ \E w \in Workers : Retention(w)
    \/ RetentionPasses

AttemptSpec == TableInit /\ [][AttemptNext]_tableVars

TableSpec == TableInit /\ [][TableNext]_tableVars

----------------------------------------------------------------------------
(* Properties of the table.                                                *)

\* Types: the rows of the reverse queue have the columns of their kinds.
TableTypeOK ==
    /\ jobs \in [Jobs -> Job]
    /\ attempts \in [CreateSequences -> Attempt]
    /\ principal \in Principal
    /\ orphans \in [CreateSequences -> Orphan]

\* ReversionJob.__post_init__: what a row has to satisfy to be loaded.
JobLoads(job) ==
    /\ job.state = "running" <=> job.current # 0
    /\ job.state = "running" => job.attempt > 0
    /\ job.state = "succeeded" <=> job.result # 0
    /\ job.state = "failed" <=> job.error

\* ReversionAttempt.__post_init__.
AttemptLoads(attempt) ==
    /\ attempt.unit # 0 => attempt.intent
    /\ attempt.proof # 0 => attempt.unit = attempt.proof
    /\ attempt.acked \/ attempt.ackIntent => attempt.proof # 0

\* Whatever calls are made, every row still loads, and the rows of a running job and of its
\* attempt point at each other.
RowsLoad ==
    /\ \A j \in DOMAIN jobs :
        /\ JobLoads(jobs[j])
        /\ jobs[j].state = "running" =>
              /\ jobs[j].current \in Known
              /\ attempts[jobs[j].current].job = j
              /\ attempts[jobs[j].current].number = jobs[j].attempt
    /\ \A s \in DOMAIN attempts : AttemptLoads(attempts[s])

\* An attempt that asked the broker for a unit keeps its job until the unit
\* is proved gone: no retry, no outcome and no cancellation before.
UnprovenStillRuns ==
    \A s \in Known : attempts[s].intent /\ attempts[s].proof = 0 =>
        jobs[attempts[s].job].state = "running" /\ jobs[attempts[s].job].current = s

\* A success is never granted over a cancellation that was asked for, nor to
\* anybody but the attempt that ran last.
GrantsCurrent ==
    \A j \in DOMAIN jobs :
        jobs'[j].state = "succeeded" /\ jobs[j].state # "succeeded" =>
            ~jobs[j].cancel /\ jobs'[j].result = attempts[jobs[j].current].number

SuccessIsCurrent == [][GrantsCurrent]_tableVars

\* The high water is above every sequence that an attempt or an orphaned proof
\* ever had, so that a claim never draws one of them again.
SequencesIssued ==
    \A s \in DOMAIN attempts :
        /\ s \in Known \/ orphans[s].unit # 0 => s <= principal.highWater
        /\ ~(s \in Known /\ orphans[s].unit # 0)

\* No unit is bound to two attempts, and no proof is kept twice.
UnitsBoundOnce ==
    \A s, t \in DOMAIN attempts : s # t =>
        /\ attempts[s].unit # 0 => attempts[s].unit # attempts[t].unit
        /\ orphans[s].unit # 0 => orphans[s].unit # orphans[t].unit

\* Attempts are told apart for ever: whatever is called by whomever, with whatever
\* credentials, every row loads again, no sequence is issued and no unit bound twice, and
\* an attempt whose termination is not proved keeps its job
\* (persistence/reversion_jobs/repository.py).
AttemptsFenced == RowsLoad /\ SequencesIssued /\ UnitsBoundOnce /\ UnprovenStillRuns
=============================================================================
