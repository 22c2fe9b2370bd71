--------------------------- MODULE JobRepository ---------------------------
(***************************************************************************)
(* The conversion-job table of the service (persistence/jobs): one row per *)
(* accepted submission and one action per method of the SQL repository.    *)
(* Every method is one database transaction, so every action is atomic.    *)
(*                                                                         *)
(* The module knows nothing of the callers: a heartbeat, a finish or a     *)
(* cleanup acknowledgement may present any credentials that were ever      *)
(* issued, at any moment.  This is exactly what the fencing must survive.  *)
(*                                                                         *)
(* Time is relative.  0 is the present instant, a stored timestamp is its  *)
(* distance from it, and Tick moves the present on by ageing every row.    *)
(* A caller reads its clock before it opens the transaction, so the        *)
(* reading is anything from 0 down to -ClockLag.                           *)
(*                                                                         *)
(* step, progress and updated_at are read by no guard; JobHeartbeat models *)
(* the first two.                                                          *)
(***************************************************************************)
EXTENDS Integers, FiniteSets

CONSTANTS
    Jobs,                 \* identifiers that submissions draw for their jobs
    Workers,              \* worker identifiers
    NULL,                 \* SQL NULL
    Owner,                \* Owner[j]: the user who submits j
    IdempotencyDigest,    \* IdempotencyDigest[j]: its key's digest, or NULL
    LeaseSeconds,         \* lease of a claim, and of a cleanup claim
    RetentionSeconds,     \* how long a finished job keeps its objects
    IncompleteSeconds,    \* age at which an upload counts as abandoned
    ActiveJobsPerUser,    \* JobAdmissionPolicy.active_jobs_per_user
    GlobalQueueCapacity,  \* JobAdmissionPolicy.global_queue_capacity
    CleanupLimit,         \* WorkerSchedule.cleanup_limit
    SkipLocked,           \* TRUE: PostgreSQL's SKIP LOCKED, FALSE: SQLite
    ClockLag,             \* bound: how old a clock reading may be when used
    MaxAttempts           \* bound: how often one job is claimed

ASSUME ConstantsAssumption ==
    /\ LeaseSeconds \in Nat \ {0}
    /\ RetentionSeconds \in Nat \ {0}
    /\ IncompleteSeconds \in Nat \ {0}
    /\ ActiveJobsPerUser \in Nat
    /\ GlobalQueueCapacity \in Nat
    /\ CleanupLimit \in Nat \ {0}
    /\ SkipLocked \in BOOLEAN
    /\ ClockLag \in Nat
    /\ MaxAttempts \in Nat

ASSUME FiniteJobsAssumption == IsFiniteSet(Jobs)

VARIABLES
    rows,           \* the rows of the job table, "absent" before create
    reverseActive   \* how many reverse jobs are queued or running

repositoryVars == <<rows, reverseActive>>

----------------------------------------------------------------------------
(***************************************************************************)
(* Rows.  lease_token is a fresh uuid4 per claim and attempt grows by one  *)
(* with it, so the attempt number stands for the uuid.  cleanup_token is a *)
(* fresh uuid4 per cleanup claim; a worker acknowledges or forgets one     *)
(* batch before it claims the next, so its identity stands for the uuid.   *)
(* result_object_id is uuid5(job, attempt): the attempt.  The manifest's   *)
(* identifier is set and cleared together with it.                         *)
(***************************************************************************)
WorkerErrorCodes == {"conversion_failed", "resource_budget_exceeded"}

ErrorCodes == WorkerErrorCodes \cup {"source_upload_incomplete"}

ASSUME NullAssumption == NULL \notin Int \cup Workers \cup ErrorCodes

ActiveStates == {"queued", "running"}

FinishedStates == {"succeeded", "failed", "cancelled"}

States == {"absent", "expired"} \cup ActiveStates \cup FinishedStates

Row == [state              : States,
        source_ready       : BOOLEAN,
        attempt            : Nat,
        created_at         : Int \cup {NULL},
        lease_owner        : Workers \cup {NULL},
        lease_token        : Nat \cup {NULL},
        lease_expires_at   : Int \cup {NULL},
        heartbeat_at       : Int \cup {NULL},
        cancel_requested   : BOOLEAN,
        result_object_id   : Nat \cup {NULL},
        error_code         : ErrorCodes \cup {NULL},
        expires_at         : Int \cup {NULL},
        cleanup_token      : Workers \cup {NULL},
        cleanup_expires_at : Int \cup {NULL},
        cleanup_completed  : BOOLEAN]

AbsentRow == [state              |-> "absent",
              source_ready       |-> FALSE,
              attempt            |-> 0,
              created_at         |-> NULL,
              lease_owner        |-> NULL,
              lease_token        |-> NULL,
              lease_expires_at   |-> NULL,
              heartbeat_at       |-> NULL,
              cancel_requested   |-> FALSE,
              result_object_id   |-> NULL,
              error_code         |-> NULL,
              expires_at         |-> NULL,
              cleanup_token      |-> NULL,
              cleanup_expires_at |-> NULL,
              cleanup_completed  |-> FALSE]

RepositoryInit ==
    /\ rows = [j \in Jobs |-> AbsentRow]
    /\ reverseActive = 0

\* A caller's clock reading by the time its transaction runs.
Readings == (-ClockLag) .. 0

----------------------------------------------------------------------------
(* Submission: create and activate_source.                                 *)

Existing == {j \in Jobs : rows[j].state # "absent"}

Active(S) == {j \in S : rows[j].state \in ActiveStates}

\* global_active_job_count: both job families share one capacity.
global_active_job_count == Cardinality(Active(Jobs)) + reverseActive

\* Mutant: an expired job no longer answers its key.
LiveIdempotent(j) ==
    {k \in Active(Jobs) : /\ IdempotencyDigest[j] # NULL
                          /\ Owner[k] = Owner[j]
                          /\ IdempotencyDigest[k] = IdempotencyDigest[j]}

\* _find_idempotent: the rows a submission's idempotency digest replays.
_find_idempotent(j) ==
    {k \in Existing : /\ IdempotencyDigest[j] # NULL
                      /\ Owner[k] = Owner[j]
                      /\ IdempotencyDigest[k] = IdempotencyDigest[j]}

WithinUserQuota(j) ==
    Cardinality(Active({k \in Jobs : Owner[k] = Owner[j]})) < ActiveJobsPerUser

\* Mutant: the forward queue counts only its own jobs.
WithinOwnCapacity == Cardinality(Active(Jobs)) < GlobalQueueCapacity

WithinCapacity == global_active_job_count < GlobalQueueCapacity

ReservedRow(t) == [AbsentRow EXCEPT !.state = "queued", !.created_at = t]

\* create inserts the row of a new job; the source is not there yet.  The
\* identifier is a fresh uuid4, so no existing row has it.
create(j, t) ==
    /\ rows[j].state = "absent"
    /\ _find_idempotent(j) = {}
    /\ WithinUserQuota(j)
    /\ WithinCapacity
    /\ rows' = [rows EXCEPT ![j] = ReservedRow(t)]
    /\ UNCHANGED reverseActive

SourceActivatable(j) == rows[j].state = "queued"

\* activate_source: also succeeds, changing nothing, when another submission
\* of the same key has activated the source and no worker has claimed it yet.
activate_source(j) ==
    /\ SourceActivatable(j)
    /\ rows' = [rows EXCEPT ![j] = [@ EXCEPT !.source_ready = TRUE]]
    /\ UNCHANGED reverseActive

----------------------------------------------------------------------------
(* Claims and leases.                                                      *)

Claimable == {j \in Jobs : rows[j].state = "queued" /\ rows[j].source_ready}

\* ORDER BY created_at, id: the identifiers are random, so a tie goes either
\* way.  SKIP LOCKED passes over rows that concurrent transactions hold.
ClaimCandidates ==
    {j \in Claimable : SkipLocked \/ \A k \in Claimable :
                                        rows[j].created_at <= rows[k].created_at}

ClaimedRow(row, w, t) ==
    [row EXCEPT !.state = "running",
                !.attempt = row.attempt + 1,
                !.lease_owner = w,
                !.lease_token = row.attempt + 1,
                !.lease_expires_at = t + LeaseSeconds,
                !.heartbeat_at = t,
                !.cancel_requested = FALSE]

claim(w, j, t) ==
    /\ j \in ClaimCandidates
    /\ rows[j].attempt < MaxAttempts
    /\ rows' = [rows EXCEPT ![j] = ClaimedRow(@, w, t)]
    /\ UNCHANGED reverseActive

_owned_lease(j, w, token) ==
    /\ rows[j].state = "running"
    /\ rows[j].lease_owner = w
    /\ rows[j].lease_token = token

\* The conditions under which a worker's write to its job goes through.
LiveLease(j, w, token, t) ==
    /\ _owned_lease(j, w, token)
    /\ rows[j].lease_expires_at >= t

HeartbeatAccepted(j, w, token, t) ==
    /\ LiveLease(j, w, token, t)
    /\ rows[j].heartbeat_at <= t

RenewedRow(row, t) ==
    [row EXCEPT !.heartbeat_at = t, !.lease_expires_at = t + LeaseSeconds]

heartbeat(j, w, token, t) ==
    /\ HeartbeatAccepted(j, w, token, t)
    /\ rows' = [rows EXCEPT ![j] = RenewedRow(@, t)]
    /\ UNCHANGED reverseActive

\* cancellation_requested: FALSE too when the lease is no longer owned.
cancellation_requested(j, w, token) ==
    _owned_lease(j, w, token) /\ rows[j].cancel_requested

\* Mutant: the cancellation request outlives the lease.
ClearedLeaseOnly(row) ==
    [row EXCEPT !.lease_owner = NULL,
                !.lease_token = NULL,
                !.lease_expires_at = NULL,
                !.heartbeat_at = NULL]

_cleared_lease(row) ==
    [row EXCEPT !.lease_owner = NULL,
                !.lease_token = NULL,
                !.lease_expires_at = NULL,
                !.heartbeat_at = NULL,
                !.cancel_requested = FALSE]

CancelledRow(row, t) ==
    [_cleared_lease(row) EXCEPT !.state = "cancelled",
                                !.expires_at = t + RetentionSeconds]

RequeuedRow(row) == [_cleared_lease(row) EXCEPT !.state = "queued"]

AbandonedRow(row, t) ==
    [row EXCEPT !.state = "failed",
                !.error_code = "source_upload_incomplete",
                !.expires_at = t + RetentionSeconds]

LeaseExpired(row, t) == row.state = "running" /\ row.lease_expires_at < t

UploadAbandoned(row, t) ==
    /\ row.state = "queued"
    /\ ~row.source_ready
    /\ row.created_at <= t - IncompleteSeconds

\* Mutant: recovery does not look for abandoned uploads.
RecoveredLease(row, t) ==
    CASE LeaseExpired(row, t) /\ row.cancel_requested -> CancelledRow(row, t)
      [] LeaseExpired(row, t) /\ ~row.cancel_requested -> RequeuedRow(row)
      [] OTHER -> row

\* What one pass of recovery makes of a row.
Recovered(row, t) ==
    CASE LeaseExpired(row, t) /\ row.cancel_requested -> CancelledRow(row, t)
      [] LeaseExpired(row, t) /\ ~row.cancel_requested -> RequeuedRow(row)
      [] UploadAbandoned(row, t) -> AbandonedRow(row, t)
      [] OTHER -> row

recover_expired_leases(t) ==
    /\ rows' = [j \in Jobs |-> Recovered(rows[j], t)]
    /\ UNCHANGED reverseActive

----------------------------------------------------------------------------
(* Cancellation and the fenced terminal transitions.                       *)

\* A queued job ends at once, a running one is told to its worker, and any
\* other is returned as it is.
CancelRequestedRow(row, t) ==
    CASE row.state = "queued" -> [row EXCEPT !.state = "cancelled",
                                             !.cancel_requested = FALSE,
                                             !.expires_at = t + RetentionSeconds]
      [] row.state = "running" -> [row EXCEPT !.cancel_requested = TRUE]
      [] OTHER -> row

request_cancel(j, t) ==
    /\ rows' = [rows EXCEPT ![j] = CancelRequestedRow(@, t)]
    /\ UNCHANGED reverseActive

\* Mutant: cancellation_wins is not passed.
FinishedRegardless(j, w, token, t, finished) ==
    /\ LiveLease(j, w, token, t)
    /\ rows' = [rows EXCEPT ![j] = finished]
    /\ UNCHANGED reverseActive

\* _finish_owned with cancellation_wins: a recorded cancellation replaces the
\* outcome that the worker asks for.  Not enabled: JobLeaseLostError.
_finish_owned(j, w, token, t, finished) ==
    /\ LiveLease(j, w, token, t)
    /\ rows' = [rows EXCEPT ![j] = IF rows[j].cancel_requested
                                   THEN CancelledRow(rows[j], t)
                                   ELSE finished]
    /\ UNCHANGED reverseActive

SucceededRow(row, result, t) ==
    [_cleared_lease(row) EXCEPT !.state = "succeeded",
                                !.result_object_id = result,
                                !.expires_at = t + RetentionSeconds]

\* The worker passes the result identifier of the attempt it claimed.
succeed(j, w, token, t) ==
    _finish_owned(j, w, token, t, SucceededRow(rows[j], token, t))

FailedRow(row, code, t) ==
    [_cleared_lease(row) EXCEPT !.state = "failed",
                                !.error_code = code,
                                !.expires_at = t + RetentionSeconds]

fail(j, w, token, code, t) ==
    _finish_owned(j, w, token, t, FailedRow(rows[j], code, t))

finish_cancelled(j, w, token, t) ==
    _finish_owned(j, w, token, t, CancelledRow(rows[j], t))

----------------------------------------------------------------------------
(* Expiry and cleanup.                                                     *)

CleanupClaimable(t) ==
    {j \in Jobs :
        \/ rows[j].state \in FinishedStates /\ rows[j].expires_at <= t
        \/ /\ rows[j].state = "expired"
           /\ ~rows[j].cleanup_completed
           /\ rows[j].cleanup_token = NULL \/ rows[j].cleanup_expires_at <= t}

\* ORDER BY expires_at, id LIMIT n; SKIP LOCKED may leave any of them out.
CleanupBatches(t) ==
    {S \in SUBSET CleanupClaimable(t) :
        /\ Cardinality(S) <= CleanupLimit
        /\ \/ SkipLocked
           \/ S = CleanupClaimable(t)
           \/ /\ Cardinality(S) = CleanupLimit
              /\ \A j \in S, k \in CleanupClaimable(t) \ S :
                    rows[j].expires_at <= rows[k].expires_at}

ExpiredRow(row, w, t) ==
    [row EXCEPT !.state = "expired",
                !.error_code = NULL,
                !.cleanup_token = w,
                !.cleanup_expires_at = t + LeaseSeconds]

expire_terminal(w, S, t) ==
    /\ S \in CleanupBatches(t)
    /\ rows' = [j \in Jobs |-> IF j \in S THEN ExpiredRow(rows[j], w, t)
                                         ELSE rows[j]]
    /\ UNCHANGED reverseActive

CleanupFenced(j, w) ==
    /\ rows[j].state = "expired"
    /\ ~rows[j].cleanup_completed
    /\ rows[j].cleanup_token = w

CleanedRow(row) ==
    [row EXCEPT !.cleanup_completed = TRUE,
                !.result_object_id = NULL,
                !.cleanup_token = NULL,
                !.cleanup_expires_at = NULL]

complete_cleanup(j, w) ==
    /\ CleanupFenced(j, w)
    /\ rows' = [rows EXCEPT ![j] = CleanedRow(@)]
    /\ UNCHANGED reverseActive

----------------------------------------------------------------------------
(* The environment: the reverse queue's share of the capacity, and time.   *)

ReverseAdmit ==
    /\ WithinCapacity
    /\ reverseActive' = reverseActive + 1
    /\ UNCHANGED rows

ReverseLeave ==
    /\ reverseActive > 0
    /\ reverseActive' = reverseActive - 1
    /\ UNCHANGED rows

\* Timestamps older than this compare the same way for ever.
Oldest == -(ClockLag + IncompleteSeconds + 1)

Older(time) == IF time = NULL \/ time <= Oldest THEN time ELSE time - 1

Aged(row) ==
    [row EXCEPT !.created_at = Older(@),
                !.lease_expires_at = Older(@),
                !.heartbeat_at = Older(@),
                !.expires_at = Older(@),
                !.cleanup_expires_at = Older(@)]

Tick ==
    /\ rows' = [j \in Jobs |-> Aged(rows[j])]
    /\ UNCHANGED reverseActive

----------------------------------------------------------------------------
IssuedTokens(j) == 1 .. rows[j].attempt

OneJob(j) ==
    \/ activate_source(j)
    \/ \E w \in Workers : complete_cleanup(j, w)
    \/ \E t \in Readings :
        \/ create(j, t)
        \/ rows[j].state # "absent" /\ request_cancel(j, t)
        \/ \E w \in Workers :
            \/ claim(w, j, t)
            \/ \E token \in IssuedTokens(j) :
                \/ heartbeat(j, w, token, t)
                \/ succeed(j, w, token, t)
                \/ \E code \in WorkerErrorCodes : fail(j, w, token, code, t)
                \/ finish_cancelled(j, w, token, t)

RepositoryNext ==
    \/ \E j \in Jobs : OneJob(j)
    \/ \E t \in Readings : recover_expired_leases(t)
    \/ \E t \in Readings, w \in Workers, S \in SUBSET Jobs : expire_terminal(w, S, t)
    \/ ReverseAdmit
    \/ ReverseLeave
    \/ Tick

RepositorySpec == RepositoryInit /\ [][RepositoryNext]_repositoryVars

----------------------------------------------------------------------------
(* Properties.                                                             *)

\* Every row is a row of the table, whatever the callers did.
TypeOK ==
    /\ rows \in [Jobs -> Row]
    /\ reverseActive \in Nat

\* _validate_lease: a running job carries the lease of its latest attempt, a
\* recorded cancellation belongs to a running job, and no lease survives a
\* transition.  A lease left behind would let a stale worker back in.
LeaseWellFormed(row) ==
    /\ row.state = "absent" => row.attempt = 0
    /\ row.state = "running" =>
          /\ row.source_ready
          /\ row.lease_owner # NULL
          /\ row.lease_token = row.attempt
          /\ row.attempt > 0
          /\ row.lease_expires_at # NULL
          /\ row.heartbeat_at # NULL
          /\ row.heartbeat_at + LeaseSeconds >= row.lease_expires_at
    /\ row.state # "running" =>
          /\ row.lease_owner = NULL
          /\ row.lease_token = NULL
          /\ row.lease_expires_at = NULL
          /\ row.heartbeat_at = NULL
          /\ ~row.cancel_requested

\* _validate_result and _validate_error: only a succeeded job names a result,
\* that of its latest attempt; an expired one may until its cleanup is done.
OutcomeWellFormed(row) ==
    /\ row.state = "succeeded" => row.result_object_id = row.attempt
    /\ row.result_object_id # NULL => /\ row.state \in {"succeeded", "expired"}
                                      /\ row.result_object_id = row.attempt
    /\ row.state = "failed" <=> row.error_code # NULL

\* Every finished job will come due for cleanup, and only an expired one is
\* being cleaned or has been.
RetentionWellFormed(row) ==
    /\ row.state \in FinishedStates => row.expires_at # NULL
    /\ row.state \in ActiveStates => row.expires_at = NULL
    /\ row.state # "absent" => row.created_at # NULL
    /\ row.cleanup_token # NULL => row.state = "expired" /\ ~row.cleanup_completed
    /\ row.cleanup_token # NULL <=> row.cleanup_expires_at # NULL
    /\ row.state = "expired" => row.cleanup_token # NULL \/ row.cleanup_completed
    /\ row.cleanup_completed => row.state = "expired" /\ row.result_object_id = NULL

\* Whatever sequence of calls a job goes through, its row loads: the checks of
\* ConversionJob.__post_init__ never reject a stored row, so no job becomes
\* unreadable.
RowWellFormed ==
    \A j \in Jobs : /\ LeaseWellFormed(rows[j])
                    /\ OutcomeWellFormed(rows[j])
                    /\ RetentionWellFormed(rows[j])

\* The admission check and the insertion are one transaction under a lock that
\* both queues take, and recovery requeues without asking: still the active
\* jobs never exceed the user's quota or the capacity shared by both queues.
ActiveWithinCapacity ==
    /\ global_active_job_count <= GlobalQueueCapacity
    /\ \A j \in Existing :
          Cardinality(Active({k \in Jobs : Owner[k] = Owner[j]})) <= ActiveJobsPerUser

\* One owner's idempotency key names at most one job, for ever: an expired row
\* still answers its key.
IdempotentOnce ==
    \A j, k \in Existing :
        /\ Owner[j] = Owner[k]
        /\ IdempotencyDigest[j] = IdempotencyDigest[k]
        /\ IdempotencyDigest[j] # NULL
        => j = k

\* The phase of the abstract lifecycle that a row is in.
Phase(row) ==
    CASE row.state = "queued" /\ ~row.source_ready -> "reserved"
      [] row.state = "running" /\ row.cancel_requested -> "stopping"
      [] row.state = "expired" /\ row.cleanup_completed -> "cleaned"
      [] OTHER -> row.state

Lifecycle == INSTANCE JobLifecycle
    WITH life <- [j \in Jobs |-> [phase   |-> Phase(rows[j]),
                                  attempt |-> rows[j].attempt]]

\* Every call of every caller, with whatever credentials and however late, is a
\* step of the lifecycle the documentation promises, or changes nothing: one
\* outcome per job, a recorded cancellation always honoured, attempts monotone.
ImplementsLifecycle == Lifecycle!LifeSpec

============================================================================
