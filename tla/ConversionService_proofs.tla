---------------------- MODULE ConversionService_proofs ----------------------
(***************************************************************************)
(* The job table, and the conversion service over it, for any jobs,        *)
(* workers, limits and durations and either database.                      *)
(*                                                                         *)
(* For the table the argument goes row by row.  GoodRow is the inductive   *)
(* invariant of a row, LegalStep says that a row moves to a good row along *)
(* the abstract lifecycle.  One lemma per repository operation shows that  *)
(* it is a legal step; from them the type invariant, the validation of     *)
(* rows and the refinement of JobLifecycle follow together.                *)
(*                                                                         *)
(* Over it, what the conversion service promises to its clients holds      *)
(* wherever processes stall and whatever fails; with the two exceptions    *)
(* that are known, stated as hypotheses.                                   *)
(***************************************************************************)
EXTENDS ConversionService, FiniteSetTheorems, TLAPS

----------------------------------------------------------------------------
(* The job table.                                                          *)

GoodRow(r) ==
    /\ r \in Row
    /\ LeaseWellFormed(r)
    /\ OutcomeWellFormed(r)
    /\ RetentionWellFormed(r)

Life(r) == [phase |-> Phase(r), attempt |-> r.attempt]

LegalStep(r, s) ==
    /\ GoodRow(s)
    /\ \/ Life(s) = Life(r)
       \/ Lifecycle!Start(Life(r), Life(s))
       \/ Lifecycle!Move(Life(r), Life(s))

----------------------------------------------------------------------------
(* The operations on a single row.                                         *)

\* A clock reading is an integer.
LEMMA ReadingInt == ASSUME NEW t \in Readings PROVE t \in Int
  BY ConstantsAssumption DEF Readings

\* create: the new row is a reservation.
LEMMA ReservedLegal ==
  ASSUME NEW t \in Int
  PROVE  LegalStep(AbsentRow, ReservedRow(t))
<1>1. GoodRow(ReservedRow(t))
  BY NullAssumption
  DEF GoodRow, Row, AbsentRow, ReservedRow, States, ActiveStates, FinishedStates,
      LeaseWellFormed, OutcomeWellFormed, RetentionWellFormed
<1>2. Lifecycle!Move(Life(AbsentRow), Life(ReservedRow(t)))
  BY DEF AbsentRow, ReservedRow, Life, Phase, Lifecycle!Move, Lifecycle!Moves
<1>. QED
  BY <1>1, <1>2 DEF LegalStep

\* The timestamps that operations store are integers.
LEMMA SumsInt ==
  ASSUME NEW t \in Int
  PROVE  t + LeaseSeconds \in Int /\ t + RetentionSeconds \in Int
  BY ConstantsAssumption

\* The states that operations store are states.
LEMMA StatesIn ==
  /\ {"queued", "running", "succeeded", "failed", "cancelled", "expired"} \subseteq States
  BY DEF States, ActiveStates, FinishedStates

\* _cleared_lease gives a row.
LEMMA ClearedRow ==
  ASSUME NEW r \in Row
  PROVE  _cleared_lease(r) \in Row
  BY Zenon DEF Row, _cleared_lease

\* activate_source: a reservation becomes claimable, a claimable job stays so.
LEMMA ActivatedLegal ==
  ASSUME NEW r, GoodRow(r),
         r.state = "queued"
  PROVE  LegalStep(r, [r EXCEPT !.source_ready = TRUE])
<1>1. GoodRow([r EXCEPT !.source_ready = TRUE])
  <2>1. [r EXCEPT !.source_ready = TRUE] \in Row
    <3>. QED
      BY SumsInt, StatesIn, Zenon DEF GoodRow, Row
  <2>2. LeaseWellFormed([r EXCEPT !.source_ready = TRUE])
    BY NullAssumption, ConstantsAssumption
    DEF GoodRow, Row, LeaseWellFormed, FinishedStates
  <2>3. OutcomeWellFormed([r EXCEPT !.source_ready = TRUE])
    BY NullAssumption
    DEF GoodRow, Row, LeaseWellFormed, OutcomeWellFormed, RetentionWellFormed
  <2>4. RetentionWellFormed([r EXCEPT !.source_ready = TRUE])
    BY NullAssumption, ConstantsAssumption
    DEF GoodRow, Row, ActiveStates, FinishedStates, OutcomeWellFormed,
        RetentionWellFormed
  <2>. QED
    BY <2>1, <2>2, <2>3, <2>4 DEF GoodRow
<1>2. \/ Life([r EXCEPT !.source_ready = TRUE]) = Life(r)
      \/ Lifecycle!Move(Life(r), Life([r EXCEPT !.source_ready = TRUE]))
  BY NullAssumption
  DEF GoodRow, Row, LeaseWellFormed, RetentionWellFormed, Life, Phase, Lifecycle!Move, Lifecycle!Moves
<1>. QED
  BY <1>1, <1>2 DEF LegalStep

\* claim: a new attempt under a new lease.
LEMMA ClaimedLegal ==
  ASSUME NEW r, GoodRow(r),
         r.state = "queued", r.source_ready, NEW w \in Workers, NEW t \in Int
  PROVE  LegalStep(r, ClaimedRow(r, w, t))
<1>1. GoodRow(ClaimedRow(r, w, t))
  <2>1. ClaimedRow(r, w, t) \in Row
    <3>1. r.attempt + 1 \in Nat
      BY DEF GoodRow, Row
    <3>. QED
      BY SumsInt, StatesIn, <3>1, Zenon DEF GoodRow, Row, ClaimedRow
  <2>2. LeaseWellFormed(ClaimedRow(r, w, t))
    BY NullAssumption, ConstantsAssumption
    DEF GoodRow, Row, LeaseWellFormed, FinishedStates, ClaimedRow
  <2>3. OutcomeWellFormed(ClaimedRow(r, w, t))
    BY NullAssumption
    DEF GoodRow, Row, LeaseWellFormed, OutcomeWellFormed, RetentionWellFormed, ClaimedRow
  <2>4. RetentionWellFormed(ClaimedRow(r, w, t))
    BY NullAssumption, ConstantsAssumption
    DEF GoodRow, Row, ActiveStates, FinishedStates, OutcomeWellFormed,
        RetentionWellFormed, ClaimedRow
  <2>. QED
    BY <2>1, <2>2, <2>3, <2>4 DEF GoodRow
<1>2. Lifecycle!Start(Life(r), Life(ClaimedRow(r, w, t)))
  BY NullAssumption
  DEF GoodRow, Row, LeaseWellFormed, RetentionWellFormed, Life, Phase, ClaimedRow,
      Lifecycle!Start
<1>. QED
  BY <1>1, <1>2 DEF LegalStep

\* heartbeat: the lease of a running job moves on.
LEMMA RenewedLegal ==
  ASSUME NEW r, GoodRow(r),
         r.state = "running", NEW t \in Int
  PROVE  LegalStep(r, RenewedRow(r, t))
<1>1. GoodRow(RenewedRow(r, t))
  <2>1. RenewedRow(r, t) \in Row
    <3>. QED
      BY SumsInt, StatesIn, Zenon DEF GoodRow, Row, RenewedRow
  <2>2. LeaseWellFormed(RenewedRow(r, t))
    BY NullAssumption, ConstantsAssumption
    DEF GoodRow, Row, LeaseWellFormed, FinishedStates, RenewedRow
  <2>3. OutcomeWellFormed(RenewedRow(r, t))
    BY NullAssumption
    DEF GoodRow, Row, LeaseWellFormed, OutcomeWellFormed, RetentionWellFormed, RenewedRow
  <2>4. RetentionWellFormed(RenewedRow(r, t))
    BY NullAssumption, ConstantsAssumption
    DEF GoodRow, Row, ActiveStates, FinishedStates, OutcomeWellFormed,
        RetentionWellFormed, RenewedRow
  <2>. QED
    BY <2>1, <2>2, <2>3, <2>4 DEF GoodRow
<1>2. Life(RenewedRow(r, t)) = Life(r)
  BY NullAssumption
  DEF GoodRow, Row, LeaseWellFormed, RetentionWellFormed, Life, Phase, RenewedRow
<1>. QED
  BY <1>1, <1>2 DEF LegalStep

\* A running job is cancelled, by its worker or by recovery.
LEMMA CancelledLegal ==
  ASSUME NEW r, GoodRow(r),
         r.state = "running", NEW t \in Int
  PROVE  LegalStep(r, CancelledRow(r, t))
<1>1. GoodRow(CancelledRow(r, t))
  <2>1. CancelledRow(r, t) \in Row
    <3>1. _cleared_lease(r) \in Row
      BY ClearedRow DEF GoodRow
    <3>2. ASSUME NEW c \in Row
          PROVE  [c EXCEPT !.state = "cancelled",
                             !.expires_at = t + RetentionSeconds] \in Row
      BY SumsInt, StatesIn, Zenon DEF Row
    <3>. QED
      BY <3>1, <3>2 DEF CancelledRow
  <2>2. LeaseWellFormed(CancelledRow(r, t))
    BY NullAssumption, ConstantsAssumption
    DEF GoodRow, Row, LeaseWellFormed, FinishedStates, CancelledRow, _cleared_lease
  <2>3. OutcomeWellFormed(CancelledRow(r, t))
    BY NullAssumption
    DEF GoodRow, Row, LeaseWellFormed, OutcomeWellFormed, RetentionWellFormed, CancelledRow, _cleared_lease
  <2>4. RetentionWellFormed(CancelledRow(r, t))
    BY NullAssumption, ConstantsAssumption
    DEF GoodRow, Row, ActiveStates, FinishedStates, OutcomeWellFormed,
        RetentionWellFormed, CancelledRow, _cleared_lease
  <2>. QED
    BY <2>1, <2>2, <2>3, <2>4 DEF GoodRow
<1>2. Lifecycle!Move(Life(r), Life(CancelledRow(r, t)))
  BY NullAssumption
  DEF GoodRow, Row, LeaseWellFormed, RetentionWellFormed, Life, Phase,
      CancelledRow, _cleared_lease, Lifecycle!Move, Lifecycle!Moves
<1>. QED
  BY <1>1, <1>2 DEF LegalStep

\* Recovery puts a running job back into the queue, unless it is to be cancelled.
LEMMA RequeuedLegal ==
  ASSUME NEW r, GoodRow(r),
         r.state = "running", ~r.cancel_requested
  PROVE  LegalStep(r, RequeuedRow(r))
<1>1. GoodRow(RequeuedRow(r))
  <2>1. RequeuedRow(r) \in Row
    <3>1. _cleared_lease(r) \in Row
      BY ClearedRow DEF GoodRow
    <3>2. ASSUME NEW c \in Row
          PROVE  [c EXCEPT !.state = "queued"] \in Row
      BY SumsInt, StatesIn, Zenon DEF Row
    <3>. QED
      BY <3>1, <3>2 DEF RequeuedRow
  <2>2. LeaseWellFormed(RequeuedRow(r))
    BY NullAssumption, ConstantsAssumption
    DEF GoodRow, Row, LeaseWellFormed, FinishedStates, RequeuedRow, _cleared_lease
  <2>3. OutcomeWellFormed(RequeuedRow(r))
    BY NullAssumption
    DEF GoodRow, Row, LeaseWellFormed, OutcomeWellFormed, RetentionWellFormed, RequeuedRow, _cleared_lease
  <2>4. RetentionWellFormed(RequeuedRow(r))
    BY NullAssumption, ConstantsAssumption
    DEF GoodRow, Row, ActiveStates, FinishedStates, OutcomeWellFormed,
        RetentionWellFormed, RequeuedRow, _cleared_lease
  <2>. QED
    BY <2>1, <2>2, <2>3, <2>4 DEF GoodRow
<1>2. Lifecycle!Move(Life(r), Life(RequeuedRow(r)))
  BY NullAssumption
  DEF GoodRow, Row, LeaseWellFormed, RetentionWellFormed, Life, Phase,
      RequeuedRow, _cleared_lease, Lifecycle!Move, Lifecycle!Moves
<1>. QED
  BY <1>1, <1>2 DEF LegalStep

\* Recovery fails an abandoned reservation.
LEMMA AbandonedLegal ==
  ASSUME NEW r, GoodRow(r),
         r.state = "queued", ~r.source_ready, NEW t \in Int
  PROVE  LegalStep(r, AbandonedRow(r, t))
<1>1. GoodRow(AbandonedRow(r, t))
  <2>1. AbandonedRow(r, t) \in Row
    <3>1. "source_upload_incomplete" \in ErrorCodes
      BY DEF ErrorCodes
    <3>. QED
      BY SumsInt, StatesIn, <3>1, Zenon DEF GoodRow, Row, AbandonedRow
  <2>2. LeaseWellFormed(AbandonedRow(r, t))
    BY NullAssumption, ConstantsAssumption
    DEF GoodRow, Row, LeaseWellFormed, FinishedStates, AbandonedRow
  <2>. "source_upload_incomplete" # NULL
    BY NullAssumption DEF ErrorCodes
  <2>3. OutcomeWellFormed(AbandonedRow(r, t))
    BY NullAssumption
    DEF GoodRow, Row, LeaseWellFormed, OutcomeWellFormed, RetentionWellFormed, AbandonedRow
  <2>4. RetentionWellFormed(AbandonedRow(r, t))
    BY NullAssumption, ConstantsAssumption
    DEF GoodRow, Row, ActiveStates, FinishedStates, OutcomeWellFormed,
        RetentionWellFormed, AbandonedRow
  <2>. QED
    BY <2>1, <2>2, <2>3, <2>4 DEF GoodRow
<1>2. Lifecycle!Move(Life(r), Life(AbandonedRow(r, t)))
  BY NullAssumption
  DEF GoodRow, Row, LeaseWellFormed, RetentionWellFormed, Life, Phase,
      AbandonedRow, Lifecycle!Move, Lifecycle!Moves
<1>. QED
  BY <1>1, <1>2 DEF LegalStep

\* succeed: the result is that of the attempt whose lease is held.
LEMMA SucceededLegal ==
  ASSUME NEW r, GoodRow(r),
         r.state = "running", ~r.cancel_requested, NEW t \in Int
  PROVE  LegalStep(r, SucceededRow(r, r.lease_token, t))
<1>1. GoodRow(SucceededRow(r, r.lease_token, t))
  <2>1. SucceededRow(r, r.lease_token, t) \in Row
    <3>0. r.lease_token \in Nat \cup {NULL}
      BY DEF GoodRow, Row
    <3>1. _cleared_lease(r) \in Row
      BY ClearedRow DEF GoodRow
    <3>2. ASSUME NEW c \in Row
          PROVE  [c EXCEPT !.state = "succeeded",
                             !.result_object_id = r.lease_token,
                             !.expires_at = t + RetentionSeconds] \in Row
      BY SumsInt, StatesIn, <3>0, Zenon DEF Row
    <3>. QED
      BY <3>1, <3>2 DEF SucceededRow
  <2>2. LeaseWellFormed(SucceededRow(r, r.lease_token, t))
    BY NullAssumption, ConstantsAssumption
    DEF GoodRow, Row, LeaseWellFormed, FinishedStates, SucceededRow, _cleared_lease
  <2>3. OutcomeWellFormed(SucceededRow(r, r.lease_token, t))
    BY NullAssumption
    DEF GoodRow, Row, LeaseWellFormed, OutcomeWellFormed, RetentionWellFormed, SucceededRow, _cleared_lease
  <2>4. RetentionWellFormed(SucceededRow(r, r.lease_token, t))
    BY NullAssumption, ConstantsAssumption
    DEF GoodRow, Row, ActiveStates, FinishedStates, OutcomeWellFormed,
        RetentionWellFormed, SucceededRow, _cleared_lease
  <2>. QED
    BY <2>1, <2>2, <2>3, <2>4 DEF GoodRow
<1>2. Lifecycle!Move(Life(r), Life(SucceededRow(r, r.lease_token, t)))
  BY NullAssumption
  DEF GoodRow, Row, LeaseWellFormed, RetentionWellFormed, Life, Phase,
      SucceededRow, _cleared_lease, Lifecycle!Move, Lifecycle!Moves
<1>. QED
  BY <1>1, <1>2 DEF LegalStep

\* fail: a failed row carries its error.
LEMMA FailedLegal ==
  ASSUME NEW r, GoodRow(r),
         r.state = "running", ~r.cancel_requested,
         NEW code \in WorkerErrorCodes, NEW t \in Int
  PROVE  LegalStep(r, FailedRow(r, code, t))
<1>1. GoodRow(FailedRow(r, code, t))
  <2>1. FailedRow(r, code, t) \in Row
    <3>1. code \in ErrorCodes
      BY DEF ErrorCodes
    <3>2. _cleared_lease(r) \in Row
      BY ClearedRow DEF GoodRow
    <3>3. ASSUME NEW c \in Row
          PROVE  [c EXCEPT !.state = "failed",
                             !.error_code = code,
                             !.expires_at = t + RetentionSeconds] \in Row
      BY SumsInt, StatesIn, <3>1, Zenon DEF Row
    <3>. QED
      BY <3>2, <3>3 DEF FailedRow
  <2>2. LeaseWellFormed(FailedRow(r, code, t))
    BY NullAssumption, ConstantsAssumption
    DEF GoodRow, Row, LeaseWellFormed, FinishedStates, FailedRow, _cleared_lease
  <2>. code # NULL
    BY NullAssumption DEF ErrorCodes
  <2>3. OutcomeWellFormed(FailedRow(r, code, t))
    BY NullAssumption
    DEF GoodRow, Row, LeaseWellFormed, OutcomeWellFormed, RetentionWellFormed,
        FailedRow, _cleared_lease
  <2>4. RetentionWellFormed(FailedRow(r, code, t))
    BY NullAssumption, ConstantsAssumption
    DEF GoodRow, Row, ActiveStates, FinishedStates, OutcomeWellFormed,
        RetentionWellFormed, FailedRow, _cleared_lease
  <2>. QED
    BY <2>1, <2>2, <2>3, <2>4 DEF GoodRow
<1>2. Lifecycle!Move(Life(r), Life(FailedRow(r, code, t)))
  BY NullAssumption
  DEF GoodRow, Row, LeaseWellFormed, RetentionWellFormed, Life, Phase,
      FailedRow, _cleared_lease, Lifecycle!Move, Lifecycle!Moves
<1>. QED
  BY <1>1, <1>2 DEF LegalStep

\* expire_terminal: a finished job expires, or its cleanup is claimed again.
LEMMA ExpiredLegal ==
  ASSUME NEW r, GoodRow(r),
         \/ r.state \in FinishedStates
         \/ r.state = "expired" /\ ~r.cleanup_completed,
         NEW w \in Workers, NEW t \in Int
  PROVE  LegalStep(r, ExpiredRow(r, w, t))
<1>1. GoodRow(ExpiredRow(r, w, t))
  <2>1. ExpiredRow(r, w, t) \in Row
    <3>. QED
      BY SumsInt, StatesIn, Zenon DEF GoodRow, Row, ExpiredRow
  <2>2. LeaseWellFormed(ExpiredRow(r, w, t))
    BY NullAssumption, ConstantsAssumption
    DEF GoodRow, Row, LeaseWellFormed, FinishedStates, ExpiredRow, FinishedStates
  <2>3. OutcomeWellFormed(ExpiredRow(r, w, t))
    BY NullAssumption
    DEF GoodRow, Row, LeaseWellFormed, OutcomeWellFormed, RetentionWellFormed, ExpiredRow, FinishedStates
  <2>4. RetentionWellFormed(ExpiredRow(r, w, t))
    BY NullAssumption, ConstantsAssumption
    DEF GoodRow, Row, ActiveStates, FinishedStates, OutcomeWellFormed,
        RetentionWellFormed, ExpiredRow, FinishedStates
  <2>. QED
    BY <2>1, <2>2, <2>3, <2>4 DEF GoodRow
<1>2. \/ Life(ExpiredRow(r, w, t)) = Life(r)
      \/ Lifecycle!Move(Life(r), Life(ExpiredRow(r, w, t)))
  BY NullAssumption
  DEF GoodRow, Row, LeaseWellFormed, RetentionWellFormed, Life, Phase,
      ExpiredRow, FinishedStates, Lifecycle!Move, Lifecycle!Moves
<1>. QED
  BY <1>1, <1>2 DEF LegalStep

\* complete_cleanup: the row of a cleaned job forgets its result.
LEMMA CleanedLegal ==
  ASSUME NEW r, GoodRow(r),
         r.state = "expired", ~r.cleanup_completed
  PROVE  LegalStep(r, CleanedRow(r))
<1>1. GoodRow(CleanedRow(r))
  <2>1. CleanedRow(r) \in Row
    <3>. QED
      BY SumsInt, StatesIn, Zenon DEF GoodRow, Row, CleanedRow
  <2>2. LeaseWellFormed(CleanedRow(r))
    BY NullAssumption, ConstantsAssumption
    DEF GoodRow, Row, LeaseWellFormed, FinishedStates, CleanedRow
  <2>3. OutcomeWellFormed(CleanedRow(r))
    BY NullAssumption
    DEF GoodRow, Row, LeaseWellFormed, OutcomeWellFormed, RetentionWellFormed, CleanedRow
  <2>4. RetentionWellFormed(CleanedRow(r))
    BY NullAssumption, ConstantsAssumption
    DEF GoodRow, Row, ActiveStates, FinishedStates, OutcomeWellFormed,
        RetentionWellFormed, CleanedRow
  <2>. QED
    BY <2>1, <2>2, <2>3, <2>4 DEF GoodRow
<1>2. Lifecycle!Move(Life(r), Life(CleanedRow(r)))
  BY NullAssumption
  DEF GoodRow, Row, LeaseWellFormed, RetentionWellFormed, Life, Phase, CleanedRow, Lifecycle!Move, Lifecycle!Moves
<1>. QED
  BY <1>1, <1>2 DEF LegalStep

\* request_cancel on a queued job ends it.
LEMMA CancelQueuedLegal ==
  ASSUME NEW r, GoodRow(r),
         r.state = "queued", NEW t \in Int
  PROVE  LegalStep(r, CancelRequestedRow(r, t))
<1>. CancelRequestedRow(r, t) = [r EXCEPT !.state = "cancelled",
                                          !.cancel_requested = FALSE,
                                          !.expires_at = t + RetentionSeconds]
  BY DEF CancelRequestedRow
<1>1. GoodRow(CancelRequestedRow(r, t))
  <2>1. CancelRequestedRow(r, t) \in Row
    <3>. QED
      BY SumsInt, StatesIn, Zenon DEF GoodRow, Row
  <2>2. LeaseWellFormed(CancelRequestedRow(r, t))
    BY NullAssumption, ConstantsAssumption
    DEF GoodRow, Row, LeaseWellFormed, FinishedStates
  <2>3. OutcomeWellFormed(CancelRequestedRow(r, t))
    BY NullAssumption
    DEF GoodRow, Row, LeaseWellFormed, OutcomeWellFormed, RetentionWellFormed
  <2>4. RetentionWellFormed(CancelRequestedRow(r, t))
    BY NullAssumption, ConstantsAssumption
    DEF GoodRow, Row, ActiveStates, FinishedStates, OutcomeWellFormed,
        RetentionWellFormed
  <2>. QED
    BY <2>1, <2>2, <2>3, <2>4 DEF GoodRow
<1>2. Lifecycle!Move(Life(r), Life(CancelRequestedRow(r, t)))
  BY NullAssumption
  DEF GoodRow, Row, LeaseWellFormed, RetentionWellFormed, Life, Phase,
      Lifecycle!Move, Lifecycle!Moves
<1>. QED
  BY <1>1, <1>2 DEF LegalStep

\* request_cancel on a running job marks it.
LEMMA CancelRunningLegal ==
  ASSUME NEW r, GoodRow(r),
         r.state = "running", NEW t \in Int
  PROVE  LegalStep(r, CancelRequestedRow(r, t))
<1>. CancelRequestedRow(r, t) = [r EXCEPT !.cancel_requested = TRUE]
  BY DEF CancelRequestedRow
<1>1. GoodRow(CancelRequestedRow(r, t))
  <2>1. CancelRequestedRow(r, t) \in Row
    <3>. QED
      BY SumsInt, StatesIn, Zenon DEF GoodRow, Row
  <2>2. LeaseWellFormed(CancelRequestedRow(r, t))
    BY NullAssumption, ConstantsAssumption
    DEF GoodRow, Row, LeaseWellFormed, FinishedStates
  <2>3. OutcomeWellFormed(CancelRequestedRow(r, t))
    BY NullAssumption
    DEF GoodRow, Row, LeaseWellFormed, OutcomeWellFormed, RetentionWellFormed
  <2>4. RetentionWellFormed(CancelRequestedRow(r, t))
    BY NullAssumption, ConstantsAssumption
    DEF GoodRow, Row, ActiveStates, FinishedStates, OutcomeWellFormed,
        RetentionWellFormed
  <2>. QED
    BY <2>1, <2>2, <2>3, <2>4 DEF GoodRow
<1>2. \/ Life(CancelRequestedRow(r, t)) = Life(r)
      \/ Lifecycle!Move(Life(r), Life(CancelRequestedRow(r, t)))
  BY NullAssumption
  DEF GoodRow, Row, LeaseWellFormed, RetentionWellFormed, Life, Phase,
      Lifecycle!Move, Lifecycle!Moves
<1>. QED
  BY <1>1, <1>2 DEF LegalStep

\* An older timestamp is a timestamp, and no earlier one becomes the later.
LEMMA OlderTime ==
  ASSUME NEW time \in Int \cup {NULL}
  PROVE  Older(time) \in Int \cup {NULL} /\ (Older(time) = NULL <=> time = NULL)
  BY ConstantsAssumption, NullAssumption DEF Older, Oldest

\* Ageing keeps a lease within LeaseSeconds of its heartbeat.
LEMMA OlderLease ==
  ASSUME NEW h \in Int, NEW e \in Int, h + LeaseSeconds >= e
  PROVE  Older(h) + LeaseSeconds >= Older(e)
  BY ConstantsAssumption, NullAssumption DEF Older, Oldest

\* Time passes: timestamps age, nothing else changes.
LEMMA AgedLegal ==
  ASSUME NEW r, GoodRow(r)
  PROVE  LegalStep(r, Aged(r))
<1>1. GoodRow(Aged(r))
  <2>1. Aged(r) \in Row
    <3>. QED
      BY OlderTime, Zenon DEF GoodRow, Row, Aged
  <2>2. LeaseWellFormed(Aged(r))
    BY NullAssumption, OlderTime, OlderLease DEF GoodRow, Row, LeaseWellFormed, Aged
  <2>3. OutcomeWellFormed(Aged(r))
    BY NullAssumption
    DEF GoodRow, Row, LeaseWellFormed, OutcomeWellFormed, RetentionWellFormed, Aged
  <2>4. RetentionWellFormed(Aged(r))
    BY NullAssumption, OlderTime
    DEF GoodRow, Row, ActiveStates, FinishedStates, OutcomeWellFormed,
        RetentionWellFormed, Aged
  <2>. QED
    BY <2>1, <2>2, <2>3, <2>4 DEF GoodRow
<1>2. Life(Aged(r)) = Life(r)
  BY NullAssumption
  DEF GoodRow, Row, LeaseWellFormed, RetentionWellFormed, Life, Phase, Aged
<1>. QED
  BY <1>1, <1>2 DEF LegalStep

\* recover_expired_leases: whatever recovery makes of a row is a legal step.
LEMMA RecoveredLegal ==
  ASSUME NEW r, GoodRow(r), NEW t \in Int
  PROVE  LegalStep(r, Recovered(r, t))
<1>1. CASE LeaseExpired(r, t) /\ r.cancel_requested
  <2>1. Recovered(r, t) = CancelledRow(r, t)
    BY <1>1 DEF Recovered, LeaseExpired, UploadAbandoned
  <2>. QED
    BY <1>1, <2>1, CancelledLegal DEF LeaseExpired
<1>2. CASE LeaseExpired(r, t) /\ ~r.cancel_requested
  <2>1. Recovered(r, t) = RequeuedRow(r)
    BY <1>2 DEF Recovered, LeaseExpired, UploadAbandoned
  <2>. QED
    BY <1>2, <2>1, RequeuedLegal DEF LeaseExpired
<1>3. CASE UploadAbandoned(r, t)
  <2>1. Recovered(r, t) = AbandonedRow(r, t)
    BY <1>3 DEF Recovered, LeaseExpired, UploadAbandoned
  <2>. QED
    BY <1>3, <2>1, AbandonedLegal DEF UploadAbandoned
<1>4. CASE ~LeaseExpired(r, t) /\ ~UploadAbandoned(r, t)
  BY <1>4 DEF Recovered, LegalStep
<1>. QED
  BY <1>1, <1>2, <1>3, <1>4

\* request_cancel on any row.
LEMMA CancelRequestedLegal ==
  ASSUME NEW r, GoodRow(r), NEW t \in Int
  PROVE  LegalStep(r, CancelRequestedRow(r, t))
<1>1. CASE r.state = "queued"
  BY <1>1, CancelQueuedLegal
<1>2. CASE r.state = "running"
  BY <1>2, CancelRunningLegal
<1>3. CASE r.state # "queued" /\ r.state # "running"
  BY <1>3 DEF CancelRequestedRow, LegalStep
<1>. QED
  BY <1>1, <1>2, <1>3

----------------------------------------------------------------------------
(* The steps of the repository.                                            *)

RowsInv ==
    /\ rows = [j \in Jobs |-> rows[j]]
    /\ \A j \in Jobs : GoodRow(rows[j])
    /\ reverseActive \in Nat

RowsStep ==
    /\ rows' = [j \in Jobs |-> rows'[j]]
    /\ \A j \in Jobs : LegalStep(rows[j], rows'[j])

\* A step that changes one row legally changes all rows legally.
LEMMA OneRowStep ==
  ASSUME RowsInv, NEW j \in Jobs, NEW s, LegalStep(rows[j], s),
         rows' = [rows EXCEPT ![j] = s]
  PROVE  RowsStep
  BY DEF RowsInv, RowsStep, LegalStep

\* Each operation on one job is a legal step of its row.
LEMMA OneJobStep ==
  ASSUME RowsInv, NEW j \in Jobs, OneJob(j)
  PROVE  RowsStep
<1>. GoodRow(rows[j])
  BY DEF RowsInv
<1>1. CASE activate_source(j)
  BY <1>1, OneRowStep, ActivatedLegal DEF activate_source, SourceActivatable
<1>2. ASSUME NEW w \in Workers, complete_cleanup(j, w)
      PROVE  RowsStep
  BY <1>2, OneRowStep, CleanedLegal DEF complete_cleanup, CleanupFenced
<1>3. ASSUME NEW t \in Readings, create(j, t)
      PROVE  RowsStep
  <2>1. GoodRow(ReservedRow(t)) /\ LegalStep(AbsentRow, ReservedRow(t))
    BY ReservedLegal, ReadingInt DEF LegalStep
  <2>2. Life(rows[j]) = Life(AbsentRow)
    BY <1>3 DEF create, Life, Phase, AbsentRow, GoodRow, LeaseWellFormed
  <2>. QED
    BY <1>3, <2>1, <2>2, OneRowStep DEF create, LegalStep
<1>4. ASSUME NEW t \in Readings, request_cancel(j, t)
      PROVE  RowsStep
  BY <1>4, OneRowStep, CancelRequestedLegal, ReadingInt DEF request_cancel
<1>5. ASSUME NEW t \in Readings, NEW w \in Workers, claim(w, j, t)
      PROVE  RowsStep
  BY <1>5, OneRowStep, ClaimedLegal, ReadingInt
  DEF claim, ClaimCandidates, Claimable
<1>6. ASSUME NEW t \in Readings, NEW w \in Workers, NEW token \in IssuedTokens(j),
             heartbeat(j, w, token, t)
      PROVE  RowsStep
  BY <1>6, OneRowStep, RenewedLegal, ReadingInt
  DEF heartbeat, HeartbeatAccepted, LiveLease, _owned_lease
<1>7. ASSUME NEW t \in Readings, NEW w \in Workers, NEW token \in IssuedTokens(j),
             succeed(j, w, token, t)
      PROVE  RowsStep
  BY <1>7, OneRowStep, SucceededLegal, CancelledLegal, ReadingInt
  DEF succeed, _finish_owned, LiveLease, _owned_lease
<1>8. ASSUME NEW t \in Readings, NEW w \in Workers, NEW token \in IssuedTokens(j),
             NEW code \in WorkerErrorCodes, fail(j, w, token, code, t)
      PROVE  RowsStep
  BY <1>8, OneRowStep, FailedLegal, CancelledLegal, ReadingInt
  DEF fail, _finish_owned, LiveLease, _owned_lease
<1>9. ASSUME NEW t \in Readings, NEW w \in Workers, NEW token \in IssuedTokens(j),
             finish_cancelled(j, w, token, t)
      PROVE  RowsStep
  BY <1>9, OneRowStep, CancelledLegal, ReadingInt
  DEF finish_cancelled, _finish_owned, LiveLease, _owned_lease
<1>. QED
  BY <1>1, <1>2, <1>3, <1>4, <1>5, <1>6, <1>7, <1>8, <1>9 DEF OneJob

\* Every step of the repository is a legal step of every row.
LEMMA NextStep ==
  ASSUME RowsInv, [RepositoryNext]_repositoryVars
  PROVE  RowsStep /\ reverseActive' \in Nat
<1>1. CASE \E j \in Jobs : OneJob(j)
  <2>. PICK j \in Jobs : OneJob(j)
    BY <1>1
  <2>1. UNCHANGED reverseActive
    BY DEF OneJob, activate_source, complete_cleanup, create, request_cancel, claim,
           heartbeat, succeed, fail, finish_cancelled, _finish_owned
  <2>. QED
    BY <2>1, OneJobStep DEF RowsInv
<1>2. ASSUME NEW t \in Readings, recover_expired_leases(t)
      PROVE  RowsStep /\ reverseActive' \in Nat
  BY <1>2, RecoveredLegal, ReadingInt DEF recover_expired_leases, RowsInv, RowsStep
<1>3. ASSUME NEW t \in Readings, NEW w \in Workers, NEW S \in SUBSET Jobs,
             expire_terminal(w, S, t)
      PROVE  RowsStep /\ reverseActive' \in Nat
  <2>1. ASSUME NEW j \in Jobs
        PROVE  LegalStep(rows[j], rows'[j])
    <3>1. CASE j \in S
      <4>1. j \in CleanupClaimable(t)
        BY <1>3, <3>1 DEF expire_terminal, CleanupBatches
      <4>2. \/ rows[j].state \in FinishedStates
            \/ rows[j].state = "expired" /\ ~rows[j].cleanup_completed
        BY <4>1 DEF CleanupClaimable
      <4>. QED
        BY <1>3, <3>1, <4>2, ExpiredLegal, ReadingInt DEF expire_terminal, RowsInv
    <3>2. CASE j \notin S
      BY <1>3, <3>2 DEF expire_terminal, RowsInv, LegalStep
    <3>. QED
      BY <3>1, <3>2
  <2>. QED
    BY <1>3, <2>1 DEF expire_terminal, RowsInv, RowsStep
<1>4. CASE ReverseAdmit \/ ReverseLeave
  BY <1>4 DEF ReverseAdmit, ReverseLeave, RowsInv, RowsStep, LegalStep
<1>5. CASE Tick
  BY <1>5, AgedLegal DEF Tick, RowsInv, RowsStep
<1>6. CASE UNCHANGED repositoryVars
  BY <1>6 DEF repositoryVars, RowsInv, RowsStep, LegalStep
<1>. QED
  BY <1>1, <1>2, <1>3, <1>4, <1>5, <1>6 DEF RepositoryNext

\* A legal step leads from good rows to good rows.
LEMMA RowsInvariant == RepositorySpec => []RowsInv
<1>1. RepositoryInit => RowsInv
  <2>1. GoodRow(AbsentRow)
    BY NullAssumption
    DEF GoodRow, Row, AbsentRow, States, ActiveStates, FinishedStates,
        LeaseWellFormed, OutcomeWellFormed, RetentionWellFormed
  <2>. QED
    BY <2>1 DEF RepositoryInit, RowsInv
<1>2. RowsInv /\ [RepositoryNext]_repositoryVars => RowsInv'
  BY NextStep DEF RowsInv, RowsStep, LegalStep
<1>. QED
  BY <1>1, <1>2, PTL DEF RepositorySpec

\* The stored rows keep to their type, whatever callers do and in whatever order.
THEOREM RepositoryTypeOK == RepositorySpec => []TypeOK
<1>1. RowsInv => TypeOK
  BY DEF RowsInv, TypeOK, GoodRow
<1>. QED
  BY <1>1, RowsInvariant, PTL

\* No sequence of calls, with stale leases or late clock readings, leaves a row
\* that ConversionJob's validation would refuse to load.
THEOREM RowsStayWellFormed == RepositorySpec => []RowWellFormed
<1>1. RowsInv => RowWellFormed
  BY DEF RowsInv, RowWellFormed, GoodRow
<1>. QED
  BY <1>1, RowsInvariant, PTL

\* The repository implements the promised lifecycle: one outcome per job, no
\* outcome but cancelled once a cancellation is recorded, attempts monotone.
THEOREM RepositoryImplementsLifecycle == RepositorySpec => ImplementsLifecycle
<1>. DEFINE life == [j \in Jobs |-> [phase   |-> Phase(rows[j]),
                                     attempt |-> rows[j].attempt]]
<1>1. RepositoryInit => Lifecycle!LifeInit
  BY DEF RepositoryInit, AbsentRow, Phase, Lifecycle!LifeInit, Lifecycle!Unborn
<1>2. RowsInv /\ [RepositoryNext]_repositoryVars => [Lifecycle!LifeNext]_life
  <2>. SUFFICES ASSUME RowsInv, [RepositoryNext]_repositoryVars
                PROVE  Lifecycle!LifeNext
    OBVIOUS
  <2>1. \A j \in Jobs : LegalStep(rows[j], rows'[j])
    BY NextStep DEF RowsStep
  <2>2. \A j \in Jobs : \/ life'[j] = life[j]
                        \/ Lifecycle!Start(life[j], life'[j])
                        \/ Lifecycle!Move(life[j], life'[j])
    BY <2>1 DEF LegalStep, Life
  <2>. QED
    BY <2>2 DEF Lifecycle!LifeNext
<1>. QED
  BY <1>1, <1>2, RowsInvariant, PTL
  DEF RepositorySpec, ImplementsLifecycle, Lifecycle!LifeSpec

----------------------------------------------------------------------------
(* Admission.                                                              *)

NoBirth == \A j \in Jobs : rows[j].state = "absent" => rows'[j].state = "absent"

\* Only create brings a job into being.
LEMMA OnlyCreateBears ==
  ASSUME RowsInv, [RepositoryNext]_repositoryVars
  PROVE  NoBirth \/ \E j \in Jobs, t \in Readings : create(j, t)
<1>1. ASSUME NEW j \in Jobs, OneJob(j), ~ \E t \in Readings : create(j, t)
      PROVE  NoBirth
  <2>. rows[j].state # "absent" /\ \E r : rows' = [rows EXCEPT ![j] = r]
    BY <1>1
    DEF OneJob, activate_source, SourceActivatable, complete_cleanup, CleanupFenced,
        request_cancel, claim, ClaimCandidates, Claimable, heartbeat,
        HeartbeatAccepted, LiveLease, _owned_lease, succeed, fail, finish_cancelled,
        _finish_owned
  <2>. QED
    BY DEF NoBirth, RowsInv
<1>2. ASSUME NEW t \in Readings, recover_expired_leases(t)
      PROVE  NoBirth
  BY <1>2 DEF NoBirth, recover_expired_leases, Recovered, LeaseExpired, UploadAbandoned
<1>3. ASSUME NEW t \in Readings, NEW w \in Workers, NEW S \in SUBSET Jobs,
             expire_terminal(w, S, t)
      PROVE  NoBirth
  <2>1. \A j \in S : rows[j].state # "absent"
    BY <1>3 DEF expire_terminal, CleanupBatches, CleanupClaimable, FinishedStates
  <2>. QED
    BY <1>3, <2>1 DEF NoBirth, expire_terminal
<1>4. CASE ReverseAdmit \/ ReverseLeave \/ UNCHANGED repositoryVars
  BY <1>4 DEF NoBirth, ReverseAdmit, ReverseLeave, repositoryVars
<1>5. CASE Tick
  BY <1>5 DEF NoBirth, Tick, Aged, RowsInv, GoodRow, Row
<1>. QED
  BY <1>1, <1>2, <1>3, <1>4, <1>5 DEF RepositoryNext

\* A legal step makes no job active again.
LEMMA NoRevival ==
  ASSUME NEW r, NEW s, GoodRow(r), LegalStep(r, s),
         s.state \in ActiveStates, r.state # "absent"
  PROVE  r.state \in ActiveStates
  BY DEF LegalStep, GoodRow, Row, States, ActiveStates, FinishedStates, Life, Phase,
         Lifecycle!Start, Lifecycle!Move, Lifecycle!Moves

\* One key, one job: a key that is taken stays taken, also after expiry.
THEOREM KeysNameOneJob == RepositorySpec => []IdempotentOnce
<1>1. RepositoryInit => IdempotentOnce
  BY DEF RepositoryInit, AbsentRow, IdempotentOnce, Existing
<1>2. IdempotentOnce /\ RowsInv /\ [RepositoryNext]_repositoryVars => IdempotentOnce'
  <2>. SUFFICES ASSUME IdempotentOnce, RowsInv, [RepositoryNext]_repositoryVars
                PROVE  IdempotentOnce'
    OBVIOUS
  <2>1. CASE NoBirth
    BY <2>1 DEF NoBirth, IdempotentOnce, Existing
  <2>2. ASSUME NEW j \in Jobs, NEW t \in Readings, create(j, t)
        PROVE  IdempotentOnce'
    BY <2>2 DEF create, _find_idempotent, IdempotentOnce, Existing, RowsInv
  <2>. QED
    BY <2>1, <2>2, OnlyCreateBears
<1>. QED
  BY <1>1, <1>2, RowsInvariant, PTL DEF RepositorySpec

\* Active jobs of any group of submissions are finitely many.
LEMMA ActiveFinite ==
  ASSUME NEW S \in SUBSET Jobs
  PROVE  /\ IsFiniteSet(Active(S))
         /\ Cardinality(Active(S)) \in Nat
<1>1. Active(S) \subseteq Jobs
  BY DEF Active
<1>. QED
  BY <1>1, FiniteJobsAssumption, FS_Subset, FS_CardinalityType

\* Without a birth, the active jobs of any group do not grow.
LEMMA ActiveShrinks ==
  ASSUME RowsInv, RowsStep, NoBirth, NEW S \in SUBSET Jobs
  PROVE  Cardinality(Active(S)') <= Cardinality(Active(S))
<1>1. Active(S)' \subseteq Active(S)
  BY NoRevival DEF Active, RowsInv, RowsStep, NoBirth, ActiveStates
<1>. QED
  BY <1>1, ActiveFinite, FS_Subset

\* A birth adds one active job to the groups it belongs to.
LEMMA ActiveGrows ==
  ASSUME RowsInv, NEW j \in Jobs, NEW t \in Readings, create(j, t), NEW S \in SUBSET Jobs
  PROVE  Cardinality(Active(S)') <= Cardinality(Active(S)) + (IF j \in S THEN 1 ELSE 0)
<1>1. /\ j \notin Active(S)
      /\ Active(S)' = IF j \in S THEN Active(S) \cup {j} ELSE Active(S)
  BY DEF create, Active, ReservedRow, AbsentRow, ActiveStates, RowsInv
<1>. QED
  BY <1>1, ActiveFinite, FS_AddElement

OwnedWith(j) == {k \in Jobs : Owner[k] = Owner[j]}

\* The inductive form of ActiveWithinCapacity: the quota of every owner, those
\* without a job included.
CapacityInv ==
    /\ global_active_job_count <= GlobalQueueCapacity
    /\ \A j \in Jobs : Cardinality(Active(OwnedWith(j))) <= ActiveJobsPerUser

\* No step but ReverseAdmit adds to the reverse queue's share, and only while
\* there is room; a forward submission leaves it alone.
LEMMA ReverseShare ==
  ASSUME RowsInv, [RepositoryNext]_repositoryVars
  PROVE  \/ reverseActive' <= reverseActive
         \/ ReverseAdmit
<1>1. ASSUME NEW j \in Jobs, OneJob(j)
      PROVE  reverseActive' = reverseActive
  BY <1>1
  DEF OneJob, activate_source, complete_cleanup, create, request_cancel, claim,
      heartbeat, succeed, fail, finish_cancelled, _finish_owned
<1>. QED
  BY <1>1
  DEF RepositoryNext, repositoryVars, recover_expired_leases, expire_terminal,
      ReverseAdmit, ReverseLeave, Tick, RowsInv

\* The count and the insertion are one transaction, so no interleaving of
\* submissions, recoveries and reverse submissions overshoots a limit.
THEOREM ActiveStaysWithinCapacity == RepositorySpec => []ActiveWithinCapacity
<1>1. RepositoryInit => CapacityInv
  <2>. SUFFICES ASSUME RepositoryInit
                PROVE  CapacityInv
    OBVIOUS
  <2>1. ASSUME NEW S \in SUBSET Jobs
        PROVE  Cardinality(Active(S)) = 0
    <3>1. Active(S) = {}
      BY DEF RepositoryInit, Active, AbsentRow, ActiveStates
    <3>. QED
      BY <3>1, FS_EmptySet
  <2>2. Cardinality(Active(Jobs)) = 0
    BY <2>1
  <2>3. \A j \in Jobs : Cardinality(Active(OwnedWith(j))) = 0
    BY <2>1 DEF OwnedWith
  <2>. QED
    BY <2>2, <2>3, ConstantsAssumption
    DEF CapacityInv, RepositoryInit, global_active_job_count
<1>2. CapacityInv /\ RowsInv /\ [RepositoryNext]_repositoryVars => CapacityInv'
  <2>. SUFFICES ASSUME CapacityInv, RowsInv, [RepositoryNext]_repositoryVars
                PROVE  CapacityInv'
    OBVIOUS
  <2>. DEFINE Count(S) == Cardinality(Active(S))
  <2>1. RowsStep /\ reverseActive' \in Nat
    BY NextStep
  <2>2. reverseActive \in Nat /\ RowsInv'
    BY <2>1 DEF RowsInv, RowsStep, LegalStep
  <2>3. ASSUME NEW S \in SUBSET Jobs
        PROVE  Count(S) \in Nat /\ Count(S)' \in Nat
    <3>1. Active(S)' \subseteq Jobs
      BY DEF Active
    <3>2. Cardinality(Active(S)') \in Nat
      BY <3>1, FiniteJobsAssumption, FS_Subset, FS_CardinalityType
    <3>. QED
      BY <3>2, ActiveFinite
  <2>4. \A j \in Jobs : OwnedWith(j) \in SUBSET Jobs
    BY DEF OwnedWith
  <2>5. CASE NoBirth
    <3>1. Count(Jobs)' <= Count(Jobs)
      BY <2>1, <2>5, ActiveShrinks
    <3>2. \A j \in Jobs : Count(OwnedWith(j))' <= Count(OwnedWith(j))
      BY <2>1, <2>4, <2>5, ActiveShrinks
    <3>3. global_active_job_count' <= GlobalQueueCapacity
      <4>1. CASE reverseActive' <= reverseActive
        BY <2>1, <2>2, <2>3, <3>1, <4>1, ConstantsAssumption
        DEF CapacityInv, global_active_job_count
      <4>2. CASE ReverseAdmit
        BY <2>1, <2>2, <2>3, <3>1, <4>2, ConstantsAssumption
        DEF ReverseAdmit, WithinCapacity, global_active_job_count
      <4>. QED
        BY <4>1, <4>2, ReverseShare
    <3>4. ASSUME NEW j \in Jobs
          PROVE  Count(OwnedWith(j))' <= ActiveJobsPerUser
      BY <2>3, <2>4, <3>2, ConstantsAssumption DEF CapacityInv
    <3>. QED
      BY <3>3, <3>4 DEF CapacityInv, OwnedWith
  <2>6. ASSUME NEW j \in Jobs, NEW t \in Readings, create(j, t)
        PROVE  CapacityInv'
    <3>1. /\ Count(Jobs) + reverseActive < GlobalQueueCapacity
          /\ Count(OwnedWith(j)) < ActiveJobsPerUser
          /\ reverseActive' = reverseActive
      BY <2>6
      DEF create, WithinUserQuota, WithinCapacity, global_active_job_count, OwnedWith
    <3>2. Count(Jobs)' <= Count(Jobs) + 1
      BY <2>6, ActiveGrows
    <3>3. ASSUME NEW k \in Jobs
          PROVE  Count(OwnedWith(k))' <= ActiveJobsPerUser
      <4>1. Count(OwnedWith(k))' <= Count(OwnedWith(k))
                                    + (IF j \in OwnedWith(k) THEN 1 ELSE 0)
        BY <2>4, <2>6, ActiveGrows
      <4>2. CASE j \in OwnedWith(k)
        <5>1. OwnedWith(k) = OwnedWith(j)
          BY <4>2 DEF OwnedWith
        <5>. QED
          BY <2>3, <2>4, <3>1, <4>1, <4>2, <5>1, ConstantsAssumption
      <4>3. CASE j \notin OwnedWith(k)
        BY <2>3, <2>4, <4>1, <4>3, ConstantsAssumption DEF CapacityInv
      <4>. QED
        BY <4>2, <4>3
    <3>. QED
      BY <2>2, <2>3, <3>1, <3>2, <3>3, ConstantsAssumption
      DEF CapacityInv, global_active_job_count, OwnedWith
  <2>. QED
    BY <2>5, <2>6, OnlyCreateBears
<1>3. CapacityInv => ActiveWithinCapacity
  BY DEF CapacityInv, ActiveWithinCapacity, Existing, OwnedWith
<1>. QED
  BY <1>1, <1>2, <1>3, RowsInvariant, PTL DEF RepositorySpec

----------------------------------------------------------------------------
(* The conversion service.                                                 *)

\* A commit never takes effect without its acknowledgement.
Unambiguous == "ambiguous" \notin FaultKinds

\* No two submissions share an idempotency key.
KeysApart ==
    \A j, k \in Jobs : /\ Owner[j] = Owner[k]
                       /\ IdempotencyDigest[j] = IdempotencyDigest[k]
                       /\ IdempotencyDigest[j] # NULL
                       => j = k

\* No submission deletes the source of another one that has succeeded.
SourcesApart == "storage" \notin FaultKinds \/ KeysApart

\* Nothing ends between putting an object and deleting it again.
NothingDies == {"crash", "storage"} \cap FaultKinds = {}

----------------------------------------------------------------------------
(* The inductive invariant.                                                *)

\* Where a worker has an attempt in hand.
AttemptSteps == {"load", "convert", "resolve", "finish", "putResult", "putManifest",
                 "publish", "undo", "discard"}

IsExpired(j) == rows[j].state = "expired"

\* Of the attempts of j nothing is left but what a worker is about to delete.
Left(j) ==
    \A a \in 1 .. MaxAttempts : AttemptKeys(j, a) \cap objects # {} => InFlight(j, a)

\* The attempt in hand was claimed; it is not the one that succeeded; what it has
\* stored is there, unless the job was cleaned meanwhile; and it ends as cancelled
\* only on request.
AttemptOK(w) ==
    LET me == worker[w] IN
    me.pc \in AttemptSteps =>
        /\ me.job \in Jobs
        /\ me.token \in 1 .. rows[me.job].attempt
        /\ Unambiguous /\ rows[me.job].state = "succeeded" =>
              me.token # rows[me.job].attempt
        /\ me.pc = "putManifest" =>
              /\ me.job \in Manifested
              /\ ResultKey(me.job, me.token) \in objects \/ IsExpired(me.job)
        /\ me.pc = "publish" =>
              AttemptKeys(me.job, me.token) \subseteq objects \/ IsExpired(me.job)
        /\ me.pc = "resolve" /\ me.outcome = "cancelled" =>
              me.lost \/ me.exhausted \/ me.stop \/ me.job \in asked
        /\ me.pc = "finish" =>
              /\ me.outcome \in {"cancelled"} \cup WorkerErrorCodes
              /\ me.outcome = "cancelled" => me.job \in asked

\* What a worker cleans has expired, and what it acknowledges is gone.
CleanerOK(w) ==
    LET me == worker[w] IN
    /\ me.pc \in {"clean", "acknowledge"} => \A j \in me.batch : IsExpired(j)
    /\ me.pc = "acknowledge" => /\ me.job \in Jobs
                                /\ IsExpired(me.job)
                                /\ NothingDies => Left(me.job)

\* No two workers have the same attempt in hand.
TokensUnique ==
    \A v, w \in Workers :
        /\ v # w
        /\ worker[v].pc \in AttemptSteps /\ worker[w].pc \in AttemptSteps
        /\ worker[v].job = worker[w].job
        => worker[v].token # worker[w].token

\* A submission that goes on is about a job of its key and request.
ClientOK(c) ==
    LET me == client[c] IN
    /\ me.pc = "new" => me.job = c /\ rows[c].state = "absent"
    /\ me.pc \in {"put", "undo", "activate", "accepted", "replayed"} =>
          /\ rows[me.job].state # "absent"
          /\ RequestDigest[me.job] = RequestDigest[c]
          /\ \/ me.job = c
             \/ IdempotencyDigest[me.job] = IdempotencyDigest[c] /\ ~KeysApart
    /\ me.pc \in {"accepted", "replayed"} => rows[me.job].source_ready
    /\ me.pc = "undo" => "storage" \in FaultKinds
    /\ KeysApart /\ me.pc \in {"put", "undo", "activate"} => ~rows[me.job].source_ready
    /\ SourcesApart /\ me.pc = "activate" /\ rows[me.job].state \in ActiveStates =>
          UploadKey(me.job) \in objects

\* What a row says of the store and of those who asked.
JobOK(j) ==
    LET row == rows[j] IN
    /\ row.attempt <= MaxAttempts
    /\ row.cancel_requested \/ row.state = "cancelled" => j \in asked
    /\ Unambiguous /\ row.state = "succeeded" => AttemptKeys(j, row.attempt) \subseteq objects
    /\ SourcesApart /\ row.state \in ActiveStates /\ row.source_ready => UploadKey(j) \in objects
    /\ NothingDies /\ row.cleanup_completed => Left(j)

\* Only attempts that were claimed have stored anything.
StoreOK ==
    /\ objects \subseteq Keys
    /\ \A j \in Jobs, a \in 1 .. MaxAttempts : AttemptKeys(j, a) \cap objects # {} => a <= rows[j].attempt

TypesKept ==
    /\ client \in [Jobs -> Client]
    /\ worker \in [Workers -> Worker]
    /\ \A w \in Workers : worker[w].exhausted => HasBudget
    /\ faults \in 0 .. MaxFaults
    /\ asked \subseteq Jobs

ServiceInv ==
    /\ RowsInv
    /\ TypesKept
    /\ StoreOK
    /\ TokensUnique
    /\ \A w \in Workers : AttemptOK(w) /\ CleanerOK(w)
    /\ \A c \in Jobs : ClientOK(c)
    /\ \A j \in Jobs : JobOK(j)

----------------------------------------------------------------------------
(* Steps of the table.                                                     *)

\* What a legal step of a row may not do, whoever takes it.
LEMMA LegalStepFacts ==
  ASSUME NEW r, NEW s, GoodRow(r), LegalStep(r, s)
  PROVE  /\ r.attempt \in Nat /\ s.attempt \in Nat
         /\ \/ s.attempt = r.attempt
            \/ s.attempt = r.attempt + 1 /\ r.state = "queued" /\ s.state = "running"
         /\ r.state = "expired" => s.state = "expired"
         /\ r.cleanup_completed => s.cleanup_completed
         /\ s.cleanup_completed => s.state = "expired" /\ (r.cleanup_completed \/ r.state = "expired")
         /\ r.state # "absent" => s.state # "absent"
         /\ s.state \in ActiveStates =>
               \/ r.state \in ActiveStates
               \/ r.state = "absent" /\ ~s.source_ready
         /\ s.state = "succeeded" => r.state \in {"succeeded", "running"}
<1>. r \in Row /\ s \in Row /\ GoodRow(s)
  BY DEF LegalStep, GoodRow
<1>. r.state \in States /\ s.state \in States /\ r.attempt \in Nat /\ s.attempt \in Nat
     /\ r.cleanup_completed \in BOOLEAN /\ s.cleanup_completed \in BOOLEAN
  BY DEF Row
<1>. /\ r.cleanup_completed => r.state = "expired"
     /\ s.cleanup_completed => s.state = "expired"
  BY DEF GoodRow, RetentionWellFormed
<1>1. CASE Life(s) = Life(r)
  BY <1>1 DEF Life, Phase, States, ActiveStates, FinishedStates
<1>2. CASE Lifecycle!Start(Life(r), Life(s))
  BY <1>2 DEF Life, Phase, States, ActiveStates, FinishedStates, Lifecycle!Start
<1>3. CASE Lifecycle!Move(Life(r), Life(s))
  BY <1>3 DEF Life, Phase, States, ActiveStates, FinishedStates, Lifecycle!Move, Lifecycle!Moves
<1>. QED
  BY <1>1, <1>2, <1>3 DEF LegalStep

\* The facts for all rows.
LEMMA RowFacts ==
  ASSUME RowsInv, RowsStep, NEW j \in Jobs
  PROVE  /\ rows[j].attempt \in Nat /\ rows'[j].attempt \in Nat
         /\ \/ rows'[j].attempt = rows[j].attempt
            \/ /\ rows'[j].attempt = rows[j].attempt + 1
               /\ rows[j].state = "queued" /\ rows'[j].state = "running"
         /\ IsExpired(j) => IsExpired(j)'
         /\ rows[j].cleanup_completed => rows'[j].cleanup_completed
         /\ rows'[j].cleanup_completed =>
               IsExpired(j)' /\ (rows[j].cleanup_completed \/ IsExpired(j))
         /\ rows[j].state # "absent" => rows'[j].state # "absent"
         /\ rows'[j].state \in ActiveStates =>
               \/ rows[j].state \in ActiveStates
               \/ rows[j].state = "absent" /\ ~rows'[j].source_ready
         /\ rows'[j].state = "succeeded" => rows[j].state \in {"succeeded", "running"}
<1>. GoodRow(rows[j]) /\ LegalStep(rows[j], rows'[j])
  BY DEF RowsInv, RowsStep
<1>. QED
  BY LegalStepFacts, Zenon DEF IsExpired

LEMMA RowsStay ==
  ASSUME RowsInv, UNCHANGED repositoryVars
  PROVE  RowsStep /\ RowsInv'
  BY DEF RowsInv, RowsStep, LegalStep, repositoryVars

----------------------------------------------------------------------------
(* Steps of a worker.                                                      *)

Flight == {"putResult", "putManifest", "publish", "undo", "discard"}

\* me has attempt a of job j in hand; me may store or still has to delete its objects.
Holds(me, j, a) == me.pc \in AttemptSteps /\ me.job = j /\ me.token = a

Flies(me, j, a) == me.pc \in Flight /\ me.job = j /\ me.token = a

Putting(me, j, a) == me.pc \in {"putResult", "putManifest"} /\ Holds(me, j, a)

Deleting(me, j, a) == me.pc \in {"undo", "discard"} /\ Holds(me, j, a)

\* Everything but next_cleanup.
SameLoop(v) ==
    /\ worker'[v].pc = worker[v].pc /\ worker'[v].job = worker[v].job
    /\ worker'[v].token = worker[v].token /\ worker'[v].lost = worker[v].lost
    /\ worker'[v].exhausted = worker[v].exhausted
    /\ worker'[v].outcome = worker[v].outcome
    /\ worker'[v].batch = worker[v].batch /\ worker'[v].stop = worker[v].stop

\* The worker that moves, if it is one that does and not time.
Mover(w) == IF w \in Workers THEN worker[w] ELSE FreshWorker

\* What a step of w does to the row of j.
RowMoves(w, j) ==
    /\ rows'[j].source_ready = rows[j].source_ready
    /\ rows'[j].attempt <= MaxAttempts
    /\ rows[j].state = "absent" => rows'[j].state = "absent"
    /\ rows'[j].cancel_requested \/ rows'[j].state = "cancelled" => j \in asked
    /\ rows'[j].state = "succeeded" =>
          \/ rows[j].state = "succeeded"
          \/ /\ Mover(w).pc = "publish" /\ Holds(Mover(w), j, rows[j].attempt)
             /\ Unambiguous => Mover(w)'.pc \notin AttemptSteps
    /\ rows'[j].cleanup_completed =>
          \/ rows[j].cleanup_completed
          \/ Mover(w).pc = "acknowledge" /\ Mover(w).job = j

\* What a step of w does to the objects of j.
ObjectsMove(w, j) ==
    /\ UploadKey(j) \in objects => UploadKey(j) \in objects' \/ IsExpired(j)
    /\ \A a \in Nat : \A k \in AttemptKeys(j, a) :
          /\ k \in objects' => k \in objects \/ Putting(Mover(w), j, a)
          /\ k \in objects => k \in objects' \/ IsExpired(j) \/ Deleting(Mover(w), j, a)

\* w claims an attempt that nobody had before, and gives one up together with its objects.
AttemptMoves(w) ==
    /\ Mover(w)'.pc \in AttemptSteps =>
          \/ Holds(Mover(w), Mover(w)'.job, Mover(w)'.token)
          \/ rows[Mover(w)'.job].attempt < Mover(w)'.token
    /\ NothingDies => \A j \in Jobs, a \in Nat :
          Flies(Mover(w), j, a) => \/ Flies(Mover(w)', j, a)
                                    \/ AttemptKeys(j, a) \cap objects' = {}
                                    \/ ~IsExpired(j)

\* What a step of w means to all others.
WorkerMoves(w) ==
    /\ RowsStep /\ reverseActive' \in Nat
    /\ UNCHANGED <<client, asked>>
    /\ objects' \subseteq Keys
    /\ \A v \in Workers \ {w} : SameLoop(v)
    /\ \A j \in Jobs : RowMoves(w, j) /\ ObjectsMove(w, j)
    /\ AttemptMoves(w)

\* What is left of an expired job after a step of w is about to be deleted.
LEMMA LeftStays ==
  ASSUME ServiceInv, TypesKept', NEW w \in Workers \cup {NULL}, WorkerMoves(w),
         NEW j \in Jobs, IsExpired(j), Left(j), NothingDies
  PROVE  Left(j)'
<1>. SUFFICES ASSUME NEW a \in 1 .. MaxAttempts, NEW k \in AttemptKeys(j, a), k \in objects'
              PROVE  InFlight(j, a)'
  BY DEF Left, AttemptKeys
<1>. DOMAIN worker = Workers /\ DOMAIN worker' = Workers /\ a \in Nat
  BY ConstantsAssumption DEF ServiceInv, TypesKept
<1>1. \E v \in Workers : Flies(worker[v], j, a)
  <2>1. CASE k \in objects
    BY <2>1 DEF Left, InFlight, Flies, Flight
  <2>2. CASE k \notin objects
    <3>1. Putting(Mover(w), j, a)
      BY <2>2, Zenon DEF WorkerMoves, ObjectsMove
    <3>2. w \in Workers
      BY <3>1 DEF Putting, Mover, FreshWorker
    <3>. QED
      BY <3>1, <3>2 DEF Putting, Holds, Flies, Flight, Mover
  <2>. QED
    BY <2>1, <2>2
<1>2. PICK v \in Workers : Flies(worker[v], j, a)
  BY <1>1
<1>3. Flies(worker'[v], j, a)
  <2>1. CASE v = w
    BY <1>2, <2>1 DEF WorkerMoves, AttemptMoves, IsExpired, Mover
  <2>2. CASE v # w
    BY <1>2, <2>2 DEF WorkerMoves, SameLoop, Flies
  <2>. QED
    BY <2>1, <2>2
<1>. QED
  BY <1>3 DEF InFlight, Flies, Flight

\* What others have in hand is not disturbed.
LEMMA AttemptsStay ==
  ASSUME ServiceInv, NEW w \in Workers \cup {NULL}, WorkerMoves(w), NEW v \in Workers \ {w}
  PROVE  AttemptOK(v)'
<1>. SUFFICES ASSUME NEW j, NEW a, j = worker[v].job, a = worker[v].token,
                     worker[v].pc \in AttemptSteps
              PROVE  AttemptOK(v)'
  BY DEF AttemptOK, WorkerMoves, SameLoop
<1>. AttemptOK(v) /\ SameLoop(v)
  BY DEF ServiceInv, WorkerMoves
<1>1. j \in Jobs /\ a \in 1 .. rows[j].attempt
  BY DEF AttemptOK
<1>2. RowsInv /\ RowsStep /\ RowMoves(w, j) /\ ObjectsMove(w, j) /\ asked' = asked
  BY <1>1 DEF ServiceInv, WorkerMoves
<1>3. /\ rows[j].attempt \in Nat /\ rows'[j].attempt \in Nat
      /\ \/ rows'[j].attempt = rows[j].attempt
         \/ rows'[j].attempt = rows[j].attempt + 1 /\ rows'[j].state = "running"
      /\ IsExpired(j) => IsExpired(j)'
  BY <1>1, <1>2, RowFacts
<1>4. a \in Nat /\ a \in 1 .. rows'[j].attempt
  BY <1>1, <1>3
\* The worker that moves has another attempt in hand.
<1>5. ~Holds(Mover(w), j, a)
  BY DEF ServiceInv, TokensUnique, Holds, Mover, FreshWorker, AttemptSteps
<1>6. Unambiguous /\ rows'[j].state = "succeeded" => a # rows'[j].attempt
  <2>. SUFFICES ASSUME Unambiguous, rows'[j].state = "succeeded"
                PROVE  a # rows[j].attempt
    BY <1>3
  <2>1. CASE rows[j].state = "succeeded"
    BY <2>1 DEF AttemptOK
  <2>2. CASE Holds(Mover(w), j, rows[j].attempt)
    BY <2>2, <1>5
  <2>. QED
    BY <2>1, <2>2, <1>2 DEF RowMoves
<1>7. ASSUME NEW k \in AttemptKeys(j, a), k \in objects \/ IsExpired(j)
      PROVE  k \in objects' \/ IsExpired(j)'
  BY <1>2, <1>3, <1>4, <1>5, <1>7, Zenon DEF ObjectsMove, Deleting
<1>8. ResultKey(j, a) \in AttemptKeys(j, a)
  BY DEF AttemptKeys
<1>9. /\ worker[v].pc = "putManifest" => ResultKey(j, a) \in objects' \/ IsExpired(j)'
      /\ worker[v].pc = "publish" => AttemptKeys(j, a) \subseteq objects' \/ IsExpired(j)'
  BY <1>7, <1>8 DEF AttemptOK
<1>. QED
  BY <1>1, <1>2, <1>4, <1>6, <1>9 DEF AttemptOK, SameLoop

LEMMA CleanersStay ==
  ASSUME ServiceInv, TypesKept', NEW w \in Workers \cup {NULL}, WorkerMoves(w),
         NEW v \in Workers \ {w}
  PROVE  CleanerOK(v)'
<1>1. CleanerOK(v) /\ SameLoop(v) /\ worker[v] \in Worker
  BY DEF ServiceInv, WorkerMoves, TypesKept
<1>2. worker[v].batch \subseteq Jobs
  BY <1>1 DEF Worker
<1>3. \A j \in Jobs : IsExpired(j) => IsExpired(j)'
  BY RowFacts DEF ServiceInv, WorkerMoves
<1>4. \A j \in Jobs : IsExpired(j) /\ NothingDies /\ Left(j) => Left(j)'
  BY LeftStays
<1>. QED
  BY <1>1, <1>2, <1>3, <1>4 DEF CleanerOK, SameLoop

LEMMA TokensStay ==
  ASSUME ServiceInv, NEW w \in Workers \cup {NULL}, WorkerMoves(w)
  PROVE  TokensUnique'
<1>. SUFFICES ASSUME NEW u \in Workers, NEW v \in Workers, u # v, v # w,
                     worker'[u].pc \in AttemptSteps, worker'[v].pc \in AttemptSteps,
                     worker'[u].job = worker'[v].job
              PROVE  worker'[u].token # worker'[v].token
  BY DEF TokensUnique
<1>1. SameLoop(v) /\ AttemptOK(v)
  BY DEF WorkerMoves, ServiceInv
<1>2. CASE u # w
  BY <1>1, <1>2 DEF WorkerMoves, SameLoop, ServiceInv, TokensUnique
<1>3. CASE u = w
  <2>1. Mover(w) = worker[w] /\ Mover(w)' = worker'[w]
    BY <1>3 DEF Mover
  <2>2. CASE Holds(worker[w], worker'[w].job, worker'[w].token)
    BY <1>1, <1>3, <2>2 DEF SameLoop, ServiceInv, TokensUnique, Holds
  <2>3. CASE rows[worker'[w].job].attempt < worker'[w].token
    <3>1. worker'[v].job \in Jobs /\ worker'[v].token \in 1 .. rows[worker'[v].job].attempt
      BY <1>1 DEF AttemptOK, SameLoop
    <3>. QED
      BY <1>3, <2>3, <3>1, RowFacts DEF ServiceInv, WorkerMoves
  <2>. QED
    BY <1>3, <2>1, <2>2, <2>3, Zenon DEF WorkerMoves, AttemptMoves
<1>. QED
  BY <1>2, <1>3


LEMMA ClientsStay ==
  ASSUME ServiceInv, NEW w \in Workers \cup {NULL}, WorkerMoves(w), NEW c \in Jobs
  PROVE  ClientOK(c)'
<1>. SUFFICES ASSUME NEW j, j = client[c].job
              PROVE  ClientOK(c)'
  OBVIOUS
<1>1. j \in Jobs /\ ClientOK(c) /\ client' = client
  BY DEF ServiceInv, TypesKept, Client, WorkerMoves
<1>2. RowMoves(w, j) /\ RowMoves(w, c) /\ ObjectsMove(w, j)
  BY <1>1 DEF WorkerMoves
<1>3. /\ rows[j].state # "absent" => rows'[j].state # "absent"
      /\ rows'[j].state \in ActiveStates =>
            \/ rows[j].state \in ActiveStates
            \/ rows[j].state = "absent" /\ ~rows'[j].source_ready
  BY <1>1, RowFacts DEF ServiceInv, WorkerMoves
<1>4. UploadKey(j) \in objects => UploadKey(j) \in objects' \/ IsExpired(j)
  BY <1>2 DEF ObjectsMove
<1>5. /\ rows'[j].source_ready = rows[j].source_ready
      /\ rows[c].state = "absent" => rows'[c].state = "absent"
  BY <1>2 DEF RowMoves
<1>6. ~IsExpired(j) \/ rows[j].state \notin ActiveStates
  BY DEF IsExpired, ActiveStates
<1>. QED
  BY <1>1, <1>3, <1>4, <1>5, <1>6 DEF ClientOK

LEMMA JobsStay ==
  ASSUME ServiceInv, TypesKept', NEW w \in Workers \cup {NULL}, WorkerMoves(w), NEW j \in Jobs
  PROVE  JobOK(j)'
<1>1. JobOK(j) /\ RowMoves(w, j) /\ ObjectsMove(w, j) /\ asked' = asked
  BY DEF ServiceInv, WorkerMoves
<1>2. /\ rows[j].attempt \in Nat
      /\ \/ rows'[j].attempt = rows[j].attempt
         \/ rows'[j].state = "running"
      /\ IsExpired(j) => IsExpired(j)'
      /\ rows'[j].state \in ActiveStates => rows[j].state \in ActiveStates \cup {"absent"}
  BY RowFacts DEF ServiceInv, WorkerMoves
<1>3. Unambiguous /\ rows'[j].state = "succeeded" => AttemptKeys(j, rows'[j].attempt) \subseteq objects'
  <2>. SUFFICES ASSUME Unambiguous, rows'[j].state = "succeeded",
                       NEW k \in AttemptKeys(j, rows[j].attempt)
                PROVE  k \in objects'
    BY <1>2
  <2>1. ~IsExpired(j)
    BY <1>2 DEF IsExpired
  <2>2. k \in objects /\ ~Deleting(Mover(w), j, rows[j].attempt)
    <3>1. CASE rows[j].state = "succeeded"
      <4>1. k \in objects
        BY <1>1, <3>1 DEF JobOK
      <4>2. ~Holds(Mover(w), j, rows[j].attempt)
        BY <3>1 DEF ServiceInv, AttemptOK, Holds, Mover, FreshWorker, AttemptSteps
      <4>. QED
        BY <4>1, <4>2 DEF Deleting
    <3>2. CASE Mover(w).pc = "publish" /\ Holds(Mover(w), j, rows[j].attempt)
      <4>1. w \in Workers
        BY <3>2 DEF Mover, FreshWorker
      <4>2. k \in objects
        BY <2>1, <3>2, <4>1 DEF ServiceInv, AttemptOK, Holds, Mover
      <4>. QED
        BY <3>2, <4>2 DEF Deleting
    <3>. QED
      BY <1>1, <3>1, <3>2 DEF RowMoves
  <2>. QED
    BY <1>1, <1>2, <2>1, <2>2, Zenon DEF ObjectsMove
<1>4. SourcesApart /\ rows'[j].state \in ActiveStates /\ rows'[j].source_ready =>
         UploadKey(j) \in objects'
  <2>. SUFFICES ASSUME SourcesApart, rows'[j].state \in ActiveStates, rows'[j].source_ready
                PROVE  UploadKey(j) \in objects'
    OBVIOUS
  <2>1. rows[j].source_ready /\ rows[j].state \in ActiveStates
    BY <1>1, <1>2, RowFacts DEF RowMoves, ServiceInv, WorkerMoves
  <2>. QED
    BY <1>1, <2>1 DEF JobOK, ObjectsMove, IsExpired, ActiveStates
<1>5. NothingDies /\ rows'[j].cleanup_completed => Left(j)'
  <2>. SUFFICES ASSUME NothingDies, rows'[j].cleanup_completed
                PROVE  IsExpired(j) /\ Left(j)
    BY LeftStays
  <2>1. CASE rows[j].cleanup_completed
    BY <1>1, <2>1, RowFacts DEF JobOK, ServiceInv, RowsInv, GoodRow, RetentionWellFormed, IsExpired
  <2>2. CASE Mover(w).pc = "acknowledge" /\ Mover(w).job = j
    BY <2>2 DEF ServiceInv, CleanerOK, Mover, FreshWorker
  <2>. QED
    BY <1>1, <2>1, <2>2 DEF RowMoves
<1>. QED
  BY <1>1, <1>3, <1>4, <1>5 DEF JobOK, RowMoves

LEMMA StoreStays ==
  ASSUME ServiceInv, NEW w \in Workers \cup {NULL}, WorkerMoves(w)
  PROVE  StoreOK'
<1>. SUFFICES ASSUME NEW j \in Jobs, NEW a \in 1 .. MaxAttempts, NEW k \in AttemptKeys(j, a),
                     k \in objects'
              PROVE  a <= rows'[j].attempt
  BY DEF StoreOK, WorkerMoves, AttemptKeys
<1>1. /\ rows[j].attempt \in Nat /\ rows'[j].attempt \in Nat
      /\ rows'[j].attempt = rows[j].attempt \/ rows'[j].attempt = rows[j].attempt + 1
  BY RowFacts DEF ServiceInv, WorkerMoves
<1>2. a <= rows[j].attempt
  <2>1. CASE k \in objects
    BY <2>1 DEF ServiceInv, StoreOK, AttemptKeys
  <2>2. CASE Putting(Mover(w), j, a)
    BY <2>2 DEF Putting, Holds, Mover, FreshWorker, ServiceInv, AttemptOK
  <2>. QED
    BY <2>1, <2>2, ConstantsAssumption DEF WorkerMoves, ObjectsMove
<1>. QED
  BY <1>1, <1>2, ConstantsAssumption

\* A step of a worker keeps the invariant if it keeps what concerns the worker itself.
LEMMA WorkerKeeps ==
  ASSUME ServiceInv, TypesKept', NEW w \in Workers \cup {NULL}, WorkerMoves(w),
         w \in Workers => AttemptOK(w)' /\ CleanerOK(w)'
  PROVE  ServiceInv'
<1>1. RowsInv'
  BY DEF WorkerMoves, RowsInv, RowsStep, LegalStep
<1>2. \A v \in Workers : AttemptOK(v)' /\ CleanerOK(v)'
  BY AttemptsStay, CleanersStay
<1>. QED
  BY <1>1, <1>2, StoreStays, TokensStay, ClientsStay, JobsStay DEF ServiceInv


----------------------------------------------------------------------------
(* What the workers' calls do to the table.                                *)

\* Nothing happens to the row but to its lease, its times and its ending unsuccessfully.
QuietRow(r, s) ==
    /\ s.source_ready = r.source_ready
    /\ s.attempt = r.attempt
    /\ r.state = "absent" => s.state = "absent"
    /\ s.cancel_requested => r.cancel_requested
    /\ s.state = "cancelled" => r.cancel_requested \/ r.state = "cancelled"
    /\ s.state = "succeeded" => r.state = "succeeded"
    /\ s.cleanup_completed => r.cleanup_completed

TableMoves(w) ==
    /\ RowsStep /\ reverseActive' \in Nat
    /\ \A j \in Jobs : RowMoves(w, j)

LEMMA QuietRows ==
  ASSUME ServiceInv, NEW w, NEW j \in Jobs, QuietRow(rows[j], rows'[j])
  PROVE  RowMoves(w, j)
  BY DEF QuietRow, RowMoves, ServiceInv, JobOK

\* Rows that stay as they are.
LEMMA SameRow ==
  ASSUME NEW r
  PROVE  QuietRow(r, r)
  BY DEF QuietRow

LEMMA TableStill ==
  ASSUME ServiceInv, NEW w, UNCHANGED repositoryVars
  PROVE  TableMoves(w)
<1>1. RowsStep /\ reverseActive' \in Nat
  BY RowsStay DEF ServiceInv, RowsInv, repositoryVars
<1>. QED
  BY <1>1, QuietRows, SameRow DEF TableMoves, repositoryVars

\* Rewriting one row leaves all others alone.
LEMMA OneRow ==
  ASSUME ServiceInv, NEW w, NEW j \in Jobs, NEW s, rows' = [rows EXCEPT ![j] = s],
         [RepositoryNext]_repositoryVars, rows'[j] = s => RowMoves(w, j)
  PROVE  TableMoves(w)
<1>1. rows'[j] = s /\ \A k \in Jobs \ {j} : rows'[k] = rows[k]
  BY DEF ServiceInv, RowsInv
<1>2. RowsStep /\ reverseActive' \in Nat
  BY NextStep DEF ServiceInv
<1>. QED
  BY <1>1, <1>2, QuietRows, SameRow DEF TableMoves

LEMMA RecoverMoves ==
  ASSUME ServiceInv, NEW w, NEW t \in Readings, recover_expired_leases(t)
  PROVE  TableMoves(w)
<1>1. RowsStep /\ reverseActive' \in Nat
  BY NextStep DEF ServiceInv, RepositoryNext
<1>2. ASSUME NEW j \in Jobs
      PROVE  QuietRow(rows[j], rows'[j])
  <2>. GoodRow(rows[j]) /\ rows'[j] = Recovered(rows[j], t)
    BY DEF ServiceInv, RowsInv, recover_expired_leases
  <2>. QED
    BY DEF GoodRow, Row, QuietRow, Recovered, LeaseExpired, UploadAbandoned, CancelledRow,
           RequeuedRow, AbandonedRow, _cleared_lease
<1>. QED
  BY <1>1, <1>2, QuietRows DEF TableMoves

LEMMA TickMoves ==
  ASSUME ServiceInv, NEW w, Tick
  PROVE  TableMoves(w)
<1>1. RowsStep /\ reverseActive' \in Nat
  BY NextStep DEF ServiceInv, RepositoryNext
<1>2. ASSUME NEW j \in Jobs
      PROVE  QuietRow(rows[j], rows'[j])
  <2>. GoodRow(rows[j]) /\ rows'[j] = Aged(rows[j])
    BY DEF ServiceInv, RowsInv, Tick
  <2>. QED
    BY DEF GoodRow, Row, QuietRow, Aged
<1>. QED
  BY <1>1, <1>2, QuietRows DEF TableMoves

LEMMA ExpireMoves ==
  ASSUME ServiceInv, NEW w \in Workers, NEW t \in Readings, NEW S \in SUBSET Jobs,
         expire_terminal(w, S, t)
  PROVE  TableMoves(w) /\ \A j \in S : IsExpired(j)'
<1>1. RowsStep /\ reverseActive' \in Nat
  BY NextStep DEF ServiceInv, RepositoryNext
<1>2. ASSUME NEW j \in Jobs
      PROVE  QuietRow(rows[j], rows'[j]) /\ (j \in S => IsExpired(j)')
  <2>1. GoodRow(rows[j])
    BY DEF ServiceInv, RowsInv
  <2>2. CASE j \in S
    <3>1. rows'[j] = ExpiredRow(rows[j], w, t)
      BY <2>2 DEF expire_terminal
    <3>2. rows[j].state # "absent"
      BY <2>2 DEF expire_terminal, CleanupBatches, CleanupClaimable, FinishedStates
    <3>. QED
      BY <2>1, <3>1, <3>2 DEF GoodRow, Row, QuietRow, ExpiredRow, IsExpired
  <2>3. CASE j \notin S
    BY <2>3, SameRow DEF expire_terminal
  <2>. QED
    BY <2>2, <2>3
<1>. QED
  BY <1>1, <1>2, QuietRows DEF TableMoves

LEMMA ClaimMoves ==
  ASSUME ServiceInv, NEW w \in Workers, NEW j \in Jobs, NEW t \in Readings, claim(w, j, t)
  PROVE  /\ TableMoves(w)
         /\ rows'[j].state = "running" /\ rows'[j].attempt = rows[j].attempt + 1
<1>1. RepositoryNext
  BY DEF RepositoryNext, OneJob
<1>2. rows' = [rows EXCEPT ![j] = ClaimedRow(rows[j], w, t)] /\ rows[j].attempt < MaxAttempts
      /\ rows[j].state = "queued"
  BY DEF claim, ClaimCandidates, Claimable
<1>3. GoodRow(rows[j])
  BY DEF ServiceInv, RowsInv
<1>4. /\ rows'[j] = ClaimedRow(rows[j], w, t)
      /\ rows'[j].state = "running" /\ rows'[j].attempt = rows[j].attempt + 1
      /\ rows'[j].source_ready = rows[j].source_ready
      /\ ~rows'[j].cancel_requested
      /\ rows'[j].cleanup_completed = rows[j].cleanup_completed
  BY <1>2, <1>3 DEF ServiceInv, RowsInv, GoodRow, Row, ClaimedRow
<1>5. RowMoves(w, j)
  BY <1>2, <1>3, <1>4, ConstantsAssumption DEF RowMoves, GoodRow, Row
<1>. QED
  BY <1>1, <1>2, <1>4, <1>5, OneRow

\* A worker's token was issued: its write is a call of the table's specification.
LEMMA IssuedToken ==
  ASSUME ServiceInv, NEW w \in Workers, worker[w].pc \in AttemptSteps
  PROVE  worker[w].job \in Jobs /\ worker[w].token \in IssuedTokens(worker[w].job)
  BY DEF ServiceInv, AttemptOK, IssuedTokens

\* The lease that a write needs is that of the latest attempt of a running job.
LEMMA LeaseOfLatest ==
  ASSUME ServiceInv, NEW j \in Jobs, NEW w, NEW a, _owned_lease(j, w, a)
  PROVE  rows[j].state = "running" /\ a = rows[j].attempt
  BY DEF ServiceInv, RowsInv, GoodRow, LeaseWellFormed, _owned_lease

LEMMA HeartbeatMoves ==
  ASSUME ServiceInv, NEW w \in Workers, worker[w].pc \in AttemptSteps,
         NEW t \in Readings, heartbeat(worker[w].job, w, worker[w].token, t)
  PROVE  /\ TableMoves(w)
         /\ rows'[worker[w].job].state = "running"
         /\ rows'[worker[w].job].attempt = rows[worker[w].job].attempt
<1>. SUFFICES ASSUME NEW j \in Jobs, j = worker[w].job
              PROVE  /\ TableMoves(w)
                     /\ rows'[j].state = "running" /\ rows'[j].attempt = rows[j].attempt
  BY IssuedToken
<1>1. RepositoryNext
  BY IssuedToken DEF RepositoryNext, OneJob
<1>2. rows' = [rows EXCEPT ![j] = RenewedRow(rows[j], t)] /\ rows[j].state = "running"
  BY DEF heartbeat, HeartbeatAccepted, LiveLease, _owned_lease
<1>3. GoodRow(rows[j]) /\ rows'[j] = RenewedRow(rows[j], t)
  BY <1>2 DEF ServiceInv, RowsInv
<1>4. /\ QuietRow(rows[j], rows'[j])
      /\ rows'[j].state = "running" /\ rows'[j].attempt = rows[j].attempt
  BY <1>2, <1>3 DEF GoodRow, Row, QuietRow, RenewedRow
<1>. QED
  BY <1>1, <1>2, <1>4, OneRow, QuietRows


LEMMA FinishMoves ==
  ASSUME ServiceInv, NEW w \in Workers, worker[w].pc = "finish", NEW t \in Readings,
         IF worker[w].outcome = "cancelled"
         THEN finish_cancelled(worker[w].job, w, worker[w].token, t)
         ELSE fail(worker[w].job, w, worker[w].token, worker[w].outcome, t)
  PROVE  TableMoves(w)
<1>. SUFFICES ASSUME NEW j \in Jobs, j = worker[w].job
              PROVE  TableMoves(w)
  BY IssuedToken DEF AttemptSteps
<1>1. /\ worker[w].token \in IssuedTokens(j)
      /\ worker[w].outcome # "cancelled" => worker[w].outcome \in WorkerErrorCodes
      /\ worker[w].outcome = "cancelled" => j \in asked
  BY IssuedToken DEF AttemptSteps, ServiceInv, AttemptOK
<1>2. RepositoryNext
  BY <1>1, Zenon DEF RepositoryNext, OneJob
<1>3. PICK s : /\ rows' = [rows EXCEPT ![j] = s]
               /\ s = CancelledRow(rows[j], t) \/ \E code : s = FailedRow(rows[j], code, t)
               /\ s = CancelledRow(rows[j], t) \/ worker[w].outcome # "cancelled"
  BY DEF finish_cancelled, fail, _finish_owned
<1>4. GoodRow(rows[j]) /\ rows[j].state = "running"
  BY DEF ServiceInv, RowsInv, finish_cancelled, fail, _finish_owned, LiveLease, _owned_lease
<1>5. (rows[j].cancel_requested \/ worker[w].outcome = "cancelled") \/ \E code : s = FailedRow(rows[j], code, t)
  BY <1>3, <1>4 DEF finish_cancelled, fail, _finish_owned, ServiceInv, RowsInv
<1>6. ASSUME rows'[j] = s
      PROVE  RowMoves(w, j)
  <2>1. JobOK(j) /\ rows[j].attempt <= MaxAttempts
    BY DEF ServiceInv, JobOK
  <2>2. CASE \E code : s = FailedRow(rows[j], code, t)
    <3>1. QuietRow(rows[j], s)
      BY <1>4, <2>2 DEF GoodRow, Row, QuietRow, FailedRow, _cleared_lease
    <3>. QED
      BY <1>6, <3>1, QuietRows
  <2>3. CASE s = CancelledRow(rows[j], t) /\ j \in asked
    BY <1>4, <1>6, <2>1, <2>3 DEF GoodRow, Row, CancelledRow, _cleared_lease, RowMoves
  <2>4. rows[j].cancel_requested => j \in asked
    BY <2>1 DEF JobOK
  <2>. QED
    BY <1>1, <1>3, <1>5, <2>2, <2>3, <2>4
<1>. QED
  BY <1>2, <1>3, <1>6, OneRow

\* succeed decides between result and cancellation; the worker learns which.
LEMMA SucceedMoves ==
  ASSUME ServiceInv, NEW w \in Workers, worker[w].pc = "publish", NEW t \in Readings,
         succeed(worker[w].job, w, worker[w].token, t),
         Unambiguous /\ ~rows[worker[w].job].cancel_requested => worker'[w].pc \notin AttemptSteps
  PROVE  /\ TableMoves(w)
         /\ rows[worker[w].job].state = "running"
         /\ rows'[worker[w].job].attempt = rows[worker[w].job].attempt
         /\ rows[worker[w].job].cancel_requested => rows'[worker[w].job].state = "cancelled"
<1>. SUFFICES ASSUME NEW j \in Jobs, j = worker[w].job
              PROVE  /\ TableMoves(w)
                     /\ rows[j].state = "running"
                     /\ rows'[j].attempt = rows[j].attempt
                     /\ rows[j].cancel_requested => rows'[j].state = "cancelled"
  BY IssuedToken DEF AttemptSteps
<1>1. RepositoryNext
  BY IssuedToken, Zenon DEF RepositoryNext, OneJob, AttemptSteps
<1>2. GoodRow(rows[j]) /\ rows[j].state = "running" /\ worker[w].token = rows[j].attempt
  BY LeaseOfLatest DEF ServiceInv, RowsInv, succeed, _finish_owned, LiveLease
<1>3. PICK s : /\ rows' = [rows EXCEPT ![j] = s]
               /\ s = IF rows[j].cancel_requested THEN CancelledRow(rows[j], t)
                      ELSE SucceededRow(rows[j], worker[w].token, t)
  BY DEF succeed, _finish_owned
<1>4. rows'[j] = s
  BY <1>3 DEF ServiceInv, RowsInv
<1>5. CASE rows[j].cancel_requested
  <2>1. QuietRow(rows[j], s) /\ s.attempt = rows[j].attempt /\ s.state = "cancelled"
    BY <1>2, <1>3, <1>5 DEF GoodRow, Row, QuietRow, CancelledRow, _cleared_lease
  <2>2. RowMoves(w, j)
    BY <1>4, <2>1, QuietRows
  <2>3. TableMoves(w)
    BY <1>1, <1>3, <2>2, OneRow
  <2>. QED
    BY <1>2, <1>4, <2>1, <2>3
<1>6. CASE ~rows[j].cancel_requested
  <2>1. /\ s.source_ready = rows[j].source_ready /\ s.attempt = rows[j].attempt
        /\ s.state = "succeeded" /\ ~s.cancel_requested
        /\ s.cleanup_completed = rows[j].cleanup_completed
    BY <1>2, <1>3, <1>6 DEF GoodRow, Row, SucceededRow, _cleared_lease
  <2>2. RowMoves(w, j)
    BY <1>2, <1>4, <1>6, <2>1
    DEF RowMoves, Mover, Holds, AttemptSteps, ServiceInv, JobOK
  <2>. QED
    BY <1>1, <1>2, <1>3, <1>4, <1>6, <2>1, <2>2, OneRow
<1>. QED
  BY <1>5, <1>6

LEMMA AcknowledgeMoves ==
  ASSUME ServiceInv, NEW w \in Workers, worker[w].pc = "acknowledge",
         complete_cleanup(worker[w].job, w)
  PROVE  TableMoves(w)
<1>. SUFFICES ASSUME NEW j \in Jobs, j = worker[w].job
              PROVE  TableMoves(w)
  BY DEF ServiceInv, CleanerOK
<1>1. RepositoryNext
  BY Zenon DEF RepositoryNext, OneJob
<1>2. rows' = [rows EXCEPT ![j] = CleanedRow(rows[j])] /\ GoodRow(rows[j])
  BY DEF complete_cleanup, ServiceInv, RowsInv
<1>3. rows'[j] = CleanedRow(rows[j])
  BY <1>2 DEF ServiceInv, RowsInv
<1>4. RowMoves(w, j)
  BY <1>2, <1>3 DEF RowMoves, CleanedRow, GoodRow, Row, Mover, ServiceInv, JobOK
<1>. QED
  BY <1>1, <1>2, <1>4, OneRow

----------------------------------------------------------------------------
(* What the workers' calls do to the store.                                *)

ObjectsMoves(w) == objects' \subseteq Keys /\ \A j \in Jobs : ObjectsMove(w, j)

LEMMA ObjectsStill ==
  ASSUME ServiceInv, NEW w, objects' = objects
  PROVE  ObjectsMoves(w)
  BY DEF ServiceInv, StoreOK, ObjectsMoves, ObjectsMove

\* Keys of different jobs, attempts or kinds are different.
LEMMA KeysDiffer ==
  ASSUME NEW j, NEW a, NEW o \in AttemptKeys(j, a)
  PROVE  /\ \A k : o # UploadKey(k)
         /\ \A k, b : o \in AttemptKeys(k, b) => j = k /\ a = b
  BY DEF AttemptKeys, ResultKey, ManifestKey, UploadKey

LEMMA AttemptKeysIn ==
  ASSUME ServiceInv, NEW j \in Jobs, NEW a \in 1 .. rows[j].attempt
  PROVE  AttemptKeys(j, a) \subseteq Keys /\ a \in 1 .. MaxAttempts /\ a \in Nat
<1>. a \in 1 .. MaxAttempts
  BY ConstantsAssumption DEF ServiceInv, JobOK, RowsInv, GoodRow, Row
<1>. QED
  BY DEF Keys

\* publish stores under the key of the attempt in hand.
LEMMA PutMoves ==
  ASSUME ServiceInv, NEW w \in Workers, worker[w].pc \in {"putResult", "putManifest"},
         NEW o \in AttemptKeys(worker[w].job, worker[w].token),
         objects' \in {objects, objects \cup {o}}
  PROVE  ObjectsMoves(w)
<1>. SUFFICES ASSUME NEW i \in Jobs, NEW b, i = worker[w].job, b = worker[w].token, b \in IssuedTokens(i)
              PROVE  ObjectsMoves(w)
  BY IssuedToken DEF AttemptSteps
<1>1. AttemptKeys(i, b) \subseteq Keys /\ b \in Nat
  BY AttemptKeysIn DEF IssuedTokens
<1>2. ASSUME NEW j \in Jobs
      PROVE  ObjectsMove(w, j)
  <2>1. ASSUME NEW a \in Nat, NEW k \in AttemptKeys(j, a), k \in objects', k \notin objects
        PROVE  Putting(Mover(w), j, a)
    <3>1. k \in AttemptKeys(i, b)
      BY <2>1
    <3>2. j = i /\ a = b
      BY <1>1, <3>1, KeysDiffer
    <3>. QED
      BY <3>2 DEF Putting, Holds, Mover, AttemptSteps
  <2>. QED
    BY <2>1 DEF ObjectsMove
<1>. QED
  BY <1>1, <1>2 DEF ObjectsMoves, ServiceInv, StoreOK

\* A compensation deletes nothing but objects of the attempt in hand.
LEMMA CompensateMoves ==
  ASSUME ServiceInv, NEW w \in Workers, worker[w].pc \in {"undo", "discard"},
         NEW gone \in SUBSET MyKeys(w), objects' = objects \ gone
  PROVE  ObjectsMoves(w)
<1>. SUFFICES ASSUME NEW i \in Jobs, NEW b \in Nat, i = worker[w].job, b = worker[w].token
              PROVE  ObjectsMoves(w)
  BY IssuedToken, AttemptKeysIn DEF AttemptSteps, IssuedTokens
<1>1. ASSUME NEW j \in Jobs
      PROVE  ObjectsMove(w, j)
  <2>1. ASSUME NEW a \in Nat, NEW k \in AttemptKeys(j, a), k \in objects, k \notin objects'
        PROVE  Deleting(Mover(w), j, a)
    <3>1. j = i /\ a = b
      BY <2>1, KeysDiffer DEF MyKeys
    <3>. QED
      BY <3>1 DEF Deleting, Holds, Mover, AttemptSteps
  <2>2. UploadKey(j) \in objects => UploadKey(j) \in objects'
    BY KeysDiffer DEF MyKeys
  <2>. QED
    BY <2>1, <2>2 DEF ObjectsMove
<1>. QED
  BY <1>1 DEF ObjectsMoves, ServiceInv, StoreOK

\* The cleanup deletes nothing but objects of an expired job.
LEMMA CleanMoves ==
  ASSUME ServiceInv, NEW w, NEW i \in Jobs, IsExpired(i),
         NEW gone \in SUBSET JobKeys(i), objects' = objects \ gone
  PROVE  ObjectsMoves(w)
<1>1. ASSUME NEW j \in Jobs
      PROVE  ObjectsMove(w, j)
  <2>1. ASSUME NEW a \in Nat, NEW k \in AttemptKeys(j, a) \cup {UploadKey(j)}, k \in JobKeys(i)
        PROVE  j = i
    <3>1. CASE k = UploadKey(i)
      BY <2>1, <3>1, KeysDiffer DEF UploadKey
    <3>2. CASE \E b \in IssuedTokens(i) : k \in AttemptKeys(i, b)
      BY <2>1, <3>2, KeysDiffer DEF IssuedTokens
    <3>. QED
      BY <2>1, <3>1, <3>2 DEF JobKeys
  <2>2. 0 \in Nat
    OBVIOUS
  <2>. QED
    BY <2>1, <2>2 DEF ObjectsMove
<1>. QED
  BY <1>1 DEF ObjectsMoves, ServiceInv, StoreOK


----------------------------------------------------------------------------
(* Steps of a worker, put together.                                        *)

FaultsCounted == faults' \in 0 .. MaxFaults

LEMMA FaultCounted ==
  ASSUME ServiceInv, faults' = faults \/ \E kind : Fault(kind)
  PROVE  FaultsCounted
  BY ServiceAssumption DEF ServiceInv, TypesKept, Fault, FaultsCounted

\* w becomes m, and all others see the table and the store move as they may.
LEMMA WorkerBecomes ==
  ASSUME ServiceInv, NEW w \in Workers, NEW m \in Worker,
         worker' = [worker EXCEPT ![w] = m], UNCHANGED <<client, asked>>, FaultsCounted,
         m.exhausted => HasBudget,
         TableMoves(w), ObjectsMoves(w), AttemptMoves(w), AttemptOK(w)', CleanerOK(w)'
  PROVE  ServiceInv'
<1>1. worker' \in [Workers -> Worker] /\ worker'[w] = m
      /\ \A v \in Workers \ {w} : worker'[v] = worker[v]
  BY DEF ServiceInv, TypesKept
<1>2. TypesKept'
  BY <1>1 DEF ServiceInv, TypesKept, FaultsCounted
<1>3. WorkerMoves(w)
  BY <1>1 DEF WorkerMoves, TableMoves, ObjectsMoves, SameLoop
<1>. QED
  BY <1>2, <1>3, WorkerKeeps

\* Going on with the attempt in hand, or giving it up with nothing left to delete.
GoesOn(me, m) ==
    /\ m.pc \in AttemptSteps =>
          me.pc \in AttemptSteps /\ m.job = me.job /\ m.token = me.token
    /\ NothingDies /\ me.pc \in Flight => m.pc \in Flight

LEMMA GoingOn ==
  ASSUME NEW w \in Workers, GoesOn(worker[w], worker'[w])
  PROVE  AttemptMoves(w)
  BY DEF GoesOn, AttemptMoves, Mover, Holds, Flies, Flight, AttemptSteps

\* What the worker has learnt of its attempt so far is true.
Learnt(m, j) ==
    /\ m.pc = "resolve" /\ m.outcome = "cancelled" => m.lost \/ m.exhausted \/ m.stop \/ j \in asked
    /\ m.pc = "finish" => /\ m.outcome \in {"cancelled"} \cup WorkerErrorCodes
                          /\ m.outcome = "cancelled" => j \in asked

\* The worker's own step, when table and store stay as they are.
LEMMA StillStep ==
  ASSUME ServiceInv, NEW w \in Workers, NEW m \in Worker, m.exhausted => HasBudget,
         worker' = [worker EXCEPT ![w] = m], UNCHANGED <<client, asked>>, FaultsCounted,
         UNCHANGED <<repositoryVars, objects>>,
         GoesOn(worker[w], m),
         m.pc \in AttemptSteps => Learnt(m, m.job),
         m.pc \in {"putManifest", "publish"} => m.pc = worker[w].pc,
         m.pc \in {"clean", "acknowledge"} =>
            /\ worker[w].pc \in {"clean", "acknowledge"}
            /\ m.batch \subseteq worker[w].batch,
         m.pc = "acknowledge" => worker[w].pc = "acknowledge" /\ m.job = worker[w].job
  PROVE  ServiceInv'
<1>1. worker'[w] = m /\ rows' = rows /\ objects' = objects
  BY DEF ServiceInv, TypesKept, repositoryVars
<1>2. TableMoves(w) /\ ObjectsMoves(w) /\ AttemptMoves(w)
  BY <1>1, TableStill, ObjectsStill, GoingOn
<1>3. AttemptOK(w) /\ CleanerOK(w)
  BY DEF ServiceInv
<1>4. AttemptOK(w)'
  BY <1>1, <1>3 DEF AttemptOK, GoesOn, Learnt, IsExpired, AttemptSteps
<1>5. \A j : Left(j) => Left(j)' \/ ~NothingDies \/ j \notin Jobs \/ ~IsExpired(j)
  <2>. SUFFICES ASSUME NEW j \in Jobs, Left(j), NothingDies, IsExpired(j)
                PROVE  Left(j)'
    OBVIOUS
  <2>1. worker' \in [Workers -> Worker] /\ \A v \in Workers \ {w} : worker'[v] = worker[v]
    BY DEF ServiceInv, TypesKept
  <2>2. TypesKept' /\ WorkerMoves(w)
    BY <1>2, <2>1
    DEF ServiceInv, TypesKept, FaultsCounted, WorkerMoves, TableMoves, ObjectsMoves, SameLoop
  <2>. QED
    BY <2>2, LeftStays
<1>6. CleanerOK(w)'
  BY <1>1, <1>3, <1>5 DEF CleanerOK, IsExpired
<1>. QED
  BY <1>2, <1>4, <1>6, WorkerBecomes


\* The records that a loop's steps give.
LEMMA LoopRecords ==
  ASSUME ServiceInv, NEW w \in Workers
  PROVE  /\ worker[w] \in Worker /\ (worker[w].exhausted => HasBudget)
         /\ FreshWorker \in Worker
         /\ \A pc \in WorkerSteps : [FreshWorker EXCEPT !.pc = pc, !.due = worker[w].due,
                                                       !.stop = worker[w].stop] \in Worker
<1>1. worker[w] \in Worker /\ (worker[w].exhausted => HasBudget)
  BY DEF ServiceInv, TypesKept
<1>2. FreshWorker \in Worker
  BY DEF FreshWorker, Worker, WorkerSteps, Outcomes
<1>3. worker[w].due \in BOOLEAN /\ worker[w].stop \in BOOLEAN
  BY <1>1 DEF Worker
<1>. QED
  BY <1>1, <1>2, <1>3, Zenon DEF FreshWorker, Worker

LEMMA LoopUpdates ==
  ASSUME NEW m \in Worker
  PROVE  /\ \A pc \in WorkerSteps : [m EXCEPT !.pc = pc] \in Worker
         /\ \A pc \in WorkerSteps, o \in Outcomes : [m EXCEPT !.pc = pc, !.outcome = o] \in Worker
         /\ \A pc \in WorkerSteps, o \in Outcomes, e \in BOOLEAN :
               [m EXCEPT !.pc = pc, !.exhausted = e, !.outcome = o] \in Worker
         /\ [m EXCEPT !.lost = TRUE] \in Worker
         /\ [m EXCEPT !.stop = TRUE] \in Worker
         /\ \A pc \in WorkerSteps : [m EXCEPT !.pc = pc, !.due = FALSE] \in Worker
         /\ \A pc \in WorkerSteps, j \in Jobs \cup {NULL} : [m EXCEPT !.pc = pc, !.job = j] \in Worker
         /\ \A pc \in WorkerSteps, j \in Jobs \cup {NULL}, t \in Nat :
               [m EXCEPT !.pc = pc, !.job = j, !.token = t] \in Worker
         /\ \A pc \in WorkerSteps, S \in SUBSET Jobs :
               [m EXCEPT !.pc = pc, !.batch = S, !.due = FALSE] \in Worker
         /\ \A pc \in WorkerSteps, S \in SUBSET Jobs, j \in Jobs \cup {NULL} :
               [m EXCEPT !.pc = pc, !.job = j, !.batch = S] \in Worker
  BY Zenon DEF Worker

\* Nothing in hand and nothing to clean: between two rounds, or dead.
Between == {"stopped", "recover", "claim", "tail"}

\* A step that ends with nothing in hand, where table and store stay as they are.
LEMMA LetGo ==
  ASSUME ServiceInv, NEW w \in Workers, NEW m \in Worker, m.pc \in Between,
         m.exhausted => HasBudget,
         worker' = [worker EXCEPT ![w] = m], UNCHANGED <<client, asked>>, FaultsCounted,
         UNCHANGED <<repositoryVars, objects>>,
         NothingDies => worker[w].pc \notin Flight
  PROVE  ServiceInv'
<1>1. GoesOn(worker[w], m) /\ m.pc \notin AttemptSteps \cup {"clean", "acknowledge"}
  BY DEF Between, GoesOn, AttemptSteps
<1>. QED
  BY <1>1, StillStep DEF AttemptSteps

LEMMA ForgetKeeps ==
  ASSUME ServiceInv, NEW w \in Workers, NEW pc \in {"recover", "tail"}, Forget(w, pc),
         UNCHANGED <<client, asked>>, FaultsCounted, UNCHANGED <<repositoryVars, objects>>,
         NothingDies => worker[w].pc \notin Flight
  PROVE  ServiceInv'
<1>1. PICK m \in Worker : /\ m.pc \in Between /\ ~m.exhausted
                          /\ worker' = [worker EXCEPT ![w] = m]
  <2>. DEFINE m == [FreshWorker EXCEPT !.pc = pc, !.due = worker[w].due, !.stop = worker[w].stop]
  <2>1. m \in Worker /\ m.pc \in Between /\ ~m.exhausted
    BY LoopRecords DEF FreshWorker, WorkerSteps, Between
  <2>. QED
    BY <2>1 DEF Forget
<1>. QED
  BY <1>1, LetGo

\* Steps between two rounds.
LEMMA IdleKeeps ==
  ASSUME ServiceInv, NEW w \in Workers,
         WorkerIdle(w) \/ Stop(w) \/ Restart(w) \/ CleanupNotDue(w) \/ CleanupDone(w)
         \/ FinishRefused(w)
  PROVE  ServiceInv'
<1>1. FaultsCounted /\ UNCHANGED <<client, asked, repositoryVars, objects>>
  BY FaultCounted
  DEF WorkerIdle, Stop, Restart, CleanupNotDue, CleanupDone, FinishRefused, At
<1>2. worker[w].pc \notin Flight
  BY DEF WorkerIdle, Stop, Restart, CleanupNotDue, CleanupDone, FinishRefused, At, Flight
<1>3. CASE WorkerIdle(w)
  <2>1. [worker[w] EXCEPT !.pc = "tail"] \in Worker
    BY LoopRecords, LoopUpdates DEF WorkerSteps
  <2>2. /\ [worker[w] EXCEPT !.pc = "tail"].pc \in Between
        /\ [worker[w] EXCEPT !.pc = "tail"].exhausted = worker[w].exhausted
    BY LoopRecords DEF Worker, Between
  <2>. QED
    BY <1>1, <1>2, <1>3, <2>1, <2>2, LoopRecords, LetGo DEF WorkerIdle, Goto
<1>4. CASE Stop(w)
  <2>1. [FreshWorker EXCEPT !.pc = "stopped"] \in Worker
    BY LoopRecords, LoopUpdates DEF WorkerSteps
  <2>2. /\ [FreshWorker EXCEPT !.pc = "stopped"].pc \in Between
        /\ ~[FreshWorker EXCEPT !.pc = "stopped"].exhausted
    BY DEF FreshWorker, Between
  <2>. QED
    BY <1>1, <1>2, <1>4, <2>1, <2>2, LetGo DEF Stop
<1>5. CASE Restart(w)
  BY <1>1, <1>2, <1>5, LoopRecords, LetGo DEF Restart, FreshWorker, Between
<1>6. CASE CleanupNotDue(w) \/ CleanupDone(w) \/ FinishRefused(w)
  BY <1>1, <1>2, <1>6, ForgetKeeps DEF CleanupNotDue, CleanupDone, FinishRefused, Raise
<1>. QED
  BY <1>3, <1>4, <1>5, <1>6

\* The heartbeat's refusal is recorded.
LEMMA BeatRefusedKeeps ==
  ASSUME ServiceInv, NEW w \in Workers, worker[w].pc \in AttemptSteps,
         worker' = [worker EXCEPT ![w].lost = TRUE], UNCHANGED <<client, asked>>, FaultsCounted,
         UNCHANGED <<repositoryVars, objects>>
  PROVE  ServiceInv'
<1>1. PICK m \in Worker : /\ m = [worker[w] EXCEPT !.lost = TRUE]
                          /\ worker' = [worker EXCEPT ![w] = m]
  BY LoopRecords, LoopUpdates
<1>2. AttemptOK(w) /\ worker[w] \in Worker /\ (worker[w].exhausted => HasBudget)
  BY LoopRecords DEF ServiceInv
<1>3. /\ m.pc = worker[w].pc /\ m.job = worker[w].job /\ m.token = worker[w].token
      /\ m.exhausted = worker[w].exhausted /\ m.outcome = worker[w].outcome /\ m.lost
  BY <1>1, <1>2 DEF Worker
<1>4. GoesOn(worker[w], m) /\ Learnt(m, m.job)
  BY <1>2, <1>3 DEF GoesOn, Learnt, AttemptOK
<1>5. m.pc \notin {"clean", "acknowledge"}
  BY <1>3 DEF AttemptSteps
<1>. QED
  BY <1>1, <1>2, <1>3, <1>4, <1>5, StillStep


\* The attempt in hand comes to another point before anything of it is stored.
LEMMA ComesTo ==
  ASSUME ServiceInv, NEW w \in Workers, NEW m \in Worker,
         worker[w].pc \in AttemptSteps \ Flight, m.pc \in AttemptSteps \ {"putManifest", "publish"},
         m.job = worker[w].job, m.token = worker[w].token, Learnt(m, m.job),
         m.exhausted => HasBudget,
         worker' = [worker EXCEPT ![w] = m], UNCHANGED <<client, asked>>, FaultsCounted,
         UNCHANGED <<repositoryVars, objects>>
  PROVE  ServiceInv'
<1>1. GoesOn(worker[w], m) /\ m.pc \notin {"clean", "acknowledge", "putManifest", "publish"}
  BY DEF GoesOn, AttemptSteps
<1>. QED
  BY <1>1, StillStep

LEMMA LoadKeeps ==
  ASSUME ServiceInv, NEW w \in Workers, LoadSource(w) \/ LoadFails(w)
  PROVE  ServiceInv'
<1>1. FaultsCounted /\ UNCHANGED <<client, asked, repositoryVars, objects>>
  BY FaultCounted DEF LoadSource, LoadFails, At
<1>2. /\ worker[w].pc = "load" /\ AttemptOK(w) /\ worker[w] \in Worker
      /\ worker[w].exhausted => HasBudget
  BY LoopRecords DEF LoadSource, LoadFails, At, ServiceInv
<1>3. PICK m : /\ worker' = [worker EXCEPT ![w] = m]
               /\ \/ m = [worker[w] EXCEPT !.pc = "convert"]
                  \/ m = [worker[w] EXCEPT !.pc = "resolve", !.outcome = "conversion_failed"]
  <2>1. CASE LoadSource(w)
    BY <2>1 DEF LoadSource
  <2>2. CASE LoadFails(w)
    <3>1. worker' = [worker EXCEPT ![w] =
                        [worker[w] EXCEPT !.pc = "resolve", !.outcome = "conversion_failed"]]
      BY <2>2 DEF LoadFails, ServiceInv, TypesKept
    <3>. QED
      BY <3>1
  <2>. QED
    BY <2>1, <2>2
<1>4. m \in Worker
  <2>1. {"convert", "resolve"} \subseteq WorkerSteps /\ "conversion_failed" \in Outcomes
    BY DEF WorkerSteps, Outcomes, WorkerErrorCodes
  <2>2. [worker[w] EXCEPT !.pc = "convert"] \in Worker
    BY <1>2, <2>1, LoopUpdates
  <2>3. [worker[w] EXCEPT !.pc = "resolve", !.outcome = "conversion_failed"] \in Worker
    BY <1>2, <2>1, LoopUpdates
  <2>. QED
    BY <1>3, <2>2, <2>3, Zenon
<1>5. /\ m.job = worker[w].job /\ m.token = worker[w].token
      /\ \/ m.pc = "convert"
         \/ m.pc = "resolve" /\ m.outcome = "conversion_failed"
      /\ m.exhausted = worker[w].exhausted
  BY <1>2, <1>3 DEF Worker
<1>6. Learnt(m, m.job)
  BY <1>2, <1>5 DEF Learnt, AttemptOK, AttemptSteps
<1>. QED
  BY <1>1, <1>2, <1>3, <1>4, <1>5, <1>6, ComesTo DEF AttemptSteps, Flight

\* A cancellation that the worker reads was asked for.
LEMMA RequestedIsAsked ==
  ASSUME ServiceInv, NEW w \in Workers, worker[w].pc \in AttemptSteps,
         cancellation_requested(worker[w].job, w, worker[w].token)
  PROVE  worker[w].job \in asked
  BY IssuedToken DEF cancellation_requested, ServiceInv, JobOK

LEMMA ConvertKeeps ==
  ASSUME ServiceInv, NEW w \in Workers, Convert(w)
  PROVE  ServiceInv'
<1>1. FaultsCounted /\ UNCHANGED <<client, asked, repositoryVars, objects>>
  BY FaultCounted DEF Convert, At
<1>2. worker[w].pc = "convert" /\ worker[w] \in Worker
  BY LoopRecords DEF Convert, At
<1>3. PICK e \in {FALSE, HasBudget},
           o \in {"result", "cancelled", "lease_lost", "conversion_failed"} :
         /\ o = "cancelled" => Probe(w, e)
         /\ worker' = [worker EXCEPT ![w].pc = "resolve", ![w].exhausted = e, ![w].outcome = o]
  BY DEF Convert
<1>4. PICK m : /\ m = [worker[w] EXCEPT !.pc = "resolve", !.exhausted = e, !.outcome = o]
               /\ worker' = [worker EXCEPT ![w] = m]
  BY <1>3 DEF ServiceInv, TypesKept
<1>5. e \in BOOLEAN /\ (e => HasBudget)
  <2>1. HasBudget \in BOOLEAN
    BY ServiceAssumption, Zenon
  <2>2. CASE e = FALSE
    BY <2>2
  <2>3. CASE e = HasBudget
    BY <2>1, <2>3, Zenon
  <2>. QED
    BY <2>2, <2>3
<1>6. m \in Worker
  <2>1. "resolve" \in WorkerSteps /\ o \in Outcomes
    BY DEF WorkerSteps, Outcomes, WorkerErrorCodes
  <2>. QED
    BY <1>2, <1>4, <1>5, <2>1, LoopUpdates
<1>7. /\ m.pc = "resolve" /\ m.job = worker[w].job /\ m.token = worker[w].token
      /\ m.exhausted = e /\ m.outcome = o /\ m.lost = worker[w].lost /\ m.stop = worker[w].stop
  BY <1>2, <1>4 DEF Worker
<1>8. Learnt(m, m.job)
  BY <1>2, <1>3, <1>5, <1>7, RequestedIsAsked DEF Learnt, Probe, AttemptSteps
<1>9. m.exhausted => HasBudget
  BY <1>5, <1>7, Zenon
<1>. QED
  BY <1>1, <1>2, <1>4, <1>6, <1>7, <1>8, <1>9, ComesTo DEF AttemptSteps, Flight

\* The verdict "cancelled" means that somebody asked.
LEMMA VerdictAsked ==
  ASSUME ServiceInv, NEW w \in Workers, worker[w].pc = "resolve",
         NEW e \in {worker[w].exhausted, HasBudget}, Verdict(w, e) = "cancelled"
  PROVE  worker[w].job \in asked
<1>1. worker[w].job \in asked \/ cancellation_requested(worker[w].job, w, worker[w].token)
  BY DEF Verdict, ServiceInv, TypesKept, AttemptOK, AttemptSteps
<1>. QED
  BY <1>1, RequestedIsAsked DEF AttemptSteps

LEMMA ResolveKeeps ==
  ASSUME ServiceInv, NEW w \in Workers, Resolve(w)
  PROVE  ServiceInv'
<1>1. FaultsCounted /\ UNCHANGED <<client, asked, repositoryVars, objects>>
  BY FaultCounted DEF Resolve, At
<1>2. /\ worker[w].pc = "resolve" /\ AttemptOK(w) /\ worker[w] \in Worker
      /\ worker[w].exhausted => HasBudget
  BY LoopRecords DEF Resolve, At, ServiceInv
<1>3. PICK e \in {worker[w].exhausted, HasBudget} :
         \/ Verdict(w, e) = "raise" /\ Raise(w)
         \/ Verdict(w, e) = "release" /\ Forget(w, "tail")
         \/ Verdict(w, e) = "result" /\ Goto(w, "putResult")
         \/ /\ Verdict(w, e) \in {"cancelled"} \cup WorkerErrorCodes
            /\ worker' = [worker EXCEPT ![w].pc = "finish", ![w].outcome = Verdict(w, e)]
  BY DEF Resolve
<1>4. CASE Forget(w, "recover") \/ Forget(w, "tail")
  BY <1>1, <1>2, <1>4, ForgetKeeps DEF Flight
<1>5. CASE Goto(w, "putResult")
  <2>1. PICK m : m = [worker[w] EXCEPT !.pc = "putResult"] /\ worker' = [worker EXCEPT ![w] = m]
    BY <1>5 DEF Goto
  <2>2. m \in Worker
    BY <1>2, <2>1, LoopUpdates DEF WorkerSteps
  <2>3. /\ m.pc = "putResult" /\ m.job = worker[w].job /\ m.token = worker[w].token
        /\ m.exhausted = worker[w].exhausted
    BY <1>2, <2>1 DEF Worker
  <2>4. Learnt(m, m.job)
    BY <1>2, <2>3 DEF Learnt, AttemptOK, AttemptSteps
  <2>. QED
    BY <1>1, <1>2, <2>1, <2>2, <2>3, <2>4, ComesTo DEF AttemptSteps, Flight
<1>6. ASSUME NEW o \in {"cancelled"} \cup WorkerErrorCodes, Verdict(w, e) = o,
             worker' = [worker EXCEPT ![w].pc = "finish", ![w].outcome = o]
      PROVE  ServiceInv'
  <2>1. PICK m : /\ m = [worker[w] EXCEPT !.pc = "finish", !.outcome = o]
                 /\ worker' = [worker EXCEPT ![w] = m]
    BY <1>6 DEF ServiceInv, TypesKept
  <2>2. m \in Worker
    <3>1. "finish" \in WorkerSteps /\ o \in Outcomes
      BY DEF WorkerSteps, Outcomes
    <3>. QED
      BY <1>2, <2>1, <3>1, LoopUpdates
  <2>3. /\ m.pc = "finish" /\ m.job = worker[w].job /\ m.token = worker[w].token
        /\ m.exhausted = worker[w].exhausted /\ m.outcome = o
    BY <1>2, <2>1 DEF Worker
  <2>4. Learnt(m, m.job)
    BY <1>2, <1>6, <2>3, VerdictAsked DEF Learnt, AttemptOK, AttemptSteps
  <2>. QED
    BY <1>1, <1>2, <2>1, <2>2, <2>3, <2>4, ComesTo DEF AttemptSteps, Flight
<1>. QED
  BY <1>3, <1>4, <1>5, <1>6 DEF Raise


\* The publication turns to its compensation.
LEMMA ToUndo ==
  ASSUME ServiceInv, NEW w \in Workers, worker[w].pc \in {"putResult", "putManifest", "publish"},
         Goto(w, "undo")
  PROVE  \E m \in Worker :
            /\ worker' = [worker EXCEPT ![w] = m]
            /\ m.pc = "undo" /\ m.job = worker[w].job /\ m.token = worker[w].token
            /\ Learnt(m, m.job) /\ GoesOn(worker[w], m) /\ (m.exhausted => HasBudget)
<1>1. worker[w] \in Worker /\ AttemptOK(w) /\ (worker[w].exhausted => HasBudget)
  BY LoopRecords DEF ServiceInv
<1>2. PICK m : m = [worker[w] EXCEPT !.pc = "undo"] /\ worker' = [worker EXCEPT ![w] = m]
  BY DEF Goto
<1>3. m \in Worker
  BY <1>1, <1>2, LoopUpdates DEF WorkerSteps
<1>4. /\ m.pc = "undo" /\ m.job = worker[w].job /\ m.token = worker[w].token
      /\ m.exhausted = worker[w].exhausted
  BY <1>1, <1>2 DEF Worker
<1>5. Learnt(m, m.job) /\ GoesOn(worker[w], m)
  BY <1>1, <1>4 DEF Learnt, GoesOn, AttemptOK, AttemptSteps, Flight
<1>. QED
  BY <1>1, <1>2, <1>3, <1>4, <1>5

\* The publication is refused or its transaction fails.
LEMMA TurnsBack ==
  ASSUME ServiceInv, NEW w \in Workers, worker[w].pc = "publish", Goto(w, "undo"),
         UNCHANGED <<client, asked>>, FaultsCounted, UNCHANGED <<repositoryVars, objects>>
  PROVE  ServiceInv'
<1>1. PICK m \in Worker :
            /\ worker' = [worker EXCEPT ![w] = m]
            /\ m.pc = "undo" /\ m.job = worker[w].job /\ m.token = worker[w].token
            /\ Learnt(m, m.job) /\ GoesOn(worker[w], m) /\ (m.exhausted => HasBudget)
  BY ToUndo
<1>. QED
  BY <1>1, StillStep

LEMMA TransactionFailsKeeps ==
  ASSUME ServiceInv, NEW w \in Workers, TransactionFails(w)
  PROVE  ServiceInv'
<1>1. FaultsCounted /\ UNCHANGED <<client, asked, repositoryVars, objects>>
  BY FaultCounted DEF TransactionFails, At
<1>2. worker[w] \in Worker /\ AttemptOK(w) /\ (worker[w].exhausted => HasBudget)
  BY LoopRecords DEF ServiceInv
<1>3. CASE worker[w].pc \in Beating /\ worker' = [worker EXCEPT ![w].lost = TRUE]
  BY <1>1, <1>3, BeatRefusedKeeps DEF Beating, AttemptSteps
<1>4. CASE /\ worker[w].pc = "convert"
           /\ worker' = [worker EXCEPT ![w].pc = "resolve", ![w].outcome = "repository_error"]
  <2>1. PICK m : /\ m = [worker[w] EXCEPT !.pc = "resolve", !.outcome = "repository_error"]
                 /\ worker' = [worker EXCEPT ![w] = m]
    BY <1>4 DEF ServiceInv, TypesKept
  <2>2. m \in Worker
    <3>1. "resolve" \in WorkerSteps /\ "repository_error" \in Outcomes
      BY DEF WorkerSteps, Outcomes
    <3>. QED
      BY <1>2, <2>1, <3>1, LoopUpdates
  <2>3. /\ m.pc = "resolve" /\ m.job = worker[w].job /\ m.token = worker[w].token
        /\ m.exhausted = worker[w].exhausted /\ m.outcome = "repository_error"
    BY <1>2, <2>1 DEF Worker
  <2>4. Learnt(m, m.job)
    BY <1>2, <1>4, <2>3 DEF Learnt, AttemptOK, AttemptSteps
  <2>. QED
    BY <1>1, <1>2, <1>4, <2>1, <2>2, <2>3, <2>4, ComesTo DEF AttemptSteps, Flight
<1>5. CASE worker[w].pc \in {"claim", "resolve", "finish", "acknowledge"} /\ Raise(w)
  BY <1>1, <1>5, ForgetKeeps DEF Raise, Flight
<1>6. CASE worker[w].pc = "publish" /\ Goto(w, "undo")
  BY <1>1, <1>6, TurnsBack
<1>7. CASE worker[w].pc = "tail" /\ worker' = [worker EXCEPT ![w].pc = "recover", ![w].due = FALSE]
  <2>1. PICK m : /\ m = [worker[w] EXCEPT !.pc = "recover", !.due = FALSE]
                 /\ worker' = [worker EXCEPT ![w] = m]
    BY <1>7 DEF ServiceInv, TypesKept
  <2>2. m \in Worker
    BY <1>2, <2>1, LoopUpdates DEF WorkerSteps
  <2>3. m.pc \in Between /\ m.exhausted = worker[w].exhausted
    BY <1>2, <2>1 DEF Worker, Between
  <2>. QED
    BY <1>1, <1>2, <1>7, <2>1, <2>2, <2>3, LetGo DEF Flight
<1>. QED
  BY <1>3, <1>4, <1>5, <1>6, <1>7 DEF TransactionFails

\* The process dies; it leaves what it has stored.
LEMMA CrashKeeps ==
  ASSUME ServiceInv, NEW w \in Workers, Crash(w)
  PROVE  ServiceInv'
<1>1. FaultsCounted /\ UNCHANGED <<client, asked, repositoryVars, objects>>
  BY FaultCounted DEF Crash, At
<1>2. [FreshWorker EXCEPT !.pc = "stopped"] \in Worker
  BY LoopRecords, LoopUpdates DEF WorkerSteps
<1>3. /\ [FreshWorker EXCEPT !.pc = "stopped"].pc \in Between
      /\ ~[FreshWorker EXCEPT !.pc = "stopped"].exhausted
  BY DEF FreshWorker, Between
<1>4. ~NothingDies
  BY DEF Crash, Fault, NothingDies
<1>. QED
  BY <1>1, <1>2, <1>3, <1>4, LetGo DEF Crash

LEMMA StopSignalKeeps ==
  ASSUME ServiceInv, NEW w \in Workers, StopSignal(w)
  PROVE  ServiceInv'
<1>1. FaultsCounted /\ UNCHANGED <<client, asked, repositoryVars, objects>>
  BY FaultCounted DEF StopSignal, At
<1>2. worker[w] \in Worker /\ AttemptOK(w) /\ (worker[w].exhausted => HasBudget)
  BY LoopRecords DEF ServiceInv
<1>3. PICK m : m = [worker[w] EXCEPT !.stop = TRUE] /\ worker' = [worker EXCEPT ![w] = m]
  BY DEF StopSignal
<1>4. m \in Worker
  BY <1>2, <1>3, LoopUpdates
<1>5. /\ m.pc = worker[w].pc /\ m.job = worker[w].job /\ m.token = worker[w].token
      /\ m.exhausted = worker[w].exhausted /\ m.outcome = worker[w].outcome
      /\ m.lost = worker[w].lost /\ m.batch = worker[w].batch /\ m.stop
  BY <1>2, <1>3 DEF Worker
<1>6. GoesOn(worker[w], m) /\ (m.pc \in AttemptSteps => Learnt(m, m.job))
  BY <1>2, <1>5 DEF GoesOn, Learnt, AttemptOK
<1>. QED
  BY <1>1, <1>2, <1>3, <1>4, <1>5, <1>6, StillStep

LEMMA FencedOutKeeps ==
  ASSUME ServiceInv, NEW w \in Workers, CleanupFencedOut(w)
  PROVE  ServiceInv'
<1>1. FaultsCounted /\ UNCHANGED <<client, asked, repositoryVars, objects>>
  BY FaultCounted DEF CleanupFencedOut, At
<1>2. /\ worker[w].pc = "acknowledge" /\ worker[w] \in Worker
      /\ worker[w].exhausted => HasBudget
  BY LoopRecords DEF CleanupFencedOut, At
<1>3. PICK m : /\ m = [worker[w] EXCEPT !.pc = "clean", !.job = NULL,
                                        !.batch = @ \ {worker[w].job}]
               /\ worker' = [worker EXCEPT ![w] = m]
  BY DEF CleanupFencedOut, AcknowledgedBatch, ServiceInv, TypesKept
<1>4. /\ m \in Worker /\ m.pc = "clean" /\ m.batch \subseteq worker[w].batch
      /\ m.exhausted = worker[w].exhausted
  BY <1>2, <1>3 DEF Worker, WorkerSteps
<1>5. GoesOn(worker[w], m) /\ m.pc \notin AttemptSteps \cup {"putManifest", "publish", "acknowledge"}
  BY <1>2, <1>4 DEF GoesOn, AttemptSteps, Flight
<1>. QED
  BY <1>1, <1>2, <1>3, <1>4, <1>5, StillStep


----------------------------------------------------------------------------
(* Steps of a worker that change the table or the store.                   *)

\* A step after which nothing is in hand, whatever it did to the table and the store.
LEMMA EndsRound ==
  ASSUME ServiceInv, NEW w \in Workers, NEW m \in Worker, m.pc \in Between,
         m.exhausted => HasBudget,
         worker' = [worker EXCEPT ![w] = m], UNCHANGED <<client, asked>>, FaultsCounted,
         TableMoves(w), ObjectsMoves(w), AttemptMoves(w)
  PROVE  ServiceInv'
<1>1. worker'[w] = m
  BY DEF ServiceInv, TypesKept
<1>2. AttemptOK(w)' /\ CleanerOK(w)'
  BY <1>1 DEF AttemptOK, CleanerOK, Between, AttemptSteps
<1>. QED
  BY <1>2, WorkerBecomes

\* Forgetting ends a round; what was stored is published, gone, or not the cleanup's.
LEMMA ForgetEnds ==
  ASSUME ServiceInv, NEW w \in Workers, NEW pc \in {"recover", "tail"}, Forget(w, pc),
         UNCHANGED <<client, asked>>, FaultsCounted, TableMoves(w), ObjectsMoves(w),
         NothingDies /\ worker[w].pc \in Flight =>
            \/ AttemptKeys(worker[w].job, worker[w].token) \cap objects' = {}
            \/ ~IsExpired(worker[w].job)
  PROVE  ServiceInv'
<1>1. PICK m \in Worker : /\ m.pc \in Between /\ ~m.exhausted
                          /\ worker' = [worker EXCEPT ![w] = m]
  <2>. DEFINE m == [FreshWorker EXCEPT !.pc = pc, !.due = worker[w].due, !.stop = worker[w].stop]
  <2>1. m \in Worker /\ m.pc \in Between /\ ~m.exhausted
    BY LoopRecords DEF FreshWorker, WorkerSteps, Between
  <2>. QED
    BY <2>1 DEF Forget
<1>2. worker'[w].pc \notin AttemptSteps
  BY <1>1 DEF ServiceInv, TypesKept, Between, AttemptSteps
<1>3. AttemptMoves(w)
  BY <1>2 DEF AttemptMoves, Mover, Flies
<1>. QED
  BY <1>1, <1>3, EndsRound

LEMMA RecoverKeeps ==
  ASSUME ServiceInv, NEW w \in Workers, WorkerRecover(w)
  PROVE  ServiceInv'
<1>1. FaultsCounted /\ UNCHANGED <<client, asked, objects>> /\ worker[w].pc = "recover"
  BY FaultCounted DEF WorkerRecover, At
<1>2. TableMoves(w) /\ ObjectsMoves(w)
  BY <1>1, RecoverMoves, ObjectsStill DEF WorkerRecover
<1>3. PICK m : m = [worker[w] EXCEPT !.pc = "claim"] /\ worker' = [worker EXCEPT ![w] = m]
  BY DEF WorkerRecover, Goto
<1>4. m \in Worker /\ m.pc \in Between /\ m.exhausted = worker[w].exhausted
  <2>1. m \in Worker
    BY <1>3, LoopRecords, LoopUpdates DEF WorkerSteps
  <2>2. m.pc \in Between /\ m.exhausted = worker[w].exhausted
    BY <1>3, LoopRecords DEF Worker, Between
  <2>. QED
    BY <2>1, <2>2
<1>5. AttemptMoves(w)
  <2>1. worker'[w] = m
    BY <1>3 DEF ServiceInv, TypesKept
  <2>2. GoesOn(worker[w], m)
    BY <1>1, <1>4 DEF GoesOn, Between, AttemptSteps, Flight
  <2>. QED
    BY <2>1, <2>2, GoingOn
<1>. QED
  BY <1>1, <1>2, <1>3, <1>4, <1>5, LoopRecords, EndsRound

LEMMA ClaimKeeps ==
  ASSUME ServiceInv, NEW w \in Workers, WorkerClaim(w)
  PROVE  ServiceInv'
<1>1. FaultsCounted /\ UNCHANGED <<client, asked, objects>> /\ worker[w].pc = "claim"
  BY FaultCounted DEF WorkerClaim, At
<1>2. PICK j \in Jobs, t \in Readings :
         /\ claim(w, j, t)
         /\ worker' = [worker EXCEPT ![w].pc = "load", ![w].job = j,
                                     ![w].token = rows[j].attempt + 1]
  BY DEF WorkerClaim
<1>3. /\ TableMoves(w) /\ ObjectsMoves(w)
      /\ rows'[j].state = "running" /\ rows'[j].attempt = rows[j].attempt + 1
      /\ rows[j].attempt \in Nat
  BY <1>1, <1>2, ClaimMoves, ObjectsStill DEF ServiceInv, RowsInv, GoodRow, Row
<1>4. PICK m : /\ m = [worker[w] EXCEPT !.pc = "load", !.job = j, !.token = rows[j].attempt + 1]
               /\ worker' = [worker EXCEPT ![w] = m]
  BY <1>2 DEF ServiceInv, TypesKept
<1>5. m \in Worker
  <2>1. "load" \in WorkerSteps /\ rows[j].attempt + 1 \in Nat /\ j \in Jobs \cup {NULL}
    BY <1>3 DEF WorkerSteps
  <2>. QED
    BY <1>4, <2>1, LoopRecords, LoopUpdates
<1>6. /\ m.pc = "load" /\ m.job = j /\ m.token = rows[j].attempt + 1
      /\ m.exhausted = worker[w].exhausted
  BY <1>4, LoopRecords DEF Worker
<1>7. worker'[w] = m
  BY <1>4 DEF ServiceInv, TypesKept
<1>8. AttemptMoves(w)
  BY <1>1, <1>3, <1>6, <1>7 DEF AttemptMoves, Mover, Flies, Flight
<1>9. AttemptOK(w)' /\ CleanerOK(w)'
  BY <1>3, <1>6, <1>7 DEF AttemptOK, CleanerOK
<1>. QED
  BY <1>1, <1>3, <1>4, <1>5, <1>6, <1>8, <1>9, LoopRecords, WorkerBecomes

\* The worker itself as its own row moves under it, with the attempt still in hand.
LEMMA StillInHand ==
  ASSUME ServiceInv, NEW w \in Workers, NEW m, worker'[w] = m, UNCHANGED <<objects, asked>>,
         worker[w].pc \in AttemptSteps, m.pc \in AttemptSteps,
         m.job = worker[w].job, m.token = worker[w].token, Learnt(m, m.job),
         m.pc \in {"putManifest", "publish"} => m.pc = worker[w].pc,
         RowsStep, rows'[m.job].attempt = rows[m.job].attempt, ~IsExpired(m.job),
         rows'[m.job].state = "succeeded" => ~Unambiguous
  PROVE  AttemptOK(w)' /\ CleanerOK(w)'
<1>1. AttemptOK(w)
  BY DEF ServiceInv
<1>. QED
  BY <1>1 DEF AttemptOK, CleanerOK, Learnt, AttemptSteps

LEMMA BeatKeeps ==
  ASSUME ServiceInv, NEW w \in Workers, Beat(w)
  PROVE  ServiceInv'
<1>1. /\ FaultsCounted /\ UNCHANGED <<client, asked, objects, worker>>
      /\ worker[w].pc \in AttemptSteps
  BY FaultCounted DEF Beat, At, Beating, AttemptSteps
<1>2. PICK t \in Readings : heartbeat(worker[w].job, w, worker[w].token, t)
  BY DEF Beat, MyReadings
<1>3. /\ TableMoves(w) /\ ObjectsMoves(w)
      /\ rows'[worker[w].job].state = "running"
      /\ rows'[worker[w].job].attempt = rows[worker[w].job].attempt
  BY <1>1, <1>2, HeartbeatMoves, ObjectsStill
<1>4. worker[w] \in Worker /\ worker' = [worker EXCEPT ![w] = worker[w]]
  BY <1>1 DEF ServiceInv, TypesKept
<1>5. AttemptOK(w) /\ Learnt(worker[w], worker[w].job)
  BY <1>1 DEF ServiceInv, AttemptOK, Learnt
<1>6. AttemptMoves(w)
  BY <1>1, GoingOn DEF GoesOn
<1>7. ~IsExpired(worker[w].job)
  BY <1>2 DEF heartbeat, HeartbeatAccepted, LiveLease, _owned_lease, IsExpired
<1>8. AttemptOK(w)' /\ CleanerOK(w)'
  <2>. PICK m : m = worker[w] /\ worker'[w] = m
    BY <1>1
  <2>1. m.pc \in AttemptSteps /\ m.job = worker[w].job /\ m.token = worker[w].token
        /\ Learnt(m, m.job) /\ RowsStep
    BY <1>1, <1>3, <1>5 DEF TableMoves
  <2>. QED
    BY <1>1, <1>3, <1>7, <2>1, StillInHand
<1>. QED
  BY <1>1, <1>3, <1>4, <1>6, <1>8, LoopRecords, WorkerBecomes

LEMMA FinishKeeps ==
  ASSUME ServiceInv, NEW w \in Workers, Finish(w)
  PROVE  ServiceInv'
<1>1. FaultsCounted /\ UNCHANGED <<client, asked, objects>> /\ worker[w].pc = "finish"
  BY FaultCounted DEF Finish, At
<1>2. TableMoves(w) /\ ObjectsMoves(w)
  BY <1>1, FinishMoves, ObjectsStill DEF Finish
<1>. QED
  BY <1>1, <1>2, ForgetEnds DEF Finish, Flight


\* A step of the publication that stores objects of the attempt.
LEMMA StoresAndGoesOn ==
  ASSUME ServiceInv, NEW w \in Workers, NEW m \in Worker,
         worker[w].pc \in {"putResult", "putManifest"}, m.pc \in Flight,
         m.job = worker[w].job, m.token = worker[w].token, m.exhausted => HasBudget,
         worker' = [worker EXCEPT ![w] = m], UNCHANGED <<client, asked, repositoryVars>>,
         FaultsCounted,
         NEW o \in AttemptKeys(worker[w].job, worker[w].token),
         objects' \in {objects, objects \cup {o}},
         m.pc = "putManifest" =>
            m.job \in Manifested /\ ResultKey(m.job, m.token) \in objects',
         m.pc = "publish" => AttemptKeys(m.job, m.token) \subseteq objects' \/ IsExpired(m.job)
  PROVE  ServiceInv'
<1>1. worker'[w] = m /\ rows' = rows
  BY DEF ServiceInv, TypesKept, repositoryVars
<1>2. TableMoves(w) /\ ObjectsMoves(w)
  BY TableStill, PutMoves
<1>3. GoesOn(worker[w], m)
  BY DEF GoesOn, Flight, AttemptSteps
<1>4. AttemptMoves(w)
  BY <1>1, <1>3, GoingOn
<1>5. AttemptOK(w)
  BY DEF ServiceInv
<1>6. AttemptOK(w)' /\ CleanerOK(w)'
  BY <1>1, <1>5 DEF AttemptOK, CleanerOK, IsExpired, Flight, AttemptSteps
<1>. QED
  BY <1>2, <1>4, <1>6, WorkerBecomes

LEMMA PutResultKeeps ==
  ASSUME ServiceInv, NEW w \in Workers, PutResult(w)
  PROVE  ServiceInv'
<1>1. /\ FaultsCounted /\ UNCHANGED <<client, asked, repositoryVars>>
      /\ worker[w].pc = "putResult"
      /\ objects' = objects \cup {ResultKey(worker[w].job, worker[w].token)}
  BY FaultCounted DEF PutResult, At
<1>2. PICK pc : /\ pc = IF worker[w].job \in Manifested THEN "putManifest" ELSE "publish"
                /\ Goto(w, pc)
  BY DEF PutResult
<1>3. PICK m : m = [worker[w] EXCEPT !.pc = pc] /\ worker' = [worker EXCEPT ![w] = m]
  BY <1>2 DEF Goto
<1>4. m \in Worker
  BY <1>2, <1>3, LoopRecords, LoopUpdates DEF WorkerSteps
<1>5. /\ m.pc = pc /\ m.job = worker[w].job /\ m.token = worker[w].token
      /\ m.exhausted = worker[w].exhausted
  BY <1>3, LoopRecords DEF Worker
<1>6. ResultKey(worker[w].job, worker[w].token) \in AttemptKeys(worker[w].job, worker[w].token)
  BY DEF AttemptKeys
<1>7. m.pc = "publish" => AttemptKeys(m.job, m.token) \subseteq objects'
  BY <1>1, <1>2, <1>5 DEF AttemptKeys
<1>8. m.pc \in Flight
  BY <1>2, <1>5 DEF Flight
<1>9. m.pc = "putManifest" =>
         m.job \in Manifested /\ ResultKey(m.job, m.token) \in objects'
  BY <1>1, <1>2, <1>5
<1>. QED
  BY <1>1, <1>3, <1>4, <1>5, <1>6, <1>7, <1>8, <1>9, LoopRecords, StoresAndGoesOn

LEMMA PutManifestKeeps ==
  ASSUME ServiceInv, NEW w \in Workers, PutManifest(w)
  PROVE  ServiceInv'
<1>1. /\ FaultsCounted /\ UNCHANGED <<client, asked, repositoryVars>>
      /\ worker[w].pc = "putManifest"
      /\ objects' = objects \cup {ManifestKey(worker[w].job, worker[w].token)}
  BY FaultCounted DEF PutManifest, At
<1>2. PICK m : m = [worker[w] EXCEPT !.pc = "publish"] /\ worker' = [worker EXCEPT ![w] = m]
  BY DEF PutManifest, Goto
<1>3. m \in Worker
  BY <1>2, LoopRecords, LoopUpdates DEF WorkerSteps
<1>4. /\ m.pc = "publish" /\ m.job = worker[w].job /\ m.token = worker[w].token
      /\ m.exhausted = worker[w].exhausted
  BY <1>2, LoopRecords DEF Worker
<1>5. /\ worker[w].job \in Manifested
      /\ ResultKey(worker[w].job, worker[w].token) \in objects \/ IsExpired(worker[w].job)
  BY <1>1 DEF ServiceInv, AttemptOK, AttemptSteps
<1>6. AttemptKeys(m.job, m.token) \subseteq objects' \/ IsExpired(m.job)
  BY <1>1, <1>4, <1>5 DEF AttemptKeys
<1>7. PICK o \in AttemptKeys(worker[w].job, worker[w].token) : objects' \in {objects, objects \cup {o}}
  BY <1>1, <1>5 DEF AttemptKeys
<1>. QED
  BY <1>1, <1>2, <1>3, <1>4, <1>6, <1>7, LoopRecords, StoresAndGoesOn DEF Flight


LEMMA PutFailsKeeps ==
  ASSUME ServiceInv, NEW w \in Workers, PutFails(w)
  PROVE  ServiceInv'
<1>1. /\ FaultsCounted /\ UNCHANGED <<client, asked, repositoryVars>>
      /\ worker[w].pc \in {"putResult", "putManifest"}
      /\ Goto(w, "undo")
  BY FaultCounted DEF PutFails, At
<1>2. PICK o \in AttemptKeys(worker[w].job, worker[w].token) : objects' \in {objects, objects \cup {o}}
  <2>1. ResultKey(worker[w].job, worker[w].token) \in AttemptKeys(worker[w].job, worker[w].token)
    BY DEF AttemptKeys
  <2>2. worker[w].pc = "putManifest" =>
           ManifestKey(worker[w].job, worker[w].token) \in AttemptKeys(worker[w].job, worker[w].token)
    BY DEF AttemptKeys, ServiceInv, AttemptOK, AttemptSteps
  <2>. QED
    BY <1>1, <2>1, <2>2 DEF PutFails
<1>3. PICK m \in Worker :
            /\ worker' = [worker EXCEPT ![w] = m]
            /\ m.pc = "undo" /\ m.job = worker[w].job /\ m.token = worker[w].token
            /\ Learnt(m, m.job) /\ GoesOn(worker[w], m) /\ (m.exhausted => HasBudget)
  BY <1>1, ToUndo
<1>. QED
  BY <1>1, <1>2, <1>3, StoresAndGoesOn DEF Flight

\* While the lease is live, the job is not expired.
LEMMA SucceedIsLive ==
  ASSUME NEW w, NEW t, succeed(worker[w].job, w, worker[w].token, t)
  PROVE  ~IsExpired(worker[w].job)
  BY DEF succeed, _finish_owned, LiveLease, _owned_lease, IsExpired

LEMMA PublishKeeps ==
  ASSUME ServiceInv, NEW w \in Workers, Publish(w)
  PROVE  ServiceInv'
<1>1. FaultsCounted /\ UNCHANGED <<client, asked, objects>> /\ worker[w].pc = "publish"
  BY FaultCounted DEF Publish, At
<1>2. PICK t \in Readings : succeed(worker[w].job, w, worker[w].token, t)
  BY DEF Publish
<1>3. ~IsExpired(worker[w].job) /\ ObjectsMoves(w)
  BY <1>1, <1>2, SucceedIsLive, ObjectsStill
<1>4. CASE rows[worker[w].job].cancel_requested
  <2>1. PICK m : m = [worker[w] EXCEPT !.pc = "discard"] /\ worker' = [worker EXCEPT ![w] = m]
    BY <1>4 DEF Publish, Goto
  <2>2. m \in Worker /\ worker'[w] = m
    BY <2>1, LoopRecords, LoopUpdates DEF WorkerSteps, ServiceInv, TypesKept
  <2>3. /\ m.pc = "discard" /\ m.job = worker[w].job /\ m.token = worker[w].token
        /\ m.exhausted = worker[w].exhausted
    BY <2>1, LoopRecords DEF Worker
  <2>4. /\ TableMoves(w)
        /\ rows'[worker[w].job].attempt = rows[worker[w].job].attempt
        /\ rows'[worker[w].job].state = "cancelled"
    BY <1>1, <1>2, <1>4, SucceedMoves
  <2>5. GoesOn(worker[w], m) /\ Learnt(m, m.job)
    BY <1>1, <2>3 DEF GoesOn, Learnt, AttemptSteps, Flight
  <2>6. AttemptMoves(w)
    BY <2>2, <2>5, GoingOn
  <2>7. worker[w].pc \in AttemptSteps /\ m.pc \in AttemptSteps /\ RowsStep
    BY <1>1, <2>3, <2>4 DEF AttemptSteps, TableMoves
  <2>8. AttemptOK(w)' /\ CleanerOK(w)'
    BY <1>1, <1>3, <2>2, <2>3, <2>4, <2>5, <2>7, StillInHand
  <2>. QED
    BY <1>1, <1>3, <2>1, <2>2, <2>3, <2>4, <2>6, <2>8, LoopRecords, WorkerBecomes
<1>5. CASE ~rows[worker[w].job].cancel_requested
  <2>1. Forget(w, "tail")
    BY <1>5 DEF Publish
  <2>2. worker'[w].pc = "tail"
    BY <2>1 DEF Forget, FreshWorker, ServiceInv, TypesKept
  <2>3. TableMoves(w)
    BY <1>1, <1>2, <2>2, SucceedMoves DEF AttemptSteps
  <2>. QED
    BY <1>1, <1>3, <2>1, <2>3, ForgetEnds
<1>. QED
  BY <1>4, <1>5

LEMMA CommitAmbiguousKeeps ==
  ASSUME ServiceInv, NEW w \in Workers, CommitAmbiguous(w)
  PROVE  ServiceInv'
<1>1. /\ FaultsCounted /\ UNCHANGED <<client, asked, objects>> /\ worker[w].pc = "publish"
      /\ ~Unambiguous
  BY FaultCounted DEF CommitAmbiguous, At, Fault, Unambiguous
<1>2. PICK t \in Readings : succeed(worker[w].job, w, worker[w].token, t)
  BY DEF CommitAmbiguous
<1>3. ~IsExpired(worker[w].job) /\ ObjectsMoves(w)
  BY <1>1, <1>2, SucceedIsLive, ObjectsStill
<1>4. TableMoves(w) /\ rows'[worker[w].job].attempt = rows[worker[w].job].attempt
  BY <1>1, <1>2, SucceedMoves
<1>5. PICK m \in Worker :
            /\ worker' = [worker EXCEPT ![w] = m]
            /\ m.pc = "undo" /\ m.job = worker[w].job /\ m.token = worker[w].token
            /\ Learnt(m, m.job) /\ GoesOn(worker[w], m) /\ (m.exhausted => HasBudget)
  BY <1>1, ToUndo DEF CommitAmbiguous
<1>6. worker'[w] = m
  BY <1>5 DEF ServiceInv, TypesKept
<1>7. AttemptMoves(w)
  BY <1>5, <1>6, GoingOn
<1>8. worker[w].pc \in AttemptSteps /\ m.pc \in AttemptSteps /\ RowsStep
  BY <1>1, <1>4, <1>5 DEF AttemptSteps, TableMoves
<1>9. AttemptOK(w)' /\ CleanerOK(w)'
  BY <1>1, <1>3, <1>4, <1>5, <1>6, <1>8, StillInHand
<1>. QED
  BY <1>1, <1>3, <1>4, <1>5, <1>7, <1>9, WorkerBecomes

LEMMA CompensateKeeps ==
  ASSUME ServiceInv, NEW w \in Workers, Compensate(w)
  PROVE  ServiceInv'
<1>1. /\ FaultsCounted /\ UNCHANGED <<client, asked, repositoryVars>>
      /\ worker[w].pc \in {"undo", "discard"}
      /\ objects' = objects \ MyKeys(w)
  BY FaultCounted DEF Compensate, At
<1>2. TableMoves(w) /\ ObjectsMoves(w)
  BY <1>1, TableStill, CompensateMoves
<1>3. AttemptKeys(worker[w].job, worker[w].token) \cap objects' = {}
  BY <1>1 DEF MyKeys
<1>4. Forget(w, "recover") \/ Forget(w, "tail")
  BY DEF Compensate
<1>. QED
  BY <1>1, <1>2, <1>3, <1>4, ForgetEnds

LEMMA DeleteFailsKeeps ==
  ASSUME ServiceInv, NEW w \in Workers, DeleteFails(w)
  PROVE  ServiceInv'
<1>1. /\ FaultsCounted /\ UNCHANGED <<client, asked, repositoryVars>>
      /\ Forget(w, "recover") /\ ~NothingDies
  BY FaultCounted DEF DeleteFails, At, Raise, Fault, NothingDies
<1>2. CASE /\ worker[w].pc \in {"undo", "discard"}
           /\ \E gone \in SUBSET MyKeys(w) : objects' = objects \ gone
  BY <1>1, <1>2, TableStill, CompensateMoves, ForgetEnds
<1>3. CASE /\ worker[w].pc = "clean"
           /\ \E j \in worker[w].batch :
              \E gone \in SUBSET JobKeys(j) : objects' = objects \ gone
  <2>1. PICK j \in worker[w].batch : \E gone \in SUBSET JobKeys(j) : objects' = objects \ gone
    BY <1>3
  <2>2. j \in Jobs /\ IsExpired(j)
    BY <1>3, LoopRecords DEF Worker, ServiceInv, CleanerOK
  <2>. QED
    BY <1>1, <2>1, <2>2, TableStill, CleanMoves, ForgetEnds
<1>. QED
  BY <1>2, <1>3 DEF DeleteFails, At


\* A step of the cleanup keeps to its claims.
LEMMA CleansOn ==
  ASSUME ServiceInv, NEW w \in Workers, NEW m \in Worker, m.pc \in {"clean", "acknowledge"},
         worker[w].pc \notin Flight, m.exhausted => HasBudget,
         worker' = [worker EXCEPT ![w] = m], UNCHANGED <<client, asked>>, FaultsCounted,
         TableMoves(w), ObjectsMoves(w),
         \A j \in m.batch : IsExpired(j)',
         m.pc = "acknowledge" => m.job \in Jobs /\ IsExpired(m.job)' /\ Left(m.job)'
  PROVE  ServiceInv'
<1>1. worker'[w] = m
  BY DEF ServiceInv, TypesKept
<1>2. GoesOn(worker[w], m)
  BY DEF GoesOn, AttemptSteps
<1>3. AttemptMoves(w)
  BY <1>1, <1>2, GoingOn
<1>4. AttemptOK(w)'
  BY <1>1 DEF AttemptOK, AttemptSteps
<1>5. CleanerOK(w)'
  BY <1>1, Zenon DEF CleanerOK
<1>. QED
  BY <1>3, <1>4, <1>5, WorkerBecomes

LEMMA CleanupClaimKeeps ==
  ASSUME ServiceInv, NEW w \in Workers, CleanupClaim(w)
  PROVE  ServiceInv'
<1>1. FaultsCounted /\ UNCHANGED <<client, asked, objects>> /\ worker[w].pc = "tail"
  BY FaultCounted DEF CleanupClaim, At
<1>2. PICK t \in Readings, S \in SUBSET Jobs :
         /\ expire_terminal(w, S, t)
         /\ worker' = [worker EXCEPT ![w].pc = "clean", ![w].batch = S, ![w].due = FALSE]
  BY DEF CleanupClaim
<1>3. PICK m : /\ m = [worker[w] EXCEPT !.pc = "clean", !.batch = S, !.due = FALSE]
               /\ worker' = [worker EXCEPT ![w] = m]
  BY <1>2 DEF ServiceInv, TypesKept
<1>4. m \in Worker
  BY <1>3, LoopRecords, LoopUpdates DEF WorkerSteps
<1>5. m.pc = "clean" /\ m.batch = S /\ m.exhausted = worker[w].exhausted
  BY <1>3, LoopRecords DEF Worker
<1>6. TableMoves(w) /\ ObjectsMoves(w) /\ \A j \in S : IsExpired(j)'
  BY <1>1, <1>2, ExpireMoves, ObjectsStill
<1>. QED
  BY <1>1, <1>3, <1>4, <1>5, <1>6, LoopRecords, CleansOn DEF Flight

LEMMA CleanupDeleteKeeps ==
  ASSUME ServiceInv, NEW w \in Workers, CleanupDelete(w)
  PROVE  ServiceInv'
<1>1. FaultsCounted /\ UNCHANGED <<client, asked, repositoryVars>> /\ worker[w].pc = "clean"
  BY FaultCounted DEF CleanupDelete, At
<1>2. PICK j \in worker[w].batch :
         /\ objects' = objects \ JobKeys(j)
         /\ worker' = [worker EXCEPT ![w].pc = "acknowledge", ![w].job = j]
  BY DEF CleanupDelete
<1>3. PICK m : /\ m = [worker[w] EXCEPT !.pc = "acknowledge", !.job = j]
               /\ worker' = [worker EXCEPT ![w] = m]
  BY <1>2 DEF ServiceInv, TypesKept
<1>4. /\ worker[w].batch \subseteq Jobs
      /\ \A k \in worker[w].batch : IsExpired(k) /\ IsExpired(k)'
  BY <1>1, LoopRecords DEF Worker, ServiceInv, CleanerOK, IsExpired, repositoryVars
<1>5. m \in Worker
  BY <1>3, <1>4, LoopRecords, LoopUpdates DEF WorkerSteps
<1>6. m.pc = "acknowledge" /\ m.job = j /\ m.batch = worker[w].batch
      /\ m.exhausted = worker[w].exhausted
  BY <1>3, LoopRecords DEF Worker
<1>7. TableMoves(w) /\ ObjectsMoves(w)
  BY <1>1, <1>2, <1>4, TableStill, CleanMoves
\* The row names every attempt that has stored anything.
<1>8. Left(j)'
  <2>. SUFFICES ASSUME NEW a \in 1 .. MaxAttempts, NEW k \in AttemptKeys(j, a),
                       k \in objects, k \notin JobKeys(j)
                PROVE  FALSE
    BY <1>2 DEF Left, AttemptKeys
  <2>1. a <= rows[j].attempt /\ rows[j].attempt \in Nat
    BY <1>4 DEF ServiceInv, StoreOK, RowsInv, GoodRow, Row, AttemptKeys
  <2>2. a \in IssuedTokens(j)
    BY <2>1, ConstantsAssumption DEF IssuedTokens
  <2>. QED
    BY <2>2 DEF JobKeys
<1>. QED
  BY <1>1, <1>3, <1>4, <1>5, <1>6, <1>7, <1>8, LoopRecords, CleansOn DEF Flight

LEMMA CleanupAcknowledgeKeeps ==
  ASSUME ServiceInv, NEW w \in Workers, CleanupAcknowledge(w)
  PROVE  ServiceInv'
<1>1. FaultsCounted /\ UNCHANGED <<client, asked, objects>> /\ worker[w].pc = "acknowledge"
  BY FaultCounted DEF CleanupAcknowledge, At
<1>2. TableMoves(w) /\ ObjectsMoves(w)
  BY <1>1, AcknowledgeMoves, ObjectsStill DEF CleanupAcknowledge
<1>3. PICK m : /\ m = [worker[w] EXCEPT !.pc = "clean", !.job = NULL,
                                        !.batch = @ \ {worker[w].job}]
               /\ worker' = [worker EXCEPT ![w] = m]
  BY DEF CleanupAcknowledge, AcknowledgedBatch, ServiceInv, TypesKept
<1>4. /\ m \in Worker /\ m.pc = "clean" /\ m.batch \subseteq worker[w].batch
      /\ m.exhausted = worker[w].exhausted
  <2>1. worker[w] \in Worker
    BY LoopRecords
  <2>. QED
    BY <1>3, <2>1 DEF Worker, WorkerSteps
<1>5. \A j \in worker[w].batch : IsExpired(j)'
  <2>1. worker[w].batch \subseteq Jobs /\ \A j \in worker[w].batch : IsExpired(j)
    BY <1>1, LoopRecords DEF Worker, ServiceInv, CleanerOK
  <2>. QED
    BY <1>2, <2>1, RowFacts DEF TableMoves, ServiceInv
<1>. QED
  BY <1>1, <1>2, <1>3, <1>4, <1>5, LoopRecords, CleansOn DEF Flight

\* Time passes for all.
LEMMA TimeKeeps ==
  ASSUME ServiceInv, TimePasses
  PROVE  ServiceInv'
<1>1. UNCHANGED <<objects, client, faults, asked>> /\ NULL \notin Workers
  BY NullAssumption DEF TimePasses
<1>2. TableMoves(NULL) /\ ObjectsMoves(NULL)
  BY <1>1, TickMoves, ObjectsStill DEF TimePasses
<1>3. ASSUME NEW v \in Workers
      PROVE  /\ worker'[v] \in Worker /\ SameLoop(v)
             /\ worker'[v].exhausted => HasBudget
  <2>1. PICK due \in BOOLEAN : worker'[v] = [worker[v] EXCEPT !.due = due]
    BY DEF TimePasses
  <2>2. worker'[v] \in Worker
    BY <2>1, LoopRecords, Zenon DEF Worker
  <2>3. SameLoop(v)
    BY <2>1, LoopRecords DEF SameLoop, Worker
  <2>. QED
    BY <2>2, <2>3, LoopRecords DEF SameLoop
<1>4. worker' \in [Workers -> Worker]
  <2>1. worker' = [v \in Workers |-> worker'[v]]
    BY DEF TimePasses
  <2>. QED
    BY <1>3, <2>1
<1>5. TypesKept'
  BY <1>1, <1>3, <1>4 DEF ServiceInv, TypesKept
<1>6. AttemptMoves(NULL)
  BY <1>1 DEF AttemptMoves, Mover, FreshWorker, AttemptSteps, Flies, Flight
<1>7. WorkerMoves(NULL)
  BY <1>1, <1>2, <1>3, <1>6 DEF WorkerMoves, TableMoves, ObjectsMoves
<1>. QED
  BY <1>1, <1>5, <1>7, WorkerKeeps

LEMMA WorkerStepKeeps ==
  ASSUME ServiceInv, NEW w \in Workers,
         WorkerStep(w) \/ Beat(w) \/ BeatRefused(w) \/ WorkerFault(w)
  PROVE  ServiceInv'
<1>1. CASE BeatRefused(w)
  BY <1>1, BeatRefusedKeeps, FaultCounted DEF BeatRefused, At, Beating, AttemptSteps
<1>2. CASE PublishRefused(w)
  BY <1>2, TurnsBack, FaultCounted DEF PublishRefused, At
<1>3. CASE WorkerStep(w)
  BY <1>2, <1>3, RecoverKeeps, ClaimKeeps, IdleKeeps, LoadKeeps, ConvertKeeps, ResolveKeeps,
     FinishKeeps, PutResultKeeps, PutManifestKeeps, PublishKeeps, CompensateKeeps,
     CleanupClaimKeeps, CleanupDeleteKeeps, CleanupAcknowledgeKeeps, FencedOutKeeps
  DEF WorkerStep
<1>4. CASE WorkerFault(w)
  BY <1>4, PutFailsKeeps, DeleteFailsKeeps, LoadKeeps, TransactionFailsKeeps,
     CommitAmbiguousKeeps, CrashKeeps, StopSignalKeeps
  DEF WorkerFault
<1>. QED
  BY <1>1, <1>3, <1>4, BeatKeeps


----------------------------------------------------------------------------
(* Steps of a client.                                                      *)

\* A submission moves to another point.
LEMMA ClientGoes ==
  ASSUME ServiceInv, NEW c \in Jobs, NEW pc \in ClientSteps, GotoClient(c, pc)
  PROVE  /\ client' \in [Jobs -> Client]
         /\ client'[c].pc = pc /\ client'[c].job = client[c].job
         /\ \A d \in Jobs \ {c} : client'[d] = client[d]
  BY DEF ServiceInv, TypesKept, GotoClient, Client

\* What a step of a client or of a cancellation does to attempts, workers and history.
ClientMoves ==
    /\ RowsStep /\ reverseActive' \in Nat
    /\ worker' = worker /\ client' \in [Jobs -> Client] /\ FaultsCounted
    /\ asked \subseteq asked' /\ asked' \subseteq Jobs
    /\ objects' \subseteq Keys
    /\ \A j, a : \A k \in AttemptKeys(j, a) : k \in objects' <=> k \in objects
    /\ \A j \in Jobs :
          /\ rows'[j].attempt = rows[j].attempt
          /\ rows'[j].state = "succeeded" => rows[j].state = "succeeded"
          /\ rows'[j].cleanup_completed => rows[j].cleanup_completed
          /\ rows'[j].cancel_requested \/ rows'[j].state = "cancelled" => j \in asked'

\* The source of a job that can be claimed stays.
SourceKept(j) ==
    SourcesApart /\ rows[j].state \in ActiveStates /\ rows[j].source_ready =>
        UploadKey(j) \in objects

LEMMA ClientKeeps ==
  ASSUME ServiceInv, ClientMoves, \A c \in Jobs : ClientOK(c)', \A j \in Jobs : SourceKept(j)'
  PROVE  ServiceInv'
<1>1. RowsInv'
  BY DEF ClientMoves, RowsInv, RowsStep, LegalStep
<1>2. TypesKept'
  BY DEF ClientMoves, ServiceInv, TypesKept, FaultsCounted
<1>3. StoreOK'
  BY DEF ClientMoves, ServiceInv, StoreOK
<1>4. TokensUnique'
  BY DEF ClientMoves, ServiceInv, TokensUnique
<1>5. \A j \in Jobs : Left(j) => Left(j)'
  BY DEF ClientMoves, Left, InFlight
<1>6. \A j \in Jobs : IsExpired(j) => IsExpired(j)'
  BY RowFacts DEF ServiceInv, ClientMoves
<1>7. ASSUME NEW w \in Workers
      PROVE  AttemptOK(w)' /\ CleanerOK(w)'
  <2>1. AttemptOK(w) /\ CleanerOK(w) /\ worker[w].batch \subseteq Jobs
    BY LoopRecords DEF ServiceInv, Worker
  <2>2. AttemptOK(w)'
    <3>1. CASE worker[w].pc \notin AttemptSteps
      BY <3>1 DEF AttemptOK, ClientMoves
    <3>2. CASE worker[w].pc \in AttemptSteps
      <4>1. PICK j \in Jobs : j = worker[w].job
        BY <2>1, <3>2 DEF AttemptOK
      <4>2. /\ rows'[j].attempt = rows[j].attempt
            /\ rows'[j].state = "succeeded" => rows[j].state = "succeeded"
        BY DEF ClientMoves
      <4>3. \A k \in AttemptKeys(j, worker[w].token) : k \in objects => k \in objects'
        BY DEF ClientMoves
      <4>4. ResultKey(j, worker[w].token) \in AttemptKeys(j, worker[w].token)
        BY DEF AttemptKeys
      <4>5. worker' = worker /\ asked \subseteq asked' /\ (IsExpired(j) => IsExpired(j)')
        BY <1>6 DEF ClientMoves
      <4>. QED
        BY <2>1, <3>2, <4>1, <4>2, <4>3, <4>4, <4>5 DEF AttemptOK
    <3>. QED
      BY <3>1, <3>2
  <2>3. CleanerOK(w)'
    BY <1>5, <1>6, <2>1 DEF CleanerOK, ClientMoves
  <2>. QED
    BY <2>2, <2>3
<1>8. ASSUME NEW j \in Jobs
      PROVE  JobOK(j)'
  BY <1>5 DEF ServiceInv, JobOK, ClientMoves, SourceKept
<1>. QED
  BY <1>1, <1>2, <1>3, <1>4, <1>7, <1>8 DEF ServiceInv

\* What a submission relies on stays true as others move.
LEMMA ClientOKStays ==
  ASSUME ServiceInv, ClientMoves, NEW d \in Jobs, client'[d] = client[d], ClientOK(d),
         client[d].pc = "new" => rows'[d] = rows[d],
         rows[client[d].job].source_ready => rows'[client[d].job].source_ready,
         KeysApart /\ client[d].pc \in {"put", "undo", "activate"} =>
            rows'[d].source_ready = rows[d].source_ready,
         SourcesApart /\ client[d].pc = "activate" /\ UploadKey(client[d].job) \in objects =>
            UploadKey(client[d].job) \in objects'
  PROVE  ClientOK(d)'
<1>. SUFFICES ASSUME NEW j \in Jobs, j = client[d].job
              PROVE  ClientOK(d)'
  BY DEF ServiceInv, TypesKept, Client
<1>1. /\ rows[j].state # "absent" => rows'[j].state # "absent"
      /\ rows'[j].state \in ActiveStates =>
            rows[j].state \in ActiveStates \/ rows[j].state = "absent"
  BY RowFacts DEF ServiceInv, ClientMoves
<1>. QED
  BY <1>1 DEF ClientOK

LEMMA SourceStays ==
  ASSUME ServiceInv, ClientMoves, NEW j \in Jobs,
         rows'[j].source_ready = rows[j].source_ready \/ ~SourcesApart,
         SourcesApart /\ UploadKey(j) \in objects /\ rows[j].source_ready => UploadKey(j) \in objects'
  PROVE  SourceKept(j)'
<1>1. /\ rows'[j].state \in ActiveStates =>
            \/ rows[j].state \in ActiveStates
            \/ rows[j].state = "absent" /\ ~rows'[j].source_ready
      /\ SourceKept(j)
  BY RowFacts DEF ServiceInv, ClientMoves, JobOK, SourceKept
<1>. QED
  BY <1>1 DEF SourceKept


\* The table as a client's calls change it.
ClientTable ==
    /\ RowsStep /\ reverseActive' \in Nat
    /\ \A j \in Jobs :
          /\ rows'[j].attempt = rows[j].attempt
          /\ rows'[j].state = "succeeded" => rows[j].state = "succeeded"
          /\ rows'[j].cleanup_completed => rows[j].cleanup_completed
          /\ rows'[j].cancel_requested \/ rows'[j].state = "cancelled" => j \in asked'

LEMMA ClientTableStill ==
  ASSUME ServiceInv, UNCHANGED <<repositoryVars, asked>>
  PROVE  ClientTable
<1>1. RowsStep /\ reverseActive' \in Nat
  BY RowsStay DEF ServiceInv, RowsInv, repositoryVars
<1>. QED
  BY <1>1 DEF ClientTable, repositoryVars, ServiceInv, JobOK

\* The store, when only sources come and go.
LEMMA SourcesMove ==
  ASSUME ServiceInv, NEW S \in SUBSET {UploadKey(j) : j \in Jobs},
         objects' = objects \cup S \/ objects' = objects \ S
  PROVE  /\ objects' \subseteq Keys
         /\ \A j, a : \A k \in AttemptKeys(j, a) : k \in objects' <=> k \in objects
<1>1. \A j, a : \A k \in AttemptKeys(j, a) : k \notin S
  BY KeysDiffer
<1>2. S \subseteq Keys
  BY DEF Keys
<1>. QED
  BY <1>1, <1>2 DEF ServiceInv, StoreOK

\* A submission goes on without the table: it stores or deletes its source, or ends.
LEMMA ClientAlone ==
  ASSUME ServiceInv, NEW c \in Jobs, UNCHANGED <<repositoryVars, worker, asked>>, FaultsCounted,
         client' \in [Jobs -> Client], \A d \in Jobs \ {c} : client'[d] = client[d],
         NEW S \in SUBSET {UploadKey(client[c].job)},
         objects' = objects \cup S \/ objects' = objects \ S,
         S # {} => \/ objects' = objects \cup S
                   \/ client[c].pc = "undo",
         ClientOK(c)'
  PROVE  ServiceInv'
<1>1. client[c] \in Client /\ client[c].job \in Jobs
  BY DEF ServiceInv, TypesKept, Client
<1>2. ClientMoves
  <2>1. ClientTable
    BY ClientTableStill
  <2>2. S \in SUBSET {UploadKey(j) : j \in Jobs}
    BY <1>1
  <2>3. /\ objects' \subseteq Keys
        /\ \A j, a : \A k \in AttemptKeys(j, a) : k \in objects' <=> k \in objects
    BY <2>2, SourcesMove
  <2>4. asked \subseteq asked' /\ asked' \subseteq Jobs
    BY DEF ServiceInv, TypesKept
  <2>. QED
    BY <2>1, <2>3, <2>4 DEF ClientMoves, ClientTable
<1>3. ClientOK(c) /\ rows' = rows
  BY DEF ServiceInv, repositoryVars
\* Only a source that is not ready is deleted.
<1>4. ASSUME NEW j \in Jobs, SourcesApart, UploadKey(j) \in objects, UploadKey(j) \notin objects'
      PROVE  j = client[c].job /\ KeysApart /\ j = c /\ ~rows[j].source_ready
  <2>1. j = client[c].job /\ client[c].pc = "undo"
    BY <1>4 DEF UploadKey
  <2>2. KeysApart
    BY <1>3, <1>4, <2>1 DEF ClientOK, SourcesApart
  <2>. QED
    BY <1>3, <2>1, <2>2 DEF ClientOK
<1>5. ASSUME NEW d \in Jobs \ {c}
      PROVE  ClientOK(d)'
  <2>1. ClientOK(d) /\ client[d].job \in Jobs
    BY DEF ServiceInv, TypesKept, Client
  <2>2. KeysApart /\ client[d].pc = "activate" => client[d].job = d
    BY <2>1 DEF ClientOK
  <2>3. SourcesApart /\ client[d].pc = "activate" /\ UploadKey(client[d].job) \in objects =>
           UploadKey(client[d].job) \in objects'
    BY <1>4, <2>1, <2>2
  <2>. QED
    BY <1>2, <1>3, <2>1, <2>3, ClientOKStays
<1>6. ASSUME NEW j \in Jobs
      PROVE  SourceKept(j)'
  BY <1>2, <1>3, <1>4, SourceStays
<1>. QED
  BY <1>2, <1>5, <1>6, ClientKeeps

\* Submissions that end: refused, failed or dead.
LEMMA ClientEnds ==
  ASSUME ServiceInv, NEW c \in Jobs,
         SubmitRefused(c) \/ ActivateSourceRefused(c) \/ ClientFails(c)
  PROVE  ServiceInv'
<1>1. UNCHANGED <<repositoryVars, worker, asked, objects>> /\ FaultsCounted
  BY FaultCounted DEF SubmitRefused, ActivateSourceRefused, ClientFails, ClientAt
<1>2. PICK pc \in {"refused", "error"} : GotoClient(c, pc)
  BY DEF SubmitRefused, ActivateSourceRefused, ClientFails
<1>3. /\ client' \in [Jobs -> Client] /\ client'[c].pc = pc
      /\ \A d \in Jobs \ {c} : client'[d] = client[d]
  BY <1>2, ClientGoes DEF ClientSteps
<1>4. ClientOK(c)'
  BY <1>2, <1>3 DEF ClientOK
<1>5. objects' = objects \cup {} /\ {} \in SUBSET {UploadKey(client[c].job)}
  BY <1>1
<1>. QED
  BY <1>1, <1>3, <1>4, <1>5, ClientAlone

LEMMA PutSourceKeeps ==
  ASSUME ServiceInv, NEW c \in Jobs, PutSource(c) \/ PutSourceFails(c) \/ UndoSource(c)
  PROVE  ServiceInv'
<1>1. UNCHANGED <<repositoryVars, worker, asked>> /\ FaultsCounted
  BY FaultCounted DEF PutSource, PutSourceFails, UndoSource, ClientAt
<1>2. ClientOK(c) /\ rows' = rows
  BY <1>1 DEF ServiceInv, repositoryVars
<1>3. CASE PutSource(c)
  <2>1. /\ client' \in [Jobs -> Client] /\ client'[c].pc = "activate"
        /\ client'[c].job = client[c].job /\ client[c].pc = "put"
        /\ \A d \in Jobs \ {c} : client'[d] = client[d]
        /\ objects' = objects \cup {UploadKey(client[c].job)}
    BY <1>3, ClientGoes DEF PutSource, ClientAt, ClientSteps
  <2>2. ClientOK(c)'
    BY <1>2, <2>1 DEF ClientOK
  <2>. QED
    BY <1>1, <2>1, <2>2, ClientAlone
<1>4. CASE PutSourceFails(c)
  <2>1. /\ client' \in [Jobs -> Client] /\ client'[c].pc = "undo"
        /\ client'[c].job = client[c].job /\ client[c].pc = "put"
        /\ \A d \in Jobs \ {c} : client'[d] = client[d]
        /\ "storage" \in FaultKinds
    BY <1>4, ClientGoes DEF PutSourceFails, ClientAt, ClientSteps, Fault
  <2>2. ClientOK(c)'
    BY <1>2, <2>1 DEF ClientOK
  <2>3. PICK S \in SUBSET {UploadKey(client[c].job)} : objects' = objects \cup S
    <3>1. objects' = objects \cup {} \/ objects' = objects \cup {UploadKey(client[c].job)}
      BY <1>4 DEF PutSourceFails
    <3>. QED
      BY <3>1
  <2>. QED
    BY <1>1, <2>1, <2>2, <2>3, ClientAlone
<1>5. CASE UndoSource(c)
  <2>1. /\ client' \in [Jobs -> Client] /\ client'[c].pc = "error" /\ client[c].pc = "undo"
        /\ \A d \in Jobs \ {c} : client'[d] = client[d]
        /\ objects' = objects \ {UploadKey(client[c].job)}
    BY <1>5, ClientGoes DEF UndoSource, ClientAt, ClientSteps
  <2>2. ClientOK(c)'
    BY <2>1 DEF ClientOK
  <2>. QED
    BY <1>1, <2>1, <2>2, ClientAlone
<1>. QED
  BY <1>3, <1>4, <1>5


LEMMA SubmitReplayKeeps ==
  ASSUME ServiceInv, NEW c \in Jobs, SubmitReplay(c)
  PROVE  ServiceInv'
<1>1. /\ UNCHANGED <<repositoryVars, worker, asked, objects>> /\ FaultsCounted
      /\ client[c].pc = "new" /\ ClientOK(c)
  BY FaultCounted DEF SubmitReplay, ClientAt, ServiceInv
<1>2. PICK k \in _find_idempotent(c), pc \in {"refused", "replayed", "put"} :
         /\ client' = [client EXCEPT ![c] = [pc |-> pc, job |-> k]]
         /\ pc # "refused" => RequestDigest[k] = RequestDigest[c]
         /\ pc = "replayed" => rows[k].source_ready
         /\ pc = "put" => ~rows[k].source_ready
  <2>1. PICK k \in _find_idempotent(c) :
           client' = [client EXCEPT ![c] =
              [pc  |-> CASE RequestDigest[k] # RequestDigest[c] -> "refused"
                         [] RequestDigest[k] = RequestDigest[c]
                            /\ rows[k].source_ready -> "replayed"
                         [] OTHER -> "put",
               job |-> k]]
    BY DEF SubmitReplay
  <2>2. CASE RequestDigest[k] # RequestDigest[c]
    BY <2>1, <2>2
  <2>3. CASE RequestDigest[k] = RequestDigest[c] /\ rows[k].source_ready
    BY <2>1, <2>3
  <2>4. CASE RequestDigest[k] = RequestDigest[c] /\ ~rows[k].source_ready
    BY <2>1, <2>4
  <2>. QED
    BY <2>2, <2>3, <2>4
<1>3. /\ k \in Jobs /\ rows[k].state # "absent" /\ k # c
      /\ Owner[k] = Owner[c] /\ IdempotencyDigest[k] = IdempotencyDigest[c]
      /\ IdempotencyDigest[c] # NULL
  BY <1>1 DEF _find_idempotent, Existing, ClientOK
<1>4. ~KeysApart
  BY <1>3 DEF KeysApart
<1>5. /\ client' \in [Jobs -> Client] /\ client'[c].pc = pc /\ client'[c].job = k
      /\ \A d \in Jobs \ {c} : client'[d] = client[d]
  BY <1>2, <1>3 DEF ServiceInv, TypesKept, Client, ClientSteps
<1>6. ClientOK(c)'
  BY <1>1, <1>2, <1>3, <1>4, <1>5 DEF ClientOK, repositoryVars
<1>7. objects' = objects \cup {} /\ {} \in SUBSET {UploadKey(client[c].job)}
  BY <1>1
<1>. QED
  BY <1>1, <1>5, <1>6, <1>7, ClientAlone

LEMMA SubmitCreateKeeps ==
  ASSUME ServiceInv, NEW c \in Jobs, SubmitCreate(c)
  PROVE  ServiceInv'
<1>1. /\ UNCHANGED <<worker, asked, objects>> /\ FaultsCounted
      /\ client[c].pc = "new" /\ ClientOK(c)
  BY FaultCounted DEF SubmitCreate, ClientAt, ServiceInv
<1>2. PICK t \in Readings : create(c, t)
  BY DEF SubmitCreate
<1>3. RowsStep /\ reverseActive' \in Nat
  BY <1>2, NextStep DEF RepositoryNext, OneJob, ServiceInv
<1>4. /\ rows'[c] = ReservedRow(t) /\ rows[c].state = "absent"
      /\ \A j \in Jobs \ {c} : rows'[j] = rows[j]
      /\ GoodRow(rows[c])
  BY <1>2 DEF create, ServiceInv, RowsInv
<1>5. /\ rows'[c].state = "queued" /\ rows'[c].attempt = rows[c].attempt
      /\ ~rows'[c].source_ready /\ ~rows'[c].cancel_requested /\ ~rows'[c].cleanup_completed
  BY <1>4 DEF ReservedRow, AbsentRow, GoodRow, LeaseWellFormed
<1>6. /\ client' \in [Jobs -> Client] /\ client'[c].pc = "put" /\ client'[c].job = client[c].job
      /\ \A d \in Jobs \ {c} : client'[d] = client[d]
  BY ClientGoes DEF SubmitCreate, ClientSteps
<1>7. ClientMoves
  BY <1>1, <1>3, <1>4, <1>5, <1>6 DEF ClientMoves, ServiceInv, TypesKept, StoreOK, JobOK
<1>8. ClientOK(c)'
  BY <1>1, <1>5, <1>6 DEF ClientOK
\* Nobody relies on the source of a job that did not exist.
<1>9. ASSUME NEW d \in Jobs \ {c}
      PROVE  ClientOK(d)'
  <2>. PICK j \in Jobs : j = client[d].job
    BY DEF ServiceInv, TypesKept, Client
  <2>1. ClientOK(d) /\ rows'[d] = rows[d] /\ client'[d] = client[d] /\ objects' = objects
    BY <1>1, <1>4, <1>6 DEF ServiceInv
  <2>2. CASE j = c
    BY <1>4, <2>1, <2>2 DEF ClientOK
  <2>3. CASE j # c
    BY <1>4, <1>7, <2>1, <2>3, ClientOKStays
  <2>. QED
    BY <2>2, <2>3
<1>10. ASSUME NEW j \in Jobs
       PROVE  SourceKept(j)'
  BY <1>1, <1>4, <1>5 DEF SourceKept, ServiceInv, JobOK
<1>. QED
  BY <1>7, <1>8, <1>9, <1>10, ClientKeeps

LEMMA ActivateSourceKeeps ==
  ASSUME ServiceInv, NEW c \in Jobs, ActivateSource(c)
  PROVE  ServiceInv'
<1>. PICK i \in Jobs : i = client[c].job
  BY DEF ServiceInv, TypesKept, Client
<1>1. /\ UNCHANGED <<worker, asked, objects>> /\ FaultsCounted
      /\ client[c].pc = "activate" /\ ClientOK(c)
  BY FaultCounted DEF ActivateSource, ClientAt, ServiceInv
<1>2. RowsStep /\ reverseActive' \in Nat
  BY NextStep DEF RepositoryNext, OneJob, ServiceInv, ActivateSource
<1>3. /\ rows'[i] = [rows[i] EXCEPT !.source_ready = TRUE] /\ rows[i].state = "queued"
      /\ \A j \in Jobs \ {i} : rows'[j] = rows[j]
      /\ rows[i] \in Row
  BY DEF ActivateSource, activate_source, SourceActivatable, ServiceInv, RowsInv, GoodRow
<1>4. /\ rows'[i].state = "queued" /\ rows'[i].attempt = rows[i].attempt
      /\ rows'[i].source_ready /\ rows'[i].cancel_requested = rows[i].cancel_requested
      /\ rows'[i].cleanup_completed = rows[i].cleanup_completed
  BY <1>3 DEF Row
<1>5. /\ client' \in [Jobs -> Client] /\ client'[c].pc = "accepted"
      /\ client'[c].job = client[c].job
      /\ \A d \in Jobs \ {c} : client'[d] = client[d]
  BY ClientGoes DEF ActivateSource, ClientSteps
<1>6. ClientMoves
  <2>1. ASSUME NEW j \in Jobs
        PROVE  /\ rows'[j].attempt = rows[j].attempt
               /\ rows'[j].state = "succeeded" => rows[j].state = "succeeded"
               /\ rows'[j].cleanup_completed => rows[j].cleanup_completed
               /\ rows'[j].cancel_requested \/ rows'[j].state = "cancelled" => j \in asked
    <3>1. JobOK(j)
      BY DEF ServiceInv
    <3>2. CASE j = i
      BY <1>4, <3>1, <3>2 DEF JobOK
    <3>3. CASE j # i
      BY <1>3, <3>1, <3>3 DEF JobOK
    <3>. QED
      BY <3>2, <3>3
  <2>. QED
    BY <1>1, <1>2, <1>5, <2>1 DEF ClientMoves, ServiceInv, TypesKept, StoreOK
<1>7. ClientOK(c)'
  BY <1>1, <1>4, <1>5 DEF ClientOK
<1>8. ASSUME NEW d \in Jobs \ {c}
      PROVE  ClientOK(d)'
  <2>. PICK j \in Jobs : j = client[d].job
    BY DEF ServiceInv, TypesKept, Client
  <2>1. ClientOK(d) /\ client'[d] = client[d] /\ objects' = objects
    BY <1>1, <1>5 DEF ServiceInv
  <2>2. client[d].pc = "new" => rows'[d] = rows[d]
    BY <1>3, <2>1 DEF ClientOK
  <2>3. rows[j].source_ready => rows'[j].source_ready
    BY <1>3, <1>4
  <2>4. KeysApart => i = c
    BY <1>1 DEF ClientOK
  <2>. QED
    BY <1>3, <1>6, <2>1, <2>2, <2>3, <2>4, ClientOKStays
<1>9. ASSUME NEW j \in Jobs
      PROVE  SourceKept(j)'
  <2>1. CASE j = i
    BY <1>1, <1>3, <2>1 DEF SourceKept, ClientOK, ActiveStates
  <2>2. CASE j # i
    BY <1>1, <1>3, <2>2 DEF SourceKept, ServiceInv, JobOK
  <2>. QED
    BY <2>1, <2>2
<1>. QED
  BY <1>6, <1>7, <1>8, <1>9, ClientKeeps

LEMMA CancelKeeps ==
  ASSUME ServiceInv, NEW i \in Jobs, Cancel(i)
  PROVE  ServiceInv'
<1>1. /\ UNCHANGED <<worker, client, objects>> /\ FaultsCounted /\ asked' = asked \cup {i}
      /\ rows[i].state # "absent"
  BY FaultCounted DEF Cancel, Existing
<1>2. PICK t \in Readings : request_cancel(i, t)
  BY DEF Cancel
<1>3. RowsStep /\ reverseActive' \in Nat
  BY <1>1, <1>2, NextStep DEF RepositoryNext, OneJob, ServiceInv
<1>4. /\ rows'[i] = CancelRequestedRow(rows[i], t)
      /\ \A j \in Jobs \ {i} : rows'[j] = rows[j]
      /\ rows[i] \in Row
  BY <1>2 DEF request_cancel, ServiceInv, RowsInv, GoodRow
<1>5. /\ rows'[i].attempt = rows[i].attempt /\ rows'[i].source_ready = rows[i].source_ready
      /\ rows'[i].state = "succeeded" => rows[i].state = "succeeded"
      /\ rows'[i].cleanup_completed = rows[i].cleanup_completed
  BY <1>4 DEF Row, CancelRequestedRow
<1>6. ClientMoves
  BY <1>1, <1>3, <1>4, <1>5 DEF ClientMoves, ServiceInv, TypesKept, StoreOK, JobOK
<1>7. ASSUME NEW d \in Jobs
      PROVE  ClientOK(d)'
  <2>1. ClientOK(d) /\ client[d].job \in Jobs
    BY DEF ServiceInv, TypesKept, Client
  <2>2. client[d].pc = "new" => rows'[d] = rows[d]
    BY <1>1, <1>4, <2>1 DEF ClientOK
  <2>3. \A j \in Jobs : rows'[j].source_ready = rows[j].source_ready
    BY <1>4, <1>5
  <2>. QED
    BY <1>1, <1>6, <2>1, <2>2, <2>3, ClientOKStays
<1>8. ASSUME NEW j \in Jobs
      PROVE  SourceKept(j)'
  BY <1>1, <1>4, <1>5, <1>6, SourceStays
<1>. QED
  BY <1>6, <1>7, <1>8, ClientKeeps


----------------------------------------------------------------------------
(* The theorems.                                                           *)

LEMMA ServiceInit == Init => ServiceInv
<1>. SUFFICES ASSUME Init
              PROVE  ServiceInv
  OBVIOUS
<1>1. GoodRow(AbsentRow)
  BY NullAssumption
  DEF GoodRow, Row, AbsentRow, States, ActiveStates, FinishedStates,
      LeaseWellFormed, OutcomeWellFormed, RetentionWellFormed
<1>2. RowsInv /\ \A j \in Jobs : rows[j] = AbsentRow
  BY <1>1 DEF Init, RepositoryInit, RowsInv
<1>3. FreshWorker \in Worker
  BY DEF FreshWorker, Worker, WorkerSteps, Outcomes
<1>4. TypesKept
  BY <1>3, ServiceAssumption DEF Init, TypesKept, Client, ClientSteps, FreshWorker
<1>5. \A w \in Workers : AttemptOK(w) /\ CleanerOK(w)
  BY DEF Init, FreshWorker, AttemptOK, CleanerOK, AttemptSteps
<1>6. TokensUnique
  BY DEF Init, FreshWorker, TokensUnique, AttemptSteps
<1>7. \A c \in Jobs : ClientOK(c)
  BY <1>2 DEF Init, ClientOK, AbsentRow
<1>8. \A j \in Jobs : JobOK(j)
  BY <1>2, ConstantsAssumption DEF JobOK, AbsentRow, ActiveStates
<1>. QED
  BY <1>2, <1>4, <1>5, <1>6, <1>7, <1>8 DEF Init, ServiceInv, StoreOK

LEMMA ServiceStep == ServiceInv /\ [Next]_vars => ServiceInv'
<1>. SUFFICES ASSUME ServiceInv, [Next]_vars
              PROVE  ServiceInv'
  OBVIOUS
<1>1. ASSUME NEW c \in Jobs, ClientStep(c)
      PROVE  ServiceInv'
  BY <1>1, SubmitCreateKeeps, SubmitReplayKeeps, ClientEnds, PutSourceKeeps, ActivateSourceKeeps
  DEF ClientStep
<1>2. CASE UNCHANGED vars
  <2>1. UNCHANGED <<repositoryVars, objects, client, worker, faults, asked>>
    BY <1>2 DEF vars, repositoryVars
  <2>2. ClientMoves
    <3>1. ClientTable
      BY <2>1, ClientTableStill
    <3>. QED
      BY <2>1, <3>1 DEF ClientMoves, ClientTable, ServiceInv, TypesKept, StoreOK, FaultsCounted
  <2>3. \A c \in Jobs : ClientOK(c)'
    BY <2>1 DEF ServiceInv, ClientOK, repositoryVars
  <2>4. \A j \in Jobs : SourceKept(j)'
    BY <2>1 DEF ServiceInv, JobOK, SourceKept, repositoryVars
  <2>. QED
    BY <2>2, <2>3, <2>4, ClientKeeps
<1>. QED
  BY <1>1, <1>2, CancelKeeps, WorkerStepKeeps, TimeKeeps DEF Next

\* The invariant holds whatever the limits, the faults and the interleaving.
LEMMA ServiceInvariant == Spec => []ServiceInv
  BY ServiceInit, ServiceStep, PTL DEF Spec

\* API processes, workers, table and store keep to their types.
THEOREM ServiceTypesKept == Spec => []ServiceTypeOK
<1>1. ServiceInv => ServiceTypeOK
  BY DEF ServiceInv, RowsInv, GoodRow, TypesKept, StoreOK, ServiceTypeOK, TypeOK
<1>. QED
  BY <1>1, ServiceInvariant, PTL

\* Whatever fails, a submission answered with success names one job of its own key and
\* request, whose source was accepted; and a job ends cancelled only if somebody asked,
\* although processors also abort for lost leases, shutdown and exhausted budgets.
THEOREM AnswersAreTrue == Spec => [](AnswerDurable /\ CancelledOnlyIfAsked)
<1>1. ServiceInv => AnswerDurable /\ CancelledOnlyIfAsked
  <2>. SUFFICES ASSUME ServiceInv
                PROVE  AnswerDurable /\ CancelledOnlyIfAsked
    OBVIOUS
  <2>1. DOMAIN client = Jobs /\ DOMAIN rows = Jobs
    BY DEF ServiceInv, TypesKept, RowsInv
  <2>. QED
    BY <2>1 DEF ServiceInv, ClientOK, JobOK, AnswerDurable, CancelledOnlyIfAsked
<1>. QED
  BY <1>1, ServiceInvariant, PTL

\* What clients are told holds: an accepted job is durable and has its source as long
\* as it can run, a succeeded one has its result and manifest, a cancelled one was asked
\* to; although workers stall, lose their lease, die, compensate and retry in any order
\* around the publication.  The two hypotheses are the two ways in which the code fails:
\* a commit that takes effect without its acknowledgement, and a failed upload of one
\* submission that deletes the source of another one with the same key.
THEOREM AnswersStayHonoured ==
  ASSUME Unambiguous, SourcesApart
  PROVE  Spec => []AnswersHonoured
<1>1. ServiceInv => AnswersHonoured
  <2>. SUFFICES ASSUME ServiceInv
                PROVE  AnswersHonoured
    OBVIOUS
  <2>1. DOMAIN client = Jobs /\ DOMAIN rows = Jobs
    BY DEF ServiceInv, TypesKept, RowsInv
  <2>2. AnswerDurable /\ CancelledOnlyIfAsked
    BY <2>1 DEF ServiceInv, ClientOK, JobOK, AnswerDurable, CancelledOnlyIfAsked
  <2>3. SourceAvailable
    BY <2>1 DEF ServiceInv, JobOK, SourceAvailable
  <2>4. ResultAvailable
    BY <2>1 DEF ServiceInv, JobOK, RowsInv, GoodRow, OutcomeWellFormed, ResultAvailable
  <2>. QED
    BY <2>2, <2>3, <2>4 DEF AnswersHonoured
<1>. QED
  BY <1>1, ServiceInvariant, PTL

\* Once a job is cleaned, no result and no manifest of any attempt is left in the store but
\* what a stale worker is about to delete itself; its source is not spoken of.  It needs every process to
\* come to its compensation: one that dies between a put and its delete leaves an object
\* that no row names.
THEOREM CleanedResultsStayGone ==
  ASSUME NothingDies
  PROVE  Spec => []CleanedResultsGone
<1>1. ServiceInv => CleanedResultsGone
  BY DEF ServiceInv, RowsInv, JobOK, Left, CleanedResultsGone
<1>. QED
  BY <1>1, ServiceInvariant, PTL
=============================================================================
