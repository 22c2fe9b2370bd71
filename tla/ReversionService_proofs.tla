---------------------- MODULE ReversionService_proofs ----------------------
(***************************************************************************)
(* The table of the reverse queue for every set of jobs and workers and    *)
(* any number of create sequences and units, whatever calls are made with  *)
(* whatever credentials; and over it the queue at work, which accounts for *)
(* every unit of the broker whatever fails, is abandoned, overlaps or is   *)
(* restored from a backup.                                                 *)
(*                                                                         *)
(* TableInv is the inductive invariant of the table.  Nearly every         *)
(* transaction writes the row of one job or the row of one attempt, so one *)
(* lemma says which such rows may be written (JobRowWritten,               *)
(* AttemptRowWritten), and an operation is left with showing that what it  *)
(* writes is of that kind.                                                 *)
(*                                                                         *)
(* The broker has an invariant of its own (BrokerInv).  What joins the two *)
(* is what travels between them: a request asks for what the table has     *)
(* recorded, however late it is served, and an answer tells of what is so  *)
(* for good, however late it is read.                                      *)
(*                                                                         *)
(* The objects in the store have an invariant of their own (ObjectsInv),   *)
(* in the last part: what each worker and each submission is about to do   *)
(* with the object it has put.                                             *)
(***************************************************************************)
EXTENDS ReversionService, IsolationBroker_proofs

----------------------------------------------------------------------------
(* The table.                                                              *)

\* The unit of an attempt is proved gone, or was never asked for.
Settled(a) == ~a.intent \/ a.proof # 0

\* Beyond AttemptsFenced: a sequence without an attempt has an empty row, and
\* the attempts of a job are among those of the principal.
TableInv ==
    /\ TableTypeOK
    /\ \A s \in CreateSequences : s \notin Known => attempts[s] = NoAttempt
    /\ \A j \in Jobs : jobs[j].attempt <= principal.highWater
    /\ RowsLoad
    /\ SequencesIssued
    /\ UnitsBoundOnce
    /\ UnprovenStillRuns

\* What every step of the table is shown to be.
TableStep == TableInv' /\ GrantsCurrent

----------------------------------------------------------------------------

\* The bounds are natural numbers, and no value stands for none.
LEMMA Bounds ==
  /\ MaxSequence \in Nat /\ MaxUnits \in Nat
  /\ NULL \notin Jobs /\ NULL \notin Workers
  BY IdentityAssumption, ReversionAssumption

\* Sequences and units are positive integers.
LEMMA Identities ==
  /\ \A s \in CreateSequences : s \in Int /\ s > 0 /\ s <= MaxSequence
  /\ \A u \in UnitIds : u \in 0 .. MaxUnits /\ u # 0
  BY Bounds DEF CreateSequences, UnitIds

\* The rows are functions, so their domains are the identifiers.
LEMMA Domains ==
  ASSUME TableTypeOK
  PROVE  DOMAIN jobs = Jobs /\ DOMAIN attempts = CreateSequences
  BY DEF TableTypeOK

\* The empty table.
LEMMA InitInv == TableInit => TableInv
<1>. SUFFICES ASSUME TableInit PROVE TableInv
  OBVIOUS
<1>1. NoJob \in Job /\ NoAttempt \in Attempt /\ NewPrincipal \in Principal
      /\ NoOrphanProof \in Orphan
  BY Bounds DEF NoJob, Job, ActiveStates, OutcomeStates, NoAttempt, Attempt, NewPrincipal,
                Principal, NoOrphanProof, Orphan
<1>2. TableTypeOK
  BY <1>1 DEF TableInit, TableTypeOK
<1>3. Known = {}
  BY DEF TableInit, Known, NoAttempt
<1>4. \A j \in Jobs : jobs[j].attempt <= principal.highWater
  BY DEF TableInit, NoJob, NewPrincipal
<1>5. RowsLoad
  BY <1>2, Domains DEF TableInit, RowsLoad, JobLoads, AttemptLoads, NoJob, NoAttempt
<1>6. SequencesIssued /\ UnitsBoundOnce
  BY <1>2, <1>3, Domains DEF TableInit, SequencesIssued, UnitsBoundOnce, NoAttempt, NoOrphanProof
<1>7. UnprovenStillRuns
  BY <1>3 DEF UnprovenStillRuns
<1>8. \A s \in CreateSequences : attempts[s] = NoAttempt
  BY DEF TableInit
<1>. QED
  BY <1>2, <1>4, <1>5, <1>6, <1>7, <1>8 DEF TableInv

----------------------------------------------------------------------------
(* Writing the row of one job, or of one attempt.                          *)

\* A job goes on running its attempt, or it does not run afterwards and the
\* attempt that it ran is settled; a success is that of the current attempt.
MayWriteJob(j, new) ==
    /\ new \in Job
    /\ JobLoads(new)
    /\ new.attempt = jobs[j].attempt
    /\ \/ /\ new.state = "running" /\ jobs[j].state = "running"
          /\ new.current = jobs[j].current
       \/ /\ new.state # "running"
          /\ jobs[j].state = "running" => Settled(attempts[jobs[j].current])
    /\ new.state = "succeeded" /\ jobs[j].state # "succeeded" =>
          ~jobs[j].cancel /\ new.result = attempts[jobs[j].current].number

LEMMA JobRowWritten ==
  ASSUME TableInv, NEW j \in Jobs, NEW new, MayWriteJob(j, new),
         jobs' = [jobs EXCEPT ![j] = new],
         UNCHANGED <<attempts, principal, orphans>>
  PROVE  TableStep
<1>1. TableTypeOK /\ TableTypeOK'
  BY DEF TableInv, TableTypeOK, MayWriteJob
<1>2. /\ \A k \in Jobs \ {j} : jobs'[k] = jobs[k]
      /\ jobs'[j] = new
  BY <1>1 DEF TableTypeOK
<1>3. Known' = Known /\ DOMAIN attempts = CreateSequences /\ DOMAIN jobs = Jobs
      /\ DOMAIN jobs' = Jobs
  BY <1>1, Domains DEF Known, TableTypeOK
<1>4. \A s \in CreateSequences : s \notin Known' => attempts'[s] = NoAttempt
  BY <1>3 DEF TableInv
<1>5. \A k \in Jobs : jobs'[k].attempt <= principal'.highWater
  BY <1>2 DEF TableInv, MayWriteJob
<1>6. RowsLoad'
  <2>1. \A k \in Jobs : JobLoads(jobs'[k])
    BY <1>2, <1>3 DEF TableInv, RowsLoad, MayWriteJob
  <2>2. ASSUME NEW k \in Jobs, jobs'[k].state = "running"
        PROVE  /\ jobs[k].state = "running"
               /\ jobs'[k].current = jobs[k].current
               /\ jobs'[k].attempt = jobs[k].attempt
    BY <2>2, <1>2 DEF MayWriteJob
  <2>3. \A s \in CreateSequences : AttemptLoads(attempts'[s])
    BY <1>3 DEF TableInv, RowsLoad
  <2>. QED
    BY <2>1, <2>2, <2>3, <1>3 DEF TableInv, RowsLoad
<1>7. SequencesIssued' /\ UnitsBoundOnce'
  BY <1>3 DEF TableInv, SequencesIssued, UnitsBoundOnce
<1>8. UnprovenStillRuns'
  BY <1>1, <1>2, <1>3 DEF TableInv, UnprovenStillRuns, MayWriteJob, Settled, Known, TableTypeOK,
     Attempt
<1>9. GrantsCurrent
  BY <1>2, <1>3 DEF GrantsCurrent, MayWriteJob
<1>. QED
  BY <1>1, <1>4, <1>5, <1>6, <1>7, <1>8, <1>9 DEF TableStep, TableInv

\* An attempt keeps its job and its number, loads, shares its unit with no
\* other, and either is settled or is the one that its job runs.
MayWriteAttempt(s, new) ==
    /\ s \in Known
    /\ new \in Attempt
    /\ AttemptLoads(new)
    /\ new.job = attempts[s].job /\ new.number = attempts[s].number
    /\ new.unit = 0 \/ ~UnitTaken(s, new.unit)
    /\ \/ Settled(new)
       \/ jobs[new.job].state = "running" /\ jobs[new.job].current = s

\* The principal keeps its type, and its high water never falls.
PrincipalRises ==
    /\ principal' \in Principal
    /\ principal'.highWater >= principal.highWater

LEMMA AttemptRowWritten ==
  ASSUME TableInv, NEW s, NEW new, MayWriteAttempt(s, new),
         attempts' = [attempts EXCEPT ![s] = new],
         PrincipalRises,
         UNCHANGED <<jobs, orphans>>
  PROVE  TableStep
<1>0. TableTypeOK /\ DOMAIN attempts = CreateSequences /\ DOMAIN jobs = Jobs
      /\ s \in CreateSequences
  BY Domains DEF TableInv, MayWriteAttempt, Known
<1>1. TableTypeOK'
  BY <1>0 DEF TableTypeOK, MayWriteAttempt, PrincipalRises
<1>2. /\ \A t \in CreateSequences \ {s} : attempts'[t] = attempts[t]
      /\ attempts'[s] = new
  BY <1>0 DEF TableTypeOK
<1>3. Known' = Known /\ DOMAIN attempts' = CreateSequences
  BY <1>0, <1>1, <1>2, Domains DEF Known, MayWriteAttempt, TableTypeOK
<1>4. \A t \in CreateSequences : t \notin Known' => attempts'[t] = NoAttempt
  BY <1>2, <1>3 DEF TableInv, MayWriteAttempt
<1>5. \A k \in Jobs : jobs'[k].attempt <= principal'.highWater
  <2>1. \A k \in Jobs : jobs[k].attempt \in Int
    BY <1>0, Bounds DEF TableTypeOK, Job
  <2>2. principal.highWater \in Int /\ principal'.highWater \in Int
    BY <1>0, <1>1, Bounds DEF TableTypeOK, Principal
  <2>. QED
    BY <2>1, <2>2 DEF TableInv, PrincipalRises
<1>6. RowsLoad'
  BY <1>0, <1>2, <1>3 DEF TableInv, RowsLoad, JobLoads, MayWriteAttempt
<1>7. SequencesIssued'
  <2>1. principal.highWater \in Int /\ principal'.highWater \in Int
    BY <1>0, <1>1, Bounds DEF TableTypeOK, Principal
  <2>. QED
    BY <1>0, <1>3, <2>1, Identities DEF TableInv, SequencesIssued, PrincipalRises
<1>8. UnitsBoundOnce'
  <2>1. ASSUME NEW t \in CreateSequences, t # s, new.unit # 0
        PROVE  attempts[t].unit # new.unit
    <3>1. CASE t \in Known
      BY <2>1, <3>1 DEF MayWriteAttempt, UnitTaken
    <3>2. CASE t \notin Known
      BY <2>1, <3>2 DEF TableInv, NoAttempt
    <3>. QED
      BY <3>1, <3>2
  <2>2. \A t1, t2 \in CreateSequences :
            t1 # t2 /\ attempts'[t1].unit # 0 => attempts'[t1].unit # attempts'[t2].unit
    BY <1>0, <1>2, <2>1 DEF TableInv, UnitsBoundOnce
  <2>. QED
    BY <1>0, <1>3, <2>2 DEF TableInv, UnitsBoundOnce
<1>9. UnprovenStillRuns'
  BY <1>2, <1>3 DEF TableInv, UnprovenStillRuns, MayWriteAttempt, Settled
<1>10. GrantsCurrent
  BY <1>0 DEF GrantsCurrent
<1>. QED
  BY <1>1, <1>4, <1>5, <1>6, <1>7, <1>8, <1>9, <1>10 DEF TableStep, TableInv

\* Only the principal is written.
LEMMA PrincipalWritten ==
  ASSUME TableInv, PrincipalRises, UNCHANGED <<jobs, attempts, orphans>>
  PROVE  TableStep
<1>1. TableTypeOK /\ TableTypeOK'
  BY DEF TableInv, TableTypeOK, PrincipalRises
<1>2. Known' = Known /\ DOMAIN attempts = CreateSequences /\ DOMAIN jobs = Jobs
  BY <1>1, Domains DEF Known
<1>3. principal.highWater \in Int /\ principal'.highWater \in Int
  BY <1>1, Bounds DEF TableTypeOK, Principal
<1>4. \A j \in Jobs : jobs[j].attempt \in Int
  BY <1>1, Bounds DEF TableTypeOK, Job
<1>5. \A j \in Jobs : jobs'[j].attempt <= principal'.highWater
  BY <1>3, <1>4 DEF TableInv, PrincipalRises
<1>6. SequencesIssued'
  BY <1>2, <1>3, Identities DEF TableInv, SequencesIssued, PrincipalRises
<1>7. RowsLoad' /\ UnitsBoundOnce' /\ UnprovenStillRuns'
  BY <1>2 DEF TableInv, RowsLoad, UnitsBoundOnce, UnprovenStillRuns
<1>8. GrantsCurrent
  BY DEF GrantsCurrent
<1>. QED
  BY <1>1, <1>2, <1>5, <1>6, <1>7, <1>8 DEF TableStep, TableInv

----------------------------------------------------------------------------
(* The operations that write one job.                                      *)

\* What the rows of the invariant say of one job.
LEMMA JobFacts ==
  ASSUME TableInv, NEW j \in Jobs
  PROVE  /\ jobs[j] \in Job /\ JobLoads(jobs[j])
         /\ jobs[j].state = "running" =>
               /\ jobs[j].current \in Known
               /\ attempts[jobs[j].current].job = j
               /\ attempts[jobs[j].current].number = jobs[j].attempt
  BY Domains DEF TableInv, TableTypeOK, RowsLoad

\* create, activate_source and request_cancel.
LEMMA SubmissionStep ==
  ASSUME TableInv, NEW j \in Jobs, create(j) \/ activate_source(j) \/ request_cancel(j)
  PROVE  TableStep
<1>1. jobs[j] \in Job /\ JobLoads(jobs[j])
  BY JobFacts
<1>2. CASE create(j)
  <2>. DEFINE new == [jobs[j] EXCEPT !.state = "queued"]
  <2>1. MayWriteJob(j, new)
    BY <1>1, <1>2 DEF create, MayWriteJob, Job, JobLoads, ActiveStates, OutcomeStates
  <2>. QED
    BY <2>1, <1>2, JobRowWritten DEF create, TableInv, TableTypeOK
<1>3. CASE activate_source(j)
  <2>. DEFINE new == [jobs[j] EXCEPT !.sourceReady = TRUE]
  <2>1. MayWriteJob(j, new)
    BY <1>1, <1>3 DEF activate_source, MayWriteJob, Job, JobLoads
  <2>. QED
    BY <2>1, <1>3, JobRowWritten DEF activate_source, TableInv, TableTypeOK
<1>4. CASE request_cancel(j)
  <2>. DEFINE new == IF jobs[j].state = "queued"
                     THEN [jobs[j] EXCEPT !.state = "cancelled", !.cancel = FALSE]
                     ELSE [jobs[j] EXCEPT !.cancel = TRUE]
  <2>1. MayWriteJob(j, new)
    BY <1>1, <1>4 DEF request_cancel, MayWriteJob, Job, JobLoads, ActiveStates, OutcomeStates
  <2>. QED
    BY <2>1, <1>4, JobRowWritten DEF request_cancel, TableInv, TableTypeOK
<1>. QED
  BY <1>2, <1>3, <1>4

\* An attempt whose worker owns it is known, and is the one that its job runs.
LEMMA OwnedFacts ==
  ASSUME TableInv, NEW w, NEW s, Owned_current(w, s)
  PROVE  /\ s \in CreateSequences /\ s \in Known /\ attempts[s] \in Attempt
         /\ AttemptLoads(attempts[s])
         /\ attempts[s].job \in Jobs
         /\ jobs[attempts[s].job].state = "running"
         /\ jobs[attempts[s].job].current = s
  BY Domains DEF TableInv, TableTypeOK, RowsLoad, Owned_current, Known, Attempt

LEMMA HeartbeatStep ==
  ASSUME TableInv, NEW w, NEW s, heartbeat(w, s)
  PROVE  TableStep
<1>. DEFINE j == attempts[s].job
            new == [jobs[j] EXCEPT !.lapsed = FALSE]
<1>1. j \in Jobs /\ jobs[j].state = "running"
  BY OwnedFacts DEF heartbeat
<1>2. MayWriteJob(j, new)
  BY <1>1, JobFacts DEF MayWriteJob, Job, JobLoads
<1>. QED
  BY <1>1, <1>2, JobRowWritten DEF heartbeat, TableInv, TableTypeOK

\* The rows that _finish writes load.
LEMMA ClearedRow ==
  ASSUME NEW job \in Job
  PROVE  /\ ClearedLease(job) \in Job
         /\ ClearedLease(job).current = 0
         /\ ClearedLease(job).attempt = job.attempt
<1>1. 0 \in 0 .. MaxSequence
  BY Bounds
<1>2. [job EXCEPT !.current = 0, !.lapsed = FALSE, !.cancel = FALSE] \in Job
  BY <1>1 DEF Job
<1>. QED
  BY <1>2 DEF ClearedLease, Job

LEMMA FailedRow ==
  ASSUME NEW job \in Job,
         NEW row, row = [ClearedLease(job) EXCEPT !.state = "failed", !.result = 0,
                                                  !.error = TRUE]
  PROVE  row \in Job /\ JobLoads(row) /\ row.attempt = job.attempt /\ row.state # "running"
  BY ClearedRow, Bounds DEF Job, JobLoads, OutcomeStates

LEMMA UnfailedRow ==
  ASSUME NEW job \in Job, NEW e \in {"succeeded", "cancelled"}, NEW r \in 0 .. MaxSequence,
         e = "succeeded" <=> r # 0,
         NEW row, row = [ClearedLease(job) EXCEPT !.state = e, !.result = r, !.error = FALSE]
  PROVE  row \in Job /\ JobLoads(row) /\ row.attempt = job.attempt /\ row.state # "running"
<1>1. row \in Job
  BY ClearedRow, Bounds DEF Job, OutcomeStates
<1>2. JobLoads(row) /\ row.attempt = job.attempt /\ row.state # "running"
  BY ClearedRow DEF Job, JobLoads
<1>. QED
  BY <1>1, <1>2

\* An outcome needs the proof of whatever was asked for, and a cancellation
\* that was asked for replaces a success.
LEMMA FinishStep ==
  ASSUME TableInv, NEW w, NEW s, NEW outcome \in OutcomeStates, finish(w, s, outcome)
  PROVE  TableStep
<1>. DEFINE j == attempts[s].job
            new == FinishedJob(jobs[j], outcome)
            effective == IF jobs[j].cancel THEN "cancelled" ELSE outcome
            result == IF effective = "succeeded" THEN jobs[j].attempt ELSE 0
<1>1. /\ j \in Jobs /\ jobs[j].state = "running" /\ jobs[j].current = s
      /\ attempts[s] \in Attempt
  BY OwnedFacts DEF finish
<1>2. /\ jobs[j] \in Job /\ JobLoads(jobs[j])
      /\ attempts[s].number = jobs[j].attempt
  BY <1>1, JobFacts
<1>3. effective \in OutcomeStates /\ result \in 0 .. MaxSequence
      /\ (effective = "succeeded" <=> result # 0)
  BY <1>1, <1>2, Bounds DEF Job, JobLoads, OutcomeStates
<1>4. new \in Job /\ JobLoads(new) /\ new.attempt = jobs[j].attempt /\ new.state # "running"
  <2>. HIDE DEF effective, result
  <2>1. new = [ClearedLease(jobs[j]) EXCEPT !.state = effective, !.result = result,
                                            !.error = (effective = "failed")]
    BY DEF FinishedJob, effective, result
  <2>2. jobs[j] \in Job
    BY <1>2
  <2>. HIDE DEF new
  <2>3. CASE effective = "failed"
    <3>1. (effective = "failed") = TRUE /\ result = 0
      BY <2>3, <1>3
    <3>. QED
      BY <2>1, <2>2, <2>3, <3>1, FailedRow, Zenon
  <2>4. CASE effective # "failed"
    <3>1. (effective = "failed") = FALSE
      BY <2>4
    <3>2. new = [ClearedLease(jobs[j]) EXCEPT !.state = effective, !.result = result,
                                              !.error = FALSE]
      BY <2>1, <3>1, Zenon
    <3>3. effective \in {"succeeded", "cancelled"}
      BY <2>4, <1>3 DEF OutcomeStates
    <3>. QED
      BY <1>3, <2>2, <3>2, <3>3, UnfailedRow, Zenon
  <2>. QED
    BY <2>3, <2>4
<1>5. new.state = "succeeded" => ~jobs[j].cancel /\ new.result = jobs[j].attempt
  BY <1>2 DEF FinishedJob, ClearedLease, Job
<1>6. Settled(attempts[s])
  BY <1>1 DEF finish, Provable, Settled, Attempt
<1>7. MayWriteJob(j, new)
  BY <1>1, <1>2, <1>4, <1>5, <1>6 DEF MayWriteJob
<1>. QED
  BY <1>1, <1>7, JobRowWritten DEF finish, TableInv, TableTypeOK

\* expire_terminal, complete_cleanup and the passing of time.
LEMMA RetentionStep ==
  ASSUME TableInv, NEW j \in Jobs, NEW w \in Workers,
         expire_terminal(w, j) \/ complete_cleanup(w, j)
  PROVE  TableStep
<1>1. jobs[j] \in Job /\ JobLoads(jobs[j])
  BY JobFacts
<1>2. CASE expire_terminal(w, j)
  <2>. DEFINE new == [jobs[j] EXCEPT !.state = "expired", !.result = 0, !.error = FALSE,
                                     !.cleaner = w, !.cleanLapsed = FALSE]
  <2>1. MayWriteJob(j, new)
    BY <1>1, <1>2, Bounds
    DEF expire_terminal, Expirable, MayWriteJob, Job, JobLoads, OutcomeStates
  <2>. QED
    BY <2>1, <1>2, JobRowWritten DEF expire_terminal, TableInv, TableTypeOK
<1>3. CASE complete_cleanup(w, j)
  <2>. DEFINE new == [jobs[j] EXCEPT !.cleaned = TRUE, !.cleaner = NULL, !.cleanLapsed = FALSE]
  <2>1. MayWriteJob(j, new)
    BY <1>1, <1>3 DEF complete_cleanup, MayWriteJob, Job, JobLoads
  <2>. QED
    BY <2>1, <1>3, JobRowWritten DEF complete_cleanup, TableInv, TableTypeOK
<1>. QED
  BY <1>2, <1>3

LEMMA JobTimeStep ==
  ASSUME TableInv, NEW j \in Jobs,
         LeaseLapses(j) \/ UploadGrowsOld(j) \/ RetentionEnds(j) \/ CleanupLapses(j)
  PROVE  TableStep
<1>1. jobs[j] \in Job /\ JobLoads(jobs[j])
  BY JobFacts
<1>2. CASE LeaseLapses(j)
  <2>1. MayWriteJob(j, [jobs[j] EXCEPT !.lapsed = TRUE])
    BY <1>1, <1>2 DEF LeaseLapses, MayWriteJob, Job, JobLoads
  <2>. QED
    BY <2>1, <1>2, JobRowWritten DEF LeaseLapses, TableInv, TableTypeOK
<1>3. CASE UploadGrowsOld(j)
  <2>1. MayWriteJob(j, [jobs[j] EXCEPT !.stale = TRUE])
    BY <1>1, <1>3 DEF UploadGrowsOld, MayWriteJob, Job, JobLoads
  <2>. QED
    BY <2>1, <1>3, JobRowWritten DEF UploadGrowsOld, TableInv, TableTypeOK
<1>4. CASE RetentionEnds(j)
  <2>1. MayWriteJob(j, [jobs[j] EXCEPT !.due = TRUE])
    BY <1>1, <1>4 DEF RetentionEnds, MayWriteJob, Job, JobLoads, OutcomeStates
  <2>. QED
    BY <2>1, <1>4, JobRowWritten DEF RetentionEnds, TableInv, TableTypeOK
<1>5. CASE CleanupLapses(j)
  <2>1. \/ jobs[j].state = "running"
        \/ jobs[j].state # "running"
    OBVIOUS
  <2>2. MayWriteJob(j, [jobs[j] EXCEPT !.cleanLapsed = TRUE])
    BY <1>1, <1>5 DEF CleanupLapses, MayWriteJob, Job, JobLoads
  <2>. QED
    BY <2>2, <1>5, JobRowWritten DEF CleanupLapses, TableInv, TableTypeOK
<1>. QED
  BY <1>2, <1>3, <1>4, <1>5

----------------------------------------------------------------------------
(* The operations that write one attempt.                                  *)

\* An unchanged principal rises.
LEMMA PrincipalStays ==
  ASSUME TableInv, principal' = principal
  PROVE  PrincipalRises
  BY Bounds DEF TableInv, TableTypeOK, Principal, PrincipalRises

LEMMA IntentStep ==
  ASSUME TableInv, NEW w, NEW s, reserve_create_intent(w, s)
  PROVE  TableStep
<1>. DEFINE new == [attempts[s] EXCEPT !.intent = TRUE]
<1>1. /\ s \in CreateSequences /\ s \in Known /\ attempts[s] \in Attempt
      /\ AttemptLoads(attempts[s])
      /\ jobs[attempts[s].job].state = "running"
      /\ jobs[attempts[s].job].current = s
  BY OwnedFacts DEF reserve_create_intent
<1>2. new \in Attempt /\ AttemptLoads(new)
  BY <1>1 DEF Attempt, AttemptLoads
<1>3. new.unit = 0 \/ ~UnitTaken(s, new.unit)
  BY <1>1, Domains DEF TableInv, UnitsBoundOnce, UnitTaken, Known, Attempt
<1>4. MayWriteAttempt(s, new)
  BY <1>1, <1>2, <1>3 DEF MayWriteAttempt, Attempt
<1>. QED
  BY <1>4, PrincipalStays, AttemptRowWritten DEF reserve_create_intent, TableInv, TableTypeOK

LEMMA UnitStep ==
  ASSUME TableInv, NEW w, NEW s, NEW u \in UnitIds, record_broker_unit(w, s, u)
  PROVE  TableStep
<1>. DEFINE new == [attempts[s] EXCEPT !.unit = u]
<1>1. /\ s \in CreateSequences /\ s \in Known /\ attempts[s] \in Attempt
      /\ AttemptLoads(attempts[s])
      /\ jobs[attempts[s].job].state = "running"
      /\ jobs[attempts[s].job].current = s
  BY OwnedFacts DEF record_broker_unit
<1>2. u \in 0 .. MaxUnits /\ u # 0
  BY Identities
<1>3. new \in Attempt /\ AttemptLoads(new)
  BY <1>1, <1>2 DEF record_broker_unit, Attempt, AttemptLoads
<1>4. MayWriteAttempt(s, new)
  BY <1>1, <1>3 DEF record_broker_unit, MayWriteAttempt, Attempt
<1>. QED
  BY <1>4, PrincipalStays, AttemptRowWritten DEF record_broker_unit, TableInv, TableTypeOK

\* What the invariant says of one known attempt.
LEMMA KnownFacts ==
  ASSUME TableInv, NEW s \in Known
  PROVE  /\ s \in CreateSequences /\ attempts[s] \in Attempt /\ AttemptLoads(attempts[s])
         /\ attempts[s].unit = 0 \/ ~UnitTaken(s, attempts[s].unit)
         /\ \/ Settled(attempts[s])
            \/ /\ jobs[attempts[s].job].state = "running"
               /\ jobs[attempts[s].job].current = s
<1>1. s \in CreateSequences /\ DOMAIN attempts = CreateSequences
  BY Domains DEF TableInv, Known
<1>2. attempts[s] \in Attempt /\ AttemptLoads(attempts[s])
  BY <1>1 DEF TableInv, TableTypeOK, RowsLoad
<1>3. attempts[s].unit = 0 \/ ~UnitTaken(s, attempts[s].unit)
  BY <1>1 DEF TableInv, UnitsBoundOnce, UnitTaken, Known
<1>4. \/ Settled(attempts[s])
      \/ jobs[attempts[s].job].state = "running" /\ jobs[attempts[s].job].current = s
  BY <1>2 DEF TableInv, UnprovenStillRuns, Settled
<1>. QED
  BY <1>1, <1>2, <1>3, <1>4

\* The proofs of terminations, the recovery leases and their ends.
LEMMA TerminationStep ==
  ASSUME TableInv, NEW w, NEW s, NEW u \in UnitIds,
         \/ record_active_termination_proof(w, s, u)
         \/ record_recovery_termination_proof(w, s, u)
         \/ acknowledge_termination_proof(s, u)
  PROVE  TableStep
<1>1. s \in Known
  BY OwnedFacts DEF record_active_termination_proof, record_recovery_termination_proof,
                    RecoveryHeld, acknowledge_termination_proof
<1>2. s \in CreateSequences /\ attempts[s] \in Attempt /\ AttemptLoads(attempts[s])
  BY <1>1, KnownFacts
<1>3. u \in 0 .. MaxUnits /\ u # 0
  BY Identities
<1>4. CASE record_active_termination_proof(w, s, u)
  <2>. DEFINE new == [attempts[s] EXCEPT !.unit = u, !.proof = u]
  <2>1. new \in Attempt /\ AttemptLoads(new)
    BY <1>2, <1>3, <1>4
    DEF record_active_termination_proof, ProofMatches, Attempt, AttemptLoads
  <2>2. MayWriteAttempt(s, new)
    BY <1>1, <1>2, <1>3, <1>4, <2>1
    DEF record_active_termination_proof, MayWriteAttempt, Attempt, Settled
  <2>3. attempts' = [attempts EXCEPT ![s] = new]
    BY <1>2, <1>4 DEF record_active_termination_proof, TableInv, TableTypeOK
  <2>. QED
    BY <2>2, <2>3, <1>4, PrincipalStays, AttemptRowWritten DEF record_active_termination_proof
<1>5. CASE record_recovery_termination_proof(w, s, u)
  <2>. DEFINE new == [attempts[s] EXCEPT !.unit = u, !.proof = u, !.recovery = NULL,
                                         !.recLapsed = FALSE]
  <2>1. new \in Attempt /\ AttemptLoads(new)
    BY <1>2, <1>3, <1>5
    DEF record_recovery_termination_proof, ProofMatches, Attempt, AttemptLoads
  <2>2. MayWriteAttempt(s, new)
    BY <1>1, <1>2, <1>3, <1>5, <2>1
    DEF record_recovery_termination_proof, MayWriteAttempt, Attempt, Settled
  <2>3. attempts' = [attempts EXCEPT ![s] = new]
    BY <1>2, <1>5 DEF record_recovery_termination_proof, TableInv, TableTypeOK
  <2>. QED
    BY <2>2, <2>3, <1>5, PrincipalStays, AttemptRowWritten
    DEF record_recovery_termination_proof
<1>6. CASE acknowledge_termination_proof(s, u)
  <2>. DEFINE new == [attempts[s] EXCEPT !.acked = TRUE]
  <2>1. new \in Attempt /\ AttemptLoads(new)
    BY <1>2, <1>6 DEF acknowledge_termination_proof, Attempt, AttemptLoads
  <2>2. new.unit = 0 \/ ~UnitTaken(s, new.unit)
    BY <1>1, <1>2, KnownFacts DEF Attempt
  <2>3. MayWriteAttempt(s, new)
    BY <1>1, <1>2, <1>6, <2>1, <2>2
    DEF acknowledge_termination_proof, MayWriteAttempt, Attempt, Settled
  <2>. QED
    BY <2>3, <1>6, PrincipalStays, AttemptRowWritten DEF acknowledge_termination_proof
<1>. QED
  BY <1>4, <1>5, <1>6

\* The rows that claim_recovery and the end of its lease write.
LEMMA RecoveryRow ==
  ASSUME TableInv, NEW s \in Known, NEW w \in Workers \cup {NULL}, NEW lapsed \in BOOLEAN,
         attempts' = [attempts EXCEPT ![s].recovery = w, ![s].recLapsed = lapsed],
         UNCHANGED <<jobs, principal, orphans>>
  PROVE  TableStep
<1>. DEFINE new == [attempts[s] EXCEPT !.recovery = w, !.recLapsed = lapsed]
<1>1. /\ s \in CreateSequences /\ attempts[s] \in Attempt /\ AttemptLoads(attempts[s])
      /\ attempts[s].unit = 0 \/ ~UnitTaken(s, attempts[s].unit)
      /\ \/ Settled(attempts[s])
         \/ /\ jobs[attempts[s].job].state = "running"
            /\ jobs[attempts[s].job].current = s
  BY KnownFacts
<1>2. MayWriteAttempt(s, new)
  BY <1>1 DEF MayWriteAttempt, Attempt, AttemptLoads, Settled
<1>3. attempts' = [attempts EXCEPT ![s] = new]
  BY <1>1 DEF TableInv, TableTypeOK
<1>. QED
  BY <1>2, <1>3, PrincipalStays, AttemptRowWritten

LEMMA RecoveryClaimStep ==
  ASSUME TableInv, NEW w \in Workers, NEW s, claim_recovery(w, s)
  PROVE  TableStep
<1>1. s \in Known
  BY DEF claim_recovery, Recoverable
<1>. QED
  BY <1>1, RecoveryRow DEF claim_recovery

LEMMA RecoveryLapseStep ==
  ASSUME TableInv, NEW s \in CreateSequences, RecoveryLapses(s)
  PROVE  TableStep
<1>1. s \in Known
  BY DEF RecoveryLapses, TableInv, NoAttempt
<1>2. attempts[s] \in Attempt /\ attempts \in [CreateSequences -> Attempt]
  BY <1>1, KnownFacts DEF TableInv, TableTypeOK
<1>3. attempts' = [attempts EXCEPT ![s].recovery = attempts[s].recovery, ![s].recLapsed = TRUE]
      /\ attempts[s].recovery \in Workers \cup {NULL}
  BY <1>2 DEF RecoveryLapses, Attempt
<1>. QED
  BY <1>1, <1>3, RecoveryRow DEF RecoveryLapses

----------------------------------------------------------------------------
(* Reconciliation.                                                         *)

\* A proof of a sequence that no attempt has: no other sequence keeps it, and
\* the high water is not below it.
LEMMA OrphanRowWritten ==
  ASSUME TableInv, NEW s \in CreateSequences, s \notin Known,
         NEW new \in Orphan, orphans' = [orphans EXCEPT ![s] = new],
         \A t \in CreateSequences \ {s} : new.unit # 0 => orphans[t].unit # new.unit,
         PrincipalRises, s <= principal'.highWater,
         UNCHANGED <<jobs, attempts>>
  PROVE  TableStep
<1>1. TableTypeOK /\ TableTypeOK'
  BY DEF TableInv, TableTypeOK, PrincipalRises
<1>2. /\ Known' = Known /\ DOMAIN attempts = CreateSequences /\ DOMAIN jobs = Jobs
      /\ orphans'[s] = new /\ \A t \in CreateSequences \ {s} : orphans'[t] = orphans[t]
  BY <1>1, Domains DEF Known, TableTypeOK
<1>3. principal.highWater \in Int /\ principal'.highWater \in Int
  BY <1>1, Bounds DEF TableTypeOK, Principal
<1>4. \A j \in Jobs : jobs'[j].attempt <= principal'.highWater
  <2>1. \A j \in Jobs : jobs[j].attempt \in Int
    BY <1>1, Bounds DEF TableTypeOK, Job
  <2>. QED
    BY <1>3, <2>1 DEF TableInv, PrincipalRises
<1>5. SequencesIssued'
  BY <1>2, <1>3, Identities DEF TableInv, SequencesIssued, PrincipalRises
<1>6. UnitsBoundOnce'
  BY <1>2 DEF TableInv, UnitsBoundOnce
<1>7. RowsLoad' /\ UnprovenStillRuns'
  BY <1>2 DEF TableInv, RowsLoad, UnprovenStillRuns
<1>8. GrantsCurrent
  BY DEF GrantsCurrent
<1>. QED
  BY <1>1, <1>2, <1>4, <1>5, <1>6, <1>7, <1>8 DEF TableStep, TableInv

\* begin_reconciliation, complete_reconciliation and the end of its lease.
LEMMA ReconciliationLeaseStep ==
  ASSUME TableInv, NEW w \in Workers,
         begin_reconciliation(w) \/ complete_reconciliation(w) \/ ReconciliationLapses
  PROVE  TableStep
<1>1. /\ principal \in Principal /\ principal.highWater \in Int
      /\ 0 \in 0 .. MaxSequence /\ -1 \in -1 .. MaxSequence
  BY Bounds DEF TableInv, TableTypeOK, Principal
<1>2. ASSUME principal' \in Principal, principal'.highWater = principal.highWater
      PROVE  PrincipalRises
  BY <1>1, <1>2 DEF PrincipalRises
<1>3. PrincipalRises
  <2>1. CASE begin_reconciliation(w) /\ principal.token = w
    <3>1. principal' = [principal EXCEPT !.complete = FALSE, !.lapsed = FALSE]
      BY <2>1 DEF begin_reconciliation
    <3>. QED
      BY <1>1, <1>2, <3>1 DEF Principal
  <2>2. CASE begin_reconciliation(w) /\ principal.token # w
    <3>1. principal' = [principal EXCEPT !.complete = FALSE, !.lapsed = FALSE, !.token = w,
                                         !.cursor = 0, !.head = -1, !.fixed = FALSE]
      BY <2>2 DEF begin_reconciliation
    <3>. QED
      BY <1>1, <1>2, <3>1 DEF Principal
  <2>3. CASE complete_reconciliation(w)
    <3>1. principal' = [principal EXCEPT !.complete = TRUE, !.token = NULL, !.lapsed = FALSE]
      BY <2>3 DEF complete_reconciliation
    <3>. QED
      BY <1>1, <1>2, <3>1 DEF Principal
  <2>4. CASE ReconciliationLapses
    <3>1. principal' = [principal EXCEPT !.lapsed = TRUE]
      BY <2>4 DEF ReconciliationLapses
    <3>. QED
      BY <1>1, <1>2, <3>1 DEF Principal
  <2>. QED
    BY <2>1, <2>2, <2>3, <2>4
<1>. QED
  BY <1>3, PrincipalWritten
  DEF begin_reconciliation, complete_reconciliation, ReconciliationLapses

\* A page raises the high water at least to the sequence of its tombstone.
LEMMA PageRaises ==
  ASSUME TableInv, NEW w, NEW cursor, NEW s \in 0 .. MaxSequence, NEW h \in 0 .. MaxSequence,
         NEW u \in 0 .. MaxUnits, record_reconciliation_page(w, cursor, s, u, h)
  PROVE  PrincipalRises /\ h <= principal'.highWater
<1>1. principal \in Principal /\ MaxSequence \in Nat /\ -1 \in -1 .. MaxSequence
      /\ h \in -1 .. MaxSequence
  BY Bounds DEF TableInv, TableTypeOK
<1>. DEFINE raised == IF h > principal.highWater THEN h ELSE principal.highWater
<1>2. raised \in 0 .. MaxSequence /\ raised >= principal.highWater /\ raised >= h
  BY <1>1 DEF Principal
<1>3. CASE u # 0
  <2>1. principal' = [principal EXCEPT !.highWater = raised, !.cursor = s,
                                       !.head = -1, !.fixed = FALSE]
    BY <1>3 DEF record_reconciliation_page
  <2>. HIDE DEF raised
  <2>2. principal' \in Principal
    BY <1>1, <1>2, <2>1 DEF Principal
  <2>3. principal'.highWater = raised
    BY <1>1, <2>1 DEF Principal
  <2>. QED
    BY <1>2, <2>2, <2>3 DEF PrincipalRises
<1>4. CASE u = 0
  <2>1. principal' = [principal EXCEPT !.highWater = raised, !.head = h,
                                       !.fixed = (principal.head = h)]
    BY <1>4 DEF record_reconciliation_page
  <2>2. PICK same \in BOOLEAN :
               principal' = [principal EXCEPT !.highWater = raised, !.head = h, !.fixed = same]
    BY <2>1
  <2>. HIDE DEF raised
  <2>3. principal' \in Principal
    BY <1>1, <1>2, <2>2 DEF Principal
  <2>4. principal'.highWater = raised
    BY <1>1, <2>2 DEF Principal
  <2>. QED
    BY <1>2, <2>3, <2>4 DEF PrincipalRises
<1>. QED
  BY <1>3, <1>4

LEMMA PageStep ==
  ASSUME TableInv, NEW w, NEW cursor \in 0 .. MaxSequence, NEW s \in 0 .. MaxSequence,
         NEW h \in 0 .. MaxSequence, NEW u \in 0 .. MaxUnits,
         u # 0 => s > cursor /\ s <= h,
         record_reconciliation_page(w, cursor, s, u, h)
  PROVE  TableStep
<1>1. PrincipalRises /\ h <= principal'.highWater
  BY PageRaises
<1>2. principal'.highWater \in Int
  BY <1>1, Bounds DEF PrincipalRises, Principal
<1>3. CASE u = 0
  BY <1>1, <1>3, PrincipalWritten DEF record_reconciliation_page
<1>4. CASE u # 0 /\ s \in Known
  <2>. DEFINE new == [attempts[s] EXCEPT !.intent = TRUE, !.unit = u, !.proof = u,
                                         !.ackIntent = TRUE]
  <2>1. attempts[s] \in Attempt /\ AttemptLoads(attempts[s])
    BY <1>4, KnownFacts
  <2>2. new \in Attempt /\ AttemptLoads(new)
    BY <1>4, <2>1 DEF Attempt, AttemptLoads
  <2>3. MayWriteAttempt(s, new)
    BY <1>4, <2>1, <2>2
    DEF record_reconciliation_page, TombstoneFits, MayWriteAttempt, Attempt, Settled
  <2>4. attempts' = [attempts EXCEPT ![s] = new] /\ UNCHANGED <<jobs, orphans>>
    BY <1>4 DEF record_reconciliation_page, RetainTombstone
  <2>. QED
    BY <1>1, <2>3, <2>4, AttemptRowWritten
<1>5. CASE u # 0 /\ s \notin Known
  <2>. DEFINE new == [orphans[s] EXCEPT !.unit = u]
  <2>1. s \in CreateSequences /\ s <= principal'.highWater
    BY <1>1, <1>2, <1>5, Bounds DEF CreateSequences
  <2>2. orphans[s] \in Orphan
    BY <2>1 DEF TableInv, TableTypeOK
  <2>3. new \in Orphan /\ new.unit = u
    BY <2>2 DEF Orphan
  <2>4. \A t \in CreateSequences \ {s} : orphans[t].unit # u
    BY <1>5 DEF record_reconciliation_page, TombstoneFits
  <2>5. orphans' = [orphans EXCEPT ![s] = new] /\ UNCHANGED <<jobs, attempts>>
    BY <1>5, <2>1 DEF record_reconciliation_page, RetainTombstone, TableInv, TableTypeOK
  <2>. HIDE DEF new
  <2>. QED
    BY <1>1, <1>5, <2>1, <2>3, <2>4, <2>5, OrphanRowWritten
<1>. QED
  BY <1>3, <1>4, <1>5

\* mark_reconciliation_acknowledged, for an attempt or for an orphaned proof.
LEMMA MarkStep ==
  ASSUME TableInv, NEW w, NEW s \in CreateSequences, NEW u \in UnitIds,
         mark_reconciliation_acknowledged(w, s, u)
  PROVE  TableStep
<1>1. u \in 0 .. MaxUnits /\ u # 0
  BY Identities
<1>2. CASE s \in Known
  <2>. DEFINE new == [attempts[s] EXCEPT !.acked = TRUE]
  <2>1. /\ attempts[s] \in Attempt /\ AttemptLoads(attempts[s])
        /\ attempts[s].unit = 0 \/ ~UnitTaken(s, attempts[s].unit)
    BY <1>2, KnownFacts
  <2>2. new \in Attempt /\ AttemptLoads(new)
    BY <1>1, <1>2, <2>1 DEF mark_reconciliation_acknowledged, Attempt, AttemptLoads
  <2>3. MayWriteAttempt(s, new)
    BY <1>1, <1>2, <2>1, <2>2
    DEF mark_reconciliation_acknowledged, MayWriteAttempt, Attempt, Settled
  <2>4. /\ attempts' = [attempts EXCEPT ![s] = new]
        /\ UNCHANGED <<jobs, orphans>> /\ principal' = principal
    BY <1>2 DEF mark_reconciliation_acknowledged
  <2>. QED
    BY <2>3, <2>4, PrincipalStays, AttemptRowWritten
<1>3. CASE s \notin Known
  <2>. DEFINE new == [orphans[s] EXCEPT !.acked = TRUE]
  <2>1. TableTypeOK /\ DOMAIN attempts = CreateSequences
    BY Domains DEF TableInv
  <2>2. orphans[s] \in Orphan /\ orphans[s].unit = u
    BY <1>3, <2>1 DEF mark_reconciliation_acknowledged, TableTypeOK
  <2>3. new \in Orphan /\ new.unit = u
    BY <2>2 DEF Orphan
  <2>4. /\ orphans' = [orphans EXCEPT ![s] = new]
        /\ UNCHANGED <<jobs, attempts>> /\ principal' = principal
    BY <1>3 DEF mark_reconciliation_acknowledged
  <2>5. s <= principal'.highWater
    BY <1>1, <2>1, <2>2, <2>4 DEF TableInv, SequencesIssued
  <2>6. \A t \in CreateSequences \ {s} : new.unit # 0 => orphans[t].unit # new.unit
    BY <1>1, <2>1, <2>2, <2>3 DEF TableInv, UnitsBoundOnce
  <2>7. PrincipalRises
    BY <2>4, PrincipalStays
  <2>. HIDE DEF new
  <2>. QED
    BY <1>3, <2>3, <2>4, <2>5, <2>6, <2>7, OrphanRowWritten
<1>. QED
  BY <1>2, <1>3

\* A batch of attempts whose proofs are not acknowledged gets its intents.
LEMMA PendingStep ==
  ASSUME TableInv, NEW w, pending_reconciliation_acknowledgements(w)
  PROVE  TableStep
<1>1. TableTypeOK /\ DOMAIN attempts = CreateSequences /\ DOMAIN jobs = Jobs
  BY Domains DEF TableInv
<1>2. ASSUME NEW s \in CreateSequences
      PROVE  /\ attempts'[s] \in Attempt /\ AttemptLoads(attempts'[s])
             /\ attempts'[s].job = attempts[s].job /\ attempts'[s].number = attempts[s].number
             /\ attempts'[s].unit = attempts[s].unit /\ attempts'[s].proof = attempts[s].proof
             /\ attempts'[s].intent = attempts[s].intent
             /\ attempts[s].proof = 0 => attempts'[s] = attempts[s]
  <2>1. attempts[s] \in Attempt /\ AttemptLoads(attempts[s])
    BY <1>1 DEF TableInv, TableTypeOK, RowsLoad
  <2>2. CASE s \in FirstBatch(PendingAttempts)
    <3>1. attempts'[s] = [attempts[s] EXCEPT !.ackIntent = TRUE] /\ attempts[s].proof # 0
      BY <2>2 DEF pending_reconciliation_acknowledgements, FirstBatch, PendingAttempts
    <3>. QED
      BY <2>1, <3>1 DEF Attempt, AttemptLoads
  <2>3. CASE s \notin FirstBatch(PendingAttempts)
    BY <2>1, <2>3 DEF pending_reconciliation_acknowledgements
  <2>. QED
    BY <2>2, <2>3
<1>3. UNCHANGED <<jobs, principal, orphans>>
  BY DEF pending_reconciliation_acknowledgements
<1>4. attempts' \in [CreateSequences -> Attempt]
  BY <1>2 DEF pending_reconciliation_acknowledgements
<1>5. TableTypeOK'
  BY <1>1, <1>3, <1>4 DEF TableTypeOK
<1>6. Known' = Known /\ DOMAIN attempts' = CreateSequences
  BY <1>1, <1>2, <1>4 DEF Known
<1>7. \A s \in CreateSequences : s \notin Known' => attempts'[s] = NoAttempt
  BY <1>2, <1>6 DEF TableInv, NoAttempt
<1>8. RowsLoad'
  BY <1>1, <1>2, <1>3, <1>6 DEF TableInv, RowsLoad, Known
<1>9. SequencesIssued' /\ UnitsBoundOnce'
  BY <1>1, <1>2, <1>3, <1>6 DEF TableInv, SequencesIssued, UnitsBoundOnce
<1>10. UnprovenStillRuns'
  BY <1>1, <1>2, <1>3, <1>6 DEF TableInv, UnprovenStillRuns, Known
<1>11. GrantsCurrent
  BY <1>3 DEF GrantsCurrent
<1>12. \A j \in Jobs : jobs'[j].attempt <= principal'.highWater
  BY <1>3 DEF TableInv
<1>. QED
  BY <1>5, <1>7, <1>8, <1>9, <1>10, <1>11, <1>12 DEF TableStep, TableInv

----------------------------------------------------------------------------
(* The operations that write jobs and attempts.                            *)

\* A claim draws a sequence that was never issued.
LEMMA ClaimStep ==
  ASSUME TableInv, NEW w \in Workers, NEW j \in Jobs, claim(w, j)
  PROVE  TableStep
<1>. DEFINE s == principal.highWater + 1
            job == ClaimedJob(jobs[j], s)
            attempt == [NoAttempt EXCEPT !.job = j, !.number = jobs[j].attempt + 1, !.worker = w]
<1>1. /\ TableTypeOK /\ DOMAIN attempts = CreateSequences /\ DOMAIN jobs = Jobs
      /\ principal \in Principal /\ jobs[j] \in Job /\ JobLoads(jobs[j])
      /\ jobs[j].state = "queued"
  BY Domains, JobFacts DEF TableInv, TableTypeOK, claim
<1>2. /\ principal.highWater \in Int /\ s \in CreateSequences /\ s \in 0 .. MaxSequence
      /\ s # 0 /\ s > principal.highWater
  BY <1>1, Bounds DEF claim, Principal, CreateSequences
<1>3. s \notin Known /\ orphans[s].unit = 0
  BY <1>1, <1>2 DEF TableInv, SequencesIssued
<1>4. jobs[j].attempt \in Int /\ jobs[j].attempt >= 0 /\ jobs[j].attempt + 1 \in 0 .. MaxSequence
      /\ jobs[j].attempt + 1 <= s
  BY <1>1, <1>2, Bounds DEF TableInv, Job
<1>5. /\ jobs' = [jobs EXCEPT ![j] = job]
      /\ attempts' = [attempts EXCEPT ![s] = attempt]
      /\ principal' = [principal EXCEPT !.highWater = s]
      /\ orphans' = orphans
  BY DEF claim
<1>6. /\ job \in Job /\ JobLoads(job) /\ job.state = "running" /\ job.current = s
      /\ job.attempt = jobs[j].attempt + 1
  <2>. HIDE DEF s
  <2>1. job = [jobs[j] EXCEPT !.state = "running", !.attempt = jobs[j].attempt + 1,
                              !.current = s, !.lapsed = FALSE, !.cancel = FALSE]
    BY <1>1 DEF ClaimedJob, Job
  <2>. HIDE DEF job
  <2>2. job \in Job
    BY <1>1, <1>2, <1>4, <2>1 DEF Job, ActiveStates
  <2>3. /\ job.state = "running" /\ job.current = s /\ job.attempt = jobs[j].attempt + 1
        /\ job.result = jobs[j].result /\ job.error = jobs[j].error
    BY <1>1, <2>1 DEF Job
  <2>4. JobLoads(job)
    BY <1>1, <1>2, <1>4, <2>3 DEF JobLoads
  <2>. QED
    BY <2>2, <2>3, <2>4
<1>7. /\ attempt \in Attempt /\ AttemptLoads(attempt) /\ attempt.job = j /\ attempt.job # NULL
      /\ attempt.number = jobs[j].attempt + 1 /\ attempt.unit = 0 /\ ~attempt.intent
  <2>1. NoAttempt \in Attempt
    BY Bounds DEF NoAttempt, Attempt
  <2>. QED
    BY <1>4, <2>1, Bounds DEF NoAttempt, Attempt, AttemptLoads
<1>8. principal' \in Principal /\ principal'.highWater = s
  BY <1>1, <1>2, <1>5 DEF Principal
<1>. HIDE DEF s, job, attempt
<1>9. TableTypeOK'
  BY <1>1, <1>5, <1>6, <1>7, <1>8 DEF TableTypeOK
<1>10. /\ jobs'[j] = job /\ \A k \in Jobs \ {j} : jobs'[k] = jobs[k]
       /\ attempts'[s] = attempt /\ \A t \in CreateSequences \ {s} : attempts'[t] = attempts[t]
       /\ DOMAIN jobs' = Jobs /\ DOMAIN attempts' = CreateSequences
  BY <1>1, <1>2, <1>5 DEF TableTypeOK
<1>11. Known' = Known \cup {s}
  BY <1>1, <1>2, <1>7, <1>10 DEF Known
<1>12. \A t \in CreateSequences : t \notin Known' => attempts'[t] = NoAttempt
  BY <1>10, <1>11 DEF TableInv
<1>13. \A k \in Jobs : jobs'[k].attempt <= principal'.highWater
  <2>1. \A k \in Jobs : jobs[k].attempt \in Int /\ jobs[k].attempt <= principal.highWater
    BY <1>1, Bounds DEF TableInv, TableTypeOK, Job
  <2>. QED
    BY <1>2, <1>4, <1>6, <1>8, <1>10, <2>1
<1>14. RowsLoad'
  <2>1. ASSUME NEW k \in Jobs \ {j}, jobs[k].state = "running"
        PROVE  /\ jobs[k].current \in Known /\ jobs[k].current # s
               /\ attempts[jobs[k].current].job = k
               /\ attempts[jobs[k].current].number = jobs[k].attempt
    BY <1>3, <2>1, JobFacts
  <2>2. \A k \in Jobs : JobLoads(jobs'[k])
    BY <1>1, <1>6, <1>10 DEF TableInv, RowsLoad
  <2>3. \A t \in CreateSequences : AttemptLoads(attempts'[t])
    BY <1>1, <1>7, <1>10 DEF TableInv, RowsLoad
  <2>4. ASSUME NEW k \in Jobs, jobs'[k].state = "running"
        PROVE  /\ jobs'[k].current \in Known'
               /\ attempts'[jobs'[k].current].job = k
               /\ attempts'[jobs'[k].current].number = jobs'[k].attempt
    <3>1. CASE k = j
      BY <1>6, <1>7, <1>10, <1>11, <3>1
    <3>2. CASE k # j
      <4>1. jobs[k].current \in CreateSequences \ {s}
        BY <1>1, <1>10, <2>1, <2>4, <3>2 DEF Known
      <4>. QED
        BY <1>10, <1>11, <2>1, <2>4, <3>2, <4>1
    <3>. QED
      BY <3>1, <3>2
  <2>. QED
    BY <1>10, <2>2, <2>3, <2>4 DEF RowsLoad
<1>15. SequencesIssued'
  BY <1>1, <1>2, <1>3, <1>5, <1>8, <1>10, <1>11, Identities DEF TableInv, SequencesIssued
<1>16. UnitsBoundOnce'
  BY <1>1, <1>5, <1>7, <1>10 DEF TableInv, UnitsBoundOnce
<1>17. UnprovenStillRuns'
  <2>1. ASSUME NEW t \in Known, attempts[t].intent, attempts[t].proof = 0
        PROVE  /\ attempts[t].job \in Jobs \ {j}
               /\ jobs[attempts[t].job].state = "running" /\ jobs[attempts[t].job].current = t
    <3>1. attempts[t].job \in Jobs
      BY <1>1 DEF TableTypeOK, Attempt, Known
    <3>. QED
      BY <1>1, <2>1, <3>1 DEF TableInv, UnprovenStillRuns
  <2>2. \A t \in Known : t \in CreateSequences \ {s}
    BY <1>1, <1>3 DEF Known
  <2>. QED
    BY <1>7, <1>10, <1>11, <2>1, <2>2 DEF UnprovenStillRuns
<1>18. GrantsCurrent
  BY <1>1, <1>6, <1>10 DEF GrantsCurrent
<1>. QED
  BY <1>9, <1>12, <1>13, <1>14, <1>15, <1>16, <1>17, <1>18 DEF TableStep, TableInv

\* What recover_expired_leases writes to one job: an attempt that is given back
\* is settled, and nobody is granted a success.
LEMMA RecoveredRow ==
  ASSUME TableInv, NEW returned, NEW failed, recover_expired_leases(returned, failed),
         NEW j \in Jobs
  PROVE  /\ jobs'[j] \in Job /\ JobLoads(jobs'[j])
         /\ jobs'[j].attempt = jobs[j].attempt
         /\ jobs'[j].state = "succeeded" => jobs[j].state = "succeeded"
         /\ \/ jobs'[j] = jobs[j] /\ j \notin returned
            \/ /\ jobs'[j].state # "running"
               /\ jobs[j].state = "running" => Settled(attempts[jobs[j].current])
<1>1. jobs[j] \in Job /\ JobLoads(jobs[j])
  BY JobFacts
<1>2. CASE j \in returned
  <2>1. jobs'[j] = RecoveredJob(jobs[j]) /\ Returnable(j)
    <3>1. jobs'[j] = CASE j \in returned -> RecoveredJob(jobs[j])
                       [] j \in failed -> [jobs[j] EXCEPT !.state = "failed", !.error = TRUE]
                       [] OTHER -> jobs[j]
      BY DEF recover_expired_leases
    <3>2. Returnable(j) /\ (j \in failed => Incomplete(j))
      BY <1>2 DEF recover_expired_leases
    <3>3. j \notin failed
      BY <3>2 DEF Returnable, Incomplete
    <3>. QED
      BY <1>2, <3>1, <3>2, <3>3
  <2>2. ClearedLease(jobs[j]) \in Job
        /\ ClearedLease(jobs[j]) = [jobs[j] EXCEPT !.current = 0, !.lapsed = FALSE,
                                                   !.cancel = FALSE]
    BY <1>1, ClearedRow DEF ClearedLease
  <2>3. PICK e \in {"cancelled", "queued"} :
               jobs'[j] = [ClearedLease(jobs[j]) EXCEPT !.state = e]
    BY <2>1 DEF RecoveredJob
  <2>4. jobs'[j] \in Job
    BY <2>2, <2>3 DEF Job, ActiveStates, OutcomeStates
  <2>5. /\ jobs'[j].state = e /\ jobs'[j].current = 0 /\ jobs'[j].attempt = jobs[j].attempt
        /\ jobs'[j].result = jobs[j].result /\ jobs'[j].error = jobs[j].error
    BY <1>1, <2>2, <2>3 DEF Job
  <2>6. JobLoads(jobs'[j])
    BY <1>1, <2>1, <2>5 DEF JobLoads, Returnable
  <2>7. Settled(attempts[jobs[j].current])
    BY <2>1 DEF Returnable, Settled
  <2>. QED
    BY <2>4, <2>5, <2>6, <2>7
<1>3. CASE j \notin returned /\ j \in failed
  <2>1. jobs'[j] = [jobs[j] EXCEPT !.state = "failed", !.error = TRUE] /\ Incomplete(j)
    BY <1>3 DEF recover_expired_leases
  <2>. QED
    BY <1>1, <2>1 DEF Incomplete, Job, JobLoads, OutcomeStates
<1>4. CASE j \notin returned /\ j \notin failed
  BY <1>1, <1>4 DEF recover_expired_leases
<1>. QED
  BY <1>2, <1>3, <1>4

LEMMA RecoverLeasesStep ==
  ASSUME TableInv, NEW returned, NEW failed, recover_expired_leases(returned, failed)
  PROVE  TableStep
<1>1. /\ TableTypeOK /\ DOMAIN attempts = CreateSequences /\ DOMAIN jobs = Jobs
      /\ UNCHANGED <<principal, orphans>>
  BY Domains DEF TableInv, recover_expired_leases
<1>2. ASSUME NEW s \in CreateSequences
      PROVE  /\ attempts'[s] \in Attempt /\ AttemptLoads(attempts'[s])
             /\ attempts'[s].job = attempts[s].job /\ attempts'[s].number = attempts[s].number
             /\ attempts'[s].unit = attempts[s].unit /\ attempts'[s].proof = attempts[s].proof
             /\ attempts'[s].intent = attempts[s].intent
             /\ s \notin Known => attempts'[s] = attempts[s]
  <2>1. attempts[s] \in Attempt /\ AttemptLoads(attempts[s])
    BY <1>1 DEF TableInv, TableTypeOK, RowsLoad
  <2>2. CASE attempts'[s] = attempts[s]
    BY <2>1, <2>2
  <2>3. CASE attempts'[s] = [attempts[s] EXCEPT !.recovery = NULL, !.recLapsed = FALSE]
    <3>1. s \notin Known => attempts'[s] = attempts[s]
      <4>1. ASSUME NEW j \in returned, jobs[j].current = s
            PROVE  s \in Known
        BY <4>1, JobFacts DEF recover_expired_leases, Returnable
      <4>. QED
        BY <4>1 DEF recover_expired_leases
    <3>. QED
      BY <2>1, <2>3, <3>1 DEF Attempt, AttemptLoads
  <2>. QED
    BY <2>2, <2>3 DEF recover_expired_leases
<1>3. attempts' \in [CreateSequences -> Attempt] /\ jobs' \in [Jobs -> Job]
  <2>. DEFINE A(s) == IF \E j \in returned : jobs[j].current = s
                      THEN [attempts[s] EXCEPT !.recovery = NULL, !.recLapsed = FALSE]
                      ELSE attempts[s]
              J(j) == CASE j \in returned -> RecoveredJob(jobs[j])
                        [] j \in failed -> [jobs[j] EXCEPT !.state = "failed", !.error = TRUE]
                        [] OTHER -> jobs[j]
  <2>1. attempts' = [s \in CreateSequences |-> A(s)] /\ jobs' = [j \in Jobs |-> J(j)]
    BY Zenon DEF recover_expired_leases
  <2>. HIDE DEF A, J
  <2>2. /\ \A s \in CreateSequences : attempts'[s] \in Attempt
        /\ \A j \in Jobs : jobs'[j] \in Job
    BY <1>2, RecoveredRow
  <2>3. /\ \A s \in CreateSequences : A(s) \in Attempt
        /\ \A j \in Jobs : J(j) \in Job
    BY <2>1, <2>2
  <2>. QED
    BY <2>1, <2>3
<1>4. TableTypeOK' /\ DOMAIN attempts' = CreateSequences /\ DOMAIN jobs' = Jobs
  BY <1>1, <1>3 DEF TableTypeOK
<1>5. Known' = Known
  BY <1>1, <1>2, <1>4 DEF Known
<1>6. \A s \in CreateSequences : s \notin Known' => attempts'[s] = NoAttempt
  BY <1>2, <1>5 DEF TableInv
<1>7. RowsLoad'
  <2>1. ASSUME NEW j \in Jobs, jobs'[j].state = "running"
        PROVE  /\ jobs'[j] = jobs[j] /\ jobs[j].current \in Known
               /\ attempts[jobs[j].current].job = j
               /\ attempts[jobs[j].current].number = jobs[j].attempt
    BY <2>1, RecoveredRow, JobFacts
  <2>. QED
    BY <1>1, <1>2, <1>4, <1>5, <2>1, RecoveredRow DEF RowsLoad, Known
<1>8. SequencesIssued' /\ UnitsBoundOnce'
  BY <1>1, <1>2, <1>4, <1>5 DEF TableInv, SequencesIssued, UnitsBoundOnce
<1>9. UnprovenStillRuns'
  <2>1. ASSUME NEW s \in Known, attempts[s].intent, attempts[s].proof = 0
        PROVE  /\ attempts[s].job \in Jobs
               /\ jobs'[attempts[s].job].state = "running"
               /\ jobs'[attempts[s].job].current = s
    <3>1. attempts[s].job \in Jobs
      BY <1>1 DEF TableTypeOK, Attempt, Known
    <3>2. jobs[attempts[s].job].state = "running" /\ jobs[attempts[s].job].current = s
      BY <2>1 DEF TableInv, UnprovenStillRuns
    <3>3. ~Settled(attempts[s])
      BY <2>1 DEF Settled
    <3>. QED
      BY <3>1, <3>2, <3>3, RecoveredRow
  <2>. QED
    BY <1>1, <1>2, <1>5, <2>1 DEF UnprovenStillRuns, Known
<1>10. GrantsCurrent
  BY <1>1, RecoveredRow DEF GrantsCurrent
<1>11. \A j \in Jobs : jobs'[j].attempt <= principal'.highWater
  BY <1>1, RecoveredRow DEF TableInv
<1>. QED
  BY <1>4, <1>6, <1>7, <1>8, <1>9, <1>10, <1>11 DEF TableStep, TableInv

----------------------------------------------------------------------------
(* The theorems.                                                           *)

LEMMA HolderStep ==
  ASSUME TableInv, NEW w \in Workers, Holder(w)
  PROVE  TableStep
<1>1. CASE \E j \in Jobs : claim(w, j)
  BY <1>1, ClaimStep
<1>2. CASE \E s \in CreateSequences : heartbeat(w, s)
  BY <1>2, HeartbeatStep
<1>3. CASE \E s \in CreateSequences : reserve_create_intent(w, s)
  BY <1>3, IntentStep
<1>4. CASE \E s \in CreateSequences, u \in UnitIds : record_broker_unit(w, s, u)
  BY <1>4, UnitStep
<1>5. CASE \E s \in CreateSequences, u \in UnitIds : record_active_termination_proof(w, s, u)
  BY <1>5, TerminationStep
<1>6. CASE \E s \in CreateSequences, outcome \in OutcomeStates : finish(w, s, outcome)
  BY <1>6, FinishStep
<1>. QED
  BY <1>1, <1>2, <1>3, <1>4, <1>5, <1>6 DEF Holder

LEMMA RecoveryStep ==
  ASSUME TableInv, NEW w \in Workers, Recovery(w)
  PROVE  TableStep
<1>1. CASE \E s \in CreateSequences : claim_recovery(w, s)
  BY <1>1, RecoveryClaimStep
<1>2. CASE \E s \in CreateSequences, u \in UnitIds :
              record_recovery_termination_proof(w, s, u) \/ acknowledge_termination_proof(s, u)
  BY <1>2, TerminationStep
<1>3. CASE \E returned, failed \in SUBSET Jobs : recover_expired_leases(returned, failed)
  BY <1>3, RecoverLeasesStep
<1>. QED
  BY <1>1, <1>2, <1>3 DEF Recovery

LEMMA ReconciliationStep ==
  ASSUME TableInv, NEW w \in Workers, Reconciliation(w)
  PROVE  TableStep
<1>1. CASE begin_reconciliation(w) \/ complete_reconciliation(w)
  BY <1>1, ReconciliationLeaseStep
<1>2. CASE \E cursor, s, h \in 0 .. MaxSequence, u \in 0 .. MaxUnits :
              /\ u # 0 => s > cursor /\ s <= h
              /\ record_reconciliation_page(w, cursor, s, u, h)
  BY <1>2, PageStep
<1>3. CASE pending_reconciliation_acknowledgements(w)
  BY <1>3, PendingStep
<1>4. CASE \E s \in CreateSequences, u \in UnitIds : mark_reconciliation_acknowledged(w, s, u)
  BY <1>4, MarkStep
<1>. QED
  BY <1>1, <1>2, <1>3, <1>4 DEF Reconciliation

\* Every step of the table, and every step that leaves it alone.
LEMMA NextStep ==
  ASSUME TableInv, [TableNext]_tableVars
  PROVE  TableStep
<1>1. CASE Submission
  BY <1>1, SubmissionStep DEF Submission
<1>2. CASE \E w \in Workers : Holder(w) \/ Recovery(w) \/ Reconciliation(w)
  BY <1>2, HolderStep, RecoveryStep, ReconciliationStep
<1>3. CASE \E s \in CreateSequences : RecoveryLapses(s)
  BY <1>3, RecoveryLapseStep
<1>4. CASE ReconciliationLapses
  <2>1. principal.token \in Workers
    BY <1>4 DEF ReconciliationLapses, TableInv, TableTypeOK, Principal
  <2>. QED
    BY <1>4, <2>1, ReconciliationLeaseStep
<1>5. CASE \E j \in Jobs : LeaseLapses(j) \/ UploadGrowsOld(j)
  BY <1>5, JobTimeStep
<1>6. CASE \E w \in Workers : Retention(w)
  BY <1>6, RetentionStep DEF Retention
<1>7. CASE RetentionPasses
  BY <1>7, JobTimeStep DEF RetentionPasses
<1>8. CASE UNCHANGED tableVars
  BY <1>8, PrincipalStays, PrincipalWritten DEF tableVars
<1>. QED
  BY <1>1, <1>2, <1>3, <1>4, <1>5, <1>6, <1>7, <1>8 DEF TableNext, AttemptNext, LeasesLapse

\* TableInv is inductive.
LEMMA TableInvariant == TableSpec => []TableInv
<1>1. TableInv /\ [TableNext]_tableVars => TableInv'
  BY NextStep DEF TableStep
<1>. QED
  BY <1>1, InitInv, PTL DEF TableSpec

\* The rows of the reverse queue have the columns of their kinds, whatever is
\* called by whomever (persistence/reversion_jobs/repository.py).
THEOREM TableTypes == TableSpec => []TableTypeOK
<1>1. TableInv => TableTypeOK
  BY DEF TableInv
<1>. QED
  BY <1>1, TableInvariant, PTL

\* Whatever calls of the queue are interleaved, with whatever credentials: every
\* row loads again, no create sequence is issued twice and no unit bound twice,
\* and an attempt that asked for a unit keeps its job until the unit is proved
\* gone (claims.py, proofs.py, reconciliation.py and recovery.py of the queue).
THEOREM AttemptsStayFenced == TableSpec => []AttemptsFenced
<1>1. TableInv => AttemptsFenced
  BY DEF TableInv, AttemptsFenced
<1>. QED
  BY <1>1, TableInvariant, PTL

\* No step makes a success of a job whose cancellation was asked for, nor of any
\* attempt but the one that the job runs (_finish).
THEOREM SuccessStaysCurrent == TableSpec => SuccessIsCurrent
<1>1. TableInv /\ [TableNext]_tableVars => [GrantsCurrent]_tableVars
  BY NextStep DEF TableStep
<1>. QED
  BY <1>1, TableInvariant, PTL DEF TableSpec, SuccessIsCurrent

----------------------------------------------------------------------------
(* The queue at work.                                                      *)

----------------------------------------------------------------------------
(* The inductive invariant.                                                *)

\* Sequence s had unit u, and u is gone for good.
Proven(s, u) == <<s, u>> \in births /\ inventory[u].state \in {"removed", "none"}

\* The table has the proof of unit u.
Recorded(s, u) == attempts[s].proof = u \/ orphans[s].unit = u

\* The attempt has its durable create intent.
Asked(s) == s \in Known /\ attempts[s].intent

\* The broker has seen no sequence that the table has yet to draw.
Ahead == highWater <= principal.highWater

\* Whatever the runtime holds, held or is about to be recorded was born as the unit of
\* its row's sequence, and of no other.
BirthsOK ==
    \A u \in UnitIds :
        /\ \/ runtime[u] # "absent"
           \/ inventory[u].state \in {"created", "exit_confirmed", "empty_confirmed", "removed"}
           \/ gate.pc = "created" /\ gate.unit = u
           => <<inventory[u].sequence, u>> \in births
        /\ \A s \in CreateSequences :
              <<s, u>> \in births /\ inventory[u].state # "none" => inventory[u].sequence = s

\* The steps of an operation belong to the request that holds the gate.
GateServes ==
    /\ gate.pc \in {"idle", "down"} => gate.request = StartRequest
    /\ gate.request.op = "start" => gate.request.caller = NULL
    /\ gate.pc = "sweep" => Sweeping
    /\ gate.pc \in {"kill", "exit", "empty", "remove", "removed"} /\ ~Sweeping =>
          /\ gate.request.op = "terminate"
          /\ gate.request.unit = gate.unit
          /\ gate.request.sequence = inventory[gate.unit].sequence
    /\ gate.pc = "forget" => inventory[gate.unit].acknowledged

\* A row is that of a sequence the table asked for, and is acknowledged only when the
\* table has its proof; a tombstone that went is recorded.
InventoryKnown ==
    backup = NULL =>
        /\ \A u \in UnitIds : inventory[u].state # "none" =>
              /\ Asked(inventory[u].sequence)
              /\ inventory[u].acknowledged => Recorded(inventory[u].sequence, u)
        /\ \A s \in CreateSequences, u \in UnitIds :
              <<s, u>> \in births /\ inventory[u].state = "none" => Recorded(s, u)

\* A proof in the table is of a unit that is gone for good.
ProofsTrue ==
    \A s \in CreateSequences :
        /\ attempts[s].proof # 0 => Proven(s, attempts[s].proof)
        /\ orphans[s].unit # 0 => Proven(s, orphans[s].unit)

\* Where a worker waits for an answer of the broker.
AwaitingSteps == {"page", "acked", "readying", "rcreated", "rterminated", "racked",
                  "created", "staged", "collected", "terminated", "packed"}

\* Request r is the one that worker w waits for.
Matches(w, r) ==
    /\ worker[w].pc \in AwaitingSteps
    /\ replies[w] = NoReply
    /\ r.op = "terminate" => r.sequence = worker[w].seq /\ r.unit = worker[w].unit
    /\ r.op = "page" => r.sequence = worker[w].cursor

\* A request asks for what the table has recorded, whenever it is served.
RequestOK(r) ==
    /\ r.op = "create" => /\ r.sequence <= principal.highWater
                          /\ backup = NULL => Asked(r.sequence)
    /\ r.op = "ack" => /\ r.sequence \in CreateSequences
                       /\ r.unit # 0 /\ backup = NULL => Recorded(r.sequence, r.unit)
    /\ r.caller # NULL => Matches(r.caller, r)

RequestsOK ==
    /\ \A r \in requests : RequestOK(r)
    /\ RequestOK(gate.request)
    /\ gate.request.caller # NULL => \A r \in requests : r.caller # gate.request.caller
    /\ \A r, q \in requests : r.caller # NULL /\ r.caller = q.caller => r = q

\* A page tells of a proof of a unit that is gone, and of the broker's high water when
\* it was read, since when only sequences of the table were drawn.
PageOK(page, cursor) ==
    /\ page.unit # 0 => /\ Proven(page.sequence, page.unit)
                        /\ page.sequence > cursor
                        /\ page.sequence <= page.highWater
    /\ highWater <= page.highWater \/ Ahead

ReplyOK(w) ==
    LET reply == replies[w] IN
    /\ reply # NoReply => worker[w].pc \in AwaitingSteps
    /\ reply.kind = "unit" => reply.unit \in UnitIds
    /\ reply.kind = "proof" => reply.unit = worker[w].unit /\ Proven(worker[w].seq, reply.unit)
    /\ reply.kind = "page" => PageOK(reply, worker[w].cursor)

\* w has recorded a page since it was started.
Past(w) == worker[w].pc \in {"complete", "readying"} \/ worker[w].phase # "reconcile"

WorkerOK(w) ==
    LET me == worker[w] IN
    /\ me.pc \in {"ack", "acked"} =>
          /\ PageOK(me.page, me.cursor)
          /\ \A s \in me.acks : ProofOf(s) # 0
    /\ me.pc = "acked" => me.seq \in CreateSequences /\ me.unit \in UnitIds
    /\ w \in Alive /\ Past(w) => Ahead
    /\ me.pc \in ExecutingSteps =>
          /\ me.seq \in Known /\ attempts[me.seq].number \in CreateSequences
          /\ me.phase = "claim"
    /\ me.pc \in {"terminated", "undo"} => me.verdict # "none"
    /\ me.pc = "reject" => me.verdict \in {"failed", "cancelled"}
    /\ me.pc \in {"clean", "cleaned"} => me.job \in Jobs
    /\ me.pc = "new" => me.phase = "reconcile"

ClientsOK ==
    \A j \in Jobs : client[j].pc \in {"put", "activate", "accepted"} => client[j].job \in Jobs

\* The table that the backup holds.
Saved == INSTANCE ReversionRepository WITH
    jobs <- backup.jobs, attempts <- backup.attempts,
    principal <- backup.principal, orphans <- backup.orphans

SavedInv ==
    /\ Saved!TableTypeOK
    /\ \A s \in CreateSequences : s \notin Saved!Known => backup.attempts[s] = NoAttempt
    /\ \A j \in Jobs : backup.jobs[j].attempt <= backup.principal.highWater
    /\ Saved!RowsLoad
    /\ Saved!SequencesIssued
    /\ Saved!UnitsBoundOnce
    /\ Saved!UnprovenStillRuns

\* What is restored is a table and a store as they once were.
BackupOK ==
    backup # NULL =>
        /\ SavedInv
        /\ \A s \in CreateSequences :
              /\ backup.attempts[s].proof # 0 => Proven(s, backup.attempts[s].proof)
              /\ backup.orphans[s].unit # 0 => Proven(s, backup.orphans[s].unit)
        /\ backup.sources \subseteq Jobs
        /\ backup.results \subseteq Jobs \X CreateSequences

ReverseInv ==
    /\ BrokerInv
    /\ TableInv
    /\ ServiceTypeOK
    /\ BirthsOK
    /\ GateServes
    /\ InventoryKnown
    /\ ProofsTrue
    /\ RequestsOK
    /\ \A w \in Workers : ReplyOK(w) /\ WorkerOK(w)
    /\ ClientsOK
    /\ BackupOK

\* What every step is shown to be.
ReverseStep == ReverseInv' /\ ClaimsFresh

----------------------------------------------------------------------------
(* What a transaction of the table means to everybody else.                *)

\* Attempts, intents and proofs stay, a new proof is true, and a new attempt has a
\* sequence that the broker has not seen.
TableMoves ==
    /\ \A s \in CreateSequences :
          /\ s \in Known =>
                /\ s \in Known' /\ attempts'[s].number = attempts[s].number
                /\ attempts[s].intent => attempts'[s].intent
          /\ s \in Known' /\ s \notin Known => s > highWater
          /\ attempts[s].proof # 0 => attempts'[s].proof = attempts[s].proof
          /\ attempts'[s].proof \in {0, attempts[s].proof} \/ Proven(s, attempts'[s].proof)
          /\ orphans[s].unit # 0 => orphans'[s].unit = orphans[s].unit
          /\ orphans'[s].unit \in {0, orphans[s].unit} \/ Proven(s, orphans'[s].unit)
    /\ principal.highWater <= principal'.highWater

\* Both transactions on jobs alone, and no transaction at all, are such moves.
LEMMA JobsMove ==
  ASSUME TableInv, UNCHANGED <<attempts, principal, orphans>>
  PROVE  TableMoves
<1>1. principal.highWater \in Int
  BY Bounds DEF TableInv, TableTypeOK, Principal
<1>2. Known' = Known
  BY DEF Known
<1>. QED
  BY <1>1, <1>2 DEF TableMoves

\* A transaction on the principal.
LEMMA PrincipalMoves ==
  ASSUME TableInv, PrincipalRises, UNCHANGED <<attempts, orphans>>
  PROVE  TableMoves
<1>1. principal.highWater \in Int /\ principal'.highWater \in Int
  BY Bounds DEF TableInv, TableTypeOK, Principal, PrincipalRises
<1>2. Known' = Known
  BY DEF Known
<1>. QED
  BY <1>1, <1>2 DEF TableMoves, PrincipalRises

\* What may happen to the row of a known attempt.
RowGrows(s, new) ==
    /\ s \in Known
    /\ new.job = attempts[s].job /\ new.number = attempts[s].number
    /\ attempts[s].intent => new.intent
    /\ attempts[s].proof # 0 => new.proof = attempts[s].proof
    /\ new.proof = attempts[s].proof \/ Proven(s, new.proof)

\* A transaction that writes the row of one attempt.
LEMMA AttemptMoves ==
  ASSUME TableInv, NEW s, NEW new, RowGrows(s, new),
         attempts' = [attempts EXCEPT ![s] = new],
         principal.highWater <= principal'.highWater,
         UNCHANGED orphans
  PROVE  TableMoves
<1>1. s \in CreateSequences /\ DOMAIN attempts = CreateSequences
      /\ attempts \in [CreateSequences -> Attempt]
  BY Domains DEF TableInv, TableTypeOK, RowGrows, Known
<1>2. attempts'[s] = new /\ \A t \in CreateSequences \ {s} : attempts'[t] = attempts[t]
  BY <1>1
<1>3. Known' = Known
  BY <1>1, <1>2 DEF RowGrows, Known
<1>. QED
  BY <1>1, <1>2, <1>3 DEF TableMoves, RowGrows

\* reserve_create_intent and the binding of a unit.
LEMMA IntentMoves ==
  ASSUME TableInv, NEW w, NEW s, NEW u,
         \/ reserve_create_intent(w, s)
         \/ record_broker_unit(w, s, u) /\ u \in UnitIds
  PROVE  TableMoves /\ TableInv' /\ (reserve_create_intent(w, s) => s \in Known' /\ attempts'[s].intent)
<1>1. /\ s \in Known /\ s \in CreateSequences /\ attempts[s] \in Attempt
      /\ attempts \in [CreateSequences -> Attempt]
      /\ principal.highWater <= principal'.highWater /\ UNCHANGED orphans
  BY OwnedFacts, Bounds DEF TableInv, TableTypeOK, Principal, reserve_create_intent,
     record_broker_unit
<1>2. CASE reserve_create_intent(w, s)
  <2>. DEFINE new == [attempts[s] EXCEPT !.intent = TRUE]
  <2>1. attempts' = [attempts EXCEPT ![s] = new]
    BY <1>1, <1>2 DEF reserve_create_intent
  <2>2. RowGrows(s, new)
    BY <1>1 DEF RowGrows, Attempt
  <2>. HIDE DEF new
  <2>3. TableMoves
    BY <1>1, <2>1, <2>2, AttemptMoves
  <2>4. s \in Known' /\ attempts'[s].intent
    BY <1>1, <2>1, <2>3 DEF TableMoves, Attempt, new
  <2>. QED
    BY <1>2, <2>3, <2>4, IntentStep DEF TableStep
<1>3. CASE record_broker_unit(w, s, u) /\ u \in UnitIds
  <2>. DEFINE new == [attempts[s] EXCEPT !.unit = u]
  <2>1. attempts' = [attempts EXCEPT ![s] = new]
    BY <1>1, <1>3 DEF record_broker_unit
  <2>2. RowGrows(s, new)
    BY <1>1 DEF RowGrows, Attempt
  <2>. HIDE DEF new
  <2>3. TableMoves
    BY <1>1, <2>1, <2>2, AttemptMoves
  <2>4. attempts'[s].intent /\ s \in Known'
    BY <1>1, <1>3, <2>1, <2>3 DEF record_broker_unit, TableMoves, Attempt, new
  <2>. QED
    BY <1>3, <2>3, <2>4, UnitStep DEF TableStep
<1>. QED
  BY <1>2, <1>3

\* Recording a true proof, and that the broker may forget it.
LEMMA TerminationMoves ==
  ASSUME TableInv, NEW w, NEW s, NEW u \in UnitIds,
         \/ record_active_termination_proof(w, s, u) /\ Proven(s, u)
         \/ record_recovery_termination_proof(w, s, u) /\ Proven(s, u)
         \/ acknowledge_termination_proof(s, u)
  PROVE  /\ TableMoves /\ TableInv'
         /\ attempts'[s].proof = u
<1>1. /\ s \in Known /\ s \in CreateSequences /\ attempts[s] \in Attempt
      /\ attempts \in [CreateSequences -> Attempt]
      /\ principal.highWater <= principal'.highWater /\ UNCHANGED orphans /\ u # 0
  BY KnownFacts, Bounds, Identities
  DEF TableInv, TableTypeOK, Principal, record_active_termination_proof, Owned_current,
      record_recovery_termination_proof, RecoveryHeld, acknowledge_termination_proof
<1>2. CASE record_active_termination_proof(w, s, u) /\ Proven(s, u)
  <2>. DEFINE new == [attempts[s] EXCEPT !.unit = u, !.proof = u]
  <2>1. attempts' = [attempts EXCEPT ![s] = new]
    BY <1>1, <1>2 DEF record_active_termination_proof
  <2>2. RowGrows(s, new)
    BY <1>1, <1>2 DEF RowGrows, Attempt, record_active_termination_proof, ProofMatches
  <2>3. attempts'[s] = new /\ new.proof = u
    BY <1>1, <1>2, <2>1 DEF Attempt, acknowledge_termination_proof
  <2>. HIDE DEF new
  <2>4. TableMoves
    BY <1>1, <2>1, <2>2, AttemptMoves
  <2>. QED
    BY <1>1, <1>2, <2>3, <2>4, TerminationStep DEF TableStep
<1>3. CASE record_recovery_termination_proof(w, s, u) /\ Proven(s, u)
  <2>. DEFINE new == [attempts[s] EXCEPT !.unit = u, !.proof = u, !.recovery = NULL,
                                         !.recLapsed = FALSE]
  <2>1. attempts' = [attempts EXCEPT ![s] = new]
    BY <1>1, <1>3 DEF record_recovery_termination_proof
  <2>2. RowGrows(s, new)
    BY <1>1, <1>3 DEF RowGrows, Attempt, record_recovery_termination_proof, ProofMatches
  <2>3. attempts'[s] = new /\ new.proof = u
    BY <1>1, <1>3, <2>1 DEF Attempt, acknowledge_termination_proof
  <2>. HIDE DEF new
  <2>4. TableMoves
    BY <1>1, <2>1, <2>2, AttemptMoves
  <2>. QED
    BY <1>1, <1>3, <2>3, <2>4, TerminationStep DEF TableStep
<1>4. CASE acknowledge_termination_proof(s, u)
  <2>. DEFINE new == [attempts[s] EXCEPT !.acked = TRUE]
  <2>1. attempts' = [attempts EXCEPT ![s] = new]
    BY <1>1, <1>4 DEF acknowledge_termination_proof
  <2>2. RowGrows(s, new)
    BY <1>1, <1>4 DEF RowGrows, Attempt, acknowledge_termination_proof
  <2>3. attempts'[s] = new /\ new.proof = u
    BY <1>1, <1>4, <2>1 DEF Attempt, acknowledge_termination_proof
  <2>. HIDE DEF new
  <2>4. TableMoves
    BY <1>1, <2>1, <2>2, AttemptMoves
  <2>. QED
    BY <1>1, <1>4, <2>3, <2>4, TerminationStep DEF TableStep
<1>. QED
  BY <1>2, <1>3, <1>4

\* Recovery leases: taken, and run out.
LEMMA RecoveryMoves ==
  ASSUME TableInv, NEW w, NEW s \in CreateSequences,
         \/ claim_recovery(w, s) /\ w \in Workers
         \/ RecoveryLapses(s)
  PROVE  TableMoves /\ TableInv' /\ (claim_recovery(w, s) => Asked(s)')
<1>1. /\ attempts[s] \in Attempt /\ attempts \in [CreateSequences -> Attempt]
      /\ principal.highWater <= principal'.highWater /\ UNCHANGED orphans
      /\ s \in Known
  <2>1. attempts[s] \in Attempt /\ attempts \in [CreateSequences -> Attempt]
        /\ principal.highWater \in Int
    BY Bounds DEF TableInv, TableTypeOK, Principal
  <2>2. s \in Known
    BY DEF claim_recovery, Recoverable, RecoveryLapses, TableInv, NoAttempt
  <2>. QED
    BY <2>1, <2>2 DEF claim_recovery, RecoveryLapses
<1>2. CASE claim_recovery(w, s) /\ w \in Workers
  <2>. DEFINE new == [attempts[s] EXCEPT !.recovery = w, !.recLapsed = FALSE]
  <2>1. attempts' = [attempts EXCEPT ![s] = new] /\ attempts[s].intent
    BY <1>1, <1>2 DEF claim_recovery, Recoverable
  <2>2. RowGrows(s, new)
    BY <1>1 DEF RowGrows, Attempt
  <2>. HIDE DEF new
  <2>3. TableMoves
    BY <1>1, <2>1, <2>2, AttemptMoves
  <2>. QED
    BY <1>1, <1>2, <2>1, <2>3, RecoveryClaimStep DEF TableStep, Asked, TableMoves
<1>3. CASE RecoveryLapses(s)
  <2>. DEFINE new == [attempts[s] EXCEPT !.recLapsed = TRUE]
  <2>1. attempts' = [attempts EXCEPT ![s] = new]
    BY <1>1, <1>3 DEF RecoveryLapses
  <2>2. RowGrows(s, new)
    BY <1>1 DEF RowGrows, Attempt
  <2>. HIDE DEF new
  <2>3. TableMoves
    BY <1>1, <2>1, <2>2, AttemptMoves
  <2>. QED
    BY <1>1, <1>3, <2>3, RecoveryLapseStep DEF TableStep, Asked, TableMoves, claim_recovery, Recoverable
<1>. QED
  BY <1>2, <1>3

\* The transactions on jobs.
LEMMA JobTransactions ==
  ASSUME TableInv, NEW w, NEW s, NEW j,
         \/ (create(j) \/ activate_source(j) \/ request_cancel(j)) /\ j \in Jobs
         \/ heartbeat(w, s)
         \/ \E outcome \in OutcomeStates : finish(w, s, outcome)
         \/ (expire_terminal(w, j) \/ complete_cleanup(w, j)) /\ w \in Workers /\ j \in Jobs
         \/ /\ LeaseLapses(j) \/ UploadGrowsOld(j) \/ RetentionEnds(j) \/ CleanupLapses(j)
            /\ j \in Jobs
         \/ UNCHANGED tableVars
  PROVE  TableMoves /\ TableInv'
<1>1. UNCHANGED <<attempts, principal, orphans>>
  BY DEF create, activate_source, request_cancel, heartbeat, finish, expire_terminal,
     complete_cleanup, LeaseLapses, UploadGrowsOld, RetentionEnds, CleanupLapses, tableVars
<1>2. TableMoves
  BY <1>1, JobsMove
<1>3. CASE (create(j) \/ activate_source(j) \/ request_cancel(j)) /\ j \in Jobs
  BY <1>2, <1>3, SubmissionStep DEF TableStep
<1>4. CASE heartbeat(w, s)
  BY <1>2, <1>4, HeartbeatStep DEF TableStep
<1>5. CASE \E outcome \in OutcomeStates : finish(w, s, outcome)
  BY <1>2, <1>5, FinishStep DEF TableStep
<1>6. CASE (expire_terminal(w, j) \/ complete_cleanup(w, j)) /\ w \in Workers /\ j \in Jobs
  BY <1>2, <1>6, RetentionStep DEF TableStep
<1>7. CASE /\ LeaseLapses(j) \/ UploadGrowsOld(j) \/ RetentionEnds(j) \/ CleanupLapses(j)
           /\ j \in Jobs
  BY <1>2, <1>7, JobTimeStep DEF TableStep
<1>8. CASE UNCHANGED tableVars
  BY <1>2, <1>8, PrincipalStays, PrincipalWritten DEF tableVars, TableStep
<1>. QED
  BY <1>3, <1>4, <1>5, <1>6, <1>7, <1>8

\* begin_reconciliation, complete_reconciliation and the end of its lease.
LEMMA ReconciliationMoves ==
  ASSUME TableInv, NEW w \in Workers,
         begin_reconciliation(w) \/ complete_reconciliation(w) \/ ReconciliationLapses
  PROVE  TableMoves /\ TableInv'
<1>1. TableInv'
  BY ReconciliationLeaseStep DEF TableStep
<1>2. principal \in Principal /\ principal' \in Principal /\ UNCHANGED <<attempts, orphans>>
  BY <1>1 DEF TableInv, TableTypeOK, begin_reconciliation, complete_reconciliation,
     ReconciliationLapses
<1>3. principal'.highWater = principal.highWater
  BY <1>2 DEF Principal, begin_reconciliation, complete_reconciliation, ReconciliationLapses
<1>4. PrincipalRises
  BY <1>2, <1>3, Bounds DEF PrincipalRises, Principal
<1>. QED
  BY <1>1, <1>2, <1>4, PrincipalMoves

\* The intents of acknowledgements, and the acknowledgements.
LEMMA AcknowledgingMoves ==
  ASSUME TableInv, NEW w, NEW s, NEW u,
         \/ pending_reconciliation_acknowledgements(w)
         \/ mark_reconciliation_acknowledged(w, s, u) /\ s \in CreateSequences /\ u \in UnitIds
  PROVE  TableMoves /\ TableInv'
<1>1. /\ attempts \in [CreateSequences -> Attempt] /\ orphans \in [CreateSequences -> Orphan]
      /\ principal.highWater <= principal'.highWater
  BY Bounds DEF TableInv, TableTypeOK, Principal, pending_reconciliation_acknowledgements,
     mark_reconciliation_acknowledged
<1>2. CASE pending_reconciliation_acknowledgements(w)
  <2>1. \A t \in CreateSequences :
           /\ attempts'[t].job = attempts[t].job /\ attempts'[t].number = attempts[t].number
           /\ attempts'[t].intent = attempts[t].intent /\ attempts'[t].proof = attempts[t].proof
    BY <1>1, <1>2 DEF pending_reconciliation_acknowledgements, Attempt
  <2>2. DOMAIN attempts = CreateSequences /\ DOMAIN attempts' = CreateSequences
        /\ orphans' = orphans
    BY <1>1, <1>2 DEF pending_reconciliation_acknowledgements
  <2>3. Known' = Known
    BY <2>1, <2>2 DEF Known
  <2>4. TableMoves
    BY <1>1, <2>1, <2>2, <2>3 DEF TableMoves
  <2>. QED
    BY <1>2, <2>4, PendingStep DEF TableStep
<1>3. CASE /\ mark_reconciliation_acknowledged(w, s, u) /\ s \in CreateSequences
           /\ u \in UnitIds /\ s \in Known
  <2>. DEFINE new == [attempts[s] EXCEPT !.acked = TRUE]
  <2>1. attempts' = [attempts EXCEPT ![s] = new] /\ orphans' = orphans
    BY <1>1, <1>3 DEF mark_reconciliation_acknowledged
  <2>2. RowGrows(s, new)
    BY <1>1, <1>3 DEF RowGrows, Attempt
  <2>. HIDE DEF new
  <2>3. TableMoves
    BY <1>1, <2>1, <2>2, AttemptMoves
  <2>. QED
    BY <1>3, <2>3, MarkStep DEF TableStep
<1>4. CASE /\ mark_reconciliation_acknowledged(w, s, u) /\ s \in CreateSequences
           /\ u \in UnitIds /\ s \notin Known
  <2>1. /\ attempts' = attempts
        /\ \A t \in CreateSequences : orphans'[t].unit = orphans[t].unit
    BY <1>1, <1>4 DEF mark_reconciliation_acknowledged, Orphan
  <2>2. Known' = Known
    BY <2>1 DEF Known
  <2>3. TableMoves
    BY <1>1, <2>1, <2>2 DEF TableMoves
  <2>. QED
    BY <1>4, <2>3, MarkStep DEF TableStep
<1>. QED
  BY <1>2, <1>3, <1>4

\* A page whose tombstone is of a unit that is gone.
LEMMA PageMoves ==
  ASSUME TableInv, NEW w, NEW cursor \in 0 .. MaxSequence, NEW s \in 0 .. MaxSequence,
         NEW h \in 0 .. MaxSequence, NEW u \in 0 .. MaxUnits,
         u # 0 => s \in CreateSequences /\ s > cursor /\ s <= h /\ Proven(s, u),
         record_reconciliation_page(w, cursor, s, u, h)
  PROVE  TableMoves /\ TableInv' /\ h <= principal'.highWater
<1>1. PrincipalRises /\ h <= principal'.highWater
  BY PageRaises
<1>2. TableInv'
  BY PageStep DEF TableStep
<1>3. principal.highWater <= principal'.highWater
  BY <1>1, Bounds DEF PrincipalRises, Principal, TableInv, TableTypeOK
<1>4. CASE u = 0
  BY <1>1, <1>2, <1>4, PrincipalMoves DEF record_reconciliation_page
<1>5. CASE u # 0 /\ s \in Known
  <2>. DEFINE new == [attempts[s] EXCEPT !.intent = TRUE, !.unit = u, !.proof = u,
                                         !.ackIntent = TRUE]
  <2>1. attempts' = [attempts EXCEPT ![s] = new] /\ orphans' = orphans
    BY <1>5 DEF record_reconciliation_page, RetainTombstone
  <2>2. attempts[s] \in Attempt
    BY <1>5, KnownFacts
  <2>3. RowGrows(s, new)
    BY <1>5, <2>2 DEF RowGrows, Attempt, record_reconciliation_page, TombstoneFits
  <2>. HIDE DEF new
  <2>. QED
    BY <1>1, <1>2, <1>3, <2>1, <2>3, AttemptMoves
<1>6. CASE u # 0 /\ s \notin Known
  <2>1. orphans \in [CreateSequences -> Orphan] /\ s \in CreateSequences
    BY <1>6 DEF TableInv, TableTypeOK
  <2>2. attempts' = attempts /\ orphans' = [orphans EXCEPT ![s].unit = u]
    BY <1>6 DEF record_reconciliation_page, RetainTombstone
  <2>3. /\ orphans'[s].unit = u
        /\ \A t \in CreateSequences \ {s} : orphans'[t] = orphans[t]
    BY <2>1, <2>2 DEF Orphan
  <2>4. orphans[s].unit \in {0, u}
    BY <1>6 DEF record_reconciliation_page, TombstoneFits
  <2>5. Known' = Known
    BY <2>2 DEF Known
  <2>. QED
    BY <1>1, <1>2, <1>3, <1>6, <2>2, <2>3, <2>4, <2>5 DEF TableMoves
<1>. QED
  BY <1>4, <1>5, <1>6

\* recover_expired_leases.
LEMMA LeasesMove ==
  ASSUME TableInv, NEW returned, NEW failed, recover_expired_leases(returned, failed)
  PROVE  TableMoves /\ TableInv'
<1>1. /\ attempts \in [CreateSequences -> Attempt] /\ orphans' = orphans
      /\ principal.highWater <= principal'.highWater
  <2>1. UNCHANGED <<principal, orphans>>
    BY DEF recover_expired_leases
  <2>. QED
    BY <2>1, Bounds DEF TableInv, TableTypeOK, Principal
<1>2. \A t \in CreateSequences :
         /\ attempts'[t].job = attempts[t].job /\ attempts'[t].number = attempts[t].number
         /\ attempts'[t].intent = attempts[t].intent /\ attempts'[t].proof = attempts[t].proof
  <2>1. attempts' = [t \in CreateSequences |->
           IF \E j \in returned : jobs[j].current = t
           THEN [attempts[t] EXCEPT !.recovery = NULL, !.recLapsed = FALSE]
           ELSE attempts[t]]
    BY DEF recover_expired_leases
  <2>. QED
    BY <1>1, <2>1 DEF Attempt
<1>3. DOMAIN attempts = CreateSequences /\ DOMAIN attempts' = CreateSequences
  BY <1>1 DEF recover_expired_leases
<1>4. Known' = Known
  BY <1>2, <1>3 DEF Known
<1>5. TableMoves
  BY <1>1, <1>2, <1>4 DEF TableMoves
<1>. QED
  BY <1>5, RecoverLeasesStep DEF TableStep

\* claim, by a table that is ahead of the broker.
LEMMA ClaimMoves ==
  ASSUME TableInv, NEW w \in Workers, NEW j \in Jobs, claim(w, j),
         Ahead, highWater \in 0 .. MaxSequence
  PROVE  /\ TableMoves /\ TableInv'
         /\ principal'.highWater \in Known'
         /\ attempts'[principal'.highWater].number \in CreateSequences
<1>. DEFINE s == principal.highWater + 1
<1>1. /\ principal.highWater \in 0 .. MaxSequence /\ s \in CreateSequences
      /\ principal'.highWater = s /\ principal.highWater <= s /\ s > highWater
      /\ MaxSequence \in Nat
  BY Bounds DEF TableInv, TableTypeOK, Principal, claim, CreateSequences, Ahead
<1>2. s \notin Known
  BY <1>1, Domains DEF TableInv, SequencesIssued
<1>3. TableInv'
  BY ClaimStep DEF TableStep
<1>4. /\ attempts'[s].job = j /\ attempts'[s].proof = 0
      /\ attempts'[s].number = jobs[j].attempt + 1
      /\ \A t \in CreateSequences \ {s} : attempts'[t] = attempts[t]
      /\ DOMAIN attempts = CreateSequences /\ DOMAIN attempts' = CreateSequences
      /\ orphans' = orphans
  BY <1>1 DEF claim, TableInv, TableTypeOK, NoAttempt
<1>5. attempts[s].proof = 0
  BY <1>1, <1>2 DEF TableInv, NoAttempt
<1>6. Known' = Known \cup {s}
  BY <1>1, <1>4, Bounds DEF Known
<1>7. jobs[j].attempt \in Nat /\ jobs[j].attempt <= principal.highWater
  BY Bounds DEF TableInv, TableTypeOK, Job
<1>8. attempts'[s].number \in CreateSequences
  BY <1>1, <1>4, <1>7 DEF CreateSequences
<1>. HIDE DEF s
<1>9. TableMoves
  BY <1>1, <1>2, <1>4, <1>5, <1>6 DEF TableMoves
<1>. QED
  BY <1>1, <1>3, <1>6, <1>8, <1>9

----------------------------------------------------------------------------
(* A step that leaves the units alone.                                     *)

\* What the broker has recorded of its units, and the units.
UnitsStay == UNCHANGED <<inventory, highWater, runtime, births>>

\* A move of the table loses no proof that is to be acknowledged.
LEMMA ProofsStay ==
  ASSUME ReverseInv, TableMoves
  PROVE  \A s \in CreateSequences : ProofOf(s) # 0 =>
            (IF s \in Known' THEN attempts'[s].proof ELSE orphans'[s].unit) # 0
<1>. SUFFICES ASSUME NEW s \in CreateSequences, ProofOf(s) # 0
              PROVE  (IF s \in Known' THEN attempts'[s].proof ELSE orphans'[s].unit) # 0
  OBVIOUS
<1>1. CASE s \in Known
  BY <1>1 DEF ProofOf, TableMoves
<1>2. CASE s \notin Known
  <2>1. orphans[s].unit # 0 /\ orphans'[s].unit = orphans[s].unit
    BY <1>2 DEF ProofOf, TableMoves
  <2>2. <<s, orphans[s].unit>> \in births
    BY <2>1 DEF ReverseInv, ProofsTrue, Proven
  <2>3. s <= highWater /\ s \in Int /\ highWater \in Int
    BY <2>2, Identities DEF ReverseInv, BrokerInv, SequencesAgree, BrokerTypeOK
  <2>4. s \notin Known'
    BY <1>2, <2>3 DEF TableMoves
  <2>. QED
    BY <2>1, <2>4
<1>. QED
  BY <1>1, <1>2

\* A worker that takes a turn answers for its own part; the parts of all others follow
\* from the moves of the table.
LEMMA TableTurn ==
  ASSUME ReverseInv,
         BrokerInv', TableInv', TableMoves, ServiceTypeOK', ClientsOK', RequestsOK',
         UnitsStay, UNCHANGED backup,
         gate' \in {gate, [gate EXCEPT !.request.caller = NULL]},
         \A w \in Workers : worker'[w] = worker[w] \/ WorkerOK(w)',
         \A w \in Workers : \/ worker'[w] = worker[w] /\ replies'[w] = replies[w]
                            \/ ReplyOK(w)'
  PROVE  ReverseStep
<1>0. /\ BrokerTypeOK /\ inventory' = inventory /\ highWater' = highWater /\ runtime' = runtime
      /\ births' = births /\ backup' = backup
      /\ TableTypeOK /\ DOMAIN attempts = CreateSequences
  BY Domains DEF UnitsStay, ReverseInv, BrokerInv, TableInv
<1>1. BirthsOK' /\ GateServes'
  <2>1. gate'.pc = gate.pc /\ gate'.unit = gate.unit /\ gate'.request.op = gate.request.op
        /\ gate'.request.unit = gate.request.unit
        /\ gate'.request.sequence = gate.request.sequence
        /\ gate'.request.caller \in {gate.request.caller, NULL}
    BY <1>0 DEF BrokerTypeOK, Gate, Request
  <2>2. BirthsOK'
    BY <1>0, <2>1 DEF ReverseInv, BirthsOK
  <2>3. gate'.pc \in {"idle", "down"} => gate'.request = StartRequest
    BY <1>0, <2>1 DEF ReverseInv, GateServes, StartRequest, BrokerTypeOK, Gate, Request
  <2>. QED
    BY <1>0, <2>1, <2>2, <2>3 DEF ReverseInv, GateServes, Sweeping
<1>2. InventoryKnown'
  <2>1. \A u \in UnitIds : inventory[u].state # "none" => inventory[u].sequence \in CreateSequences
    BY <1>0, Bounds DEF ReverseInv, BrokerInv, SequencesAgree, BrokerTypeOK, CreateSequences
  <2>2. \A s \in CreateSequences : Asked(s) => s \in Known' /\ attempts'[s].intent
    BY DEF TableMoves, Asked
  <2>3. \A s \in CreateSequences : \A u \in UnitIds :
           Recorded(s, u) => attempts'[s].proof = u \/ orphans'[s].unit = u
    BY Identities DEF TableMoves, Recorded
  <2>. QED
    BY <1>0, <2>1, <2>2, <2>3 DEF ReverseInv, InventoryKnown, Asked, Recorded
<1>3. ProofsTrue'
  <2>1. \A s, u : Proven(s, u) => <<s, u>> \in births' /\ inventory'[u].state \in {"removed", "none"}
    BY <1>0 DEF Proven
  <2>2. \A s \in CreateSequences :
           /\ attempts'[s].proof # 0 => Proven(s, attempts'[s].proof)
           /\ orphans'[s].unit # 0 => Proven(s, orphans'[s].unit)
    BY DEF ReverseInv, ProofsTrue, TableMoves
  <2>. QED
    BY <2>1, <2>2 DEF ProofsTrue, Proven
<1>4. Ahead => Ahead'
  <2>1. highWater \in Int /\ principal.highWater \in Int /\ principal'.highWater \in Int
    BY <1>0, Bounds DEF BrokerTypeOK, TableInv, TableTypeOK, Principal
  <2>. QED
    BY <1>0, <2>1 DEF Ahead, TableMoves
<1>5. ASSUME NEW w \in Workers, worker'[w] = worker[w], replies'[w] = replies[w]
      PROVE  ReplyOK(w)'
  BY <1>0, <1>4, <1>5 DEF ReverseInv, ReplyOK, PageOK, Proven
<1>6. ASSUME NEW w \in Workers, worker'[w] = worker[w]
      PROVE  WorkerOK(w)'
  <2>1. /\ worker'[w] = worker[w] /\ worker[w] \in WorkerState
        /\ worker[w].acks \subseteq CreateSequences
        /\ WorkerOK(w)
    BY <1>6 DEF ReverseInv, ServiceTypeOK, WorkerState
  <2>2. \A s \in CreateSequences : ProofOf(s) # 0 =>
           (IF s \in Known' THEN attempts'[s].proof ELSE orphans'[s].unit) # 0
    BY ProofsStay
  <2>3. Alive' = {v \in DOMAIN worker' : worker'[v].pc \notin {"new", "off"}}
        /\ DOMAIN worker' = Workers /\ DOMAIN worker = Workers
    BY DEF Alive, ServiceTypeOK, ReverseInv
  <2>4. worker'[w].seq \in Known => worker'[w].seq \in Known'
           /\ attempts'[worker'[w].seq].number = attempts[worker'[w].seq].number
    <3>1. worker[w].seq \in Known => worker[w].seq \in CreateSequences
      BY <1>0 DEF Known
    <3>. QED
      BY <2>1, <3>1 DEF TableMoves
  <2>5. worker'[w].pc \in {"ack", "acked"} => PageOK(worker[w].page, worker[w].cursor)'
        /\ \A s \in worker'[w].acks :
              (IF s \in Known' THEN attempts'[s].proof ELSE orphans'[s].unit) # 0
    BY <1>0, <1>4, <2>1, <2>2 DEF WorkerOK, PageOK, Proven
  <2>6. w \in Alive' /\ (worker'[w].pc \in {"complete", "readying"} \/ worker'[w].phase # "reconcile")
        => Ahead'
    BY <1>4, <2>1, <2>3 DEF WorkerOK, Alive, Past
  <2>. QED
    BY <2>1, <2>4, <2>5, <2>6 DEF WorkerOK, ProofOf, Past
<1>7. BackupOK'
  BY <1>0 DEF ReverseInv, BackupOK, SavedInv, Proven, Saved!TableTypeOK, Saved!Known,
     Saved!RowsLoad, Saved!SequencesIssued, Saved!UnitsBoundOnce, Saved!UnprovenStillRuns
<1>8. ClaimsFresh
  <2>1. \A s \in CreateSequences : attempts'[s].job # NULL => s \in Known'
    BY DEF Known, TableInv, TableTypeOK
  <2>. QED
    BY <1>0, <2>1 DEF ClaimsFresh, TableMoves
<1>. QED
  BY <1>1, <1>2, <1>3, <1>5, <1>6, <1>7, <1>8 DEF ReverseStep, ReverseInv

\* A worker that does not wait for an answer, or has one, has no request with the broker.
LEMMA Free ==
  ASSUME ReverseInv, NEW w \in Workers, worker[w].pc \notin AwaitingSteps \/ Answered(w)
  PROVE  ~Waiting(w)
<1>1. w # NULL
  BY Bounds
<1>. QED
  BY <1>1 DEF ReverseInv, RequestsOK, RequestOK, Matches, Waiting, Answered

\* What a worker's step is about, besides the broker and the worker.
Around ==
    /\ TableInv' /\ TableMoves
    /\ UNCHANGED <<client, backup>>
    /\ sources' \subseteq Jobs
    /\ results' \subseteq Jobs \X CreateSequences
    /\ faults' \in 0 .. MaxServiceFaults

\* Worker w goes on as new: all of its step that is not about the broker.
Turn(w, new) == Do(w, new) /\ new \in WorkerState /\ Around

\* The part of a turn that is not about the broker.
LEMMA TurnFacts ==
  ASSUME ReverseInv, NEW w \in Workers, NEW new, Turn(w, new)
  PROVE  /\ ServiceTypeOK' /\ ClientsOK'
         /\ worker'[w] = new
         /\ \A v \in Workers \ {w} : worker'[v] = worker[v]
<1>1. worker \in [Workers -> WorkerState] /\ client' = client
  BY DEF ReverseInv, ServiceTypeOK, Turn, Around
<1>2. /\ worker' \in [Workers -> WorkerState]
      /\ worker'[w] = new
      /\ \A v \in Workers \ {w} : worker'[v] = worker[v]
  BY <1>1 DEF Turn, Do
<1>. QED
  BY <1>1, <1>2 DEF Turn, Around, ReverseInv, ServiceTypeOK, ClientsOK

\* A request stays true, as long as its caller waits for the same, or gives up.
LEMMA RequestKept ==
  ASSUME ReverseInv, TableMoves, TableInv', UNCHANGED backup,
         NEW q \in requests \cup {gate.request}, NEW r,
         r.op = q.op, r.sequence = q.sequence, r.unit = q.unit,
         r.caller # NULL =>
            /\ r.caller = q.caller
            /\ worker'[r.caller].pc = worker[r.caller].pc
            /\ worker'[r.caller].seq = worker[r.caller].seq
            /\ worker'[r.caller].unit = worker[r.caller].unit
            /\ worker'[r.caller].cursor = worker[r.caller].cursor
            /\ replies'[r.caller] = replies[r.caller]
  PROVE  RequestOK(r)'
<1>1. requests \subseteq Request /\ gate.request \in Request
  BY DEF ReverseInv, BrokerInv, BrokerTypeOK, Gate
<1>2. /\ principal.highWater \in Int /\ principal'.highWater \in Int
      /\ principal.highWater <= principal'.highWater
  BY Bounds DEF ReverseInv, TableInv, TableTypeOK, Principal, TableMoves
<1>3. q \in Request /\ RequestOK(q) /\ q.sequence \in Int
  BY <1>1 DEF ReverseInv, RequestsOK, Request
<1>4. r.op = "create" => /\ r.sequence <= principal'.highWater
                         /\ backup = NULL => r.sequence \in Known' /\ attempts'[r.sequence].intent
  <2>1. Asked(q.sequence) => q.sequence \in CreateSequences
    BY Domains DEF Asked, Known, ReverseInv, TableInv
  <2>. QED
    BY <1>2, <1>3, <2>1 DEF RequestOK, Asked, TableMoves
<1>5. r.op = "ack" =>
         /\ r.sequence \in CreateSequences
         /\ r.unit # 0 /\ backup = NULL =>
               attempts'[r.sequence].proof = r.unit \/ orphans'[r.sequence].unit = r.unit
  BY <1>3 DEF RequestOK, Recorded, TableMoves
<1>6. r.caller # NULL => Matches(r.caller, q)
  BY <1>3 DEF RequestOK
<1>. QED
  BY <1>4, <1>5, <1>6 DEF RequestOK, Asked, Recorded, Matches

\* The requests of others stay what their callers wait for, and true.
LEMMA RequestsTurn ==
  ASSUME ReverseInv, NEW w \in Workers, ~Waiting(w), TableMoves, TableInv',
         UNCHANGED <<gate, backup>>,
         \A v \in Workers \ {w} : worker'[v] = worker[v] /\ replies'[v] = replies[v],
         \A r \in requests' \ requests : r.caller = w /\ RequestOK(r)',
         \A r, q \in requests' \ requests : r = q
  PROVE  RequestsOK'
<1>1. requests \subseteq Request /\ gate.request \in Request /\ Callers = Workers
  BY ServiceAssumption DEF ReverseInv, BrokerInv, BrokerTypeOK, Gate
<1>2. ASSUME NEW r \in requests \cup {gate.request}
      PROVE  RequestOK(r)'
  <2>1. r \in Request /\ r.caller # w
    BY <1>1 DEF Waiting
  <2>2. r.caller # NULL => /\ worker'[r.caller] = worker[r.caller]
                           /\ replies'[r.caller] = replies[r.caller]
    BY <1>1, <2>1 DEF Request
  <2>. QED
    BY <2>2, RequestKept
<1>3. \A r \in requests' : r \in requests \/ r \in requests' \ requests
  OBVIOUS
<1>4. \A r \in requests' : RequestOK(r)'
  BY <1>2, <1>3
<1>5. RequestOK(gate.request)'
  BY <1>2
<1>6. gate'.request.caller # NULL => \A r \in requests' : r.caller # gate'.request.caller
  BY <1>3 DEF ReverseInv, RequestsOK, Waiting
<1>7. \A r, q \in requests' : r.caller # NULL /\ r.caller = q.caller => r = q
  BY <1>3 DEF ReverseInv, RequestsOK, Waiting
<1>. QED
  BY <1>4, <1>5, <1>6, <1>7 DEF RequestsOK

\* Nobody gets or awaits anything else than before.
LEMMA RequestsWait ==
  ASSUME ReverseInv, TableMoves, TableInv', UNCHANGED <<gate, requests, replies, backup>>,
         \A v \in Workers :
            /\ worker'[v].pc = worker[v].pc /\ worker'[v].seq = worker[v].seq
            /\ worker'[v].unit = worker[v].unit /\ worker'[v].cursor = worker[v].cursor
  PROVE  RequestsOK'
<1>1. requests \subseteq Request /\ gate.request \in Request /\ Callers = Workers
  BY ServiceAssumption DEF ReverseInv, BrokerInv, BrokerTypeOK, Gate
<1>2. ASSUME NEW r \in requests \cup {gate.request}
      PROVE  RequestOK(r)'
  <2>1. r.caller # NULL => r.caller \in Workers
    BY <1>1 DEF Request
  <2>. QED
    BY <2>1, RequestKept
<1>. QED
  BY <1>2 DEF ReverseInv, RequestsOK

\* The requests of a caller that gives up, or died, stay without it.
LEMMA RequestsAbandoned ==
  ASSUME ReverseInv, NEW w \in Workers, NEW reply, Abandon(w, reply),
         TableMoves, TableInv', UNCHANGED backup,
         \A v \in Workers \ {w} : worker'[v] = worker[v]
  PROVE  RequestsOK'
<1>1. requests \subseteq Request /\ gate \in Gate /\ gate.request \in Request /\ Callers = Workers
      /\ replies \in [Callers -> Reply] /\ w # NULL
  BY ServiceAssumption, Bounds DEF ReverseInv, BrokerInv, BrokerTypeOK, Gate
<1>2. \A v \in Workers \ {w} : replies'[v] = replies[v]
  BY <1>1 DEF Abandon
<1>. DEFINE Left(r) == IF r.caller = w THEN [r EXCEPT !.caller = NULL] ELSE r
<1>3. \A q \in Request : /\ Left(q).op = q.op /\ Left(q).sequence = q.sequence
                         /\ Left(q).unit = q.unit /\ Left(q).caller # w
                         /\ Left(q).caller # NULL => Left(q) = q
  BY <1>1 DEF Request
<1>4. /\ \A r \in requests' : \E q \in requests : r = Left(q)
      /\ gate'.request = Left(gate.request)
  BY <1>1 DEF Abandon, Gate
<1>. HIDE DEF Left
<1>5. ASSUME NEW q \in requests \cup {gate.request}
      PROVE  RequestOK(Left(q))'
  <2>1. PICK r : r = Left(q)
    OBVIOUS
  <2>2. /\ r.op = q.op /\ r.sequence = q.sequence /\ r.unit = q.unit
        /\ r.caller # NULL => r.caller = q.caller /\ r.caller \in Workers \ {w}
    BY <1>1, <1>3, <2>1 DEF Request
  <2>3. RequestOK(r)'
    BY <1>2, <2>2, RequestKept
  <2>. QED
    BY <2>1, <2>3
<1>6. \A r \in requests' : RequestOK(r)'
  BY <1>4, <1>5
<1>7. RequestOK(gate.request)'
  BY <1>4, <1>5
<1>8. /\ gate'.request.caller # NULL => \A r \in requests' : r.caller # gate'.request.caller
      /\ \A r, q \in requests' : r.caller # NULL /\ r.caller = q.caller => r = q
  BY <1>1, <1>3, <1>4 DEF ReverseInv, RequestsOK
<1>. QED
  BY <1>6, <1>7, <1>8 DEF RequestsOK

\* The turn of one worker.
LEMMA OneTurn ==
  ASSUME ReverseInv, NEW w \in Workers, NEW new, Turn(w, new),
         BrokerInv', RequestsOK', UnitsStay, UNCHANGED gate,
         \A v \in Workers \ {w} : replies'[v] = replies[v],
         ReplyOK(w)', WorkerOK(w)'
  PROVE  ReverseStep
<1>1. /\ ServiceTypeOK' /\ ClientsOK'
      /\ \A v \in Workers \ {w} : worker'[v] = worker[v] /\ replies'[v] = replies[v]
  BY TurnFacts
<1>2. TableInv' /\ TableMoves /\ UNCHANGED backup
  BY DEF Turn, Around
<1>3. /\ \A v \in Workers : worker'[v] = worker[v] \/ WorkerOK(v)'
      /\ \A v \in Workers : \/ worker'[v] = worker[v] /\ replies'[v] = replies[v]
                            \/ ReplyOK(v)'
  <2>. SUFFICES ASSUME NEW v \in Workers
                PROVE  /\ worker'[v] = worker[v] \/ WorkerOK(v)'
                       /\ \/ worker'[v] = worker[v] /\ replies'[v] = replies[v]
                          \/ ReplyOK(v)'
    OBVIOUS
  <2>1. CASE v = w
    BY <2>1
  <2>2. CASE v # w
    BY <1>1, <2>2
  <2>. QED
    BY <2>1, <2>2
<1>. QED
  BY <1>1, <1>2, <1>3, TableTurn

\* A turn without the broker, or with the receipt of its answer.
LEMMA QuietTurn ==
  ASSUME ReverseInv, NEW w \in Workers, NEW new, Turn(w, new),
         \/ worker[w].pc \notin AwaitingSteps /\ NoBroker
         \/ Receive(w),
         new.pc \notin AwaitingSteps, WorkerOK(w)'
  PROVE  ReverseStep
<1>1. worker[w].pc \notin AwaitingSteps \/ Answered(w)
  BY DEF Receive, Answered
<1>2. ~Waiting(w)
  BY <1>1, Free
<1>3. w \in Callers /\ replies \in [Callers -> Reply] /\ Callers = Workers
  BY ServiceAssumption DEF ReverseInv, BrokerInv, BrokerTypeOK
<1>4. /\ BrokerInv' /\ UnitsStay /\ UNCHANGED <<gate, requests>>
      /\ \A v \in Workers \ {w} : replies'[v] = replies[v]
      /\ replies'[w] = NoReply
  <2>1. CASE worker[w].pc \notin AwaitingSteps /\ NoBroker
    <3>1. BrokerInv'
      BY <2>1, NextKeeps DEF NoBroker, ReverseInv
    <3>2. replies[w] = NoReply
      BY <2>1 DEF ReverseInv, ReplyOK
    <3>. QED
      BY <2>1, <3>1, <3>2 DEF NoBroker, brokerVars, UnitsStay
  <2>2. CASE Receive(w)
    BY <1>3, <2>2, CallersKeep DEF Receive, UnitsStay, ReverseInv
  <2>. QED
    BY <2>1, <2>2
<1>5. ServiceTypeOK' /\ ClientsOK' /\ worker'[w] = new
      /\ \A v \in Workers \ {w} : worker'[v] = worker[v]
  BY TurnFacts
<1>6. RequestsOK'
  BY <1>2, <1>4, <1>5, RequestsTurn DEF Turn, Around
<1>7. ReplyOK(w)'
  BY <1>4, <1>5 DEF ReplyOK, NoReply
<1>. QED
  BY <1>4, <1>5, <1>6, <1>7, OneTurn

\* A turn that ends with a request: what it asks for is recorded when it is sent.
LEMMA AskTurn ==
  ASSUME ReverseInv, NEW w \in Workers, NEW new, Turn(w, new),
         NEW op \in Operations, NEW s \in 0 .. MaxSequence, NEW u \in 0 .. MaxUnits,
         Ask(w, op, s, u),
         worker[w].pc \notin AwaitingSteps \/ Answered(w),
         new.pc \in AwaitingSteps, WorkerOK(w)',
         op = "create" => /\ s <= principal'.highWater
                          /\ backup = NULL => s \in Known' /\ attempts'[s].intent,
         op = "ack" => /\ s \in CreateSequences
                       /\ u # 0 /\ backup = NULL =>
                             attempts'[s].proof = u \/ orphans'[s].unit = u,
         op = "terminate" => s = new.seq /\ u = new.unit,
         op = "page" => s = new.cursor
  PROVE  ReverseStep
<1>1. ~Waiting(w)
  BY Free
<1>2. w \in Callers /\ replies \in [Callers -> Reply] /\ Callers = Workers
      /\ BrokerTypeOK
  BY ServiceAssumption DEF ReverseInv, BrokerInv, BrokerTypeOK
<1>3. ServiceTypeOK' /\ ClientsOK' /\ worker'[w] = new
      /\ \A v \in Workers \ {w} : worker'[v] = worker[v]
  BY TurnFacts
<1>. DEFINE r == [caller |-> w, op |-> op, sequence |-> s, unit |-> u]
<1>4. /\ UnitsStay /\ UNCHANGED gate
      /\ \A v \in Workers \ {w} : replies'[v] = replies[v]
      /\ \/ requests' = requests \cup {r} /\ replies'[w] = NoReply
         \/ requests' = requests /\ replies'[w] = ErrorReply
  BY <1>2 DEF Ask, UnitsStay
<1>5. BrokerInv'
  <2>1. requests' \subseteq Request /\ replies' \in [Callers -> Reply]
    BY <1>2, Replies DEF Ask, BrokerTypeOK, Request
  <2>2. BrokerTypeOK'
    BY <1>2, <2>1 DEF Ask, BrokerTypeOK
  <2>. QED
    BY <2>2, Quiet DEF Ask, ReverseInv
<1>6. RequestsOK'
  <2>1. CASE requests' = requests
    BY <1>1, <1>3, <1>4, <2>1, RequestsTurn DEF Turn, Around
  <2>2. CASE requests' = requests \cup {r} /\ replies'[w] = NoReply
    <3>1. /\ \A q \in requests' \ requests : q = r
          /\ r.caller = w /\ r.op = op /\ r.sequence = s /\ r.unit = u
      BY <2>2
    <3>2. RequestOK(r)'
      BY <1>3, <2>2, <3>1 DEF Turn, Around, RequestOK, Asked, Recorded, Matches
    <3>. QED
      BY <1>1, <1>3, <1>4, <3>1, <3>2, RequestsTurn DEF Turn, Around
  <2>. QED
    BY <1>4, <2>1, <2>2
<1>7. ReplyOK(w)'
  <2>1. replies'[w] \in {NoReply, ErrorReply}
    BY <1>4
  <2>2. replies'[w].kind \in {"none", "error"}
    BY <2>1 DEF NoReply, ErrorReply
  <2>. QED
    BY <1>3, <2>2 DEF ReplyOK
<1>. QED
  BY <1>3, <1>4, <1>5, <1>6, <1>7, OneTurn

\* Beyond the table a step writes nothing of these, or only the faults.
LEMMA StoreStays ==
  ASSUME ReverseInv, TableInv', TableMoves, NoStore,
         \/ Others
         \/ UNCHANGED <<client, backup>> /\ \E kind : Fault(kind)
  PROVE  Around
<1>1. faults' \in 0 .. MaxServiceFaults
  BY ServiceAssumption DEF ReverseInv, ServiceTypeOK, Others, Fault
<1>. QED
  BY <1>1 DEF ReverseInv, ServiceTypeOK, NoStore, Store, Others, Around

\* No transaction.
LEMMA TableStays ==
  ASSUME ReverseInv, NoTable
  PROVE  TableInv' /\ TableMoves
  BY JobTransactions DEF NoTable, ReverseInv

\* A table that is ahead of the broker stays ahead.
LEMMA AheadStays ==
  ASSUME ReverseInv, TableInv', TableMoves, UNCHANGED highWater, Ahead
  PROVE  Ahead'
<1>1. highWater \in Int /\ principal.highWater \in Int /\ principal'.highWater \in Int
  BY Bounds DEF ReverseInv, BrokerInv, BrokerTypeOK, TableInv, TableTypeOK, Principal
<1>. QED
  BY <1>1 DEF Ahead, TableMoves

\* A worker outside of its phase "reconcile" has recorded a page.
LEMMA PastIsAhead ==
  ASSUME ReverseInv, NEW w \in Workers, worker[w].pc \notin {"new", "off"}, Past(w)
  PROVE  Ahead
<1>1. w \in Alive
  BY DEF ReverseInv, ServiceTypeOK, Alive
<1>. QED
  BY <1>1 DEF ReverseInv, WorkerOK

\* The next step of an attempt.
LEMMA GoesOn ==
  ASSUME ReverseInv, NEW w \in Workers, NEW new, Turn(w, new), UNCHANGED highWater,
         worker[w].pc \in ExecutingSteps, new.pc \in ExecutingSteps,
         new.seq = worker[w].seq, new.phase = worker[w].phase,
         new.pc \in {"terminated", "undo"} => new.verdict # "none",
         new.pc = "reject" => new.verdict \in {"failed", "cancelled"}
  PROVE  WorkerOK(w)'
<1>1. worker'[w] = new
  BY TurnFacts
<1>2. new.pc \notin {"ack", "acked", "complete", "readying", "clean", "cleaned", "new"}
      /\ worker[w].pc \notin {"new", "off"}
  BY DEF ExecutingSteps
<1>3. new.seq \in Known' /\ attempts'[new.seq].number \in CreateSequences /\ new.phase = "claim"
  <2>1. /\ worker[w].phase = "claim" /\ worker[w].seq \in Known
        /\ attempts[worker[w].seq].number \in CreateSequences
    BY DEF ReverseInv, WorkerOK
  <2>2. worker[w].seq \in CreateSequences
    BY <2>1, KnownFacts DEF ReverseInv
  <2>. QED
    BY <2>1, <2>2 DEF Turn, Around, TableMoves
<1>4. new.phase # "reconcile" => Ahead'
  BY <1>2, PastIsAhead, AheadStays DEF Past, Turn, Around
<1>. QED
  BY <1>1, <1>2, <1>3, <1>4 DEF WorkerOK, Past

\* Any step outside of an attempt, and of the acknowledgements.
LEMMA GoesTo ==
  ASSUME ReverseInv, NEW w \in Workers, NEW new, Turn(w, new), UNCHANGED highWater,
         new.pc \notin ExecutingSteps \cup {"ack", "acked"},
         \/ new.pc = "off"
         \/ new.pc \notin {"complete", "readying"} /\ new.phase = "reconcile"
         \/ Ahead'
         \/ worker[w].pc \notin {"new", "off"} /\ Past(w),
         new.pc \in {"clean", "cleaned"} => new.job \in Jobs,
         new.pc # "new"
  PROVE  WorkerOK(w)'
<1>1. worker'[w] = new
  BY TurnFacts
<1>2. new.pc \notin {"terminated", "undo", "reject"}
  BY DEF ExecutingSteps
<1>3. w \in Alive' => new.pc \notin {"new", "off"}
  BY <1>1 DEF Alive
<1>4. worker[w].pc \notin {"new", "off"} /\ Past(w) => Ahead'
  BY PastIsAhead, AheadStays DEF Turn, Around
<1>. QED
  BY <1>1, <1>2, <1>3, <1>4 DEF WorkerOK, Past

\* Back to the loop.
LEMMA GoesBack ==
  ASSUME ReverseInv, NEW w \in Workers,
         NEW phase \in {"reconcile", "recover", "recover_proof", "claim"},
         BackTo(w, phase), Around,
         \/ worker[w].pc \notin AwaitingSteps /\ NoBroker
         \/ Receive(w),
         \/ phase = "reconcile"
         \/ worker[w].pc \notin {"new", "off"} /\ Past(w)
         \/ Ahead'
  PROVE  ReverseStep
<1>. DEFINE new == [NewWorker EXCEPT !.pc = "loop", !.phase = phase]
<1>1. NewWorker \in WorkerState
  <2>1. NoReply \in Reply /\ 0 \in 0 .. MaxSequence /\ 0 \in 0 .. MaxUnits
    BY Replies, Bounds
  <2>. QED
    BY <2>1 DEF NewWorker, WorkerState, WorkerSteps, Verdicts
<1>2. new \in WorkerState /\ new.pc = "loop" /\ new.phase = phase
  BY <1>1 DEF WorkerState, WorkerSteps, NewWorker
<1>3. Turn(w, new)
  BY <1>2 DEF BackTo, Turn
<1>. HIDE DEF new
<1>4. highWater' = highWater
  BY DEF NoBroker, brokerVars, Receive
<1>5. WorkerOK(w)'
  BY <1>2, <1>3, <1>4, GoesTo DEF ExecutingSteps
<1>. QED
  BY <1>2, <1>3, <1>5, QuietTurn DEF AwaitingSteps

\* After an error the worker tries again in the same phase.
LEMMA BacksOff ==
  ASSUME ReverseInv, NEW w \in Workers, worker[w].pc \notin {"new", "off"},
         BackOff(w), Around,
         \/ worker[w].pc \notin AwaitingSteps /\ NoBroker
         \/ Receive(w)
  PROVE  ReverseStep
<1>1. worker[w].phase \in {"reconcile", "recover", "recover_proof", "claim"}
  BY DEF ReverseInv, ServiceTypeOK, WorkerState
<1>. QED
  BY <1>1, GoesBack DEF BackOff, Past

----------------------------------------------------------------------------
(* reconcile_step.                                                         *)

\* The fields of a worker are of their kinds.
LEMMA WorkerFields ==
  ASSUME ReverseInv, NEW w \in Workers
  PROVE  /\ worker[w] \in WorkerState
         /\ worker[w].seq \in 0 .. MaxSequence /\ worker[w].unit \in 0 .. MaxUnits
         /\ worker[w].cursor \in 0 .. MaxSequence /\ worker[w].acks \subseteq CreateSequences
         /\ worker[w].phase \in {"reconcile", "recover", "recover_proof", "claim"}
         /\ worker[w].page \in Reply
         /\ replies[w] \in Reply /\ replies[w].unit \in 0 .. MaxUnits
         /\ 0 \in 0 .. MaxSequence /\ 0 \in 0 .. MaxUnits
         /\ CreateSequences \subseteq 0 .. MaxSequence
         /\ UnitIds \subseteq 0 .. MaxUnits
<1>1. replies \in [Workers -> Reply] /\ worker \in [Workers -> WorkerState]
  BY ServiceAssumption DEF ReverseInv, BrokerInv, BrokerTypeOK, ServiceTypeOK
<1>. QED
  BY <1>1, Bounds, UnitField DEF WorkerState, Reply, CreateSequences

\* The lease on the reconciliation, and the acknowledgements that are still due.
LEMMA BeginReconcileStep ==
  ASSUME ReverseInv, NEW w \in Workers, BeginReconcile(w)
  PROVE  ReverseStep
<1>1. TableInv' /\ TableMoves
  BY ReconciliationMoves DEF BeginReconcile, ReverseInv
<1>2. Around
  BY <1>1, StoreStays DEF BeginReconcile
<1>3. principal'.cursor \in 0 .. MaxSequence
  BY <1>1 DEF TableInv, TableTypeOK, Principal
<1>4. PICK c \in 0 .. MaxSequence : c = principal'.cursor
  BY <1>3
<1>. DEFINE new == [worker[w] EXCEPT !.pc = "page", !.cursor = c]
<1>5. new \in WorkerState /\ new.pc = "page" /\ new.cursor = c /\ new.phase = "reconcile"
      /\ Do(w, new) /\ Ask(w, "page", c, 0) /\ worker[w].pc = "loop"
  BY <1>4, WorkerFields DEF WorkerState, WorkerSteps, BeginReconcile, At
<1>. HIDE DEF new
<1>6. Turn(w, new) /\ UNCHANGED highWater
  BY <1>2, <1>5 DEF Turn, Ask
<1>7. WorkerOK(w)'
  BY <1>5, <1>6, GoesTo DEF ExecutingSteps
<1>. QED
  BY <1>5, <1>6, <1>7, AskTurn, WorkerFields DEF AwaitingSteps, Operations

\* A page that was true is true after a move of the table, and what was to be
\* acknowledged still is.
LEMMA AcknowledgingOn ==
  ASSUME ReverseInv, NEW w \in Workers, NEW new, Turn(w, new), UnitsStay,
         new.pc \in {"ack", "acked"},
         PageOK(new.page, new.cursor),
         new.acks \subseteq CreateSequences,
         \A s \in new.acks : ProofOf(s) # 0,
         new.phase # "reconcile" => Past(w) /\ worker[w].pc \notin {"new", "off"},
         new.pc = "acked" => new.seq \in CreateSequences /\ new.unit \in UnitIds
  PROVE  WorkerOK(w)'
<1>1. worker'[w] = new
  BY TurnFacts
<1>2. Ahead => Ahead'
  BY AheadStays DEF Turn, Around, UnitsStay
<1>3. Past(w) /\ worker[w].pc \notin {"new", "off"} => Ahead'
  BY <1>2, PastIsAhead
<1>4. /\ new.page.unit # 0 => /\ <<new.page.sequence, new.page.unit>> \in births'
                              /\ inventory'[new.page.unit].state \in {"removed", "none"}
                              /\ new.page.sequence > new.cursor
                              /\ new.page.sequence <= new.page.highWater
      /\ highWater' <= new.page.highWater \/ Ahead'
  BY <1>2 DEF PageOK, Proven, UnitsStay
<1>5. \A s \in new.acks : (IF s \in Known' THEN attempts'[s].proof ELSE orphans'[s].unit) # 0
  BY ProofsStay DEF Turn, Around
<1>6. new.pc \notin ExecutingSteps \cup {"complete", "readying", "clean", "cleaned", "new"}
      /\ new.pc \notin {"terminated", "undo", "reject"}
  BY DEF ExecutingSteps
<1>. QED
  BY <1>1, <1>3, <1>4, <1>5, <1>6 DEF WorkerOK, PageOK, Proven, ProofOf, Past

\* The page of the broker, or its error.
LEMMA PageArrivesStep ==
  ASSUME ReverseInv, NEW w \in Workers, PageArrives(w)
  PROVE  ReverseStep
<1>. worker[w].pc = "page" /\ Receive(w)
  BY DEF PageArrives, At
<1>1. CASE replies[w].kind = "page" /\ ReconciliationHeld(w)
  <2>. DEFINE new == [worker[w] EXCEPT !.pc = "ack", !.page = replies[w],
                                       !.acks = FirstBatch(Unacknowledged)]
  <2>1. pending_reconciliation_acknowledgements(w) /\ Do(w, new)
    BY <1>1 DEF PageArrives
  <2>2. TableInv' /\ TableMoves
    BY <2>1, AcknowledgingMoves DEF ReverseInv
  <2>3. Around
    BY <2>2, StoreStays DEF PageArrives
  <2>4. FirstBatch(Unacknowledged) \subseteq Unacknowledged
        /\ Unacknowledged \subseteq CreateSequences
    BY DEF FirstBatch, Unacknowledged, PendingAttempts, PendingOrphans
  <2>5. \A s \in Unacknowledged : ProofOf(s) # 0
    BY Domains DEF Unacknowledged, PendingAttempts, PendingOrphans, ProofOf, ReverseInv, TableInv,
       SequencesIssued, NoAttempt
  <2>6. /\ new \in WorkerState /\ new.pc = "ack" /\ new.page = replies[w]
        /\ new.acks = FirstBatch(Unacknowledged) /\ new.cursor = worker[w].cursor
        /\ new.phase = worker[w].phase
    BY <2>4, WorkerFields DEF WorkerState, WorkerSteps
  <2>. HIDE DEF new
  <2>7. Turn(w, new) /\ UnitsStay
    BY <2>1, <2>3, <2>6 DEF Turn, Receive, UnitsStay
  <2>8. PageOK(new.page, new.cursor)
    BY <1>1, <2>6 DEF ReverseInv, ReplyOK
  <2>9. WorkerOK(w)'
    BY <2>4, <2>5, <2>6, <2>7, <2>8, AcknowledgingOn DEF Past
  <2>. QED
    BY <2>6, <2>7, <2>9, QuietTurn DEF AwaitingSteps
<1>2. CASE ~(replies[w].kind = "page" /\ ReconciliationHeld(w))
  <2>1. NoTable /\ BackOff(w) /\ NoStore /\ Others
    BY <1>2 DEF PageArrives
  <2>. QED
    BY <2>1, TableStays, StoreStays, BacksOff
<1>. QED
  BY <1>1, <1>2

\* An acknowledgement whose intent is recorded, or the next thing to do.
LEMMA SendAckStep ==
  ASSUME ReverseInv, NEW w \in Workers, SendAck(w)
  PROVE  ReverseStep
<1>1. PICK s \in worker[w].acks :
         /\ Ask(w, "ack", s, ProofOf(s))
         /\ Do(w, [worker[w] EXCEPT !.pc = "acked", !.seq = s, !.unit = ProofOf(s)])
  BY DEF SendAck
<1>. DEFINE new == [worker[w] EXCEPT !.pc = "acked", !.seq = s, !.unit = ProofOf(s)]
<1>2. worker[w].pc = "ack" /\ WorkerOK(w) /\ s \in CreateSequences /\ ProofOf(s) # 0
  BY <1>1, WorkerFields DEF SendAck, At, ReverseInv, WorkerOK
<1>3. ProofOf(s) \in UnitIds
  <2>1. ProofOf(s) \in 0 .. MaxUnits
    BY <1>2, Domains DEF ProofOf, ReverseInv, TableInv, TableTypeOK, Attempt, Orphan
  <2>. QED
    BY <1>2, <2>1 DEF UnitIds
<1>4. Around /\ UnitsStay /\ TableInv' /\ TableMoves
  BY <1>1, TableStays, StoreStays DEF SendAck, Ask, UnitsStay
<1>5. /\ new \in WorkerState /\ new.pc = "acked" /\ new.page = worker[w].page
      /\ new.acks = worker[w].acks /\ new.cursor = worker[w].cursor
      /\ new.seq = s /\ new.unit = ProofOf(s) /\ new.phase = worker[w].phase
      /\ Do(w, new)
  BY <1>1, <1>2, <1>3, WorkerFields DEF WorkerState, WorkerSteps
<1>. HIDE DEF new
<1>6. Turn(w, new)
  BY <1>4, <1>5 DEF Turn
<1>7. WorkerOK(w)'
  BY <1>2, <1>3, <1>4, <1>5, <1>6, WorkerFields, AcknowledgingOn DEF WorkerOK, Past
<1>8. (IF s \in Known' THEN attempts'[s].proof ELSE orphans'[s].unit) = ProofOf(s)
  BY DEF SendAck, NoTable, tableVars, Known, ProofOf
<1>9. attempts'[s].proof = ProofOf(s) \/ orphans'[s].unit = ProofOf(s)
  BY <1>8
<1>. QED
  BY <1>1, <1>2, <1>3, <1>5, <1>6, <1>7, <1>9, WorkerFields, AskTurn DEF AwaitingSteps, Operations

\* The broker has forgotten a tombstone, or refused to.
LEMMA AckArrivesStep ==
  ASSUME ReverseInv, NEW w \in Workers, AckArrives(w)
  PROVE  ReverseStep
<1>. worker[w].pc = "acked" /\ Receive(w)
  BY DEF AckArrives, At
<1>1. CASE replies[w].kind = "done" /\ ReconciliationHeld(w)
  <2>. DEFINE new == [worker[w] EXCEPT !.pc = "ack", !.acks = @ \ {worker[w].seq}]
  <2>1. mark_reconciliation_acknowledged(w, worker[w].seq, worker[w].unit) /\ Do(w, new)
        /\ WorkerOK(w)
    BY <1>1 DEF AckArrives, ReverseInv
  <2>2. TableInv' /\ TableMoves
    BY <2>1, AcknowledgingMoves DEF ReverseInv, WorkerOK
  <2>3. Around
    BY <2>2, StoreStays DEF AckArrives
  <2>4. /\ new \in WorkerState /\ new.pc = "ack" /\ new.page = worker[w].page
        /\ new.acks \subseteq worker[w].acks /\ new.cursor = worker[w].cursor
        /\ new.phase = worker[w].phase
    BY WorkerFields DEF WorkerState, WorkerSteps
  <2>. HIDE DEF new
  <2>5. Turn(w, new) /\ UnitsStay
    BY <2>1, <2>3, <2>4 DEF Turn, Receive, UnitsStay
  <2>6. WorkerOK(w)'
    BY <2>1, <2>4, <2>5, WorkerFields, AcknowledgingOn DEF WorkerOK, Past
  <2>. QED
    BY <2>4, <2>5, <2>6, QuietTurn DEF AwaitingSteps
<1>2. CASE ~(replies[w].kind = "done" /\ ReconciliationHeld(w))
  <2>1. NoTable /\ BackOff(w) /\ NoStore /\ Others
    BY <1>2 DEF AckArrives
  <2>. QED
    BY <2>1, TableStays, StoreStays, BacksOff
<1>. QED
  BY <1>1, <1>2

\* record_reconciliation_page: from here on the table is ahead of the broker.
LEMMA RecordPageStep ==
  ASSUME ReverseInv, NEW w \in Workers, RecordPage(w)
  PROVE  ReverseStep
<1>. DEFINE page == worker[w].page
            cursor == worker[w].cursor
<1>1. /\ worker[w].pc = "ack" /\ NoBroker /\ NoStore /\ Others
      /\ \/ /\ record_reconciliation_page(w, cursor, page.sequence, page.unit, page.highWater)
            /\ BackTo(w, "reconcile") \/ Continue(w, "complete")
         \/ NoTable /\ BackOff(w)
  BY DEF RecordPage, At
<1>2. /\ page \in Reply /\ cursor \in 0 .. MaxSequence /\ PageOK(page, cursor)
      /\ page.sequence \in 0 .. MaxSequence /\ page.highWater \in 0 .. MaxSequence
      /\ page.unit \in 0 .. MaxUnits
  BY <1>1, WorkerFields DEF ReverseInv, WorkerOK, Reply
<1>3. page.unit # 0 => /\ page.sequence \in CreateSequences /\ page.sequence > cursor
                       /\ page.sequence <= page.highWater /\ Proven(page.sequence, page.unit)
  BY <1>2 DEF PageOK, Proven, ReverseInv, BrokerInv, BrokerTypeOK
<1>4. highWater' = highWater
  BY <1>1 DEF NoBroker, brokerVars
<1>5. CASE NoTable /\ BackOff(w)
  BY <1>1, <1>5, TableStays, StoreStays, BacksOff DEF AwaitingSteps
<1>6. CASE /\ record_reconciliation_page(w, cursor, page.sequence, page.unit, page.highWater)
           /\ BackTo(w, "reconcile") \/ Continue(w, "complete")
  <2>1. TableInv' /\ TableMoves /\ page.highWater <= principal'.highWater
    <3>. HIDE DEF page, cursor
    <3>. QED
      BY <1>2, <1>3, <1>6, PageMoves DEF ReverseInv
  <2>2. Around
    BY <1>1, <2>1, StoreStays
  <2>3. Ahead'
    <3>1. highWater \in Int /\ principal'.highWater \in Int /\ page.highWater \in Int
      BY <1>2, <2>1, Bounds DEF ReverseInv, BrokerInv, BrokerTypeOK, TableInv, TableTypeOK, Principal
    <3>2. CASE highWater <= page.highWater
      BY <1>4, <2>1, <3>1, <3>2 DEF Ahead
    <3>3. CASE Ahead
      BY <1>4, <2>1, <3>3, AheadStays
    <3>. QED
      BY <1>2, <3>2, <3>3 DEF PageOK
  <2>4. CASE BackTo(w, "reconcile")
    BY <1>1, <2>2, <2>4, GoesBack DEF AwaitingSteps
  <2>5. CASE Continue(w, "complete")
    <3>. DEFINE new == [worker[w] EXCEPT !.pc = "complete"]
    <3>1. new \in WorkerState /\ new.pc = "complete" /\ Do(w, new)
      BY <2>5, WorkerFields DEF WorkerState, WorkerSteps, Continue
    <3>. HIDE DEF new
    <3>2. Turn(w, new)
      BY <2>2, <3>1 DEF Turn
    <3>3. WorkerOK(w)'
      BY <1>4, <2>3, <3>1, <3>2, GoesTo DEF ExecutingSteps
    <3>. QED
      BY <1>1, <3>1, <3>2, <3>3, QuietTurn DEF AwaitingSteps
  <2>. QED
    BY <1>6, <2>4, <2>5
<1>. QED
  BY <1>1, <1>5, <1>6

\* complete_reconciliation, and the question whether the broker is ready.
LEMMA CompleteStep ==
  ASSUME ReverseInv, NEW w \in Workers, Complete(w)
  PROVE  ReverseStep
<1>1. worker[w].pc = "complete" /\ NoStore /\ Others
  BY DEF Complete, At
<1>2. Past(w)
  BY <1>1 DEF Past
<1>3. CASE complete_reconciliation(w) /\ Ask(w, "ready", 0, 0) /\ Continue(w, "readying")
  <2>. DEFINE new == [worker[w] EXCEPT !.pc = "readying"]
  <2>1. TableInv' /\ TableMoves
    BY <1>3, ReconciliationMoves DEF ReverseInv
  <2>2. Around /\ UNCHANGED highWater
    BY <1>1, <1>3, <2>1, StoreStays DEF Ask
  <2>3. new \in WorkerState /\ new.pc = "readying" /\ Do(w, new)
    BY <1>3, WorkerFields DEF WorkerState, WorkerSteps, Continue
  <2>. HIDE DEF new
  <2>4. Turn(w, new)
    BY <2>2, <2>3 DEF Turn
  <2>5. WorkerOK(w)'
    BY <1>1, <1>2, <2>2, <2>3, <2>4, GoesTo DEF ExecutingSteps
  <2>. QED
    BY <1>1, <1>3, <2>3, <2>4, <2>5, WorkerFields, AskTurn DEF AwaitingSteps, Operations
<1>4. CASE /\ BackTo(w, "recover_proof") \/ BackTo(w, "reconcile")
           /\ NoTable /\ NoBroker
  <2>1. Around
    BY <1>1, <1>4, TableStays, StoreStays
  <2>. QED
    BY <1>1, <1>2, <1>4, <2>1, GoesBack DEF AwaitingSteps
<1>. QED
  BY <1>3, <1>4 DEF Complete

\* The broker is ready, or not.
LEMMA ReadyArrivesStep ==
  ASSUME ReverseInv, NEW w \in Workers, ReadyArrives(w)
  PROVE  ReverseStep
<1>1. /\ worker[w].pc = "readying" /\ Receive(w)
      /\ BackTo(w, "recover") \/ BackTo(w, "reconcile")
  BY DEF ReadyArrives, At
<1>2. Past(w)
  BY <1>1 DEF Past
<1>3. Around
  BY TableStays, StoreStays DEF ReadyArrives
<1>. QED
  BY <1>1, <1>2, <1>3, GoesBack

\* The steps of reconcile_step.
LEMMA ReconcileSteps ==
  ASSUME ReverseInv, NEW w \in Workers, ReconcileStep(w)
  PROVE  ReverseStep
BY BeginReconcileStep, PageArrivesStep, SendAckStep, AckArrivesStep, RecordPageStep, CompleteStep,
   ReadyArrivesStep DEF ReconcileStep

----------------------------------------------------------------------------
(* recover_step.                                                           *)

\* A sequence that the table knows is one that it drew.
LEMMA KnownIsIssued ==
  ASSUME ReverseInv, NEW s \in Known
  PROVE  s \in CreateSequences /\ s <= principal.highWater
BY Domains DEF ReverseInv, TableInv, SequencesIssued, Known

\* An attempt without a worker is recovered: its unit is created again or terminated.
LEMMA RecoverAttemptStep ==
  ASSUME ReverseInv, NEW w \in Workers, RecoverAttempt(w)
  PROVE  ReverseStep
<1>. DEFINE op(u) == IF u = 0 THEN "create" ELSE "terminate"
            pc(u) == IF u = 0 THEN "rcreated" ELSE "rterminated"
<1>1. PICK s \in CreateSequences :
         /\ claim_recovery(w, s)
         /\ LET u == attempts[s].unit
            IN  /\ Ask(w, op(u), s, u)
                /\ Do(w, [worker[w] EXCEPT !.pc = pc(u), !.seq = s, !.unit = u])
  BY DEF RecoverAttempt
<1>2. PICK u \in 0 .. MaxUnits : u = attempts[s].unit
  BY DEF ReverseInv, TableInv, TableTypeOK, Attempt
<1>. DEFINE new == [worker[w] EXCEPT !.pc = pc(u), !.seq = s, !.unit = u]
<1>3. worker[w].pc = "loop" /\ worker[w].phase # "reconcile"
  BY DEF RecoverAttempt, At
<1>4. TableInv' /\ TableMoves /\ s \in Known' /\ attempts'[s].intent
  BY <1>1, RecoveryMoves DEF ReverseInv, Asked
<1>5. Around /\ UNCHANGED highWater
  BY <1>1, <1>4, StoreStays DEF RecoverAttempt, Ask
<1>6. /\ new \in WorkerState /\ new.pc \in {"rcreated", "rterminated"} /\ new.seq = s /\ new.unit = u
      /\ Do(w, new) /\ Ask(w, op(u), s, u)
  BY <1>1, <1>2, WorkerFields DEF WorkerState, WorkerSteps
<1>. HIDE DEF new
<1>7. Turn(w, new)
  BY <1>5, <1>6 DEF Turn
<1>8. WorkerOK(w)'
  BY <1>3, <1>5, <1>6, <1>7, GoesTo DEF ExecutingSteps, Past
<1>9. s \in Known /\ s <= principal'.highWater
  <2>1. s \in Known
    BY <1>1 DEF claim_recovery, Recoverable
  <2>. QED
    BY <1>1, <2>1, KnownIsIssued DEF claim_recovery
<1>. QED
  BY <1>3, <1>4, <1>6, <1>7, <1>8, <1>9, WorkerFields, AskTurn DEF AwaitingSteps, Operations

\* There is none to recover.
LEMMA NothingToRecoverStep ==
  ASSUME ReverseInv, NEW w \in Workers, NothingToRecover(w)
  PROVE  ReverseStep
<1>. DEFINE new == [worker[w] EXCEPT !.pc = "requeue"]
<1>1. worker[w].pc = "loop" /\ worker[w].phase # "reconcile"
  BY DEF NothingToRecover, At
<1>2. Around /\ UNCHANGED highWater
  BY TableStays, StoreStays DEF NothingToRecover, NoBroker, brokerVars
<1>3. new \in WorkerState /\ new.pc = "requeue" /\ Do(w, new)
  BY WorkerFields DEF WorkerState, WorkerSteps, NothingToRecover, Continue
<1>. HIDE DEF new
<1>4. Turn(w, new)
  BY <1>2, <1>3 DEF Turn
<1>5. WorkerOK(w)'
  BY <1>1, <1>2, <1>3, <1>4, GoesTo DEF ExecutingSteps, Past
<1>. QED
  BY <1>1, <1>3, <1>4, <1>5, QuietTurn DEF AwaitingSteps, NothingToRecover

\* Recovery steps of a worker that is alive and not in its phase "reconcile", or that
\* keeps its phase.
LEMMA KeepsPhase ==
  ASSUME ReverseInv, NEW w \in Workers, NEW new, Turn(w, new), UNCHANGED highWater,
         worker[w].pc \notin {"new", "off"}, new.phase = worker[w].phase,
         new.pc \notin ExecutingSteps \cup {"ack", "acked", "complete", "readying",
                                            "clean", "cleaned", "new"}
  PROVE  WorkerOK(w)'
<1>1. new.phase = "reconcile" \/ Past(w)
  BY DEF Past
<1>. QED
  BY <1>1, GoesTo

\* The unit of the attempt is known, and is terminated.
LEMMA RecoveryCreatedStep ==
  ASSUME ReverseInv, NEW w \in Workers, RecoveryCreated(w)
  PROVE  ReverseStep
<1>1. worker[w].pc = "rcreated" /\ Answered(w) /\ Around
  BY TableStays, StoreStays DEF RecoveryCreated, At
<1>2. CASE replies[w].kind = "unit" /\ replies[w].state = "created"
  <2>. DEFINE new == [worker[w] EXCEPT !.pc = "rterminated", !.unit = replies[w].unit]
  <2>1. Ask(w, "terminate", worker[w].seq, replies[w].unit) /\ Do(w, new) /\ UNCHANGED highWater
    BY <1>2 DEF RecoveryCreated, Ask
  <2>2. /\ new \in WorkerState /\ new.pc = "rterminated" /\ new.phase = worker[w].phase
        /\ new.seq = worker[w].seq /\ new.unit = replies[w].unit
    BY WorkerFields DEF WorkerState, WorkerSteps
  <2>. HIDE DEF new
  <2>3. Turn(w, new)
    BY <1>1, <2>1, <2>2 DEF Turn
  <2>4. WorkerOK(w)'
    BY <1>1, <2>1, <2>2, <2>3, KeepsPhase DEF ExecutingSteps
  <2>. QED
    BY <1>1, <2>1, <2>2, <2>3, <2>4, WorkerFields, AskTurn DEF AwaitingSteps, Operations
<1>3. CASE ~(replies[w].kind = "unit" /\ replies[w].state = "created")
  BY <1>1, <1>3, BacksOff DEF RecoveryCreated
<1>. QED
  BY <1>2, <1>3

\* The unit is gone, and its proof is recorded and acknowledged.
LEMMA RecoveryTerminatedStep ==
  ASSUME ReverseInv, NEW w \in Workers, RecoveryTerminated(w)
  PROVE  ReverseStep
<1>. DEFINE s == worker[w].seq
            u == worker[w].unit
            new == [worker[w] EXCEPT !.pc = "racked"]
<1>1. worker[w].pc = "rterminated" /\ Answered(w) /\ NoStore /\ Others
  BY DEF RecoveryTerminated, At
<1>2. CASE /\ replies[w].kind = "proof" /\ record_recovery_termination_proof(w, s, u)
           /\ Ask(w, "ack", s, u) /\ Continue(w, "racked")
  <2>1. Proven(s, u)
    BY <1>2 DEF ReverseInv, ReplyOK
  <2>2. s \in CreateSequences /\ u \in UnitIds
    BY <2>1 DEF Proven, ReverseInv, BrokerInv, BrokerTypeOK
  <2>3. TableInv' /\ TableMoves /\ attempts'[s].proof = u
    <3>. HIDE DEF s, u
    <3>. QED
      BY <1>2, <2>1, <2>2, TerminationMoves DEF ReverseInv
  <2>4. Around /\ UNCHANGED highWater
    BY <1>1, <1>2, <2>3, StoreStays DEF Ask
  <2>5. new \in WorkerState /\ new.pc = "racked" /\ new.phase = worker[w].phase /\ Do(w, new)
    BY <1>2, WorkerFields DEF WorkerState, WorkerSteps, Continue
  <2>. HIDE DEF new
  <2>6. Turn(w, new)
    BY <2>4, <2>5 DEF Turn
  <2>7. WorkerOK(w)'
    BY <1>1, <2>4, <2>5, <2>6, KeepsPhase DEF ExecutingSteps
  <2>. HIDE DEF s, u
  <2>. QED
    BY <1>1, <1>2, <2>2, <2>3, <2>5, <2>6, <2>7, WorkerFields, AskTurn DEF AwaitingSteps, Operations
<1>3. CASE NoTable /\ Receive(w) /\ BackOff(w)
  BY <1>1, <1>3, TableStays, StoreStays, BacksOff
<1>. QED
  BY <1>2, <1>3 DEF RecoveryTerminated

\* The broker was told of the proof.
LEMMA RecoveryAckedStep ==
  ASSUME ReverseInv, NEW w \in Workers, RecoveryAcked(w)
  PROVE  ReverseStep
<1>. DEFINE s == worker[w].seq
            u == worker[w].unit
            new == [worker[w] EXCEPT !.pc = "requeue"]
<1>1. worker[w].pc = "racked" /\ Receive(w) /\ NoStore /\ Others
  BY DEF RecoveryAcked, At
<1>2. CASE acknowledge_termination_proof(s, u) /\ Continue(w, "requeue")
  <2>1. u \in UnitIds
    BY <1>2, WorkerFields DEF acknowledge_termination_proof, UnitIds
  <2>2. TableInv' /\ TableMoves
    <3>. HIDE DEF s, u
    <3>. QED
      BY <1>2, <2>1, TerminationMoves DEF ReverseInv
  <2>3. Around /\ UNCHANGED highWater
    BY <1>1, <2>2, StoreStays DEF Receive
  <2>4. new \in WorkerState /\ new.pc = "requeue" /\ new.phase = worker[w].phase /\ Do(w, new)
    BY <1>2, WorkerFields DEF WorkerState, WorkerSteps, Continue
  <2>. HIDE DEF new
  <2>5. Turn(w, new)
    BY <2>3, <2>4 DEF Turn
  <2>6. WorkerOK(w)'
    BY <1>1, <2>3, <2>4, <2>5, KeepsPhase DEF ExecutingSteps
  <2>. QED
    BY <1>1, <2>4, <2>5, <2>6, QuietTurn DEF AwaitingSteps
<1>3. CASE NoTable /\ BackOff(w)
  BY <1>1, <1>3, TableStays, StoreStays, BacksOff
<1>. QED
  BY <1>2, <1>3 DEF RecoveryAcked

\* recover_expired_leases.
LEMMA RequeueStep ==
  ASSUME ReverseInv, NEW w \in Workers, Requeue(w)
  PROVE  ReverseStep
<1>1. /\ worker[w].pc = "requeue" /\ NoBroker
      /\ \/ BackTo(w, "claim") /\ worker[w].phase # "reconcile"
         \/ BackTo(w, "reconcile")
  BY DEF Requeue, At
<1>2. TableInv' /\ TableMoves
  BY LeasesMove DEF Requeue, ReverseInv
<1>3. Around
  BY <1>2, StoreStays DEF Requeue
<1>. QED
  BY <1>1, <1>3, GoesBack DEF AwaitingSteps, Past

\* The steps of recover_step.
LEMMA RecoverSteps ==
  ASSUME ReverseInv, NEW w \in Workers, RecoverStep(w)
  PROVE  ReverseStep
BY RecoverAttemptStep, NothingToRecoverStep, RecoveryCreatedStep, RecoveryTerminatedStep,
   RecoveryAckedStep, RequeueStep DEF RecoverStep

----------------------------------------------------------------------------
(* run_reconciled_once.                                                    *)

\* claim: the sequence is beyond what the broker has seen.
LEMMA ClaimJobStep ==
  ASSUME ReverseInv, NEW w \in Workers, ClaimJob(w)
  PROVE  ReverseStep
<1>1. PICK j \in Jobs : /\ claim(w, j)
                        /\ Do(w, [worker[w] EXCEPT !.pc = "load", !.seq = principal'.highWater])
  BY DEF ClaimJob
<1>2. worker[w].pc = "loop" /\ worker[w].phase = "claim" /\ NoBroker /\ NoStore /\ Others
  BY DEF ClaimJob, At
<1>3. Ahead
  BY <1>2, PastIsAhead DEF Past
<1>4. /\ TableMoves /\ TableInv'
      /\ principal'.highWater \in Known'
      /\ attempts'[principal'.highWater].number \in CreateSequences
  BY <1>1, <1>3, ClaimMoves DEF ReverseInv, BrokerInv, BrokerTypeOK
<1>5. PICK s \in 0 .. MaxSequence : s = principal'.highWater
  BY <1>4 DEF TableInv, TableTypeOK, Principal
<1>. DEFINE new == [worker[w] EXCEPT !.pc = "load", !.seq = s]
<1>6. /\ new \in WorkerState /\ new.pc = "load" /\ new.seq = s /\ new.phase = "claim"
      /\ Do(w, new)
  <2>1. "load" \in WorkerSteps
    BY DEF WorkerSteps, ExecutingSteps
  <2>. QED
    BY <1>1, <1>2, <1>5, <2>1, WorkerFields DEF WorkerState
<1>. HIDE DEF new
<1>7. Around /\ UNCHANGED highWater
  BY <1>2, <1>4, StoreStays DEF NoBroker, brokerVars
<1>8. Turn(w, new) /\ Ahead'
  BY <1>3, <1>4, <1>6, <1>7, AheadStays DEF Turn
<1>9. WorkerOK(w)'
  BY <1>4, <1>5, <1>6, <1>8, TurnFacts DEF WorkerOK
<1>. QED
  BY <1>2, <1>6, <1>8, <1>9, QuietTurn DEF AwaitingSteps

\* There is no job to claim.
LEMMA NothingToClaimStep ==
  ASSUME ReverseInv, NEW w \in Workers, NothingToClaim(w)
  PROVE  ReverseStep
<1>1. Around
  BY TableStays, StoreStays DEF NothingToClaim
<1>. QED
  BY <1>1, GoesBack DEF NothingToClaim, At, AwaitingSteps

\* The next step of an attempt, without the broker or with its answer.
LEMMA Proceeds ==
  ASSUME ReverseInv, NEW w \in Workers, NEW new, Do(w, new), new \in WorkerState, Around,
         \/ worker[w].pc \notin AwaitingSteps /\ NoBroker
         \/ Receive(w),
         worker[w].pc \in ExecutingSteps, new.pc \in ExecutingSteps \ AwaitingSteps,
         new.seq = worker[w].seq, new.phase = worker[w].phase,
         new.pc = "undo" => new.verdict # "none",
         new.pc = "reject" => new.verdict \in {"failed", "cancelled"}
  PROVE  ReverseStep
<1>1. Turn(w, new) /\ UNCHANGED highWater /\ new.pc # "terminated"
  BY DEF Turn, NoBroker, brokerVars, Receive, AwaitingSteps
<1>2. WorkerOK(w)'
  BY <1>1, GoesOn
<1>. QED
  BY <1>1, <1>2, QuietTurn

\* The attempt goes on at another step.
LEMMA ContinuesTo ==
  ASSUME ReverseInv, NEW w \in Workers, NEW pc \in ExecutingSteps \ AwaitingSteps,
         Continue(w, pc), Around,
         \/ worker[w].pc \notin AwaitingSteps /\ NoBroker
         \/ Receive(w),
         worker[w].pc \in ExecutingSteps,
         pc = "undo" => worker[w].verdict # "none",
         pc = "reject" => worker[w].verdict \in {"failed", "cancelled"}
  PROVE  ReverseStep
<1>. DEFINE new == [worker[w] EXCEPT !.pc = pc]
<1>1. /\ new \in WorkerState /\ new.pc = pc /\ new.seq = worker[w].seq
      /\ new.phase = worker[w].phase /\ new.verdict = worker[w].verdict /\ Do(w, new)
  BY WorkerFields DEF WorkerState, WorkerSteps, Continue
<1>. HIDE DEF new
<1>. QED
  BY <1>1, Proceeds

\* The attempt goes on with a verdict.
LEMMA ContinuesWith ==
  ASSUME ReverseInv, NEW w \in Workers, NEW pc \in ExecutingSteps \ AwaitingSteps,
         NEW v \in Verdicts,
         Do(w, [worker[w] EXCEPT !.pc = pc, !.verdict = v]), Around,
         \/ worker[w].pc \notin AwaitingSteps /\ NoBroker
         \/ Receive(w),
         worker[w].pc \in ExecutingSteps,
         pc = "undo" => v # "none",
         pc = "reject" => v \in {"failed", "cancelled"}
  PROVE  ReverseStep
<1>. DEFINE new == [worker[w] EXCEPT !.pc = pc, !.verdict = v]
<1>1. /\ new \in WorkerState /\ new.pc = pc /\ new.seq = worker[w].seq
      /\ new.phase = worker[w].phase /\ new.verdict = v /\ Do(w, new)
  BY WorkerFields DEF WorkerState, WorkerSteps
<1>. HIDE DEF new
<1>. QED
  BY <1>1, Proceeds

\* The attempt goes on with a request about its unit.
LEMMA AsksOn ==
  ASSUME ReverseInv, NEW w \in Workers, NEW pc \in ExecutingSteps \cap AwaitingSteps, pc # "terminated",
         NEW op \in {"create", "stage", "collect"}, NEW u \in 0 .. MaxUnits,
         Ask(w, op, worker[w].seq, u), Continue(w, pc), Around,
         worker[w].pc \notin AwaitingSteps \/ Answered(w),
         worker[w].pc \in ExecutingSteps,
         op = "create" => attempts'[worker[w].seq].intent
  PROVE  ReverseStep
<1>. DEFINE new == [worker[w] EXCEPT !.pc = pc]
            s == worker[w].seq
<1>1. /\ new \in WorkerState /\ new.pc = pc /\ new.seq = worker[w].seq
      /\ new.phase = worker[w].phase /\ Do(w, new)
  BY WorkerFields DEF WorkerState, WorkerSteps, Continue
<1>. HIDE DEF new
<1>2. Turn(w, new) /\ UNCHANGED highWater
  BY <1>1 DEF Turn, Ask
<1>3. WorkerOK(w)'
  BY <1>1, <1>2, GoesOn DEF AwaitingSteps
<1>4. s \in Known' /\ s <= principal'.highWater
  <2>1. s \in Known
    BY DEF ReverseInv, WorkerOK
  <2>2. s \in CreateSequences
    BY <2>1, KnownIsIssued
  <2>3. s \in Known'
    BY <2>1, <2>2 DEF Around, TableMoves
  <2>4. TableInv'
    BY DEF Around
  <2>. QED
    BY <2>3, <2>4 DEF TableInv, SequencesIssued, Known
<1>5. s \in 0 .. MaxSequence /\ Ask(w, op, s, u) /\ op \in Operations
  BY WorkerFields DEF Operations
<1>. HIDE DEF s
<1>. QED
  BY <1>1, <1>2, <1>3, <1>4, <1>5, AskTurn DEF s

\* Whatever goes wrong is kept while the unit is terminated.
LEMMA Terminates ==
  ASSUME ReverseInv, NEW w \in Workers, NEW v \in Verdicts \ {"none"}, Terminate_unit(w, v), Around,
         worker[w].pc \notin AwaitingSteps \/ Answered(w),
         worker[w].pc \in ExecutingSteps
  PROVE  ReverseStep
<1>. DEFINE new == [worker[w] EXCEPT !.pc = "terminated", !.verdict = v]
<1>1. /\ new \in WorkerState /\ new.pc = "terminated" /\ new.seq = worker[w].seq
      /\ new.unit = worker[w].unit /\ new.phase = worker[w].phase /\ new.verdict = v /\ Do(w, new)
      /\ new.pc \in ExecutingSteps
  <2>1. "terminated" \in ExecutingSteps /\ "terminated" \in WorkerSteps
    BY DEF WorkerSteps, ExecutingSteps
  <2>. QED
    BY <2>1, WorkerFields DEF WorkerState, Terminate_unit
<1>. HIDE DEF new
<1>2. Turn(w, new) /\ UNCHANGED highWater /\ Ask(w, "terminate", worker[w].seq, worker[w].unit)
  BY <1>1 DEF Turn, Ask, Terminate_unit
<1>3. WorkerOK(w)'
  BY <1>1, <1>2, GoesOn
<1>. QED
  BY <1>1, <1>2, <1>3, WorkerFields, AskTurn DEF AwaitingSteps, Operations

\* An attempt that backs off.
LEMMA AttemptBacksOff ==
  ASSUME ReverseInv, NEW w \in Workers, worker[w].pc \in ExecutingSteps,
         BackOff(w), Around,
         \/ worker[w].pc \notin AwaitingSteps /\ NoBroker
         \/ Receive(w)
  PROVE  ReverseStep
<1>1. worker[w].pc \notin {"new", "off"}
  BY DEF ExecutingSteps
<1>. QED
  BY <1>1, BacksOff

\* raise_if_interrupted.
LEMMA InterruptionKinds ==
  ASSUME NEW w
  PROVE  Interruptions(w) \subseteq {"broken", "failed", "cancelled"}
BY DEF Interruptions

\* The source is read, and may be missing.
LEMMA LoadStep ==
  ASSUME ReverseInv, NEW w \in Workers, Load(w)
  PROVE  ReverseStep
<1>1. /\ worker[w].pc = "load" /\ NoBroker /\ Around
      /\ {"load", "intent", "reject"} \subseteq ExecutingSteps \ AwaitingSteps
  BY TableStays, StoreStays DEF Load, At, AwaitingSteps, ExecutingSteps
<1>2. CASE Continue(w, "intent")
  BY <1>1, <1>2, ContinuesTo
<1>3. CASE BackOff(w)
  BY <1>1, <1>3, AttemptBacksOff
<1>4. ASSUME NEW v \in {"failed", "cancelled"},
             Do(w, [worker[w] EXCEPT !.pc = "reject", !.verdict = v])
      PROVE  ReverseStep
  BY <1>1, <1>4, ContinuesWith DEF Verdicts
<1>. QED
  BY <1>2, <1>3, <1>4, InterruptionKinds DEF Load

\* reserve_create_intent, and the request for a unit.
LEMMA IntentStepOfAttempt ==
  ASSUME ReverseInv, NEW w \in Workers, Intent(w)
  PROVE  ReverseStep
<1>. DEFINE s == worker[w].seq
<1>1. /\ worker[w].pc = "intent" /\ NoStore /\ Others
      /\ "intent" \in ExecutingSteps \ AwaitingSteps
      /\ "created" \in ExecutingSteps \cap AwaitingSteps
  BY DEF Intent, At, AwaitingSteps, ExecutingSteps
<1>2. CASE reserve_create_intent(w, s) /\ Ask(w, "create", s, 0) /\ Continue(w, "created")
  <2>1. TableInv' /\ TableMoves /\ attempts'[s].intent
    <3>1. PICK t : t = s
      OBVIOUS
    <3>2. reserve_create_intent(w, t)
      BY <1>2, <3>1
    <3>3. \/ reserve_create_intent(w, t)
          \/ record_broker_unit(w, t, 0) /\ 0 \in UnitIds
      BY <3>2
    <3>4. TableInv' /\ TableMoves /\ attempts'[t].intent
      BY <3>2, <3>3, IntentMoves DEF ReverseInv
    <3>. QED
      BY <3>1, <3>4
  <2>2. Around
    BY <1>1, <2>1, StoreStays
  <2>. QED
    BY <1>1, <1>2, <2>1, <2>2, WorkerFields, AsksOn
<1>3. CASE NoTable /\ NoBroker /\ BackOff(w)
  BY <1>1, <1>3, TableStays, StoreStays, AttemptBacksOff
<1>. QED
  BY <1>2, <1>3 DEF Intent

\* The unit is there, and is bound to the attempt.
LEMMA CreatedStep ==
  ASSUME ReverseInv, NEW w \in Workers, Created(w)
  PROVE  ReverseStep
<1>. DEFINE s == worker[w].seq
            u == replies[w].unit
<1>1. /\ worker[w].pc = "created" /\ Receive(w) /\ NoStore /\ Others
      /\ "created" \in ExecutingSteps
      /\ {"stage", "reject"} \subseteq ExecutingSteps \ AwaitingSteps
  BY DEF Created, At, AwaitingSteps, ExecutingSteps
<1>2. CASE /\ replies[w].kind = "unit" /\ record_broker_unit(w, s, u)
           /\ Do(w, [worker[w] EXCEPT !.pc = "stage", !.unit = u])
  <2>. DEFINE new == [worker[w] EXCEPT !.pc = "stage", !.unit = u]
  <2>1. u \in UnitIds
    BY <1>2 DEF ReverseInv, ReplyOK
  <2>2. TableInv' /\ TableMoves
    <3>. HIDE DEF s, u
    <3>. QED
      BY <1>2, <2>1, IntentMoves DEF ReverseInv
  <2>3. Around
    BY <1>1, <2>2, StoreStays
  <2>4. /\ new \in WorkerState /\ new.pc = "stage" /\ new.seq = worker[w].seq
        /\ new.phase = worker[w].phase /\ Do(w, new)
    BY <1>1, <1>2, WorkerFields DEF WorkerState, WorkerSteps
  <2>. HIDE DEF new
  <2>. QED
    BY <1>1, <2>3, <2>4, Proceeds
<1>3. CASE NoTable /\ BackOff(w)
  BY <1>1, <1>3, TableStays, StoreStays, AttemptBacksOff
<1>4. CASE NoTable /\ Do(w, [worker[w] EXCEPT !.pc = "reject", !.verdict = "failed"])
  <2>1. Around /\ "failed" \in Verdicts
    BY <1>1, <1>4, TableStays, StoreStays DEF Verdicts
  <2>. QED
    BY <1>1, <1>4, <2>1, ContinuesWith
<1>. QED
  BY <1>2, <1>3, <1>4 DEF Created

\* The source is sent to the unit.
LEMMA StageStep ==
  ASSUME ReverseInv, NEW w \in Workers, Stage_source(w)
  PROVE  ReverseStep
<1>1. /\ worker[w].pc = "stage" /\ NoStore /\ Others
      /\ "stage" \in ExecutingSteps \ AwaitingSteps
      /\ "staged" \in ExecutingSteps \cap AwaitingSteps
  BY DEF Stage_source, At, AwaitingSteps, ExecutingSteps
<1>2. CASE /\ heartbeat(w, worker[w].seq) /\ Continue(w, "staged")
           /\ Ask(w, "stage", worker[w].seq, worker[w].unit)
  <2>1. Around
    BY <1>1, <1>2, JobTransactions, StoreStays DEF ReverseInv
  <2>. QED
    BY <1>1, <1>2, <2>1, WorkerFields, AsksOn
<1>3. CASE NoTable /\ Terminate_unit(w, "broken")
  <2>1. Around /\ "broken" \in Verdicts \ {"none"}
    BY <1>1, <1>3, TableStays, StoreStays DEF Verdicts
  <2>. QED
    BY <1>1, <1>3, <2>1, Terminates
<1>. QED
  BY <1>2, <1>3 DEF Stage_source

\* The unit has the source, or not.
LEMMA StagedStep ==
  ASSUME ReverseInv, NEW w \in Workers, Staged(w)
  PROVE  ReverseStep
<1>1. /\ worker[w].pc = "staged" /\ Answered(w) /\ Around
      /\ "staged" \in ExecutingSteps /\ "collect" \in ExecutingSteps \ AwaitingSteps
      /\ "broken" \in Verdicts \ {"none"}
  BY TableStays, StoreStays DEF Staged, At, AwaitingSteps, ExecutingSteps, Verdicts
<1>2. CASE Receive(w) /\ Continue(w, "collect")
  BY <1>1, <1>2, ContinuesTo
<1>3. CASE Terminate_unit(w, "broken")
  BY <1>1, <1>3, Terminates
<1>. QED
  BY <1>2, <1>3 DEF Staged

\* The result is asked for, or the wait is interrupted.
LEMMA CollectStep ==
  ASSUME ReverseInv, NEW w \in Workers, Collect_result(w) \/ CollectInterrupted(w)
  PROVE  ReverseStep
<1>1. /\ worker[w].pc = "collect" /\ Around
      /\ "collect" \in ExecutingSteps \ AwaitingSteps
      /\ "collected" \in ExecutingSteps \cap AwaitingSteps
  BY TableStays, StoreStays DEF Collect_result, CollectInterrupted, At, AwaitingSteps, ExecutingSteps
<1>2. CASE Collect_result(w)
  BY <1>1, <1>2, WorkerFields, AsksOn DEF Collect_result
<1>3. CASE CollectInterrupted(w)
  <2>1. PICK v \in {"broken", "failed", "cancelled"} : Terminate_unit(w, v)
    BY <1>3, InterruptionKinds DEF CollectInterrupted
  <2>2. v \in Verdicts \ {"none"}
    BY DEF Verdicts
  <2>. QED
    BY <1>1, <2>1, <2>2, Terminates
<1>. QED
  BY <1>2, <1>3

\* The unit is not done, or has a result or a failure.
LEMMA CollectedStep ==
  ASSUME ReverseInv, NEW w \in Workers, Collected(w)
  PROVE  ReverseStep
<1>1. /\ worker[w].pc = "collected" /\ Answered(w) /\ Around
      /\ "collected" \in ExecutingSteps /\ "collect" \in ExecutingSteps \ AwaitingSteps
      /\ {"succeeded", "failed", "broken"} \subseteq Verdicts \ {"none"}
  BY TableStays, StoreStays DEF Collected, At, AwaitingSteps, ExecutingSteps, Verdicts
<1>2. CASE Receive(w) /\ Continue(w, "collect")
  BY <1>1, <1>2, ContinuesTo
<1>3. CASE \E v \in {"succeeded", "failed", "broken"} : Terminate_unit(w, v)
  BY <1>1, <1>3, Terminates
<1>. QED
  BY <1>2, <1>3 DEF Collected

\* The unit is gone, and its proof is recorded before anything else.
LEMMA TerminatedStep ==
  ASSUME ReverseInv, NEW w \in Workers, Terminated(w)
  PROVE  ReverseStep
<1>. DEFINE s == worker[w].seq
            u == worker[w].unit
<1>1. /\ worker[w].pc = "terminated" /\ Receive(w) /\ NoStore /\ Others
      /\ "terminated" \in ExecutingSteps
      /\ {"validate", "reject"} \subseteq ExecutingSteps \ AwaitingSteps
  BY DEF Terminated, At, AwaitingSteps, ExecutingSteps
<1>2. worker[w].verdict \in Verdicts \ {"none"}
  BY <1>1, WorkerFields DEF WorkerState, ReverseInv, WorkerOK
<1>3. CASE /\ replies[w].kind = "proof" /\ record_active_termination_proof(w, s, u)
           /\ \/ Continue(w, "validate")
              \/ BackOff(w)
              \/ worker[w].verdict \in {"failed", "cancelled"} /\ Continue(w, "reject")
  <2>1. Proven(s, u)
    BY <1>3 DEF ReverseInv, ReplyOK
  <2>2. u \in UnitIds
    BY <2>1 DEF Proven, ReverseInv, BrokerInv, BrokerTypeOK
  <2>3. TableInv' /\ TableMoves
    <3>. HIDE DEF s, u
    <3>. QED
      BY <1>3, <2>1, <2>2, TerminationMoves DEF ReverseInv
  <2>4. Around
    BY <1>1, <2>3, StoreStays
  <2>5. CASE Continue(w, "validate")
    BY <1>1, <2>4, <2>5, ContinuesTo
  <2>6. CASE BackOff(w)
    BY <1>1, <2>4, <2>6, AttemptBacksOff
  <2>7. CASE worker[w].verdict \in {"failed", "cancelled"} /\ Continue(w, "reject")
    BY <1>1, <2>4, <2>7, ContinuesTo
  <2>. QED
    BY <1>3, <2>5, <2>6, <2>7
<1>4. CASE NoTable /\ BackOff(w)
  BY <1>1, <1>4, TableStays, StoreStays, AttemptBacksOff
<1>. QED
  BY <1>2, <1>3, <1>4 DEF Terminated, Verdicts

\* The result is validated, and its publication prepared.
LEMMA PublishStep ==
  ASSUME ReverseInv, NEW w \in Workers, Validate(w) \/ Publish(w)
  PROVE  ReverseStep
<1>1. /\ worker[w].pc \in {"validate", "publish"} /\ NoBroker /\ NoStore /\ Others
      /\ {"validate", "publish", "put", "reject"} \subseteq ExecutingSteps \ AwaitingSteps
      /\ "failed" \in Verdicts
  BY DEF Validate, Publish, At, AwaitingSteps, ExecutingSteps, Verdicts
<1>2. CASE /\ heartbeat(w, worker[w].seq)
           /\ \/ \E pc \in {"publish", "put"} : Continue(w, pc)
              \/ Do(w, [worker[w] EXCEPT !.pc = "reject", !.verdict = "failed"])
  <2>1. Around
    BY <1>1, <1>2, JobTransactions, StoreStays DEF ReverseInv
  <2>2. CASE \E pc \in {"publish", "put"} : Continue(w, pc)
    BY <1>1, <2>1, <2>2, ContinuesTo
  <2>3. CASE Do(w, [worker[w] EXCEPT !.pc = "reject", !.verdict = "failed"])
    BY <1>1, <2>1, <2>3, ContinuesWith
  <2>. QED
    BY <1>2, <2>2, <2>3
<1>3. CASE NoTable /\ BackOff(w)
  BY <1>1, <1>3, TableStays, StoreStays, AttemptBacksOff
<1>. QED
  BY <1>2, <1>3 DEF Validate, Publish

\* The results that a worker writes or deletes are those of its attempt.
LEMMA ResultKeyType ==
  ASSUME ReverseInv, NEW w \in Workers, worker[w].pc \in ExecutingSteps
  PROVE  ResultKey(w) \in Jobs \X CreateSequences
<1>1. worker[w].seq \in Known /\ attempts[worker[w].seq].number \in CreateSequences
  BY DEF ReverseInv, WorkerOK
<1>2. attempts[worker[w].seq].job \in Jobs
  <2>1. attempts[worker[w].seq] \in Attempt
    BY <1>1, KnownFacts DEF ReverseInv
  <2>. QED
    BY <1>1, <2>1 DEF Attempt, Known
<1>. QED
  BY <1>1, <1>2 DEF ResultKey, JobOf

\* The result goes to the store, or is deleted there.
LEMMA ResultStep ==
  ASSUME ReverseInv, NEW w \in Workers, PutResult(w) \/ PutResultFails(w) \/ Undo(w)
  PROVE  ReverseStep
<1>1. /\ worker[w].pc \in {"put", "undo"} /\ NoBroker /\ UNCHANGED <<client, backup>>
      /\ {"put", "undo", "check", "reject", "acknowledge"} \subseteq ExecutingSteps \ AwaitingSteps
      /\ "broken" \in Verdicts
  BY DEF PutResult, PutResultFails, Undo, At, AwaitingSteps, ExecutingSteps, Verdicts, Others
<1>2. /\ sources' \subseteq Jobs /\ results' \subseteq Jobs \X CreateSequences
      /\ faults' \in 0 .. MaxServiceFaults
  <2>1. ResultKey(w) \in Jobs \X CreateSequences
    BY <1>1, ResultKeyType
  <2>2. /\ sources \subseteq Jobs /\ results \subseteq Jobs \X CreateSequences
        /\ faults \in 0 .. MaxServiceFaults /\ MaxServiceFaults \in Nat
    BY ServiceAssumption DEF ReverseInv, ServiceTypeOK
  <2>. QED
    BY <2>1, <2>2 DEF PutResult, PutResultFails, Undo, Others, Fault
<1>3. Around
  BY <1>1, <1>2, TableStays DEF PutResult, PutResultFails, Undo, Around
<1>4. CASE PutResult(w)
  BY <1>1, <1>3, <1>4, ContinuesTo DEF PutResult
<1>5. CASE PutResultFails(w)
  BY <1>1, <1>3, <1>5, ContinuesWith DEF PutResultFails
<1>6. CASE Undo(w)
  <2>1. worker[w].pc = "undo" /\ worker[w].verdict \in Verdicts \ {"none"}
    BY <1>6, WorkerFields DEF Undo, At, WorkerState, ReverseInv, WorkerOK
  <2>2. CASE Continue(w, "acknowledge")
    BY <1>1, <1>3, <2>2, ContinuesTo
  <2>3. CASE BackOff(w)
    BY <1>1, <1>3, <2>3, AttemptBacksOff
  <2>4. CASE worker[w].verdict \in {"failed", "cancelled"} /\ Continue(w, "reject")
    BY <1>1, <1>3, <2>4, ContinuesTo
  <2>. QED
    BY <1>6, <2>1, <2>2, <2>3, <2>4 DEF Undo, Verdicts
<1>. QED
  BY <1>4, <1>5, <1>6

\* raise_if_interrupted before the commit.
LEMMA CheckStep ==
  ASSUME ReverseInv, NEW w \in Workers, Check(w)
  PROVE  ReverseStep
<1>1. /\ worker[w].pc = "check" /\ NoBroker /\ Around
      /\ {"check", "succeed", "undo"} \subseteq ExecutingSteps \ AwaitingSteps
  BY TableStays, StoreStays DEF Check, At, AwaitingSteps, ExecutingSteps
<1>2. CASE Continue(w, "succeed")
  BY <1>1, <1>2, ContinuesTo
<1>3. ASSUME NEW v \in {"broken", "failed", "cancelled"},
             Do(w, [worker[w] EXCEPT !.pc = "undo", !.verdict = v])
      PROVE  ReverseStep
  BY <1>1, <1>3, ContinuesWith DEF Verdicts
<1>. QED
  BY <1>2, <1>3, InterruptionKinds DEF Check

\* The commit of a success: done, refused, unknown, and decided afterwards.
LEMMA SucceedStep ==
  ASSUME ReverseInv, NEW w \in Workers, Succeed(w) \/ SucceedAmbiguous(w) \/ Lookup(w)
  PROVE  ReverseStep
<1>1. /\ worker[w].pc \in {"succeed", "lookup"} /\ NoBroker /\ NoStore
      /\ {"succeed", "lookup", "undo", "acknowledge"} \subseteq ExecutingSteps \ AwaitingSteps
      /\ {"broken", "succeeded"} \subseteq Verdicts \ {"none"}
  BY DEF Succeed, SucceedAmbiguous, Lookup, At, AwaitingSteps, ExecutingSteps, Verdicts
<1>2. finish(w, worker[w].seq, "succeeded") \/ NoTable
  BY DEF Succeed, SucceedAmbiguous, Lookup
<1>3. \/ Others
      \/ UNCHANGED <<client, backup>> /\ \E kind : Fault(kind)
  <2>1. CASE SucceedAmbiguous(w)
    BY <2>1 DEF SucceedAmbiguous
  <2>2. CASE Succeed(w) \/ Lookup(w)
    BY <2>2 DEF Succeed, Lookup
  <2>. QED
    BY <2>1, <2>2
<1>4. TableInv' /\ TableMoves
  <2>1. CASE finish(w, worker[w].seq, "succeeded")
    <3>1. PICK s : s = worker[w].seq
      OBVIOUS
    <3>2. \E outcome \in OutcomeStates : finish(w, s, outcome)
      BY <2>1, <3>1 DEF OutcomeStates
    <3>. QED
      BY <3>2, JobTransactions DEF ReverseInv
  <2>. QED
    BY <1>2, <2>1, TableStays
<1>5. Around
  BY <1>1, <1>3, <1>4, StoreStays
<1>6. CASE \E pc \in {"lookup", "acknowledge"} : Continue(w, pc)
  BY <1>1, <1>5, <1>6, ContinuesTo
<1>7. CASE \E v \in {"broken", "succeeded"} : Do(w, [worker[w] EXCEPT !.pc = "undo", !.verdict = v])
  BY <1>1, <1>5, <1>7, ContinuesWith
<1>. QED
  BY <1>6, <1>7 DEF Succeed, SucceedAmbiguous, Lookup, AfterSuccess

\* _finish_rejection.
LEMMA RejectStep ==
  ASSUME ReverseInv, NEW w \in Workers, Reject(w)
  PROVE  ReverseStep
<1>1. /\ worker[w].pc = "reject" /\ NoBroker /\ NoStore /\ Others
      /\ {"reject", "acknowledge"} \subseteq ExecutingSteps \ AwaitingSteps
      /\ worker[w].pc \notin {"new", "off"}
  BY DEF Reject, At, AwaitingSteps, ExecutingSteps
<1>2. worker[w].verdict \in {"failed", "cancelled"} /\ worker[w].seq \in Known
  BY <1>1 DEF ReverseInv, WorkerOK
<1>3. finish(w, worker[w].seq, worker[w].verdict) \/ NoTable
  BY DEF Reject
<1>4. TableInv' /\ TableMoves
  <2>1. CASE finish(w, worker[w].seq, worker[w].verdict)
    <3>1. PICK s : s = worker[w].seq
      OBVIOUS
    <3>2. \E outcome \in OutcomeStates : finish(w, s, outcome)
      BY <1>2, <2>1, <3>1 DEF OutcomeStates
    <3>. QED
      BY <3>2, JobTransactions DEF ReverseInv
  <2>. QED
    BY <1>3, <2>1, TableStays
<1>5. Around
  BY <1>1, <1>4, StoreStays
<1>6. CASE Continue(w, "acknowledge")
  BY <1>1, <1>5, <1>6, ContinuesTo
<1>7. CASE BackOff(w)
  BY <1>1, <1>5, <1>7, AttemptBacksOff
<1>8. CASE BackTo(w, "reconcile")
  BY <1>1, <1>5, <1>8, GoesBack
<1>9. CASE BackTo(w, "recover_proof")
  <2>1. Past(w)
    BY <1>1 DEF Past, ReverseInv, WorkerOK
  <2>. QED
    BY <1>1, <1>5, <1>9, <2>1, GoesBack
<1>. QED
  BY <1>6, <1>7, <1>8, <1>9 DEF Reject

\* The broker is told of the proof, and the table that it was.
LEMMA AcknowledgeStep ==
  ASSUME ReverseInv, NEW w \in Workers, AcknowledgeProof(w)
  PROVE  ReverseStep
<1>1. PICK s \in CreateSequences : s = worker[w].seq /\ s \in Known
  <2>1. worker[w].seq \in Known
    BY DEF AcknowledgeProof, At, ReverseInv, WorkerOK, ExecutingSteps
  <2>. QED
    BY <2>1, KnownFacts DEF ReverseInv
<1>2. PICK u \in 0 .. MaxUnits : u = attempts[s].proof
  BY DEF ReverseInv, TableInv, TableTypeOK, Attempt
<1>. DEFINE new == [worker[w] EXCEPT !.pc = "packed", !.unit = u]
<1>3. /\ worker[w].pc = "acknowledge" /\ Ask(w, "ack", s, u) /\ Do(w, new)
      /\ NoTable /\ NoStore /\ Others
  BY <1>1, <1>2 DEF AcknowledgeProof, At
<1>4. Around /\ UNCHANGED highWater /\ attempts' = attempts
  BY <1>3, TableStays, StoreStays DEF Ask, NoTable, tableVars
<1>5. /\ new \in WorkerState /\ new.pc = "packed" /\ new.seq = worker[w].seq
      /\ new.phase = worker[w].phase
  <2>1. "packed" \in WorkerSteps
    BY DEF WorkerSteps, ExecutingSteps
  <2>. QED
    BY <2>1, WorkerFields DEF WorkerState
<1>. HIDE DEF new
<1>6. Turn(w, new)
  BY <1>3, <1>4, <1>5 DEF Turn
<1>7. {"acknowledge", "packed"} \subseteq ExecutingSteps
  BY DEF ExecutingSteps
<1>8. WorkerOK(w)'
  BY <1>3, <1>4, <1>5, <1>6, <1>7, GoesOn
<1>9. s \in 0 .. MaxSequence /\ attempts'[s].proof = u
  BY <1>2, <1>4, WorkerFields
<1>. QED
  BY <1>3, <1>5, <1>6, <1>8, <1>9, AskTurn DEF AwaitingSteps, Operations

\* The broker has forgotten the unit, or not: the attempt is over.
LEMMA AcknowledgedStep ==
  ASSUME ReverseInv, NEW w \in Workers, ProofAcknowledged(w)
  PROVE  ReverseStep
<1>. DEFINE s == worker[w].seq
            u == worker[w].unit
<1>1. worker[w].pc = "packed" /\ Receive(w) /\ NoStore /\ Others
  BY DEF ProofAcknowledged, At
<1>2. CASE acknowledge_termination_proof(s, u) /\ BackTo(w, "reconcile")
  <2>1. u \in UnitIds
    BY <1>2, WorkerFields DEF acknowledge_termination_proof, UnitIds
  <2>2. TableInv' /\ TableMoves
    <3>. HIDE DEF s, u
    <3>. QED
      BY <1>2, <2>1, TerminationMoves DEF ReverseInv
  <2>3. Around
    BY <1>1, <2>2, StoreStays
  <2>. QED
    BY <1>1, <1>2, <2>3, GoesBack
<1>3. CASE NoTable /\ BackOff(w)
  BY <1>1, <1>3, TableStays, StoreStays, BacksOff
<1>. QED
  BY <1>2, <1>3 DEF ProofAcknowledged

\* The steps of run_reconciled_once.
LEMMA ExecuteSteps ==
  ASSUME ReverseInv, NEW w \in Workers,
         ExecuteStep(w) \/ PutResultFails(w) \/ SucceedAmbiguous(w)
  PROVE  ReverseStep
BY ClaimJobStep, NothingToClaimStep, LoadStep, IntentStepOfAttempt, CreatedStep, StageStep,
   StagedStep, CollectStep, CollectedStep, TerminatedStep, PublishStep, ResultStep, CheckStep,
   SucceedStep, RejectStep, AcknowledgeStep, AcknowledgedStep DEF ExecuteStep

----------------------------------------------------------------------------
(* Cleanup, and the life of a worker.                                      *)

\* cleanup_once: the objects go between two transactions.
LEMMA ExpireStep ==
  ASSUME ReverseInv, NEW w \in Workers, Expire(w)
  PROVE  ReverseStep
<1>1. PICK j \in Jobs : expire_terminal(w, j)
                        /\ Do(w, [worker[w] EXCEPT !.pc = "clean", !.job = j])
  BY DEF Expire
<1>2. worker[w].pc = "loop" /\ NoBroker /\ NoStore /\ Others
  BY DEF Expire, At
<1>3. TableInv' /\ TableMoves
  BY <1>1, JobTransactions DEF ReverseInv
<1>4. Around /\ UNCHANGED highWater
  BY <1>2, <1>3, StoreStays DEF NoBroker, brokerVars
<1>. DEFINE new == [worker[w] EXCEPT !.pc = "clean", !.job = j]
<1>5. /\ new \in WorkerState /\ new.pc = "clean" /\ new.job = j
      /\ new.phase = worker[w].phase /\ Do(w, new)
  BY <1>1, WorkerFields DEF WorkerState, WorkerSteps
<1>. HIDE DEF new
<1>6. Turn(w, new)
  BY <1>4, <1>5 DEF Turn
<1>7. new.pc \notin ExecutingSteps \cup {"ack", "acked", "new", "complete", "readying"}
  BY <1>5 DEF ExecutingSteps
<1>8. WorkerOK(w)'
  BY <1>2, <1>4, <1>5, <1>6, <1>7, GoesTo DEF Past
<1>. QED
  BY <1>2, <1>5, <1>6, <1>8, QuietTurn DEF AwaitingSteps

\* The objects of a job that ended are deleted.
LEMMA DeleteStep ==
  ASSUME ReverseInv, NEW w \in Workers, DeleteObjects(w)
  PROVE  ReverseStep
<1>1. /\ worker[w].pc = "clean" /\ NoBroker /\ NoTable /\ Others
      /\ sources' \subseteq sources /\ results' \subseteq results
      /\ Continue(w, "cleaned")
  BY DEF DeleteObjects, At
<1>2. Around /\ UNCHANGED highWater
  BY <1>1, TableStays DEF NoBroker, brokerVars, Around, Others, ReverseInv, ServiceTypeOK
<1>3. worker[w].job \in Jobs
  BY <1>1 DEF ReverseInv, WorkerOK
<1>. DEFINE new == [worker[w] EXCEPT !.pc = "cleaned"]
<1>4. /\ new \in WorkerState /\ new.pc = "cleaned" /\ new.job = worker[w].job
      /\ new.phase = worker[w].phase /\ Do(w, new)
  BY <1>1, WorkerFields DEF WorkerState, WorkerSteps, Continue
<1>. HIDE DEF new
<1>5. Turn(w, new)
  BY <1>2, <1>4 DEF Turn
<1>6. new.pc \notin ExecutingSteps \cup {"ack", "acked", "new", "complete", "readying"}
  BY <1>4 DEF ExecutingSteps
<1>7. WorkerOK(w)'
  BY <1>1, <1>2, <1>3, <1>4, <1>5, <1>6, GoesTo DEF Past
<1>. QED
  BY <1>1, <1>4, <1>5, <1>7, QuietTurn DEF AwaitingSteps

\* The job is clean.
LEMMA CompleteCleanupStep ==
  ASSUME ReverseInv, NEW w \in Workers, CompleteCleanup(w)
  PROVE  ReverseStep
<1>1. worker[w].pc = "cleaned" /\ NoBroker /\ NoStore /\ Others /\ BackOff(w)
  BY DEF CompleteCleanup, At
<1>2. PICK j \in Jobs : j = worker[w].job
  BY <1>1 DEF ReverseInv, WorkerOK
<1>3. complete_cleanup(w, j) \/ NoTable
  BY <1>2 DEF CompleteCleanup
<1>4. TableInv' /\ TableMoves
  BY <1>3, TableStays, JobTransactions DEF ReverseInv
<1>5. Around
  BY <1>1, <1>4, StoreStays
<1>. QED
  BY <1>1, <1>5, BacksOff DEF AwaitingSteps

\* A process starts, and ends between two steps.
LEMMA StartStopStep ==
  ASSUME ReverseInv, NEW w \in Workers, StartWorker(w) \/ StopWorker(w)
  PROVE  ReverseStep
<1>1. /\ NoBroker /\ NoTable /\ NoStore /\ Others
      /\ \/ worker[w].pc = "new" /\ Continue(w, "loop")
         \/ worker[w].pc = "loop" /\ Continue(w, "off")
  BY DEF StartWorker, StopWorker, At
<1>2. Around /\ UNCHANGED highWater
  BY <1>1, TableStays, StoreStays DEF NoBroker, brokerVars
<1>3. PICK pc \in {"loop", "off"} : /\ Continue(w, pc) /\ worker[w].pc \in {"new", "loop"}
                                    /\ pc = "loop" => worker[w].phase = "reconcile"
  BY <1>1 DEF ReverseInv, WorkerOK
<1>. DEFINE new == [worker[w] EXCEPT !.pc = pc]
<1>4. /\ new \in WorkerState /\ new.pc = pc /\ new.phase = worker[w].phase /\ Do(w, new)
  BY <1>3, WorkerFields DEF WorkerState, WorkerSteps, Continue
<1>. HIDE DEF new
<1>5. Turn(w, new)
  BY <1>2, <1>4 DEF Turn
<1>6. new.pc \notin ExecutingSteps \cup {"ack", "acked", "new", "complete", "readying", "clean",
                                         "cleaned"}
  BY <1>4 DEF ExecutingSteps
<1>7. WorkerOK(w)'
  BY <1>2, <1>3, <1>4, <1>5, <1>6, GoesTo DEF Past
<1>. QED
  BY <1>1, <1>3, <1>4, <1>5, <1>7, QuietTurn DEF AwaitingSteps

\* A step of the table or the store, while workers and broker stand still.
LEMMA StandStill ==
  ASSUME ReverseInv, BrokerInv', TableInv', TableMoves, UnitsStay,
         UNCHANGED <<worker, gate, requests, replies, backup>>,
         ClientsOK', ServiceTypeOK'
  PROVE  ReverseStep
<1>1. RequestsOK'
  BY RequestsWait
<1>. QED
  BY <1>1, TableTurn

\* The lease is renewed, or known to be lost: the request of the worker stays.
LEMMA BeatStep ==
  ASSUME ReverseInv, NEW w \in Workers, Beat(w)
  PROVE  ReverseStep
<1>. DEFINE new == [worker[w] EXCEPT !.lost = TRUE]
<1>1. /\ NoBroker /\ NoStore /\ Others
      /\ worker[w].pc \in ExecutingSteps
      /\ \/ heartbeat(w, worker[w].seq) /\ UNCHANGED worker
         \/ NoTable /\ Do(w, new)
  BY DEF Beat
<1>2. TableInv' /\ TableMoves
  <2>1. CASE heartbeat(w, worker[w].seq)
    BY <2>1, JobTransactions DEF ReverseInv
  <2>. QED
    BY <1>1, <2>1, TableStays
<1>3. Around /\ UnitsStay /\ UNCHANGED <<gate, requests, replies>>
  BY <1>1, <1>2, StoreStays DEF NoBroker, brokerVars, UnitsStay
<1>4. BrokerInv'
  BY <1>1, NextKeeps DEF NoBroker, ReverseInv
<1>5. /\ new \in WorkerState /\ new.pc = worker[w].pc /\ new.seq = worker[w].seq
      /\ new.unit = worker[w].unit /\ new.cursor = worker[w].cursor
      /\ new.phase = worker[w].phase /\ new.verdict = worker[w].verdict
  BY WorkerFields DEF WorkerState
<1>. HIDE DEF new
<1>6. CASE UNCHANGED worker
  <2>1. ServiceTypeOK' /\ ClientsOK'
    BY <1>3, <1>6 DEF Around, ReverseInv, ServiceTypeOK, ClientsOK
  <2>. QED
    BY <1>2, <1>3, <1>4, <1>6, <2>1, StandStill DEF Around
<1>7. CASE Do(w, new)
  <2>1. Turn(w, new) /\ UNCHANGED highWater
    BY <1>3, <1>5, <1>7 DEF Turn, UnitsStay
  <2>2. worker[w].pc \in {"terminated", "undo"} => worker[w].verdict # "none"
    BY DEF ReverseInv, WorkerOK
  <2>3. worker[w].pc = "reject" => worker[w].verdict \in {"failed", "cancelled"}
    BY DEF ReverseInv, WorkerOK
  <2>4. WorkerOK(w)'
    BY <1>1, <1>5, <2>1, <2>2, <2>3, GoesOn
  <2>5. Ahead => Ahead'
    BY <1>2, <2>1, AheadStays
  <2>6. /\ ServiceTypeOK' /\ ClientsOK' /\ worker'[w] = new
        /\ \A v \in Workers \ {w} : worker'[v] = worker[v]
    BY <2>1, TurnFacts
  <2>7. ReplyOK(w)'
    BY <1>3, <1>5, <2>5, <2>6 DEF ReverseInv, ReplyOK, PageOK, Proven, UnitsStay
  <2>8. RequestsOK'
    <3>1. \A v \in Workers :
            /\ worker'[v].pc = worker[v].pc /\ worker'[v].seq = worker[v].seq
            /\ worker'[v].unit = worker[v].unit /\ worker'[v].cursor = worker[v].cursor
      BY <1>5, <2>6
    <3>. QED
      BY <1>2, <1>3, <3>1, RequestsWait DEF Around
  <2>9. /\ \A v \in Workers : worker'[v] = worker[v] \/ WorkerOK(v)'
        /\ \A v \in Workers : \/ worker'[v] = worker[v] /\ replies'[v] = replies[v]
                              \/ ReplyOK(v)'
    BY <1>3, <2>4, <2>6, <2>7
  <2>. QED
    BY <1>2, <1>3, <1>4, <2>6, <2>8, <2>9, TableTurn DEF Around
<1>. QED
  BY <1>1, <1>6, <1>7

\* The broker's part of a step after which nobody waits for the answer of w.
LEMMA AbandonKeeps ==
  ASSUME ReverseInv, NEW w \in Workers, NEW reply \in Reply, Abandon(w, reply)
  PROVE  /\ BrokerInv' /\ UnitsStay
         /\ gate' \in {gate, [gate EXCEPT !.request.caller = NULL]}
         /\ replies'[w] = reply
         /\ \A v \in Workers \ {w} : replies'[v] = replies[v]
<1>1. /\ requests \subseteq Request /\ gate \in Gate /\ gate.request \in Request
      /\ replies \in [Workers -> Reply] /\ Callers = Workers /\ BrokerTypeOK
  BY ServiceAssumption DEF ReverseInv, BrokerInv, BrokerTypeOK, Gate
<1>2. \A r \in Request : [r EXCEPT !.caller = NULL] \in Request
  BY DEF Request
<1>3. requests' \subseteq Request
  BY <1>1, <1>2 DEF Abandon
<1>4. /\ gate' \in Gate /\ gate'.pc = gate.pc /\ gate'.unit = gate.unit
      /\ gate'.request.op = gate.request.op
  BY <1>1, <1>2 DEF Abandon, Gate, Request
<1>5. BrokerTypeOK'
  BY <1>1, <1>3, <1>4 DEF Abandon, BrokerTypeOK
<1>6. BrokerInv'
  BY <1>4, <1>5, Quiet DEF Abandon, ReverseInv
<1>. QED
  BY <1>1, <1>6 DEF Abandon, UnitsStay

\* The process dies in the middle of anything.
LEMMA DiesStep ==
  ASSUME ReverseInv, NEW w \in Workers, WorkerDies(w)
  PROVE  ReverseStep
<1>. DEFINE new == [NewWorker EXCEPT !.pc = "off"]
<1>1. Abandon(w, NoReply) /\ Do(w, new) /\ NoTable /\ NoStore
  BY DEF WorkerDies
<1>2. UNCHANGED <<client, backup>> /\ \E kind : Fault(kind)
  BY DEF WorkerDies
<1>3. Around
  BY <1>1, <1>2, TableStays, StoreStays
<1>4. new \in WorkerState /\ new.pc = "off"
  <2>1. NoReply \in Reply /\ 0 \in 0 .. MaxSequence /\ 0 \in 0 .. MaxUnits
    BY Replies, Bounds
  <2>. QED
    BY <2>1 DEF NewWorker, WorkerState, WorkerSteps, Verdicts
<1>. HIDE DEF new
<1>5. Turn(w, new)
  BY <1>1, <1>3, <1>4 DEF Turn
<1>6. /\ BrokerInv' /\ UnitsStay
      /\ gate' \in {gate, [gate EXCEPT !.request.caller = NULL]}
      /\ replies'[w] = NoReply
      /\ \A v \in Workers \ {w} : replies'[v] = replies[v]
  BY <1>1, Replies, AbandonKeeps
<1>7. /\ ServiceTypeOK' /\ ClientsOK' /\ worker'[w] = new
      /\ \A v \in Workers \ {w} : worker'[v] = worker[v]
  BY <1>5, TurnFacts
<1>8. WorkerOK(w)'
  BY <1>4, <1>5, <1>6, GoesTo DEF ExecutingSteps, UnitsStay
<1>9. ReplyOK(w)'
  BY <1>6 DEF ReplyOK, NoReply
<1>10. RequestsOK'
  BY <1>1, <1>3, <1>7, RequestsAbandoned DEF Around
<1>11. /\ \A v \in Workers : worker'[v] = worker[v] \/ WorkerOK(v)'
       /\ \A v \in Workers : \/ worker'[v] = worker[v] /\ replies'[v] = replies[v]
                             \/ ReplyOK(v)'
  BY <1>6, <1>7, <1>8, <1>9
<1>. QED
  BY <1>3, <1>6, <1>7, <1>10, <1>11, TableTurn DEF Around

\* The deadline of a request passes; the request stays.
LEMMA TimesOutStep ==
  ASSUME ReverseInv, NEW w \in Workers, RequestTimesOut(w)
  PROVE  ReverseStep
<1>1. Waiting(w) /\ Abandon(w, ErrorReply) /\ NoTable /\ NoStore /\ UNCHANGED worker
  BY DEF RequestTimesOut
<1>2. UNCHANGED <<client, backup>> /\ \E kind : Fault(kind)
  BY DEF RequestTimesOut
<1>3. Around
  BY <1>1, <1>2, TableStays, StoreStays
<1>4. /\ BrokerInv' /\ UnitsStay
      /\ gate' \in {gate, [gate EXCEPT !.request.caller = NULL]}
      /\ replies'[w] = ErrorReply
      /\ \A v \in Workers \ {w} : replies'[v] = replies[v]
  BY <1>1, Replies, AbandonKeeps
<1>5. ServiceTypeOK' /\ ClientsOK'
  BY <1>1, <1>3 DEF Around, ReverseInv, ServiceTypeOK, ClientsOK
<1>6. worker[w].pc \in AwaitingSteps
  BY <1>1, Bounds DEF Waiting, ReverseInv, RequestsOK, RequestOK, Matches
<1>7. ReplyOK(w)'
  BY <1>1, <1>4, <1>6 DEF ReplyOK, ErrorReply, NoReply
<1>8. RequestsOK'
  BY <1>1, <1>3, RequestsAbandoned DEF Around
<1>9. /\ \A v \in Workers : worker'[v] = worker[v] \/ WorkerOK(v)'
      /\ \A v \in Workers : \/ worker'[v] = worker[v] /\ replies'[v] = replies[v]
                            \/ ReplyOK(v)'
  BY <1>1, <1>4, <1>7
<1>. QED
  BY <1>3, <1>4, <1>5, <1>8, <1>9, TableTurn DEF Around

\* A transaction is rolled back.
LEMMA DatabaseStep ==
  ASSUME ReverseInv, NEW w \in Workers, DatabaseFails(w)
  PROVE  ReverseStep
<1>1. /\ worker[w].pc \in {"ack", "complete", "requeue", "intent", "reject", "validate",
                           "publish", "check", "stage", "collect", "succeed"}
      /\ NoTable /\ NoStore /\ UNCHANGED <<client, backup>> /\ \E kind : Fault(kind)
  BY DEF DatabaseFails
<1>2. worker[w].pc \notin AwaitingSteps \cup {"new", "off"}
  BY <1>1 DEF AwaitingSteps
<1>3. Around
  BY <1>1, TableStays, StoreStays
<1>4. /\ {"check", "stage", "collect", "succeed"} \subseteq ExecutingSteps
      /\ {"undo", "lookup"} \subseteq ExecutingSteps \ AwaitingSteps
      /\ "broken" \in Verdicts \ {"none"}
  BY DEF ExecutingSteps, AwaitingSteps, Verdicts
<1>5. CASE worker[w].pc \in {"stage", "collect"} /\ Terminate_unit(w, "broken")
  BY <1>2, <1>3, <1>4, <1>5, Terminates
<1>6. CASE /\ worker[w].pc = "check" /\ NoBroker
           /\ Do(w, [worker[w] EXCEPT !.pc = "undo", !.verdict = "broken"])
  BY <1>2, <1>3, <1>4, <1>6, ContinuesWith
<1>7. CASE worker[w].pc = "succeed" /\ NoBroker /\ Continue(w, "lookup")
  BY <1>2, <1>3, <1>4, <1>7, ContinuesTo
<1>8. CASE NoBroker /\ BackOff(w)
  BY <1>2, <1>3, <1>8, BacksOff
<1>. QED
  BY <1>5, <1>6, <1>7, <1>8 DEF DatabaseFails

\* All steps of workers, with what goes wrong.
LEMMA WorkersTurn ==
  ASSUME ReverseInv, NEW w \in Workers,
         \/ WorkerStep(w) \/ Beat(w) \/ PutResultFails(w) \/ SucceedAmbiguous(w)
         \/ WorkerDies(w) \/ RequestTimesOut(w) \/ DatabaseFails(w) \/ StopWorker(w)
  PROVE  ReverseStep
BY ReconcileSteps, RecoverSteps, ExecuteSteps, ExpireStep, DeleteStep, CompleteCleanupStep,
   StartStopStep, BeatStep, DiesStep, TimesOutStep, DatabaseStep DEF WorkerStep, CleanStep

----------------------------------------------------------------------------
(* Clients, clocks, and a restoration.                                     *)

\* The steps of submissions.
LEMMA ClientSteps ==
  ASSUME ReverseInv, NEW j \in Jobs,
         ClientStep(j) \/ Cancel(j) \/ SubmitPutFails(j) \/ ClientDies(j)
  PROVE  ReverseStep
<1>1. /\ client \in [Jobs -> [pc : {"new", "put", "activate", "accepted", "gone"},
                              job : Jobs \cup {NULL}]]
      /\ sources \subseteq Jobs /\ results \subseteq Jobs \X CreateSequences
      /\ faults \in 0 .. MaxServiceFaults /\ MaxServiceFaults \in Nat
  BY ServiceAssumption DEF ReverseInv, ServiceTypeOK
<1>2. NoBroker /\ UNCHANGED <<worker, results, backup>>
  BY DEF ClientStep, SubmitCreate, SubmitReplay, SubmitPut, SubmitActivate, Cancel,
     SubmitPutFails, ClientDies, serviceVars, NoBroker
<1>3. client[j].pc \in {"put", "activate", "accepted"} => client[j].job \in Jobs
  BY DEF ReverseInv, ClientsOK
<1>4. \/ UNCHANGED client
      \/ \E pc \in {"put", "activate", "accepted"}, k \in Jobs : Submit(j, pc, k)
      \/ Submit(j, "gone", NULL)
  BY <1>3 DEF ClientStep, SubmitCreate, SubmitReplay, SubmitPut, SubmitActivate, Cancel,
     SubmitPutFails, ClientDies, serviceVars, Submission_at, Existing
<1>5. /\ client' \in [Jobs -> [pc : {"new", "put", "activate", "accepted", "gone"},
                               job : Jobs \cup {NULL}]]
      /\ ClientsOK'
  <2>1. CASE UNCHANGED client
    BY <1>1, <2>1 DEF ReverseInv, ClientsOK
  <2>2. CASE \E pc \in {"put", "activate", "accepted"}, k \in Jobs : Submit(j, pc, k)
    BY <1>1, <2>2 DEF ReverseInv, ClientsOK, Submit
  <2>3. CASE Submit(j, "gone", NULL)
    BY <1>1, <2>3 DEF ReverseInv, ClientsOK, Submit
  <2>. QED
    BY <1>4, <2>1, <2>2, <2>3
<1>6. sources' \subseteq Jobs /\ faults' \in 0 .. MaxServiceFaults
  BY <1>1, <1>3 DEF ClientStep, SubmitCreate, SubmitReplay, SubmitPut, SubmitActivate, Cancel,
     SubmitPutFails, ClientDies, serviceVars, Submission_at, Fault
<1>7. ServiceTypeOK'
  BY <1>1, <1>2, <1>5, <1>6 DEF ReverseInv, ServiceTypeOK
<1>8. TableInv' /\ TableMoves
  <2>1. \/ \E k \in Jobs : create(k) \/ activate_source(k) \/ request_cancel(k)
        \/ NoTable
    BY <1>3 DEF ClientStep, SubmitCreate, SubmitReplay, SubmitPut, SubmitActivate, Cancel,
       SubmitPutFails, ClientDies, Submission_at, NoTable
  <2>. QED
    BY <2>1, TableStays, JobTransactions DEF ReverseInv
<1>9. BrokerInv' /\ UnitsStay /\ UNCHANGED <<gate, requests, replies>>
  BY <1>2, NextKeeps DEF NoBroker, brokerVars, UnitsStay, ReverseInv
<1>. QED
  BY <1>2, <1>5, <1>7, <1>8, <1>9, StandStill

\* Leases run out, uploads and results grow old.
LEMMA TimeSteps ==
  ASSUME ReverseInv, TimeStep
  PROVE  ReverseStep
<1>1. /\ UNCHANGED <<brokerVars, serviceVars>>
      /\ \/ \E j \in Jobs : \/ LeaseLapses(j) \/ UploadGrowsOld(j)
                            \/ RetentionEnds(j) \/ CleanupLapses(j)
         \/ ReconciliationLapses
         \/ \E s \in CreateSequences : RecoveryLapses(s)
  BY DEF TimeStep, LeaseRunsOut, ReconciliationRunsOut, RecoveryRunsOut, RetentionPasses
<1>2. TableInv' /\ TableMoves
  <2>1. CASE \E j \in Jobs : \/ LeaseLapses(j) \/ UploadGrowsOld(j)
                             \/ RetentionEnds(j) \/ CleanupLapses(j)
    BY <2>1, JobTransactions DEF ReverseInv
  <2>2. CASE ReconciliationLapses
    <3>1. principal.token \in Workers
      BY <2>2 DEF ReconciliationLapses, ReverseInv, TableInv, TableTypeOK, Principal
    <3>. QED
      BY <2>2, <3>1, ReconciliationMoves DEF ReverseInv
  <2>3. CASE \E s \in CreateSequences : RecoveryLapses(s)
    BY <2>3, RecoveryMoves DEF ReverseInv
  <2>. QED
    BY <1>1, <2>1, <2>2, <2>3
<1>3. BrokerInv' /\ UnitsStay /\ UNCHANGED <<worker, gate, requests, replies, backup>>
  BY <1>1, NextKeeps DEF brokerVars, serviceVars, UnitsStay, ReverseInv
<1>4. ServiceTypeOK' /\ ClientsOK'
  BY <1>1 DEF serviceVars, ReverseInv, ServiceTypeOK, ClientsOK
<1>. QED
  BY <1>2, <1>3, <1>4, StandStill

\* While everything rests, nobody has an answer, a request or a page.
LEMMA Resting ==
  ASSUME ReverseInv, Quiescent
  PROVE  /\ gate.request = StartRequest
         /\ \A w \in Workers : worker[w].pc \in {"new", "off"} /\ replies[w] = NoReply
<1>1. gate.request = StartRequest
  BY DEF Quiescent, ReverseInv, GateServes
<1>2. \A w \in Workers : worker[w].pc \in {"new", "off"}
  BY DEF Quiescent, Alive, ReverseInv, ServiceTypeOK
<1>. QED
  BY <1>1, <1>2 DEF ReverseInv, ReplyOK, AwaitingSteps

\* A backup holds the table as it is.
LEMMA BackupStep ==
  ASSUME ReverseInv, TakeBackup
  PROVE  ReverseStep
<1>1. /\ backup'.jobs = jobs /\ backup'.attempts = attempts
      /\ backup'.principal = principal /\ backup'.orphans = orphans
      /\ backup'.sources = sources /\ backup'.results = results
      /\ backup = NULL
  BY DEF TakeBackup
<1>2. UNCHANGED <<brokerVars, tableVars, worker, client, sources, results, faults>>
  BY DEF TakeBackup
<1>3. BrokerInv'
  BY <1>2, NextKeeps DEF ReverseInv
<1>4. TableInv'
  BY <1>2, TableStays DEF NoTable
<1>5. ServiceTypeOK' /\ ClientsOK' /\ BirthsOK' /\ GateServes' /\ ProofsTrue'
  BY <1>2 DEF ReverseInv, ServiceTypeOK, ClientsOK, BirthsOK, GateServes, ProofsTrue, Proven,
     brokerVars, tableVars, Sweeping
<1>6. InventoryKnown'
  BY <1>1, <1>2 DEF ReverseInv, InventoryKnown, Asked, Recorded, Known, brokerVars, tableVars
<1>7. RequestsOK'
  BY <1>1, <1>2 DEF ReverseInv, RequestsOK, RequestOK, Matches, Asked, Recorded, Known,
     brokerVars, tableVars
<1>8. \A w \in Workers : ReplyOK(w)' /\ WorkerOK(w)'
  BY <1>2, Resting DEF TakeBackup, ReverseInv, ReplyOK, WorkerOK, NoReply, ExecutingSteps,
     Alive, brokerVars
<1>9. BackupOK'
  <2>1. SavedInv'
    BY <1>1 DEF ReverseInv, SavedInv, TableInv, Saved!TableTypeOK, Saved!Known, Saved!RowsLoad,
       Saved!SequencesIssued, Saved!UnitsBoundOnce, Saved!UnprovenStillRuns, TableTypeOK, Known,
       RowsLoad, SequencesIssued, UnitsBoundOnce, UnprovenStillRuns, JobLoads, AttemptLoads,
       Saved!JobLoads, Saved!AttemptLoads, Job, Saved!Job, Attempt, Saved!Attempt, Principal,
       Saved!Principal, Orphan, Saved!Orphan, CreateSequences, Saved!CreateSequences,
       ActiveStates, OutcomeStates, Saved!ActiveStates, Saved!OutcomeStates
  <2>2. UNCHANGED <<inventory, births>>
    BY <1>2 DEF brokerVars
  <2>. QED
    BY <1>1, <2>1, <2>2 DEF BackupOK, ReverseInv, ServiceTypeOK, ProofsTrue, Proven
<1>10. ClaimsFresh
  BY <1>2 DEF ClaimsFresh
<1>. QED
  BY <1>3, <1>4, <1>5, <1>6, <1>7, <1>8, <1>9, <1>10 DEF ReverseStep, ReverseInv

\* A restoration brings back a table that was good, behind a broker that went on.
LEMMA RestoreStep ==
  ASSUME ReverseInv, Restore
  PROVE  ReverseStep
<1>1. /\ jobs' = backup.jobs /\ attempts' = backup.attempts
      /\ principal' = backup.principal /\ orphans' = backup.orphans
      /\ sources' = backup.sources /\ results' = backup.results
      /\ backup # NULL /\ UNCHANGED <<brokerVars, worker, client, backup>>
      /\ \E kind : Fault(kind)
  BY DEF Restore
<1>2. BrokerInv'
  BY <1>1, NextKeeps DEF ReverseInv
<1>3. SavedInv
  BY <1>1 DEF ReverseInv, BackupOK
<1>4. TableInv'
  BY <1>1, <1>3 DEF SavedInv, TableInv, Saved!TableTypeOK, Saved!Known, Saved!RowsLoad,
     Saved!SequencesIssued, Saved!UnitsBoundOnce, Saved!UnprovenStillRuns, TableTypeOK, Known,
     RowsLoad, SequencesIssued, UnitsBoundOnce, UnprovenStillRuns, JobLoads, AttemptLoads,
     Saved!JobLoads, Saved!AttemptLoads, Job, Saved!Job, Attempt, Saved!Attempt, Principal,
     Saved!Principal, Orphan, Saved!Orphan, CreateSequences, Saved!CreateSequences,
     ActiveStates, OutcomeStates, Saved!ActiveStates, Saved!OutcomeStates
<1>5. faults' \in 0 .. MaxServiceFaults
  BY <1>1, ServiceAssumption DEF ReverseInv, ServiceTypeOK, Fault
<1>6. /\ backup.sources \subseteq Jobs
      /\ backup.results \subseteq Jobs \X CreateSequences
      /\ \A s \in CreateSequences :
            /\ backup.attempts[s].proof # 0 => Proven(s, backup.attempts[s].proof)
            /\ backup.orphans[s].unit # 0 => Proven(s, backup.orphans[s].unit)
  BY <1>1 DEF ReverseInv, BackupOK
<1>7. UNCHANGED <<inventory, births, runtime, gate, requests, replies, highWater>>
  BY <1>1 DEF brokerVars
<1>8. ServiceTypeOK' /\ ClientsOK' /\ BirthsOK' /\ GateServes' /\ ProofsTrue'
  BY <1>1, <1>5, <1>6, <1>7 DEF ReverseInv, ServiceTypeOK, ClientsOK, BirthsOK, GateServes,
     ProofsTrue, Proven, Sweeping
<1>9. InventoryKnown'
  BY <1>1 DEF InventoryKnown
<1>10. RequestsOK'
  BY <1>7, Resting DEF Restore, Quiescent, RequestsOK, RequestOK, StartRequest
<1>11. \A w \in Workers : ReplyOK(w)' /\ WorkerOK(w)'
  BY <1>1, <1>7, Resting DEF Restore, ReverseInv, ReplyOK, WorkerOK, NoReply, ExecutingSteps, Alive
<1>12. BackupOK'
  <2>1. SavedInv'
    BY <1>1, <1>3 DEF SavedInv, Saved!TableTypeOK, Saved!Known, Saved!RowsLoad,
       Saved!SequencesIssued, Saved!UnitsBoundOnce, Saved!UnprovenStillRuns
  <2>. QED
    BY <1>1, <1>6, <1>7, <2>1 DEF BackupOK, Proven
<1>13. ClaimsFresh
  BY <1>1 DEF ClaimsFresh
<1>. QED
  BY <1>2, <1>4, <1>8, <1>9, <1>10, <1>11, <1>12, <1>13 DEF ReverseStep, ReverseInv

----------------------------------------------------------------------------
(* Steps of the broker.                                                    *)

\* A unit that is gone stays gone, and the high water rises only to sequences that the
\* table drew; table and workers are as before.
BrokerMoves ==
    /\ \A s, u : Proven(s, u) =>
          <<s, u>> \in births' /\ inventory'[u].state \in {"removed", "none"}
    /\ highWater' = highWater \/ highWater' <= principal.highWater
    /\ UNCHANGED <<tableVars, serviceVars>>

\* The broker's part of a step of the broker.
BrokerKeeps ==
    BrokerMoves /\ BrokerInv' /\ BirthsOK' /\ GateServes' /\ InventoryKnown'

\* Everything but what was asked and answered follows from that.
LEMMA BrokerTurn ==
  ASSUME ReverseInv, BrokerKeeps, RequestsOK',
         \A w \in Workers : replies'[w] = replies[w] \/ ReplyOK(w)'
  PROVE  ReverseStep
<1>1. /\ UNCHANGED <<worker, client, sources, results, faults, backup>>
      /\ UNCHANGED <<jobs, attempts, principal, orphans>>
      /\ BrokerMoves
  BY DEF BrokerKeeps, BrokerMoves, tableVars, serviceVars
<1>2. TableInv'
  BY <1>1, TableStays DEF NoTable, tableVars
<1>3. ServiceTypeOK' /\ ClientsOK'
  BY <1>1 DEF ReverseInv, ServiceTypeOK, ClientsOK
<1>4. ProofsTrue'
  BY <1>1 DEF ReverseInv, ProofsTrue, BrokerMoves, Proven
<1>5. Ahead => Ahead'
  BY <1>1 DEF Ahead, BrokerMoves
<1>6. ASSUME NEW page, NEW cursor, PageOK(page, cursor)
      PROVE  PageOK(page, cursor)'
  <2>1. highWater' = highWater \/ Ahead'
    BY <1>1 DEF Ahead, BrokerMoves
  <2>. QED
    BY <1>1, <1>5, <1>6, <2>1 DEF PageOK, BrokerMoves, Proven
<1>7. ASSUME NEW w \in Workers
      PROVE  WorkerOK(w)'
  <2>1. PICK page, cursor : page = worker[w].page /\ cursor = worker[w].cursor
    OBVIOUS
  <2>2. PageOK(page, cursor) => PageOK(page, cursor)'
    BY <1>6
  <2>3. Known' = Known /\ Alive' = Alive
    BY <1>1 DEF Known, Alive
  <2>4. WorkerOK(w)
    BY DEF ReverseInv
  <2>. QED
    BY <1>1, <1>5, <2>1, <2>2, <2>3, <2>4 DEF WorkerOK, ProofOf, Past
<1>8. ASSUME NEW w \in Workers
      PROVE  ReplyOK(w)'
  <2>1. CASE replies'[w] = replies[w]
    <3>1. PICK page, cursor : page = replies[w] /\ cursor = worker[w].cursor
      OBVIOUS
    <3>2. PageOK(page, cursor) => PageOK(page, cursor)'
      BY <1>6
    <3>. QED
      BY <1>1, <2>1, <3>1, <3>2 DEF ReverseInv, ReplyOK, BrokerMoves, Proven
  <2>. QED
    BY <2>1
<1>9. BackupOK'
  BY <1>1 DEF ReverseInv, BackupOK, BrokerMoves, Proven, SavedInv, Saved!TableTypeOK, Saved!Known,
     Saved!RowsLoad, Saved!SequencesIssued, Saved!UnitsBoundOnce, Saved!UnprovenStillRuns
<1>10. ClaimsFresh
  BY <1>1 DEF ClaimsFresh
<1>. QED
  BY <1>2, <1>3, <1>4, <1>7, <1>8, <1>9, <1>10 DEF ReverseStep, ReverseInv, BrokerKeeps

\* The requests that are left are what they were, and the operation in hand is one of
\* them, the old one, or a sweep of its own.
LEMMA RequestsServed ==
  ASSUME ReverseInv, BrokerMoves, requests' \subseteq requests,
         gate'.request \in {gate.request, StartRequest} \cup (requests \ requests'),
         \A w \in Workers : \/ replies'[w] = replies[w]
                            \/ /\ \A r \in requests' : r.caller # w
                               /\ gate'.request.caller # w
  PROVE  RequestsOK'
<1>1. requests \subseteq Request /\ gate.request \in Request /\ Callers = Workers
  BY ServiceAssumption DEF ReverseInv, BrokerInv, BrokerTypeOK, Gate
<1>2. TableInv' /\ TableMoves /\ UNCHANGED <<worker, backup>>
  BY TableStays DEF BrokerMoves, NoTable, serviceVars
<1>3. ASSUME NEW r \in requests \cup {gate.request}, r \in requests' \cup {gate'.request}
      PROVE  RequestOK(r)'
  <2>1. r.caller # NULL => r.caller \in Workers /\ replies'[r.caller] = replies[r.caller]
    BY <1>1, <1>3 DEF Request
  <2>. QED
    BY <1>2, <2>1, RequestKept
<1>4. RequestOK(StartRequest)'
  BY DEF RequestOK, StartRequest
<1>5. \A r \in requests' : RequestOK(r)'
  BY <1>3
<1>6. RequestOK(gate.request)'
  <2>1. PICK r : r = gate'.request
    OBVIOUS
  <2>2. RequestOK(r)'
    BY <1>3, <1>4, <2>1
  <2>. QED
    BY <2>1, <2>2
<1>7. gate'.request.caller # NULL => \A r \in requests' : r.caller # gate'.request.caller
  BY DEF ReverseInv, RequestsOK, StartRequest
<1>8. \A r, q \in requests' : r.caller # NULL /\ r.caller = q.caller => r = q
  BY DEF ReverseInv, RequestsOK
<1>. QED
  BY <1>5, <1>6, <1>7, <1>8 DEF RequestsOK

\* A step of the broker that answers nobody.
LEMMA SilentTurn ==
  ASSUME ReverseInv, BrokerKeeps, requests' \subseteq requests, UNCHANGED replies,
         gate'.request \in {gate.request, StartRequest} \cup (requests \ requests')
  PROVE  ReverseStep
<1>1. BrokerMoves
  BY DEF BrokerKeeps
<1>2. RequestsOK'
  BY <1>1, RequestsServed
<1>. QED
  BY <1>2, BrokerTurn

\* What the answer to r may tell of.
Truthful(r, reply) ==
    r.caller # NULL =>
        /\ reply.kind = "unit" => reply.unit \in UnitIds
        /\ reply.kind = "proof" =>
              r.op = "terminate" /\ reply.unit = r.unit /\ Proven(r.sequence, r.unit)
        /\ reply.kind = "page" => r.op = "page" /\ PageOK(reply, r.sequence)

\* A step of the broker that answers r, from the queue or at the end of its operation.
LEMMA AnswerTurn ==
  ASSUME ReverseInv, BrokerKeeps, NEW r, NEW reply, Answer(r, reply), Truthful(r, reply)',
         \/ /\ r \in requests /\ requests' = requests \ {r}
            /\ gate'.request = gate.request
         \/ /\ r = gate.request /\ requests' = requests
            /\ gate'.request = StartRequest
  PROVE  ReverseStep
<1>1. r \in Request /\ Callers = Workers /\ replies \in [Callers -> Reply]
      /\ requests \subseteq Request
  BY ServiceAssumption DEF ReverseInv, BrokerInv, BrokerTypeOK, Gate
<1>2. /\ BrokerMoves
      /\ UNCHANGED worker
  BY DEF BrokerKeeps, BrokerMoves, serviceVars
<1>3. RequestOK(r)
  BY DEF ReverseInv, RequestsOK
<1>4. \A w \in Workers : w # r.caller => replies'[w] = replies[w]
  BY <1>1 DEF Answer
<1>5. r.caller # NULL => /\ \A q \in requests' : q.caller # r.caller
                         /\ gate'.request.caller # r.caller
  BY DEF ReverseInv, RequestsOK, StartRequest
<1>6. RequestsOK'
  <2>1. \A w \in Workers : \/ replies'[w] = replies[w]
                           \/ /\ \A q \in requests' : q.caller # w
                              /\ gate'.request.caller # w
    <3>1. r.caller = NULL => replies' = replies
      BY DEF Answer
    <3>. QED
      BY <1>4, <1>5, <3>1
  <2>. QED
    BY <1>2, <2>1, RequestsServed
<1>7. ASSUME NEW w \in Workers, w = r.caller, r.caller # NULL
      PROVE  ReplyOK(w)'
  <2>1. replies'[w] = reply
    BY <1>1, <1>7 DEF Answer
  <2>2. Matches(w, r)
    BY <1>3, <1>7 DEF RequestOK
  <2>3. reply.kind = "page" => PageOK(reply, r.sequence)' /\ r.sequence = worker'[w].cursor
    BY <1>2, <1>7, <2>2 DEF Truthful, Matches
  <2>4. reply.kind = "proof" => /\ reply.unit = worker'[w].unit
                                /\ <<worker'[w].seq, reply.unit>> \in births'
                                /\ inventory'[reply.unit].state \in {"removed", "none"}
    BY <1>2, <1>7, <2>2 DEF Truthful, Matches, Proven
  <2>. QED
    BY <1>2, <1>7, <2>1, <2>2, <2>3, <2>4 DEF ReplyOK, Truthful, Matches, PageOK, Proven
<1>8. \A w \in Workers : replies'[w] = replies[w] \/ ReplyOK(w)'
  <2>1. r.caller = NULL => replies' = replies
    BY DEF Answer
  <2>. QED
    BY <1>4, <1>7, <2>1
<1>. QED
  BY <1>6, <1>8, BrokerTurn

\* Table and workers stand still.
Standing == UNCHANGED <<tableVars, serviceVars>>

\* A step that writes no row, and creates nothing.
LEMMA GateTurn ==
  ASSUME ReverseInv, BrokerInv', Standing, GateServes',
         UNCHANGED <<inventory, highWater, births>>,
         \A u \in UnitIds : runtime'[u] # "absent" => runtime[u] # "absent",
         gate'.pc = "created" => <<inventory[gate'.unit].sequence, gate'.unit>> \in births
  PROVE  BrokerKeeps
<1>1. BrokerMoves
  BY DEF BrokerMoves, Standing, Proven
<1>2. BirthsOK'
  BY DEF ReverseInv, BirthsOK
<1>3. InventoryKnown'
  BY DEF ReverseInv, InventoryKnown, Asked, Recorded, Known, Standing, tableVars, serviceVars
<1>. QED
  BY <1>1, <1>2, <1>3 DEF BrokerKeeps

\* A row that is there, and not yet a tombstone, goes on to its next state.
LEMMA RowTurn ==
  ASSUME ReverseInv, BrokerInv', Standing, GateServes', NEW u \in UnitIds, NEW target,
         inventory' = [inventory EXCEPT ![u].state = target],
         UNCHANGED <<highWater, births, runtime>>,
         target # "none", inventory[u].state \notin {"none", "removed"},
         \/ target = "create_intent" /\ inventory[u].state = "reserved"
         \/ <<inventory[u].sequence, u>> \in births,
         gate'.pc # "created"
  PROVE  BrokerKeeps
<1>. inventory \in [UnitIds -> Unit] /\ births \subseteq CreateSequences \X UnitIds
  BY DEF ReverseInv, BrokerInv, BrokerTypeOK
<1>1. \A v \in UnitIds :
         /\ inventory'[v].state = IF v = u THEN target ELSE inventory[v].state
         /\ inventory'[v].sequence = inventory[v].sequence
         /\ inventory'[v].acknowledged = inventory[v].acknowledged
  BY DEF Unit
<1>2. BrokerMoves
  <2>1. ASSUME NEW s, NEW v, Proven(s, v)
        PROVE  <<s, v>> \in births' /\ inventory'[v].state \in {"removed", "none"}
    <3>1. v \in UnitIds /\ v # u
      BY <2>1 DEF Proven
    <3>. QED
      BY <1>1, <2>1, <3>1 DEF Proven
  <2>. QED
    BY <2>1 DEF BrokerMoves, Standing
<1>3. BirthsOK'
  <2>1. inventory[u].state = "reserved" => runtime[u] = "absent"
    BY DEF ReverseInv, BrokerInv, RowAgrees
  <2>. QED
    BY <1>1, <2>1 DEF ReverseInv, BirthsOK
<1>4. InventoryKnown'
  <2>1. \A s : Asked(s) => Asked(s)'
    BY DEF Asked, Known, Standing, tableVars
  <2>2. \A s, v : Recorded(s, v) => Recorded(s, v)'
    BY DEF Recorded, Standing, tableVars
  <2>3. ASSUME backup' = NULL, NEW v \in UnitIds, inventory'[v].state # "none"
        PROVE  /\ Asked(inventory[v].sequence)'
               /\ inventory'[v].acknowledged => Recorded(inventory[v].sequence, v)'
    <3>1. backup = NULL /\ inventory[v].state # "none"
      BY <1>1, <2>3 DEF Standing, serviceVars
    <3>2. PICK s : s = inventory[v].sequence
      OBVIOUS
    <3>3. inventory'[v].sequence = s
      BY <1>1, <3>2
    <3>4. Asked(s) /\ (inventory'[v].acknowledged => Recorded(s, v))
      BY <1>1, <3>1, <3>2 DEF ReverseInv, InventoryKnown
    <3>. QED
      BY <2>1, <2>2, <3>3, <3>4
  <2>4. ASSUME backup' = NULL, NEW s \in CreateSequences, NEW v \in UnitIds,
               <<s, v>> \in births', inventory'[v].state = "none"
        PROVE  Recorded(s, v)'
    <3>1. backup = NULL /\ inventory[v].state = "none"
      BY <1>1, <2>4 DEF Standing, serviceVars
    <3>. QED
      BY <2>2, <2>4, <3>1 DEF ReverseInv, InventoryKnown
  <2>. QED
    BY <2>3, <2>4 DEF InventoryKnown
<1>. QED
  BY <1>2, <1>3, <1>4 DEF BrokerKeeps

\* A row goes: a tombstone whose proof is recorded, or a reservation.
LEMMA DropTurn ==
  ASSUME ReverseInv, BrokerInv', Standing, GateServes', NEW u \in UnitIds,
         inventory' = [inventory EXCEPT ![u] = NoUnit],
         UNCHANGED <<highWater, births, runtime>>,
         \/ /\ inventory[u].state = "removed"
            /\ backup = NULL => Recorded(inventory[u].sequence, u)
         \/ inventory[u].state = "reserved",
         gate'.pc # "created"
  PROVE  BrokerKeeps
<1>. inventory \in [UnitIds -> Unit] /\ births \subseteq CreateSequences \X UnitIds
  BY DEF ReverseInv, BrokerInv, BrokerTypeOK
<1>0. /\ inventory[u].state = "reserved" => \A s : <<s, u>> \notin births
      /\ runtime[u] = "absent"
  BY DEF ReverseInv, BrokerInv, RowAgrees, SequencesAgree
<1>1. /\ inventory'[u] = NoUnit /\ NoUnit.state = "none" /\ ~NoUnit.acknowledged
      /\ \A v \in UnitIds : v # u => inventory'[v] = inventory[v]
  BY DEF NoUnit
<1>2. BrokerMoves
  <2>1. ASSUME NEW s, NEW v, Proven(s, v)
        PROVE  <<s, v>> \in births' /\ inventory'[v].state \in {"removed", "none"}
    <3>1. v \in UnitIds
      BY <2>1 DEF Proven
    <3>. QED
      BY <1>1, <2>1, <3>1 DEF Proven
  <2>. QED
    BY <2>1 DEF BrokerMoves, Standing
<1>3. BirthsOK'
  BY <1>0, <1>1 DEF ReverseInv, BirthsOK
<1>4. InventoryKnown'
  <2>1. \A s : Asked(s) => Asked(s)'
    BY DEF Asked, Known, Standing, tableVars
  <2>2. \A s, v : Recorded(s, v) => Recorded(s, v)'
    BY DEF Recorded, Standing, tableVars
  <2>3. ASSUME backup' = NULL, NEW v \in UnitIds, inventory'[v].state # "none"
        PROVE  /\ Asked(inventory[v].sequence)'
               /\ inventory'[v].acknowledged => Recorded(inventory[v].sequence, v)'
    <3>1. backup = NULL /\ inventory'[v] = inventory[v]
      BY <1>1, <2>3 DEF Standing, serviceVars
    <3>2. PICK s : s = inventory[v].sequence
      OBVIOUS
    <3>4. Asked(s) /\ (inventory[v].acknowledged => Recorded(s, v))
      BY <2>3, <3>1, <3>2 DEF ReverseInv, InventoryKnown
    <3>. QED
      BY <2>1, <2>2, <3>1, <3>2, <3>4
  <2>4. ASSUME backup' = NULL, NEW s \in CreateSequences, NEW v \in UnitIds,
               <<s, v>> \in births', inventory'[v].state = "none"
        PROVE  Recorded(s, v)'
    <3>1. backup = NULL
      BY <2>4 DEF Standing, serviceVars
    <3>2. CASE v # u
      BY <1>1, <2>2, <2>4, <3>1, <3>2 DEF ReverseInv, InventoryKnown
    <3>3. CASE v = u
      <4>1. inventory[u].state = "removed" /\ inventory[u].sequence = s
        BY <1>0, <2>4, <3>3 DEF ReverseInv, BirthsOK
      <4>. QED
        BY <2>2, <3>1, <3>3, <4>1
    <3>. QED
      BY <3>2, <3>3
  <2>. QED
    BY <2>3, <2>4 DEF InventoryKnown
<1>. QED
  BY <1>2, <1>3, <1>4 DEF BrokerKeeps

\* What the gate does next still belongs to the request that holds it.
LEMMA GateGoes ==
  ASSUME ReverseInv, NEW pc, NEW u, Goto(pc, u), pc \notin {"idle", "down"},
         pc = "sweep" => Sweeping,
         pc = "forget" => inventory'[u].acknowledged,
         pc \in {"kill", "exit", "empty", "remove", "removed"} /\ ~Sweeping =>
            /\ gate.request.op = "terminate"
            /\ gate.request.unit = u
            /\ gate.request.sequence = inventory'[u].sequence
  PROVE  GateServes' /\ gate'.pc = pc /\ gate'.unit = u /\ gate'.request = gate.request
<1>1. gate'.pc = pc /\ gate'.unit = u /\ gate'.request = gate.request
  BY GotoFields DEF ReverseInv, BrokerInv
<1>. QED
  BY <1>1 DEF ReverseInv, GateServes, Sweeping

\* A gate that is idle or down serves nobody.
LEMMA GateRests ==
  ASSUME gate' \in {IdleGate, DownGate}
  PROVE  /\ GateServes' /\ gate'.request = StartRequest
         /\ gate'.pc \in {"idle", "down"}
BY DEF GateServes, IdleGate, DownGate, StartRequest

\* A gate that stays, over rows that are not its own, serves as before.
LEMMA GateStays ==
  ASSUME ReverseInv, UNCHANGED <<gate, inventory>>
  PROVE  GateServes'
BY DEF ReverseInv, GateServes, Sweeping

\* The broker's own invariant, by its own proof.
LEMMA BrokerOwn ==
  ASSUME ReverseInv, BrokerStep \/ BrokerFaultStep
  PROVE  BrokerInv'
BY NextKeeps DEF BrokerNext, ReverseInv

\* A request that is answered in one step.
LEMMA AtOnce ==
  ASSUME ReverseInv, BrokerInv', Standing, NEW r \in requests, NEW reply,
         AnswerAt(r, reply), Truthful(r, reply)
  PROVE  ReverseStep
<1>1. BrokerKeeps
  <2>1. UNCHANGED <<gate, inventory, highWater, births, runtime>> /\ gate.pc = "idle"
    BY DEF AnswerAt, Serve
  <2>. QED
    BY <2>1, GateStays, GateTurn
<1>2. Truthful(r, reply)'
  <2>1. UNCHANGED <<inventory, highWater, births, principal>>
    BY DEF AnswerAt, Standing, tableVars
  <2>. QED
    BY <2>1 DEF Truthful, PageOK, Proven, Ahead
<1>. QED
  BY <1>1, <1>2, AnswerTurn DEF AnswerAt, Serve

\* What the simplest answers tell of.
LEMMA PlainTruth ==
  ASSUME NEW r
  PROVE  /\ Truthful(r, ErrorReply) /\ Truthful(r, DoneReply)
         /\ \A kind \in {"pending", "success", "failure"} :
               Truthful(r, [NoReply EXCEPT !.kind = kind])
         /\ \A u \in UnitIds : \A state : Truthful(r, UnitReply(u, state))
BY DEF Truthful, ErrorReply, DoneReply, UnitReply, NoReply

\* The requests that change no row.
LEMMA AtOnceStep ==
  ASSUME ReverseInv, BrokerInv', Standing, NEW r \in requests, AnsweredAtOnce(r)
  PROVE  ReverseStep
<1>1. CASE \/ NotReady(r) \/ CreateRejected(r) \/ WorkspaceRefused(r) \/ TerminateRefused(r)
           \/ AcknowledgeRefused(r)
  BY <1>1, AtOnce, PlainTruth
  DEF NotReady, CreateRejected, WorkspaceRefused, TerminateRefused, AcknowledgeRefused
<1>2. CASE Ready(r) \/ StageReplayed(r) \/ AcknowledgeAgain(r)
  BY <1>2, AtOnce, PlainTruth DEF Ready, StageReplayed, AcknowledgeAgain
<1>3. CASE CreateReplayed(r)
  <2>1. PICK u \in SameSequence(r.sequence) : AnswerAt(r, UnitReply(u, inventory[u].state))
    BY <1>3 DEF CreateReplayed
  <2>2. PICK reply : reply = UnitReply(u, inventory[u].state)
    OBVIOUS
  <2>3. Truthful(r, reply)
    BY <2>2, PlainTruth DEF SameSequence, Inventoried
  <2>. QED
    BY <2>1, <2>2, <2>3, AtOnce
<1>4. CASE Stage(r)
  BY <1>4, AtOnce, PlainTruth DEF Stage
<1>5. CASE Collect(r)
  <2>1. PICK reply : AnswerAt(r, reply) /\ Truthful(r, reply)
    BY <1>5, PlainTruth DEF Collect
  <2>. QED
    BY <2>1, AtOnce
<1>6. CASE TerminateProven(r)
  <2>1. /\ AnswerAt(r, ProofReply(r.unit)) /\ r.op = "terminate"
        /\ inventory[r.unit].state = "removed" /\ inventory[r.unit].sequence = r.sequence
        /\ r.unit \in UnitIds
    BY <1>6 DEF TerminateProven, Owned, Inventoried
  <2>2. Proven(r.sequence, r.unit)
    BY <2>1 DEF ReverseInv, BirthsOK, Proven
  <2>3. Truthful(r, ProofReply(r.unit))
    BY <2>1, <2>2 DEF Truthful, ProofReply, NoReply
  <2>. QED
    BY <2>1, <2>3, AtOnce
<1>. QED
  BY <1>1, <1>2, <1>3, <1>4, <1>5, <1>6 DEF AnsweredAtOnce

\* reserve: the row of a sequence that the table asked for.
LEMMA ReserveStep ==
  ASSUME ReverseInv, BrokerInv', Standing, NEW r \in requests, CreateReserve(r)
  PROVE  ReverseStep
<1>. inventory \in [UnitIds -> Unit] /\ births \subseteq CreateSequences \X UnitIds
  BY DEF ReverseInv, BrokerInv, BrokerTypeOK
<1>1. PICK f : f = FreshUnit
  OBVIOUS
<1>2. /\ f \in UnitIds /\ inventory[f].state = "none"
      /\ \A b \in births : b[2] # f
  BY <1>1, FreshUnitIsNew DEF CreateReserve, ReserveThen
<1>3. /\ inventory' = [inventory EXCEPT ![f] = ReservedUnit(r.sequence)]
      /\ highWater' = r.sequence
      /\ gate' = [pc |-> "intent", request |-> r, unit |-> f]
      /\ UNCHANGED <<runtime, replies, births>>
      /\ r.op = "create" /\ requests' = requests \ {r}
  BY <1>1 DEF CreateReserve, ReserveThen, Serve
<1>4. r.sequence <= principal.highWater /\ (backup = NULL => Asked(r.sequence))
  BY <1>3 DEF ReverseInv, RequestsOK, RequestOK
<1>5. /\ inventory'[f] = ReservedUnit(r.sequence)
      /\ \A v \in UnitIds : v # f => inventory'[v] = inventory[v]
  BY <1>2, <1>3
<1>6. BrokerMoves
  <2>1. ASSUME NEW s, NEW v, Proven(s, v)
        PROVE  <<s, v>> \in births' /\ inventory'[v].state \in {"removed", "none"}
    <3>1. v \in UnitIds /\ v # f
      BY <1>2, <2>1 DEF Proven
    <3>. QED
      BY <1>3, <1>5, <2>1, <3>1 DEF Proven
  <2>. QED
    BY <1>3, <1>4, <2>1 DEF BrokerMoves, Standing
<1>7. BirthsOK'
  <2>1. runtime[f] = "absent"
    BY <1>2 DEF ReverseInv, BrokerInv, RowAgrees
  <2>2. inventory'[f].state = "reserved" /\ gate'.pc = "intent"
    BY <1>3, <1>5 DEF ReservedUnit
  <2>3. UNCHANGED <<births, runtime>>
    BY <1>3
  <2>. QED
    BY <1>2, <1>5, <2>1, <2>2, <2>3 DEF ReverseInv, BirthsOK
<1>8. GateServes'
  BY <1>3 DEF GateServes
<1>9. InventoryKnown'
  <2>1. UNCHANGED <<births, backup, jobs, attempts, principal, orphans>>
    BY <1>3 DEF Standing, serviceVars, tableVars
  <2>2. /\ inventory'[f].state # "none" /\ ~inventory'[f].acknowledged
        /\ inventory'[f].sequence = r.sequence
    BY <1>5 DEF ReservedUnit
  <2>. QED
    BY <1>2, <1>4, <1>5, <2>1, <2>2 DEF ReverseInv, InventoryKnown, Asked, Recorded, Known
<1>10. BrokerKeeps
  BY <1>6, <1>7, <1>8, <1>9 DEF BrokerKeeps
<1>. QED
  BY <1>3, <1>10, SilentTurn

\* An operation that ends with an answer.
LEMMA FinishTurn ==
  ASSUME ReverseInv, BrokerKeeps, NEW r, r = gate.request, NEW reply, Finish(reply),
         UNCHANGED requests, Truthful(r, reply)'
  PROVE  ReverseStep
<1>1. Answer(r, reply) /\ gate'.request = StartRequest
  BY GateRests DEF Finish
<1>. QED
  BY <1>1, AnswerTurn

\* Where the operation in hand is, its row and its unit.
LEMMA InHand ==
  ASSUME ReverseInv
  PROVE  /\ gate.pc \in {"intent", "runtime", "created", "kill", "exit", "empty", "remove",
                         "removed", "forget"} => gate.unit \in UnitIds
         /\ gate.pc = "intent" => inventory[gate.unit].state = "reserved"
         /\ gate.pc \in {"runtime", "created"} => inventory[gate.unit].state = "create_intent"
         /\ gate.pc \in {"kill", "exit"} => inventory[gate.unit].state = "created"
         /\ gate.pc = "empty" => inventory[gate.unit].state = "exit_confirmed"
         /\ gate.pc \in {"remove", "removed"} => inventory[gate.unit].state = "empty_confirmed"
         /\ gate.pc = "forget" => inventory[gate.unit].state = "removed"
         /\ gate.pc \in {"created", "kill", "exit", "empty", "remove", "removed", "forget"} =>
               <<inventory[gate.unit].sequence, gate.unit>> \in births
<1>1. GateAgrees
  BY DEF ReverseInv, BrokerInv
<1>. QED
  BY <1>1 DEF GateAgrees, ReverseInv, BirthsOK

\* create, from the durable intent on.
LEMMA CreateSteps ==
  ASSUME ReverseInv, BrokerInv', Standing, WriteIntent \/ RuntimeCreate \/ WriteCreated
  PROVE  ReverseStep
<1>. PICK u : u = gate.unit
  OBVIOUS
<1>. PICK r : r = gate.request
  OBVIOUS
<1>. inventory \in [UnitIds -> Unit] /\ births \subseteq CreateSequences \X UnitIds
  BY DEF ReverseInv, BrokerInv, BrokerTypeOK
<1>1. CASE WriteIntent
  <2>1. /\ u \in UnitIds /\ inventory[u].state = "reserved"
        /\ inventory' = [inventory EXCEPT ![u].state = "create_intent"]
        /\ Goto("runtime", u)
        /\ UNCHANGED <<highWater, births, runtime, requests, replies>>
    BY <1>1, InHand DEF WriteIntent, Transition
  <2>2. GateServes' /\ gate'.pc = "runtime" /\ gate'.request = gate.request
    BY <2>1, GateGoes
  <2>3. BrokerKeeps
    BY <2>1, <2>2, RowTurn
  <2>. QED
    BY <2>1, <2>2, <2>3, SilentTurn
<1>2. CASE RuntimeCreate
  <2>1. /\ u \in UnitIds /\ inventory[u].state = "create_intent"
        /\ runtime' = [runtime EXCEPT ![u] = "running"]
        /\ births' = births \cup {<<inventory[u].sequence, u>>}
        /\ Goto("created", u)
        /\ UNCHANGED <<inventory, highWater, requests, replies>>
    BY <1>2, InHand DEF RuntimeCreate
  <2>2. /\ GateServes' /\ gate'.pc = "created" /\ gate'.unit = u
        /\ gate'.request = gate.request
    BY <2>1, GateGoes
  <2>3. BrokerMoves
    BY <2>1 DEF BrokerMoves, Standing, Proven
  <2>4. BirthsOK'
    <3>1. \A v \in UnitIds : v # u => runtime'[v] = runtime[v]
      BY <2>1 DEF ReverseInv, BrokerInv, BrokerTypeOK
    <3>. QED
      BY <2>1, <2>2, <3>1 DEF ReverseInv, BirthsOK
  <2>5. InventoryKnown'
    BY <2>1 DEF ReverseInv, InventoryKnown, Asked, Recorded, Known, Standing, tableVars,
       serviceVars
  <2>6. BrokerKeeps
    BY <2>2, <2>3, <2>4, <2>5 DEF BrokerKeeps
  <2>. QED
    BY <2>1, <2>2, <2>6, SilentTurn
<1>3. CASE WriteCreated
  <2>1. /\ u \in UnitIds /\ inventory[u].state = "create_intent"
        /\ <<inventory[u].sequence, u>> \in births
        /\ inventory' = [inventory EXCEPT ![u].state = "created"]
        /\ UNCHANGED <<highWater, births, runtime, requests>>
    BY <1>3, InHand DEF WriteCreated, Transition
  <2>2. CASE Sweeping
    <3>1. Goto("kill", u) /\ UNCHANGED replies
      BY <1>3, <2>2 DEF WriteCreated
    <3>2. GateServes' /\ gate'.pc = "kill" /\ gate'.request = gate.request
      BY <2>2, <3>1, GateGoes
    <3>3. BrokerKeeps
      BY <2>1, <3>2, RowTurn
    <3>. QED
      BY <2>1, <3>1, <3>2, <3>3, SilentTurn
  <2>3. CASE ~Sweeping
    <3>1. Finish(UnitReply(u, "created"))
      BY <1>3, <2>3 DEF WriteCreated
    <3>2. GateServes' /\ gate'.pc \in {"idle", "down"}
      BY <3>1, GateRests DEF Finish
    <3>3. BrokerKeeps
      BY <2>1, <3>2, RowTurn
    <3>4. Truthful(r, UnitReply(u, "created"))'
      BY <2>1 DEF Truthful, UnitReply, NoReply
    <3>. QED
      BY <2>1, <3>1, <3>3, <3>4, FinishTurn
  <2>. QED
    BY <2>2, <2>3
<1>. QED
  BY <1>1, <1>2, <1>3

\* terminate: what the container runtime does.
LEMMA RuntimeSteps ==
  ASSUME ReverseInv, BrokerInv', Standing, Kill \/ Remove
  PROVE  ReverseStep
<1>. PICK u, pc, state : /\ u = gate.unit
                         /\ \/ Kill /\ pc = "exit" /\ state = "exited"
                            \/ Remove /\ pc = "removed" /\ state = "absent"
  OBVIOUS
<1>1. /\ u \in UnitIds /\ inventory[u].state \in {"created", "empty_confirmed"}
      /\ <<inventory[u].sequence, u>> \in births
      /\ runtime' = [runtime EXCEPT ![u] = state]
      /\ gate.pc \in {"kill", "remove"}
      /\ Goto(pc, u)
      /\ UNCHANGED <<inventory, highWater, births, requests, replies>>
  BY InHand DEF Kill, Remove
<1>2. pc \in {"exit", "removed"}
  OBVIOUS
<1>3. GateServes' /\ gate'.pc = pc /\ gate'.request = gate.request
  BY <1>1, <1>2, GateGoes DEF ReverseInv, GateServes
<1>4. BrokerMoves
  BY <1>1 DEF BrokerMoves, Standing, Proven
<1>5. BirthsOK'
  <2>1. \A v \in UnitIds : v # u => runtime'[v] = runtime[v]
    BY <1>1 DEF ReverseInv, BrokerInv, BrokerTypeOK
  <2>. QED
    BY <1>1, <1>2, <1>3, <2>1 DEF ReverseInv, BirthsOK
<1>6. InventoryKnown'
  BY <1>1 DEF ReverseInv, InventoryKnown, Asked, Recorded, Known, Standing, tableVars,
     serviceVars
<1>7. BrokerKeeps
  BY <1>3, <1>4, <1>5, <1>6 DEF BrokerKeeps
<1>. QED
  BY <1>1, <1>3, <1>7, SilentTurn

\* terminate: what the broker confirms of it.
LEMMA ConfirmSteps ==
  ASSUME ReverseInv, BrokerInv', Standing, WriteExit \/ WriteEmpty \/ WriteRemoved
  PROVE  ReverseStep
<1>. PICK u : u = gate.unit
  OBVIOUS
<1>. PICK r : r = gate.request
  OBVIOUS
<1>. inventory \in [UnitIds -> Unit] /\ births \subseteq CreateSequences \X UnitIds
  BY DEF ReverseInv, BrokerInv, BrokerTypeOK
<1>1. CASE WriteExit \/ WriteEmpty
  <2>. PICK pc, target : /\ \/ WriteExit /\ pc = "empty" /\ target = "exit_confirmed"
                            \/ WriteEmpty /\ pc = "remove" /\ target = "empty_confirmed"
    BY <1>1
  <2>1. /\ u \in UnitIds /\ inventory[u].state \in {"created", "exit_confirmed"}
        /\ <<inventory[u].sequence, u>> \in births
        /\ inventory' = [inventory EXCEPT ![u].state = target]
        /\ target \in {"exit_confirmed", "empty_confirmed"} /\ pc \in {"empty", "remove"}
        /\ gate.pc \in {"exit", "empty"}
        /\ Goto(pc, u)
        /\ UNCHANGED <<highWater, births, runtime, requests, replies>>
    BY InHand DEF WriteExit, WriteEmpty, Transition
  <2>2. inventory'[u].sequence = inventory[u].sequence
    BY <2>1 DEF Unit
  <2>3. GateServes' /\ gate'.pc = pc /\ gate'.request = gate.request
    BY <2>1, <2>2, GateGoes DEF ReverseInv, GateServes
  <2>4. BrokerKeeps
    BY <2>1, <2>3, RowTurn
  <2>. QED
    BY <2>1, <2>3, <2>4, SilentTurn
<1>2. CASE WriteRemoved
  <2>1. /\ u \in UnitIds /\ inventory[u].state = "empty_confirmed"
        /\ <<inventory[u].sequence, u>> \in births
        /\ inventory' = [inventory EXCEPT ![u].state = "removed"]
        /\ UNCHANGED <<highWater, births, runtime, requests>>
    BY <1>2, InHand DEF WriteRemoved, Transition
  <2>2. CASE Sweeping
    <3>1. Goto("sweep", 0) /\ UNCHANGED replies
      BY <1>2, <2>2 DEF WriteRemoved
    <3>2. GateServes' /\ gate'.pc = "sweep" /\ gate'.request = gate.request
      BY <2>2, <3>1, GateGoes
    <3>3. BrokerKeeps
      BY <2>1, <3>2, RowTurn
    <3>. QED
      BY <2>1, <3>1, <3>2, <3>3, SilentTurn
  <2>3. CASE ~Sweeping
    <3>1. Finish(ProofReply(u))
      BY <1>2, <2>3 DEF WriteRemoved
    <3>2. GateServes' /\ gate'.pc \in {"idle", "down"}
      BY <3>1, GateRests DEF Finish
    <3>3. BrokerKeeps
      BY <2>1, <3>2, RowTurn
    <3>4. Truthful(r, ProofReply(u))'
      <4>1. r.op = "terminate" /\ r.unit = u /\ r.sequence = inventory[u].sequence
        BY <1>2, <2>3 DEF WriteRemoved, ReverseInv, GateServes
      <4>2. inventory'[u].state = "removed"
        BY <2>1
      <4>. QED
        BY <2>1, <4>1, <4>2 DEF Truthful, ProofReply, NoReply, Proven
    <3>. QED
      BY <2>1, <3>1, <3>3, <3>4, FinishTurn
  <2>. QED
    BY <2>2, <2>3
<1>. QED
  BY <1>1, <1>2

\* A termination begins where the row is.
LEMMA TerminateStep ==
  ASSUME ReverseInv, BrokerInv', Standing, NEW r \in requests, Terminate(r)
  PROVE  ReverseStep
<1>1. /\ gate' = [pc |-> ResumeAt(inventory[r.unit].state), request |-> r, unit |-> r.unit]
      /\ UNCHANGED <<inventory, highWater, runtime, births, replies>>
      /\ requests' = requests \ {r}
      /\ r.op = "terminate" /\ inventory[r.unit].sequence = r.sequence
      /\ inventory[r.unit].state \in {"created", "exit_confirmed", "empty_confirmed"}
  BY DEF Terminate, Owned, Resumable, Serve
<1>2. gate'.pc \in {"kill", "empty", "remove"}
  BY <1>1 DEF ResumeAt
<1>3. GateServes'
  BY <1>1, <1>2 DEF GateServes
<1>4. BrokerKeeps
  BY <1>1, <1>2, <1>3, GateTurn
<1>. QED
  BY <1>1, <1>4, SilentTurn

\* The acknowledgement of a proof, which the table has.
LEMMA AcknowledgeStepOfBroker ==
  ASSUME ReverseInv, BrokerInv', Standing, NEW r \in requests,
         Acknowledge(r) \/ MarkAcknowledged(r)
  PROVE  ReverseStep
<1>. inventory \in [UnitIds -> Unit] /\ births \subseteq CreateSequences \X UnitIds
  BY DEF ReverseInv, BrokerInv, BrokerTypeOK
<1>1. PICK u : u = r.unit
  OBVIOUS
<1>2. /\ u \in UnitIds /\ inventory[u].state = "removed"
      /\ inventory[u].sequence = r.sequence
      /\ r.op = "ack" /\ requests' = requests \ {r} /\ gate.pc = "idle"
      /\ UNCHANGED <<highWater, births, runtime>>
  BY <1>1 DEF Acknowledge, MarkAcknowledged, Acknowledgeable, Owned, Inventoried, Serve
<1>3. backup = NULL => Recorded(r.sequence, u)
  BY <1>1, <1>2, UnitField DEF ReverseInv, RequestsOK, RequestOK
<1>4. CASE Acknowledge(r)
  <2>1. /\ inventory' = [inventory EXCEPT ![u] = NoUnit]
        /\ Answer(r, DoneReply) /\ UNCHANGED gate
    BY <1>1, <1>4 DEF Acknowledge, Drop
  <2>2. GateServes'
    BY <1>2, <2>1 DEF ReverseInv, GateServes, StartRequest, Sweeping
  <2>3. BrokerKeeps
    BY <1>2, <1>3, <2>1, <2>2, DropTurn
  <2>4. Truthful(r, DoneReply)'
    BY DEF Truthful, DoneReply, NoReply
  <2>. QED
    BY <1>2, <2>1, <2>3, <2>4, AnswerTurn
<1>5. CASE MarkAcknowledged(r)
  <2>1. /\ inventory' = [inventory EXCEPT ![u].acknowledged = TRUE]
        /\ gate' = [pc |-> "forget", request |-> r, unit |-> u]
        /\ UNCHANGED replies
    BY <1>1, <1>5 DEF MarkAcknowledged
  <2>2. /\ \A v \in UnitIds : /\ inventory'[v].state = inventory[v].state
                              /\ inventory'[v].sequence = inventory[v].sequence
                              /\ v # u => inventory'[v] = inventory[v]
        /\ inventory'[u].acknowledged
    BY <1>2, <2>1 DEF Unit
  <2>3. BrokerMoves
    <3>1. ASSUME NEW s, NEW v, Proven(s, v)
          PROVE  <<s, v>> \in births' /\ inventory'[v].state \in {"removed", "none"}
      <4>1. v \in UnitIds
        BY <3>1 DEF Proven
      <4>. QED
        BY <1>2, <2>2, <3>1, <4>1 DEF Proven
    <3>. QED
      BY <1>2, <3>1 DEF BrokerMoves, Standing
  <2>4. BirthsOK'
    BY <1>2, <2>1, <2>2 DEF ReverseInv, BirthsOK
  <2>5. GateServes'
    BY <1>2, <2>1, <2>2 DEF GateServes
  <2>6. InventoryKnown'
    <3>1. UNCHANGED <<births, backup, jobs, attempts, principal, orphans>>
      BY <1>2 DEF Standing, serviceVars, tableVars
    <3>. QED
      BY <1>2, <1>3, <2>2, <3>1 DEF ReverseInv, InventoryKnown, Asked, Recorded, Known
  <2>7. BrokerKeeps
    BY <2>3, <2>4, <2>5, <2>6 DEF BrokerKeeps
  <2>. QED
    BY <1>2, <2>1, <2>7, SilentTurn
<1>. QED
  BY <1>4, <1>5

\* The tombstone goes after its acknowledgement was marked.
LEMMA ForgetStep ==
  ASSUME ReverseInv, BrokerInv', Standing, ForgetAcknowledged
  PROVE  ReverseStep
<1>. PICK u : u = gate.unit
  OBVIOUS
<1>. PICK r : r = gate.request
  OBVIOUS
<1>1. /\ u \in UnitIds /\ inventory[u].state = "removed" /\ inventory[u].acknowledged
      /\ inventory' = [inventory EXCEPT ![u] = NoUnit]
      /\ UNCHANGED <<highWater, births, runtime, requests>>
  BY InHand DEF ForgetAcknowledged, Drop, ReverseInv, GateServes
<1>2. backup = NULL => Recorded(inventory[u].sequence, u)
  BY <1>1 DEF ReverseInv, InventoryKnown
<1>3. CASE Sweeping
  <2>1. Goto("sweep", 0) /\ UNCHANGED replies
    BY <1>3 DEF ForgetAcknowledged
  <2>2. GateServes' /\ gate'.pc = "sweep" /\ gate'.request = gate.request
    BY <1>3, <2>1, GateGoes
  <2>3. BrokerKeeps
    BY <1>1, <1>2, <2>2, DropTurn
  <2>. QED
    BY <1>1, <2>1, <2>2, <2>3, SilentTurn
<1>4. CASE ~Sweeping
  <2>1. Finish(DoneReply)
    BY <1>4 DEF ForgetAcknowledged
  <2>2. GateServes' /\ gate'.pc \in {"idle", "down"}
    BY <2>1, GateRests DEF Finish
  <2>3. BrokerKeeps
    BY <1>1, <1>2, <2>2, DropTurn
  <2>4. Truthful(r, DoneReply)'
    BY DEF Truthful, DoneReply, NoReply
  <2>. QED
    BY <1>1, <2>1, <2>3, <2>4, FinishTurn
<1>. QED
  BY <1>3, <1>4

\* A sweep begins.
LEMMA SweepBeginsStep ==
  ASSUME ReverseInv, BrokerInv', Standing, Start \/ \E r \in requests : Page(r)
  PROVE  ReverseStep
<1>. PICK r : /\ BeginSweep(r) /\ r.op \in {"start", "page"}
              /\ r.op = "start" => r.caller = NULL
              /\ \/ r = StartRequest /\ requests' = requests
                 \/ r \in requests /\ requests' = requests \ {r}
  BY DEF Start, Page, Serve, StartRequest
<1>1. /\ gate' = [pc |-> "sweep", request |-> r, unit |-> 0]
      /\ UNCHANGED <<inventory, highWater, runtime, births, replies>>
  BY DEF BeginSweep
<1>2. GateServes'
  BY <1>1 DEF GateServes, Sweeping
<1>3. BrokerKeeps
  BY <1>1, <1>2, GateTurn
<1>. QED
  BY <1>1, <1>3, SilentTurn

\* A sweep takes a unit.
LEMMA SweepTakesStep ==
  ASSUME ReverseInv, BrokerInv', Standing, NEW u \in UnitIds,
         \/ SweepForget(u) \/ SweepDiscard(u) \/ SweepIntent(u)
         \/ SweepIncomplete(u) \/ SweepTerminate(u)
  PROVE  ReverseStep
<1>1. Sweeping
  BY DEF ReverseInv, GateServes, SweepForget, SweepDiscard, SweepIntent, SweepIncomplete,
     SweepTerminate
<1>2. CASE SweepForget(u) \/ SweepIntent(u) \/ SweepTerminate(u)
  <2>. PICK pc : /\ Goto(pc, u)
                 /\ pc \in {"forget", "created", "runtime", "kill", "empty", "remove"}
                 /\ pc = "forget" => inventory[u].acknowledged
                 /\ pc = "created" => runtime[u] # "absent"
    BY <1>2 DEF SweepForget, SweepIntent, SweepTerminate, Resumable, ResumeAt
  <2>1. UNCHANGED <<inventory, highWater, runtime, births, requests, replies>>
    BY <1>2 DEF SweepForget, SweepIntent, SweepTerminate
  <2>2. /\ GateServes' /\ gate'.pc = pc /\ gate'.unit = u
        /\ gate'.request = gate.request
    BY <1>1, <2>1, GateGoes
  <2>3. pc = "created" => <<inventory[u].sequence, u>> \in births
    BY DEF ReverseInv, BirthsOK
  <2>4. BrokerKeeps
    BY <2>1, <2>2, <2>3, GateTurn
  <2>. QED
    BY <2>1, <2>2, <2>4, SilentTurn
<1>3. CASE SweepDiscard(u)
  <2>1. /\ inventory[u].state = "reserved" /\ gate.pc = "sweep"
        /\ inventory' = [inventory EXCEPT ![u] = NoUnit]
        /\ UNCHANGED <<highWater, births, runtime, gate, requests, replies>>
    BY <1>3 DEF SweepDiscard, Drop
  <2>2. GateServes'
    BY <1>1, <2>1 DEF ReverseInv, GateServes, Sweeping
  <2>3. BrokerKeeps
    BY <2>1, <2>2, DropTurn
  <2>. QED
    BY <2>1, <2>3, SilentTurn
<1>4. CASE SweepIncomplete(u)
  <2>1. /\ UNCHANGED <<inventory, highWater, runtime, births, requests>>
        /\ \/ gate' = DownGate /\ UNCHANGED replies
           \/ Finish(ErrorReply)
    BY <1>4 DEF SweepIncomplete
  <2>2. GateServes' /\ gate'.request = StartRequest /\ gate'.pc \in {"idle", "down"}
    BY <2>1, GateRests DEF Finish
  <2>3. BrokerKeeps
    BY <2>1, <2>2, GateTurn
  <2>4. PICK r : r = gate.request
    OBVIOUS
  <2>5. Truthful(r, ErrorReply)'
    BY DEF Truthful, ErrorReply, NoReply
  <2>. QED
    BY <2>1, <2>2, <2>3, <2>4, <2>5, SilentTurn, FinishTurn
<1>. QED
  BY <1>2, <1>3, <1>4

\* A page tells of a tombstone, whose sequence is beyond the cursor and not beyond the
\* high water.
LEMMA PageTells ==
  ASSUME ReverseInv, NEW cursor
  PROVE  /\ PageReply(cursor).kind = "page"
         /\ PageOK(PageReply(cursor), cursor)
<1>. DEFINE first == {u \in Tombstones(cursor) :
                        \A v \in Tombstones(cursor) : inventory[u].sequence <= inventory[v].sequence}
<1>0. NoReply.unit = 0 /\ highWater \in Nat
  BY DEF NoReply, ReverseInv, BrokerInv, BrokerTypeOK
<1>1. CASE first = {}
  <2>1. PageReply(cursor) = [NoReply EXCEPT !.kind = "page", !.highWater = highWater]
    BY <1>1 DEF PageReply
  <2>2. /\ PageReply(cursor).kind = "page" /\ PageReply(cursor).highWater = highWater
        /\ PageReply(cursor).unit = 0
    BY <2>1 DEF NoReply
  <2>. QED
    BY <1>0, <2>2 DEF PageOK
<1>2. CASE first # {}
  <2>. DEFINE u == CHOOSE v \in first : TRUE
  <2>1. u \in first
    BY <1>2
  <2>2. /\ u \in UnitIds /\ inventory[u].state = "removed"
        /\ inventory[u].sequence > cursor
    BY <2>1 DEF Tombstones, Inventoried
  <2>3. PageReply(cursor) = [NoReply EXCEPT !.kind = "page", !.highWater = highWater,
                                            !.unit = u, !.sequence = inventory[u].sequence]
    BY <1>2 DEF PageReply
  <2>. HIDE DEF u
  <2>4. /\ PageReply(cursor).kind = "page" /\ PageReply(cursor).highWater = highWater
        /\ PageReply(cursor).unit = u /\ PageReply(cursor).sequence = inventory[u].sequence
    BY <2>3 DEF NoReply
  <2>5. inventory[u].sequence <= highWater
    BY <1>0, <2>2 DEF ReverseInv, BrokerInv, SequencesAgree
  <2>6. Proven(inventory[u].sequence, u)
    BY <2>2 DEF ReverseInv, BirthsOK, Proven
  <2>. QED
    BY <1>0, <2>2, <2>4, <2>5, <2>6 DEF PageOK
<1>. QED
  BY <1>1, <1>2

\* A sweep ends, and a page is read.
LEMMA SweepDoneStep ==
  ASSUME ReverseInv, BrokerInv', Standing, SweepDone
  PROVE  ReverseStep
<1>. PICK r : r = gate.request
  OBVIOUS
<1>. PICK reply : reply = PageReply(r.sequence)
  OBVIOUS
<1>1. /\ UNCHANGED <<inventory, highWater, runtime, births, requests>>
      /\ Finish(reply) /\ gate.pc = "sweep"
  BY DEF SweepDone
<1>2. GateServes' /\ gate'.pc \in {"idle", "down"}
  BY <1>1, GateRests DEF Finish
<1>3. BrokerKeeps
  BY <1>1, <1>2, GateTurn
<1>4. reply.kind = "page" /\ PageOK(reply, r.sequence)
  BY PageTells
<1>5. r.caller # NULL => r.op = "page"
  BY <1>1 DEF ReverseInv, GateServes, Sweeping
<1>6. Truthful(r, reply)'
  BY <1>1, <1>4, <1>5 DEF Truthful, PageOK, Proven, Ahead, Standing, tableVars
<1>. QED
  BY <1>1, <1>3, <1>6, FinishTurn

\* What goes wrong in the broker.
LEMMA BrokerFaultSteps ==
  ASSUME ReverseInv, BrokerInv', Standing, BrokerFaultStep
  PROVE  ReverseStep
<1>1. CASE Fail
  <2>1. /\ UNCHANGED <<inventory, highWater, runtime, births, requests>>
        /\ \/ gate' = DownGate /\ UNCHANGED replies
           \/ Finish(ErrorReply)
    BY <1>1 DEF Fail
  <2>2. GateServes' /\ gate'.request = StartRequest /\ gate'.pc \in {"idle", "down"}
    BY <2>1, GateRests DEF Finish
  <2>3. BrokerKeeps
    BY <2>1, <2>2, GateTurn
  <2>4. PICK r : r = gate.request
    OBVIOUS
  <2>5. Truthful(r, ErrorReply)'
    BY DEF Truthful, ErrorReply, NoReply
  <2>. QED
    BY <2>1, <2>2, <2>3, <2>4, <2>5, SilentTurn, FinishTurn
<1>2. ASSUME NEW r \in requests, FailAtOnce(r)
      PROVE  ReverseStep
  <2>1. /\ UNCHANGED <<inventory, highWater, runtime, births, gate>>
        /\ gate.pc = "idle" /\ requests' = requests \ {r} /\ Answer(r, ErrorReply)
    BY <1>2 DEF FailAtOnce, Serve
  <2>2. BrokerKeeps
    BY <2>1, GateStays, GateTurn
  <2>3. Truthful(r, ErrorReply)'
    BY DEF Truthful, ErrorReply, NoReply
  <2>. QED
    BY <2>1, <2>2, <2>3, AnswerTurn
<1>3. CASE Crash
  <2>1. /\ UNCHANGED <<inventory, highWater, runtime, births>>
        /\ gate' = DownGate /\ requests' = {}
        /\ replies' = [c \in Callers |-> IF Waiting(c) THEN ErrorReply ELSE replies[c]]
    BY <1>3 DEF Crash
  <2>2. GateServes' /\ gate'.request = StartRequest /\ gate'.pc \in {"idle", "down"}
    BY <2>1, GateRests
  <2>3. BrokerKeeps
    BY <2>1, <2>2, GateTurn
  <2>4. RequestsOK'
    BY <2>1, <2>2 DEF RequestsOK, RequestOK, StartRequest
  <2>5. ASSUME NEW w \in Workers, replies'[w] # replies[w]
        PROVE  ReplyOK(w)'
    <3>1. Waiting(w) /\ replies'[w] = ErrorReply /\ w # NULL
      BY <2>1, <2>5, ServiceAssumption, BrokerAssumption
    <3>2. worker[w].pc \in AwaitingSteps /\ UNCHANGED worker
      BY <3>1 DEF Waiting, ReverseInv, RequestsOK, RequestOK, Matches, Standing, serviceVars
    <3>. QED
      BY <3>1, <3>2 DEF ReplyOK, ErrorReply, NoReply
  <2>. QED
    BY <2>3, <2>4, <2>5, BrokerTurn
<1>4. ASSUME NEW u \in UnitIds, UnitExits(u)
      PROVE  ReverseStep
  <2>1. /\ UNCHANGED <<inventory, highWater, births, gate, requests, replies>>
        /\ runtime[u] = "running" /\ runtime' = [runtime EXCEPT ![u] = "exited"]
    BY <1>4 DEF UnitExits
  <2>2. \A v \in UnitIds : runtime'[v] # "absent" => runtime[v] # "absent"
    BY <2>1 DEF ReverseInv, BrokerInv, BrokerTypeOK
  <2>3. gate'.pc = "created" => <<inventory[gate'.unit].sequence, gate'.unit>> \in births
    BY <2>1, InHand
  <2>4. BrokerKeeps
    BY <2>1, <2>2, <2>3, GateStays, GateTurn
  <2>. QED
    BY <2>1, <2>4, SilentTurn
<1>. QED
  BY <1>1, <1>2, <1>3, <1>4 DEF BrokerFaultStep

\* All steps of the broker.
LEMMA BrokerSteps ==
  ASSUME ReverseInv, BrokerRuns \/ BrokerFails
  PROVE  ReverseStep
<1>1. BrokerInv' /\ Standing
  BY BrokerOwn DEF BrokerRuns, BrokerFails, Standing
<1>2. CASE BrokerFaultStep
  BY <1>1, <1>2, BrokerFaultSteps
<1>3. CASE ServeRequest
  BY <1>1, <1>3, AtOnceStep, ReserveStep, TerminateStep, AcknowledgeStepOfBroker,
     SweepBeginsStep DEF ServeRequest, AnsweredAtOnce
<1>4. CASE Start \/ Sweep
  BY <1>1, <1>4, SweepBeginsStep, SweepTakesStep, SweepDoneStep DEF Sweep
<1>5. CASE \/ WriteIntent \/ RuntimeCreate \/ WriteCreated
           \/ Kill \/ WriteExit \/ WriteEmpty \/ Remove \/ WriteRemoved \/ ForgetAcknowledged
  BY <1>1, <1>5, CreateSteps, RuntimeSteps, ConfirmSteps, ForgetStep
<1>. QED
  BY <1>2, <1>3, <1>4, <1>5 DEF BrokerRuns, BrokerFails, BrokerStep

----------------------------------------------------------------------------
(* The invariant and what follows from it.                                 *)

\* A service that never ran satisfies the invariant.
LEMMA ServiceStarts ==
  ASSUME ServiceInit
  PROVE  ReverseInv
<1>1. BrokerInv /\ TableInv
  BY InitKeeps, InitInv DEF ServiceInit
<1>2. /\ \A s \in CreateSequences : attempts[s] = NoAttempt /\ orphans[s] = NoOrphanProof
      /\ \A u \in UnitIds : inventory[u] = NoUnit /\ runtime[u] = "absent"
      /\ births = {} /\ requests = {} /\ gate = DownGate /\ backup = NULL
      /\ highWater = 0 /\ worker = [w \in Workers |-> NewWorker]
      /\ \A w \in Workers : replies[w] = NoReply
      /\ client = [j \in Jobs |-> [pc |-> "new", job |-> NULL]]
      /\ sources = {} /\ results = {} /\ faults = 0
  BY ServiceAssumption DEF ServiceInit, BrokerInit, TableInit
<1>3. \A w \in Workers : /\ worker[w] = NewWorker
                         /\ worker[w].pc = "new" /\ worker[w].phase = "reconcile"
  BY <1>2 DEF NewWorker
<1>4. ServiceTypeOK
  <2>1. NewWorker \in WorkerState
    <3>1. NoReply \in Reply /\ 0 \in 0 .. MaxSequence /\ 0 \in 0 .. MaxUnits
      BY Replies, IdentityAssumption
    <3>2. "new" \in WorkerSteps /\ "none" \in Verdicts
      BY DEF WorkerSteps, Verdicts
    <3>. QED
      BY <3>1, <3>2 DEF NewWorker, WorkerState
  <2>2. faults \in 0 .. MaxServiceFaults
    BY <1>2, ServiceAssumption
  <2>. QED
    BY <1>2, <2>1, <2>2 DEF ServiceTypeOK
<1>5. BirthsOK /\ GateServes /\ InventoryKnown
  BY <1>2 DEF BirthsOK, GateServes, InventoryKnown, NoUnit, DownGate, IdleGate, StartRequest,
     Sweeping
<1>6. ProofsTrue
  BY <1>2 DEF ProofsTrue, NoAttempt, NoOrphanProof
<1>7. RequestsOK
  BY <1>2 DEF RequestsOK, RequestOK, DownGate, IdleGate, StartRequest
<1>8. \A w \in Workers : ReplyOK(w)
  BY <1>2 DEF ReplyOK, NoReply
<1>9. \A w \in Workers : WorkerOK(w)
  BY <1>3 DEF WorkerOK, Past, Alive, ExecutingSteps
<1>10. ClientsOK /\ BackupOK
  BY <1>2 DEF ClientsOK, BackupOK
<1>. QED
  BY <1>1, <1>4, <1>5, <1>6, <1>7, <1>8, <1>9, <1>10 DEF ReverseInv

\* A step of nobody.
LEMMA Stutters ==
  ASSUME ReverseInv, UNCHANGED vars
  PROVE  ReverseStep
<1>1. /\ UNCHANGED <<inventory, highWater, runtime, ready, staged, gate, requests, replies,
                     brokerFaults, births>>
      /\ UNCHANGED <<jobs, attempts, principal, orphans>>
      /\ UNCHANGED <<worker, client, sources, results, faults, backup>>
  BY DEF vars, brokerVars, tableVars, serviceVars
<1>2. BrokerInv'
  BY <1>1, NextKeeps DEF ReverseInv, brokerVars
<1>3. TableInv' /\ TableMoves
  BY <1>1, TableStays DEF NoTable, tableVars
<1>4. ServiceTypeOK' /\ ClientsOK' /\ UnitsStay
  BY <1>1 DEF ReverseInv, ServiceTypeOK, ClientsOK, UnitsStay
<1>. QED
  BY <1>1, <1>2, <1>3, <1>4, StandStill

\* Every step keeps the invariant, and claims nothing that the broker has seen.
LEMMA ServiceSteps ==
  ASSUME ReverseInv, [ServiceNext]_vars
  PROVE  ReverseStep
<1>1. CASE UNCHANGED vars
  BY <1>1, Stutters
<1>2. CASE \E j \in Jobs : ClientStep(j) \/ Cancel(j)
  BY <1>2, ClientSteps
<1>3. CASE \E w \in Workers : WorkerStep(w) \/ Beat(w)
  BY <1>3, WorkersTurn
<1>4. CASE BrokerRuns \/ BrokerFails
  BY <1>4, BrokerSteps
<1>5. CASE TimeStep
  BY <1>5, TimeSteps
<1>6. CASE FaultStep
  BY <1>6, ClientSteps, WorkersTurn, BackupStep, RestoreStep DEF FaultStep
<1>. QED
  BY <1>1, <1>2, <1>3, <1>4, <1>5, <1>6 DEF ServiceNext

\* The inductive invariant holds in every behaviour of the reverse queue.
LEMMA ReverseInvariant == ServiceSpec => []ReverseInv
<1>1. ServiceInit => ReverseInv
  BY ServiceStarts
<1>2. ReverseInv /\ [ServiceNext]_vars => ReverseInv'
  BY ServiceSteps DEF ReverseStep
<1>. QED
  BY <1>1, <1>2, PTL DEF ServiceSpec

\* Type correctness of the whole: the rows of the reverse queue, the broker's inventory, the
\* workers, the submissions and the store (persistence/reversion_jobs/models.py,
\* reversion_jobs/worker_execution.py).
THEOREM ReverseQueueStaysTyped == ServiceSpec => [](TableTypeOK /\ BrokerTypeOK /\ ServiceTypeOK)
<1>1. ReverseInv => TableTypeOK /\ BrokerTypeOK /\ ServiceTypeOK
  BY DEF ReverseInv, TableInv, BrokerInv
<1>. QED
  BY <1>1, ReverseInvariant, PTL

\* Whatever crashes, lapses, is repeated, abandoned or served late, a running unit works for
\* the attempt that its job runs now, the broker keeps a unit until the table has its proof,
\* and a proof in the table is of a unit that is gone (reversion_jobs/worker_maintenance.py,
\* reversion_jobs/reconciliation.py).
THEOREM UnitsStayAccounted == ServiceSpec => []UnitsAccounted
<1>1. ASSUME ReverseInv
      PROVE  UnitsAccounted
  <2>1. /\ inventory \in [UnitIds -> Unit] /\ runtime \in [UnitIds -> RuntimeStates]
        /\ births \subseteq CreateSequences \X UnitIds
        /\ DOMAIN attempts = CreateSequences
        /\ \A u \in UnitIds : RowAgrees(u)
        /\ OneUnitPerSequence /\ UnprovenStillRuns
    BY <1>1 DEF ReverseInv, BrokerInv, BrokerTypeOK, TableInv, TableTypeOK, SequencesAgree
  <2>2. LiveUnitIsCurrent
    <3>. SUFFICES ASSUME backup = NULL, NEW u \in UnitIds, runtime[u] = "running",
                         NEW s, s = inventory[u].sequence
                  PROVE  /\ s \in Known
                         /\ jobs[attempts[s].job].state = "running"
                         /\ jobs[attempts[s].job].current = s
      BY <2>1 DEF LiveUnitIsCurrent
    <3>1. inventory[u].state \in {"create_intent", "created"} /\ <<s, u>> \in births
      BY <1>1, <2>1 DEF RowAgrees, ReverseInv, BirthsOK, Unit, UnitStates
    <3>2. s \in Known /\ attempts[s].intent
      BY <1>1, <3>1 DEF ReverseInv, InventoryKnown, Asked
    <3>3. attempts[s].proof = 0
      <4>. SUFFICES ASSUME attempts[s].proof # 0
                    PROVE  FALSE
        OBVIOUS
      <4>1. Proven(s, attempts[s].proof)
        BY <1>1, <2>1, <3>1 DEF ReverseInv, ProofsTrue
      <4>2. attempts[s].proof = u
        BY <2>1, <3>1, <4>1 DEF Proven, OneUnitPerSequence
      <4>. QED
        BY <3>1, <4>1, <4>2 DEF Proven
    <3>. QED
      BY <2>1, <3>2, <3>3 DEF UnprovenStillRuns
  <2>3. ProofNeverLost
    BY <1>1, <2>1 DEF ProofNeverLost, ReverseInv, InventoryKnown, Recorded
  <2>4. ProofGenuine
    <3>1. ASSUME NEW s, NEW u, Proven(s, u)
          PROVE  <<s, u>> \in births /\ runtime[u] = "absent"
      <4>1. u \in UnitIds /\ inventory[u].state \in {"removed", "none"}
        BY <2>1, <3>1 DEF Proven
      <4>. QED
        BY <2>1, <3>1, <4>1 DEF Proven, RowAgrees
    <3>. QED
      BY <1>1, <2>1, <3>1 DEF ProofGenuine, ReverseInv, ProofsTrue
  <2>. QED
    BY <2>2, <2>3, <2>4 DEF UnitsAccounted
<1>. QED
  BY <1>1, ReverseInvariant, PTL

\* After a restoration too, a claim draws a create sequence that the broker has not seen,
\* because a worker claims only after it has recorded a page of the broker's tombstones and
\* high water (record_reconciliation_page, reversion_jobs/worker.py).
THEOREM ClaimsStayFresh == ServiceSpec => FreshClaim
<1>1. ReverseInv /\ [ServiceNext]_vars => [ClaimsFresh]_vars
  BY ServiceSteps DEF ReverseStep
<1>. QED
  BY <1>1, ReverseInvariant, PTL DEF ServiceSpec, FreshClaim

\* With every worker, fault and restoration around it, the table keeps its attempts fenced:
\* rows load, credentials and units are bound once, and an attempt whose termination is not
\* proved keeps its job (persistence/reversion_jobs/repository.py).
THEOREM ServedAttemptsStayFenced == ServiceSpec => []AttemptsFenced
<1>1. ReverseInv => AttemptsFenced
  BY DEF ReverseInv, TableInv, AttemptsFenced
<1>. QED
  BY <1>1, ReverseInvariant, PTL

\* With every caller around it, the broker leaves nothing in the runtime without a row that a
\* sweep will terminate, and a sequence names one unit (broker/service.py).
THEOREM ServedUnitsStayTraced == ServiceSpec => []UnitsTraced
<1>1. ASSUME BrokerInv
      PROVE  UnitsTraced
  <2>1. \A u \in UnitIds : inventory[u].state \in UnitStates
    BY <1>1 DEF BrokerInv, BrokerTypeOK, Unit
  <2>2. NoOrphan
    BY <1>1, <2>1 DEF BrokerInv, RowAgrees, NoOrphan, UnitStates
  <2>. QED
    BY <1>1, <2>2 DEF UnitsTraced, BrokerInv, SequencesAgree
<1>2. ReverseInv => BrokerInv
  BY DEF ReverseInv
<1>. QED
  BY <1>1, <1>2, ReverseInvariant, PTL

----------------------------------------------------------------------------
(* The objects in the store.                                               *)

\* No worker process dies in the middle of anything.
NoWorkerDies == "crash" \notin Events

\* No put of a source fails, or no two submissions are about one job.
UploadsApart ==
    \/ "storage" \notin Events
    \/ \A j, k \in Jobs : KeyOf[j] # NULL /\ KeyOf[j] = KeyOf[k] /\ UserOf[j] = UserOf[k] => j = k

\* Where a result may be that nobody refers to.
HoldingSteps == {"check", "succeed", "lookup", "undo"}

\* Where a success of the attempt may be known, or is about to be.
GrantedSteps == {"lookup", "acknowledge", "packed"}

\* The attempts of a job have numbers of their own, which the job has drawn, and so have
\* the results.
NumbersApart ==
    /\ \A s \in Known : attempts[s].number <= jobs[attempts[s].job].attempt
    /\ \A s, t \in Known :
          attempts[s].job = attempts[t].job /\ attempts[s].number = attempts[t].number => s = t
    /\ \A r \in results : r[2] <= jobs[r[1]].attempt

\* A row that is new or cleaned.
RowsAge ==
    \A j \in Jobs :
        /\ jobs[j].state = "none" => ~jobs[j].sourceReady
        /\ jobs[j].cleaned => jobs[j].state = "expired"

\* Worker w has put r, and has not decided what becomes of it.
Holds(w, r) == worker[w].pc \in HoldingSteps /\ ResultKey(w) = r

\* Nothing of the job is left, but what is held.
Gone(j) == \A r \in results : r[1] = j => \E w \in Workers : Holds(w, r)

\* The job of w has its success from the attempt of w.
Granted(w) ==
    jobs[JobOf(w)].state = "succeeded" /\ jobs[JobOf(w)].result = attempts[worker[w].seq].number

\* What the place of w in its attempt implies of the result.
HolderOK(w) ==
    LET me == worker[w]
    IN  /\ me.pc \in ExecutingSteps => attempts[me.seq].worker = w
        /\ me.pc \in HoldingSteps \ {"undo"} /\ jobs[JobOf(w)].state # "expired" =>
              ResultKey(w) \in results
        /\ me.pc \in ExecutingSteps \ GrantedSteps => ~Granted(w)
        /\ me.pc \in {"clean", "cleaned"} => jobs[me.job].state = "expired"
        /\ NoWorkerDies /\ me.pc = "cleaned" => Gone(me.job)

ResultsInv ==
    /\ NumbersApart
    /\ RowsAge
    /\ ReverseResultAvailable
    /\ \A w \in Workers : HolderOK(w)
    /\ NoWorkerDies => \A j \in Jobs : jobs[j].cleaned => Gone(j)

----------------------------------------------------------------------------
(* What a step means to the objects.                                       *)

\* A step of w on the row of job j: its success is granted to w, whose result is there, its
\* cleanup is completed by w, and an end is an end.
JobMoves(w, j) ==
    LET old == jobs[j]  new == jobs'[j]
    IN  /\ old.attempt <= new.attempt
        /\ new.state = "none" => old.state = "none" /\ ~new.sourceReady
        /\ old.state = "expired" => new.state = "expired"
        /\ new.state = "succeeded" =>
              \/ old.state = "succeeded" /\ new.result = old.result
              \/ /\ w \in Workers /\ worker[w].pc \in ExecutingSteps /\ JobOf(w) = j
                 /\ new.result = attempts[worker[w].seq].number
                 /\ ResultKey(w) \in results'
        /\ new.cleaned =>
              /\ new.state = "expired"
              /\ \/ old.cleaned
                 \/ w \in Workers /\ worker[w].pc = "cleaned" /\ worker[w].job = j

\* Attempts stay what they are, and a new one has a new number.
AttemptsMove ==
    /\ \A s \in Known :
          /\ s \in Known'
          /\ attempts'[s].job = attempts[s].job
          /\ attempts'[s].number = attempts[s].number
          /\ attempts'[s].worker = attempts[s].worker
    /\ \A s \in Known' \ Known :
          /\ attempts'[s].number = jobs'[attempts'[s].job].attempt
          /\ jobs[attempts'[s].job].attempt < attempts'[s].number
    /\ \A s, t \in Known' \ Known : s = t

\* A step of w on the results: it puts its own and holds it, and deletes its own or those
\* of an expired job.
ResultsMove(w) ==
    /\ \A r \in results' \ results :
          w \in Workers /\ worker[w].pc \in ExecutingSteps /\ ResultKey(w) = r /\ Holds(w, r)'
    /\ \A r \in results \ results' :
          \/ w \in Workers /\ worker[w].pc \in ExecutingSteps \ GrantedSteps /\ ResultKey(w) = r
          \/ jobs[r[1]].state = "expired"

\* Worker w, or nobody, lets go of a result only if its job is not over.
LetsGo(w) ==
    NoWorkerDies /\ w \in Workers => \A r \in results' : Holds(w, r) =>
        Holds(w, r)' \/ jobs'[r[1]].state # "expired"

\* A step of w, or of nobody.
ObjectsMove(w) ==
    /\ \A j \in Jobs : JobMoves(w, j)
    /\ AttemptsMove
    /\ ResultsMove(w)
    /\ LetsGo(w)
    /\ \A v \in Workers \ {w} : worker'[v] = worker[v]
    /\ w \in Workers => HolderOK(w)'

\* The rows of attempts, of the jobs they are of, and of results, are of their kinds.
ObjectKinds ==
    /\ \A s \in Known : /\ s \in CreateSequences
                        /\ attempts[s].job \in Jobs /\ attempts[s].number \in Nat
    /\ \A j \in Jobs : jobs[j].attempt \in Nat /\ jobs[j].result \in Nat
    /\ \A r \in results : r[1] \in Jobs /\ r[2] \in Nat /\ r = <<r[1], r[2]>>
    /\ DOMAIN jobs = Jobs
    /\ \A w \in Workers : worker[w].pc \in ExecutingSteps => worker[w].seq \in Known

\* They are of their kinds in every state of the invariant.
LEMMA ObjectTypes ==
  ASSUME ReverseInv
  PROVE  ObjectKinds
<1>1. \A s \in Known : s \in CreateSequences /\ attempts[s] \in Attempt /\ attempts[s].job # NULL
  BY KnownFacts DEF ReverseInv, Known
<1>2. jobs \in [Jobs -> Job] /\ results \subseteq Jobs \X CreateSequences /\ MaxSequence \in Nat
  BY Bounds DEF ReverseInv, TableInv, TableTypeOK, ServiceTypeOK
<1>3. \A w \in Workers : worker[w].pc \in ExecutingSteps => worker[w].seq \in Known
  BY DEF ReverseInv, WorkerOK
<1>. QED
  BY <1>1, <1>2, <1>3 DEF Attempt, Job, CreateSequences, ObjectKinds

\* And after a step that keeps it.
LEMMA ObjectTypesNext == ReverseInv' => ObjectKinds'
<1>1. ReverseInv => ObjectKinds
  BY ObjectTypes
<1>. QED
  BY <1>1, PTL

\* Workers that execute have attempts, and results, of their own.
LEMMA KeysApart ==
  ASSUME ReverseInv, NumbersApart, NEW v \in Workers, NEW w \in Workers, v # w,
         worker[v].pc \in ExecutingSteps, worker[w].pc \in ExecutingSteps,
         HolderOK(v), HolderOK(w)
  PROVE  ResultKey(v) # ResultKey(w)
<1>1. worker[v].seq \in Known /\ worker[w].seq \in Known /\ worker[v].seq # worker[w].seq
  BY ObjectTypes DEF HolderOK, ObjectKinds
<1>2. \/ attempts[worker[v].seq].job # attempts[worker[w].seq].job
      \/ attempts[worker[v].seq].number # attempts[worker[w].seq].number
  BY <1>1 DEF NumbersApart
<1>. QED
  BY <1>2 DEF ResultKey, JobOf

\* A worker that the step is not about has the attempt and the result that it had.
LEMMA BystanderKeeps ==
  ASSUME ReverseInv, NEW w, ObjectsMove(w), NEW v \in Workers, v # w,
         worker[v].pc \in ExecutingSteps
  PROVE  /\ worker'[v] = worker[v]
         /\ JobOf(v)' = JobOf(v) /\ ResultKey(v)' = ResultKey(v)
         /\ attempts'[worker[v].seq].number = attempts[worker[v].seq].number
         /\ attempts'[worker[v].seq].worker = attempts[worker[v].seq].worker
         /\ JobOf(v) \in Jobs
<1>1. worker'[v] = worker[v] /\ worker[v].seq \in Known
  BY ObjectTypes DEF ObjectsMove, ObjectKinds
<1>. QED
  BY <1>1, ObjectTypes DEF ObjectsMove, AttemptsMove, JobOf, ResultKey, ObjectKinds

\* The numbers stay apart.
LEMMA NumbersStay ==
  ASSUME ReverseInv, ReverseInv', ResultsInv, NEW w, ObjectsMove(w)
  PROVE  NumbersApart'
<1>1. /\ \A s \in Known' : attempts'[s].job \in Jobs /\ attempts'[s].number \in Nat
      /\ \A j \in Jobs : jobs'[j].attempt \in Nat
  BY ObjectTypesNext DEF ObjectKinds
<1>2. /\ \A s \in Known : attempts[s].job \in Jobs /\ attempts[s].number \in Nat
      /\ \A j \in Jobs : jobs[j].attempt \in Nat /\ jobs[j].attempt <= jobs'[j].attempt
      /\ \A r \in results : r[1] \in Jobs /\ r[2] \in Nat
  BY ObjectTypes DEF ObjectsMove, JobMoves, ObjectKinds
<1>3. AttemptsMove /\ NumbersApart
  BY DEF ObjectsMove, ResultsInv
<1>4. ASSUME NEW s \in Known'
      PROVE  attempts'[s].number <= jobs'[attempts'[s].job].attempt
  <2>1. CASE s \in Known
    <3>1. /\ attempts'[s].job = attempts[s].job /\ attempts'[s].number = attempts[s].number
          /\ attempts[s].number <= jobs[attempts[s].job].attempt
      BY <1>3, <2>1 DEF AttemptsMove, NumbersApart
    <3>2. /\ attempts[s].number \in Nat
          /\ jobs[attempts[s].job].attempt \in Nat /\ jobs'[attempts[s].job].attempt \in Nat
          /\ jobs[attempts[s].job].attempt <= jobs'[attempts[s].job].attempt
      BY <1>1, <1>2, <2>1
    <3>. QED
      BY <3>1, <3>2
  <2>2. CASE s \notin Known
    BY <1>1, <1>3, <1>4, <2>2 DEF AttemptsMove
  <2>. QED
    BY <2>1, <2>2
<1>5. ASSUME NEW s \in Known', NEW t \in Known, s \notin Known,
             attempts'[s].job = attempts[t].job
      PROVE  attempts'[s].number # attempts[t].number
  <2>1. attempts[t].number <= jobs[attempts'[s].job].attempt
    BY <1>3, <1>5 DEF NumbersApart
  <2>2. jobs[attempts'[s].job].attempt < attempts'[s].number
    BY <1>3, <1>5 DEF AttemptsMove
  <2>. QED
    BY <1>1, <1>2, <1>5, <2>1, <2>2
<1>6. ASSUME NEW s \in Known', NEW t \in Known',
             attempts'[s].job = attempts'[t].job, attempts'[s].number = attempts'[t].number
      PROVE  s = t
  <2>1. CASE s \in Known /\ t \in Known
    BY <1>3, <1>6, <2>1 DEF AttemptsMove, NumbersApart
  <2>2. CASE s \notin Known /\ t \notin Known
    BY <1>3, <1>6, <2>2 DEF AttemptsMove
  <2>3. CASE s \in Known /\ t \notin Known
    BY <1>3, <1>5, <1>6, <2>3 DEF AttemptsMove
  <2>4. CASE s \notin Known /\ t \in Known
    BY <1>3, <1>5, <1>6, <2>4 DEF AttemptsMove
  <2>. QED
    BY <2>1, <2>2, <2>3, <2>4
<1>7. ASSUME NEW r \in results'
      PROVE  r[2] <= jobs'[r[1]].attempt
  <2>1. CASE r \in results
    <3>1. r[2] <= jobs[r[1]].attempt
      BY <1>3, <2>1 DEF NumbersApart
    <3>2. /\ r[2] \in Nat /\ jobs[r[1]].attempt \in Nat /\ jobs'[r[1]].attempt \in Nat
          /\ jobs[r[1]].attempt <= jobs'[r[1]].attempt
      BY <1>1, <1>2, <2>1
    <3>. QED
      BY <3>1, <3>2
  <2>2. CASE r \notin results
    <3>1. w \in Workers /\ worker[w].pc \in ExecutingSteps /\ ResultKey(w) = r
      BY <1>7, <2>2 DEF ObjectsMove, ResultsMove
    <3>2. worker[w].seq \in Known
      BY <3>1, ObjectTypes DEF ObjectKinds
    <3>3. r[1] = attempts[worker[w].seq].job /\ r[2] = attempts[worker[w].seq].number
      BY <3>1 DEF ResultKey, JobOf
    <3>4. r[2] <= jobs[r[1]].attempt
      BY <1>3, <3>2, <3>3 DEF NumbersApart
    <3>5. /\ r[2] \in Nat /\ jobs[r[1]].attempt \in Nat /\ jobs'[r[1]].attempt \in Nat
          /\ jobs[r[1]].attempt <= jobs'[r[1]].attempt
      BY <1>1, <1>2, <3>2, <3>3
    <3>. QED
      BY <3>4, <3>5
  <2>. QED
    BY <2>1, <2>2
<1>. QED
  BY <1>4, <1>6, <1>7 DEF NumbersApart

\* A success has its result.
LEMMA ResultsAvailable ==
  ASSUME ReverseInv, ReverseInv', ResultsInv, NEW w, ObjectsMove(w)
  PROVE  ReverseResultAvailable'
<1>. SUFFICES ASSUME NEW j \in Jobs, jobs'[j].state = "succeeded"
              PROVE  <<j, jobs'[j].result>> \in results'
  <2>1. DOMAIN jobs' = Jobs
    BY ObjectTypesNext DEF ObjectKinds
  <2>. QED
    BY <2>1 DEF ReverseResultAvailable
<1>1. JobMoves(w, j)
  BY DEF ObjectsMove
<1>2. CASE jobs[j].state = "succeeded" /\ jobs'[j].result = jobs[j].result
  <2>1. <<j, jobs[j].result>> \in results
    BY <1>2, ObjectTypes DEF ResultsInv, ReverseResultAvailable, ObjectKinds
  <2>2. SUFFICES ASSUME <<j, jobs[j].result>> \notin results'
                 PROVE  FALSE
    BY <1>2
  <2>3. /\ w \in Workers /\ worker[w].pc \in ExecutingSteps \ GrantedSteps
        /\ ResultKey(w) = <<j, jobs[j].result>>
    <3>1. jobs[<<j, jobs[j].result>>[1]].state # "expired"
      BY <1>2
    <3>. QED
      BY <2>1, <2>2, <3>1 DEF ObjectsMove, ResultsMove
  <2>4. Granted(w)
    BY <1>2, <2>3 DEF ResultKey, Granted
  <2>. QED
    BY <2>3, <2>4 DEF ResultsInv, HolderOK
<1>3. CASE /\ w \in Workers /\ JobOf(w) = j
           /\ jobs'[j].result = attempts[worker[w].seq].number
           /\ ResultKey(w) \in results'
  BY <1>3 DEF ResultKey
<1>. QED
  BY <1>1, <1>2, <1>3 DEF JobMoves

\* A job of which nothing is left stays so.
LEMMA GoneStays ==
  ASSUME ReverseInv, ReverseInv', ResultsInv, NEW w, ObjectsMove(w), NoWorkerDies,
         NEW j \in Jobs, Gone(j), jobs'[j].state = "expired"
  PROVE  Gone(j)'
<1>. SUFFICES ASSUME NEW r \in results', r[1] = j
              PROVE  \E v \in Workers : Holds(v, r)'
  BY DEF Gone
<1>1. CASE r \notin results
  BY <1>1 DEF ObjectsMove, ResultsMove
<1>2. CASE r \in results
  <2>1. PICK v \in Workers : Holds(v, r)
    BY <1>2 DEF Gone
  <2>2. CASE v = w
    BY <2>1, <2>2 DEF ObjectsMove, LetsGo
  <2>3. CASE v # w
    <3>1. worker[v].pc \in ExecutingSteps
      BY <2>1 DEF Holds, HoldingSteps, ExecutingSteps
    <3>2. Holds(v, r)'
      BY <2>1, <2>3, <3>1, BystanderKeeps DEF Holds
    <3>. QED
      BY <3>2
  <2>. QED
    BY <2>2, <2>3
<1>. QED
  BY <1>1, <1>2

\* A worker that the step is not about is where it was.
LEMMA BystanderOK ==
  ASSUME ReverseInv, ReverseInv', ResultsInv, NEW w, ObjectsMove(w),
         NEW v \in Workers, v # w
  PROVE  HolderOK(v)'
<1>1. worker'[v] = worker[v] /\ HolderOK(v) /\ NumbersApart
  BY DEF ObjectsMove, ResultsInv
<1>2. CASE worker[v].pc \in ExecutingSteps
  <2>1. /\ JobOf(v)' = JobOf(v) /\ ResultKey(v)' = ResultKey(v) /\ JobOf(v) \in Jobs
        /\ attempts'[worker[v].seq].number = attempts[worker[v].seq].number
        /\ attempts'[worker[v].seq].worker = attempts[worker[v].seq].worker
    BY <1>2, BystanderKeeps
  <2>2. w \in Workers /\ worker[w].pc \in ExecutingSteps => ResultKey(w) # ResultKey(v)
    BY <1>1, <1>2, KeysApart DEF ResultsInv
  <2>3. JobMoves(w, JobOf(v))
    BY <2>1 DEF ObjectsMove
  <2>4. ASSUME ResultKey(v) \in results, jobs[JobOf(v)].state # "expired"
        PROVE  ResultKey(v) \in results'
    <3>1. ResultKey(v)[1] = JobOf(v)
      BY DEF ResultKey
    <3>. QED
      BY <2>2, <2>4, <3>1 DEF ObjectsMove, ResultsMove
  <2>5. worker[v].pc \notin GrantedSteps => ~Granted(v)'
    <3>. SUFFICES ASSUME worker[v].pc \notin GrantedSteps, Granted(v)'
                  PROVE  FALSE
      OBVIOUS
    <3>1. ~Granted(v)
      BY <1>1, <1>2 DEF HolderOK
    <3>2. /\ jobs'[JobOf(v)].state = "succeeded"
          /\ jobs'[JobOf(v)].result = attempts[worker[v].seq].number
      BY <1>1, <2>1 DEF Granted
    <3>3. /\ w \in Workers /\ worker[w].pc \in ExecutingSteps /\ JobOf(w) = JobOf(v)
          /\ jobs'[JobOf(v)].result = attempts[worker[w].seq].number
      BY <2>3, <3>1, <3>2 DEF JobMoves, Granted
    <3>. QED
      BY <2>2, <3>2, <3>3 DEF ResultKey
  <2>6. worker[v].pc \notin {"clean", "cleaned"}
    BY <1>2 DEF ExecutingSteps
  <2>7. worker[v].pc \in HoldingSteps \ {"undo"} /\ jobs'[JobOf(v)].state # "expired" =>
           ResultKey(v) \in results'
    BY <1>1, <2>3, <2>4 DEF HolderOK, JobMoves
  <2>. QED
    BY <1>1, <2>1, <2>5, <2>6, <2>7 DEF HolderOK
<1>3. CASE worker[v].pc \notin ExecutingSteps
  <2>1. worker[v].pc \notin HoldingSteps
    BY <1>3 DEF ExecutingSteps, HoldingSteps
  <2>2. worker[v].pc \in {"clean", "cleaned"} =>
           worker[v].job \in Jobs /\ jobs'[worker[v].job].state = "expired"
    <3>1. worker[v].pc \in {"clean", "cleaned"} => worker[v].job \in Jobs
      BY DEF ReverseInv, WorkerOK
    <3>. QED
      BY <1>1, <3>1 DEF HolderOK, ObjectsMove, JobMoves
  <2>3. NoWorkerDies /\ worker[v].pc = "cleaned" => Gone(worker[v].job)'
    BY <1>1, <2>2, GoneStays DEF HolderOK
  <2>. QED
    BY <1>1, <1>3, <2>1, <2>2, <2>3 DEF HolderOK, Gone
<1>. QED
  BY <1>2, <1>3

\* A step of one worker, or of nobody, keeps the results.
LEMMA ResultsTurn ==
  ASSUME ReverseInv, ReverseInv', ResultsInv, NEW w, ObjectsMove(w)
  PROVE  ResultsInv'
<1>1. NumbersApart' /\ ReverseResultAvailable'
  BY NumbersStay, ResultsAvailable
<1>2. RowsAge'
  BY DEF ObjectsMove, JobMoves, ResultsInv, RowsAge
<1>3. ASSUME NEW v \in Workers
      PROVE  HolderOK(v)'
  <2>1. CASE v = w
    BY <2>1 DEF ObjectsMove
  <2>2. CASE v # w
    BY <2>2, BystanderOK
  <2>. QED
    BY <2>1, <2>2
<1>4. ASSUME NoWorkerDies, NEW j \in Jobs, jobs'[j].cleaned
      PROVE  Gone(j)'
  <2>1. jobs'[j].state = "expired"
    BY <1>4 DEF ObjectsMove, JobMoves
  <2>2. Gone(j)
    <3>1. CASE jobs[j].cleaned
      BY <1>4, <3>1 DEF ResultsInv
    <3>2. CASE w \in Workers /\ worker[w].pc = "cleaned" /\ worker[w].job = j
      BY <1>4, <3>2 DEF ResultsInv, HolderOK
    <3>. QED
      BY <1>4, <3>1, <3>2 DEF ObjectsMove, JobMoves
  <2>. QED
    BY <1>4, <2>1, <2>2, GoneStays
<1>. QED
  BY <1>1, <1>2, <1>3, <1>4 DEF ResultsInv, NoWorkerDies

----------------------------------------------------------------------------
(* Transactions that neither grant, claim nor clean.                       *)

\* A row that is not granted a success, claimed, made claimable or cleaned.
RowCalm(old, new) ==
    /\ new.attempt = old.attempt /\ new.sourceReady = old.sourceReady
    /\ new.state = "none" <=> old.state = "none"
    /\ old.state = "expired" => new.state = "expired"
    /\ new.state = "succeeded" => old.state = "succeeded" /\ new.result = old.result
    /\ new.state \in ActiveStates => old.state \in ActiveStates
    /\ new.cleaned = old.cleaned

\* The attempt is still of its job and its worker.
SameAttempt(old, new) ==
    new.job = old.job /\ new.number = old.number /\ new.worker = old.worker

Calm ==
    /\ \A j \in Jobs : RowCalm(jobs[j], jobs'[j])
    /\ Known' = Known
    /\ \A s \in Known : SameAttempt(attempts[s], attempts'[s])

\* A transaction that touches neither jobs nor attempts.
LEMMA CalmNothing ==
  ASSUME UNCHANGED <<jobs, attempts>>
  PROVE  Calm
BY DEF Calm, RowCalm, SameAttempt, Known

\* A transaction on one job.
LEMMA CalmJob ==
  ASSUME ReverseInv, NEW k \in Jobs, NEW row, RowCalm(jobs[k], row),
         jobs' = [jobs EXCEPT ![k] = row], UNCHANGED attempts
  PROVE  Calm
<1>1. DOMAIN jobs = Jobs
  BY ObjectTypes DEF ObjectKinds
<1>2. \A j \in Jobs : RowCalm(jobs[j], jobs'[j])
  BY <1>1 DEF RowCalm
<1>. QED
  BY <1>2 DEF Calm, SameAttempt, Known

\* A transaction on one attempt.
LEMMA CalmAttempt ==
  ASSUME ReverseInv, NEW s \in Known, NEW row, SameAttempt(attempts[s], row),
         attempts' = [attempts EXCEPT ![s] = row], UNCHANGED jobs
  PROVE  Calm
<1>1. DOMAIN attempts = CreateSequences /\ s \in CreateSequences
  BY ObjectTypes DEF ObjectKinds, ReverseInv, TableInv, TableTypeOK
<1>2. attempts'[s] = row /\ \A t \in CreateSequences \ {s} : attempts'[t] = attempts[t]
      /\ DOMAIN attempts' = CreateSequences
  BY <1>1
<1>3. Known' = Known
  BY <1>1, <1>2 DEF Known, SameAttempt
<1>4. \A t \in Known : SameAttempt(attempts[t], attempts'[t])
  BY <1>1, <1>2 DEF SameAttempt, Known
<1>. QED
  BY <1>3, <1>4 DEF Calm, RowCalm

\* The row of the attempt that a worker runs.
LEMMA OwnedRow ==
  ASSUME ReverseInv, NEW w, NEW s, Owned_current(w, s)
  PROVE  /\ s \in Known /\ attempts[s].job \in Jobs
         /\ jobs[attempts[s].job].state = "running"
         /\ attempts[s].number = jobs[attempts[s].job].attempt
<1>1. s \in Known /\ attempts[s].job \in Jobs
  BY ObjectTypes DEF ObjectKinds, Owned_current
<1>2. DOMAIN jobs = Jobs
  BY ObjectTypes DEF ObjectKinds
<1>. QED
  BY <1>1, <1>2 DEF Owned_current, ReverseInv, TableInv, RowsLoad

\* The transactions of a holder.
LEMMA HolderIsCalm ==
  ASSUME ReverseInv, NEW w, NEW s, NEW u,
         \/ heartbeat(w, s) \/ reserve_create_intent(w, s) \/ record_broker_unit(w, s, u)
         \/ record_active_termination_proof(w, s, u)
         \/ finish(w, s, "failed") \/ finish(w, s, "cancelled")
  PROVE  Calm
<1>1. Owned_current(w, s)
  BY DEF heartbeat, reserve_create_intent, record_broker_unit, record_active_termination_proof,
     finish
<1>2. /\ s \in Known /\ attempts[s].job \in Jobs /\ jobs[attempts[s].job].state = "running"
      /\ jobs[attempts[s].job] \in Job /\ attempts[s] \in Attempt
  BY <1>1, OwnedRow, KnownFacts DEF ReverseInv, TableInv, TableTypeOK
<1>3. CASE heartbeat(w, s)
  <2>. DEFINE row == [jobs[attempts[s].job] EXCEPT !.lapsed = FALSE]
  <2>1. RowCalm(jobs[attempts[s].job], row)
    BY <1>2 DEF RowCalm, Job
  <2>2. jobs' = [jobs EXCEPT ![attempts[s].job] = row] /\ UNCHANGED attempts
    BY <1>3 DEF heartbeat
  <2>. QED
    BY <1>2, <2>1, <2>2, CalmJob
<1>4. CASE reserve_create_intent(w, s)
  <2>. DEFINE row == [attempts[s] EXCEPT !.intent = TRUE]
  <2>1. SameAttempt(attempts[s], row)
    BY <1>2 DEF SameAttempt, Attempt
  <2>2. attempts' = [attempts EXCEPT ![s] = row] /\ UNCHANGED jobs
    BY <1>4 DEF reserve_create_intent
  <2>. QED
    BY <1>2, <2>1, <2>2, CalmAttempt
<1>5. CASE record_broker_unit(w, s, u)
  <2>. DEFINE row == [attempts[s] EXCEPT !.unit = u]
  <2>1. SameAttempt(attempts[s], row)
    BY <1>2 DEF SameAttempt, Attempt
  <2>2. attempts' = [attempts EXCEPT ![s] = row] /\ UNCHANGED jobs
    BY <1>5 DEF record_broker_unit
  <2>. QED
    BY <1>2, <2>1, <2>2, CalmAttempt
<1>6. CASE record_active_termination_proof(w, s, u)
  <2>. DEFINE row == [attempts[s] EXCEPT !.unit = u, !.proof = u]
  <2>1. SameAttempt(attempts[s], row)
    BY <1>2 DEF SameAttempt, Attempt
  <2>2. s \in DOMAIN attempts
    BY <1>2 DEF Known
  <2>3. attempts' = [attempts EXCEPT ![s] = row] /\ UNCHANGED jobs
    BY <1>6, <2>2 DEF record_active_termination_proof
  <2>. QED
    BY <1>2, <2>1, <2>3, CalmAttempt
<1>7. ASSUME NEW outcome \in {"failed", "cancelled"}, finish(w, s, outcome)
      PROVE  Calm
  <2>. DEFINE row == FinishedJob(jobs[attempts[s].job], outcome)
  <2>1. RowCalm(jobs[attempts[s].job], row)
    BY <1>2 DEF RowCalm, Job, FinishedJob, ClearedLease, ActiveStates
  <2>2. jobs' = [jobs EXCEPT ![attempts[s].job] = row] /\ UNCHANGED attempts
    BY <1>7 DEF finish
  <2>. QED
    BY <1>2, <2>1, <2>2, CalmJob
<1>. QED
  BY <1>3, <1>4, <1>5, <1>6, <1>7

\* The transactions of the recovery.
LEMMA RecoveryIsCalm ==
  ASSUME ReverseInv, NEW w, NEW s, NEW u,
         \/ claim_recovery(w, s) \/ record_recovery_termination_proof(w, s, u)
         \/ acknowledge_termination_proof(s, u)
         \/ s \in CreateSequences /\ RecoveryLapses(s)
  PROVE  Calm
<1>1. s \in Known
  <2>1. CASE s \in CreateSequences /\ RecoveryLapses(s)
    BY <2>1 DEF RecoveryLapses, ReverseInv, TableInv, NoAttempt
  <2>. QED
    BY <2>1 DEF claim_recovery, Recoverable, record_recovery_termination_proof, RecoveryHeld,
       acknowledge_termination_proof
<1>2. attempts[s] \in Attempt /\ s \in DOMAIN attempts
  BY <1>1, KnownFacts DEF ReverseInv, Known
<1>3. \E row : /\ SameAttempt(attempts[s], row)
               /\ attempts' = [attempts EXCEPT ![s] = row] /\ UNCHANGED jobs
  <2>1. CASE claim_recovery(w, s)
    <3>. DEFINE row == [attempts[s] EXCEPT !.recovery = w, !.recLapsed = FALSE]
    <3>1. SameAttempt(attempts[s], row)
      BY <1>2 DEF SameAttempt, Attempt
    <3>2. attempts' = [attempts EXCEPT ![s] = row] /\ UNCHANGED jobs
      BY <1>2, <2>1 DEF claim_recovery
    <3>. QED
      BY <3>1, <3>2
  <2>2. CASE record_recovery_termination_proof(w, s, u)
    <3>. DEFINE row == [attempts[s] EXCEPT !.unit = u, !.proof = u,
                                           !.recovery = NULL, !.recLapsed = FALSE]
    <3>1. SameAttempt(attempts[s], row)
      BY <1>2 DEF SameAttempt, Attempt
    <3>2. attempts' = [attempts EXCEPT ![s] = row] /\ UNCHANGED jobs
      BY <1>2, <2>2 DEF record_recovery_termination_proof
    <3>. QED
      BY <3>1, <3>2
  <2>3. CASE acknowledge_termination_proof(s, u)
    <3>. DEFINE row == [attempts[s] EXCEPT !.acked = TRUE]
    <3>1. SameAttempt(attempts[s], row)
      BY <1>2 DEF SameAttempt, Attempt
    <3>2. attempts' = [attempts EXCEPT ![s] = row] /\ UNCHANGED jobs
      BY <1>2, <2>3 DEF acknowledge_termination_proof
    <3>. QED
      BY <3>1, <3>2
  <2>4. CASE RecoveryLapses(s)
    <3>. DEFINE row == [attempts[s] EXCEPT !.recLapsed = TRUE]
    <3>1. SameAttempt(attempts[s], row)
      BY <1>2 DEF SameAttempt, Attempt
    <3>2. attempts' = [attempts EXCEPT ![s] = row] /\ UNCHANGED jobs
      BY <1>2, <2>4 DEF RecoveryLapses
    <3>. QED
      BY <3>1, <3>2
  <2>. QED
    BY <2>1, <2>2, <2>3, <2>4
<1>. QED
  BY <1>1, <1>3, CalmAttempt

\* Jobs and attempts that are given back.
LEMMA RequeueIsCalm ==
  ASSUME ReverseInv, NEW returned, NEW failed, recover_expired_leases(returned, failed)
  PROVE  Calm
<1>1. jobs \in [Jobs -> Job] /\ attempts \in [CreateSequences -> Attempt]
  BY DEF ReverseInv, TableInv, TableTypeOK
<1>2. ASSUME NEW j \in Jobs
      PROVE  RowCalm(jobs[j], jobs'[j])
  <2>1. jobs[j] \in Job
    BY <1>1
  <2>2. CASE j \in returned
    <3>1. jobs[j].state = "running"
      BY <2>2 DEF recover_expired_leases, Returnable
    <3>. DEFINE J(k) == CASE k \in returned -> RecoveredJob(jobs[k])
                         [] k \in failed -> [jobs[k] EXCEPT !.state = "failed", !.error = TRUE]
                         [] OTHER -> jobs[k]
    <3>2. jobs' = [k \in Jobs |-> J(k)]
      BY Zenon DEF recover_expired_leases
    <3>3. J(j) = RecoveredJob(jobs[j])
      <4>1. j \notin failed
        BY <3>1 DEF recover_expired_leases, Incomplete
      <4>. QED
        BY <2>2, <4>1
    <3>4. jobs'[j] = RecoveredJob(jobs[j])
      BY <3>2, <3>3
    <3>. QED
      BY <2>1, <3>1, <3>4 DEF RecoveredJob, ClearedLease, RowCalm, Job, ActiveStates
  <2>3. CASE j \notin returned /\ j \in failed
    <3>1. /\ jobs[j].state = "queued"
          /\ jobs'[j] = [jobs[j] EXCEPT !.state = "failed", !.error = TRUE]
      BY <2>3 DEF recover_expired_leases, Incomplete
    <3>2. /\ jobs'[j].state = "failed" /\ jobs'[j].attempt = jobs[j].attempt
          /\ jobs'[j].sourceReady = jobs[j].sourceReady /\ jobs'[j].cleaned = jobs[j].cleaned
      BY <2>1, <3>1 DEF Job
    <3>. QED
      BY <3>1, <3>2 DEF RowCalm, ActiveStates
  <2>4. CASE j \notin returned /\ j \notin failed
    <3>1. jobs'[j] = jobs[j]
      BY <2>4 DEF recover_expired_leases
    <3>. QED
      BY <3>1 DEF RowCalm
  <2>. QED
    BY <2>2, <2>3, <2>4
<1>3. /\ DOMAIN attempts' = CreateSequences
      /\ \A s \in CreateSequences :
            \/ attempts'[s] = attempts[s]
            \/ attempts'[s] = [attempts[s] EXCEPT !.recovery = NULL, !.recLapsed = FALSE]
  BY DEF recover_expired_leases
<1>4. \A s \in CreateSequences : SameAttempt(attempts[s], attempts'[s])
  BY <1>1, <1>3 DEF SameAttempt, Attempt
<1>5. Known' = Known /\ Known \subseteq CreateSequences
  BY <1>1, <1>3, <1>4 DEF Known, SameAttempt
<1>. QED
  BY <1>2, <1>4, <1>5 DEF Calm

\* The transactions of the reconciliation.
LEMMA ReconciliationIsCalm ==
  ASSUME ReverseInv, NEW w, NEW c, NEW s, NEW u, NEW h,
         \/ begin_reconciliation(w) \/ complete_reconciliation(w) \/ ReconciliationLapses
         \/ record_reconciliation_page(w, c, s, u, h)
         \/ pending_reconciliation_acknowledgements(w)
         \/ mark_reconciliation_acknowledged(w, s, u)
  PROVE  Calm
<1>1. attempts \in [CreateSequences -> Attempt]
  BY DEF ReverseInv, TableInv, TableTypeOK
<1>2. CASE begin_reconciliation(w) \/ complete_reconciliation(w) \/ ReconciliationLapses
  BY <1>2, CalmNothing DEF begin_reconciliation, complete_reconciliation, ReconciliationLapses
<1>3. CASE record_reconciliation_page(w, c, s, u, h)
  <2>1. CASE u = 0 \/ s \notin Known
    BY <1>3, <2>1, CalmNothing DEF record_reconciliation_page, RetainTombstone
  <2>2. CASE u # 0 /\ s \in Known
    <3>. DEFINE row == [attempts[s] EXCEPT !.intent = TRUE, !.unit = u, !.proof = u,
                                           !.ackIntent = TRUE]
    <3>1. SameAttempt(attempts[s], row)
      BY <1>1, <2>2, ObjectTypes DEF ObjectKinds, SameAttempt, Attempt
    <3>2. attempts' = [attempts EXCEPT ![s] = row] /\ UNCHANGED jobs
      BY <1>3, <2>2 DEF record_reconciliation_page, RetainTombstone
    <3>. QED
      BY <2>2, <3>1, <3>2, CalmAttempt
  <2>. QED
    BY <2>1, <2>2
<1>4. CASE pending_reconciliation_acknowledgements(w)
  <2>1. /\ DOMAIN attempts' = CreateSequences /\ UNCHANGED jobs
        /\ \A t \in CreateSequences :
              \/ attempts'[t] = attempts[t]
              \/ attempts'[t] = [attempts[t] EXCEPT !.ackIntent = TRUE]
    BY <1>4 DEF pending_reconciliation_acknowledgements
  <2>2. \A t \in CreateSequences : SameAttempt(attempts[t], attempts'[t])
    BY <1>1, <2>1 DEF SameAttempt, Attempt
  <2>3. Known' = Known /\ Known \subseteq CreateSequences
    BY <1>1, <2>1, <2>2 DEF Known, SameAttempt
  <2>. QED
    BY <2>1, <2>2, <2>3 DEF Calm, RowCalm
<1>5. CASE mark_reconciliation_acknowledged(w, s, u)
  <2>1. CASE s \notin Known
    BY <1>5, <2>1, CalmNothing DEF mark_reconciliation_acknowledged
  <2>2. CASE s \in Known
    <3>. DEFINE row == [attempts[s] EXCEPT !.acked = TRUE]
    <3>1. SameAttempt(attempts[s], row)
      BY <1>1, <2>2, ObjectTypes DEF ObjectKinds, SameAttempt, Attempt
    <3>2. attempts' = [attempts EXCEPT ![s] = row] /\ UNCHANGED jobs
      BY <1>5, <2>2 DEF mark_reconciliation_acknowledged
    <3>. QED
      BY <2>2, <3>1, <3>2, CalmAttempt
  <2>. QED
    BY <2>1, <2>2
<1>. QED
  BY <1>2, <1>3, <1>4, <1>5

\* A cancellation, the end of a lease or of a retention, and the beginning of a cleanup.
LEMMA RowIsCalm ==
  ASSUME ReverseInv, NEW w, NEW j \in Jobs,
         \/ request_cancel(j) \/ expire_terminal(w, j) \/ LeaseLapses(j) \/ UploadGrowsOld(j)
         \/ RetentionEnds(j) \/ CleanupLapses(j)
  PROVE  Calm
<1>1. jobs[j] \in Job /\ j \in DOMAIN jobs
  BY DEF ReverseInv, TableInv, TableTypeOK
<1>2. UNCHANGED attempts
  BY DEF request_cancel, expire_terminal, LeaseLapses, UploadGrowsOld, RetentionEnds, CleanupLapses
<1>3. CASE request_cancel(j)
  <2>. DEFINE row == IF jobs[j].state = "queued"
                     THEN [jobs[j] EXCEPT !.state = "cancelled", !.cancel = FALSE]
                     ELSE [jobs[j] EXCEPT !.cancel = TRUE]
  <2>1. RowCalm(jobs[j], row)
    BY <1>1, <1>3 DEF request_cancel, RowCalm, Job, ActiveStates
  <2>2. jobs' = [jobs EXCEPT ![j] = row]
    BY <1>1, <1>3 DEF request_cancel
  <2>. QED
    BY <1>2, <2>1, <2>2, CalmJob
<1>4. CASE expire_terminal(w, j)
  <2>. DEFINE row == [jobs[j] EXCEPT !.state = "expired", !.result = 0, !.error = FALSE,
                                     !.cleaner = w, !.cleanLapsed = FALSE]
  <2>1. RowCalm(jobs[j], row)
    BY <1>1, <1>4 DEF expire_terminal, Expirable, RowCalm, Job, ActiveStates, OutcomeStates
  <2>2. jobs' = [jobs EXCEPT ![j] = row]
    BY <1>1, <1>4 DEF expire_terminal
  <2>. QED
    BY <1>2, <2>1, <2>2, CalmJob
<1>5. CASE LeaseLapses(j)
  <2>. DEFINE row == [jobs[j] EXCEPT !.lapsed = TRUE]
  <2>1. RowCalm(jobs[j], row)
    BY <1>1 DEF RowCalm, Job
  <2>2. jobs' = [jobs EXCEPT ![j] = row]
    BY <1>5 DEF LeaseLapses
  <2>. QED
    BY <1>2, <2>1, <2>2, CalmJob
<1>6. CASE UploadGrowsOld(j)
  <2>. DEFINE row == [jobs[j] EXCEPT !.stale = TRUE]
  <2>1. RowCalm(jobs[j], row)
    BY <1>1 DEF RowCalm, Job
  <2>2. jobs' = [jobs EXCEPT ![j] = row]
    BY <1>6 DEF UploadGrowsOld
  <2>. QED
    BY <1>2, <2>1, <2>2, CalmJob
<1>7. CASE RetentionEnds(j)
  <2>. DEFINE row == [jobs[j] EXCEPT !.due = TRUE]
  <2>1. RowCalm(jobs[j], row)
    BY <1>1 DEF RowCalm, Job
  <2>2. jobs' = [jobs EXCEPT ![j] = row]
    BY <1>7 DEF RetentionEnds
  <2>. QED
    BY <1>2, <2>1, <2>2, CalmJob
<1>8. CASE CleanupLapses(j)
  <2>. DEFINE row == [jobs[j] EXCEPT !.cleanLapsed = TRUE]
  <2>1. RowCalm(jobs[j], row)
    BY <1>1 DEF RowCalm, Job
  <2>2. jobs' = [jobs EXCEPT ![j] = row]
    BY <1>8 DEF CleanupLapses
  <2>. QED
    BY <1>2, <2>1, <2>2, CalmJob
<1>. QED
  BY <1>3, <1>4, <1>5, <1>6, <1>7, <1>8

\* A calm transaction is a move of anybody.
LEMMA CalmMoves ==
  ASSUME ReverseInv, ResultsInv, Calm, NEW w
  PROVE  AttemptsMove /\ \A j \in Jobs : JobMoves(w, j)
<1>1. AttemptsMove
  BY DEF Calm, SameAttempt, AttemptsMove
<1>2. ASSUME NEW j \in Jobs
      PROVE  JobMoves(w, j)
  <2>1. /\ RowCalm(jobs[j], jobs'[j]) /\ jobs[j].attempt \in Nat
        /\ jobs[j].state = "none" => ~jobs[j].sourceReady
        /\ jobs[j].cleaned => jobs[j].state = "expired"
    BY ObjectTypes DEF Calm, ObjectKinds, ResultsInv, RowsAge
  <2>. QED
    BY <2>1 DEF RowCalm, JobMoves
<1>. QED
  BY <1>1, <1>2

----------------------------------------------------------------------------
(* Steps of workers that hold nothing, and of nobody.                      *)

\* Worker w has nothing in hand that the store must have, and goes on in its attempt or
\* leaves it.
PlainTurn(w) ==
    /\ Calm
    /\ NoStore
    /\ \A v \in Workers \ {w} : worker'[v] = worker[v]
    /\ worker[w].pc \notin HoldingSteps
    /\ worker'[w].pc \notin HoldingSteps \cup {"clean", "cleaned"}
    /\ worker'[w].pc \in ExecutingSteps =>
          /\ worker[w].pc \in ExecutingSteps
          /\ worker'[w].seq = worker[w].seq
          /\ worker'[w].pc \in GrantedSteps \/ worker[w].pc \notin GrantedSteps

\* Such a turn keeps the results.
LEMMA PlainTurnKeeps ==
  ASSUME ReverseInv, ReverseInv', ResultsInv, NEW w \in Workers, PlainTurn(w)
  PROVE  ResultsInv'
<1>1. HolderOK(w)'
  <2>1. CASE worker'[w].pc \notin ExecutingSteps
    BY <2>1 DEF PlainTurn, HolderOK
  <2>2. CASE worker'[w].pc \in ExecutingSteps
    <3>1. /\ worker[w].pc \in ExecutingSteps /\ worker'[w].seq = worker[w].seq
          /\ worker[w].seq \in Known /\ HolderOK(w) /\ JobOf(w) \in Jobs
      BY <2>2, ObjectTypes DEF ObjectKinds, PlainTurn, ResultsInv, JobOf
    <3>2. /\ SameAttempt(attempts[worker[w].seq], attempts'[worker[w].seq])
          /\ RowCalm(jobs[JobOf(w)], jobs'[JobOf(w)])
      BY <3>1 DEF PlainTurn, Calm
    <3>3. JobOf(w)' = JobOf(w)
      BY <3>1, <3>2 DEF JobOf, SameAttempt
    <3>4. ~Granted(w) => ~Granted(w)'
      BY <3>1, <3>2, <3>3 DEF Granted, RowCalm, SameAttempt
    <3>. QED
      BY <2>2, <3>1, <3>2, <3>4 DEF PlainTurn, HolderOK, SameAttempt, HoldingSteps, GrantedSteps
  <2>. QED
    BY <2>1, <2>2
<1>2. ResultsMove(w) /\ LetsGo(w)
  BY DEF PlainTurn, NoStore, Store, ResultsMove, LetsGo, Holds
<1>3. ObjectsMove(w)
  BY <1>1, <1>2, CalmMoves DEF PlainTurn, ObjectsMove
<1>. QED
  BY <1>3, ResultsTurn

\* A calm transaction of anybody, while the workers and the results stay.
LEMMA CalmKeeps ==
  ASSUME ReverseInv, ReverseInv', ResultsInv, Calm, UNCHANGED <<worker, results>>
  PROVE  ResultsInv'
<1>1. NULL \notin Workers
  BY Bounds
<1>2. ObjectsMove(NULL)
  BY <1>1, CalmMoves DEF ObjectsMove, ResultsMove, LetsGo
<1>. QED
  BY <1>2, ResultsTurn

\* Worker w goes on to pc, in its attempt or out of it.
GoesFrom(w, pc) ==
    /\ worker'[w].pc = pc
    /\ \A v \in Workers \ {w} : worker'[v] = worker[v]
    /\ pc \in ExecutingSteps => worker'[w].seq = worker[w].seq

\* So it does in all of these.
LEMMA WaysToGo ==
  ASSUME ReverseInv, NEW w \in Workers
  PROVE  /\ \A pc : Continue(w, pc) => GoesFrom(w, pc)
         /\ \A phase : BackTo(w, phase) => GoesFrom(w, "loop")
         /\ BackOff(w) => GoesFrom(w, "loop")
         /\ \A new : Do(w, new) /\ (new.seq = worker[w].seq \/ new.pc \notin ExecutingSteps) =>
               GoesFrom(w, new.pc)
<1>1. worker[w] \in WorkerState /\ worker \in [Workers -> WorkerState]
  BY DEF ReverseInv, ServiceTypeOK
<1>2. \A new : Do(w, new) /\ (new.seq = worker[w].seq \/ new.pc \notin ExecutingSteps) =>
         GoesFrom(w, new.pc)
  BY <1>1 DEF Do, GoesFrom
<1>3. ASSUME NEW pc, Continue(w, pc)
      PROVE  GoesFrom(w, pc)
  <2>. DEFINE new == [worker[w] EXCEPT !.pc = pc]
  <2>1. Do(w, new) /\ new.seq = worker[w].seq /\ new.pc = pc
    BY <1>1, <1>3 DEF Continue, WorkerState
  <2>. HIDE DEF new
  <2>. QED
    BY <1>2, <2>1
<1>4. ASSUME NEW phase, BackTo(w, phase)
      PROVE  GoesFrom(w, "loop")
  <2>. DEFINE new == [NewWorker EXCEPT !.pc = "loop", !.phase = phase]
  <2>1. Do(w, new) /\ new.pc = "loop" /\ "loop" \notin ExecutingSteps
    BY <1>4 DEF BackTo, NewWorker, ExecutingSteps
  <2>. HIDE DEF new
  <2>. QED
    BY <1>2, <2>1
<1>. QED
  BY <1>2, <1>3, <1>4 DEF BackOff

\* A step that is plain, because it starts and ends where nothing is held.
LEMMA GoesPlainly ==
  ASSUME NEW w \in Workers, NEW pc, Calm, NoStore, GoesFrom(w, pc),
         worker[w].pc \notin HoldingSteps, pc \notin HoldingSteps \cup {"clean", "cleaned"},
         pc \in ExecutingSteps =>
            /\ worker[w].pc \in ExecutingSteps
            /\ pc \in GrantedSteps \/ worker[w].pc \notin GrantedSteps
  PROVE  PlainTurn(w)
BY DEF PlainTurn, GoesFrom

\* Outside of attempts nothing is held.
OutsideSteps == {"new", "off", "loop", "page", "ack", "acked", "complete", "readying",
                 "rcreated", "rterminated", "racked", "requeue"}

\* From one of these to another.
LEMMA StaysOutside ==
  ASSUME NEW w \in Workers, Calm, NoStore, worker[w].pc \in OutsideSteps,
         \E pc \in OutsideSteps : GoesFrom(w, pc)
  PROVE  PlainTurn(w)
<1>1. OutsideSteps \cap (ExecutingSteps \cup HoldingSteps \cup {"clean", "cleaned"}) = {}
  BY DEF OutsideSteps, ExecutingSteps, HoldingSteps
<1>. QED
  BY <1>1, GoesPlainly

\* The reconciliation, step by step.
LEMMA ReconcilePlain ==
  ASSUME ReverseInv, NEW w \in Workers, ReconcileStep(w)
  PROVE  PlainTurn(w)
<1>1. Calm
  <2>1. CASE BeginReconcile(w)
    BY <2>1, ReconciliationIsCalm DEF BeginReconcile
  <2>2. CASE PageArrives(w)
    BY <2>2, ReconciliationIsCalm, CalmNothing DEF PageArrives, NoTable, tableVars
  <2>3. CASE SendAck(w) \/ ReadyArrives(w)
    BY <2>3, CalmNothing DEF SendAck, ReadyArrives, NoTable, tableVars
  <2>4. CASE AckArrives(w)
    BY <2>4, ReconciliationIsCalm, CalmNothing DEF AckArrives, NoTable, tableVars
  <2>5. CASE RecordPage(w)
    BY <2>5, ReconciliationIsCalm, CalmNothing DEF RecordPage, NoTable, tableVars
  <2>6. CASE Complete(w)
    BY <2>6, ReconciliationIsCalm, CalmNothing DEF Complete, NoTable, tableVars
  <2>. QED
    BY <2>1, <2>2, <2>3, <2>4, <2>5, <2>6 DEF ReconcileStep
<1>2. NoStore
  BY DEF ReconcileStep, BeginReconcile, PageArrives, SendAck, AckArrives, RecordPage, Complete,
     ReadyArrives
<1>3. worker[w].pc \in OutsideSteps
  BY DEF ReconcileStep, BeginReconcile, PageArrives, SendAck, AckArrives, RecordPage, Complete,
     ReadyArrives, At, OutsideSteps
<1>4. worker[w] \in WorkerState
  BY WorkerFields
<1>5. \/ BackOff(w)
      \/ \E phase : BackTo(w, phase)
      \/ \E pc \in OutsideSteps : Continue(w, pc)
      \/ \E new : Do(w, new) /\ new.pc \in OutsideSteps
  <2>1. CASE BeginReconcile(w)
    <3>. DEFINE new == [worker[w] EXCEPT !.pc = "page", !.cursor = principal'.cursor]
    <3>1. Do(w, new) /\ new.pc = "page"
      BY <1>4, <2>1 DEF BeginReconcile, WorkerState
    <3>. QED
      BY <3>1 DEF OutsideSteps
  <2>2. CASE PageArrives(w)
    <3>. DEFINE new == [worker[w] EXCEPT !.pc = "ack", !.page = replies[w],
                                         !.acks = FirstBatch(Unacknowledged)]
    <3>1. BackOff(w) \/ Do(w, new)
      BY <2>2 DEF PageArrives
    <3>2. new.pc = "ack"
      BY <1>4 DEF WorkerState
    <3>. QED
      BY <3>1, <3>2 DEF OutsideSteps
  <2>3. CASE SendAck(w)
    <3>1. PICK s \in worker[w].acks :
             Do(w, [worker[w] EXCEPT !.pc = "acked", !.seq = s, !.unit = ProofOf(s)])
      BY <2>3 DEF SendAck
    <3>2. [worker[w] EXCEPT !.pc = "acked", !.seq = s, !.unit = ProofOf(s)].pc = "acked"
      BY <1>4 DEF WorkerState
    <3>. QED
      BY <3>1, <3>2 DEF OutsideSteps
  <2>4. CASE AckArrives(w)
    <3>. DEFINE new == [worker[w] EXCEPT !.pc = "ack",
                                         !.acks = worker[w].acks \ {worker[w].seq}]
    <3>1. BackOff(w) \/ Do(w, new)
      BY <1>4, <2>4 DEF AckArrives, WorkerState
    <3>2. new.pc = "ack"
      BY <1>4 DEF WorkerState
    <3>. QED
      BY <3>1, <3>2 DEF OutsideSteps
  <2>5. CASE RecordPage(w)
    BY <2>5 DEF RecordPage, OutsideSteps
  <2>6. CASE Complete(w)
    BY <2>6 DEF Complete, OutsideSteps
  <2>7. CASE ReadyArrives(w)
    BY <2>7 DEF ReadyArrives
  <2>. QED
    BY <2>1, <2>2, <2>3, <2>4, <2>5, <2>6, <2>7 DEF ReconcileStep
<1>6. \E pc \in OutsideSteps : GoesFrom(w, pc)
  <2>1. OutsideSteps \cap ExecutingSteps = {} /\ "loop" \in OutsideSteps
    BY DEF OutsideSteps, ExecutingSteps
  <2>. QED
    BY <1>5, <2>1, WaysToGo
<1>. QED
  BY <1>1, <1>2, <1>3, <1>6, StaysOutside

\* The recovery, and the loop between its steps.
LEMMA RecoverPlain ==
  ASSUME ReverseInv, NEW w \in Workers,
         RecoverStep(w) \/ StartWorker(w) \/ StopWorker(w) \/ NothingToClaim(w)
  PROVE  PlainTurn(w)
<1>1. Calm
  <2>1. CASE RecoverAttempt(w)
    BY <2>1, RecoveryIsCalm DEF RecoverAttempt
  <2>2. CASE RecoveryTerminated(w)
    BY <2>2, RecoveryIsCalm, CalmNothing DEF RecoveryTerminated, NoTable, tableVars
  <2>3. CASE RecoveryAcked(w)
    BY <2>3, RecoveryIsCalm, CalmNothing DEF RecoveryAcked, NoTable, tableVars
  <2>4. CASE Requeue(w)
    BY <2>4, RequeueIsCalm DEF Requeue
  <2>5. CASE \/ NothingToRecover(w) \/ RecoveryCreated(w)
             \/ StartWorker(w) \/ StopWorker(w) \/ NothingToClaim(w)
    BY <2>5, CalmNothing DEF NothingToRecover, RecoveryCreated, StartWorker, StopWorker,
       NothingToClaim, NoTable, tableVars
  <2>. QED
    BY <2>1, <2>2, <2>3, <2>4, <2>5 DEF RecoverStep
<1>2. NoStore
  BY DEF RecoverStep, RecoverAttempt, NothingToRecover, RecoveryCreated, RecoveryTerminated,
     RecoveryAcked, Requeue, StartWorker, StopWorker, NothingToClaim
<1>3. worker[w].pc \in OutsideSteps
  BY DEF RecoverStep, RecoverAttempt, NothingToRecover, RecoveryCreated, RecoveryTerminated,
     RecoveryAcked, Requeue, StartWorker, StopWorker, NothingToClaim, At, OutsideSteps
<1>4. worker[w] \in WorkerState
  BY WorkerFields
<1>5. \/ BackOff(w)
      \/ \E phase : BackTo(w, phase)
      \/ \E pc \in OutsideSteps : Continue(w, pc)
      \/ \E new : Do(w, new) /\ new.pc \in OutsideSteps
  <2>1. CASE RecoverAttempt(w)
    <3>1. PICK s \in CreateSequences :
             Do(w, [worker[w] EXCEPT
                       !.pc = IF attempts[s].unit = 0 THEN "rcreated" ELSE "rterminated",
                       !.seq = s, !.unit = attempts[s].unit])
      BY <2>1 DEF RecoverAttempt
    <3>. DEFINE new == [worker[w] EXCEPT
                           !.pc = IF attempts[s].unit = 0 THEN "rcreated" ELSE "rterminated",
                           !.seq = s, !.unit = attempts[s].unit]
    <3>2. new.pc \in {"rcreated", "rterminated"}
      BY <1>4 DEF WorkerState
    <3>3. Do(w, new)
      BY <3>1
    <3>. HIDE DEF new
    <3>. QED
      BY <3>2, <3>3 DEF OutsideSteps
  <2>2. CASE RecoveryCreated(w)
    <3>. DEFINE new == [worker[w] EXCEPT !.pc = "rterminated", !.unit = replies[w].unit]
    <3>1. BackOff(w) \/ Do(w, new)
      BY <2>2 DEF RecoveryCreated
    <3>2. new.pc = "rterminated"
      BY <1>4 DEF WorkerState
    <3>. QED
      BY <3>1, <3>2 DEF OutsideSteps
  <2>3. CASE RecoveryTerminated(w) \/ RecoveryAcked(w) \/ Requeue(w) \/ NothingToRecover(w)
    BY <2>3 DEF RecoveryTerminated, RecoveryAcked, Requeue, NothingToRecover, OutsideSteps
  <2>4. CASE StartWorker(w) \/ StopWorker(w) \/ NothingToClaim(w)
    BY <2>4 DEF StartWorker, StopWorker, NothingToClaim, OutsideSteps
  <2>. QED
    BY <2>1, <2>2, <2>3, <2>4 DEF RecoverStep
<1>6. \E pc \in OutsideSteps : GoesFrom(w, pc)
  <2>1. OutsideSteps \cap ExecutingSteps = {} /\ "loop" \in OutsideSteps
    BY DEF OutsideSteps, ExecutingSteps
  <2>. QED
    BY <1>5, <2>1, WaysToGo
<1>. QED
  BY <1>1, <1>2, <1>3, <1>6, StaysOutside

\* The steps of an attempt before its result is put, and its rejection.
WorkingSteps == {"load", "intent", "created", "stage", "staged", "collect", "collected",
                 "terminated", "validate", "publish", "put", "reject"}

\* From one of these to another, or back to the loop.
LEMMA StaysWorking ==
  ASSUME NEW w \in Workers, Calm, NoStore, worker[w].pc \in WorkingSteps,
         \E pc \in WorkingSteps \cup {"loop", "acknowledge"} : GoesFrom(w, pc)
  PROVE  PlainTurn(w)
<1>1. /\ WorkingSteps \subseteq ExecutingSteps
      /\ WorkingSteps \cap (HoldingSteps \cup GrantedSteps \cup {"clean", "cleaned"}) = {}
      /\ "acknowledge" \in GrantedSteps \ HoldingSteps
      /\ "loop" \notin ExecutingSteps \cup HoldingSteps
  BY DEF WorkingSteps, ExecutingSteps, HoldingSteps, GrantedSteps
<1>. QED
  BY <1>1, GoesPlainly

\* Ways from one step of the attempt to the next.
LEMMA WaysToWork ==
  ASSUME ReverseInv, NEW w \in Workers
  PROVE  /\ \A v : Terminate_unit(w, v) => GoesFrom(w, "terminated")
         /\ \A v : Do(w, [worker[w] EXCEPT !.pc = "reject", !.verdict = v]) => GoesFrom(w, "reject")
         /\ \A v : Do(w, [worker[w] EXCEPT !.pc = "undo", !.verdict = v]) => GoesFrom(w, "undo")
         /\ \A u : Do(w, [worker[w] EXCEPT !.pc = "stage", !.unit = u]) => GoesFrom(w, "stage")
         /\ \A u : Do(w, [worker[w] EXCEPT !.pc = "packed", !.unit = u]) => GoesFrom(w, "packed")
<1>1. worker[w] \in WorkerState
  BY WorkerFields
<1>2. ASSUME NEW pc, NEW v, Do(w, [worker[w] EXCEPT !.pc = pc, !.verdict = v])
      PROVE  GoesFrom(w, pc)
  <2>. DEFINE new == [worker[w] EXCEPT !.pc = pc, !.verdict = v]
  <2>1. Do(w, new) /\ new.seq = worker[w].seq /\ new.pc = pc
    BY <1>1, <1>2 DEF WorkerState
  <2>. HIDE DEF new
  <2>. QED
    BY <2>1, WaysToGo
<1>3. ASSUME NEW pc, NEW u, Do(w, [worker[w] EXCEPT !.pc = pc, !.unit = u])
      PROVE  GoesFrom(w, pc)
  <2>. DEFINE new == [worker[w] EXCEPT !.pc = pc, !.unit = u]
  <2>1. Do(w, new) /\ new.seq = worker[w].seq /\ new.pc = pc
    BY <1>1, <1>3 DEF WorkerState
  <2>. HIDE DEF new
  <2>. QED
    BY <2>1, WaysToGo
<1>. QED
  BY <1>2, <1>3 DEF Terminate_unit

\* The attempt until its unit has terminated.
LEMMA WorkPlain ==
  ASSUME ReverseInv, NEW w \in Workers,
         \/ Load(w) \/ Intent(w) \/ Created(w) \/ Stage_source(w) \/ Staged(w)
         \/ Collect_result(w) \/ CollectInterrupted(w) \/ Collected(w) \/ Terminated(w)
  PROVE  PlainTurn(w)
<1>1. Calm
  <2>1. CASE Intent(w)
    BY <2>1, HolderIsCalm, CalmNothing DEF Intent, NoTable, tableVars
  <2>2. CASE Created(w)
    BY <2>2, HolderIsCalm, CalmNothing DEF Created, NoTable, tableVars
  <2>3. CASE Stage_source(w)
    BY <2>3, HolderIsCalm, CalmNothing DEF Stage_source, NoTable, tableVars
  <2>4. CASE Terminated(w)
    BY <2>4, HolderIsCalm, CalmNothing DEF Terminated, NoTable, tableVars
  <2>5. CASE Load(w) \/ Staged(w) \/ Collect_result(w) \/ CollectInterrupted(w) \/ Collected(w)
    BY <2>5, CalmNothing DEF Load, Staged, Collect_result, CollectInterrupted, Collected,
       NoTable, tableVars
  <2>. QED
    BY <2>1, <2>2, <2>3, <2>4, <2>5
<1>2. NoStore /\ worker[w].pc \in WorkingSteps
  BY DEF Load, Intent, Created, Stage_source, Staged, Collect_result, CollectInterrupted,
     Collected, Terminated, At, WorkingSteps
<1>3. \E pc \in WorkingSteps \cup {"loop", "acknowledge"} : GoesFrom(w, pc)
  <2>1. /\ {"intent", "created", "stage", "staged", "collect", "collected", "terminated",
            "validate", "reject"} \subseteq WorkingSteps
    BY DEF WorkingSteps
  <2>2. CASE Load(w)
    BY <2>1, <2>2, WaysToGo, WaysToWork DEF Load
  <2>3. CASE Intent(w)
    BY <2>1, <2>3, WaysToGo DEF Intent
  <2>4. CASE Created(w)
    BY <2>1, <2>4, WaysToGo, WaysToWork DEF Created
  <2>5. CASE Stage_source(w) \/ Staged(w)
    BY <2>1, <2>5, WaysToGo, WaysToWork DEF Stage_source, Staged
  <2>6. CASE Collect_result(w) \/ CollectInterrupted(w)
    BY <2>1, <2>6, WaysToGo, WaysToWork DEF Collect_result, CollectInterrupted
  <2>7. CASE Collected(w)
    BY <2>1, <2>7, WaysToGo, WaysToWork DEF Collected
  <2>8. CASE Terminated(w)
    BY <2>1, <2>8, WaysToGo DEF Terminated
  <2>. QED
    BY <2>2, <2>3, <2>4, <2>5, <2>6, <2>7, <2>8
<1>. QED
  BY <1>1, <1>2, <1>3, StaysWorking

\* The rest of the attempt, but for its result.
LEMMA EndPlain ==
  ASSUME ReverseInv, NEW w \in Workers,
         \/ Validate(w) \/ Publish(w) \/ Reject(w) \/ AcknowledgeProof(w) \/ ProofAcknowledged(w)
  PROVE  PlainTurn(w)
<1>1. Calm /\ NoStore
  <2>1. CASE Validate(w)
    BY <2>1, HolderIsCalm, CalmNothing DEF Validate, NoTable, tableVars
  <2>2. CASE Publish(w)
    BY <2>2, HolderIsCalm, CalmNothing DEF Publish, NoTable, tableVars
  <2>3. CASE Reject(w)
    <3>1. worker[w].verdict \in {"failed", "cancelled"}
      BY <2>3 DEF Reject, At, ReverseInv, WorkerOK
    <3>. QED
      BY <2>3, <3>1, HolderIsCalm, CalmNothing DEF Reject, NoTable, tableVars
  <2>4. CASE AcknowledgeProof(w)
    BY <2>4, CalmNothing DEF AcknowledgeProof, NoTable, tableVars
  <2>5. CASE ProofAcknowledged(w)
    BY <2>5, RecoveryIsCalm, CalmNothing DEF ProofAcknowledged, NoTable, tableVars
  <2>. QED
    BY <2>1, <2>2, <2>3, <2>4, <2>5
<1>2. CASE Validate(w) \/ Publish(w) \/ Reject(w)
  <2>1. worker[w].pc \in WorkingSteps
    BY <1>2 DEF Validate, Publish, Reject, At, WorkingSteps
  <2>2. \E pc \in WorkingSteps \cup {"loop", "acknowledge"} : GoesFrom(w, pc)
    BY <1>2, WaysToGo, WaysToWork DEF Validate, Publish, Reject, WorkingSteps
  <2>. QED
    BY <1>1, <2>1, <2>2, StaysWorking
<1>3. CASE AcknowledgeProof(w)
  <2>1. GoesFrom(w, "packed") /\ worker[w].pc = "acknowledge"
    BY <1>3, WaysToWork DEF AcknowledgeProof, At
  <2>. QED
    BY <1>1, <2>1, GoesPlainly DEF HoldingSteps, GrantedSteps, ExecutingSteps
<1>4. CASE ProofAcknowledged(w)
  <2>1. GoesFrom(w, "loop") /\ worker[w].pc = "packed"
    BY <1>4, WaysToGo DEF ProofAcknowledged, At
  <2>. QED
    BY <1>1, <2>1, GoesPlainly DEF HoldingSteps, ExecutingSteps
<1>. QED
  BY <1>2, <1>3, <1>4

----------------------------------------------------------------------------
(* The steps in which a worker holds a result.                             *)

\* The attempt of a worker, and the attempt after a step of it that is calm.
LEMMA AttemptInHand ==
  ASSUME ReverseInv, NEW w \in Workers, worker[w].pc \in ExecutingSteps
  PROVE  /\ worker[w].seq \in Known /\ JobOf(w) \in Jobs
         /\ ResultKey(w)[1] = JobOf(w)
         /\ AttemptsMove /\ worker'[w].seq = worker[w].seq =>
               /\ JobOf(w)' = JobOf(w) /\ ResultKey(w)' = ResultKey(w)
               /\ attempts'[worker[w].seq].worker = attempts[worker[w].seq].worker
               /\ attempts'[worker[w].seq].number = attempts[worker[w].seq].number
<1>1. worker[w].seq \in Known /\ JobOf(w) \in Jobs /\ ResultKey(w)[1] = JobOf(w)
  BY ObjectTypes DEF ObjectKinds, JobOf, ResultKey
<1>. QED
  BY <1>1 DEF AttemptsMove, JobOf, ResultKey

\* A step of w inside of its attempt that is calm, from or to where it holds its result.
HoldingTurn(w, pc) ==
    /\ Calm
    /\ worker[w].pc \in ExecutingSteps
    /\ GoesFrom(w, pc)
    /\ pc \in ExecutingSteps \cup {"loop"}
    /\ pc \in HoldingSteps \ {"undo"} =>
          ResultKey(w) \in results' \/ jobs[JobOf(w)].state = "expired"
    /\ pc \in ExecutingSteps \ GrantedSteps => ~Granted(w)
    /\ ResultsMove(w)
    /\ worker[w].pc \in HoldingSteps /\ ResultKey(w) \in results' =>
          pc \in HoldingSteps \/ jobs'[JobOf(w)].state # "expired"

\* Such a turn keeps the results.
LEMMA HoldingTurnKeeps ==
  ASSUME ReverseInv, ReverseInv', ResultsInv, NEW w \in Workers, NEW pc, HoldingTurn(w, pc)
  PROVE  ResultsInv'
<1>1. AttemptsMove /\ \A j \in Jobs : JobMoves(w, j)
  BY CalmMoves DEF HoldingTurn
<1>2. /\ worker[w].pc \in ExecutingSteps /\ worker'[w].pc = pc
      /\ pc \in ExecutingSteps => worker'[w].seq = worker[w].seq
      /\ \A v \in Workers \ {w} : worker'[v] = worker[v]
  BY DEF HoldingTurn, GoesFrom
<1>3. /\ worker[w].seq \in Known /\ JobOf(w) \in Jobs /\ ResultKey(w)[1] = JobOf(w)
      /\ pc \in ExecutingSteps =>
            /\ JobOf(w)' = JobOf(w) /\ ResultKey(w)' = ResultKey(w)
            /\ attempts'[worker[w].seq].worker = attempts[worker[w].seq].worker
            /\ attempts'[worker[w].seq].number = attempts[worker[w].seq].number
  BY <1>1, <1>2, AttemptInHand
<1>4. /\ RowCalm(jobs[JobOf(w)], jobs'[JobOf(w)])
      /\ HolderOK(w)
  BY <1>3 DEF HoldingTurn, Calm, ResultsInv
<1>5. HolderOK(w)'
  <2>1. CASE pc \notin ExecutingSteps
    <3>1. pc = "loop"
      BY <2>1 DEF HoldingTurn
    <3>. QED
      BY <1>2, <2>1, <3>1 DEF HolderOK, HoldingSteps
  <2>2. CASE pc \in ExecutingSteps
    <3>1. ~Granted(w) => ~Granted(w)'
      BY <1>2, <1>3, <1>4, <2>2 DEF Granted, RowCalm
    <3>2. pc \notin {"clean", "cleaned"}
      BY <2>2 DEF ExecutingSteps
    <3>3. jobs[JobOf(w)].state = "expired" => jobs'[JobOf(w)].state = "expired"
      BY <1>4 DEF RowCalm
    <3>. QED
      BY <1>2, <1>3, <1>4, <2>2, <3>1, <3>2, <3>3 DEF HoldingTurn, HolderOK
  <2>. QED
    BY <2>1, <2>2
<1>6. LetsGo(w)
  <2>1. ASSUME NEW r \in results', Holds(w, r)
        PROVE  Holds(w, r)' \/ jobs'[r[1]].state # "expired"
    <3>1. r = ResultKey(w) /\ worker[w].pc \in HoldingSteps
      BY <2>1 DEF Holds
    <3>2. pc \in HoldingSteps \/ jobs'[JobOf(w)].state # "expired"
      BY <2>1, <3>1 DEF HoldingTurn
    <3>3. pc \in HoldingSteps => pc \in ExecutingSteps
      BY DEF HoldingSteps, ExecutingSteps
    <3>. QED
      BY <1>2, <1>3, <3>1, <3>2, <3>3 DEF Holds
  <2>. QED
    BY <2>1 DEF LetsGo
<1>7. ObjectsMove(w)
  BY <1>1, <1>2, <1>5, <1>6 DEF ObjectsMove, HoldingTurn
<1>. QED
  BY <1>7, ResultsTurn

\* The results stay.
LEMMA NoResultMoves ==
  ASSUME UNCHANGED results, NEW w
  PROVE  ResultsMove(w)
BY DEF ResultsMove

\* The result is put, or fails to be put and is to be deleted.
LEMMA PutKeeps ==
  ASSUME ReverseInv, ReverseInv', ResultsInv, NEW w \in Workers,
         PutResult(w) \/ PutResultFails(w)
  PROVE  ResultsInv'
<1>1. /\ worker[w].pc = "put" /\ worker[w].pc \in ExecutingSteps
      /\ NoTable
      /\ results' \in {results, results \cup {ResultKey(w)}}
  BY DEF PutResult, PutResultFails, At, ExecutingSteps
<1>2. \E pc \in {"check", "undo"} : /\ GoesFrom(w, pc)
                                    /\ pc = "check" => ResultKey(w) \in results'
  BY WaysToGo, WaysToWork DEF PutResult, PutResultFails
<1>3. PICK pc \in {"check", "undo"} : /\ GoesFrom(w, pc)
                                      /\ pc = "check" => ResultKey(w) \in results'
  BY <1>2
<1>4. Calm
  BY <1>1, CalmNothing DEF NoTable, tableVars
<1>5. pc \in ExecutingSteps /\ pc \in HoldingSteps /\ pc \notin GrantedSteps
  BY <1>3 DEF ExecutingSteps, HoldingSteps, GrantedSteps
<1>6. ~Granted(w)
  BY <1>1 DEF ResultsInv, HolderOK, GrantedSteps
<1>7. ResultsMove(w)
  <2>1. AttemptsMove
    BY <1>4, CalmMoves
  <2>2. worker'[w].pc = pc /\ worker'[w].seq = worker[w].seq
    BY <1>3, <1>5 DEF GoesFrom
  <2>3. ResultKey(w)' = ResultKey(w)
    BY <1>1, <2>1, <2>2, AttemptInHand
  <2>4. \A r \in results' \ results : r = ResultKey(w)
    BY <1>1
  <2>5. results \ results' = {}
    BY <1>1
  <2>. QED
    BY <1>1, <1>5, <2>2, <2>3, <2>4, <2>5 DEF ResultsMove, Holds
<1>8. HoldingTurn(w, pc)
  BY <1>1, <1>3, <1>4, <1>5, <1>6, <1>7 DEF HoldingTurn
<1>. QED
  BY <1>8, HoldingTurnKeeps

\* Steps that leave the table and the store alone and stay in possession of the result.
LEMMA KeepsHolding ==
  ASSUME ReverseInv, ReverseInv', ResultsInv, NEW w \in Workers, NoTable, NoStore,
         worker[w].pc \in HoldingSteps, NEW pc \in HoldingSteps, GoesFrom(w, pc),
         pc = "undo" \/ worker[w].pc # "undo",
         pc # "lookup" => worker[w].pc # "lookup"
  PROVE  ResultsInv'
<1>1. Calm /\ UNCHANGED results
  BY CalmNothing DEF NoTable, NoStore, Store, tableVars
<1>2. /\ worker[w].pc \in ExecutingSteps /\ pc \in ExecutingSteps
      /\ pc \notin GrantedSteps => worker[w].pc \notin GrantedSteps
  BY DEF ExecutingSteps, HoldingSteps, GrantedSteps
<1>3. HolderOK(w)
  BY DEF ResultsInv
<1>4. HoldingTurn(w, pc)
  BY <1>1, <1>2, <1>3, NoResultMoves DEF HoldingTurn, HolderOK
<1>. QED
  BY <1>4, HoldingTurnKeeps

\* The check before the success, and the failures of its transactions.
LEMMA CheckKeeps ==
  ASSUME ReverseInv, ReverseInv', ResultsInv, NEW w \in Workers,
         \/ Check(w)
         \/ DatabaseFails(w) /\ worker[w].pc \in {"check", "succeed"}
  PROVE  ResultsInv'
<1>1. NoTable /\ NoStore /\ worker[w].pc \in {"check", "succeed"}
  BY DEF Check, DatabaseFails, At
<1>2. \E pc \in {"succeed", "undo", "lookup"} : GoesFrom(w, pc)
  <2>1. CASE Check(w)
    BY <2>1, WaysToGo, WaysToWork DEF Check
  <2>2. CASE DatabaseFails(w) /\ worker[w].pc = "check"
    BY <2>2, WaysToWork DEF DatabaseFails
  <2>3. CASE DatabaseFails(w) /\ worker[w].pc = "succeed"
    BY <2>3, WaysToGo DEF DatabaseFails
  <2>. QED
    BY <2>1, <2>2, <2>3
<1>. QED
  BY <1>1, <1>2, KeepsHolding DEF HoldingSteps

\* The success of an attempt, or an exception in its place.
LEMMA SucceedKeeps ==
  ASSUME ReverseInv, ReverseInv', ResultsInv, NEW w \in Workers,
         Succeed(w) \/ SucceedAmbiguous(w)
  PROVE  ResultsInv'
<1>. DEFINE s == worker[w].seq
<1>1. /\ worker[w].pc = "succeed" /\ NoStore /\ UNCHANGED results
      /\ worker[w].pc \in ExecutingSteps /\ worker[w].pc \in HoldingSteps
  BY DEF Succeed, SucceedAmbiguous, At, NoStore, Store, ExecutingSteps, HoldingSteps
<1>2. \/ NoTable /\ GoesFrom(w, "lookup")
      \/ /\ finish(w, s, "succeeded")
         /\ \/ GoesFrom(w, "lookup")
            \/ GoesFrom(w, "undo") /\ jobs'[JobOf(w)].state = "cancelled"
            \/ GoesFrom(w, "acknowledge") /\ jobs'[JobOf(w)].state # "cancelled"
  BY WaysToGo, WaysToWork DEF Succeed, SucceedAmbiguous, AfterSuccess
<1>3. CASE NoTable /\ GoesFrom(w, "lookup")
  BY <1>1, <1>3, KeepsHolding DEF HoldingSteps
<1>4. CASE finish(w, s, "succeeded")
  <2>1. /\ s \in Known /\ JobOf(w) \in Jobs
        /\ jobs[JobOf(w)].state = "running"
        /\ attempts[s].number = jobs[JobOf(w)].attempt
    BY <1>4, OwnedRow DEF finish, JobOf
  <2>2. jobs[JobOf(w)] \in Job /\ DOMAIN jobs = Jobs
    BY <2>1 DEF ReverseInv, TableInv, TableTypeOK
  <2>3. /\ jobs' = [jobs EXCEPT ![JobOf(w)] = FinishedJob(jobs[JobOf(w)], "succeeded")]
        /\ UNCHANGED attempts
    BY <1>4 DEF finish, JobOf
  <2>4. /\ jobs'[JobOf(w)] = FinishedJob(jobs[JobOf(w)], "succeeded")
        /\ \A j \in Jobs : j # JobOf(w) => jobs'[j] = jobs[j]
    BY <2>1, <2>2, <2>3
  <2>5. /\ jobs'[JobOf(w)].attempt = jobs[JobOf(w)].attempt
        /\ jobs'[JobOf(w)].sourceReady = jobs[JobOf(w)].sourceReady
        /\ jobs'[JobOf(w)].cleaned = jobs[JobOf(w)].cleaned
        /\ jobs'[JobOf(w)].state \in {"succeeded", "cancelled"}
        /\ jobs'[JobOf(w)].state = "succeeded" =>
              jobs'[JobOf(w)].result = jobs[JobOf(w)].attempt
    BY <2>2, <2>4 DEF FinishedJob, ClearedLease, Job
  <2>6. HolderOK(w) /\ ResultKey(w) \in results' /\ RowsAge
    BY <1>1, <2>1 DEF ResultsInv, HolderOK, HoldingSteps
  <2>7. AttemptsMove
    BY <2>3 DEF AttemptsMove, Known
  <2>8. ASSUME NEW j \in Jobs
        PROVE  JobMoves(w, j)
    <3>1. jobs[j].attempt \in Nat
      BY ObjectTypes DEF ObjectKinds
    <3>2. CASE j # JobOf(w)
      BY <2>4, <2>6, <3>1, <3>2 DEF JobMoves, RowsAge
    <3>3. CASE j = JobOf(w)
      BY <1>1, <2>1, <2>5, <2>6, <3>1, <3>3 DEF JobMoves, RowsAge
    <3>. QED
      BY <3>2, <3>3
  <2>9. PICK pc \in {"lookup", "undo", "acknowledge"} :
           /\ GoesFrom(w, pc)
           /\ pc = "undo" => jobs'[JobOf(w)].state = "cancelled"
    BY <1>2, <1>3, <1>4, <2>1
  <2>10. /\ worker'[w].pc = pc /\ worker'[w].seq = worker[w].seq
         /\ pc \in ExecutingSteps
         /\ \A v \in Workers \ {w} : worker'[v] = worker[v]
    BY <2>9 DEF GoesFrom, ExecutingSteps
  <2>11. /\ JobOf(w)' = JobOf(w) /\ ResultKey(w)' = ResultKey(w) /\ ResultKey(w)[1] = JobOf(w)
         /\ attempts'[s].worker = attempts[s].worker
    BY <1>1, <2>7, <2>10, AttemptInHand
  <2>12. HolderOK(w)'
    <3>1. pc \in ExecutingSteps \ GrantedSteps => ~Granted(w)'
      BY <2>9, <2>11 DEF Granted, GrantedSteps
    <3>. QED
      BY <1>1, <2>6, <2>9, <2>10, <2>11, <3>1 DEF HolderOK
  <2>13. LetsGo(w)
    <3>1. pc \in HoldingSteps \/ pc = "acknowledge"
      BY <2>9 DEF HoldingSteps
    <3>. QED
      BY <2>5, <2>10, <2>11, <3>1 DEF LetsGo, Holds
  <2>14. ObjectsMove(w)
    BY <1>1, <2>7, <2>8, <2>10, <2>12, <2>13, NoResultMoves DEF ObjectsMove
  <2>. QED
    BY <2>14, ResultsTurn
<1>. QED
  BY <1>2, <1>3, <1>4

\* get_internal tells whether the success was granted.
LEMMA LookupKeeps ==
  ASSUME ReverseInv, ReverseInv', ResultsInv, NEW w \in Workers, Lookup(w)
  PROVE  ResultsInv'
<1>1. /\ worker[w].pc = "lookup" /\ Calm /\ UNCHANGED results
      /\ worker[w].pc \in ExecutingSteps
  BY CalmNothing DEF Lookup, At, NoTable, tableVars, NoStore, Store, ExecutingSteps
<1>2. \/ GoesFrom(w, "acknowledge") /\ Granted(w)
      \/ GoesFrom(w, "undo") /\ ~Granted(w)
  BY WaysToGo, WaysToWork DEF Lookup, AfterSuccess, Granted
<1>3. jobs' = jobs
  BY DEF Lookup, NoTable, tableVars
<1>4. CASE GoesFrom(w, "acknowledge") /\ Granted(w)
  <2>1. jobs'[JobOf(w)].state # "expired"
    BY <1>3, <1>4 DEF Granted
  <2>2. HoldingTurn(w, "acknowledge")
    BY <1>1, <1>4, <2>1, NoResultMoves DEF HoldingTurn, ExecutingSteps, GrantedSteps, HoldingSteps
  <2>. QED
    BY <2>2, HoldingTurnKeeps
<1>5. CASE GoesFrom(w, "undo") /\ ~Granted(w)
  <2>1. HoldingTurn(w, "undo")
    BY <1>1, <1>5, NoResultMoves DEF HoldingTurn, ExecutingSteps, HoldingSteps
  <2>. QED
    BY <2>1, HoldingTurnKeeps
<1>. QED
  BY <1>2, <1>4, <1>5

\* A result that is not referred to is deleted.
LEMMA UndoKeeps ==
  ASSUME ReverseInv, ReverseInv', ResultsInv, NEW w \in Workers, Undo(w)
  PROVE  ResultsInv'
<1>1. /\ worker[w].pc = "undo" /\ Calm /\ results' = results \ {ResultKey(w)}
      /\ worker[w].pc \in ExecutingSteps \ GrantedSteps
  BY CalmNothing DEF Undo, At, NoTable, tableVars, ExecutingSteps, GrantedSteps
<1>2. \E pc \in {"acknowledge", "loop", "reject"} : GoesFrom(w, pc)
  BY WaysToGo DEF Undo
<1>3. PICK pc \in {"acknowledge", "loop", "reject"} : GoesFrom(w, pc)
  BY <1>2
<1>4. ~Granted(w)
  BY <1>1 DEF ResultsInv, HolderOK
<1>5. ResultsMove(w)
  BY <1>1 DEF ResultsMove
<1>6. HoldingTurn(w, pc)
  BY <1>1, <1>3, <1>4, <1>5 DEF HoldingTurn, ExecutingSteps, HoldingSteps
<1>. QED
  BY <1>6, HoldingTurnKeeps

\* The heartbeat, and a process that dies where none may.
LEMMA BeatKeeps ==
  ASSUME ReverseInv, ReverseInv', ResultsInv, NEW w \in Workers, Beat(w)
  PROVE  ResultsInv'
<1>1. /\ Calm /\ NoStore /\ UNCHANGED results /\ worker[w].pc \in ExecutingSteps
  BY HolderIsCalm, CalmNothing DEF Beat, NoTable, tableVars, NoStore, Store
<1>2. CASE UNCHANGED worker
  BY <1>1, <1>2, CalmKeeps
<1>3. CASE Do(w, [worker[w] EXCEPT !.lost = TRUE])
  <2>. DEFINE pc == worker[w].pc
              new == [worker[w] EXCEPT !.lost = TRUE]
  <2>1. Do(w, new) /\ new.seq = worker[w].seq /\ new.pc = pc
    BY <1>3, WorkerFields DEF WorkerState
  <2>. HIDE DEF new
  <2>2. GoesFrom(w, pc)
    BY <2>1, WaysToGo
  <2>3. HolderOK(w)
    BY DEF ResultsInv
  <2>4. HoldingTurn(w, pc)
    BY <1>1, <2>2, <2>3, NoResultMoves DEF HoldingTurn, HolderOK
  <2>. QED
    BY <2>4, HoldingTurnKeeps
<1>. QED
  BY <1>2, <1>3 DEF Beat

\* A process that dies holds nothing any more, which matters only if some may die.
LEMMA DeathKeeps ==
  ASSUME ReverseInv, ReverseInv', ResultsInv, NEW w \in Workers, WorkerDies(w)
  PROVE  ResultsInv'
<1>1. Calm /\ UNCHANGED results
  BY CalmNothing DEF WorkerDies, NoTable, tableVars, NoStore, Store
<1>2. worker'[w].pc = "off" /\ \A v \in Workers \ {w} : worker'[v] = worker[v]
  <2>. DEFINE new == [NewWorker EXCEPT !.pc = "off"]
  <2>1. Do(w, new) /\ new.pc = "off" /\ new.pc \notin ExecutingSteps
    BY DEF WorkerDies, NewWorker, ExecutingSteps
  <2>. HIDE DEF new
  <2>. QED
    BY <2>1, WaysToGo DEF GoesFrom
<1>3. HolderOK(w)'
  BY <1>2 DEF HolderOK, ExecutingSteps, HoldingSteps
<1>4. LetsGo(w)
  BY DEF WorkerDies, Fault, LetsGo, NoWorkerDies
<1>5. ObjectsMove(w)
  BY <1>1, <1>2, <1>3, <1>4, CalmMoves, NoResultMoves DEF ObjectsMove
<1>. QED
  BY <1>5, ResultsTurn

\* A claim draws a new number, for an attempt without a result.
LEMMA ClaimKeeps ==
  ASSUME ReverseInv, ReverseInv', ResultsInv, NEW w \in Workers, ClaimJob(w)
  PROVE  ResultsInv'
<1>1. PICK j \in Jobs :
         /\ claim(w, j)
         /\ Do(w, [worker[w] EXCEPT !.pc = "load", !.seq = principal'.highWater])
  BY DEF ClaimJob
<1>. DEFINE s == principal.highWater + 1
<1>2. /\ jobs \in [Jobs -> Job] /\ attempts \in [CreateSequences -> Attempt]
      /\ principal \in Principal /\ MaxSequence \in Nat
      /\ NULL \notin Jobs
  BY Bounds DEF ReverseInv, TableInv, TableTypeOK
<1>3. /\ principal.highWater \in 0 .. MaxSequence /\ s <= MaxSequence
      /\ s \in CreateSequences /\ principal'.highWater = s
      /\ jobs[j].state = "queued" /\ jobs[j].attempt \in Nat
  BY <1>1, <1>2, ObjectTypes DEF claim, Principal, CreateSequences, ObjectKinds
<1>4. s \notin Known
  <2>1. \A t \in Known : t <= principal.highWater
    BY Domains DEF ReverseInv, TableInv, SequencesIssued, Known
  <2>. QED
    BY <1>3, <2>1
<1>5. /\ attempts'[s].job = j /\ attempts'[s].number = jobs[j].attempt + 1
      /\ attempts'[s].worker = w
      /\ \A t \in CreateSequences \ {s} : attempts'[t] = attempts[t]
      /\ DOMAIN attempts' = CreateSequences
  BY <1>1, <1>2, <1>3 DEF claim, NoAttempt
<1>6. Known' = Known \cup {s} /\ Known \subseteq CreateSequences
  BY <1>2, <1>3, <1>5 DEF Known
<1>7. /\ jobs'[j] = ClaimedJob(jobs[j], s)
      /\ \A k \in Jobs \ {j} : jobs'[k] = jobs[k]
  BY <1>1, <1>2 DEF claim
<1>8. /\ jobs'[j].attempt = jobs[j].attempt + 1 /\ jobs'[j].state = "running"
      /\ jobs'[j].cleaned = jobs[j].cleaned
  BY <1>2, <1>7 DEF ClaimedJob, Job
<1>9. /\ worker'[w].pc = "load" /\ worker'[w].seq = s
      /\ \A v \in Workers \ {w} : worker'[v] = worker[v]
      /\ worker[w].pc = "loop"
  <2>1. worker \in [Workers -> WorkerState]
    BY DEF ReverseInv, ServiceTypeOK
  <2>2. principal'.highWater = s /\ worker[w].pc = "loop"
    BY <1>3 DEF ClaimJob, At
  <2>. QED
    BY <1>1, <2>1, <2>2 DEF Do, WorkerState
<1>. HIDE DEF s
<1>10. UNCHANGED results
  BY DEF ClaimJob, NoStore, Store
<1>11. AttemptsMove
  BY <1>3, <1>4, <1>5, <1>6, <1>8 DEF AttemptsMove
<1>12. ASSUME NEW k \in Jobs
       PROVE  JobMoves(w, k)
  <2>1. jobs[k].attempt \in Nat /\ RowsAge
    BY ObjectTypes DEF ObjectKinds, ResultsInv
  <2>2. CASE k = j
    BY <1>3, <1>8, <2>1, <2>2 DEF JobMoves, RowsAge
  <2>3. CASE k # j
    BY <1>7, <2>1, <2>3 DEF JobMoves, RowsAge
  <2>. QED
    BY <2>2, <2>3
<1>13. HolderOK(w)'
  BY <1>5, <1>8, <1>9 DEF HolderOK, ExecutingSteps, HoldingSteps, GrantedSteps, Granted, JobOf
<1>14. ObjectsMove(w)
  BY <1>9, <1>10, <1>11, <1>12, <1>13, NoResultMoves
     DEF ObjectsMove, LetsGo, Holds, HoldingSteps
<1>. QED
  BY <1>14, ResultsTurn

\* The beginning of a cleanup.
LEMMA ExpireKeeps ==
  ASSUME ReverseInv, ReverseInv', ResultsInv, NEW w \in Workers, Expire(w)
  PROVE  ResultsInv'
<1>1. PICK j \in Jobs : /\ expire_terminal(w, j)
                        /\ Do(w, [worker[w] EXCEPT !.pc = "clean", !.job = j])
  BY DEF Expire
<1>2. Calm /\ UNCHANGED results /\ worker[w].pc = "loop"
  BY <1>1, RowIsCalm DEF Expire, NoStore, Store, At
<1>3. /\ worker'[w].pc = "clean" /\ worker'[w].job = j
      /\ \A v \in Workers \ {w} : worker'[v] = worker[v]
  <2>1. worker \in [Workers -> WorkerState]
    BY DEF ReverseInv, ServiceTypeOK
  <2>. QED
    BY <1>1, <2>1 DEF Do, WorkerState
<1>4. jobs'[j].state = "expired"
  <2>1. jobs[j] \in Job /\ DOMAIN jobs = Jobs
    BY DEF ReverseInv, TableInv, TableTypeOK
  <2>. QED
    BY <1>1, <2>1 DEF expire_terminal, Job
<1>5. HolderOK(w)'
  BY <1>3, <1>4 DEF HolderOK, ExecutingSteps, HoldingSteps
<1>6. ObjectsMove(w)
  BY <1>2, <1>3, <1>5, CalmMoves, NoResultMoves DEF ObjectsMove, LetsGo, Holds, HoldingSteps
<1>. QED
  BY <1>6, ResultsTurn

\* The deletion of everything up to the last attempt of an expired job.
LEMMA DeleteKeeps ==
  ASSUME ReverseInv, ReverseInv', ResultsInv, NEW w \in Workers, DeleteObjects(w)
  PROVE  ResultsInv'
<1>. DEFINE j == worker[w].job
<1>1. /\ worker[w].pc = "clean" /\ Calm
      /\ results' = {r \in results : r[1] # j \/ r[2] > jobs[j].attempt}
      /\ Continue(w, "cleaned") /\ jobs' = jobs
  BY CalmNothing DEF DeleteObjects, At, NoTable, tableVars
<1>2. j \in Jobs /\ jobs[j].state = "expired"
  BY <1>1 DEF ReverseInv, WorkerOK, ResultsInv, HolderOK
<1>3. \A r \in results : r[1] = j => r \notin results'
  <2>. SUFFICES ASSUME NEW r \in results, r[1] = j, r[2] > jobs[j].attempt
                PROVE  FALSE
    BY <1>1
  <2>1. r[2] <= jobs[j].attempt
    BY DEF ResultsInv, NumbersApart
  <2>2. r[2] \in Nat /\ jobs[j].attempt \in Nat
    BY <1>2, ObjectTypes DEF ObjectKinds
  <2>. QED
    BY <2>1, <2>2
<1>4. /\ worker'[w].pc = "cleaned" /\ worker'[w].job = j
      /\ \A v \in Workers \ {w} : worker'[v] = worker[v]
  <2>1. worker \in [Workers -> WorkerState]
    BY DEF ReverseInv, ServiceTypeOK
  <2>. QED
    BY <1>1, <2>1 DEF Continue, Do, WorkerState
<1>5. results' \subseteq results /\ \A r \in results \ results' : r[1] = j
  BY <1>1
<1>. HIDE DEF j
<1>6. HolderOK(w)'
  BY <1>1, <1>2, <1>3, <1>4, <1>5 DEF HolderOK, ExecutingSteps, HoldingSteps, Gone
<1>7. ResultsMove(w)
  BY <1>2, <1>5 DEF ResultsMove
<1>8. ObjectsMove(w)
  BY <1>1, <1>4, <1>6, <1>7, CalmMoves DEF ObjectsMove, LetsGo, Holds, HoldingSteps
<1>. QED
  BY <1>8, ResultsTurn

\* The end of a cleanup.
LEMMA CleanupKeeps ==
  ASSUME ReverseInv, ReverseInv', ResultsInv, NEW w \in Workers, CompleteCleanup(w)
  PROVE  ResultsInv'
<1>. DEFINE j == worker[w].job
<1>1. /\ worker[w].pc = "cleaned" /\ UNCHANGED results /\ BackOff(w)
      /\ complete_cleanup(w, j) \/ UNCHANGED <<jobs, attempts>>
      /\ UNCHANGED attempts
  BY DEF CompleteCleanup, At, NoStore, Store, NoTable, tableVars, complete_cleanup
<1>2. j \in Jobs /\ jobs[j].state = "expired" /\ RowsAge
  BY <1>1 DEF ReverseInv, WorkerOK, ResultsInv, HolderOK
<1>3. GoesFrom(w, "loop")
  BY <1>1, WaysToGo
<1>4. AttemptsMove
  BY <1>1 DEF AttemptsMove, Known
<1>5. ASSUME NEW k \in Jobs
      PROVE  JobMoves(w, k)
  <2>1. jobs[k].attempt \in Nat /\ jobs[k] \in Job /\ DOMAIN jobs = Jobs
    BY ObjectTypes DEF ObjectKinds, ReverseInv, TableInv, TableTypeOK
  <2>2. CASE jobs'[k] = jobs[k]
    BY <1>2, <2>1, <2>2 DEF JobMoves, RowsAge
  <2>3. CASE complete_cleanup(w, j) /\ k = j
    <3>1. jobs'[k] = [jobs[k] EXCEPT !.cleaned = TRUE, !.cleaner = NULL, !.cleanLapsed = FALSE]
      BY <2>1, <2>3 DEF complete_cleanup
    <3>2. /\ jobs'[k].attempt = jobs[k].attempt /\ jobs'[k].state = "expired"
      BY <1>2, <2>1, <2>3, <3>1 DEF Job
    <3>. QED
      BY <1>1, <2>1, <2>3, <3>2 DEF JobMoves
  <2>. QED
    BY <1>1, <2>1, <2>2, <2>3 DEF complete_cleanup
<1>6. HolderOK(w)'
  BY <1>3 DEF GoesFrom, HolderOK, ExecutingSteps, HoldingSteps
<1>7. ObjectsMove(w)
  BY <1>1, <1>3, <1>4, <1>5, <1>6, NoResultMoves
     DEF ObjectsMove, LetsGo, Holds, HoldingSteps, GoesFrom
<1>. QED
  BY <1>7, ResultsTurn

\* An operation times out, or a transaction fails where nothing is held.
LEMMA FailureKeeps ==
  ASSUME ReverseInv, ReverseInv', ResultsInv, NEW w \in Workers,
         \/ RequestTimesOut(w)
         \/ DatabaseFails(w) /\ worker[w].pc \notin {"check", "succeed"}
  PROVE  ResultsInv'
<1>1. Calm /\ NoStore /\ UNCHANGED results
  BY CalmNothing DEF RequestTimesOut, DatabaseFails, NoTable, tableVars, NoStore, Store
<1>2. CASE RequestTimesOut(w)
  BY <1>1, <1>2, CalmKeeps DEF RequestTimesOut
<1>3. CASE DatabaseFails(w) /\ worker[w].pc \notin {"check", "succeed"}
  <2>1. \/ GoesFrom(w, "loop")
        \/ GoesFrom(w, "terminated") /\ worker[w].pc \in {"stage", "collect"}
    BY <1>3, WaysToGo, WaysToWork DEF DatabaseFails
  <2>2. worker[w].pc \notin HoldingSteps
    BY <1>3 DEF DatabaseFails, HoldingSteps
  <2>3. PlainTurn(w)
    BY <1>1, <2>1, <2>2, GoesPlainly DEF HoldingSteps, ExecutingSteps, GrantedSteps
  <2>. QED
    BY <2>3, PlainTurnKeeps
<1>. QED
  BY <1>2, <1>3

\* All steps of workers.
LEMMA WorkersKeepResults ==
  ASSUME ReverseInv, ReverseInv', ResultsInv, NEW w \in Workers,
         \/ WorkerStep(w) \/ Beat(w) \/ PutResultFails(w) \/ SucceedAmbiguous(w)
         \/ WorkerDies(w) \/ RequestTimesOut(w) \/ DatabaseFails(w) \/ StopWorker(w)
  PROVE  ResultsInv'
BY ReconcilePlain, RecoverPlain, WorkPlain, EndPlain, PlainTurnKeeps, PutKeeps, CheckKeeps,
   SucceedKeeps, LookupKeeps, UndoKeeps, BeatKeeps, DeathKeeps, ClaimKeeps, ExpireKeeps,
   DeleteKeeps, CleanupKeeps, FailureKeeps DEF WorkerStep, CleanStep, ExecuteStep

----------------------------------------------------------------------------
(* The sources in the store.                                               *)

\* A submission that has not come is about no row, one that is under way is about a row,
\* and when its source is put it is there, unless the row went another way.
SubmissionsOK ==
    \A j \in Jobs :
        /\ client[j].pc = "new" => jobs[j].state = "none"
        /\ client[j].pc \in {"put", "activate"} => jobs[client[j].job].state # "none"

UploadsOK ==
    /\ \A j \in Jobs :
          /\ client[j].pc = "activate" /\ jobs[client[j].job].state \in ActiveStates =>
                client[j].job \in sources
          /\ "storage" \in Events /\ client[j].pc \in {"put", "activate"} =>
                client[j].job = j /\ ~jobs[j].sourceReady
    /\ ReverseSourceAvailable

SourcesInv == SubmissionsOK /\ (UploadsApart => UploadsOK)

\* A row that does not become claimable.
NotClaimable(old, new) ==
    /\ new.state = "none" <=> old.state = "none"
    /\ new.sourceReady = old.sourceReady
    /\ new.state \in ActiveStates => old.state \in ActiveStates

\* A step of anybody but a client: only sources of expired jobs are deleted.
LEMMA SourcesTurn ==
  ASSUME ReverseInv, ReverseInv', SourcesInv, UNCHANGED client,
         \A j \in Jobs : NotClaimable(jobs[j], jobs'[j]),
         \A j \in sources \ sources' : jobs[j].state = "expired"
  PROVE  SourcesInv'
<1>1. /\ \A j \in Jobs : client[j].pc \in {"put", "activate"} => client[j].job \in Jobs
      /\ DOMAIN jobs = Jobs /\ DOMAIN jobs' = Jobs
  BY ObjectTypes, ObjectTypesNext DEF ObjectKinds, ReverseInv, ClientsOK
<1>2. SubmissionsOK'
  BY <1>1 DEF SourcesInv, SubmissionsOK, NotClaimable
<1>3. ASSUME NEW j \in Jobs, jobs'[j].state \in ActiveStates, j \in sources
      PROVE  j \in sources'
  BY <1>3 DEF NotClaimable, ActiveStates
<1>4. UploadsApart => UploadsOK'
  <2>. SUFFICES ASSUME UploadsApart
                PROVE  UploadsOK'
    OBVIOUS
  <2>1. UploadsOK
    BY DEF SourcesInv
  <2>2. ReverseSourceAvailable'
    BY <1>1, <1>3, <2>1 DEF UploadsOK, ReverseSourceAvailable, NotClaimable
  <2>3. ASSUME NEW j \in Jobs
        PROVE  /\ client'[j].pc = "activate" /\ jobs'[client'[j].job].state \in ActiveStates =>
                     client'[j].job \in sources'
               /\ "storage" \in Events /\ client'[j].pc \in {"put", "activate"} =>
                     client'[j].job = j /\ ~jobs'[j].sourceReady
    BY <1>1, <1>3, <2>1 DEF UploadsOK, NotClaimable
  <2>. QED
    BY <2>2, <2>3 DEF UploadsOK
<1>5. UploadsApart' <=> UploadsApart
  BY DEF UploadsApart
<1>. QED
  BY <1>2, <1>4, <1>5 DEF SourcesInv

\* A calm transaction makes nothing claimable.
LEMMA CalmUploads ==
  ASSUME Calm
  PROVE  \A j \in Jobs : NotClaimable(jobs[j], jobs'[j])
BY DEF Calm, RowCalm, NotClaimable

\* No transaction of a worker makes anything claimable.
LEMMA WorkersUploads ==
  ASSUME ReverseInv, NEW w \in Workers,
         \/ WorkerStep(w) \/ Beat(w) \/ PutResultFails(w) \/ SucceedAmbiguous(w)
         \/ WorkerDies(w) \/ RequestTimesOut(w) \/ DatabaseFails(w) \/ StopWorker(w)
  PROVE  \A j \in Jobs : NotClaimable(jobs[j], jobs'[j])
<1>1. /\ jobs \in [Jobs -> Job]
      /\ NoTable => Calm
  BY CalmNothing DEF ReverseInv, TableInv, TableTypeOK, NoTable, tableVars
<1>2. CASE \/ ReconcileStep(w) \/ RecoverStep(w) \/ StartWorker(w) \/ StopWorker(w)
           \/ NothingToClaim(w) \/ Load(w) \/ Intent(w) \/ Created(w) \/ Stage_source(w)
           \/ Staged(w) \/ Collect_result(w) \/ CollectInterrupted(w) \/ Collected(w)
           \/ Terminated(w) \/ Validate(w) \/ Publish(w) \/ Reject(w) \/ AcknowledgeProof(w)
           \/ ProofAcknowledged(w)
  BY <1>2, ReconcilePlain, RecoverPlain, WorkPlain, EndPlain, CalmUploads DEF PlainTurn
<1>3. CASE \/ PutResult(w) \/ PutResultFails(w) \/ Check(w) \/ Lookup(w) \/ Undo(w)
           \/ WorkerDies(w) \/ RequestTimesOut(w) \/ DatabaseFails(w) \/ DeleteObjects(w)
  BY <1>1, <1>3, CalmUploads DEF PutResult, PutResultFails, Check, Lookup, Undo, WorkerDies,
     RequestTimesOut, DatabaseFails, DeleteObjects
<1>4. CASE Beat(w)
  BY <1>1, <1>4, HolderIsCalm, CalmUploads DEF Beat
<1>5. CASE Expire(w)
  BY <1>5, RowIsCalm, CalmUploads DEF Expire
<1>6. ASSUME NEW s, finish(w, s, "succeeded")
      PROVE  \A j \in Jobs : NotClaimable(jobs[j], jobs'[j])
  <2>. DEFINE k == attempts[s].job
              row == FinishedJob(jobs[k], "succeeded")
  <2>1. k \in Jobs /\ jobs[k].state = "running" /\ jobs[k] \in Job
    BY <1>1, <1>6, OwnedRow DEF finish
  <2>2. row.sourceReady = jobs[k].sourceReady /\ row.state \in {"succeeded", "cancelled"}
    BY <2>1 DEF FinishedJob, ClearedLease, Job
  <2>3. jobs' = [jobs EXCEPT ![k] = row]
    BY <1>6 DEF finish
  <2>. HIDE DEF row
  <2>. QED
    BY <1>1, <2>1, <2>2, <2>3 DEF NotClaimable, ActiveStates
<1>7. CASE Succeed(w) \/ SucceedAmbiguous(w)
  BY <1>1, <1>6, <1>7, CalmUploads DEF Succeed, SucceedAmbiguous
<1>8. CASE ClaimJob(w)
  <2>1. PICK k \in Jobs : claim(w, k)
    BY <1>8 DEF ClaimJob
  <2>. DEFINE row == ClaimedJob(jobs[k], principal.highWater + 1)
  <2>2. /\ row.sourceReady = jobs[k].sourceReady /\ row.state = "running"
        /\ jobs[k].state = "queued"
    BY <1>1, <2>1 DEF ClaimedJob, Job, claim
  <2>3. jobs' = [jobs EXCEPT ![k] = row]
    BY <2>1 DEF claim
  <2>. HIDE DEF row
  <2>. QED
    BY <1>1, <2>2, <2>3 DEF NotClaimable, ActiveStates
<1>9. CASE CompleteCleanup(w)
  <2>1. CASE NoTable
    BY <1>1, <2>1, CalmUploads
  <2>2. CASE complete_cleanup(w, worker[w].job)
    <3>. DEFINE k == worker[w].job
                row == [jobs[k] EXCEPT !.cleaned = TRUE, !.cleaner = NULL, !.cleanLapsed = FALSE]
    <3>1. k \in Jobs
      BY <1>9 DEF CompleteCleanup, At, ReverseInv, WorkerOK
    <3>2. row.sourceReady = jobs[k].sourceReady /\ row.state = jobs[k].state
      BY <1>1, <3>1 DEF Job
    <3>3. jobs' = [jobs EXCEPT ![k] = row]
      BY <2>2 DEF complete_cleanup
    <3>. HIDE DEF row
    <3>. QED
      BY <1>1, <3>1, <3>2, <3>3 DEF NotClaimable
  <2>. QED
    BY <1>9, <2>1, <2>2 DEF CompleteCleanup
<1>. QED
  BY <1>2, <1>3, <1>4, <1>5, <1>7, <1>8, <1>9 DEF WorkerStep, CleanStep, ExecuteStep

\* No step of a worker touches a submission, and only cleanups delete sources.
LEMMA WorkersKeepSources ==
  ASSUME ReverseInv, ReverseInv', ResultsInv, SourcesInv, NEW w \in Workers,
         \/ WorkerStep(w) \/ Beat(w) \/ PutResultFails(w) \/ SucceedAmbiguous(w)
         \/ WorkerDies(w) \/ RequestTimesOut(w) \/ DatabaseFails(w) \/ StopWorker(w)
  PROVE  SourcesInv' /\ UNCHANGED <<client, backup>>
<1>1. UNCHANGED <<client, backup>>
  BY DEF WorkerStep, ReconcileStep, BeginReconcile, PageArrives, SendAck, AckArrives, RecordPage,
     Complete, ReadyArrives, RecoverStep, RecoverAttempt, NothingToRecover, RecoveryCreated,
     RecoveryTerminated, RecoveryAcked, Requeue, StartWorker, StopWorker, ExecuteStep, ClaimJob,
     NothingToClaim, Load, Intent, Created, Stage_source, Staged, Collect_result,
     CollectInterrupted, Collected, Terminated, Validate, Publish, PutResult, Check, Succeed,
     Lookup, Undo, Reject, AcknowledgeProof, ProofAcknowledged, CleanStep, Expire, DeleteObjects,
     CompleteCleanup, Beat, PutResultFails, SucceedAmbiguous, WorkerDies, RequestTimesOut,
     DatabaseFails, Others
<1>2. UNCHANGED sources \/ DeleteObjects(w)
  BY DEF WorkerStep, ReconcileStep, BeginReconcile, PageArrives, SendAck, AckArrives, RecordPage,
     Complete, ReadyArrives, RecoverStep, RecoverAttempt, NothingToRecover, RecoveryCreated,
     RecoveryTerminated, RecoveryAcked, Requeue, StartWorker, StopWorker, ExecuteStep, ClaimJob,
     NothingToClaim, Load, Intent, Created, Stage_source, Staged, Collect_result,
     CollectInterrupted, Collected, Terminated, Validate, Publish, PutResult, Check, Succeed,
     Lookup, Undo, Reject, AcknowledgeProof, ProofAcknowledged, CleanStep, Expire,
     CompleteCleanup, Beat, PutResultFails, SucceedAmbiguous, WorkerDies, RequestTimesOut,
     DatabaseFails, NoStore, Store
<1>3. \A j \in sources \ sources' : jobs[j].state = "expired"
  BY <1>2 DEF DeleteObjects, At, ResultsInv, HolderOK
<1>. QED
  BY <1>1, <1>3, WorkersUploads, SourcesTurn

\* What a step of submission j writes: its own place, and nothing of the workers.
LEMMA ClientWrites ==
  ASSUME ReverseInv, NEW j \in Jobs,
         ClientStep(j) \/ Cancel(j) \/ SubmitPutFails(j) \/ ClientDies(j)
  PROVE  /\ UNCHANGED <<worker, results, backup>>
         /\ \A i \in Jobs \ {j} : client'[i] = client[i]
         /\ \A i \in Jobs : client'[i].pc = "new" => client[i].pc = "new"
<1>1. UNCHANGED <<worker, results, backup>>
  BY DEF ClientStep, SubmitCreate, SubmitReplay, SubmitPut, SubmitActivate, Cancel,
     SubmitPutFails, ClientDies, serviceVars
<1>2. DOMAIN client = Jobs
  BY DEF ReverseInv, ServiceTypeOK
<1>3. \/ UNCHANGED client
      \/ \E pc \in {"put", "activate", "accepted", "gone"} : \E k : Submit(j, pc, k)
  BY DEF ClientStep, SubmitCreate, SubmitReplay, SubmitPut, SubmitActivate, Cancel,
     SubmitPutFails, ClientDies, serviceVars
<1>. QED
  BY <1>1, <1>2, <1>3 DEF Submit

\* The transactions of submissions are calm, but for the creation and the activation.
LEMMA ClientTransactions ==
  ASSUME ReverseInv, NEW j \in Jobs,
         ClientStep(j) \/ Cancel(j) \/ SubmitPutFails(j) \/ ClientDies(j)
  PROVE  \/ Calm
         \/ SubmitCreate(j)
         \/ SubmitActivate(j) /\ activate_source(client[j].job) /\ client[j].job \in Jobs
<1>1. client[j].pc \in {"put", "activate", "accepted"} => client[j].job \in Jobs
  BY DEF ReverseInv, ClientsOK
<1>2. CASE Cancel(j)
  BY <1>1, <1>2, RowIsCalm DEF Cancel, Submission_at
<1>3. CASE SubmitActivate(j)
  BY <1>1, <1>3, CalmNothing DEF SubmitActivate, Submission_at, NoTable, tableVars
<1>4. CASE SubmitReplay(j) \/ SubmitPut(j) \/ SubmitPutFails(j) \/ ClientDies(j)
  BY <1>4, CalmNothing DEF SubmitReplay, SubmitPut, SubmitPutFails, ClientDies, tableVars
<1>. QED
  BY <1>2, <1>3, <1>4 DEF ClientStep

\* The row of a creation, and of an activation.
LEMMA ClientRow ==
  ASSUME ReverseInv, NEW k \in Jobs, create(k) \/ activate_source(k)
  PROVE  /\ UNCHANGED attempts
         /\ \A i \in Jobs \ {k} : jobs'[i] = jobs[i]
         /\ jobs'[k].state = "queued" /\ jobs[k].state \in {"none", "queued"}
         /\ jobs'[k].attempt = jobs[k].attempt /\ jobs'[k].cleaned = jobs[k].cleaned
         /\ create(k) => jobs[k].state = "none" /\ jobs'[k].sourceReady = jobs[k].sourceReady
         /\ activate_source(k) => jobs[k].state = "queued"
<1>1. jobs[k] \in Job /\ DOMAIN jobs = Jobs
  BY DEF ReverseInv, TableInv, TableTypeOK
<1>2. CASE create(k)
  <2>1. jobs' = [jobs EXCEPT ![k].state = "queued"] /\ jobs[k].state = "none" /\ UNCHANGED attempts
    BY <1>2 DEF create
  <2>2. ~activate_source(k)
    BY <2>1 DEF activate_source
  <2>. QED
    BY <1>1, <2>1, <2>2 DEF Job
<1>3. CASE activate_source(k)
  <2>1. /\ jobs' = [jobs EXCEPT ![k].sourceReady = TRUE] /\ jobs[k].state = "queued"
        /\ UNCHANGED attempts
    BY <1>3 DEF activate_source
  <2>2. ~create(k)
    BY <2>1 DEF create
  <2>. QED
    BY <1>1, <2>1, <2>2 DEF Job
<1>. QED
  BY <1>2, <1>3

\* Submissions and the results.
LEMMA ClientsKeepResults ==
  ASSUME ReverseInv, ReverseInv', ResultsInv, NEW j \in Jobs,
         ClientStep(j) \/ Cancel(j) \/ SubmitPutFails(j) \/ ClientDies(j)
  PROVE  ResultsInv'
<1>1. UNCHANGED <<worker, results>>
  BY ClientWrites
<1>2. CASE Calm
  BY <1>1, <1>2, CalmKeeps
<1>3. ASSUME NEW k \in Jobs, create(k) \/ activate_source(k)
      PROVE  ResultsInv'
  <2>1. /\ UNCHANGED attempts
        /\ \A i \in Jobs \ {k} : jobs'[i] = jobs[i]
        /\ jobs'[k].state = "queued" /\ jobs[k].state \in {"none", "queued"}
        /\ jobs'[k].attempt = jobs[k].attempt /\ jobs'[k].cleaned = jobs[k].cleaned
    BY <1>3, ClientRow
  <2>2. AttemptsMove
    BY <2>1 DEF AttemptsMove, Known
  <2>3. ASSUME NEW i \in Jobs
        PROVE  JobMoves(NULL, i)
    <3>1. jobs[i].attempt \in Nat /\ RowsAge
      BY ObjectTypes DEF ObjectKinds, ResultsInv
    <3>. QED
      BY <2>1, <3>1 DEF JobMoves, RowsAge
  <2>4. NULL \notin Workers
    BY Bounds
  <2>5. ObjectsMove(NULL)
    BY <1>1, <2>2, <2>3, <2>4 DEF ObjectsMove, ResultsMove, LetsGo
  <2>. QED
    BY <2>5, ResultsTurn
<1>. QED
  BY <1>2, <1>3, ClientTransactions DEF SubmitCreate

\* A new submission: its row has no source yet.
LEMMA CreateKeepsSources ==
  ASSUME ReverseInv, ReverseInv', ResultsInv, SourcesInv, NEW j \in Jobs, SubmitCreate(j)
  PROVE  SourcesInv'
<1>1. /\ \A i \in Jobs \ {j} : jobs'[i] = jobs[i] /\ client'[i] = client[i]
      /\ jobs'[j].state = "queued" /\ jobs[j].state = "none"
      /\ ~jobs[j].sourceReady /\ ~jobs'[j].sourceReady
      /\ UNCHANGED sources
  BY ClientRow, ClientWrites DEF SubmitCreate, ClientStep, ResultsInv, RowsAge
<1>2. client'[j] = [pc |-> "put", job |-> j]
  BY DEF SubmitCreate, Submit, ReverseInv, ServiceTypeOK
<1>3. /\ DOMAIN jobs = Jobs /\ DOMAIN jobs' = Jobs
      /\ \A i \in Jobs : client[i].pc \in {"put", "activate"} =>
            client[i].job \in Jobs \ {j}
  BY <1>1, ObjectTypes, ObjectTypesNext DEF ObjectKinds, ReverseInv, ClientsOK, SourcesInv,
     SubmissionsOK
<1>4. SubmissionsOK'
  BY <1>1, <1>2, <1>3 DEF SourcesInv, SubmissionsOK
<1>5. UploadsApart => UploadsOK'
  <2>. SUFFICES ASSUME UploadsApart
                PROVE  UploadsOK'
    OBVIOUS
  <2>1. UploadsOK
    BY DEF SourcesInv
  <2>2. ReverseSourceAvailable'
    BY <1>1, <1>3, <2>1 DEF UploadsOK, ReverseSourceAvailable
  <2>. QED
    BY <1>1, <1>2, <1>3, <2>1, <2>2 DEF UploadsOK
<1>. QED
  BY <1>4, <1>5 DEF SourcesInv, UploadsApart

\* A submission goes on to pc, about job k.
SubmissionGoes(j, pc, k) ==
    /\ client'[j] = [pc |-> pc, job |-> k]
    /\ \A i \in Jobs \ {j} : client'[i] = client[i]

\* The source of a row becomes ready, which the submission has put.
LEMMA ActivateKeepsSources ==
  ASSUME ReverseInv, ReverseInv', SourcesInv, NEW j \in Jobs, NEW k \in Jobs,
         SubmitActivate(j), activate_source(k), k = client[j].job
  PROVE  SourcesInv'
<1>1. /\ \A i \in Jobs \ {k} : jobs'[i] = jobs[i]
      /\ jobs'[k].state = "queued" /\ jobs[k].state = "queued"
      /\ UNCHANGED sources
      /\ client[j].pc = "activate"
  BY ClientRow DEF SubmitActivate, Submission_at
<1>2. SubmissionGoes(j, "accepted", k)
  BY <1>1 DEF SubmitActivate, Submit, ReverseInv, ServiceTypeOK, SubmissionGoes
<1>3. /\ DOMAIN jobs = Jobs /\ DOMAIN jobs' = Jobs
      /\ \A i \in Jobs : client[i].pc \in {"put", "activate"} => client[i].job \in Jobs
  BY ObjectTypes, ObjectTypesNext DEF ObjectKinds, ReverseInv, ClientsOK
<1>4. SubmissionsOK'
  BY <1>1, <1>2, <1>3 DEF SourcesInv, SubmissionsOK, SubmissionGoes
<1>5. UploadsApart => UploadsOK'
  <2>. SUFFICES ASSUME UploadsApart
                PROVE  UploadsOK'
    OBVIOUS
  <2>1. UploadsOK /\ k \in sources
    BY <1>1 DEF SourcesInv, UploadsOK, ActiveStates
  <2>2. ReverseSourceAvailable'
    BY <1>1, <1>3, <2>1 DEF UploadsOK, ReverseSourceAvailable
  <2>3. "storage" \in Events => k = j
    BY <1>1, <2>1 DEF UploadsOK
  <2>4. ASSUME NEW i \in Jobs
        PROVE  /\ client'[i].pc = "activate" /\ jobs'[client'[i].job].state \in ActiveStates =>
                     client'[i].job \in sources'
               /\ "storage" \in Events /\ client'[i].pc \in {"put", "activate"} =>
                     client'[i].job = i /\ ~jobs'[i].sourceReady
    <3>1. CASE i = j
      BY <1>2, <3>1 DEF SubmissionGoes
    <3>2. CASE i # j
      BY <1>1, <1>2, <1>3, <2>1, <2>3, <3>2 DEF SubmissionGoes, UploadsOK
    <3>. QED
      BY <3>1, <3>2
  <2>. QED
    BY <2>2, <2>4 DEF UploadsOK
<1>. QED
  BY <1>4, <1>5 DEF SourcesInv, UploadsApart

\* The upload itself, its failure, a replay, and a client that gives up or cancels.
LEMMA UploadKeepsSources ==
  ASSUME ReverseInv, ReverseInv', SourcesInv, NEW j \in Jobs, Calm,
         \/ SubmitReplay(j) \/ SubmitPut(j) \/ SubmitPutFails(j) \/ ClientDies(j) \/ Cancel(j)
         \/ SubmitActivate(j)
  PROVE  SourcesInv'
<1>1. /\ DOMAIN jobs = Jobs /\ DOMAIN jobs' = Jobs
      /\ \A i \in Jobs : client[i].pc \in {"put", "activate"} => client[i].job \in Jobs
      /\ \A i \in Jobs : NotClaimable(jobs[i], jobs'[i])
  BY ObjectTypes, ObjectTypesNext, CalmUploads DEF ObjectKinds, ReverseInv, ClientsOK
<1>2. CASE SubmitReplay(j)
  <2>1. PICK k \in Existing(j) :
           SubmissionGoes(j, IF jobs[k].sourceReady THEN "accepted" ELSE "put", k)
    BY <1>2 DEF SubmitReplay, Submit, SubmissionGoes, ReverseInv, ServiceTypeOK
  <2>2. /\ k \in Jobs /\ jobs[k].state # "none" /\ jobs[j].state = "none"
        /\ KeyOf[j] # NULL /\ KeyOf[k] = KeyOf[j] /\ UserOf[k] = UserOf[j]
        /\ UNCHANGED <<sources, jobs>>
    BY <1>2 DEF SubmitReplay, Existing, Submission_at, SourcesInv, SubmissionsOK, tableVars
  <2>3. SubmissionsOK'
    BY <2>1, <2>2 DEF SourcesInv, SubmissionsOK, SubmissionGoes
  <2>4. ASSUME UploadsApart
        PROVE  UploadsOK'
    <3>1. "storage" \notin Events
      BY <2>2, <2>4 DEF UploadsApart
    <3>. QED
      BY <2>1, <2>2, <2>4, <3>1
         DEF SourcesInv, UploadsOK, SubmissionGoes, ReverseSourceAvailable
  <2>. QED
    BY <2>3, <2>4 DEF SourcesInv, UploadsApart
<1>3. CASE SubmitPut(j)
  <2>. DEFINE k == client[j].job
  <2>1. /\ SubmissionGoes(j, "activate", k) /\ sources' = sources \cup {k}
        /\ UNCHANGED jobs /\ client[j].pc = "put"
    BY <1>3 DEF SubmitPut, Submit, SubmissionGoes, Submission_at, tableVars, ReverseInv,
       ServiceTypeOK
  <2>2. SubmissionsOK'
    BY <2>1 DEF SourcesInv, SubmissionsOK, SubmissionGoes
  <2>3. ASSUME UploadsApart
        PROVE  UploadsOK'
    BY <2>1, <2>3 DEF SourcesInv, UploadsOK, SubmissionGoes, ReverseSourceAvailable
  <2>. QED
    BY <2>2, <2>3 DEF SourcesInv, UploadsApart
<1>4. CASE SubmitPutFails(j)
  <2>. DEFINE k == client[j].job
  <2>1. /\ SubmissionGoes(j, "gone", NULL) /\ sources' = sources \ {k}
        /\ UNCHANGED jobs /\ client[j].pc = "put" /\ "storage" \in Events
    BY <1>4 DEF SubmitPutFails, Submit, SubmissionGoes, Submission_at, Fault, tableVars,
       ReverseInv, ServiceTypeOK
  <2>2. SubmissionsOK'
    BY <2>1 DEF SourcesInv, SubmissionsOK, SubmissionGoes
  <2>3. ASSUME UploadsApart
        PROVE  UploadsOK'
    <3>1. UploadsOK /\ k = j /\ ~jobs[j].sourceReady
      BY <2>1, <2>3 DEF SourcesInv, UploadsOK
    <3>2. ReverseSourceAvailable'
      BY <2>1, <3>1 DEF UploadsOK, ReverseSourceAvailable
    <3>3. ASSUME NEW i \in Jobs
          PROVE  /\ client'[i].pc = "activate" /\ jobs'[client'[i].job].state \in ActiveStates =>
                       client'[i].job \in sources'
                 /\ client'[i].pc \in {"put", "activate"} =>
                       client'[i].job = i /\ ~jobs'[i].sourceReady
      BY <2>1, <3>1 DEF UploadsOK, SubmissionGoes
    <3>. QED
      BY <3>2, <3>3 DEF UploadsOK
  <2>. QED
    BY <2>2, <2>3 DEF SourcesInv, UploadsApart
<1>5. CASE ClientDies(j) \/ SubmitActivate(j)
  <2>1. SubmissionGoes(j, "gone", NULL) \/ SubmissionGoes(j, "accepted", client[j].job)
    BY <1>5 DEF ClientDies, SubmitActivate, Submit, SubmissionGoes, ReverseInv, ServiceTypeOK
  <2>2. UNCHANGED sources
    BY <1>5 DEF ClientDies, SubmitActivate
  <2>3. SubmissionsOK'
    BY <1>1, <2>1 DEF SourcesInv, SubmissionsOK, SubmissionGoes, NotClaimable
  <2>4. ASSUME UploadsApart
        PROVE  UploadsOK'
    <3>1. UploadsOK
      BY <2>4 DEF SourcesInv
    <3>2. ReverseSourceAvailable'
      BY <1>1, <2>2, <3>1 DEF UploadsOK, ReverseSourceAvailable, NotClaimable
    <3>. QED
      BY <1>1, <2>1, <2>2, <3>1, <3>2 DEF UploadsOK, SubmissionGoes, NotClaimable
  <2>. QED
    BY <2>3, <2>4 DEF SourcesInv, UploadsApart
<1>6. CASE Cancel(j)
  <2>1. UNCHANGED <<client, sources>>
    BY <1>6 DEF Cancel, serviceVars
  <2>. QED
    BY <1>1, <2>1, SourcesTurn
<1>. QED
  BY <1>2, <1>3, <1>4, <1>5, <1>6

\* All steps of submissions.
LEMMA ClientsKeepSources ==
  ASSUME ReverseInv, ReverseInv', ResultsInv, SourcesInv, NEW j \in Jobs,
         ClientStep(j) \/ Cancel(j) \/ SubmitPutFails(j) \/ ClientDies(j)
  PROVE  SourcesInv'
<1>1. CASE SubmitCreate(j)
  BY <1>1, CreateKeepsSources
<1>2. CASE SubmitActivate(j) /\ activate_source(client[j].job) /\ client[j].job \in Jobs
  BY <1>2, ActivateKeepsSources
<1>3. CASE Calm
  BY <1>1, <1>3, UploadKeepsSources DEF ClientStep
<1>. QED
  BY <1>1, <1>2, <1>3, ClientTransactions

----------------------------------------------------------------------------
(* The backup, and the objects that come back with it.                     *)

\* The table and the store of the backup agree as those of the service did.
SavedObjectsOK ==
    backup # NULL =>
        /\ \A s \in Saved!Known :
              backup.attempts[s].number <= backup.jobs[backup.attempts[s].job].attempt
        /\ \A s, t \in Saved!Known :
              /\ backup.attempts[s].job = backup.attempts[t].job
              /\ backup.attempts[s].number = backup.attempts[t].number
              => s = t
        /\ \A r \in backup.results : r[2] <= backup.jobs[r[1]].attempt
        /\ DOMAIN backup.jobs = Jobs
        /\ \A j \in Jobs :
              LET job == backup.jobs[j]
              IN  /\ job.state = "none" => ~job.sourceReady
                  /\ job.cleaned => job.state = "expired"
                  /\ job.state = "succeeded" => <<j, job.result>> \in backup.results
                  /\ NoWorkerDies /\ job.cleaned => \A r \in backup.results : r[1] # j
                  /\ client[j].pc = "new" => job.state = "none"
                  /\ UploadsApart /\ job.state \in ActiveStates /\ job.sourceReady =>
                        j \in backup.sources

\* The inductive invariant of the objects, besides that of the service.
ObjectsInv == ResultsInv /\ SourcesInv /\ SavedObjectsOK

\* The backup stays, and no submission is one that has not come, which has.
LEMMA SavedStays ==
  ASSUME SavedObjectsOK, UNCHANGED backup,
         \A j \in Jobs : client'[j].pc = "new" => client[j].pc = "new"
  PROVE  SavedObjectsOK'
BY DEF SavedObjectsOK, Saved!Known, NoWorkerDies, UploadsApart

\* A backup is taken of objects that nobody holds.
LEMMA BackupKeepsObjects ==
  ASSUME ReverseInv, ReverseInv', ObjectsInv, TakeBackup
  PROVE  ObjectsInv'
<1>1. /\ backup'.jobs = jobs /\ backup'.attempts = attempts
      /\ backup'.sources = sources /\ backup'.results = results
      /\ UNCHANGED <<jobs, attempts, worker, client, sources, results>>
  BY DEF TakeBackup, tableVars
<1>2. \A w \in Workers : worker[w].pc \notin HoldingSteps
  BY Resting DEF TakeBackup, HoldingSteps
<1>3. ResultsInv'
  BY <1>1, CalmNothing, CalmKeeps DEF ObjectsInv
<1>4. SourcesInv'
  BY <1>1, SourcesTurn DEF ObjectsInv, NotClaimable
<1>5. SavedObjectsOK'
  <2>1. DOMAIN jobs = Jobs
    BY ObjectTypes DEF ObjectKinds
  <2>2. NoWorkerDies => \A j \in Jobs : jobs[j].cleaned => \A r \in results : r[1] # j
    BY <1>2 DEF ObjectsInv, ResultsInv, Gone, Holds
  <2>3. Saved!Known' = Known
    BY <1>1 DEF Saved!Known, Known
  <2>. QED
    BY <1>1, <2>1, <2>2, <2>3 DEF SavedObjectsOK, ObjectsInv, ResultsInv, NumbersApart, RowsAge,
       ReverseResultAvailable, SourcesInv, SubmissionsOK, UploadsOK, ReverseSourceAvailable,
       NoWorkerDies, UploadsApart
<1>. QED
  BY <1>3, <1>4, <1>5 DEF ObjectsInv

\* A restoration, while nobody holds or uploads anything.
LEMMA RestoreKeepsObjects ==
  ASSUME ReverseInv, ReverseInv', ObjectsInv, Restore
  PROVE  ObjectsInv'
<1>1. /\ jobs' = backup.jobs /\ attempts' = backup.attempts
      /\ sources' = backup.sources /\ results' = backup.results
      /\ backup # NULL /\ UNCHANGED <<worker, client, backup>>
  BY DEF Restore
<1>2. /\ \A w \in Workers : worker[w].pc \in {"new", "off"}
      /\ \A j \in Jobs : client[j].pc \notin {"put", "activate"}
  BY Resting DEF Restore, Quiescent
<1>3. SavedObjectsOK /\ SavedObjectsOK'
  BY <1>1, SavedStays DEF ObjectsInv
<1>4. Known' = Saved!Known
  BY <1>1 DEF Saved!Known, Known
<1>5. NumbersApart' /\ RowsAge' /\ ReverseResultAvailable'
  BY <1>1, <1>3, <1>4 DEF SavedObjectsOK, NumbersApart, RowsAge, ReverseResultAvailable
<1>6. \A w \in Workers : HolderOK(w)'
  BY <1>1, <1>2 DEF HolderOK, ExecutingSteps, HoldingSteps
<1>7. NoWorkerDies => \A j \in Jobs : jobs'[j].cleaned => Gone(j)'
  BY <1>1, <1>3 DEF SavedObjectsOK, Gone
<1>8. SourcesInv'
  BY <1>1, <1>2, <1>3 DEF SavedObjectsOK, SourcesInv, SubmissionsOK, UploadsOK,
     ReverseSourceAvailable, UploadsApart
<1>. QED
  BY <1>3, <1>5, <1>6, <1>7, <1>8 DEF ObjectsInv, ResultsInv, NoWorkerDies

----------------------------------------------------------------------------
(* Time, the broker, and every step.                                       *)

\* A calm transaction of anybody, while the workers, the submissions and the store stay.
LEMMA CalmKeepsObjects ==
  ASSUME ReverseInv, ReverseInv', ObjectsInv, Calm,
         UNCHANGED <<worker, client, sources, results, backup>>
  PROVE  ObjectsInv'
<1>1. ResultsInv'
  BY CalmKeeps DEF ObjectsInv
<1>2. SourcesInv'
  BY CalmUploads, SourcesTurn DEF ObjectsInv
<1>3. SavedObjectsOK'
  BY SavedStays DEF ObjectsInv
<1>. QED
  BY <1>1, <1>2, <1>3 DEF ObjectsInv

\* Time touches no row in a way that matters to the objects.
LEMMA TimeKeepsObjects ==
  ASSUME ReverseInv, ReverseInv', ObjectsInv, TimeStep
  PROVE  ObjectsInv'
<1>1. UNCHANGED <<worker, client, sources, results, backup>>
  BY DEF TimeStep, LeaseRunsOut, ReconciliationRunsOut, RecoveryRunsOut, serviceVars
<1>2. Calm
  <2>1. CASE \E j \in Jobs : LeaseRunsOut(j)
    <3>1. PICK j \in Jobs : LeaseLapses(j)
      BY <2>1 DEF LeaseRunsOut
    <3>. QED
      BY <3>1, RowIsCalm
  <2>2. CASE ReconciliationRunsOut
    BY <2>2, ReconciliationIsCalm DEF ReconciliationRunsOut
  <2>3. CASE \E s \in CreateSequences : RecoveryRunsOut(s)
    <3>1. PICK s \in CreateSequences : RecoveryLapses(s)
      BY <2>3 DEF RecoveryRunsOut
    <3>. QED
      BY <3>1, RecoveryIsCalm
  <2>4. CASE RetentionPasses \/ \E j \in Jobs : UploadGrowsOld(j)
    <3>1. PICK j \in Jobs : RetentionEnds(j) \/ CleanupLapses(j) \/ UploadGrowsOld(j)
      BY <2>4 DEF RetentionPasses
    <3>. QED
      BY <3>1, RowIsCalm
  <2>. QED
    BY <2>1, <2>2, <2>3, <2>4 DEF TimeStep
<1>. QED
  BY <1>1, <1>2, CalmKeepsObjects

\* The broker does not know of the table and of the store.
LEMMA BrokerKeepsObjects ==
  ASSUME ReverseInv, ReverseInv', ObjectsInv, BrokerRuns \/ BrokerFails \/ UNCHANGED vars
  PROVE  ObjectsInv'
<1>1. UNCHANGED <<jobs, attempts, worker, client, sources, results, backup>>
  BY DEF BrokerRuns, BrokerFails, vars, tableVars, serviceVars
<1>. QED
  BY <1>1, CalmNothing, CalmKeepsObjects

\* Workers keep the objects.
LEMMA WorkersKeepObjects ==
  ASSUME ReverseInv, ReverseInv', ObjectsInv, NEW w \in Workers,
         \/ WorkerStep(w) \/ Beat(w) \/ PutResultFails(w) \/ SucceedAmbiguous(w)
         \/ WorkerDies(w) \/ RequestTimesOut(w) \/ DatabaseFails(w) \/ StopWorker(w)
  PROVE  ObjectsInv'
<1>1. ResultsInv' /\ SourcesInv' /\ UNCHANGED <<client, backup>>
  BY WorkersKeepResults, WorkersKeepSources DEF ObjectsInv
<1>2. SavedObjectsOK'
  BY <1>1, SavedStays DEF ObjectsInv
<1>. QED
  BY <1>1, <1>2 DEF ObjectsInv

\* Submissions keep the objects.
LEMMA ClientsKeepObjects ==
  ASSUME ReverseInv, ReverseInv', ObjectsInv, NEW j \in Jobs,
         ClientStep(j) \/ Cancel(j) \/ SubmitPutFails(j) \/ ClientDies(j)
  PROVE  ObjectsInv'
<1>1. ResultsInv' /\ SourcesInv'
  BY ClientsKeepResults, ClientsKeepSources DEF ObjectsInv
<1>2. SavedObjectsOK'
  BY ClientWrites, SavedStays DEF ObjectsInv
<1>. QED
  BY <1>1, <1>2 DEF ObjectsInv

\* Every step of the service keeps the objects.
LEMMA ObjectsSteps ==
  ASSUME ReverseInv, ReverseInv', ObjectsInv, [ServiceNext]_vars
  PROVE  ObjectsInv'
<1>1. CASE BrokerRuns \/ BrokerFails \/ UNCHANGED vars
  BY <1>1, BrokerKeepsObjects
<1>2. CASE \E j \in Jobs : ClientStep(j) \/ Cancel(j)
  BY <1>2, ClientsKeepObjects
<1>3. CASE \E w \in Workers : WorkerStep(w) \/ Beat(w)
  BY <1>3, WorkersKeepObjects
<1>4. CASE TimeStep
  BY <1>4, TimeKeepsObjects
<1>5. CASE FaultStep
  BY <1>5, ClientsKeepObjects, WorkersKeepObjects, BackupKeepsObjects, RestoreKeepsObjects
     DEF FaultStep
<1>. QED
  BY <1>1, <1>2, <1>3, <1>4, <1>5 DEF ServiceNext

\* Nothing is there at first.
LEMMA ObjectsStart ==
  ASSUME ServiceInit
  PROVE  ObjectsInv
<1>1. /\ jobs = [j \in Jobs |-> NoJob] /\ Known = {}
      /\ \A w \in Workers : worker[w].pc = "new"
      /\ \A j \in Jobs : client[j].pc = "new"
      /\ sources = {} /\ results = {} /\ backup = NULL
  BY DEF ServiceInit, TableInit, Known, NoAttempt, NewWorker
<1>2. \A j \in Jobs : jobs[j].state = "none" /\ ~jobs[j].sourceReady /\ ~jobs[j].cleaned
  BY <1>1 DEF NoJob
<1>3. ResultsInv
  BY <1>1, <1>2 DEF ResultsInv, NumbersApart, RowsAge, ReverseResultAvailable, HolderOK,
     ExecutingSteps, HoldingSteps
<1>4. SourcesInv
  BY <1>1, <1>2 DEF SourcesInv, SubmissionsOK, UploadsOK, ReverseSourceAvailable
<1>. QED
  BY <1>1, <1>3, <1>4 DEF ObjectsInv, SavedObjectsOK

\* The objects are in order in every behaviour of the reverse queue.
LEMMA ObjectsInvariant == ServiceSpec => []ObjectsInv
<1>1. ServiceInit => ObjectsInv
  BY ObjectsStart
<1>2. ReverseInv /\ ReverseInv' /\ ObjectsInv /\ [ServiceNext]_vars => ObjectsInv'
  BY ObjectsSteps
<1>. QED
  BY <1>1, <1>2, ReverseInvariant, PTL DEF ServiceSpec

\* What the invariant says of the store.
LEMMA ObjectsFound ==
  ASSUME ReverseInv, ObjectsInv
  PROVE  /\ ReverseResultAvailable
         /\ NoWorkerDies => ReverseResultsCleaned
         /\ UploadsApart => ReverseSourceAvailable
<1>1. ReverseResultAvailable
  BY DEF ObjectsInv, ResultsInv
<1>2. UploadsApart => ReverseSourceAvailable
  BY DEF ObjectsInv, SourcesInv, UploadsOK
<1>3. ASSUME NoWorkerDies
      PROVE  ReverseResultsCleaned
  <2>1. /\ DOMAIN jobs = Jobs
        /\ \A j \in Jobs : jobs[j].cleaned => Gone(j)
    BY <1>3, ObjectTypes DEF ObjectKinds, ObjectsInv, ResultsInv
  <2>2. DOMAIN worker = Workers
    BY DEF ReverseInv, ServiceTypeOK
  <2>3. \A v \in Workers : worker[v].pc \in HoldingSteps => v \in Alive
    BY <2>2 DEF Alive, HoldingSteps
  <2>. QED
    BY <2>1, <2>3 DEF ReverseResultsCleaned, Gone, Holds, HoldingSteps
<1>. QED
  BY <1>1, <1>2, <1>3

\* Whatever fails, and although the outcome of a commit may stay unknown to the worker that
\* published it, a success names a result that is in the store (publish and
\* _matches_commit, reversion_jobs/worker_publication.py).
THEOREM ReverseResultsStayAvailable == ServiceSpec => []ReverseResultAvailable
<1>1. ReverseInv /\ ObjectsInv => ReverseResultAvailable
  BY ObjectsFound
<1>. QED
  BY <1>1, ReverseInvariant, ObjectsInvariant, PTL

\* While no worker process dies in the middle of anything and the put of a source fails only
\* where no two submissions are about one job, a success has its result, a claimable job has
\* its source, and once a job is cleaned a result of it that is left is in the hands of a
\* worker that will delete it (submit, reversion_jobs/service.py; publish,
\* reversion_jobs/worker_publication.py; cleanup, reversion_jobs/worker_maintenance.py).
THEOREM ReverseObjectsStayKept ==
    NoWorkerDies /\ UploadsApart => (ServiceSpec => []ReverseObjectsKept)
<1>1. NoWorkerDies /\ UploadsApart /\ ReverseInv /\ ObjectsInv => ReverseObjectsKept
  BY ObjectsFound DEF ReverseObjectsKept
<1>2. NoWorkerDies /\ UploadsApart => NoWorkerDies' /\ UploadsApart'
  BY DEF NoWorkerDies, UploadsApart
<1>. QED
  BY <1>1, <1>2, ReverseInvariant, ObjectsInvariant, PTL
============================================================================
