--------------------- MODULE ComposerModelSteps_proofs ----------------------
(***************************************************************************)
(* Theorems about the model steps of a Composer draft, for every finite    *)
(* set of idempotency keys, any number of requests and every limit.        *)
(*                                                                         *)
(* The inductive invariant relates three times: what a step was admitted   *)
(* on, what its thread has read since, and what the draft, the connection  *)
(* and the author entry are now.  Versions and generations only grow, so a *)
(* change under a running step leaves it behind for good, and a thread     *)
(* that finds the generation of the admission again has read nothing else  *)
(* in between.                                                             *)
(***************************************************************************)
EXTENDS ComposerModelSteps, FiniteSetTheorems, TLAPS

\* What the module's type invariant leaves out.
TypesKept ==
    /\ StepTypeOK
    /\ policy \in [enabled : BOOLEAN, version : 0 .. MaxChange]
    /\ author \in [version : 1 .. MaxChange, access : BOOLEAN]
    /\ closed \in BOOLEAN
    /\ now \in 0 .. MaxTime
    /\ sent \in [Keys -> Nat]

\* A step was admitted on something that was there, at or before what is now.
\* Its result and the answer to its question make two versions at most.
RowOK(k) ==
    steps[k].state # "none" =>
        /\ steps[k].base + 2 < MaxVersion
        /\ steps[k].base <= draft.version
        /\ steps[k].generation <= connection.generation
        /\ steps[k].author <= author.version

RowsOK == \A k \in Keys : RowOK(k)

\* What a step was admitted on is in the past.
Outdated(k) ==
    \/ steps[k].base < draft.version
    \/ steps[k].generation < connection.generation
    \/ steps[k].author # 0 /\ steps[k].author < author.version

ChangesSeen ==
    \A k \in Keys : k \in disturbed =>
        /\ steps[k].state \notin {"none", "completed"}
        /\ Running(k) => Outdated(k)

\* What thread t of step k has read.
ThreadOK(k, t) ==
    /\ t.pc # "idle" => steps[k].state # "none"
    /\ t.pc \in {"get", "prepare", "credentials", "authorize"} => sent[k] = 0
    /\ t.pc \in {"credentials", "authorize"} =>
          steps[k].generation <= t.record /\ t.record <= connection.generation
    /\ t.pc = "authorize" =>
          steps[k].generation <= t.credential /\ t.credential <= connection.generation
    /\ t.pc = "called" =>
          t.record = steps[k].generation /\ t.credential = steps[k].generation
    /\ t.pc = "outage" => t.record \in failed

ThreadsOK == \A k \in Keys : ThreadOK(k, runner[k])

SentOK == \A k \in Keys : sent[k] <= 1 /\ (steps[k].state = "none" => sent[k] = 0)

\* A step has one request that starts its thread, which nobody has started yet.
LaunchOK(q) ==
    /\ q.pc \notin {"idle", "refused"} => q.key \in Keys
    /\ q.pc = "launch" =>
          /\ steps[q.key].state # "none"
          /\ runner[q.key].pc = "idle"
          /\ sent[q.key] = 0

LaunchesOK ==
    /\ \A c \in Clients : LaunchOK(request[c])
    /\ \A c, d \in Clients :
          request[c].pc = "launch" /\ request[d].pc = "launch" /\ request[c].key = request[d].key
              => c = d

StepsInv ==
    /\ TypesKept
    /\ RowsOK /\ ChangesSeen
    /\ ThreadsOK /\ SentOK /\ LaunchesOK
    /\ OutageIsCurrent /\ WithinCapacity

\* What every step is shown to be.
Kept == StepsInv' /\ StepEndsOnce /\ RetryIsAnswered

----------------------------------------------------------------------------

\* The bounds are natural numbers.
LEMMA Constants ==
  /\ IsFiniteSet(Keys) /\ None \notin Keys
  /\ MaxActive \in Nat /\ Lease \in Nat /\ MaxActive > 0 /\ Lease > 0
  /\ MaxTime \in Nat /\ MaxVersion \in Nat /\ MaxChange \in Nat
  /\ MaxVersion > 0 /\ MaxChange > 0
  /\ Intents \subseteq {"proposal", "question", "office_edit"} /\ Cites \subseteq BOOLEAN
  BY StepsAssumption

\* The empty rows.
LEMMA EmptyRows ==
  /\ NoStep \in StepRow /\ NoStep.state = "none"
  /\ Idle \in StartRequest /\ Idle.pc = "idle"
  /\ NoThread \in Thread /\ NoThread.pc = "idle"
  BY Constants DEF NoStep, StepRow, Idle, StartRequest, NoThread, Thread

\* Some set of keys, no larger than another one.
LEMMA Fewer ==
  ASSUME NEW S \in SUBSET Keys, NEW T \in SUBSET S
  PROVE  /\ Cardinality(T) \in Nat /\ Cardinality(S) \in Nat
         /\ Cardinality(T) <= Cardinality(S)
  BY Constants, FS_Subset, FS_CardinalityType

\* The first state.
LEMMA InitKept == StepsInit => StepsInv
<1>. SUFFICES ASSUME StepsInit PROVE StepsInv
  OBVIOUS
<1>1. /\ \A k \in Keys : steps[k] = NoStep /\ runner[k] = NoThread /\ sent[k] = 0
      /\ \A c \in Clients : request[c] = Idle
      /\ DOMAIN steps = Keys
  BY DEF StepsInit
<1>2. TypesKept
  <2>1. /\ steps \in [Keys -> StepRow] /\ request \in [Clients -> StartRequest]
        /\ runner \in [Keys -> Thread]
    BY EmptyRows DEF StepsInit
  <2>2. /\ draft \in [state : {"active", "deleting"}, version : 1 .. MaxVersion]
        /\ connection \in ConnectionRow
    BY Constants DEF StepsInit, ConnectionRow
  <2>3. /\ policy \in [enabled : BOOLEAN, version : 0 .. MaxChange]
        /\ author \in [version : 1 .. MaxChange, access : BOOLEAN]
        /\ now \in 0 .. MaxTime
    BY Constants DEF StepsInit
  <2>5. closed \in BOOLEAN
    BY Zenon DEF StepsInit
  <2>4. /\ questions \in [Keys -> {"none", "pending", "answered"}] /\ sent \in [Keys -> Nat]
        /\ \A k \in Keys : questions[k] = "none"
    BY DEF StepsInit
  <2>. QED
    BY <2>1, <2>2, <2>3, <2>4, <2>5 DEF TypesKept, StepTypeOK
<1>3. RowsOK /\ ChangesSeen /\ ThreadsOK /\ SentOK /\ LaunchesOK /\ OutageIsCurrent
  BY <1>1, EmptyRows DEF StepsInit, RowsOK, RowOK, ChangesSeen, ThreadsOK, ThreadOK, SentOK,
     LaunchesOK, LaunchOK, OutageIsCurrent
<1>4. WithinCapacity
  <2>1. {k \in DOMAIN steps : Running(k) /\ ~Lapsed(k)} = {}
    BY <1>1, EmptyRows DEF Running
  <2>. QED
    BY <2>1, Constants, FS_EmptySet DEF WithinCapacity
<1>. QED
  BY <1>2, <1>3, <1>4 DEF StepsInv

----------------------------------------------------------------------------
(* What ends does not come back, and what grows does not shrink.           *)

\* Steps are left alone, or running ones come to an end without a result.
StepsEnd ==
    /\ steps' \in [Keys -> StepRow]
    /\ \A k \in Keys :
          \/ steps'[k] = steps[k]
          \/ /\ Running(k)
             /\ \E state \in {"failed", "cancelled"} :
                   steps'[k] = [steps[k] EXCEPT !.state = state]

\* Versions, generations and the clock only grow.
Later ==
    /\ draft.version <= draft'.version
    /\ connection.generation <= connection'.generation
    /\ author.version <= author'.version
    /\ now <= now'
    /\ failed \subseteq failed'

\* Whatever changes under a running step leaves it behind.
DisturbedFairly ==
    \A k \in Keys : k \in disturbed' => k \in disturbed \/ (Running(k) /\ Outdated(k)')

\* A read of a step ends it at most (get_model_step).
LEMMA ReadEnds ==
  ASSUME StepsInv, NEW k \in Keys
  PROVE  /\ AsRead(k) \in [Keys -> StepRow]
         /\ \A j \in Keys :
               \/ AsRead(k)[j] = steps[j]
               \/ Running(j) /\ AsRead(k)[j] = [steps[j] EXCEPT !.state = "failed"]
<1>1. steps \in [Keys -> StepRow]
  BY DEF StepsInv, TypesKept, StepTypeOK
<1>2. [steps[k] EXCEPT !.state = "failed"] \in StepRow
  BY <1>1 DEF StepRow
<1>3. Expired(k) = [steps EXCEPT ![k] = [steps[k] EXCEPT !.state = "failed"]]
  BY <1>1 DEF Expired
<1>. QED
  BY <1>1, <1>2, <1>3 DEF AsRead

\* What an end leaves of a step.
LEMMA EndLeaves ==
  ASSUME StepsInv, StepsEnd, NEW k \in Keys
  PROVE  /\ steps'[k].base = steps[k].base /\ steps'[k].generation = steps[k].generation
         /\ steps'[k].author = steps[k].author /\ steps'[k].expires = steps[k].expires
         /\ steps'[k].state = "none" <=> steps[k].state = "none"
         /\ steps'[k].state = "completed" <=> steps[k].state = "completed"
         /\ Running(k)' => Running(k)
         /\ ~Running(k) => steps'[k] = steps[k]
<1>1. steps \in [Keys -> StepRow] /\ steps[k] \in StepRow
  BY DEF StepsInv, TypesKept, StepTypeOK
<1>2. CASE steps'[k] = steps[k]
  BY <1>2 DEF Running
<1>3. CASE steps'[k] # steps[k]
  <2>1. PICK state \in {"failed", "cancelled"} :
           Running(k) /\ steps'[k] = [steps[k] EXCEPT !.state = state]
    BY <1>3 DEF StepsEnd
  <2>. QED
    BY <1>1, <2>1 DEF StepRow, Running
<1>. QED
  BY <1>2, <1>3

\* The numbers that the rows compare.
LEMMA NumbersTyped ==
  ASSUME TypesKept
  PROVE  /\ draft.version \in Nat /\ connection.generation \in Nat /\ author.version \in Nat
         /\ now \in Nat /\ policy.version \in Nat
         /\ \A k \in Keys : /\ steps[k].base \in Nat /\ steps[k].generation \in Nat
                            /\ steps[k].author \in Nat /\ steps[k].expires \in Nat
                            /\ runner[k].record \in Nat /\ runner[k].credential \in Nat
                            /\ sent[k] \in Nat
  BY Constants DEF TypesKept, StepTypeOK, ConnectionRow, StepRow, Thread

LEMMA NumbersTypedAfter ==
  ASSUME TypesKept'
  PROVE  /\ draft'.version \in Nat /\ connection'.generation \in Nat
         /\ author'.version \in Nat /\ now' \in Nat /\ policy'.version \in Nat
         /\ \A k \in Keys : /\ steps'[k].base \in Nat /\ steps'[k].generation \in Nat
                            /\ steps'[k].author \in Nat /\ steps'[k].expires \in Nat
                            /\ runner'[k].record \in Nat /\ runner'[k].credential \in Nat
                            /\ sent'[k] \in Nat
  BY Constants DEF TypesKept, StepTypeOK, ConnectionRow, StepRow, Thread

\* No step is admitted: those who hold a lease are no more than before.
LEMMA CapacityKept ==
  ASSUME StepsInv, TypesKept', StepsEnd, now <= now'
  PROVE  WithinCapacity'
<1>1. DOMAIN steps = Keys /\ DOMAIN steps' = Keys
  BY DEF StepsInv, TypesKept, StepTypeOK
<1>2. PICK S : S = {k \in DOMAIN steps : Running(k) /\ ~Lapsed(k)}
  OBVIOUS
<1>3. PICK T : T = {k \in DOMAIN steps : Running(k) /\ ~Lapsed(k)}'
  OBVIOUS
<1>4. \A k \in Keys : Lapsed(k) => Lapsed(k)'
  <2>1. /\ now \in Nat /\ now' \in Nat
        /\ \A k \in Keys : steps[k].expires \in Nat /\ steps'[k].expires = steps[k].expires
    BY NumbersTyped, NumbersTypedAfter, EndLeaves DEF StepsInv
  <2>. QED
    BY <2>1 DEF Lapsed
<1>5. S \in SUBSET Keys /\ T \in SUBSET S
  BY <1>1, <1>2, <1>3, <1>4, EndLeaves
<1>6. Cardinality(S) <= MaxActive
  BY <1>2 DEF StepsInv, WithinCapacity
<1>7. Cardinality(T) <= MaxActive
  BY <1>5, <1>6, Fewer, Constants
<1>. QED
  BY <1>3, <1>7 DEF WithinCapacity

\* The rows of the steps are as true as before.
LEMMA RowsKept ==
  ASSUME StepsInv, TypesKept', StepsEnd, Later, DisturbedFairly
  PROVE  RowsOK' /\ ChangesSeen' /\ WithinCapacity' /\ StepEndsOnce
<1>1. RowsOK'
  <2>. SUFFICES ASSUME NEW k \in Keys PROVE RowOK(k)'
    BY DEF RowsOK
  <2>1. RowOK(k)
    BY DEF StepsInv, RowsOK
  <2>. QED
    BY <2>1, NumbersTyped, NumbersTypedAfter, EndLeaves DEF StepsInv, RowOK, Later
<1>2. ChangesSeen'
  <2>. SUFFICES ASSUME NEW k \in Keys, k \in disturbed'
                PROVE  /\ steps'[k].state \notin {"none", "completed"}
                       /\ Running(k)' => Outdated(k)'
    BY DEF ChangesSeen
  <2>1. CASE k \in disturbed
    <3>1. /\ steps[k].state \notin {"none", "completed"}
          /\ Running(k) => Outdated(k)
      BY <2>1 DEF StepsInv, ChangesSeen
    <3>2. Outdated(k) => Outdated(k)'
      BY NumbersTyped, NumbersTypedAfter, EndLeaves DEF StepsInv, Outdated, Later
    <3>. QED
      BY <3>1, <3>2, EndLeaves
  <2>2. CASE k \notin disturbed
    <3>1. Running(k) /\ Outdated(k)'
      BY <2>2 DEF DisturbedFairly
    <3>. QED
      BY <3>1, EndLeaves DEF Running
  <2>. QED
    BY <2>1, <2>2
<1>3. WithinCapacity'
  BY CapacityKept DEF Later
<1>4. StepEndsOnce
  <2>1. DOMAIN steps = Keys
    BY DEF StepsInv, TypesKept, StepTypeOK
  <2>. QED
    BY <2>1, EndLeaves DEF StepEndsOnce, Running
<1>. QED
  BY <1>1, <1>2, <1>3, <1>4

\* What a thread knows stays true while others go on.
LEMMA ThreadKept ==
  ASSUME StepsInv, TypesKept', StepsEnd, Later, NEW k \in Keys, sent'[k] = sent[k],
         NEW t \in Thread, ThreadOK(k, t)
  PROVE  ThreadOK(k, t)'
<1>1. t.record \in Nat /\ t.credential \in Nat
  BY Constants DEF Thread
<1>. QED
  BY <1>1, NumbersTyped, NumbersTypedAfter, EndLeaves DEF StepsInv, ThreadOK, Later

\* A step that nobody starts or sends leaves the requests that launch as they are.
LEMMA LaunchKept ==
  ASSUME StepsInv, StepsEnd, NEW q, LaunchOK(q),
         q.key \in Keys /\ q.pc = "launch" =>
             runner'[q.key].pc = "idle" /\ sent'[q.key] = sent[q.key]
  PROVE  LaunchOK(q)'
  BY EndLeaves DEF LaunchOK

\* No request is refused that was not refused before.
NoneRefused == \A c \in Clients : request'[c].pc = "refused" => request[c].pc = "refused"

LEMMA RetryUntouched ==
  ASSUME StepsInv, NoneRefused
  PROVE  RetryIsAnswered
<1>1. DOMAIN request = Clients
  BY DEF StepsInv, TypesKept, StepTypeOK
<1>. QED
  BY <1>1 DEF RetryIsAnswered, NoneRefused

----------------------------------------------------------------------------
(* Three kinds of steps: of a request, of a thread, and of everybody else. *)

\* A request goes on, and ends no more than steps whose lease is over.
LEMMA RequestMoves ==
  ASSUME StepsInv, NEW c \in Clients, NEW q \in StartRequest, StepsEnd,
         request' = [request EXCEPT ![c] = q],
         q.pc \notin {"idle", "refused"} => q.key \in Keys, q.pc # "launch",
         UNCHANGED <<draft, questions, connection, policy, author, runner, closed, now,
                     disturbed, sent, failed>>
  PROVE  StepsInv' /\ StepEndsOnce
<1>1. /\ TypesKept /\ request \in [Clients -> StartRequest]
      /\ request' \in [Clients -> StartRequest]
      /\ request'[c] = q /\ \A d \in Clients \ {c} : request'[d] = request[d]
  BY DEF StepsInv, TypesKept, StepTypeOK
<1>2. TypesKept'
  <2>1. \A k \in Keys : questions[k] # "none" => steps'[k].state = "completed"
    BY <1>1, EndLeaves DEF TypesKept, StepTypeOK
  <2>. QED
    BY <1>1, <2>1 DEF TypesKept, StepTypeOK, StepsEnd
<1>3. Later /\ DisturbedFairly
  BY <1>1, NumbersTyped DEF Later, DisturbedFairly
<1>4. RowsOK' /\ ChangesSeen' /\ WithinCapacity' /\ StepEndsOnce
  BY <1>2, <1>3, RowsKept
<1>5. ThreadsOK'
  <2>. SUFFICES ASSUME NEW k \in Keys PROVE ThreadOK(k, runner[k])'
    BY DEF ThreadsOK
  <2>1. runner[k] \in Thread /\ ThreadOK(k, runner[k])
    BY <1>1 DEF StepsInv, ThreadsOK, TypesKept, StepTypeOK
  <2>2. ASSUME NEW t \in Thread, ThreadOK(k, t) PROVE ThreadOK(k, t)'
    BY <1>2, <1>3, <2>2, ThreadKept
  <2>. QED
    BY <2>1, <2>2
<1>6. SentOK' /\ OutageIsCurrent'
  BY EndLeaves DEF StepsInv, SentOK, OutageIsCurrent
<1>7. LaunchesOK'
  <2>1. ASSUME NEW d \in Clients PROVE LaunchOK(request[d])'
    <3>1. CASE d = c
      BY <1>1, <3>1 DEF LaunchOK
    <3>2. CASE d # c
      <4>1. LaunchOK(request[d]) /\ request'[d] = request[d]
        BY <1>1, <3>2 DEF StepsInv, LaunchesOK
      <4>2. ASSUME NEW p, LaunchOK(p) PROVE LaunchOK(p)'
        <5>1. p.key \in Keys /\ p.pc = "launch" =>
                 runner'[p.key].pc = "idle" /\ sent'[p.key] = sent[p.key]
          BY <4>2 DEF LaunchOK
        <5>. QED
          BY <4>2, <5>1, LaunchKept
      <4>. QED
        BY <4>1, <4>2
    <3>. QED
      BY <3>1, <3>2
  <2>. QED
    BY <1>1, <2>1 DEF StepsInv, LaunchesOK
<1>. QED
  BY <1>2, <1>4, <1>5, <1>6, <1>7 DEF StepsInv

\* The thread of one step goes on.
LEMMA ThreadMoves ==
  ASSUME StepsInv, NEW k \in Keys, NEW t \in Thread, StepsEnd, runner[k].pc # "idle",
         runner' = [runner EXCEPT ![k] = t], ThreadOK(k, t)',
         connection' \in ConnectionRow, connection'.generation = connection.generation,
         sent' \in [Keys -> Nat], sent'[k] <= 1, \A j \in Keys \ {k} : sent'[j] = sent[j],
         failed \subseteq failed', OutageIsCurrent',
         UNCHANGED <<draft, questions, policy, author, request, closed, now, disturbed>>
  PROVE  Kept
<1>1. /\ TypesKept /\ runner \in [Keys -> Thread] /\ runner' \in [Keys -> Thread]
      /\ runner'[k] = t /\ \A j \in Keys \ {k} : runner'[j] = runner[j]
  BY DEF StepsInv, TypesKept, StepTypeOK
<1>2. TypesKept'
  <2>1. \A j \in Keys : questions[j] # "none" => steps'[j].state = "completed"
    BY <1>1, EndLeaves DEF TypesKept, StepTypeOK
  <2>. QED
    BY <1>1, <2>1 DEF TypesKept, StepTypeOK, StepsEnd
<1>3. Later /\ DisturbedFairly
  BY <1>1, NumbersTyped DEF Later, DisturbedFairly
<1>4. RowsOK' /\ ChangesSeen' /\ WithinCapacity' /\ StepEndsOnce
  BY <1>2, <1>3, RowsKept
<1>5. ThreadsOK'
  <2>. SUFFICES ASSUME NEW j \in Keys PROVE ThreadOK(j, runner[j])'
    BY DEF ThreadsOK
  <2>1. CASE j = k
    BY <1>1, <2>1
  <2>2. CASE j # k
    <3>1. runner[j] \in Thread /\ ThreadOK(j, runner[j]) /\ runner'[j] = runner[j]
      BY <1>1, <2>2 DEF StepsInv, ThreadsOK
    <3>2. ASSUME NEW p \in Thread, ThreadOK(j, p) PROVE ThreadOK(j, p)'
      BY <1>2, <1>3, <2>2, <3>2, ThreadKept
    <3>. QED
      BY <3>1, <3>2
  <2>. QED
    BY <2>1, <2>2
<1>6. SentOK'
  <2>1. steps[k].state # "none"
    BY DEF StepsInv, ThreadsOK, ThreadOK
  <2>. QED
    BY <2>1, EndLeaves DEF StepsInv, SentOK
<1>7. LaunchesOK'
  <2>1. ASSUME NEW d \in Clients PROVE LaunchOK(request[d])'
    <3>1. LaunchOK(request[d])
      BY DEF StepsInv, LaunchesOK
    <3>2. ASSUME NEW p, LaunchOK(p) PROVE LaunchOK(p)'
      <4>1. p.key \in Keys /\ p.pc = "launch" =>
               runner'[p.key].pc = "idle" /\ sent'[p.key] = sent[p.key]
        BY <1>1, <3>2 DEF LaunchOK
      <4>. QED
        BY <3>2, <4>1, LaunchKept
    <3>. QED
      BY <3>1, <3>2
  <2>. QED
    BY <2>1 DEF StepsInv, LaunchesOK
<1>8. RetryIsAnswered
  BY RetryUntouched DEF NoneRefused
<1>. QED
  BY <1>2, <1>4, <1>5, <1>6, <1>7, <1>8 DEF StepsInv, Kept

\* Something changes around the steps, or some of them are ended.
LEMMA WorldMoves ==
  ASSUME StepsInv, TypesKept', StepsEnd, Later, DisturbedFairly, OutageIsCurrent',
         UNCHANGED <<request, runner, sent>>
  PROVE  Kept
<1>1. RowsOK' /\ ChangesSeen' /\ WithinCapacity' /\ StepEndsOnce
  BY RowsKept
<1>2. ThreadsOK'
  <2>. SUFFICES ASSUME NEW k \in Keys PROVE ThreadOK(k, runner[k])'
    BY DEF ThreadsOK
  <2>1. runner[k] \in Thread /\ ThreadOK(k, runner[k])
    BY DEF StepsInv, ThreadsOK, TypesKept, StepTypeOK
  <2>2. ASSUME NEW t \in Thread, ThreadOK(k, t) PROVE ThreadOK(k, t)'
    BY <2>2, ThreadKept
  <2>. QED
    BY <2>1, <2>2
<1>3. SentOK'
  BY EndLeaves DEF StepsInv, SentOK
<1>4. LaunchesOK'
  <2>1. ASSUME NEW d \in Clients PROVE LaunchOK(request[d])'
    <3>1. LaunchOK(request[d])
      BY DEF StepsInv, LaunchesOK
    <3>2. ASSUME NEW p, LaunchOK(p) PROVE LaunchOK(p)'
      <4>1. p.key \in Keys /\ p.pc = "launch" =>
               runner'[p.key].pc = "idle" /\ sent'[p.key] = sent[p.key]
        BY <3>2 DEF LaunchOK
      <4>. QED
        BY <3>2, <4>1, LaunchKept
    <3>. QED
      BY <3>1, <3>2
  <2>. QED
    BY <2>1 DEF StepsInv, LaunchesOK
<1>5. RetryIsAnswered
  BY RetryUntouched DEF NoneRefused
<1>. QED
  BY <1>1, <1>2, <1>3, <1>4, <1>5 DEF StepsInv, Kept

----------------------------------------------------------------------------
(* The steps of a request.                                                 *)

\* A request as it is, or at another point.
LEMMA RequestFacts ==
  ASSUME StepsInv, NEW c \in Clients
  PROVE  /\ request \in [Clients -> StartRequest] /\ request[c] \in StartRequest
         /\ LaunchOK(request[c])
         /\ \A pc \in {"idle", "preview", "admit", "launch", "again", "refused"} :
               /\ [request[c] EXCEPT !.pc = pc] \in StartRequest
               /\ [request[c] EXCEPT !.pc = pc].pc = pc
               /\ [request[c] EXCEPT !.pc = pc].key = request[c].key
               /\ [request EXCEPT ![c].pc = pc]
                    = [request EXCEPT ![c] = [request[c] EXCEPT !.pc = pc]]
<1>1. request \in [Clients -> StartRequest] /\ LaunchOK(request[c])
  BY DEF StepsInv, TypesKept, StepTypeOK, LaunchesOK
<1>2. ASSUME NEW pc \in {"idle", "preview", "admit", "launch", "again", "refused"}
      PROVE  /\ [request[c] EXCEPT !.pc = pc] \in StartRequest
             /\ [request[c] EXCEPT !.pc = pc].pc = pc
             /\ [request[c] EXCEPT !.pc = pc].key = request[c].key
  BY <1>1 DEF StartRequest
<1>. QED
  BY <1>1, <1>2

\* Steps that nobody touches.
LEMMA NothingEnds ==
  ASSUME StepsInv, UNCHANGED steps
  PROVE  StepsEnd
  BY DEF StepsInv, TypesKept, StepTypeOK, StepsEnd

\* One running step ends without a result.
LEMMA OneEnds ==
  ASSUME StepsInv, NEW k \in Keys, Running(k), NEW state \in {"failed", "cancelled"},
         steps' = [steps EXCEPT ![k].state = state]
  PROVE  StepsEnd
<1>1. steps \in [Keys -> StepRow]
  BY DEF StepsInv, TypesKept, StepTypeOK
<1>2. [steps[k] EXCEPT !.state = state] \in StepRow
  BY <1>1 DEF StepRow
<1>. QED
  BY <1>1, <1>2 DEF StepsEnd

LEMMA ReadIsEnd ==
  ASSUME StepsInv, NEW k \in Keys, steps' = AsRead(k)
  PROVE  StepsEnd
  BY ReadEnds DEF StepsEnd

\* A request asks anew.
LEMMA BeginKept ==
  ASSUME StepsInv, NEW c \in Clients, NEW k \in Keys, NEW intent \in Intents,
         NEW about \in Keys \cup {None}, NEW cites \in Cites,
         BeginStart(c, k, intent, about, cites)
  PROVE  Kept
<1>1. PICK q \in StartRequest :
         /\ q.pc = "lookup" /\ q.key = k /\ request' = [request EXCEPT ![c] = q]
  <2>1. (IF cites THEN author.version ELSE 0) \in 0 .. MaxChange
    BY Constants DEF StepsInv, TypesKept
  <2>2. draft.version \in 0 .. MaxVersion /\ intent \in {"proposal", "question", "office_edit"}
    BY Constants DEF StepsInv, TypesKept, StepTypeOK
  <2>. QED
    BY <2>1, <2>2 DEF BeginStart, StartRequest
<1>2. StepsInv' /\ StepEndsOnce
  BY <1>1, NothingEnds, RequestMoves DEF BeginStart
<1>3. RetryIsAnswered
  BY <1>1, RequestFacts, RetryUntouched DEF NoneRefused
<1>. QED
  BY <1>2, <1>3 DEF Kept

\* The answer of a step that is there (_replayed_step).
LEMMA ReplayKept ==
  ASSUME StepsInv, NEW c \in Clients, NEW otherwise \in {"preview", "admit", "refused"},
         request[c].pc \in {"lookup", "again"}, ReplayedStep(c, otherwise)
  PROVE  Kept
<1>1. request[c].key \in Keys
  BY RequestFacts DEF LaunchOK
<1>2. PICK q \in StartRequest :
         /\ request' = [request EXCEPT ![c] = q] /\ q.key = request[c].key
         /\ q.pc \in {otherwise, "idle", "refused"}
         /\ SameRequest(steps[request[c].key], request[c]) /\ Accessible(request[c])
               => q.pc # "refused"
  BY RequestFacts DEF ReplayedStep, SameRequest
<1>3. StepsEnd
  BY <1>1, NothingEnds, ReadIsEnd DEF ReplayedStep
<1>4. StepsInv' /\ StepEndsOnce
  BY <1>1, <1>2, <1>3, RequestMoves DEF ReplayedStep
<1>5. RetryIsAnswered
  BY <1>2, RequestFacts DEF RetryIsAnswered
<1>. QED
  BY <1>4, <1>5 DEF Kept

LEMMA LookKept ==
  ASSUME StepsInv, NEW c \in Clients, replay_model_step(c) \/ LookAgain(c)
  PROVE  Kept
  BY ReplayKept DEF replay_model_step, LookAgain

LEMMA PreviewKept ==
  ASSUME StepsInv, NEW c \in Clients, Preview(c)
  PROVE  Kept
<1>1. request[c].key \in Keys
  BY RequestFacts DEF LaunchOK, Preview
<1>2. PICK q \in StartRequest :
         /\ request' = [request EXCEPT ![c] = q] /\ q.key = request[c].key
         /\ q.pc \in {"admit", "again"}
  BY RequestFacts DEF Preview, ToRequest
<1>3. StepsInv' /\ StepEndsOnce
  BY <1>1, <1>2, NothingEnds, RequestMoves DEF Preview
<1>4. RetryIsAnswered
  BY <1>2, RequestFacts, RetryUntouched DEF NoneRefused
<1>. QED
  BY <1>3, <1>4 DEF Kept

\* A step is admitted: nothing is known of its key but that nobody has it.
LEMMA AdmitKept ==
  ASSUME StepsInv, NEW c \in Clients, request[c].pc = "admit",
         NEW k \in Keys, k = request[c].key, steps[k].state = "none",
         now + Lease <= MaxTime, draft.version < MaxVersion - 2,
         Admissible(request[c]), ~Busy,
         steps' = [steps EXCEPT ![k] = Admitted(request[c])], ToRequest(c, "launch"),
         UNCHANGED <<draft, questions, connection, policy, author, runner, closed, now,
                     disturbed, sent, failed>>
  PROVE  Kept
<1>1. PICK row \in StepRow :
         /\ row = Admitted(request[c]) /\ row.state = "running"
         /\ row.base = draft.version /\ row.generation = connection.generation
         /\ row.author <= author.version
  <2>1. /\ draft.version \in 0 .. MaxVersion /\ connection.generation \in 0 .. MaxChange
        /\ now + Lease \in 0 .. MaxTime /\ author.version \in Nat
    BY Constants DEF StepsInv, TypesKept, StepTypeOK, ConnectionRow
  <2>2. request[c].author <= author.version
    BY <2>1, Constants DEF Admissible, AuthorAsCited
  <2>3. /\ request[c].intent \in {"proposal", "question", "office_edit"}
        /\ request[c].about \in Keys \cup {None} /\ request[c].author \in 0 .. MaxChange
    BY RequestFacts DEF StartRequest
  <2>4. Admitted(request[c]) \in StepRow
    BY <2>1, <2>3 DEF Admitted, StepRow
  <2>. QED
    BY <2>2, <2>4 DEF Admitted
<1>2. /\ TypesKept /\ steps \in [Keys -> StepRow]
      /\ steps' \in [Keys -> StepRow] /\ steps'[k] = row
      /\ \A j \in Keys \ {k} : steps'[j] = steps[j]
  BY <1>1 DEF StepsInv, TypesKept, StepTypeOK
<1>3. /\ request' \in [Clients -> StartRequest]
      /\ request'[c].pc = "launch" /\ request'[c].key = k
      /\ \A d \in Clients \ {c} : request'[d] = request[d]
  BY RequestFacts DEF ToRequest
<1>4. TypesKept'
  <2>1. \A j \in Keys : questions[j] # "none" => steps'[j].state = "completed"
    BY <1>2 DEF TypesKept, StepTypeOK
  <2>. QED
    BY <1>2, <1>3, <2>1 DEF TypesKept, StepTypeOK
<1>5. RowsOK'
  BY <1>1, <1>2, Constants, NumbersTyped DEF StepsInv, RowsOK, RowOK
<1>6. ChangesSeen'
  BY <1>2 DEF StepsInv, ChangesSeen, Running, Outdated
<1>7. ThreadsOK'
  <2>1. runner[k].pc = "idle" /\ sent[k] = 0
    BY DEF StepsInv, ThreadsOK, ThreadOK, SentOK
  <2>. QED
    BY <1>2, <2>1 DEF StepsInv, ThreadsOK, ThreadOK
<1>8. SentOK' /\ OutageIsCurrent'
  BY <1>1, <1>2 DEF StepsInv, SentOK, OutageIsCurrent
<1>9. LaunchesOK'
  <2>1. \A d \in Clients \ {c} : ~(request[d].pc = "launch" /\ request[d].key = k)
    BY DEF StepsInv, LaunchesOK, LaunchOK
  <2>2. ASSUME NEW d \in Clients PROVE LaunchOK(request[d])'
    <3>1. CASE d = c
      <4>1. runner[k].pc = "idle" /\ sent[k] = 0
        BY DEF StepsInv, ThreadsOK, ThreadOK, SentOK
      <4>. QED
        BY <1>1, <1>2, <1>3, <3>1, <4>1 DEF LaunchOK
    <3>2. CASE d # c
      BY <1>1, <1>2, <1>3, <3>2 DEF StepsInv, LaunchesOK, LaunchOK
    <3>. QED
      BY <3>1, <3>2
  <2>. QED
    BY <1>3, <2>1, <2>2 DEF StepsInv, LaunchesOK
<1>10. WithinCapacity'
  <2>1. PICK S : S = {j \in Keys : Running(j) /\ ~Lapsed(j)}
    OBVIOUS
  <2>2. PICK T : T = {j \in DOMAIN steps : Running(j) /\ ~Lapsed(j)}'
    OBVIOUS
  <2>3. IsFiniteSet(S) /\ Cardinality(S) \in Nat
    BY <2>1, Constants, FS_Subset, FS_CardinalityType
  <2>4. IsFiniteSet(S \cup {k}) /\ Cardinality(S \cup {k}) <= Cardinality(S) + 1
    <3>1. /\ IsFiniteSet(S \cup {k})
          /\ Cardinality(S \cup {k}) = IF k \in S THEN Cardinality(S) ELSE Cardinality(S) + 1
      BY <2>3, FS_AddElement
    <3>. QED
      BY <2>3, <3>1
  <2>5. T \subseteq S \cup {k}
    BY <1>2, <2>1, <2>2 DEF Running, Lapsed
  <2>6. Cardinality(T) \in Nat /\ Cardinality(T) <= Cardinality(S \cup {k})
    BY <2>4, <2>5, FS_Subset, FS_CardinalityType
  <2>7. Cardinality(S) < MaxActive
    BY <2>1, <2>3, Constants DEF Busy
  <2>8. Cardinality(S \cup {k}) \in Nat
    BY <2>4, FS_CardinalityType
  <2>9. Cardinality(T) <= MaxActive
    BY <2>3, <2>4, <2>6, <2>7, <2>8, Constants
  <2>. QED
    BY <2>2, <2>9 DEF WithinCapacity
<1>11. StepEndsOnce
  BY <1>2 DEF StepEndsOnce
<1>12. RetryIsAnswered
  BY <1>3, RetryUntouched DEF NoneRefused
<1>. QED
  BY <1>4, <1>5, <1>6, <1>7, <1>8, <1>9, <1>10, <1>11, <1>12 DEF Kept, StepsInv

LEMMA StartKept ==
  ASSUME StepsInv, NEW c \in Clients, start_model_step(c)
  PROVE  Kept
<1>1. request[c].key \in Keys /\ request[c].pc = "admit"
  BY RequestFacts DEF LaunchOK, start_model_step
<1>2. CASE ToRequest(c, "launch") /\ ~(closed \/ draft.state # "active")
           /\ steps[request[c].key].state = "none" /\ Admissible(request[c]) /\ ~Busy
           /\ steps' = [steps EXCEPT ![request[c].key] = Admitted(request[c])]
  BY <1>1, <1>2, AdmitKept DEF start_model_step
<1>3. CASE steps' \in {steps, AsRead(request[c].key)}
           /\ (\/ ToRequest(c, "idle") \/ ToRequest(c, "again")
               \/ /\ ToRequest(c, "refused")
                  /\ \/ closed \/ draft.state # "active"
                     \/ steps[request[c].key].state = "none")
  <2>1. PICK q \in StartRequest :
           /\ request' = [request EXCEPT ![c] = q] /\ q.key = request[c].key
           /\ q.pc \in {"idle", "again", "refused"}
           /\ q.pc = "refused" => \/ closed \/ draft.state # "active"
                                  \/ steps[request[c].key].state = "none"
    BY <1>3, RequestFacts DEF ToRequest
  <2>2. StepsEnd
    BY <1>1, <1>3, NothingEnds, ReadIsEnd
  <2>3. StepsInv' /\ StepEndsOnce
    BY <1>1, <2>1, <2>2, RequestMoves DEF start_model_step
  <2>4. RetryIsAnswered
    BY <2>1, RequestFacts DEF RetryIsAnswered, SameRequest, Accessible
  <2>. QED
    BY <2>3, <2>4 DEF Kept
<1>. QED
  BY <1>1, <1>2, <1>3 DEF start_model_step, AnswerExisting

\* The thread of an admitted step starts: it is the first of its step.
LEMMA StartThreadKept ==
  ASSUME StepsInv, NEW c \in Clients, NEW k \in Keys, k = request[c].key,
         request[c].pc = "launch",
         runner' = [runner EXCEPT ![k] = [NoThread EXCEPT !.pc = "get"]],
         ToRequest(c, "idle"),
         UNCHANGED <<draft, steps, questions, connection, policy, author, closed, now,
                     disturbed, sent, failed>>
  PROVE  Kept
<1>1. PICK t \in Thread : t = [NoThread EXCEPT !.pc = "get"] /\ t.pc = "get"
  BY EmptyRows DEF Thread
<1>2. /\ TypesKept /\ runner \in [Keys -> Thread]
      /\ runner' \in [Keys -> Thread] /\ runner'[k] = t
      /\ \A j \in Keys \ {k} : runner'[j] = runner[j]
  BY <1>1 DEF StepsInv, TypesKept, StepTypeOK
<1>3. /\ request' \in [Clients -> StartRequest]
      /\ request'[c].pc = "idle" /\ \A d \in Clients \ {c} : request'[d] = request[d]
  BY RequestFacts DEF ToRequest
<1>4. TypesKept'
  BY <1>2, <1>3 DEF TypesKept, StepTypeOK
<1>5. RowsOK' /\ ChangesSeen' /\ SentOK' /\ OutageIsCurrent' /\ WithinCapacity' /\ StepEndsOnce
  <2>1. Later /\ DisturbedFairly /\ StepsEnd
    BY <1>2, NumbersTyped, NothingEnds DEF Later, DisturbedFairly
  <2>. QED
    BY <1>4, <2>1, RowsKept DEF StepsInv, SentOK, OutageIsCurrent
<1>6. ThreadsOK'
  <2>1. steps[k].state # "none" /\ sent[k] = 0
    BY DEF StepsInv, LaunchesOK, LaunchOK
  <2>. QED
    BY <1>1, <1>2, <2>1 DEF StepsInv, ThreadsOK, ThreadOK
<1>7. LaunchesOK'
  <2>1. \A d \in Clients \ {c} : ~(request[d].pc = "launch" /\ request[d].key = k)
    BY DEF StepsInv, LaunchesOK
  <2>. QED
    BY <1>2, <1>3, <2>1 DEF StepsInv, LaunchesOK, LaunchOK
<1>8. RetryIsAnswered
  BY <1>3, RetryUntouched DEF NoneRefused
<1>. QED
  BY <1>4, <1>5, <1>6, <1>7, <1>8 DEF Kept, StepsInv

LEMMA LaunchStepKept ==
  ASSUME StepsInv, NEW c \in Clients, Launch(c)
  PROVE  Kept
<1>1. request[c].key \in Keys /\ request[c].pc = "launch"
  BY RequestFacts DEF LaunchOK, Launch
<1>2. CASE runner' = [runner EXCEPT ![request[c].key] = [NoThread EXCEPT !.pc = "get"]]
           /\ ToRequest(c, "idle") /\ UNCHANGED steps
  BY <1>1, <1>2, StartThreadKept DEF Launch
<1>3. CASE ToRequest(c, "refused") /\ UNCHANGED runner
           /\ steps' = IF Running(request[c].key)
                       THEN [steps EXCEPT ![request[c].key].state =
                               IF closed THEN "cancelled" ELSE "failed"]
                       ELSE steps
  <2>1. StepsEnd
    <3>1. CASE UNCHANGED steps
      BY <3>1, NothingEnds
    <3>2. CASE Running(request[c].key) /\ closed
      <4>1. steps' = [steps EXCEPT ![request[c].key].state = "cancelled"]
        BY <1>3, <3>2
      <4>. QED
        BY <1>1, <3>2, <4>1, OneEnds
    <3>3. CASE Running(request[c].key) /\ ~closed
      <4>1. steps' = [steps EXCEPT ![request[c].key].state = "failed"]
        BY <1>3, <3>3
      <4>. QED
        BY <1>1, <3>3, <4>1, OneEnds
    <3>. QED
      BY <1>3, <3>1, <3>2, <3>3
  <2>2. PICK q \in StartRequest : request' = [request EXCEPT ![c] = q] /\ q.pc = "refused"
    BY <1>3, RequestFacts DEF ToRequest
  <2>3. StepsInv' /\ StepEndsOnce
    BY <1>3, <2>1, <2>2, RequestMoves DEF Launch
  <2>4. RetryIsAnswered
    BY <1>1, <2>2, RequestFacts DEF RetryIsAnswered
  <2>. QED
    BY <2>3, <2>4 DEF Kept
<1>. QED
  BY <1>2, <1>3 DEF Launch

----------------------------------------------------------------------------
(* The steps of a thread.                                                  *)

\* A thread as it is, and at another point.
LEMMA ThreadFacts ==
  ASSUME StepsInv, NEW k \in Keys
  PROVE  /\ runner \in [Keys -> Thread] /\ runner[k] \in Thread /\ ThreadOK(k, runner[k])
         /\ connection \in ConnectionRow /\ sent \in [Keys -> Nat] /\ sent[k] <= 1
         /\ runner[k].record \in Nat /\ runner[k].credential \in Nat
  BY Constants DEF StepsInv, TypesKept, StepTypeOK, ThreadsOK, SentOK, Thread

LEMMA ThreadGoes ==
  ASSUME StepsInv, NEW k \in Keys,
         NEW pc \in {"idle", "get", "prepare", "credentials", "authorize", "called", "outage",
                     "fence", "clear", "clock", "finish", "failing", "cancelling"},
         ToThread(k, pc)
  PROVE  \E t \in Thread :
            /\ runner' = [runner EXCEPT ![k] = t] /\ t.pc = pc
            /\ t.record = runner[k].record /\ t.credential = runner[k].credential
<1>1. PICK t : t = [runner[k] EXCEPT !.pc = pc]
  OBVIOUS
<1>2. runner \in [Keys -> Thread] /\ runner[k] \in Thread
  BY ThreadFacts
<1>3. /\ t \in Thread /\ t.pc = pc
      /\ t.record = runner[k].record /\ t.credential = runner[k].credential
  BY <1>1, <1>2 DEF Thread
<1>4. runner' = [runner EXCEPT ![k] = t]
  BY <1>1, <1>2 DEF ToThread
<1>. QED
  BY <1>3, <1>4

\* At these points a thread relies on nothing that it has read, only on its row.
LEMMA Carefree ==
  ASSUME StepsInv, NEW k \in Keys, StepsEnd, runner[k].pc # "idle", NEW t,
         t.pc \in {"idle", "fence", "clear", "clock", "finish", "failing", "cancelling"}
  PROVE  ThreadOK(k, t)'
  BY ThreadFacts, EndLeaves DEF ThreadOK

LEMMA ReadStepKept ==
  ASSUME StepsInv, NEW k \in Keys, ReadStep(k)
  PROVE  Kept
<1>1. PICK t \in Thread :
         runner' = [runner EXCEPT ![k] = t] /\ t.pc \in {"prepare", "idle"}
  <2>1. PICK pc \in {"prepare", "idle"} : ToThread(k, pc)
    BY Zenon DEF ReadStep
  <2>. QED
    BY <2>1, ThreadGoes
<1>2. StepsEnd
  BY ReadIsEnd DEF ReadStep
<1>3. ThreadOK(k, t)'
  BY <1>1, <1>2, ThreadFacts, EndLeaves DEF ReadStep, ThreadOK
<1>4. OutageIsCurrent'
  BY DEF StepsInv, OutageIsCurrent, ReadStep
<1>. QED
  BY <1>1, <1>2, <1>3, <1>4, ThreadFacts, ThreadMoves DEF ReadStep

LEMMA PrepareKept ==
  ASSUME StepsInv, NEW k \in Keys, PrepareRecord(k)
  PROVE  Kept
<1>1. PICK t \in Thread :
         /\ runner' = [runner EXCEPT ![k] = t]
         /\ t.pc \in {"cancelling", "credentials", "failing"}
         /\ t.record = connection.generation
  <2>1. PICK pc \in {"cancelling", "credentials", "failing"} :
           runner' = [runner EXCEPT ![k].pc = pc, ![k].record = connection.generation,
                                    ![k].policy = policy.version]
    BY Zenon DEF PrepareRecord
  <2>2. PICK t : t = [runner[k] EXCEPT !.pc = pc, !.record = connection.generation,
                                       !.policy = policy.version]
    OBVIOUS
  <2>3. connection.generation \in 0 .. MaxChange /\ policy.version \in 0 .. MaxChange
    BY Constants DEF StepsInv, TypesKept, StepTypeOK, ConnectionRow
  <2>6. runner[k] \in Thread
    BY ThreadFacts
  <2>4. t \in Thread /\ t.pc = pc /\ t.record = connection.generation
    BY <2>2, <2>3, <2>6 DEF Thread
  <2>5. runner' = [runner EXCEPT ![k] = t]
    BY <2>1, <2>2, ThreadFacts
  <2>. QED
    BY <2>4, <2>5
<1>2. StepsEnd
  BY NothingEnds DEF PrepareRecord
<1>3. ThreadOK(k, t)'
  <2>1. RowOK(k) /\ TypesKept
    BY DEF StepsInv, RowsOK
  <2>. QED
    BY <1>1, <2>1, ThreadFacts, NumbersTyped DEF PrepareRecord, ThreadOK, RowOK
<1>4. OutageIsCurrent'
  BY DEF StepsInv, OutageIsCurrent, PrepareRecord
<1>. QED
  BY <1>1, <1>2, <1>3, <1>4, ThreadFacts, ThreadMoves DEF PrepareRecord

LEMMA CredentialsKept ==
  ASSUME StepsInv, NEW k \in Keys, OpenCredentials(k)
  PROVE  Kept
<1>1. PICK t \in Thread :
         /\ runner' = [runner EXCEPT ![k] = t]
         /\ t.pc \in {"cancelling", "authorize", "failing"}
         /\ t.record = runner[k].record /\ t.credential = connection.generation
  <2>1. PICK pc \in {"cancelling", "authorize", "failing"} :
           runner' = [runner EXCEPT ![k].credential = connection.generation, ![k].pc = pc]
    BY Zenon DEF OpenCredentials
  <2>2. PICK t : t = [runner[k] EXCEPT !.credential = connection.generation, !.pc = pc]
    OBVIOUS
  <2>3. connection.generation \in 0 .. MaxChange
    BY Constants DEF StepsInv, TypesKept, StepTypeOK, ConnectionRow
  <2>6. runner[k] \in Thread
    BY ThreadFacts
  <2>4. /\ t \in Thread /\ t.pc = pc /\ t.record = runner[k].record
        /\ t.credential = connection.generation
    BY <2>2, <2>3, <2>6 DEF Thread
  <2>5. runner' = [runner EXCEPT ![k] = t]
    BY <2>1, <2>2, ThreadFacts
  <2>. QED
    BY <2>4, <2>5
<1>2. StepsEnd
  BY NothingEnds DEF OpenCredentials
<1>3. ThreadOK(k, t)'
  <2>1. RowOK(k) /\ TypesKept
    BY DEF StepsInv, RowsOK
  <2>. QED
    BY <1>1, <2>1, ThreadFacts, NumbersTyped DEF OpenCredentials, ThreadOK, RowOK
<1>4. OutageIsCurrent'
  BY DEF StepsInv, OutageIsCurrent, OpenCredentials
<1>. QED
  BY <1>1, <1>2, <1>3, <1>4, ThreadFacts, ThreadMoves DEF OpenCredentials

\* The last check before egress finds the generation of the admission, so what
\* was read in between is of that generation too.
LEMMA DispatchKept ==
  ASSUME StepsInv, NEW k \in Keys, authorize_before_dispatch(k)
  PROVE  Kept
<1>1. runner[k].pc = "authorize" /\ steps[k].state # "none" /\ sent[k] = 0
  BY ThreadFacts DEF authorize_before_dispatch, ThreadOK
<1>2. StepsEnd
  BY NothingEnds DEF authorize_before_dispatch
<1>3. OutageIsCurrent'
  BY DEF StepsInv, OutageIsCurrent, authorize_before_dispatch
<1>6. /\ UNCHANGED <<draft, questions, connection, policy, author, request, closed, now, disturbed>>
      /\ connection' \in ConnectionRow /\ connection'.generation = connection.generation
      /\ failed \subseteq failed'
  BY ThreadFacts DEF authorize_before_dispatch
<1>4. CASE Dispatchable(k) /\ ~runner[k].cancel
  <2>1. PICK t \in Thread :
           /\ runner' = [runner EXCEPT ![k] = t] /\ t.pc = "called"
           /\ t.record = runner[k].record /\ t.credential = runner[k].credential
    <3>1. ToThread(k, "called")
      BY <1>4 DEF authorize_before_dispatch, Onward
    <3>. QED
      BY <3>1, ThreadGoes
  <2>2. /\ sent' \in [Keys -> Nat] /\ sent'[k] <= 1
        /\ \A j \in Keys \ {k} : sent'[j] = sent[j]
    BY <1>1, <1>4, ThreadFacts DEF authorize_before_dispatch
  <2>3. ThreadOK(k, t)'
    <3>1. t.record = steps[k].generation /\ t.credential = steps[k].generation
      <4>1. connection.generation = steps[k].generation
        BY <1>4 DEF Dispatchable, Fenced
      <4>2. /\ steps[k].generation <= t.record /\ t.record <= connection.generation
            /\ steps[k].generation <= t.credential /\ t.credential <= connection.generation
        BY <1>1, <2>1, ThreadFacts DEF ThreadOK
      <4>3. steps[k].generation \in Nat /\ t.record \in Nat /\ t.credential \in Nat
        BY <2>1, ThreadFacts, NumbersTyped DEF StepsInv
      <4>. QED
        BY <4>1, <4>2, <4>3
    <3>. QED
      BY <1>1, <2>1, <3>1 DEF authorize_before_dispatch, ThreadOK
  <2>. QED
    BY <1>1, <1>2, <1>3, <1>6, <2>1, <2>2, <2>3, ThreadMoves
<1>5. CASE ~(Dispatchable(k) /\ ~runner[k].cancel)
  <2>1. PICK t \in Thread :
           runner' = [runner EXCEPT ![k] = t] /\ t.pc \in {"cancelling", "failing"}
    <3>1. PICK pc \in {"cancelling", "failing"} : ToThread(k, pc)
      BY <1>5, Zenon DEF authorize_before_dispatch, Onward
    <3>. QED
      BY <3>1, ThreadGoes
  <2>2. /\ sent' \in [Keys -> Nat] /\ sent'[k] <= 1
        /\ \A j \in Keys \ {k} : sent'[j] = sent[j]
    BY <1>5, ThreadFacts DEF authorize_before_dispatch
  <2>3. ThreadOK(k, t)'
    BY <1>1, <1>2, <2>1, Carefree
  <2>. QED
    BY <1>1, <1>2, <1>3, <1>6, <2>1, <2>2, <2>3, ThreadMoves
<1>. QED
  BY <1>4, <1>5

LEMMA AnswersKept ==
  ASSUME StepsInv, NEW k \in Keys, ProviderAnswers(k)
  PROVE  Kept
<1>1. PICK t \in Thread :
         /\ runner' = [runner EXCEPT ![k] = t] /\ t.record = runner[k].record
         /\ t.pc \in {"cancelling", "fence", "outage", "failing"}
         /\ t.pc = "outage" => t.record \in failed'
  <2>1. PICK pc \in {"cancelling", "fence", "outage", "failing"} :
           ToThread(k, pc) /\ (pc = "outage" => runner[k].record \in failed')
    BY DEF ProviderAnswers
  <2>. QED
    BY <2>1, ThreadGoes
<1>2. StepsEnd
  BY NothingEnds DEF ProviderAnswers
<1>3. ThreadOK(k, t)'
  BY <1>1, ThreadFacts DEF ProviderAnswers, ThreadOK
<1>4. OutageIsCurrent' /\ failed \subseteq failed'
  BY DEF StepsInv, OutageIsCurrent, ProviderAnswers
<1>. QED
  BY <1>1, <1>2, <1>3, <1>4, ThreadFacts, ThreadMoves DEF ProviderAnswers

\* A call marks the connection, or clears its mark, with the generation it was
\* made with (set_outage).
LEMMA OutageSet ==
  ASSUME StepsInv, NEW k \in Keys, NEW outage \in BOOLEAN, set_outage(k, outage),
         outage => runner[k].record \in failed, UNCHANGED failed
  PROVE  /\ connection' \in ConnectionRow /\ connection'.generation = connection.generation
         /\ OutageIsCurrent'
<1>1. connection \in ConnectionRow
  BY ThreadFacts
<1>2. CASE connection' = connection
  BY <1>1, <1>2 DEF StepsInv, OutageIsCurrent
<1>3. CASE /\ connection.generation = runner[k].record
           /\ connection' = [connection EXCEPT !.outage = outage]
  <2>1. /\ connection' \in ConnectionRow /\ connection'.generation = connection.generation
        /\ connection'.outage = outage
    BY <1>1, <1>3 DEF ConnectionRow
  <2>. QED
    BY <1>3, <2>1 DEF OutageIsCurrent
<1>. QED
  BY <1>2, <1>3 DEF set_outage

LEMMA RecordOutageKept ==
  ASSUME StepsInv, NEW k \in Keys, RecordOutage(k)
  PROVE  Kept
<1>1. PICK t \in Thread : runner' = [runner EXCEPT ![k] = t] /\ t.pc = "failing"
  BY ThreadGoes DEF RecordOutage
<1>2. StepsEnd /\ runner[k].pc # "idle" /\ sent' = sent
  BY NothingEnds DEF RecordOutage
<1>3. ThreadOK(k, t)'
  BY <1>1, <1>2, Carefree
<1>4. /\ connection' \in ConnectionRow /\ connection'.generation = connection.generation
      /\ OutageIsCurrent'
  BY ThreadFacts, OutageSet DEF RecordOutage, ThreadOK
<1>. QED
  BY <1>1, <1>2, <1>3, <1>4, ThreadFacts, ThreadMoves DEF RecordOutage

LEMMA ClearOutageKept ==
  ASSUME StepsInv, NEW k \in Keys, ClearOutage(k)
  PROVE  Kept
<1>1. PICK t \in Thread :
         runner' = [runner EXCEPT ![k] = t] /\ t.pc \in {"cancelling", "clock", "failing"}
  <2>1. PICK pc \in {"cancelling", "clock", "failing"} : ToThread(k, pc)
    BY Zenon DEF ClearOutage, Onward
  <2>. QED
    BY <2>1, ThreadGoes
<1>2. StepsEnd /\ runner[k].pc # "idle" /\ sent' = sent
  BY NothingEnds DEF ClearOutage
<1>3. ThreadOK(k, t)'
  BY <1>1, <1>2, Carefree
<1>4. /\ connection' \in ConnectionRow /\ connection'.generation = connection.generation
      /\ OutageIsCurrent'
  BY OutageSet DEF ClearOutage
<1>. QED
  BY <1>1, <1>2, <1>3, <1>4, ThreadFacts, ThreadMoves DEF ClearOutage

LEMMA FenceKept ==
  ASSUME StepsInv, NEW k \in Keys, Fence(k)
  PROVE  Kept
<1>1. PICK t \in Thread :
         runner' = [runner EXCEPT ![k] = t] /\ t.pc \in {"cancelling", "clear", "failing"}
  <2>1. PICK pc \in {"cancelling", "clear", "failing"} : ToThread(k, pc)
    BY Zenon DEF Fence, Onward
  <2>. QED
    BY <2>1, ThreadGoes
<1>2. StepsEnd /\ runner[k].pc # "idle"
  BY NothingEnds DEF Fence
<1>3. ThreadOK(k, t)'
  BY <1>1, <1>2, Carefree
<1>4. OutageIsCurrent'
  BY DEF StepsInv, OutageIsCurrent, Fence
<1>. QED
  BY <1>1, <1>2, <1>3, <1>4, ThreadFacts, ThreadMoves DEF Fence

LEMMA ClockKept ==
  ASSUME StepsInv, NEW k \in Keys, ReadClock(k)
  PROVE  Kept
<1>1. PICK t \in Thread :
         runner' = [runner EXCEPT ![k] = t] /\ t.pc \in {"idle", "finish"}
  <2>1. PICK pc \in {"idle", "finish"} :
           runner' = [runner EXCEPT ![k].pc = pc, ![k].clock = now]
    BY Zenon DEF ReadClock
  <2>2. PICK t : t = [runner[k] EXCEPT !.pc = pc, !.clock = now]
    OBVIOUS
  <2>3. runner[k] \in Thread /\ runner \in [Keys -> Thread] /\ now \in 0 .. MaxTime
    BY ThreadFacts DEF StepsInv, TypesKept
  <2>4. t \in Thread /\ t.pc = pc
    BY <2>2, <2>3 DEF Thread
  <2>5. runner' = [runner EXCEPT ![k] = t]
    BY <2>1, <2>2, <2>3
  <2>. QED
    BY <2>4, <2>5
<1>2. StepsEnd /\ runner[k].pc # "idle"
  BY NothingEnds DEF ReadClock
<1>3. ThreadOK(k, t)'
  BY <1>1, <1>2, Carefree
<1>4. OutageIsCurrent'
  BY DEF StepsInv, OutageIsCurrent, ReadClock
<1>. QED
  BY <1>1, <1>2, <1>3, <1>4, ThreadFacts, ThreadMoves DEF ReadClock

LEMMA TerminalizeKept ==
  ASSUME StepsInv, NEW k \in Keys, Terminalize(k)
  PROVE  Kept
<1>1. PICK t \in Thread : runner' = [runner EXCEPT ![k] = t] /\ t.pc = "idle"
  BY ThreadGoes DEF Terminalize
<1>2. StepsEnd
  <2>1. CASE Running(k) /\ (\E state \in {"failed", "cancelled"} :
                                steps' = [steps EXCEPT ![k].state = state])
    <3>1. PICK state \in {"failed", "cancelled"} : steps' = [steps EXCEPT ![k].state = state]
      BY <2>1
    <3>. QED
      BY <2>1, <3>1, OneEnds
  <2>2. CASE UNCHANGED steps
    BY <2>2, NothingEnds
  <2>3. \/ UNCHANGED steps
        \/ Running(k) /\ (\E state \in {"failed", "cancelled"} :
                                steps' = [steps EXCEPT ![k].state = state])
    BY Zenon DEF Terminalize
  <2>. QED
    BY <2>1, <2>2, <2>3
<1>3. runner[k].pc # "idle"
  BY DEF Terminalize
<1>4. ThreadOK(k, t)'
  BY <1>1, <1>2, <1>3, Carefree
<1>5. OutageIsCurrent'
  BY DEF StepsInv, OutageIsCurrent, Terminalize
<1>. QED
  BY <1>1, <1>2, <1>4, <1>5, <1>3, ThreadFacts, ThreadMoves DEF Terminalize

LEMMA WatchKept ==
  ASSUME StepsInv, NEW k \in Keys, Watch(k)
  PROVE  Kept
<1>1. PICK t \in Thread :
         /\ runner' = [runner EXCEPT ![k] = t] /\ t.pc = runner[k].pc
         /\ t.record = runner[k].record /\ t.credential = runner[k].credential
  <2>1. PICK t : t = [runner[k] EXCEPT !.cancel = TRUE]
    OBVIOUS
  <2>2. runner[k] \in Thread /\ runner \in [Keys -> Thread]
    BY ThreadFacts
  <2>3. /\ t \in Thread /\ t.pc = runner[k].pc
        /\ t.record = runner[k].record /\ t.credential = runner[k].credential
    BY <2>1, <2>2 DEF Thread
  <2>4. runner' = [runner EXCEPT ![k] = t]
    BY <2>1, <2>2 DEF Watch
  <2>. QED
    BY <2>3, <2>4
<1>2. StepsEnd /\ runner[k].pc # "idle"
  BY ReadIsEnd DEF Watch
<1>3. ThreadOK(k, t)'
  BY <1>1, <1>2, ThreadFacts, EndLeaves DEF Watch, ThreadOK
<1>4. OutageIsCurrent'
  BY DEF StepsInv, OutageIsCurrent, Watch
<1>. QED
  BY <1>1, <1>2, <1>3, <1>4, ThreadFacts, ThreadMoves DEF Watch

\* A step is published: nothing that it rests on has changed, and the others
\* that run are left behind.
LEMMA PublishKept ==
  ASSUME StepsInv, NEW k \in Keys, runner[k].pc = "finish", Publishable(k),
         finish_model_step(k)
  PROVE  Kept
<1>1. /\ TypesKept /\ steps \in [Keys -> StepRow] /\ runner \in [Keys -> Thread]
      /\ draft \in [state : {"active", "deleting"}, version : 1 .. MaxVersion]
      /\ questions \in [Keys -> {"none", "pending", "answered"}]
  BY DEF StepsInv, TypesKept, StepTypeOK
<1>2. /\ Running(k) /\ draft.version = steps[k].base /\ ~Outdated(k)
  <2>1. RowOK(k)
    BY DEF StepsInv, RowsOK
  <2>. QED
    BY <1>1, <2>1, NumbersTyped
       DEF Publishable, Fenced, Outdated, RowOK, AuthorAsCited, Running
<1>3. PICK row \in StepRow :
         /\ row = [steps[k] EXCEPT !.state = "completed"] /\ row.state = "completed"
         /\ row.base = steps[k].base /\ row.generation = steps[k].generation
         /\ row.author = steps[k].author /\ row.expires = steps[k].expires
  <2>1. [steps[k] EXCEPT !.state = "completed"] \in StepRow
    BY <1>1 DEF StepRow
  <2>. QED
    BY <1>1, <2>1 DEF StepRow
<1>4. /\ steps' \in [Keys -> StepRow] /\ steps'[k] = row
      /\ \A j \in Keys \ {k} : steps'[j] = steps[j]
  BY <1>1, <1>3 DEF finish_model_step
<1>5. PICK t \in Thread :
         runner' = [runner EXCEPT ![k] = t] /\ t.pc = "idle"
  BY ThreadGoes DEF finish_model_step
<1>6. /\ runner' \in [Keys -> Thread] /\ runner'[k] = t
      /\ \A j \in Keys \ {k} : runner'[j] = runner[j]
  BY <1>1, <1>5
<1>7. /\ draft' \in [state : {"active", "deleting"}, version : 1 .. MaxVersion]
      /\ draft'.version = draft.version + 1
  <2>1. draft.version + 1 \in 1 .. MaxVersion
    BY <1>1, <1>2, Constants, NumbersTyped DEF StepsInv, RowsOK, RowOK, Running
  <2>2. draft' = [draft EXCEPT !.version = draft.version + 1]
    BY DEF finish_model_step
  <2>. QED
    BY <1>1, <2>1, <2>2
<1>8. /\ questions' \in [Keys -> {"none", "pending", "answered"}]
      /\ \A j \in Keys \ {k} : questions'[j] = questions[j]
  BY <1>1 DEF finish_model_step
<1>9. UNCHANGED <<connection, policy, author, request, closed, now, sent, failed>>
  BY DEF finish_model_step
<1>10. TypesKept'
  <2>1. \A j \in Keys : questions'[j] # "none" => steps'[j].state = "completed"
    <3>1. \A j \in Keys \ {k} : questions[j] # "none" => steps[j].state = "completed"
      BY <1>1 DEF TypesKept, StepTypeOK
    <3>. QED
      BY <1>3, <1>4, <1>8, <3>1
  <2>. QED
    BY <1>1, <1>4, <1>6, <1>7, <1>8, <1>9, <2>1 DEF TypesKept, StepTypeOK
<1>11. RowsOK'
  <2>. SUFFICES ASSUME NEW j \in Keys PROVE RowOK(j)'
    BY DEF RowsOK
  <2>1. RowOK(j) /\ RowOK(k) /\ steps[k].state # "none"
    BY <1>2 DEF StepsInv, RowsOK, Running
  <2>2. /\ steps'[j].base = steps[j].base /\ steps'[j].generation = steps[j].generation
        /\ steps'[j].author = steps[j].author
        /\ steps'[j].state # "none" => steps[j].state # "none"
    BY <1>3, <1>4, <2>1
  <2>3. draft.version \in Nat /\ steps[j].base \in Nat
    BY <1>1, NumbersTyped
  <2>. QED
    BY <1>7, <1>9, <2>1, <2>2, <2>3 DEF RowOK
<1>12. ChangesSeen'
  <2>1. disturbed' = disturbed \cup {j \in Keys \ {k} : Running(j)}
    BY Zenon DEF finish_model_step, Disturb
  <2>2. k \notin disturbed
    BY <1>2 DEF StepsInv, ChangesSeen
  <2>. SUFFICES ASSUME NEW j \in Keys, j \in disturbed'
                PROVE  /\ steps'[j].state \notin {"none", "completed"}
                       /\ Running(j)' => Outdated(j)'
    BY DEF ChangesSeen
  <2>3. j # k /\ steps'[j] = steps[j]
    BY <1>4, <2>1, <2>2
  <2>4. steps[j].state \notin {"none", "completed"}
    BY <2>1 DEF StepsInv, ChangesSeen, Running
  <2>5. Running(j) => Outdated(j)'
    <3>1. Running(j) => steps[j].base < draft'.version
      BY <1>1, <1>7, NumbersTyped DEF StepsInv, RowsOK, RowOK, Running
    <3>. QED
      BY <2>3, <3>1 DEF Outdated
  <2>. QED
    BY <2>3, <2>4, <2>5 DEF Running
<1>13. ThreadsOK'
  <2>. SUFFICES ASSUME NEW j \in Keys PROVE ThreadOK(j, runner[j])'
    BY DEF ThreadsOK
  <2>1. ThreadOK(j, runner[j])
    BY DEF StepsInv, ThreadsOK
  <2>. QED
    BY <1>4, <1>5, <1>6, <1>9, <2>1 DEF ThreadOK
<1>14. SentOK' /\ OutageIsCurrent'
  BY <1>2, <1>3, <1>4, <1>9 DEF StepsInv, SentOK, OutageIsCurrent, Running
<1>15. LaunchesOK'
  <2>1. ASSUME NEW d \in Clients PROVE LaunchOK(request[d])'
    BY <1>3, <1>4, <1>5, <1>6, <1>9 DEF StepsInv, LaunchesOK, LaunchOK
  <2>. QED
    BY <1>9, <2>1 DEF StepsInv, LaunchesOK
<1>16. WithinCapacity'
  <2>1. PICK S : S = {j \in DOMAIN steps : Running(j) /\ ~Lapsed(j)}
    OBVIOUS
  <2>2. PICK T : T = {j \in DOMAIN steps : Running(j) /\ ~Lapsed(j)}'
    OBVIOUS
  <2>3. S \in SUBSET Keys /\ T \in SUBSET S
    BY <1>1, <1>3, <1>4, <1>9, <2>1, <2>2 DEF Running, Lapsed
  <2>4. Cardinality(S) <= MaxActive
    BY <2>1 DEF StepsInv, WithinCapacity
  <2>5. Cardinality(T) <= MaxActive
    BY <2>3, <2>4, Fewer, Constants
  <2>. QED
    BY <2>2, <2>5 DEF WithinCapacity
<1>17. StepEndsOnce
  BY <1>1, <1>2, <1>4 DEF StepEndsOnce, Running
<1>18. RetryIsAnswered
  BY <1>9, RetryUntouched DEF NoneRefused
<1>. QED
  BY <1>10, <1>11, <1>12, <1>13, <1>14, <1>15, <1>16, <1>17, <1>18 DEF Kept, StepsInv

LEMMA FinishKept ==
  ASSUME StepsInv, NEW k \in Keys, finish_model_step(k)
  PROVE  Kept
<1>1. CASE Publishable(k)
  BY <1>1, PublishKept DEF finish_model_step
<1>2. CASE ~Publishable(k)
  <2>1. PICK t \in Thread : runner' = [runner EXCEPT ![k] = t] /\ t.pc = "failing"
    BY <1>2, ThreadGoes DEF finish_model_step
  <2>2. StepsEnd /\ runner[k].pc # "idle"
    BY <1>2, NothingEnds DEF finish_model_step
  <2>3. ThreadOK(k, t)'
    BY <2>1, <2>2, Carefree
  <2>4. /\ OutageIsCurrent'
        /\ UNCHANGED <<draft, questions, connection, policy, author, request, closed, now,
                       disturbed, sent, failed>>
    BY <1>2 DEF StepsInv, OutageIsCurrent, finish_model_step
  <2>. QED
    BY <2>1, <2>2, <2>3, <2>4, ThreadFacts, ThreadMoves
<1>. QED
  BY <1>1, <1>2

----------------------------------------------------------------------------
(* Everybody else.                                                         *)

\* A new version of the draft leaves every running step behind.
LEMMA DraftMoves ==
  ASSUME StepsInv, draft.version + 1 <= MaxVersion,
         draft' = [draft EXCEPT !.version = @ + 1], Disturb(Keys),
         questions' \in [Keys -> {"none", "pending", "answered"}],
         \A k \in Keys : questions'[k] # "none" => questions[k] # "none",
         UNCHANGED <<steps, connection, policy, author, request, runner, closed, now, sent,
                     failed>>
  PROVE  Kept
<1>1. /\ TypesKept /\ draft \in [state : {"active", "deleting"}, version : 1 .. MaxVersion]
  BY DEF StepsInv, TypesKept, StepTypeOK
<1>2. /\ draft' \in [state : {"active", "deleting"}, version : 1 .. MaxVersion]
      /\ draft'.version = draft.version + 1
  <2>1. draft.version + 1 \in 1 .. MaxVersion
    BY <1>1, Constants
  <2>. QED
    BY <1>1, <2>1
<1>3. TypesKept'
  BY <1>1, <1>2 DEF TypesKept, StepTypeOK
<1>4. StepsEnd /\ Later
  BY <1>1, <1>2, NothingEnds, NumbersTyped DEF Later
<1>5. DisturbedFairly
  <2>1. ASSUME NEW k \in Keys, Running(k) PROVE Outdated(k)'
    <3>1. steps[k].base <= draft.version
      BY <2>1 DEF StepsInv, RowsOK, RowOK, Running
    <3>2. steps'[k].base < draft'.version
      BY <1>1, <1>2, <3>1, NumbersTyped
    <3>. QED
      BY <3>2 DEF Outdated
  <2>. QED
    BY <2>1 DEF DisturbedFairly, Disturb
<1>6. OutageIsCurrent'
  BY DEF StepsInv, OutageIsCurrent
<1>. QED
  BY <1>3, <1>4, <1>5, <1>6, WorldMoves

LEMMA AnswerKept ==
  ASSUME StepsInv, NEW k \in Keys, answer_question(k)
  PROVE  Kept
<1>1. questions \in [Keys -> {"none", "pending", "answered"}] /\ questions[k] = "pending"
  BY DEF StepsInv, TypesKept, StepTypeOK, answer_question
<1>2. draft.version + 1 <= MaxVersion
  <2>1. steps[k].state = "completed"
    BY <1>1 DEF StepsInv, TypesKept, StepTypeOK
  <2>2. steps[k].base + 2 < MaxVersion /\ draft.version = steps[k].base + 1
    BY <2>1 DEF StepsInv, RowsOK, RowOK, answer_question
  <2>. QED
    BY <2>2, Constants, NumbersTyped DEF StepsInv
<1>3. /\ questions' \in [Keys -> {"none", "pending", "answered"}]
      /\ \A j \in Keys : questions'[j] # "none" => questions[j] # "none"
  BY <1>1 DEF answer_question
<1>. QED
  BY <1>2, <1>3, DraftMoves DEF answer_question

LEMMA EditKept ==
  ASSUME StepsInv, EditDraft
  PROVE  Kept
<1>1. draft.version + 1 <= MaxVersion
  BY Constants, NumbersTyped DEF StepsInv, EditDraft
<1>2. questions \in [Keys -> {"none", "pending", "answered"}]
  BY DEF StepsInv, TypesKept, StepTypeOK
<1>. QED
  BY <1>1, <1>2, DraftMoves DEF EditDraft

\* Nothing is disturbed, and nothing of what steps compare is written.
LEMMA QuietMoves ==
  ASSUME StepsInv, TypesKept', StepsEnd, OutageIsCurrent',
         draft'.version = draft.version, connection'.generation = connection.generation,
         now <= now', failed \subseteq failed',
         UNCHANGED <<author, request, runner, disturbed, sent>>
  PROVE  Kept
<1>1. Later /\ DisturbedFairly
  BY NumbersTyped DEF StepsInv, Later, DisturbedFairly
<1>. QED
  BY <1>1, WorldMoves

LEMMA HideKept ==
  ASSUME StepsInv, HideDraft
  PROVE  Kept
<1>1. /\ draft' \in [state : {"active", "deleting"}, version : 1 .. MaxVersion]
      /\ draft'.version = draft.version
  BY DEF StepsInv, TypesKept, StepTypeOK, HideDraft
<1>2. TypesKept' /\ OutageIsCurrent'
  BY <1>1 DEF StepsInv, TypesKept, StepTypeOK, HideDraft, OutageIsCurrent
<1>3. now <= now' /\ StepsEnd
  BY NothingEnds, NumbersTyped DEF StepsInv, HideDraft
<1>. QED
  BY <1>1, <1>2, <1>3, QuietMoves DEF HideDraft

\* Every change of the connection is a generation, without an outage.
LEMMA SaveKept ==
  ASSUME StepsInv, NEW row \in ConnectionRow, row.generation = connection.generation,
         save_connection(row)
  PROVE  Kept
<1>1. /\ TypesKept /\ connection' \in ConnectionRow
      /\ connection'.generation = connection.generation + 1 /\ connection'.outage = FALSE
  <2>1. TypesKept /\ row.generation + 1 \in 1 .. MaxChange
    BY Constants DEF StepsInv, TypesKept, StepTypeOK, ConnectionRow, save_connection
  <2>2. connection' = [row EXCEPT !.generation = row.generation + 1, !.outage = FALSE]
    BY DEF save_connection
  <2>. QED
    BY <2>1, <2>2 DEF ConnectionRow
<1>2. TypesKept'
  BY <1>1 DEF TypesKept, StepTypeOK, save_connection
<1>3. StepsEnd /\ Later /\ OutageIsCurrent'
  BY <1>1, NothingEnds, NumbersTyped DEF Later, OutageIsCurrent, save_connection
<1>4. DisturbedFairly
  <2>1. ASSUME NEW k \in Keys, Running(k) PROVE Outdated(k)'
    <3>1. steps[k].generation <= connection.generation
      BY <2>1 DEF StepsInv, RowsOK, RowOK, Running
    <3>2. steps'[k].generation < connection'.generation
      BY <1>1, <3>1, NumbersTyped DEF save_connection
    <3>. QED
      BY <3>2 DEF Outdated
  <2>. QED
    BY <2>1 DEF DisturbedFairly, Disturb, save_connection
<1>. QED
  BY <1>2, <1>3, <1>4, WorldMoves DEF save_connection

LEMMA ConnectionSaves ==
  ASSUME StepsInv, Save \/ SetCredentials \/ RevokeCredentials \/ revoke_connection
  PROVE  Kept
<1>1. PICK row \in ConnectionRow :
         row.generation = connection.generation /\ save_connection(row)
  <2>1. connection \in ConnectionRow
    BY DEF StepsInv, TypesKept, StepTypeOK
  <2>2. ASSUME Save
        PROVE  \E row \in ConnectionRow :
                  row.generation = connection.generation /\ save_connection(row)
    <3>1. PICK enabled \in BOOLEAN, granted \in BOOLEAN :
             save_connection([connection EXCEPT !.enabled = enabled, !.granted = granted])
      BY <2>2 DEF Save
    <3>2. PICK row : row = [connection EXCEPT !.enabled = enabled, !.granted = granted]
      OBVIOUS
    <3>3. row \in ConnectionRow /\ row.generation = connection.generation
      BY <2>1, <3>2 DEF ConnectionRow
    <3>. QED
      BY <3>1, <3>2, <3>3
  <2>3. ASSUME NEW enabled \in BOOLEAN, NEW granted \in BOOLEAN, NEW credential \in BOOLEAN,
               NEW row, row = [connection EXCEPT !.enabled = enabled, !.granted = granted,
                                                 !.credential = credential]
        PROVE  row \in ConnectionRow /\ row.generation = connection.generation
    BY <2>1, <2>3 DEF ConnectionRow
  <2>4. ASSUME NEW credential \in BOOLEAN,
               NEW row, row = [connection EXCEPT !.credential = credential]
        PROVE  row \in ConnectionRow /\ row.generation = connection.generation
    BY <2>1, <2>4 DEF ConnectionRow
  <2>. QED
    BY <2>2, <2>3, <2>4 DEF SetCredentials, RevokeCredentials, revoke_connection
<1>. QED
  BY <1>1, SaveKept

LEMMA PermissionKept ==
  ASSUME StepsInv, set_personal_permission
  PROVE  Kept
<1>1. connection \in ConnectionRow
  BY DEF StepsInv, TypesKept, StepTypeOK
<1>2. PICK granted \in BOOLEAN : connection' = [connection EXCEPT !.granted = granted]
  BY Zenon DEF set_personal_permission
<1>3. /\ connection' \in ConnectionRow /\ connection'.generation = connection.generation
      /\ connection'.outage = connection.outage
  BY <1>1, <1>2 DEF ConnectionRow
<1>4. TypesKept' /\ OutageIsCurrent'
  BY <1>3 DEF StepsInv, TypesKept, StepTypeOK, OutageIsCurrent, set_personal_permission
<1>5. now <= now' /\ StepsEnd
  BY NothingEnds, NumbersTyped DEF StepsInv, set_personal_permission
<1>. QED
  BY <1>3, <1>4, <1>5, QuietMoves DEF set_personal_permission

\* A probe that fails has failed with the settings in force.
LEMMA ProbeKept ==
  ASSUME StepsInv, NEW usable, Probe(usable)
  PROVE  Kept
<1>1. connection \in ConnectionRow
  BY DEF StepsInv, TypesKept, StepTypeOK
<1>2. PICK outage \in BOOLEAN :
         /\ connection' = [connection EXCEPT !.outage = outage]
         /\ failed' = IF outage THEN failed \cup {connection.generation} ELSE failed
  BY DEF Probe
<1>3. /\ connection' \in ConnectionRow /\ connection'.generation = connection.generation
      /\ connection'.outage = outage
  BY <1>1, <1>2 DEF ConnectionRow
<1>4. TypesKept'
  BY <1>3 DEF StepsInv, TypesKept, StepTypeOK, Probe
<1>5. OutageIsCurrent' /\ failed \subseteq failed'
  BY <1>2, <1>3 DEF OutageIsCurrent
<1>6. now <= now' /\ StepsEnd
  BY NothingEnds, NumbersTyped DEF StepsInv, Probe
<1>. QED
  BY <1>3, <1>4, <1>5, <1>6, QuietMoves DEF Probe

LEMMA PolicyKept ==
  ASSUME StepsInv, PutPolicy
  PROVE  Kept
<1>1. policy.version + 1 \in 0 .. MaxChange
  BY Constants DEF StepsInv, TypesKept, PutPolicy
<1>2. policy' \in [enabled : BOOLEAN, version : 0 .. MaxChange]
  BY <1>1 DEF PutPolicy
<1>3. TypesKept' /\ OutageIsCurrent'
  BY <1>2 DEF StepsInv, TypesKept, StepTypeOK, OutageIsCurrent, PutPolicy
<1>4. now <= now' /\ StepsEnd
  BY NothingEnds, NumbersTyped DEF StepsInv, PutPolicy
<1>. QED
  BY <1>3, <1>4, QuietMoves DEF PutPolicy

\* Every change of an author entry is a version, access included.
LEMMA AuthorKept ==
  ASSUME StepsInv, UpdateAuthor \/ ChangeGrant
  PROVE  Kept
<1>1. /\ author'.version = author.version + 1
      /\ author' \in [version : 1 .. MaxChange, access : BOOLEAN]
  <2>1. PICK access \in BOOLEAN :
           author' = [version |-> author.version + 1, access |-> access]
    <3>1. CASE UpdateAuthor
      BY <3>1 DEF StepsInv, TypesKept, UpdateAuthor
    <3>2. CASE ChangeGrant
      BY <3>2, Zenon DEF ChangeGrant
    <3>. QED
      BY <3>1, <3>2
  <2>2. author.version + 1 \in 1 .. MaxChange
    BY Constants DEF StepsInv, TypesKept, UpdateAuthor, ChangeGrant
  <2>. QED
    BY <2>1, <2>2
<1>2. /\ UNCHANGED <<draft, steps, questions, connection, policy, request, runner, closed, now,
                     sent, failed>>
      /\ Disturb({k \in Keys : steps[k].author # 0})
  BY DEF UpdateAuthor, ChangeGrant
<1>3. TypesKept' /\ OutageIsCurrent'
  BY <1>1, <1>2 DEF StepsInv, TypesKept, StepTypeOK, OutageIsCurrent
<1>4. StepsEnd /\ Later
  BY <1>1, <1>2, NothingEnds, NumbersTyped DEF StepsInv, Later
<1>5. DisturbedFairly
  <2>1. ASSUME NEW k \in Keys, Running(k), steps[k].author # 0 PROVE Outdated(k)'
    <3>1. steps[k].author <= author.version
      BY <2>1 DEF StepsInv, RowsOK, RowOK, Running
    <3>2. steps'[k].author # 0 /\ steps'[k].author < author'.version
      BY <1>1, <1>2, <2>1, <3>1, NumbersTyped DEF StepsInv
    <3>. QED
      BY <3>2 DEF Outdated
  <2>. QED
    BY <1>2, <2>1 DEF DisturbedFairly, Disturb
<1>. QED
  BY <1>2, <1>3, <1>4, <1>5, WorldMoves

LEMMA CancelKept ==
  ASSUME StepsInv, NEW k \in Keys, cancel_model_step(k) \/ recover_stale_model_steps(k)
  PROVE  Kept
<1>1. StepsEnd
  <2>1. CASE cancel_model_step(k)
    BY <2>1, OneEnds DEF cancel_model_step
  <2>2. CASE recover_stale_model_steps(k)
    BY <2>2, OneEnds DEF recover_stale_model_steps, Expired
  <2>. QED
    BY <2>1, <2>2
<1>2. UNCHANGED <<draft, questions, connection, policy, author, request, runner, closed, now,
                  disturbed, sent, failed>>
  BY DEF cancel_model_step, recover_stale_model_steps
<1>3. TypesKept' /\ OutageIsCurrent'
  <2>1. \A j \in Keys : questions[j] # "none" => steps'[j].state = "completed"
    BY <1>1, EndLeaves DEF StepsInv, TypesKept, StepTypeOK
  <2>. QED
    BY <1>1, <1>2, <2>1 DEF StepsInv, StepsEnd, TypesKept, StepTypeOK, OutageIsCurrent
<1>4. now <= now'
  BY <1>2, NumbersTyped DEF StepsInv
<1>. QED
  BY <1>1, <1>2, <1>3, <1>4, QuietMoves

LEMMA TickKept ==
  ASSUME StepsInv, Tick
  PROVE  Kept
<1>1. now' \in 0 .. MaxTime /\ now <= now'
  BY Constants DEF StepsInv, TypesKept, Tick
<1>2. TypesKept' /\ OutageIsCurrent' /\ StepsEnd
  BY <1>1, NothingEnds DEF StepsInv, TypesKept, StepTypeOK, OutageIsCurrent, Tick
<1>. QED
  BY <1>1, <1>2, QuietMoves DEF Tick

\* The threads are told that the runner closes: they rely on what they did.
LEMMA CloseKept ==
  ASSUME StepsInv, Close
  PROVE  Kept
<1>1. /\ TypesKept /\ steps \in [Keys -> StepRow] /\ runner \in [Keys -> Thread]
  BY DEF StepsInv, TypesKept, StepTypeOK
<1>2. UNCHANGED <<draft, questions, connection, policy, author, request, now, disturbed, sent,
                  failed>> /\ closed' = TRUE
  BY DEF Close
<1>3. PICK done \in SUBSET Keys :
         steps' = [k \in Keys |-> IF k \in done /\ Running(k)
                                  THEN [steps[k] EXCEPT !.state = "cancelled"] ELSE steps[k]]
  BY DEF Close
<1>4. StepsEnd
  <2>1. \A k \in Keys : [steps[k] EXCEPT !.state = "cancelled"] \in StepRow
    BY <1>1 DEF StepRow
  <2>. QED
    BY <1>1, <1>3, <2>1 DEF StepsEnd
<1>5. /\ runner' \in [Keys -> Thread]
      /\ \A k \in Keys : /\ runner'[k].pc = runner[k].pc
                         /\ runner'[k].record = runner[k].record
                         /\ runner'[k].credential = runner[k].credential
  <2>1. \A k \in Keys : /\ [runner[k] EXCEPT !.cancel = TRUE] \in Thread
                        /\ [runner[k] EXCEPT !.cancel = TRUE].pc = runner[k].pc
                        /\ [runner[k] EXCEPT !.cancel = TRUE].record = runner[k].record
                        /\ [runner[k] EXCEPT !.cancel = TRUE].credential = runner[k].credential
    BY <1>1 DEF Thread
  <2>. QED
    BY <1>1, <2>1 DEF Close
<1>6. TypesKept'
  <2>1. \A k \in Keys : questions[k] # "none" => steps'[k].state = "completed"
    BY <1>1, <1>4, EndLeaves DEF TypesKept, StepTypeOK
  <2>. QED
    BY <1>1, <1>2, <1>4, <1>5, <2>1 DEF StepsEnd, TypesKept, StepTypeOK
<1>7. RowsOK' /\ ChangesSeen' /\ WithinCapacity' /\ StepEndsOnce
  <2>1. Later /\ DisturbedFairly
    BY <1>1, <1>2, NumbersTyped DEF Later, DisturbedFairly
  <2>. QED
    BY <1>4, <1>6, <2>1, RowsKept
<1>8. ThreadsOK'
  BY <1>2, <1>4, <1>5, EndLeaves DEF StepsInv, ThreadsOK, ThreadOK
<1>9. SentOK' /\ OutageIsCurrent'
  BY <1>2, <1>4, EndLeaves DEF StepsInv, SentOK, OutageIsCurrent
<1>10. LaunchesOK'
  BY <1>2, <1>4, <1>5, EndLeaves DEF StepsInv, LaunchesOK, LaunchOK
<1>11. RetryIsAnswered
  BY <1>2, RetryUntouched DEF NoneRefused
<1>. QED
  BY <1>6, <1>7, <1>8, <1>9, <1>10, <1>11 DEF Kept, StepsInv

\* A process that stops takes its threads and requests with it, and no row.
LEMMA CrashKept ==
  ASSUME StepsInv, Crash
  PROVE  Kept
<1>1. /\ \A k \in Keys : runner'[k] = NoThread
      /\ \A c \in Clients : request'[c] = Idle
      /\ runner' \in [Keys -> Thread] /\ request' \in [Clients -> StartRequest]
      /\ closed' = FALSE
  BY EmptyRows DEF Crash
<1>2. UNCHANGED <<draft, steps, questions, connection, policy, author, now, disturbed, sent,
                  failed>>
  BY DEF Crash
<1>3. TypesKept'
  BY <1>1, <1>2 DEF StepsInv, TypesKept, StepTypeOK
<1>4. RowsOK' /\ ChangesSeen' /\ WithinCapacity' /\ StepEndsOnce
  <2>1. StepsEnd /\ Later /\ DisturbedFairly
    BY <1>2, NothingEnds, NumbersTyped DEF StepsInv, Later, DisturbedFairly
  <2>. QED
    BY <1>3, <2>1, RowsKept
<1>5. ThreadsOK' /\ LaunchesOK'
  BY <1>1, EmptyRows DEF ThreadsOK, ThreadOK, LaunchesOK, LaunchOK
<1>6. SentOK' /\ OutageIsCurrent'
  BY <1>2 DEF StepsInv, SentOK, OutageIsCurrent
<1>7. RetryIsAnswered
  BY <1>1, EmptyRows, RetryUntouched DEF NoneRefused
<1>. QED
  BY <1>3, <1>4, <1>5, <1>6, <1>7 DEF Kept, StepsInv

----------------------------------------------------------------------------
(* Every step, and what follows.                                           *)

LEMMA StartsKept ==
  ASSUME StepsInv, NEW c \in Clients, StartStep(c)
  PROVE  Kept
<1>1. ASSUME NEW k \in Keys, NEW intent \in Intents, NEW about \in Keys \cup {None},
             NEW cites \in Cites, BeginStart(c, k, intent, about, cites)
      PROVE  Kept
  BY <1>1, BeginKept
<1>2. CASE replay_model_step(c) \/ LookAgain(c)
  BY <1>2, LookKept
<1>3. CASE Preview(c)
  BY <1>3, PreviewKept
<1>4. CASE start_model_step(c)
  BY <1>4, StartKept
<1>5. CASE Launch(c)
  BY <1>5, LaunchStepKept
<1>. QED
  BY <1>1, <1>2, <1>3, <1>4, <1>5 DEF StartStep

LEMMA RunsKept ==
  ASSUME StepsInv, NEW k \in Keys, RunStep(k)
  PROVE  Kept
  BY ReadStepKept, PrepareKept, CredentialsKept, DispatchKept, AnswersKept, RecordOutageKept,
     FenceKept, ClearOutageKept, ClockKept, FinishKept, TerminalizeKept, WatchKept DEF RunStep

LEMMA NextKept ==
  ASSUME StepsInv, [StepsNext]_stepVars
  PROVE  Kept
<1>1. ASSUME NEW c \in Clients, StartStep(c) PROVE Kept
  BY <1>1, StartsKept
<1>2. ASSUME NEW k \in Keys, RunStep(k) PROVE Kept
  BY <1>2, RunsKept
<1>3. ASSUME NEW k \in Keys, cancel_model_step(k) \/ recover_stale_model_steps(k) PROVE Kept
  BY <1>3, CancelKept
<1>4. ASSUME NEW k \in Keys, answer_question(k) PROVE Kept
  BY <1>4, AnswerKept
<1>5. CASE EditDraft
  BY <1>5, EditKept
<1>6. CASE HideDraft
  BY <1>6, HideKept
<1>7. CASE Save \/ SetCredentials \/ RevokeCredentials \/ revoke_connection
  BY <1>7, ConnectionSaves
<1>8. CASE set_personal_permission
  BY <1>8, PermissionKept
<1>9. CASE discover_models \/ test
  BY <1>9, ProbeKept DEF discover_models, test
<1>10. CASE PutPolicy
  BY <1>10, PolicyKept
<1>11. CASE UpdateAuthor \/ ChangeGrant
  BY <1>11, AuthorKept
<1>12. CASE Close
  BY <1>12, CloseKept
<1>13. CASE Crash
  BY <1>13, CrashKept
<1>14. CASE Tick
  BY <1>14, TickKept
<1>15. CASE UNCHANGED stepVars
  <2>1. TypesKept' /\ OutageIsCurrent' /\ StepsEnd
    BY <1>15, NothingEnds
       DEF stepVars, StepsInv, TypesKept, StepTypeOK, OutageIsCurrent
  <2>2. now <= now'
    BY <1>15, NumbersTyped DEF stepVars, StepsInv
  <2>. QED
    BY <1>15, <2>1, <2>2, QuietMoves DEF stepVars
<1>. QED
  BY <1>1, <1>2, <1>3, <1>4, <1>5, <1>6, <1>7, <1>8, <1>9, <1>10, <1>11, <1>12, <1>13, <1>14,
     <1>15 DEF StepsNext

\* StepsInv is inductive.
LEMMA StepsInvariant == StepsSpec => []StepsInv
<1>1. StepsInv /\ [StepsNext]_stepVars => StepsInv'
  BY NextKept DEF Kept
<1>. QED
  BY <1>1, InitKept, PTL DEF StepsSpec

\* Steps, threads and requests keep to their types, and only a completed step
\* has asked a question (finish_model_step).
THEOREM StepsStayTyped == StepsSpec => []StepTypeOK
<1>1. StepsInv => StepTypeOK
  BY DEF StepsInv, TypesKept
<1>. QED
  BY <1>1, StepsInvariant, PTL

\* What is published rests on what was admitted, no late failure marks a
\* repaired connection, and no more steps are live than allowed, whatever the
\* interleaving of threads, requests and administrators (finish_model_step,
\* set_outage, start_model_step).
THEOREM PublishedUndisturbed == StepsSpec => []StepsUndisturbed
<1>1. StepsInv => StepsUndisturbed
  <2>1. ASSUME StepsInv PROVE DOMAIN steps = Keys
    BY <2>1 DEF StepsInv, TypesKept, StepTypeOK
  <2>. QED
    BY <2>1 DEF StepsInv, ChangesSeen, StepsUndisturbed, CompletedUndisturbed
<1>. QED
  BY <1>1, StepsInvariant, PTL

\* What the owner approved is transmitted at most once, and only with the
\* endpoint and the credential that were approved (authorize_before_dispatch).
THEOREM TransmitsAsApproved == StepsSpec => []SentOnceAsApproved
<1>1. StepsInv => SentOnceAsApproved
  <2>1. ASSUME StepsInv PROVE DOMAIN runner = Keys /\ DOMAIN sent = Keys
    BY <2>1 DEF StepsInv, TypesKept, StepTypeOK
  <2>. QED
    BY <2>1 DEF StepsInv, ThreadsOK, ThreadOK, SentOK, SentOnceAsApproved, SentAsApproved,
       TransmittedOnce
<1>. QED
  BY <1>1, StepsInvariant, PTL

\* A step ends once, and an accessible request that was admitted is never
\* refused when it is repeated (replay_model_step, _terminalize).
THEOREM RepeatsAreAnswered == StepsSpec => StepAnswers
<1>1. StepsInv /\ [StepsNext]_stepVars => [StepEndsOnce /\ RetryIsAnswered]_stepVars
  BY NextKept DEF Kept
<1>. QED
  BY <1>1, StepsInvariant, PTL DEF StepsSpec, StepAnswers
=============================================================================
