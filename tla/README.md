# Markweave: TLA+ models and proofs

Markweave converts Markdown to DOCX, PDF and PPTX, and office documents back to
Markdown, as an authenticated service: API processes accept jobs, workers convert
them, and both meet only in a SQL database and an object store. Conversions from
office formats run in isolated units behind a broker of their own; Composer lets a
person write drafts with the help of a model provider; a command line drives all of
it remotely. This directory holds the specifications of these parts, the TLC
configurations that check them on small instances, and the TLAPS proofs that hold for
every instance.

Paths below are relative to `src/src/markweave/` unless they start with `docs/`
(`src/docs/`).

## Inventory

| Component | State | Operations | What makes it correct |
|---|---|---|---|
| Job table (`persistence/jobs`) | one row per job: state, lease, attempt, outcome, retention, cleanup claim | create, activate_source, claim, heartbeat, recover, cancel, succeed / fail / finish_cancelled, expire, complete_cleanup | one outcome per job; only the holder of a live lease changes a running job; limits and keys hold under concurrency |
| Submission (`jobs/service.py`) | none of its own; a call in progress | submit, cancel, downloads | an answered submission is durable; a claimable job has its source |
| Worker (`jobs/worker*.py`, `runner.py`) | one attempt: lease token, budget, heartbeat thread | claim, execute, resolve, publish, compensate, recover, clean | a succeeded job has its result; nothing is left after cleanup; every job ends |
| Object store (`storage.py`) | objects by key | put, get, delete, list | no transaction with the table: orders and compensation matter |
| Engines (`conversion`, `presentations`) | a private workspace | process | functions of bytes; abort when asked |
| Templates (`templates`, `persistence/templates`) | templates, versions, publication tokens | reserve, finalize, publish, abort, recover, delete, prefer | a published version is complete and immutable; a frozen version stays |
| Retention (`retention.py`, `persistence/retention.py`) | claims on versions and drafts, audits | claim, complete, cleanup | never removes what a job has frozen or a draft needs |
| Reverse queue (`reversion_jobs`, `persistence/reversion_jobs`) | jobs, attempts, create intents, proofs, reconciliation cursors | as the job table, plus intents, proofs, reconciliation | no result without a proof that its isolated unit is gone |
| Broker (`broker/service.py`, `inventory*.py`) | durable inventory of units, in an authenticated file | create, stage, collect, terminate, prove, acknowledge, reconcile | every unit is found again and proved terminated |
| Runtimes and attester (`broker/podman_runtime.py`, `kubernetes_*.py`) | containers or Pods, control groups, the attester's ledger | create, stage, collect, terminate, remove, recover | the evidence they give is true, in order, and never lost |
| Transport (`broker/mtls_transport.py`, `process.py`) | connections, slots, deadlines, the process lock | reserve, submit, respond, stop | one dispatch per exchange; slots return; authority ends before the next broker |
| Authentication (`auth`) | accounts, sessions, idle policy and its audit | login, authenticate, renew, sign out, reset, deactivate, change the policy | access ends with the credentials it was made from |
| Composer (`composer`, `persistence/composer`) | drafts, revisions, model steps, library, typed templates, fill plans, connections | start, finish, cancel, recover; publish, restore, approve | what is published or transmitted is what was reviewed |
| Backup and recovery (`recovery*.py`) | snapshot, manifest, target | backup, verify, restore | a published set restores completely or leaves no trace |
| Command line (`cli`) | profile, session, local outputs | remote commands, login, local conversion | a command does once what its user has seen |
| HTTP, web, observability | none that decides beyond the handlers above | | |

How they interact. The API and the workers never call each other: a submission
reserves a row, stores the source and activates the row, each in a call of its own;
a worker claims the row under a lease, reads the source, stores result and manifest
and publishes them by one conditional update. The table is the only arbiter. The
forward and the reverse queue share one capacity under one advisory lock. A reverse
worker talks to the broker by requests that may be lost, delayed or answered twice;
the broker talks to a container runtime or, for Kubernetes, to the API server and the
attester of the node. Composer steps are rows with a lease and a thread of the API
process; publications write rows, then objects, then rows again.

What is hard here: any two calls of any two processes interleave; a worker, a
publisher or a cleaner may stall past its lease at any point and go on; processes die
and are restarted between two calls; the store and the table fail separately; answers
are lost after their effect; and recovery and cleanup are done by whoever comes along.
`PROJECT.json` lists these hazards line by line with the properties that answer them;
none of them is left without one.

Its `map` names the lines that the definitions stand for. A definition whose lines are
part of those of another one of its module is not listed apart: the row that an operation
writes, the condition under which it does, or the branch in which it fails. Nor are time,
crashes and the doings of other people listed, which model no code.

## Modules

| Module | Models |
|---|---|
| `JobLifecycle` | the abstract promise about one job (`docs/jobs.md`, "Lifecycle") |
| `JobRepository` | the job table, one action per repository method; it refines `JobLifecycle` |
| `ConversionService`, `ConversionService_proofs` | API calls, workers, the job table and the object store together; the proofs about the table alone come first |
| `JobHeartbeat` | the two threads of one attempt, one memory access at a time; proofs in `Processes_proofs` |
| `BrokerIdentities` | the sequence numbers and units that the broker and the reverse queue both name |
| `IsolationBroker`, `IsolationBroker_proofs` | the broker: inventory, gate, requests, sweep |
| `InventoryStorage` | the authenticated SQLite file of the inventory |
| `RuntimeContract` | what the broker is promised by a runtime (`broker/ports.py`) |
| `PodmanRuntime`, `KubernetesRuntime` | the two runtimes for one unit, each a refinement of `RuntimeContract` |
| `MtlsTransport` | the broker's transport and process, thread by thread |
| `Runtimes_proofs` | the proofs about `InventoryStorage`, `MtlsTransport` and the two runtimes |
| `ReversionRepository` | the table of the reverse queue |
| `ReversionService`, `ReversionService_proofs` | reverse workers, table, store and `IsolationBroker` composed; the proofs about the table alone come first |
| `TemplateCatalog`, `TemplateCatalog_proofs` | publication, deletion, preference, freezing and retention of template versions |
| `Authentication`, `Authentication_proofs` | accounts, sessions and the idle policy, transaction by transaction |
| `ComposerModelSteps`, `ComposerModelSteps_proofs` | model steps: admission, the thread that transmits, publication, recovery |
| `ComposerDrafts` | drafts, sources, proposals, generations and revisions |
| `ComposerCatalogs` | the library and the typed templates |
| `ComposerFills` | fill plans: review, approval, publication, link |
| `Recovery` | backup, verification and restore, standalone and distributed |
| `CommandSteps`, `ComposerCommands`, `AdministrationCommands`, `JobCommands` | the steps that every remote command is made of (those of the template commands stand in `AdministrationCommands`) |
| `RemoteClient` | a user, a remote command and a service with lost requests and answers; proofs in `Processes_proofs` |
| `CliSessions` | login, logout, whoami, change-password and the profile, and where a session may be left; proofs in `Processes_proofs` |
| `LocalOutputs` | the publication of the outputs of a local conversion, system call by system call; proofs in `Processes_proofs` |
| `Processes_proofs` | the proofs about `Recovery`, `JobHeartbeat`, `CliSessions`, `LocalOutputs` and `RemoteClient` |
| `MCJobRepository`, `MCConversionService`, `MCConversionLiveness`, `MCConversions`, `MCIsolationBroker`, `MCReversionLiveness`, `MCReversions`, `MCRuntimes`, `MCResources`, `MCComposer`, `MCProcesses` | instances for TLC |

An MC module with several instances has a variable `instance` that never changes: a
behaviour belongs to one instance, the variables of the others are fixed, and each
property says which instances it speaks of. The instance whose constants stand in the
cfg is the one that the MC module EXTENDS; the others are INSTANCEs with constants of
their own. TLC evaluates zero-argument constant definitions of an extended module
once, with the constants of the cfg, and uses them in other instances of the same
module as well; therefore types are checked in the instance of the cfg only
(`ResourcesTypeOK`, `StoredReadable`, `ConversionsTypeOK`).

### The job table and the service around it

`rows[j]` is the row of job `j` with the columns that some guard reads. Every method
of the repository is one transaction, hence one action; its guard is the WHERE clause,
its effect the VALUES clause, written as an operator from row to row (`ClaimedRow`,
`CancelledRow`, ...). `JobRepository` does not say who calls: any worker identity with
any lease token ever issued may call anything at any time, which is the environment
the fencing is made for. `create` and the capacity check are one action because the
code runs them under `pg_advisory_xact_lock` or SQLite's write lock; `reverseActive`
is the reverse queue's share. `SkipLocked` chooses between PostgreSQL's SKIP LOCKED,
under which a claim may miss any locked row, and SQLite.

Time is relative: the present is 0, stored timestamps are distances from it, and
`Tick` ages all rows, stopping at `Oldest`, below which all comparisons agree. So no
clock grows and the state space is finite without a bound on time. A caller reads its
clock before its transaction; `ClockLag` bounds how old that reading may be. The
lease token is a fresh uuid4 per claim and the attempt grows with it, so the attempt
stands for the token; likewise the result identifier, a uuid5 of job and attempt.

In `ConversionService` each call to the table or the store is one step; between two
of them every other process may move and any time may pass. A client goes through
`new -> put -> activate -> accepted`, with replay, refusal, compensation and death on
the way; a worker through the loop of `WorkerLoop.run`. `Verdict` is the order of
precedence in `JobFailureService.resolve`. Faults are drawn from a budget, so that an
instance says which of them it admits. A failed put may or may not have stored its
object, and a failed delete leaves any part undone. `JobHeartbeat` justifies taking a
heartbeat as one step.

### Broker, inventory, runtimes, transport

The broker starts one isolated unit per reverse conversion attempt. `inventory` and
`highWater` are its durable state; `ready` and `staged` are memory and are lost in a
crash; `runtime` is what the container runtime really holds. One lock serialises the
requests: `gate` is the request that holds it and the step it does next. But a request
is several durable steps and runtime calls (`reserve -> intent -> runtime -> created`
for a create, `kill -> exit -> empty -> remove -> removed` for a termination), and
`Fail`, `FailAtOnce` and `Crash` may come between any two. A caller may stop waiting
(`GiveUp`); its request is served whenever the lock becomes free. `HasRecovery` says
whether an intent carries a recovery binding: TRUE for Kubernetes, where a sweep finds
the unit of an intent or creates it again and then terminates it; FALSE for Podman,
where an undiscovered intent leaves the broker unavailable
(`docs/reverse-broker-deployment.md`). One principal is modelled, for the inventory is
partitioned by principal; the create sequence stands for the attempt, a unit for its
proof. `births` is a history variable.

`PodmanRuntime` and `KubernetesRuntime` open the runtime's calls: every command or API
request is a step that may fail, or take effect and lose its answer, and what the
container, its monitor, the control group, the kubelet or the sandbox do in between is
a step of its own. Both refine `RuntimeContract`. The attester keeps its evidence twice: in
the ledger, and in the memory of its process (`_bound`, `_exit_evidence`,
`_empty_evidence`, `_removed_evidence`), which is `memory`. It asks the memory for the
evidence that a proof builds on (`Needed`) and fills it only after the ledger's transition
has returned; `recover` restores the binding and no evidence. After a transition that has
committed although its call failed, ledger and memory therefore differ (`Refusing`) and the
next proof is refused, until the attester's process starts again and reads its ledger
(`RestoreLedger`), which nothing in the repository makes it do. `InventoryStorage` models codes by
what they authenticate and the manifest by what it binds. `MtlsTransport` has a thread
per connection, the slots, the deadlines, the watchdog and the process lock.

### Reverse queue

`ReversionRepository` is the table alone, with arbitrary callers. `ReversionService`
composes it with workers, the object store and `IsolationBroker`, whose variables and
actions it shares; requests queue at the broker and answers wait. A create sequence is
`Wedged` when its reservation was discarded by a sweep before the intent was made: the
sequence is used up, the broker refuses to create it again, there is no unit and hence
no proof, and the job runs until an operator intervenes. `ReverseJobEnds` excludes
exactly this case.

### Templates, accounts, composer, recovery, command line

A request is several transactions here, and each is a step. In `TemplateCatalog` a
version is a pending row with a token, then bytes, then a published row.
`Authentication` follows a request through its reads of session, account and policy to
its write-back. `ComposerModelSteps` follows a step from the request through its
thread to the publication, with the connection read in three pieces. `Recovery` takes
a backup object by object beside the running service and restores it into a target
that others may use as well. `RemoteClient` takes the steps of a command from the
tables in the command modules; the service it talks to is abstracted to versions,
keys and ETags.

`CliSessions` accounts for every session that the service accepts. `left` says of a session
in which window of the code the one who had it lost it: the process was killed before the
profile was written (`cut`); an answer was lost, or said nothing usable (`answer`); the
temporary file of `ProfileStore.save` could not be made, which passes by the handler that
would end the session (`temporary`); a password change was refused, which deletes the
profile of a session that is still alive (`refused`); another command has written the
profile meanwhile (`beside`). All five are leaks of the code, and `SessionsKept` says that
there is no sixth.

Some steps of the code are one step here. In `_commit` of the local outputs the look at a
name and the link are one: what comes or goes between them makes the link fail, and the
rollback that follows is the one of `Cancelled`, which may happen at every name. In the
distributed restore the look at the database and the transaction are one: a second restore
that has found it empty too fails on the tables or on the keys that all sets share, as
`RestoreDatabase` refuses a database in use. In the broker the question whether the runtime
still knows a unit that was staged before is part of the answer, and its failure is
`FailAtOnce`. A login with the cookie of an earlier session ends that one first
(`EndPrevious`).

## Runs

| Run | Instances | Shows |
|---|---|---|
| `job_table` | three submissions (two under one key), one worker, clock readings that may be late | `RowWellFormed`: every stored row still loads; `ImplementsLifecycle`: every change is a lifecycle step; `ActiveWithinCapacity`, `IdempotentOnce`: limits and keys hold against the reverse queue and recovery |
| `conversions` | *attempts*, *cleanup*, *keys*: two workers on one job with one fault; the same with a stop and no fault; three submissions of one key. *standalone*, *cluster*, *damaged*: backup and restore | `AnswersHonoured`: an accepted job is durable and has its source, a succeeded one its result and manifest, a cancelled one was asked for (the ambiguous commit is a run of its own, below); `CleanedJobsGone`: in *cleanup*, no result or manifest of a cleaned job is left but what a stale worker is about to delete; `PublishedRestorable`, `RestoreIsExact`: sets restore completely or leave no trace, and touch nothing of others |
| `liveness` | *faults*: one job, two timely workers, one fault of any kind; *retried*: two submissions of one key | `EveryJobEnds`: every accepted job finishes and every finished one is cleaned |
| `broker` | *podman*, *kubernetes*: two sequences, two units, an abandoned request, two faults | `UnitsTraced`: every unit has a durable row and a sequence starts one unit at most; `ReadyIsSettled`, `ReadyAfterSweep`, `ForgottenIsProven`; `KubernetesRestartsReady`: a crashed broker with recovery bindings becomes ready again |
| `runtimes` | *podman*, *kubernetes*, *transport*, *storage* | `PodmanHonest`, `KubernetesHonest`: each runtime refines the contract, and what runs is as specified and attested, on whole requests; `ExchangesSound`: one dispatch, balanced slots, authority; `InventorySound`: the file is read only as a whole that was committed; `NothingStays`: created units are removed, unless an attester refuses for good after a commit in doubt, and stopping brokers let go |
| `reverse` | *overlapping* workers, *faults*, *restored* backup, *replayed* submission | `AttemptsFenced`, `SuccessIsCurrent`, `FreshClaim`: rows load, a success is the current attempt's, sequences are fresh; `UnitsAccounted`: a unit works only for the current attempt, no proof is lost or invented; `ReverseObjectsKept`: results and sources are there, late results deleted |
| `reverse_liveness` | one job, two workers. *faults*: one fault of a worker and one of the broker; *cancelled*: a cancellation and a failure of store or database | `ReverseJobEnds`: an accepted job ends or waits for an attempt beyond the bound, unless it is wedged |
| `resources` | *slow*, *failing*, *unlocked*, *undecided* template catalogs; *accounts*, *time*, *admin* | `TemplatesKept`: the current version is the newest and readable, frozen versions stay, objects are tracked; `ResourcesTypeOK`: types, and what is preferred or frozen is not deleted; `RevisionIdentifies`: an ETag names one version; `NoLateAccess`, `ChangesFenced`: access ends with what it rests on |
| `composer` | model steps *repeated*, *replaced*, *cancelled*, *stopped*; drafts *edited*, *generated*, *created*, *office*, *restored*; catalogs *library*, *typed*; fills *reviewed*, *revoked*, *rivals* | `StepsUndisturbed`, `SentOnceAsApproved`, `StepAnswers`: steps publish and transmit what was approved, once, and repeats are answered; `StoredReadable`: everything published can be read; `RevisionsAsReviewed`: a revision is published on its base, a fill with what was reviewed |
| `processes` | *heartbeat*, *remote*, *cli*, *outputs* | `ThreadsAgree`: the threads of an attempt neither mislead nor overwrite each other; `CommandsHonest`: a command does once what it says to what its user has seen; `SessionsKept`: a live session is in the profile, with a running command, or was left in a window that is named, and what a command reports as ended has ended; `FilesKept`; `ProcessesEnd`: every attempt ends, and every command but one that waits without a `--timeout` |

Two runs are expected to fail, and show where the code departs from its documentation:

- `shared_key` (`SourceAvailable`): two submissions of one key upload to the same
  object; if one fails and compensates after the other has activated, a claimable job
  has no source (`jobs/service.py:162` against `docs/architecture.md:55`). The reverse
  queue repeats the pattern: in the instance *replayed* no storage fault is admitted,
  because one would lose the source of the active job in the same way.
- `ambiguous_commit` (`ResultAvailable`): `publish` deletes the objects on any
  exception, also when the commit went through: a succeeded job without a result
  (`jobs/worker_publication.py:225` against `docs/jobs.md:55`).

### Bounds, and why they are enough

One or two of everything. Lease, retention and upload ages are one tick: only the
order of events around an expiry matters, and every action may be taken on either side
of it. Two attempts and two workers give a stale holder, a current holder and a third
party that recovers or cleans. One job is enough where jobs meet only in admission;
`job_table` has three, with one worker, since its calls may carry any credentials ever
issued. One fault per behaviour covers each fault at each place; combinations of two
are explored in the broker (two crashes or failures, so one during the sweep that
follows another) and in the runtimes (`MaxFaults` 6 for Podman, where one termination
passes many commands, `MaxCallFaults` 4 for Kubernetes).

`OneAttempt` and `OneFault` in `MCReversions` bound the instances that are about one
attempt or one fault. Composer drafts have three to five versions and two or three
revisions, model steps one or two keys, catalogs three versions; each bound leaves
room for one publication more than the race needs. Remote commands are run at most
twice (`MaxRuns`) with two polls (`MaxPolls`): a repetition after a lost answer, and a
poll after a change. `MaxDamage`, `MaxMishaps`, `MaxForeign` and `MaxFailures` are 1.
Recovery restores two objects, so that one may be there and the other not. The transport
has two exchanges, a stray request for one of them, one place for a pending response and
two handlers, and one deadline passes (`MaxLapsed`): a place is contended for, the gate is
waited for and expires, and a stray meets the client's own request. None of these bounds
is in the code; the theorems below hold for all values.

### Fairness

`FairSpec` of `ConversionService` assumes that a call in progress goes on, that every
worker loop runs for ever and is restarted by its supervisor (process manager or
`EmbeddedWorker`), and that time passes. Nobody is obliged to submit or cancel, and
no fault is obliged to happen. `Timely` adds what `WorkerPolicy` requires: heartbeats
come more often than the lease lasts, so a running worker renews in time; and that
a cleanup batch takes less than its lease, which is not renewed. Without the latter
two cleaners can take over from each other for ever.

`FairServiceSpec` of `ReversionService` assumes the same of the reverse workers, of
clients with a call in progress, of the broker and of the clock, and strong fairness
of collecting an interrupted attempt and of a recovery whose lease runs out, which a
retried phase disables and enables again and again.

The broker's fairness is that the running broker goes on and that an exited one is
started again, which its systemd unit does (`docs/reverse-broker-deployment.md`, "The
unit restarts unexpected runtime failures"). Readiness is claimed only with recovery
bindings, since without them the broker may rightly stay unavailable.

`MCRuntimes` assumes that creation, termination, recovery and the exchange of files go
on once begun, that a container or Pod ends within the limit that it was created with,
that helper processes end, that a process of which the watchdog has taken hold exits,
and, strongly, that a failed termination is asked for again (reconciliation does so).
`MCProcesses` assumes a fair scheduler for the two threads, a lock that a waiting
thread gets in the end, and that a remote command goes on between its requests. An answer
that never comes ends in a network error only under a `--timeout`, which has no default
(`docs/cli.md`, line 126); only `wait` demands one (`_wait_job`). So `NetworkError` is fair
for the commands that wait for a job (`Timed`), and `CommandEnds` lets any other command
stand before a request for ever. Faults are never fair, and callers owe nothing.

`CreatedIsRemoved` claims of a Kubernetes unit that it is gone in the end or that the
attester is `Refusing` from some time on. A restart of the attester is a step that may
happen and is not owed: no manifest or unit file of the repository restarts an attester
that runs and refuses.

## Proofs

Eight modules hold theorems; each says what it assumes of the constants by the named
assumptions of the module it EXTENDS (constants in their ranges, finitely many jobs or
keys where something is counted, null values distinct from what they stand beside).

`ConversionService_proofs`, first part, the job table alone under arbitrary callers: any
sets of jobs and workers, any limits.

| Theorem | Statement |
|---|---|
| `RepositoryTypeOK` | `RepositorySpec => []TypeOK` |
| `RowsStayWellFormed` | `RepositorySpec => []RowWellFormed` |
| `RepositoryImplementsLifecycle` | `RepositorySpec => ImplementsLifecycle` |
| `KeysNameOneJob` | `RepositorySpec => []IdempotentOnce` |
| `ActiveStaysWithinCapacity` | `RepositorySpec => []ActiveWithinCapacity` |

`RowsInv` says that each row is a good row: typed and well-formed. `LegalStep(r, s)`
says that `s` is again good and that the phases of `r` and `s` are equal or related by
a move of the lifecycle. One lemma per row operator shows that its result is a legal
successor; `NextStep` concludes that every step of the table is a legal step of every
row. Well-formed rows are needed for the refinement: that a recorded cancellation
belongs to a running job, for example, is what makes `Recovered` a move. For the keys,
`OnlyCreateBears` shows that no action but `create` makes a row exist; for the
capacity, no legal step revives a finished job, so the active jobs grow only by
`create`, which has just counted them.

`ConversionService_proofs`, second part, the service: any jobs, keys, workers, limits and
faults, and processes that stall anywhere.

| Theorem | Statement |
|---|---|
| `ServiceTypesKept` | `Spec => []ServiceTypeOK` |
| `AnswersAreTrue` | `Spec => [](AnswerDurable /\ CancelledOnlyIfAsked)` |
| `AnswersStayHonoured` | `Unambiguous`, `SourcesApart` prove `Spec => []AnswersHonoured` |
| `CleanedResultsStayGone` | `NothingDies` proves `Spec => []CleanedResultsGone` |

`CleanedResultsGone` is about results and manifests, the keys of attempts. It does not speak
of the source of a cleaned job: an upload of a retried submission that arrives after the
clean-up, and is refused its activation, may leave its object for good.

The hypotheses are about which faults are admitted. `Unambiguous` says that no commit
takes effect without its acknowledgement, `SourcesApart` that no upload fails or no two
submissions share a key: without either, the code does break the property, as the runs
`ambiguous_commit` and `shared_key` show. `NothingDies` is there because a process that
dies between putting an object and deleting it leaves one that no row names. Crashes,
stops, lost leases and failures of the database are admitted in `AnswersStayHonoured`.

None of the statements is inductive: that a succeeded job has its result depends on what
every worker is about to do. `ServiceInv` says, for each worker, what its place in the
loop implies of the row and of the objects it has put: a holder of an attempt holds one
that was claimed and is not the one that succeeded (`AttemptOK`), so that the objects it
deletes are its own and not the result's; a cleaner has an expired job (`CleanerOK`), and
what it acknowledges is gone. `ClientOK` does the same for submissions, `TokensUnique`
says that two workers never hold the same attempt, and the table part is `RowsInv`. A step
of one worker changes one row and the objects of one job. `WorkerMoves` states what such
a step means to everybody else, with one lemma for each part of the invariant, so that the
lemma of an action is left with the worker that takes it.

`IsolationBroker_proofs`: any callers, numbers of units, sequences, records and faults,
and both kinds of runtime.

| Theorem | Statement |
|---|---|
| `BrokerStaysTyped` | `BrokerSpec => []BrokerTypeOK` |
| `UnitsStayTraced` | `BrokerSpec => []UnitsTraced`, that is, `NoOrphan` and `OneUnitPerSequence` |
| `ReadyBrokerIsSettled` | `BrokerSpec => []ReadyIsSettled` |
| `ReadyOnlyAfterSweep` | `BrokerSpec => ReadyAfterSweep` |
| `OnlyProvenIsForgotten` | `BrokerSpec => ForgottenIsProven` |

None of these is inductive. `BrokerInv` adds four facts to the types: `RowAgrees`, the
durable row of a unit admits what the runtime holds, at every instant because any may
be the last before a crash; `GateAgrees`, the next step of the running operation
determines the row it is about; `SequencesAgree`, every sequence ever used is at most
the high water and names one unit, so that a late create is either found or refused;
`ReadyAgrees`, while the broker is ready only the unit of its operation is half-way.

`ReversionService_proofs`, first part, the table of the reverse queue alone: any sets of
jobs and workers, any numbers of sequences and units, whatever calls are made with
whatever credentials.

| Theorem | Statement |
|---|---|
| `TableTypes` | `TableSpec => []TableTypeOK` |
| `AttemptsStayFenced` | `TableSpec => []AttemptsFenced` |
| `SuccessStaysCurrent` | `TableSpec => SuccessIsCurrent` |

`TableInv` is the inductive invariant. Nearly every transaction writes the row of one
job or of one attempt, so one lemma each says which such rows may be written
(`JobRowWritten`, `AttemptRowWritten`, `PrincipalWritten`, `OrphanRowWritten`), and an
operation is correct when the rows it writes are among them. `TableStep` collects the
operations, together with the action property. The second part is about the
callers that the table has.

`ReversionService_proofs`, second part: any jobs, workers, sequences, units, records,
limits and faults, workers that overlap, leases that run out under a running worker (`Timely` is not
assumed), and restorations of a backup.

| Theorem | Statement |
|---|---|
| `ReverseQueueStaysTyped` | `ServiceSpec => [](TableTypeOK /\ BrokerTypeOK /\ ServiceTypeOK)` |
| `UnitsStayAccounted` | `ServiceSpec => []UnitsAccounted` |
| `ClaimsStayFresh` | `ServiceSpec => FreshClaim` |
| `ServedAttemptsStayFenced` | `ServiceSpec => []AttemptsFenced` |
| `ServedUnitsStayTraced` | `ServiceSpec => []UnitsTraced` |
| `ReverseResultsStayAvailable` | `ServiceSpec => []ReverseResultAvailable` |
| `ReverseObjectsStayKept` | `NoWorkerDies /\ UploadsApart => (ServiceSpec => []ReverseObjectsKept)` |

`ReverseInv` joins `TableInv` and `BrokerInv`, which know nothing of each other, by what
travels between them. A request is served long after it was sent, and its caller may be
gone, so `RequestsOK` says of it only what stays true: a create names an attempt with a
durable intent, an acknowledgement a proof that the table has. An answer is read long
after it was given, so `ReplyOK` says of it only what stays true: the unit of a proof is
gone for good (`Proven`), and the high water of a page is still the broker's, or the table
is ahead of the broker. From these, `InventoryKnown`: every row of the broker belongs to
an attempt that asked for it, and a row that went has left its proof in the table; and
`ProofsTrue`. A running unit is then current because the attempt has an intent and cannot
have a proof, since a sequence names one unit. `WorkerOK` holds the proofs that a worker
is about to acknowledge, and that a worker past its reconciliation is ahead of the broker;
`BackupOK` says of a backup what the table said of itself. What relates rows to requests
is claimed while no backup exists that could be restored (`backup = NULL`), as in the
properties; the truth of proofs and the freshness of claims always are. Each step is shown to be a turn of one worker,
of the broker or of neither (`Turn`, `BrokerTurn`, `StandStill`); `TableMoves` and
`BrokerMoves` state what it means to the others.

The objects in the store have an invariant of their own, `ObjectsInv`, which rests on
`ReverseInv`. Attempts of a job have numbers of their own, and a result carries the number
of its attempt (`NumbersApart`), so that a worker which deletes its result deletes nobody
else's. `HolderOK` says, for each place in an attempt, whether the result has been put and
whether the success may have been granted: a worker deletes only where it cannot have been,
although it does not see the outcome of an ambiguous commit. This part needs no hypothesis,
and gives `ReverseResultsStayAvailable`. `SourcesInv` follows a submission from the row to
the put and the activation, and `SavedObjectsOK` says of a backup that its table and its
store agree. A step of a worker, or of nobody, is an `ObjectsMove`; most are calm (`Calm`),
that is, they neither grant, claim nor clean.

The two hypotheses of `ReverseObjectsStayKept` are about what the code does not do.
`NoWorkerDies`: a worker that puts its result after the cleanup has deleted its job's, and
dies before it deletes it, leaves a result that no row names. `UploadsApart`: `submit`
deletes the source when its put fails, and another submission of the key may have put it
(`SubmitPutFails`); so no put of a source fails, or no two submissions share a key and a
user. The run `reverse` stays within them: retention passes only where no process
dies, and two submissions share a key only where no put fails.

`Authentication_proofs`: any accounts, tokens and request threads, stopped between any
two transactions.

| Theorem | Statement |
|---|---|
| `AccountsStayTyped` | `AuthSpec => []AuthTypeOK` |
| `NoAccessComesLate` | `AuthSpec => []NoLateAccess` |
| `ChangesStayFenced` | `AuthSpec => ChangesFenced` |

`NoLateAccess` is about what a request reads at one moment and acts on at another.
`AuthInv` therefore says, for each stored session and for each session and version a
request carries, that the version is not later than the account's and is earlier once
the account has changed since the login (`Before`). It holds because a token names one
account for ever (`TokensOK`), which in turn holds because nobody but a login stores a
session that was not there: `save` renews only what is still stored. `PolicyKept`
chains the rows of the policy's audit.

`ComposerModelSteps_proofs`: any finite set of keys, any requests, limits and
environment.

| Theorem | Statement |
|---|---|
| `StepsStayTyped` | `StepsSpec => []StepTypeOK` |
| `PublishedUndisturbed` | `StepsSpec => []StepsUndisturbed` |
| `TransmitsAsApproved` | `StepsSpec => []SentOnceAsApproved` |
| `RepeatsAreAnswered` | `StepsSpec => StepAnswers` |

`StepsInv` relates what a step was admitted on (`RowsOK`), what its thread has read
since (`ThreadsOK`) and what is there now. Versions and generations only grow, so a
change under a running step makes it `Outdated` for good (`ChangesSeen`), and a
thread that finds the generation of the admission once more, at the last check before
egress, has read a record and a credential of that generation although it read them
one after the other: both lie between two equal numbers. That a text is sent once needs
that a step has one request that launches it and one thread (`LaunchesOK`, `SentOK`).
Three lemmas (`RequestMoves`, `ThreadMoves`, `WorldMoves`) carry what all steps of a
request, of a thread and of everybody else have in common.

`TemplateCatalog_proofs`: any templates, versions, processes and submissions, with
either database, whatever fails or stops.

| Theorem | Statement |
|---|---|
| `CatalogStaysTyped` | `CatalogSpec => []CatalogTypeOK` |
| `TemplatesStayKept` | `CatalogSpec => []TemplatesKept` |
| `DeletedStayUnreferenced` | `CatalogSpec => []DeletingUnreferenced` |
| `RevisionsIdentify` | `CatalogSpec => RevisionIdentifies` |

A request is several transactions, and what makes the next one right is what the ones
before have left in the tables. `RowsInv` relates the tables to each other: the current
version of a published template is published, is its own, and is stored unless the outcome
of a commit is unknown (`TemplateRowsAgree`); a number names one version of a template, and
the current version has the highest (`NumbersAgree`); a version that an unexpired job has
frozen is published and stored (`FrozenAgree`); a version with a claim of the retention is
current nowhere and frozen by expired jobs only (`RetainedUnused`). `OwnWork` says for each
process what its place in its request implies of the rows that it works on: who may still
finalize has stored its object, and a number above every published one; who removes an
object is past the version's publication. `Apart` says it for two processes: they publish
different versions, who claims a version has taken its publisher's token, and none is
cleaned up while it is being stored. `SelectionsAgree` is claimed for SQLite only, where a
preference is set under the lock that a deletion takes. That no object is left untracked
(`TracesKept`) holds while nobody dies and the store answers, as in the property. The next
number of a version is one more than the maximum of a finite set; `MaxBounded` finds that
maximum by the well-foundedness of the naturals.

`Processes_proofs`, first part, backup and restore: any numbers of objects, sets and
commands, standalone and distributed.

| Theorem | Statement |
|---|---|
| `RecoveryStaysTyped` | `RecoverySpec => []RecoveryTypeOK` |
| `PublishedStaysRestorable` | `RecoverySpec => []PublishedRestorable` |
| `RestoresAreExact` | `RecoverySpec => RestoreIsExact` |

`RecoveryInv` follows a backup and a restore from step to step. `BackupOK`: what the
snapshot of a calm backup (one that no cleanup has overtaken) refers to is still stored,
hence in its inventory, hence copied. `SetOK`: a set that carries its name has its manifest
and the files that the manifest lists, and a calm one contains what it refers to.
`CommandOK`: the place of a restore determines what it has put into the target, and a
restore that reports success has put everything. `Disjoint`: no two restores into a
distributed target have placed the same object, which is why one that fails removes only
its own. `NoTrace`: as long as no mishap occurs, a restore that has failed leaves nothing of
its own, and a target that no restore has completed is as it was but for what is being
placed.

Second part, the threads of one attempt: any lease, clock, number of progress reports and
faults.

| Theorem | Statement |
|---|---|
| `ThreadsStayAgreed` | `Spec => ThreadsAgree` |

`HeartInv` says that a thread between taking and releasing `_operation_lock` is the one that
holds it, and that what such a thread has read is between what the row has and what is there
now: its clock reading between `heartbeat_at` and the clock, its progress between the row's
step and the shared progress. The main thread at the terminal transition holds the lock and
has seen no error, so none can be recorded before it is done. That the threads keep to their
types (`HeartTyped`) is inductive by itself.

Third part, the sessions of the command line: any number of commands that share a profile,
and any number of sessions.

| Theorem | Statement |
|---|---|
| `SessionsStayKept` | `SessionSpec => []SessionsKept` |

`SessionsInv` numbers the sessions in the order in which they are created, so that a new one
is none that has ended, and adds to `SessionsKept` what the place of a command implies
(`SessionOK`): the session that it was run with has ended once the service has answered a
sign-out or a login, and after a password change every session alive is newer than the one
that carried it. Sessions that have ended stay ended, so what a command has reported stays
true while others run. That a session which goes out of a command's hands, or out of the
profile, goes to a place that `NoSessionForgotten` names is checked at each such step.

Fourth part, the outputs of local conversions: any number of publishers and of outputs, and
any number of files that somebody else writes, calls that fail and kills. The names of the
outputs differ, and there is one at least (`OutputsAssumption`).

| Theorem | Statement |
|---|---|
| `FilesStayKept` | `OutputsSpec => FilesKept` |

`OutputsInv`: the publisher that holds the lock has published a prefix of the names, whose
length follows from where it is (`PrefixOK`), and has a `.previous` file of exactly those that
it has replaced (`HiddenOK`). `Originally` is what a name would hold if the publisher gave up
now. While nobody was killed and nobody else wrote, that is a whole set at every step
(`CalmOK`), so that what a rollback leaves is one, and so is what a success leaves, for then
the prefix is all the names. A killed publisher leaves its `.previous` files, and `SafeName`
counts a success only once it is over: a publisher that is killed after its decision has not
yet removed any.

Fifth part, the remote commands: any set of commands, any number of runs, requests, changes
by others and lost answers. `RemoteAssumption` says that a command keeps to an order of its
steps (`KeepsOrder`): what is retried has a key and is the only creation of its command, a
change carries an ETag that was given or read before, what is saved was downloaded before,
and nothing is read again after it was confirmed. TLC evaluates the assumption for every
command of `ComposerCommands`, `AdministrationCommands` and `JobCommands`.

| Theorem | Statement |
|---|---|
| `CommandsStayHonest` | `RemoteSpec => CommandsHonest` |

`RemoteInv` says what the steps that a command has behind it imply of the service and of the
destination (`PassedOK`), that a request on its way carries what the command knew when it
sent it (`RequestOK`), that effects under a key or a known ETag have happened once at most
(`OnceOK`), and of the others counts those that were asked for and those on their way
(`OftenOK`): together they are no more than the runs allow.

`Runtimes_proofs`, first part, the inventory file: any processes and units, and any
number of the changes of `Damage`: rows, values, the manifest or the whole file put back
from earlier copies, rows lost or altered by something that does not know the key.

| Theorem | Statement |
|---|---|
| `StorageStaysTyped` | `StorageSpec => []StorageTypeOK` |
| `InventoryStaysSound` | `StorageSpec => []InventorySound` |

A reader accepts a file by its codes alone, so the argument is about what a code can have
been written for. `StorageInv` says that every committed file is `Sound` (it is empty, or
whole in one of the two schemas), that the manifest in the file is the manifest of some
committed file, and that a file nothing else has changed is itself a committed one. A
manifest determines the rows it was written for (`ManifestBinds`); so a file that is whole
under a committed manifest has the rows of that committed file, whatever was changed in
between (`WholeWasCommitted`), and a migration that verifies before it rewrites commits a
whole file again (`ManifestMakesWhole`).

Second part, the transport: any finite set of exchanges, any strays, any limits.

| Theorem | Statement |
|---|---|
| `TransportStaysTyped` | `TransportSpec => []TransportTypeOK` |
| `ExchangesStaySound` | `TransportSpec => []ExchangesSound` |

`TransportInv` says what a thread's place implies. `ExchangesOK`: an exchange has one
claimed connection at most, which has not been dispatched while it waits for the gate and
has been dispatched once afterwards; and a reservation that is open is fresh: no connection
has claimed it before. Without that, "dispatched at most once" is not inductive, for a
second connection may already have read its request. `SlotsOK`: the leases are exactly those that a thread holds at its
place, and for each semaphore the free slots and the leases together are the limit; a lease
that is released twice, or at two places, would break the sum. `GateOK`: the gate belongs
to the one thread that dispatches. `AuthorityOK`: a broker without its lock is stopped
or dead, and no thread of it is left.

Third part, the two runtimes: any number of faults.

| Theorem | Statement |
|---|---|
| `ContainersAreHonest` | `PodmanSpec => PodmanHonest` |
| `PodsAreHonest` | `KubernetesSpec => KubernetesHonest` |

Each contains the refinement: initial states of `RuntimeContract`, and every step a step of
it or none. A step that records evidence (`RecordEvidence`, `RecordProof`) is `Prove`; any
other leaves the recorded evidence alone (`EvidenceRecorded`, `ProofsRecorded`), so that it
is `Change` if the evidence is still true afterwards, which the invariant says.
`PodmanInv`: the stage that is recorded and the next command together say what podman holds
of the container (`EvidenceOK`), that one which is about to start has been inspected
(`UnitOK`), and that the files in `/work` are some first part of a request, or a request and
some first part of the response (`ChannelOK`); files are written in that order, because the
next one is found by counting (`RequestArrives`, `ResponseArrives`). `KubernetesInv` has the
ledger in between: `LedgerTrue`, what the ledger says is true of the Pod, and a Pod that it
knows has been attested; `Follows`, what the broker has recorded or is about to record is in
the ledger. A Pod is created only while the ledger has no evidence of it, so no evidence
becomes false.

Only model-checked. Liveness (`EveryJobEnds`, `KubernetesRestartsReady`,
`ReverseJobEnds`, `NothingStays`, `ProcessesEnd`), which the prover cannot treat. Drafts,
catalogs and fills (`StoredReadable`, `RevisionsAsReviewed`): safety that is within the
prover's reach in principle. `CleanedJobsGone` and `ResourcesTypeOK` speak of several
instances at once; what they say of one is `CleanedResultsStayGone`, and `CatalogStaysTyped`,
`DeletedStayUnreferenced` and `AccountsStayTyped`.

## What the models show besides

Things met while modelling that no property can call wrong, because the code or a
document accepts them, or because nothing says what ought to happen.

Conversion jobs. An upload that takes longer than the retention of its reservation,
cancelled meanwhile, leaves an object that no row tracks if its process then dies
(`docs/jobs.md`, line 20, says that a crash cannot create one). A late retry of a key
whose reservation was cleaned uploads an object that is never removed. `claim` bounds
no attempts by itself; a clock that steps back shortens leases (`persistence/jobs/claims.py`).
A transient read error of the source fails a job for good (`jobs/processor.py`).

Reverse jobs. Besides the shared key, a submission that dies between put and
activation leaves its object to the retention of the reservation
(`reversion_jobs/service.py`). The sequences called *wedged* above need an operator.

Broker and runtimes. A Kubernetes Pod that exited before it was bound is always
refused by `adopt_create_intent`, although its docstring allows the adoption
(`broker/kubernetes_attester.py`, line 260), and its intent keeps the broker from
becoming ready. `confirm_removed` repeats evidence from memory, not from the ledger; and after a
transition of the ledger that has committed although its call failed, the attester refuses
the next proof until it is restarted (`broker/kubernetes_attester_service.py`, lines 426 and
434), for the memory lacks the evidence and `recover` restores the binding only. A
create request that the API server handles very late, after its unit was declared
absent, is assumed away. A Podman intent whose create failed and was cleaned up keeps
the broker from becoming ready; a misplaced Podman container shows only when it runs and
ends at its `--timeout`. An earlier complete copy of the inventory file, put back, is not
noticed, for it authenticates as it did. Of two processes that create or migrate the
file at once, the second fails safely. A claimed request that waits for the gate past
its deadline, or a dispatch that is late, stops the whole broker.

Templates. The object of an upload stays when its lapse is followed by a failed
compensation. A `finalize` whose answer is lost is compensated like a failure and takes
the object of the current version with it. On PostgreSQL the check of `set_preferred`
locks nothing, and a preference may come to refer to a template that is being deleted
(`docs/templates.md`, line 81).

Composer. A publication that ends in a conflict or an error leaves its pending row, and
recovery runs only when an API process starts (`http/components.py`). A draft hidden by
the cleanup during a publication leaks the objects of its artifacts. The clock of
`finish_model_step` is read before its locks are taken. A publisher of a typed template
that loses to the recovery which discarded it leaves bytes; a late publisher may be told
of a conflict although recovery published its version. `approve_plan` compares the
caller's ETag in the table, not with the plan it has read. A fill whose link to its plan
was lost can be linked only by a retry with the same key; a retried `create_plan` whose
author has changed is refused as a reused key. `create_draft` with a shared source is not
called by the product.

Recovery. An online standalone backup taken while a cleanup has deleted bytes and not
yet acknowledged their metadata publishes a set that `restore` refuses. Objects of
reverse jobs are not among the references that verification follows. A standalone
restore does not compute the digests again after verification. A crash, or a put of
unknown outcome, leaves objects, so that the target is no longer empty for the next
attempt; a commit of unknown outcome leaves the database while the objects are taken
back; a crashed standalone restore leaves `.target.restore-pid`; removal from S3 stops at
the first failure; and what fails after `os.replace` leaves the complete target in place
although the command fails.

Command line. `conversion_http.download` publishes a truncated body as complete, where
template downloads compare a digest. `ProfileStore.save` makes its temporary file outside
its `try`, so that an `OSError` there passes by the clean-up of `login` and leaves a live
session. A refused `change-password` deletes the profile of a session that is still alive.
A file may be in place although the command fails, when the private name or the directory
cannot be dealt with afterwards. `logout` and `whoami` delete a profile by name even if another login has just
replaced it; a login ends the previous session even if the password is wrong. Template
and session-policy commands that read the ETag themselves may apply a change twice when
they are repeated after a lost answer, and creations without a key may be made twice.
`_create --with-credentials`, failing between its two requests, leaves a disabled
connection. In `_rollback` and `_link` of the local outputs a foreign file may come
between the look and the step; what is written between the backup link and the replace
is lost. Without `--timeout` a call may wait for ever (`docs/cli.md`, line 126, says so).

## Not modelled

- The transformations of the engines (Markdown, templates, diagrams, office formats): they
  are functions of bytes; the models know whether they end, fail or are aborted.
- Parsing and validation of requests, schemas, OpenAPI, the web front end, and every read
  that decides nothing.
- Logging, metrics, support bundles.
- Password hashing, signatures, TLS, tokens as strings: a credential is valid or not.
- Manifests, labels and network policies but for the facts that the runtimes compare.
- The content of prompts, of revisions and of office structures: two contents differ or
  are equal.
- Deletion of old audit records, migrations of the database, the restore exercise of CI.
- Clocks that step back.

## Plan

What remains.

1. Proofs about `ComposerDrafts`, `ComposerCatalogs` and `ComposerFills`.

What depends on fairness stays with TLC, as does what two instances of one MC module
say of each other.
