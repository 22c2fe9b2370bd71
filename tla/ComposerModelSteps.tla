------------------------- MODULE ComposerModelSteps -------------------------
(* Model steps of a Composer draft. An admitted step is a durable row with  *)
(* a lease; a thread of one process transmits the approved text through a   *)
(* connection and publishes what comes back. While it runs, the owner edits *)
(* the draft, answers a question or cancels, administrators change the      *)
(* connection, the policy or an author, and processes stop.                 *)
EXTENDS Integers, FiniteSets

CONSTANTS
    Keys,           \* idempotency keys of steps; a step is named by its key
    Clients,        \* requests that start steps
    None,
    MaxActive,      \* maximum_active
    Lease,
    Changes,        \* what else happens: names of the environment's actions
    Intents,        \* subset of {"proposal", "question", "office_edit"}
    Cites,          \* subset of BOOLEAN: does a request cite the author
    MaxTime,        \* bound: the clock
    MaxVersion,     \* bound: versions of the draft
    MaxChange       \* bound: versions of the connection, the author and the policy

ASSUME StepsAssumption ==
    /\ IsFiniteSet(Keys)
    /\ None \notin Keys
    /\ MaxActive \in Nat \ {0}
    /\ Lease \in Nat \ {0}
    /\ Intents \subseteq {"proposal", "question", "office_edit"}
    /\ Cites \subseteq BOOLEAN
    /\ MaxTime \in Nat /\ MaxVersion \in Nat \ {0} /\ MaxChange \in Nat \ {0}

VARIABLES
    draft,          \* ComposerDraftRow
    steps,          \* steps[k]: ComposerModelStepRow
    questions,      \* questions[k]: the question that step k has asked
    connection,     \* ComposerConnectionRow, its grant and its credential
    policy,         \* ComposerAdminPolicyRow
    author,         \* AuthorKnowledgeRow and the owner's access to it
    request,        \* request[c]: a request to start a step
    runner,         \* runner[k]: the thread of step k
    closed,         \* the step runner is closed
    now,
    disturbed,      \* history: running steps under which something has changed
    sent,           \* history: how often each step was transmitted
    failed          \* history: generations of the connection that a call failed with

stepVars == <<draft, steps, questions, connection, policy, author, request, runner, closed,
              now, disturbed, sent, failed>>

NoStep == [state |-> "none", base |-> 0, generation |-> 0, intent |-> "proposal",
           about |-> None, author |-> 0, expires |-> 0]

StepRow ==
    [state      : {"none", "running", "completed", "cancelled", "failed"},
     base       : 0 .. MaxVersion,           \* base_version
     generation : 0 .. MaxChange,           \* connection_generation
     intent     : {"proposal", "question", "office_edit"},
     about      : Keys \cup {None},          \* answered_question_id
     author     : 0 .. MaxChange,           \* the author version cited, or 0
     expires    : 0 .. MaxTime]

ConnectionRow ==
    [enabled : BOOLEAN, granted : BOOLEAN, credential : BOOLEAN,
     generation : 1 .. MaxChange, outage : BOOLEAN]

Idle == [pc |-> "idle", key |-> None, match |-> 0, intent |-> "proposal",
         about |-> None, author |-> 0]

StartRequest ==
    [pc : {"idle", "lookup", "preview", "admit", "launch", "again", "refused"},
     key : Keys \cup {None}, match : 0 .. MaxVersion,
     intent : {"proposal", "question", "office_edit"}, about : Keys \cup {None},
     author : 0 .. MaxChange]

NoThread == [pc |-> "idle", cancel |-> FALSE, record |-> 0, credential |-> 0,
             policy |-> 0, clock |-> 0]

Thread ==
    [pc : {"idle", "get", "prepare", "credentials", "authorize", "called", "outage",
           "fence", "clear", "clock", "finish", "failing", "cancelling"},
     cancel     : BOOLEAN,                   \* cancel_event
     record     : 0 .. MaxChange,           \* generation of the record as it was read
     credential : 0 .. MaxChange,           \* generation when the credential was read
     policy     : 0 .. MaxChange,
     clock      : 0 .. MaxTime]              \* now, as finish_model_step has read it

StepsInit ==
    /\ draft = [state |-> "active", version |-> 1]
    /\ steps = [k \in Keys |-> NoStep]
    /\ questions = [k \in Keys |-> "none"]
    /\ connection = [enabled |-> TRUE, granted |-> TRUE, credential |-> TRUE,
                     generation |-> 1, outage |-> FALSE]
    /\ policy = [enabled |-> TRUE, version |-> 0]
    /\ author = [version |-> 1, access |-> TRUE]
    /\ request = [c \in Clients |-> Idle]
    /\ runner = [k \in Keys |-> NoThread]
    /\ closed = FALSE
    /\ now = 0
    /\ disturbed = {}
    /\ sent = [k \in Keys |-> 0]
    /\ failed = {}

----------------------------------------------------------------------------

Running(k) == steps[k].state = "running"

Lapsed(k) == steps[k].expires <= now

Disturb(keys) == disturbed' = disturbed \cup {k \in keys : Running(k)}

ToRequest(c, pc) == request' = [request EXCEPT ![c].pc = pc]

ToThread(k, pc) == runner' = [runner EXCEPT ![k].pc = pc]

\* _expire_step
Expired(k) == [steps EXCEPT ![k].state = "failed"]

\* What a read of a step leaves: get_model_step ends a step whose lease is over.
AsRead(k) == IF draft.state = "active" /\ Running(k) /\ Lapsed(k) THEN Expired(k) ELSE steps

\* _authorize: the owner may use the connection, and it can be used.
Authorized ==
    /\ connection.granted
    /\ connection.enabled
    /\ connection.credential

\* _authorize_authors
AuthorAsCited(version) == version = 0 \/ (author.access /\ author.version = version)

\* Mutant: the author's version is compared when the step starts, access later.
FencedByAccess(k) ==
    /\ draft.state = "active"
    /\ draft.version = steps[k].base
    /\ Authorized
    /\ connection.generation = steps[k].generation
    /\ (steps[k].author # 0 => author.access)

\* Every fence of the start still holds.
Fenced(k) ==
    /\ draft.state = "active"
    /\ draft.version = steps[k].base
    /\ Authorized
    /\ connection.generation = steps[k].generation
    /\ AuthorAsCited(steps[k].author)

----------------------------------------------------------------------------
(* start_model_step and start_office_edit_step: a request to start a step.  *)

BeginStart(c, k, intent, about, cites) ==
    /\ request[c].pc \in {"idle", "refused"}
    /\ ~closed
    /\ intent = "office_edit" => about = None /\ ~cites
    /\ about # k
    /\ request' = [request EXCEPT ![c] =
          [pc |-> "lookup", key |-> k, match |-> draft.version, intent |-> intent,
           about |-> about, author |-> IF cites THEN author.version ELSE 0]]
    /\ UNCHANGED <<draft, steps, questions, connection, policy, author, runner, closed, now,
                   disturbed, sent, failed>>

\* _same_request
SameRequest(row, r) ==
    /\ row.state # "none"
    /\ row.base = r.match /\ row.intent = r.intent
    /\ row.about = r.about /\ row.author = r.author

\* What a replay still requires: the connection and the author are visible.
Accessible(r) ==
    /\ draft.state = "active"
    /\ connection.granted
    /\ r.author # 0 => author.access

\* _replayed_step: the answer comes from the durable step, when there is one.
ReplayedStep(c, otherwise) ==
    LET r == request[c]
    IN  /\ request' = [request EXCEPT ![c].pc =
              IF steps[r.key].state = "none" /\ draft.state = "active" THEN otherwise
              ELSE IF SameRequest(steps[r.key], r) /\ Accessible(r) THEN "idle"
              ELSE "refused"]
        /\ steps' = IF SameRequest(steps[r.key], r) THEN AsRead(r.key) ELSE steps
        /\ UNCHANGED <<draft, questions, connection, policy, author, runner, closed, now,
                       disturbed, sent, failed>>

replay_model_step(c) ==
    /\ request[c].pc = "lookup"
    /\ ReplayedStep(c, IF request[c].author # 0 \/ request[c].intent = "office_edit"
                       THEN "preview" ELSE "admit")

\* _preview_context, and _office_context for an edit: what would be transmitted
\* is composed again and compared with the preview that the owner approved.
Preview(c) ==
    /\ request[c].pc = "preview"
    /\ ToRequest(c, IF /\ draft.state = "active" /\ draft.version = request[c].match
                       /\ AuthorAsCited(request[c].author)
                    THEN "admit" ELSE "again")
    /\ UNCHANGED <<draft, steps, questions, connection, policy, author, runner, closed, now,
                   disturbed, sent, failed>>

\* A paused step is resumed: its question was answered, nothing came after,
\* its author is cited again, and nobody else resumes or has resumed it.
Resumable(r) ==
    LET source == steps[r.about]
    IN  /\ questions[r.about] = "answered"
        /\ draft.version = source.base + 2
        /\ source.author # 0 => r.author = source.author
        /\ \A k \in Keys : steps[k].about = r.about =>
              ~(steps[k].state = "completed" \/ (Running(k) /\ ~Lapsed(k)))

Busy == Cardinality({k \in Keys : Running(k) /\ ~Lapsed(k)}) >= MaxActive

Admitted(r) ==
    [state |-> "running", base |-> draft.version, generation |-> connection.generation,
     intent |-> r.intent, about |-> r.about, author |-> r.author, expires |-> now + Lease]

Admissible(r) ==
    /\ draft.state = "active"
    /\ r.match = draft.version
    /\ r.about # None => Resumable(r)
    /\ AuthorAsCited(r.author)

\* The key is taken: the same request gets the step as it is, another one a conflict.
AnswerExisting(c) ==
    LET k == request[c].key
    IN  /\ ToRequest(c, IF SameRequest(steps[k], request[c]) THEN "idle" ELSE "again")
        /\ steps' = IF SameRequest(steps[k], request[c]) THEN AsRead(k) ELSE steps

start_model_step(c) ==
    LET r == request[c]
        k == request[c].key
    IN  /\ request[c].pc = "admit"
        /\ now + Lease <= MaxTime
        /\ draft.version < MaxVersion - 2
        /\ IF closed \/ draft.state # "active"
           THEN ToRequest(c, "refused") /\ UNCHANGED steps
           ELSE IF steps[k].state # "none"
           THEN AnswerExisting(c)
           ELSE IF ~Admissible(r)
           THEN ToRequest(c, "again") /\ UNCHANGED steps
           ELSE IF ~Authorized \/ Busy
           THEN ToRequest(c, "refused") /\ UNCHANGED steps
           ELSE ToRequest(c, "launch") /\ steps' = [steps EXCEPT ![k] = Admitted(r)]
        /\ UNCHANGED <<draft, questions, connection, policy, author, runner, closed, now,
                       disturbed, sent, failed>>

\* start: the thread of a step that was created; a closed runner cancels it, a
\* thread that does not start fails it.
Launch(c) ==
    LET k == request[c].key
    IN  /\ request[c].pc = "launch"
        /\ \/ /\ ~closed
              /\ runner' = [runner EXCEPT ![k] = [NoThread EXCEPT !.pc = "get"]]
              /\ ToRequest(c, "idle")
              /\ UNCHANGED steps
           \/ /\ "crash" \in Changes
              /\ steps' = IF Running(k) THEN [steps EXCEPT ![k].state =
                             IF closed THEN "cancelled" ELSE "failed"] ELSE steps
              /\ ToRequest(c, "refused")
              /\ UNCHANGED runner
        /\ UNCHANGED <<draft, questions, connection, policy, author, closed, now, disturbed,
                       sent, failed>>

\* Mutant: a conflict is answered without a second look.
GiveUp(c) ==
    /\ request[c].pc = "again"
    /\ ToRequest(c, "refused")
    /\ UNCHANGED <<draft, steps, questions, connection, policy, author, runner, closed, now,
                   disturbed, sent, failed>>

\* After a conflict: an identical request may have been admitted meanwhile.
LookAgain(c) == request[c].pc = "again" /\ ReplayedStep(c, "refused")

----------------------------------------------------------------------------
(* _run: the thread of a step.                                             *)

\* The first read; a step that is over is not transmitted.
ReadStep(k) ==
    /\ runner[k].pc = "get"
    /\ steps' = AsRead(k)
    /\ ToThread(k, IF steps'[k].state = "running" /\ draft.state = "active"
                   THEN "prepare" ELSE "idle")
    /\ UNCHANGED <<draft, questions, connection, policy, author, request, closed, now,
                   disturbed, sent, failed>>

\* _check_cancelled comes before whatever a step of the call decides.
Onward(k, holds, pc) ==
    ToThread(k, IF runner[k].cancel THEN "cancelling" ELSE IF holds THEN pc ELSE "failing")

\* _prepare: the record and the policy, then the credential.
PrepareRecord(k) ==
    /\ runner[k].pc = "prepare"
    /\ runner' = [runner EXCEPT ![k].pc =
          IF runner[k].cancel THEN "cancelling"
          ELSE IF connection.granted /\ connection.enabled /\ policy.enabled THEN "credentials"
          ELSE "failing",
          ![k].record = connection.generation, ![k].policy = policy.version]
    /\ UNCHANGED <<draft, steps, questions, connection, policy, author, request, closed, now,
                   disturbed, sent, failed>>

OpenCredentials(k) ==
    /\ runner[k].pc = "credentials"
    /\ runner' = [runner EXCEPT ![k].credential = connection.generation,
          ![k].pc = IF runner[k].cancel THEN "cancelling"
                    ELSE IF connection.credential THEN "authorize" ELSE "failing"]
    /\ UNCHANGED <<draft, steps, questions, connection, policy, author, request, closed, now,
                   disturbed, sent, failed>>

\* Mutant: access is checked before egress, the generation at the end.
DispatchableNow(k) ==
    /\ Running(k) /\ ~Lapsed(k)
    /\ draft.state = "active" /\ draft.version = steps[k].base
    /\ Authorized /\ AuthorAsCited(steps[k].author)

Dispatchable(k) == Running(k) /\ ~Lapsed(k) /\ Fenced(k)

authorize_before_dispatch(k) ==
    /\ runner[k].pc = "authorize"
    /\ Onward(k, Dispatchable(k), "called")
    /\ sent' = IF Dispatchable(k) /\ ~runner[k].cancel THEN [sent EXCEPT ![k] = @ + 1] ELSE sent
    /\ UNCHANGED <<draft, steps, questions, connection, policy, author, request, closed, now,
                   disturbed, failed>>

\* The provider answers, or it fails, or the call is cancelled on its way.
ProviderAnswers(k) ==
    /\ runner[k].pc = "called"
    /\ \E pc \in {"fence", "outage", "failing"} :
          /\ ToThread(k, IF runner[k].cancel THEN "cancelling" ELSE pc)
          /\ failed' = IF pc = "outage" /\ ~runner[k].cancel THEN failed \cup {runner[k].record}
                                                              ELSE failed
    /\ UNCHANGED <<draft, steps, questions, connection, policy, author, request, closed, now,
                   disturbed, sent>>

\* set_outage with the generation that the call was made with.
set_outage(k, outage) ==
    connection' = IF connection.generation = runner[k].record
                  THEN [connection EXCEPT !.outage = outage]
                  ELSE connection

RecordOutage(k) ==
    /\ runner[k].pc = "outage"
    /\ set_outage(k, TRUE)
    /\ ToThread(k, "failing")
    /\ UNCHANGED <<draft, steps, questions, policy, author, request, closed, now, disturbed,
                   sent, failed>>

\* _fence
Fence(k) ==
    /\ runner[k].pc = "fence"
    /\ Onward(k, /\ connection.generation = runner[k].record
                 /\ connection.enabled /\ connection.granted
                 /\ policy.enabled /\ policy.version = runner[k].policy, "clear")
    /\ UNCHANGED <<draft, steps, questions, connection, policy, author, request, closed, now,
                   disturbed, sent, failed>>

ClearOutage(k) ==
    /\ runner[k].pc = "clear"
    /\ set_outage(k, FALSE)
    /\ \E valid \in BOOLEAN : Onward(k, valid, "clock")     \* _completion_content
    /\ UNCHANGED <<draft, steps, questions, policy, author, request, closed, now, disturbed,
                   sent, failed>>

\* A cancelled thread stops here; otherwise the clock is read, and the
\* transaction waits for its locks.
ReadClock(k) ==
    /\ runner[k].pc = "clock"
    /\ runner' = [runner EXCEPT ![k].pc = IF runner[k].cancel THEN "idle" ELSE "finish",
                                ![k].clock = now]
    /\ UNCHANGED <<draft, steps, questions, connection, policy, author, request, closed, now,
                   disturbed, sent, failed>>

Publishable(k) == Running(k) /\ runner[k].clock < steps[k].expires /\ Fenced(k)

finish_model_step(k) ==
    /\ runner[k].pc = "finish"
    /\ IF Publishable(k)
       THEN /\ steps' = [steps EXCEPT ![k].state = "completed"]
            /\ questions' = IF steps[k].intent = "question"
                            THEN [questions EXCEPT ![k] = "pending"] ELSE questions
            /\ draft' = [draft EXCEPT !.version = @ + 1]
            /\ Disturb(Keys \ {k})
            /\ ToThread(k, "idle")
       ELSE ToThread(k, "failing") /\ UNCHANGED <<steps, questions, draft, disturbed>>
    /\ UNCHANGED <<connection, policy, author, request, closed, now, sent, failed>>

\* _terminalize, by the thread: nothing happens to a step that is over, and a
\* store that is out of reach leaves the row to its lease.
Terminalize(k) ==
    /\ runner[k].pc \in {"failing", "cancelling"}
    /\ \/ /\ draft.state = "active" /\ Running(k)
          /\ steps' = [steps EXCEPT ![k].state =
                IF runner[k].pc = "failing" THEN "failed" ELSE "cancelled"]
       \/ (draft.state # "active" \/ ~Running(k) \/ "crash" \in Changes) /\ UNCHANGED steps
    /\ ToThread(k, "idle")
    /\ UNCHANGED <<draft, questions, connection, policy, author, request, closed, now,
                   disturbed, sent, failed>>

\* _watch_cancellation
Watch(k) ==
    /\ runner[k].pc # "idle" /\ ~runner[k].cancel
    /\ steps' = AsRead(k)
    /\ steps'[k].state # "running" \/ draft.state # "active" \/ "crash" \in Changes
    /\ runner' = [runner EXCEPT ![k].cancel = TRUE]
    /\ UNCHANGED <<draft, questions, connection, policy, author, request, closed, now,
                   disturbed, sent, failed>>

----------------------------------------------------------------------------
(* Everybody else.                                                         *)

cancel_model_step(k) ==
    /\ "cancel" \in Changes
    /\ draft.state = "active" /\ Running(k)
    /\ steps' = [steps EXCEPT ![k].state = "cancelled"]
    /\ UNCHANGED <<draft, questions, connection, policy, author, request, runner, closed, now,
                   disturbed, sent, failed>>

answer_question(k) ==
    /\ questions[k] = "pending"
    /\ draft.state = "active" /\ draft.version = steps[k].base + 1
    /\ questions' = [questions EXCEPT ![k] = "answered"]
    /\ draft' = [draft EXCEPT !.version = @ + 1]
    /\ Disturb(Keys)
    /\ UNCHANGED <<steps, connection, policy, author, request, runner, closed, now, sent, failed>>

\* save_draft, add_message, a decision: whatever moves the draft on.
EditDraft ==
    /\ "draft" \in Changes
    /\ draft.state = "active" /\ draft.version < MaxVersion - 2
    /\ draft' = [draft EXCEPT !.version = @ + 1]
    /\ Disturb(Keys)
    /\ UNCHANGED <<steps, questions, connection, policy, author, request, runner, closed, now,
                   sent, failed>>

HideDraft ==
    /\ "hide" \in Changes /\ draft.state = "active"
    /\ draft' = [draft EXCEPT !.state = "deleting"]
    /\ UNCHANGED <<steps, questions, connection, policy, author, request, runner, closed, now,
                   disturbed, sent, failed>>

\* save_connection: one transaction writes the record, its grants and its secret.
save_connection(row) ==
    /\ "connection" \in Changes
    /\ connection.generation < MaxChange
    /\ connection' = [row EXCEPT !.generation = @ + 1, !.outage = FALSE]
    /\ Disturb(Keys)
    /\ UNCHANGED <<draft, steps, questions, policy, author, request, runner, closed, now, sent,
                   failed>>

Save ==
    \E enabled, granted \in BOOLEAN :
        save_connection([connection EXCEPT !.enabled = enabled, !.granted = granted])

SetCredentials == save_connection([connection EXCEPT !.credential = TRUE])

RevokeCredentials == save_connection([connection EXCEPT !.credential = FALSE])

revoke_connection ==
    save_connection([connection EXCEPT !.enabled = FALSE, !.granted = FALSE,
                                       !.credential = FALSE])

\* The permission to use personal connections is a row of its own: it comes and
\* goes without a new generation.
set_personal_permission ==
    /\ "connection" \in Changes
    /\ connection' = [connection EXCEPT !.granted = ~@]
    /\ UNCHANGED <<draft, steps, questions, policy, author, request, runner, closed, now,
                   disturbed, sent, failed>>

\* A probe reports what it found with the settings it used.
Probe(usable) ==
    /\ "connection" \in Changes
    /\ usable /\ connection.enabled /\ connection.credential /\ policy.enabled
    /\ \E outage \in BOOLEAN :
          /\ connection' = [connection EXCEPT !.outage = outage]
          /\ failed' = IF outage THEN failed \cup {connection.generation} ELSE failed
    /\ UNCHANGED <<draft, steps, questions, policy, author, request, runner, closed, now,
                   disturbed, sent>>

discover_models == Probe(TRUE)                    \* a manager needs no grant

test == Probe(connection.granted)

PutPolicy ==
    /\ "policy" \in Changes
    /\ policy.version < MaxChange
    /\ \E enabled \in BOOLEAN : policy' = [enabled |-> enabled, version |-> policy.version + 1]
    /\ UNCHANGED <<draft, steps, questions, connection, author, request, runner, closed, now,
                   disturbed, sent, failed>>

UpdateAuthor ==
    /\ "author" \in Changes
    /\ author.version < MaxChange
    /\ author' = [author EXCEPT !.version = @ + 1]
    /\ Disturb({k \in Keys : steps[k].author # 0})
    /\ UNCHANGED <<draft, steps, questions, connection, policy, request, runner, closed, now,
                   sent, failed>>

\* _change_grant: the entry gets a new version as well.
ChangeGrant ==
    /\ "author" \in Changes
    /\ author.version < MaxChange
    /\ author' = [version |-> author.version + 1, access |-> ~author.access]
    /\ Disturb({k \in Keys : steps[k].author # 0})
    /\ UNCHANGED <<draft, steps, questions, connection, policy, request, runner, closed, now,
                   sent, failed>>

\* recover_stale_model_steps, whose clock may be behind.
recover_stale_model_steps(k) ==
    /\ Running(k) /\ Lapsed(k)
    /\ steps' = Expired(k)
    /\ UNCHANGED <<draft, questions, connection, policy, author, request, runner, closed, now,
                   disturbed, sent, failed>>

\* close: the threads are told, and their rows are cancelled if the store answers.
Close ==
    /\ "crash" \in Changes /\ ~closed
    /\ closed' = TRUE
    /\ LET active == {k \in Keys : runner[k].pc # "idle"}
       IN  /\ runner' = [k \in Keys |-> IF k \in active THEN [runner[k] EXCEPT !.cancel = TRUE]
                                                        ELSE runner[k]]
           /\ \E done \in {{}, active} :
                 steps' = [k \in Keys |-> IF k \in done /\ Running(k)
                                          THEN [steps[k] EXCEPT !.state = "cancelled"]
                                          ELSE steps[k]]
    /\ UNCHANGED <<draft, questions, connection, policy, author, request, now, disturbed, sent,
                   failed>>

\* The process ends, at any time, and another one takes its place.
Crash ==
    /\ "crash" \in Changes
    /\ closed' = FALSE
    /\ runner' = [k \in Keys |-> NoThread]
    /\ request' = [c \in Clients |-> Idle]
    /\ UNCHANGED <<draft, steps, questions, connection, policy, author, now, disturbed, sent,
                   failed>>

Tick ==
    /\ now < MaxTime
    /\ now' = now + 1
    /\ UNCHANGED <<draft, steps, questions, connection, policy, author, request, runner, closed,
                   disturbed, sent, failed>>

StartStep(c) ==
    \/ \E k \in Keys, intent \in Intents, about \in Keys \cup {None}, cites \in Cites :
          BeginStart(c, k, intent, about, cites)
    \/ replay_model_step(c) \/ Preview(c) \/ start_model_step(c) \/ Launch(c) \/ LookAgain(c)

RunStep(k) ==
    \/ ReadStep(k) \/ PrepareRecord(k) \/ OpenCredentials(k) \/ authorize_before_dispatch(k)
    \/ ProviderAnswers(k) \/ RecordOutage(k) \/ Fence(k) \/ ClearOutage(k) \/ ReadClock(k)
    \/ finish_model_step(k) \/ Terminalize(k) \/ Watch(k)

StepsNext ==
    \/ \E c \in Clients : StartStep(c)
    \/ \E k \in Keys : RunStep(k) \/ cancel_model_step(k) \/ answer_question(k)
                       \/ recover_stale_model_steps(k)
    \/ EditDraft \/ HideDraft \/ Save \/ SetCredentials \/ RevokeCredentials \/ revoke_connection
    \/ set_personal_permission \/ discover_models \/ test \/ PutPolicy \/ UpdateAuthor
    \/ ChangeGrant \/ Close \/ Crash \/ Tick

StepsSpec == StepsInit /\ [][StepsNext]_stepVars

----------------------------------------------------------------------------

\* Types: rows, threads and requests; only a completed step has asked something.
StepTypeOK ==
    /\ draft \in [state : {"active", "deleting"}, version : 1 .. MaxVersion]
    /\ steps \in [Keys -> StepRow]
    /\ questions \in [Keys -> {"none", "pending", "answered"}]
    /\ connection \in ConnectionRow
    /\ request \in [Clients -> StartRequest]
    /\ runner \in [Keys -> Thread]
    /\ \A k \in Keys : questions[k] # "none" => steps[k].state = "completed"

\* A step publishes what it got only when nothing it was started on has changed
\* since: the draft, the connection and the author entry it cites. The clock
\* that finish_model_step compares is read before its locks are taken, so a
\* step may be published after its lease has ended.
CompletedUndisturbed ==
    \A k \in DOMAIN steps : steps[k].state = "completed" => k \notin disturbed

\* An outage is shown only for settings that a call has failed with: a late
\* failure does not mark a connection that was repaired meanwhile.
OutageIsCurrent == connection.outage => connection.generation \in failed

\* Admitted steps whose lease has not ended are never more than the limit.
WithinCapacity == Cardinality({k \in DOMAIN steps : Running(k) /\ ~Lapsed(k)}) <= MaxActive

\* What a model step publishes rests on what it was admitted on
\* (finish_model_step), a late failure marks no repaired connection
\* (set_outage), and no owner has more live steps than allowed
\* (start_model_step).
StepsUndisturbed == CompletedUndisturbed /\ OutageIsCurrent /\ WithinCapacity

\* What is transmitted goes to the endpoint, with the credential, that were in
\* force when the owner approved it, although the record, the credential and
\* the fence are read one after the other.
SentAsApproved ==
    \A k \in DOMAIN runner : runner[k].pc = "called" =>
        runner[k].record = steps[k].generation /\ runner[k].credential = steps[k].generation

\* An approved text is transmitted at most once, whatever its request is retried.
TransmittedOnce == \A k \in DOMAIN sent : sent[k] <= 1

\* An approved text goes once to a provider, and only to the one that was
\* approved (authorize_before_dispatch).
SentOnceAsApproved == SentAsApproved /\ TransmittedOnce

\* A step ends once: a result that comes after a cancellation or after the
\* recovery of its lease changes nothing.
StepEndsOnce ==
    \A k \in DOMAIN steps :
        steps[k].state \in {"completed", "cancelled", "failed"} => steps'[k] = steps[k]

\* A retry of an admitted request is answered from its step, however far the
\* draft has moved on, and is never told that the draft has changed.
RetryIsAnswered ==
    \A c \in DOMAIN request :
        request[c].pc # "refused" /\ request'[c].pc = "refused" /\ request[c].pc # "launch"
           /\ ~closed =>
            ~(SameRequest(steps[request[c].key], request[c]) /\ Accessible(request[c]))

\* A step has one end, and whoever asks for it again is told of it
\* (replay_model_step, _terminalize).
StepAnswers == [][StepEndsOnce /\ RetryIsAnswered]_stepVars
=============================================================================
