---------------------------- MODULE RemoteClient ----------------------------
(***************************************************************************)
(* One user, one remote command and the service.  The user runs a command  *)
(* until it succeeds, with the same arguments each time; the command takes *)
(* its steps (CommandSteps), one request at a time; the service serves     *)
(* what reaches it, and other clients work on the same resources.          *)
(*                                                                         *)
(* A request may be lost, its answer may be lost, and a request that the   *)
(* command no longer waits for may still be served.  Of the service only   *)
(* its promises are here: an If-Match is compared with the version that    *)
(* the change replaces, a key that was served is answered again without an *)
(* effect, and a model step is started with what was approved or not at    *)
(* all.  That it keeps them is the business of the modules about it.       *)
(***************************************************************************)
EXTENDS CommandSteps, FiniteSets

CONSTANTS
    RemoteCommands, \* the commands that the user may run
    MaxRuns,        \* bound: how often the user runs the command
    MaxVersion,     \* bound: the versions of the resource
    MaxChange,      \* bound: changes of the connection and of the records cited
    MaxPolls        \* --timeout, in polls of a job

\* What every command keeps to, whichever its steps are: only a request with a key is
\* tried again, and a key is for one effect; a change names the version that it replaces,
\* which the user gave or an earlier answer told; what is put at a destination has been
\* downloaded before; and nothing that a model step is approved for is read anew once the
\* user has been asked.
KeepsOrder(s) ==
    \A i \in 1 .. Len(s) :
        /\ s[i].keeps # "nothing" => s[i].op \in {"get", "send"}
        /\ (s[i].op = "send") <=> (s[i].kind \in Kinds)
        /\ s[i].tries > 1 => s[i].key
        /\ s[i].key => /\ s[i].kind \in Kinds \ {"set"}
                       /\ \A j \in 1 .. Len(s) : s[j].kind \in Kinds \ {"set"} => j = i
        /\ s[i].kind = "change" =>
              \/ s[i].etag = "given"
              \/ s[i].etag = "read" /\ \E j \in 1 .. i - 1 : s[j].keeps = "etag"
        /\ s[i].op = "save" =>
              /\ \E j \in 1 .. i - 1 : s[j].keeps = "body"
              /\ \A j \in 1 .. Len(s) : s[j].op = "save" => s[j].verified = s[i].verified
        /\ s[i].op = "confirm" =>
              \A j \in i .. Len(s) : s[j].keeps \notin {"connection", "preview"}

ASSUME RemoteAssumption ==
    /\ MaxRuns \in Nat \ {0} /\ MaxVersion \in Nat \ {0} /\ MaxChange \in Nat \ {0}
    /\ MaxPolls \in Nat \ {0}
    /\ \A s \in RemoteCommands : s \in Seq(AnyStep) /\ s # <<>> /\ KeepsOrder(s)

VARIABLES
    steps,      \* the command: its steps
    command,    \* the process that runs it
    wire,       \* the requests on their way
    service,    \* what the service holds
    output      \* the file at the destination of a download

remoteVars == <<steps, command, wire, service, output>>

\* What the user knows of the resource when the command is run.
Known == 1

\* The connection, and the records cited, that a model step is approved for.
Approval == [connection : 0 .. MaxChange, records : 0 .. MaxChange]

Nothing == [connection |-> 0, records |-> 0]

Ready(run) ==
    [run |-> run, at |-> 1, state |-> "ready", request |-> 0, tries |-> 1, polls |-> 0,
     etag |-> 0, approval |-> Nothing, asked |-> FALSE, shown |-> Nothing, body |-> "none",
     exit |-> "none"]

\* Whether the command has to do with something; what it has nothing to do with is left
\* as it is.
Has(field, value) == \E i \in 1 .. Len(steps) : steps[i][field] = value

RemoteInit ==
    /\ steps \in RemoteCommands
    /\ command = Ready(1)
    /\ wire = {}
    /\ service = [version |-> 1, connection |-> 1, records |-> 1, made |-> 0, set |-> FALSE,
                  served |-> {}, unseen |-> FALSE, started |-> {}, job |-> "running"]
    /\ output \in IF Has("op", "save") THEN {"none", "old"} ELSE {"none"}

Current == steps[command.at]

Ended(c, exit) == [c EXCEPT !.state = "ended", !.exit = exit]

\* main: a handler that comes to its end is a success.
Advance(c) ==
    IF c.at = Len(steps)
    THEN Ended(c, "ok")
    ELSE [c EXCEPT !.at = @ + 1, !.state = "ready", !.tries = 1]

CommandAt(ops) == command.state = "ready" /\ Current.op \in ops

----------------------------------------------------------------------------
(* Steps that need no request.                                              *)

ReadInput ==
    /\ CommandAt({"input"})
    /\ command' \in {Advance(command), Ended(command, "refused")}
    /\ UNCHANGED <<steps, wire, service, output>>

RefuseArguments ==
    /\ CommandAt({"refusal"})
    /\ command' = Ended(command, "refused")
    /\ UNCHANGED <<steps, wire, service, output>>

Confirm ==
    /\ CommandAt({"confirm"})
    /\ command' \in {Advance([command EXCEPT !.asked = TRUE, !.shown = command.approval]),
                     Ended(command, "refused")}
    /\ UNCHANGED <<steps, wire, service, output>>

\* _open_destination.
LookAtDestination ==
    /\ CommandAt({"look"})
    /\ command' = IF output # "none" /\ ~Current.overwrite
                  THEN Ended(command, "refused")
                  ELSE Advance(command)
    /\ UNCHANGED <<steps, wire, service, output>>

\* Mutant: the destination has been looked at, and is not looked at again.
MayPutAnyway(step) == TRUE

\* os.replace puts the file in place of any other, os.link only where there is none.
MayPut(step) == step.overwrite \/ output = "none"

Acceptable(step) == step.verified => command.body = "whole"

\* _atomic_stream and _atomic_write: a private file, put in place at once. To take away
\* the private name and to make the directory durable come after, and may fail.
PutInPlace ==
    /\ CommandAt({"save"})
    /\ \/ /\ Acceptable(Current) /\ MayPut(Current)
          /\ output' = command.body
          /\ command' \in {Advance(command), Ended(command, "refused")}
       \/ command' = Ended(command, "refused") /\ UNCHANGED output    \* refused, or OSError
    /\ UNCHANGED <<steps, wire, service>>

----------------------------------------------------------------------------
(* Requests.                                                                *)

Etag(step) == CASE step.etag = "given" -> Known
                [] step.etag = "read"  -> command.etag
                [] OTHER               -> 0

Issue ==
    /\ CommandAt({"get", "send", "wait"})
    /\ command' = [command EXCEPT !.state = "sent", !.request = @ + 1]
    /\ wire' = wire \cup {[id |-> <<command.run, command.request + 1>>, step |-> Current,
                           etag |-> Etag(Current), approval |-> command.approval,
                           asked |-> command.asked, shown |-> command.shown]}
    /\ UNCHANGED <<steps, service, output>>

AwaitedBy(r) == command.state = "sent" /\ r.id = <<command.run, command.request>>

\* What the answer leaves with the command.
WithAnswer(c, r) ==
    CASE r.step.keeps = "etag"       -> {[c EXCEPT !.etag = service.version]}
      [] r.step.keeps = "connection" -> {[c EXCEPT !.approval.connection = service.connection]}
      [] r.step.keeps = "preview"    -> {[c EXCEPT !.approval.records = service.records]}
      [] r.step.keeps = "body"       -> {[c EXCEPT !.body = body] : body \in {"whole", "short"}}
      [] OTHER                       -> {c}

\* _object, _payload, _expect_json: any other status than the expected one ends the command.
_object(c, r, accepted) ==
    IF accepted THEN {Advance(k) : k \in WithAnswer(c, r)} ELSE {Ended(c, "refused")}

\* The job is not at its end: another poll, if there is time for one.
Polled(c) ==
    IF c.polls + 1 = MaxPolls
    THEN Ended(c, "timeout")
    ELSE [c EXCEPT !.state = "ready", !.polls = @ + 1]

\* The answer reaches the command, or does not.
Answer(r, accepted) ==
    \/ /\ AwaitedBy(r)
       /\ command' \in IF r.step.op = "wait" /\ accepted
                       THEN {CASE service.job = "succeeded" -> Advance(command)
                               [] service.job = "failed"    -> Ended(command, "refused")
                               [] OTHER                     -> Polled(command)}
                       ELSE _object(command, r, accepted)
    \/ UNCHANGED command

\* The same request again, by its key.
Repeated(r) == r.step.key /\ service.served # {}

Transmitted(r) ==
    [connection |-> service.connection,
     records    |-> IF r.approval.records = 0 THEN 0 ELSE service.records]

Applicable(r) ==
    /\ r.etag # 0 => r.etag = service.version
    /\ r.step.approves => r.approval = Transmitted(r)

Applied(r) ==
    [service EXCEPT
        !.made    = IF r.step.kind = "set" THEN @ ELSE @ + 1,
        !.set     = @ \/ r.step.kind = "set",
        !.version = IF r.step.kind = "change" THEN @ + 1 ELSE @,
        !.unseen  = @ \/ (r.step.kind = "change" /\ service.version \notin {Known, r.etag}),
        !.served  = IF r.step.key THEN {r.approval} ELSE @,
        !.started = IF r.step.approves
                    THEN @ \cup {[asked |-> r.asked, shown |-> r.shown, sent |-> Transmitted(r)]}
                    ELSE @]

Serve(r) ==
    /\ wire' = wire \ {r}
    /\ IF r.step.op # "send"
       THEN /\ Answer(r, r.step.keeps = "preview" => /\ service.version = Known
                                                     /\ service.connection = r.approval.connection)
            /\ UNCHANGED service
       ELSE IF Repeated(r)
       THEN Answer(r, r.approval \in service.served) /\ UNCHANGED service
       ELSE IF Applicable(r)
       THEN /\ r.step.kind = "change" => service.version < MaxVersion
            /\ service' = Applied(r)
            /\ Answer(r, TRUE)
       ELSE Answer(r, FALSE) /\ UNCHANGED service
    /\ UNCHANGED <<steps, output>>

\* The session has ended, the account may not, a limit is reached, ...
Reject(r) ==
    /\ wire' = wire \ {r}
    /\ Answer(r, FALSE)
    /\ UNCHANGED <<steps, service, output>>

\* network_error: --timeout has passed, or the connection is broken.  A submission is
\* sent again as often as its --retries say.
NetworkError ==
    /\ command.state = "sent"
    /\ command' = IF command.tries < Current.tries
                  THEN [command EXCEPT !.state = "ready", !.tries = @ + 1]
                  ELSE Ended(command, "network")
    /\ UNCHANGED <<steps, wire, service, output>>

CommandStep ==
    \/ ReadInput \/ RefuseArguments \/ Confirm \/ LookAtDestination \/ PutInPlace \/ Issue

\* _wait_job: a job is waited for under a --timeout only. Any other command may be run
\* without one, and then waits for an answer for as long as the connection stands.
Timed == Has("op", "wait")

----------------------------------------------------------------------------
(* The user, and everyone else.                                             *)

Interrupt ==
    /\ command.state # "ended"
    /\ command' = Ended(command, "interrupted")
    /\ UNCHANGED <<steps, wire, service, output>>

RunAgain ==
    /\ command.state = "ended" /\ command.exit # "ok" /\ command.run < MaxRuns
    /\ command' = Ready(command.run + 1)
    /\ UNCHANGED <<steps, wire, service, output>>

SomeoneElse ==
    /\ \/ /\ service.version < MaxVersion /\ (Has("etag", "given") \/ Has("keeps", "etag"))
          /\ service' = [service EXCEPT !.version = @ + 1]
       \/ /\ service.connection < MaxChange /\ Has("keeps", "connection")
          /\ service' = [service EXCEPT !.connection = @ + 1]
       \/ /\ service.records < MaxChange /\ Has("keeps", "preview")
          /\ service' = [service EXCEPT !.records = @ + 1]
       \/ /\ service.job = "running" /\ Has("op", "wait")
          /\ \E end \in {"succeeded", "failed"} : service' = [service EXCEPT !.job = end]
    /\ UNCHANGED <<steps, command, wire, output>>

FileAppears ==
    /\ output = "none" /\ Has("op", "save")
    /\ output' = "foreign"
    /\ UNCHANGED <<steps, command, wire, service>>

RemoteNext ==
    \/ CommandStep \/ NetworkError \/ Interrupt \/ RunAgain \/ SomeoneElse \/ FileAppears
    \/ \E r \in wire : Serve(r) \/ Reject(r)

RemoteSpec == RemoteInit /\ [][RemoteNext]_remoteVars

----------------------------------------------------------------------------
(* Properties.                                                              *)

RemoteTypeOK ==
    /\ steps \in RemoteCommands
    /\ command \in
          [run : 1 .. MaxRuns, at : 1 .. Len(steps), state : {"ready", "sent", "ended"},
           request : Nat, tries : Nat \ {0}, polls : Nat, etag : 0 .. MaxVersion,
           approval : Approval, asked : BOOLEAN, shown : Approval,
           body : {"none", "whole", "short"},
           exit : {"none", "ok", "refused", "network", "timeout", "interrupted"}]
    /\ wire \subseteq
          [id : (1 .. MaxRuns) \X Nat, step : {steps[i] : i \in 1 .. Len(steps)},
           etag : 0 .. MaxVersion, approval : Approval, asked : BOOLEAN, shown : Approval]
    /\ service \in
          [version : 1 .. MaxVersion, connection : 1 .. MaxChange, records : 1 .. MaxChange,
           made : Nat, set : BOOLEAN, served : SUBSET Approval, unseen : BOOLEAN,
           started : SUBSET [asked : BOOLEAN, shown : Approval, sent : Approval],
           job : {"running", "succeeded", "failed"}]
    /\ output \in {"none", "old", "foreign", "whole", "short"}

Effects == {i \in 1 .. Len(steps) : steps[i].kind \in Kinds \ {"set"}}

\* An effect is asked for under a key, or under the version that it replaces and that the
\* user has seen.
OnceOnly(i) == steps[i].key \/ (steps[i].kind = "change" /\ steps[i].etag = "given")

\* A command that is repeated, by its own retries or by a user who was told of a network
\* error, has its effect once, if it carries an idempotency key or the ETag that the user
\* has seen; any other command has at most one effect a run for each request that it makes.
EffectsAsRun ==
    service.made <= IF \A i \in Effects : OnceOnly(i)
                    THEN Cardinality(Effects)
                    ELSE Cardinality(Effects) * command.run

\* Nothing is replaced that neither the user nor the command has seen.
NothingUnseen == ~service.unseen

\* A command that exits with success has done what it was run for, by this or by an
\* earlier request of the same key.
SuccessIsReal ==
    command.exit = "ok" =>
        /\ service.made >= Cardinality(Effects)
        /\ Has("kind", "set") => service.set
        /\ Has("op", "wait") => service.job = "succeeded"
        /\ Has("op", "save") => output \in {"whole", "short"}

\* A model is sent what the user was shown, if the user was asked.
SentAsShown == \A x \in service.started : x.asked => x.shown = x.sent

\* A download keeps what is at its destination unless it may overwrite it, and a verified
\* one is whole.
DestinationSafe ==
    \A i \in 1 .. Len(steps) :
        steps[i].op = "save" /\ steps[i].verified => output # "short"

DestinationKept ==
    (output \in {"old", "foreign"} /\ output' # output) =>
        \E i \in 1 .. Len(steps) : steps[i].op = "save" /\ steps[i].overwrite

\* A remote command does what it says, once, to what its user has seen.
CommandsHonest ==
    /\ [](RemoteTypeOK /\ EffectsAsRun /\ NothingUnseen /\ SuccessIsReal /\ SentAsShown
          /\ DestinationSafe)
    /\ [][DestinationKept]_remoteVars

=============================================================================
