---------------------------- MODULE CommandSteps ----------------------------
(***************************************************************************)
(* What a remote command of the command line is made of.  A command is a   *)
(* sequence of steps, each of which may end it: RemoteClient says how the  *)
(* steps are taken, and ComposerCommands, AdministrationCommands and       *)
(* JobCommands which steps each command has.                               *)
(***************************************************************************)
EXTENDS Naturals, Sequences

\* What a command that changes something asks of the service: a new resource,
\* something added to a resource that keeps its version, the next version of a
\* resource, or a field set to a value whatever it was.
Kinds == {"create", "append", "change", "set"}

Step(op) ==
    [op |-> op, keeps |-> "nothing", kind |-> "none", etag |-> "none", key |-> FALSE,
     tries |-> 1, approves |-> FALSE, overwrite |-> FALSE, verified |-> FALSE]

AnyStep ==
    [op : {"get", "send", "wait", "input", "refusal", "confirm", "look", "save"},
     keeps : {"nothing", "etag", "connection", "preview", "body"}, kind : Kinds \cup {"none"},
     etag : {"none", "given", "read"}, key : BOOLEAN, tries : Nat \ {0}, approves : BOOLEAN,
     overwrite : BOOLEAN, verified : BOOLEAN]

\* A request that changes nothing, and what is kept of its answer.
Get(keeps) == [Step("get") EXCEPT !.keeps = keeps]

Query == Get("nothing")

\* A file, a prompt or an option that is read, and found to be well formed.
Input == Step("input")

\* Arguments that do not go together.
Refusal == Step("refusal")

\* A question to the user, who has been shown what is kept so far.
Ask == Step("confirm")

\* A request that changes something.  Its ETag is the one that the user gave, the one
\* that the command has just read, or none; its key is the one that the user gave.
Send(kind, etag, key) == [Step("send") EXCEPT !.kind = kind, !.etag = etag, !.key = key]

Create == Send("create", "none", FALSE)

Change == Send("change", "given", FALSE)

\* ConversionHttpClient.download: a look at the destination, the request, and the
\* file put in its place.
Fetch(overwrite) ==
    <<[Step("look") EXCEPT !.overwrite = overwrite], Get("body"),
      [Step("save") EXCEPT !.overwrite = overwrite]>>

=============================================================================
