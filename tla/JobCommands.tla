----------------------------- MODULE JobCommands -----------------------------
(***************************************************************************)
(* The steps of the commands on conversion jobs and on reverse jobs        *)
(* (cli/commands/conversions.py and reversions.py).                        *)
(***************************************************************************)
EXTENDS CommandSteps

CONSTANT MaxTries       \* bound: one more than the retries that are tried out

\* Retries require an explicit idempotency key.
Submit(key, tries) ==
    IF tries > 1 /\ ~key
    THEN <<Refusal>>
    ELSE <<[Send("create", "none", key) EXCEPT !.tries = tries]>>

_idempotency_key == <<Input>>

\* The source, and the images that a Markdown file refers to: they are read under the
\* upload limit of the service, which is asked for when there are any.
_prepared_source(images) == <<Input>> \o (IF images THEN <<Query, Input>> ELSE <<>>)

_convert(images, key, tries) == _prepared_source(images) \o _idempotency_key \o Submit(key, tries)

\* _conversion_options and _show_job; _list_jobs; _wait_job; _cancel_job; _download.
JobStatusCommands ==
    {<<Query>>, <<Input, Query>>, <<Step("wait")>>, <<Send("set", "none", FALSE)>>}
    \cup {Fetch(overwrite) : overwrite \in BOOLEAN}

conversions ==
    JobStatusCommands
    \cup {_convert(images, key, tries) : images, key \in BOOLEAN, tries \in 1 .. MaxTries}

----------------------------------------------------------------------------
(* Reverse jobs: the capabilities are read first, and name the limit and    *)
(* the extensions that the source must keep to.                             *)

_validated_capabilities == <<Query>>

_read_source == <<Input>>

_submission_options == <<Input>>

_submit(key, tries) ==
    _validated_capabilities \o _read_source \o _submission_options \o _idempotency_key
    \o Submit(key, tries)

\* _show_job; _list_jobs; _wait_job; _cancel_job; _download_result.
ReverseStatusCommands ==
    {<<Query>>, <<Input, Query>>, <<Step("wait")>>, <<Send("set", "none", FALSE)>>}
    \cup {Fetch(overwrite) : overwrite \in BOOLEAN}

\* _capabilities; _submit; the rest.
reversions ==
    {<<Query>>} \cup ReverseStatusCommands
    \cup {_submit(key, tries) : key \in BOOLEAN, tries \in 1 .. MaxTries}

=============================================================================
