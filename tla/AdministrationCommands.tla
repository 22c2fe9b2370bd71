----------------------- MODULE AdministrationCommands -----------------------
(***************************************************************************)
(* The steps of the account, audit, session-policy and health commands     *)
(* (cli/commands/administration.py) and of the template commands           *)
(* (cli/commands/templates.py).  The user may give the ETag of a template; *)
(* a template command that is given none reads one itself, just before its *)
(* mutation.                                                               *)
(***************************************************************************)
EXTENDS CommandSteps

_confirm(force) == IF force THEN <<>> ELSE <<Ask>>

_new_password == <<Input>>

\* _list_users; _create_user; _reset_password; _set_active and
\* _set_password_requirement.
UserCommands ==
    {<<Query>>}
    \cup {_confirm(force) \o _new_password \o <<Create>> : force \in BOOLEAN}
    \cup {_confirm(force) \o password \o <<Send("set", "none", FALSE)>> :
             force \in BOOLEAN, password \in {<<>>, _new_password}}

\* The policy is replaced as it was when the command looked, after the question.
_update_session_policy(force) ==
    <<Input>> \o _confirm(force) \o <<Get("etag"), Send("change", "read", FALSE)>>

\* _audit; _get_session_policy, _live, _ready and _metrics; _update_session_policy.
ServiceCommands ==
    {<<Input, Query>>, <<Query>>} \cup {_update_session_policy(force) : force \in BOOLEAN}

register == UserCommands \cup ServiceCommands

----------------------------------------------------------------------------
(* The template commands.                                                  *)

\* The ETag is checked when it is given, and read when it is not.
Mutation(given, body) ==
    (IF given THEN <<Input>> ELSE <<Get("etag")>>) \o body
    \o <<Send("change", IF given THEN "given" ELSE "read", FALSE)>>

_template_multipart == <<Input>>

\* The content is compared with the digest in its ETag before it is written.
_download_to(force) ==
    <<Get("body"), [Step("save") EXCEPT !.overwrite = force, !.verified = TRUE]>>

\* _context, _list and _show; _search; _create; _download.
CatalogCommands ==
    {<<Query>>, <<Input, Query>>, _template_multipart \o <<Create>>}
    \cup {_download_to(force) : force \in BOOLEAN}

\* _update; _replace; _archive and _delete.
ChangeCommands ==
    {Mutation(given, body) : given \in BOOLEAN, body \in {<<>>, _template_multipart}}
    \cup {_confirm(force) \o Mutation(given, <<>>) : given, force \in BOOLEAN}

\* _versions; _version_download; _restore; _preferred and _fallback.
VersionCommands ==
    {<<Query>>, <<Send("set", "none", FALSE)>>}
    \cup {_download_to(force) : force \in BOOLEAN}
    \cup {Mutation(given, <<>>) : given \in BOOLEAN}

_run == CatalogCommands \cup ChangeCommands \cup VersionCommands

=============================================================================
