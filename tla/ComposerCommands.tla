-------------------------- MODULE ComposerCommands --------------------------
(***************************************************************************)
(* The steps of the composer commands (cli/commands/composer.py).  Many    *)
(* commands have the same steps: a set holds those of a group of commands. *)
(***************************************************************************)
EXTENDS CommandSteps

----------------------------------------------------------------------------
(* What the commands share.                                                 *)

\* One page: an offset and a limit within bounds, and an answer that repeats them.
_paginated_get == <<Input, Query>>

\* A question that --force answers.
_confirm(force) == IF force THEN <<>> ELSE <<Ask>>

\* The limits of the service, read before anything is sent under them.
_composer_capabilities == <<Query>>

\* A file of the user's own, not longer than the limit.
_read_source == <<Input>>

_model_content == <<Input>>

_read_model_content_file == <<Input>>

\* Values from a private file, and a body that keeps the limit of the service.
_private_json == _composer_capabilities \o _read_model_content_file

_bounded_body == _composer_capabilities \o <<Input>>

\* The private files are looked at, the key is asked for, and only then is the limit
\* read that the values must keep.
_prompt_credentials == <<Input>> \o _composer_capabilities \o <<Input>>

\* The arguments of one mutation of a draft: its ETag and an idempotency key.
_revision_mutation == <<Send("change", "given", TRUE)>>

----------------------------------------------------------------------------
(* Policy, connections and permissions.                                     *)

\* _capabilities, _show_policy and _resolve_policy_destination; _set_policy.
PolicyCommands == {<<Query>>, <<Change>>}

\* The credentials follow the connection in a request of their own, with the ETag of
\* the answer to the first: a command that fails between them leaves the connection
\* behind, disabled.
_create(credentials) ==
    <<Input>>
    \o (IF credentials
        THEN _prompt_credentials
             \o <<[Create EXCEPT !.keeps = "etag"], Send("change", "read", FALSE)>>
        ELSE <<Create>>)

\* _list; _show and _test; _update; _set_enabled and _select_model.
ConnectionCommands ==
    {_paginated_get, <<Query>>, <<Input, Change>>, <<Change>>}
    \cup {_create(credentials) : credentials \in BOOLEAN}

\* _models; _rotate_credentials; _revoke_credentials and _revoke.
CredentialCommands ==
    {<<Query>>, _prompt_credentials \o <<Change>>}
    \cup {_confirm(force) \o <<Change>> : force \in BOOLEAN}

\* _list_personal_permissions, _show_personal_permission; _set_personal_permission.
PermissionCommands ==
    {_paginated_get, <<Query>>} \cup {_confirm(force) \o <<Change>> : force \in BOOLEAN}

----------------------------------------------------------------------------
(* Drafts, messages and proposals.                                          *)

\* _list_drafts; _show_draft; _create_draft; _handoff_draft and
\* _handoff_reversion_draft; _save_draft.
DraftCommands ==
    {_paginated_get, <<Query>>, _composer_capabilities \o _read_source \o <<Input, Create>>,
     <<Create>>, <<Change>>}

\* _list_messages; _create_message.
MessageCommands == {_paginated_get, <<Send("change", "given", TRUE)>>}

\* _list_proposals; _show_proposal; _decide_proposal; _publish_proposal.
ProposalCommands == {_paginated_get, <<Query>>, <<Input, Change>>, _revision_mutation}

----------------------------------------------------------------------------
(* Model steps.  What is sent to a model is what the user has been shown:   *)
(* the endpoint and the model of the connection, and the text with the      *)
(* records that it cites, in the form that the service has previewed.       *)

_approved_connection == <<Get("connection")>>

_bounded_model_body == <<Input>>

_preview_model_authors == _bounded_model_body \o <<Get("preview")>> \o _bounded_model_body

_confirm_model_step(force) == _confirm(force)

_citations == <<Input>>

\* The content, the authors and the citations are read before the body is made of them.
_start_model_step(cites, force) ==
    _approved_connection \o _composer_capabilities \o _model_content
    \o <<Input>> \o _citations \o _bounded_model_body
    \o (IF cites THEN _preview_model_authors ELSE <<>>)
    \o _confirm_model_step(force)
    \o <<[Send("append", "given", TRUE) EXCEPT !.approves = TRUE]>>

\* _start_model_step; _status_model_step; _cancel_model_step.
ModelStepCommands ==
    {<<Query>>}
    \cup {_start_model_step(cites, force) : cites, force \in BOOLEAN}
    \cup {_confirm(force) \o <<Send("set", "none", FALSE)>> : force \in BOOLEAN}

----------------------------------------------------------------------------
(* Revisions and their office documents.                                    *)

\* _capture_revision, _publish_draft_revision and _restore_revision; _list_revisions;
\* _show_revision and _diff_revision; _download_revision.
RevisionCommands ==
    {_revision_mutation, _paginated_get, <<Query>>} \cup {Fetch(force) : force \in BOOLEAN}

\* _office_targets; _office_edit, with the operations in a file.
OfficeEditCommands ==
    {_paginated_get,
     _composer_capabilities \o _read_model_content_file \o <<Input>> \o _revision_mutation}

\* _office_structure; _office_restructure, with operations that name files of their own.
OfficeStructureCommands ==
    {<<Query>>,
     _composer_capabilities \o _read_model_content_file \o <<Input>> \o _read_source
     \o _revision_mutation}

_office_propose(force) ==
    _approved_connection \o _composer_capabilities \o _model_content \o _bounded_model_body
    \o <<Get("preview")>> \o _confirm_model_step(force)
    \o <<[Send("append", "given", TRUE) EXCEPT !.approves = TRUE]>>

\* _office_propose; _office_publish.
OfficeProposalCommands ==
    {_revision_mutation} \cup {_office_propose(force) : force \in BOOLEAN}

----------------------------------------------------------------------------
(* Authors, library documents, typed templates and fill plans.              *)

\* _list_authors; _show_author; _create_author; _update_author; _author_grant.
AuthorCommands ==
    {_paginated_get, <<Query>>, _private_json \o _bounded_body \o <<Create>>,
     _private_json \o _bounded_body \o <<Change>>, <<Change>>}

_library_upload == _composer_capabilities \o _read_source

\* _list_library; _show_library_document; _upload_library_document;
\* _replace_library_document.
LibraryDocumentCommands ==
    {_paginated_get, <<Query>>, _library_upload \o <<Create>>, _library_upload \o <<Change>>}

\* _list_library_versions; _library_grant and _delete_library_document;
\* _search_library; _library_excerpts; _download_library_version.
LibraryVersionCommands ==
    {_paginated_get, <<Change>>, <<Input, Query>>, _citations \o <<Query>>}
    \cup {Fetch(force) : force \in BOOLEAN}

\* The limit of an upload is asked for before the document and its values are read.
_typed_template_upload ==
    <<Input, Query>> \o _read_source \o _private_json \o <<Input>>

\* _list_fill_templates and _list_fill_template_versions; _show_fill_template and
\* _show_fill_template_version; _create_fill_template; _replace_fill_template;
\* _fill_template_grant; _download_fill_template_version.
FillTemplateCommands ==
    {_paginated_get, <<Query>>, _typed_template_upload \o <<Create>>,
     _typed_template_upload \o <<Change>>, <<Change>>}
    \cup {Fetch(force) : force \in BOOLEAN}

\* The values of a new plan come from a file or are left to the plan.
_create_fill_plan(values) ==
    (IF values THEN _private_json ELSE <<>>) \o _bounded_body \o <<Send("change", "given", TRUE)>>

\* _list_fill_plans; _show_fill_plan; _create_fill_plan; _update_fill_plan;
\* _approve_fill_plan and _regenerate_fill; _publish_fill_plan, after which the plan
\* keeps its version, for the draft gets a revision.
FillPlanCommands ==
    {_paginated_get, <<Query>>,
     _private_json \o _private_json \o _bounded_body \o <<Send("change", "given", TRUE)>>}
    \cup {_create_fill_plan(values) : values \in BOOLEAN}
    \cup {<<Send(kind, "given", TRUE)>> : kind \in {"change", "append"}}

----------------------------------------------------------------------------
(* The commands that are registered.                                        *)

_register_authors == AuthorCommands \cup LibraryDocumentCommands \cup LibraryVersionCommands

_register_fill_templates == FillTemplateCommands \cup FillPlanCommands

_register_drafts ==
    DraftCommands \cup MessageCommands \cup ModelStepCommands \cup ProposalCommands

_register_revisions ==
    RevisionCommands \cup OfficeEditCommands \cup OfficeStructureCommands
    \cup OfficeProposalCommands

_register_connections ==
    PolicyCommands \cup ConnectionCommands \cup CredentialCommands \cup PermissionCommands

register ==
    _register_authors \cup _register_fill_templates \cup _register_drafts
    \cup _register_revisions \cup _register_connections

=============================================================================
