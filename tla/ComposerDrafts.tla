--------------------------- MODULE ComposerDrafts ---------------------------
(* Composer drafts, their sources, proposals, generations and revisions. A  *)
(* revision is published in two transactions, with its artifacts written to *)
(* the object store between them. Meanwhile the owner edits the draft or    *)
(* publishes something else, access to an author is withdrawn, processes    *)
(* stop, a starting API process recovers what looks abandoned, and          *)
(* retention removes old drafts and the sources nobody needs.               *)
EXTENDS Integers, FiniteSets, FiniteSetsExt

CONSTANTS
    Drafts,         \* draft identifiers; the source of a draft has its name
    Clients,        \* requests
    Cleaners,       \* processes that recover and clean up
    Keys,           \* idempotency keys
    None,
    Operations,     \* subset of {"capture", "draft", "proposal", "office", "edit",
                    \*            "generate", "restore"}
    Others,         \* what else happens: subset of {"save", "author", "crash", "hide", "create"}
    MaxRevision,    \* bound: revision rows
    MaxProposal,    \* bound: proposals
    MaxVersion      \* bound: versions of a draft

VARIABLES
    drafts,         \* drafts[d]: ComposerDraftRow
    sources,        \* sources[d]: ComposerSourceRow
    revisions,      \* revisions[r]: ComposerRevisionRow and its artifact rows
    proposals,      \* proposals[p]: ComposerProposalRow
    generation,     \* ComposerGenerationRow of the first draft, and its job
    objects,        \* the names under which the object store holds something
    access,         \* the owner may use the author that the model steps cite
    client,         \* client[c]: a request in progress
    cleaner         \* cleaner[m]: a recovery or a cleanup in progress

draftVars == <<drafts, sources, revisions, proposals, generation, objects, access, client, cleaner>>

Revisions == 1 .. MaxRevision

Proposals == 1 .. MaxProposal

Versions == 0 .. MaxVersion

\* Contents are told apart by the version at which they were written.
DraftRow ==
    [state : {"none", "active", "deleting", "deleted"}, version : Versions, content : Versions,
     current : Revisions \cup {None}]

\* publication_state, publication_token and lease_expires_at
Publication ==
    [state : {"none", "pending", "published", "removed"},
     holder : Clients \cup Cleaners \cup {None}, lapsed : BOOLEAN]

Unpublished == [state |-> "none", holder |-> None, lapsed |-> FALSE]

\* What a publication was asked for, digested: _request_digest.
NoRequest == [operation |-> "capture", about |-> 0, content |-> 0, base |-> None]

RequestDigest ==
    [operation : {"capture", "draft", "proposal", "office", "edit", "generate", "restore"},
     about : 0 .. MaxRevision + MaxProposal, content : Versions, base : Revisions \cup {None}]

RevisionRow ==
    [publication : Publication, draft : Drafts \cup {None}, number : 0 .. MaxRevision,
     expected : Versions, request : RequestDigest, key : Keys \cup {None}]

NoRevision == [publication |-> Unpublished, draft |-> None, number |-> 0, expected |-> 0,
               request |-> NoRequest, key |-> None]

ProposalRow ==
    [state : {"none", "pending", "accepted", "rejected"}, draft : Drafts \cup {None},
     base : Versions, on : Versions, reviewed : Revisions \cup {None}, office : BOOLEAN]

NoProposal == [state |-> "none", draft |-> None, base |-> 0, on |-> 0, reviewed |-> None,
               office |-> FALSE]

GenerationRow ==
    [state : {"none", "reserved", "attached"}, source : Revisions \cup {None},
     expected : Versions, job : {"none", "queued", "succeeded", "cancelled"},
     result : Revisions \cup {None}, key : Keys \cup {None}]

NoGeneration == [state |-> "none", source |-> None, expected |-> 0, job |-> "none",
                 result |-> None, key |-> None]

Waiting == [pc |-> "idle", draft |-> None, key |-> None, match |-> 0, request |-> NoRequest,
            revision |-> None]

Client ==
    [pc : {"idle", "asked", "reserve", "put", "finalize", "undo", "attach",
           "submit", "link", "write", "expose", "withdraw"},
     draft : Drafts \cup {None}, key : Keys \cup {None}, match : Versions,
     request : RequestDigest, revision : Revisions \cup {None}]

NoTask == [pc |-> "idle", draft |-> None, revision |-> None]

Cleaner ==
    [pc : {"idle", "bytes", "row", "hidden", "emptied", "source", "sourceless"},
     draft : Drafts \cup {None}, revision : Revisions \cup {None}]

Artifact(r) == <<"artifact", r>>

Source(d) == <<"source", d>>

\* A draft exists from the start, unless the instance is about its creation.
DraftsInit ==
    /\ drafts = [d \in Drafts |-> [state |-> IF "create" \in Others THEN "none" ELSE "active",
                                   version |-> 1, content |-> 1, current |-> None]]
    /\ sources = [d \in Drafts |-> [Unpublished EXCEPT !.state =
                     IF "create" \in Others THEN "none" ELSE "published"]]
    /\ revisions = [r \in Revisions |-> NoRevision]
    /\ proposals = [p \in Proposals |-> NoProposal]
    /\ generation = NoGeneration
    /\ objects = IF "create" \in Others THEN {} ELSE {Source(d) : d \in Drafts}
    /\ access = TRUE
    /\ client = [c \in Clients |-> Waiting]
    /\ cleaner = [m \in Cleaners |-> NoTask]

----------------------------------------------------------------------------

To(c, pc) == client' = [client EXCEPT ![c].pc = pc]

Done(c) == client' = [client EXCEPT ![c] = Waiting]

Active(d) == drafts[d].state = "active"

Rows(d) == {r \in Revisions : revisions[r].draft = d
                              /\ revisions[r].publication.state \in {"pending", "published"}}

Published(d) == {r \in Rows(d) : revisions[r].publication.state = "published"}

Pending(d) == Rows(d) \ Published(d)

\* find_revision_by_key
ByKey(d, k) == {r \in Published(d) : revisions[r].key = k}

\* A mutation under the lock of the draft moves its version and updated_at.
Move(d) == drafts' = [drafts EXCEPT ![d].version = @ + 1]

MayMove(d) == Active(d) /\ drafts[d].version < MaxVersion

----------------------------------------------------------------------------
(* create_draft_with_source: a hidden source, its bytes, then the draft.    *)

ReserveSource(c, d) ==
    /\ "create" \in Others
    /\ client[c].pc = "idle" /\ sources[d].state = "none"
    /\ sources' = [sources EXCEPT ![d] = [state |-> "pending", holder |-> c, lapsed |-> FALSE]]
    /\ client' = [client EXCEPT ![c] = [Waiting EXCEPT !.pc = "write", !.draft = d]]
    /\ UNCHANGED <<drafts, revisions, proposals, generation, objects, access, cleaner>>

WriteSource(c) ==
    /\ client[c].pc = "write"
    /\ \/ /\ objects' = objects \cup {Source(client[c].draft)}
          /\ To(c, "expose")
       \/ Done(c) /\ UNCHANGED objects                     \* ObjectStoreError
    /\ UNCHANGED <<drafts, sources, revisions, proposals, generation, access, cleaner>>

HeldSource(c, d) == sources[d].state = "pending" /\ sources[d].holder = c

ExposeDraft(c) ==
    LET d == client[c].draft
    IN  /\ client[c].pc = "expose"
        /\ IF HeldSource(c, d)
           THEN /\ sources' = [sources EXCEPT ![d] = [Unpublished EXCEPT !.state = "published"]]
                /\ drafts' = [drafts EXCEPT ![d].state = "active"]
                /\ Done(c)
           ELSE To(c, "withdraw") /\ UNCHANGED <<sources, drafts>>
        /\ UNCHANGED <<revisions, proposals, generation, objects, access, cleaner>>

WithdrawSource(c) ==
    /\ client[c].pc = "withdraw"
    /\ objects' \in {objects, objects \ {Source(client[c].draft)}}
    /\ Done(c)
    /\ UNCHANGED <<drafts, sources, revisions, proposals, generation, access, cleaner>>

----------------------------------------------------------------------------
(* The draft, its messages, and the proposals of its model steps.           *)

save_draft(d) ==
    /\ "save" \in Others /\ MayMove(d)
    /\ drafts' = [drafts EXCEPT ![d].version = @ + 1, ![d].content = drafts[d].version + 1]
    /\ UNCHANGED <<sources, revisions, proposals, generation, objects, access, client, cleaner>>

add_message(d) ==
    /\ "save" \in Others /\ MayMove(d)
    /\ Move(d)
    /\ UNCHANGED <<sources, revisions, proposals, generation, objects, access, client, cleaner>>

\* Only a model step makes proposals; for an Office edit it names the revision.
create_proposal(d, p, office) ==
    /\ MayMove(d) /\ proposals[p].state = "none"
    /\ office => drafts[d].current # None
    /\ proposals' = [proposals EXCEPT ![p] =
          [state |-> "pending", draft |-> d, base |-> drafts[d].version,
           on |-> drafts[d].content, reviewed |-> drafts[d].current, office |-> office]]
    /\ Move(d)
    /\ UNCHANGED <<sources, revisions, generation, objects, access, client, cleaner>>

decide_proposal(p) ==
    LET d == proposals[p].draft
    IN  /\ proposals[p].state = "pending"
        /\ MayMove(d) /\ drafts[d].version = proposals[p].base + 1
        /\ \E state \in {"accepted", "rejected"} :
              proposals' = [proposals EXCEPT ![p].state = state]
        /\ Move(d)
        /\ UNCHANGED <<sources, revisions, generation, objects, access, client, cleaner>>

ChangeAccess ==
    /\ "author" \in Others
    /\ access' = ~access
    /\ UNCHANGED <<drafts, sources, revisions, proposals, generation, objects, client, cleaner>>

----------------------------------------------------------------------------
(* The handlers that publish. A client knows a version of the draft; the    *)
(* handler reads what it publishes, one row after the other.                *)

Ask(c, d, k, operation, about) ==
    /\ client[c].pc = "idle"
    /\ Active(d)
    /\ client' = [client EXCEPT ![c] =
          [pc |-> "asked", draft |-> d, key |-> k, match |-> drafts[d].version,
           request |-> [NoRequest EXCEPT !.operation = operation, !.about = about],
           revision |-> None]]
    /\ UNCHANGED <<drafts, sources, revisions, proposals, generation, objects, access, cleaner>>

\* The handler goes on to publish_revision with what it has read.
Publish(c, content, base) ==
    client' = [client EXCEPT ![c].pc = "reserve", ![c].request.content = content,
                             ![c].request.base = base]

\* Handlers with a replay answer from the revision that the key has published.
Replayed(c) == ByKey(client[c].draft, client[c].key) # {}

Reads(c, operation) == client[c].pc = "asked" /\ client[c].request.operation = operation

capture_source(c) ==
    /\ Reads(c, "capture")
    /\ IF Active(client[c].draft) /\ Source(client[c].draft) \in objects
       THEN Publish(c, 0, None) ELSE Done(c)
    /\ UNCHANGED <<drafts, sources, revisions, proposals, generation, objects, access, cleaner>>

publish_draft(c) ==
    /\ Reads(c, "draft")
    /\ IF Active(client[c].draft) /\ ~Replayed(c)
       THEN Publish(c, drafts[client[c].draft].content, drafts[client[c].draft].current)
       ELSE Done(c)
    /\ UNCHANGED <<drafts, sources, revisions, proposals, generation, objects, access, cleaner>>

\* The value of a proposal is told apart by the version that proposing it made.
ProposedValue(p) == proposals[p].base + 1

publish_proposal(c) ==
    LET p == client[c].request.about
    IN  /\ Reads(c, "proposal")
        /\ IF Active(client[c].draft) /\ proposals[p].state = "accepted"
           THEN Publish(c, ProposedValue(p), None) ELSE Done(c)
        /\ UNCHANGED <<drafts, sources, revisions, proposals, generation, objects, access,
                       cleaner>>

publish_office_edit_proposal(c) ==
    LET p == client[c].request.about
        d == client[c].draft
    IN  /\ Reads(c, "office")
        /\ IF /\ Active(d) /\ ~Replayed(c)
              /\ proposals[p].state = "accepted" /\ proposals[p].office
              /\ drafts[d].current = proposals[p].reviewed
           THEN Publish(c, ProposedValue(p), drafts[d].current) ELSE Done(c)
        /\ UNCHANGED <<drafts, sources, revisions, proposals, generation, objects, access,
                       cleaner>>

\* The owner edits the revision that is current, by its identifier.
publish_office_edit(c) ==
    LET d == client[c].draft
    IN  /\ Reads(c, "edit")
        /\ IF Active(d) /\ ~Replayed(c) /\ drafts[d].current = client[c].request.about
           THEN Publish(c, 0, drafts[d].current) ELSE Done(c)
        /\ UNCHANGED <<drafts, sources, revisions, proposals, generation, objects, access,
                       cleaner>>

restore_revision(c) ==
    LET r == client[c].request.about
    IN  /\ Reads(c, "restore")
        /\ IF r \in Published(client[c].draft) /\ Active(client[c].draft)
              /\ Artifact(r) \in objects
           THEN Publish(c, revisions[r].request.content, revisions[r].request.base)
           ELSE Done(c)
        /\ UNCHANGED <<drafts, sources, revisions, proposals, generation, objects, access,
                       cleaner>>

\* The draft is as it was when the generation was reserved, and its job is done.
CurrentGeneration(c) ==
    LET d == client[c].draft
    IN  /\ client[c].match = generation.expected
        /\ drafts[d].version = generation.expected
        /\ drafts[d].current = generation.source
        /\ generation.state = "attached" /\ generation.job = "succeeded"

publish_generation(c) ==
    LET d == client[c].draft
    IN  /\ Reads(c, "generate")
        /\ IF ~Active(d) \/ generation.state = "none" \/ generation.result # None
           THEN Done(c)
           ELSE IF Replayed(c)
           THEN IF \A r \in ByKey(d, client[c].key) : revisions[r].request.operation = "generate"
                THEN client' = [client EXCEPT ![c].pc = "attach",
                         ![c].revision = CHOOSE r \in ByKey(d, client[c].key) : TRUE]
                ELSE Done(c)
           ELSE IF CurrentGeneration(c) THEN Publish(c, 0, generation.source) ELSE Done(c)
        /\ UNCHANGED <<drafts, sources, revisions, proposals, generation, objects, access,
                       cleaner>>

----------------------------------------------------------------------------
(* publish_revision                                                         *)

\* _require_proposal_author_access: the step behind the proposal may still be used.
ProposalAccess(request) == request.operation \in {"proposal", "office"} => access

ReviewedProposal(d, request) ==
    /\ proposals[request.about].state = "accepted"
    /\ proposals[request.about].office = (request.operation = "office")
    /\ drafts[d].version = proposals[request.about].base + 2
    /\ request.operation = "office" => proposals[request.about].reviewed = drafts[d].current

\* What is published is what the draft still says.
Fits(d, request) ==
    /\ request.operation = "draft" =>
          request.content = drafts[d].content /\ request.base = drafts[d].current
    /\ request.operation \in {"proposal", "office"} => ReviewedProposal(d, request)
    /\ ProposalAccess(request)

NextNumber(d) == 1 + Max({0} \cup {revisions[r].number : r \in Rows(d)})

Reservation(c, r) ==
    [publication |-> [state |-> "pending", holder |-> c, lapsed |-> FALSE],
     draft |-> client[c].draft, number |-> NextNumber(client[c].draft),
     expected |-> drafts[client[c].draft].version, request |-> client[c].request,
     key |-> client[c].key]

InProgress(d) == Pending(d)

ReserveRevision(c) ==
    LET d == client[c].draft
        existing == {r \in Rows(d) : revisions[r].key = client[c].key}
    IN  /\ client[c].pc = "reserve"
        /\ IF /\ Active(d) /\ existing = {} /\ client[c].match = drafts[d].version
              /\ Fits(d, client[c].request) /\ InProgress(d) = {}
           THEN \E r \in Revisions :
                   /\ revisions[r] = NoRevision
                   /\ \A q \in 1 .. r - 1 : revisions[q] # NoRevision
                   /\ revisions' = [revisions EXCEPT ![r] = Reservation(c, r)]
                   /\ client' = [client EXCEPT ![c].pc = "put", ![c].revision = r]
           ELSE /\ IF /\ Active(d) /\ client[c].request.operation = "generate"
                      /\ \E r \in existing : revisions[r].request = client[c].request
                                             /\ r \in Published(d)
                   THEN client' = [client EXCEPT ![c].pc = "attach",
                                       ![c].revision = CHOOSE r \in existing : TRUE]
                   ELSE Done(c)
                /\ UNCHANGED revisions
        /\ UNCHANGED <<drafts, sources, proposals, generation, objects, access, cleaner>>

PutArtifacts(c) ==
    /\ client[c].pc = "put"
    /\ \/ /\ objects' = objects \cup {Artifact(client[c].revision)}
          /\ To(c, "finalize")
       \/ Done(c) /\ UNCHANGED objects                     \* ObjectStoreError
    /\ UNCHANGED <<drafts, sources, revisions, proposals, generation, access, cleaner>>

Finalizable(c) ==
    LET row == revisions[client[c].revision]
    IN  /\ row.publication.state = "pending" /\ row.publication.holder = c
        /\ drafts[row.draft].version = row.expected
        /\ ProposalAccess(row.request)

\* A proposal for the text of the draft becomes its content.
WithRevision(d, r) ==
    [drafts[d] EXCEPT !.current = r, !.version = @ + 1,
        !.content = IF revisions[r].request.operation = "proposal"
                    THEN revisions[r].request.content ELSE @]

FinalizeRevision(c) ==
    LET d == client[c].draft
        r == client[c].revision
    IN  /\ client[c].pc = "finalize"
        /\ drafts[d].version < MaxVersion
        /\ IF ~Active(d)
           THEN Done(c) /\ UNCHANGED <<revisions, drafts>>
           ELSE IF Finalizable(c)
           THEN /\ revisions' = [revisions EXCEPT ![r].publication =
                        [Unpublished EXCEPT !.state = "published"]]
                /\ drafts' = [drafts EXCEPT ![d] = WithRevision(d, r)]
                /\ IF revisions[r].request.operation = "generate" THEN To(c, "attach") ELSE Done(c)
           ELSE To(c, "undo") /\ UNCHANGED <<revisions, drafts>>
        /\ UNCHANGED <<sources, proposals, generation, objects, access, cleaner>>

\* After a conflict the bytes go, if the store lets them; the row waits for recovery.
UndoArtifacts(c) ==
    /\ client[c].pc = "undo"
    /\ objects' \in {objects, objects \ {Artifact(client[c].revision)}}
    /\ Done(c)
    /\ UNCHANGED <<drafts, sources, revisions, proposals, generation, access, cleaner>>

----------------------------------------------------------------------------
(* create_generation, its job, and the link to its revision.                *)

\* reserve_generation, for the current revision that a person has approved.
reserve_generation(c, d) ==
    /\ client[c].pc = "idle" /\ "generate" \in Operations
    /\ Active(d) /\ drafts[d].current # None
    /\ generation.state # "attached"
    /\ \/ /\ generation.state = "none"
          /\ revisions[drafts[d].current].request.operation \in {"draft", "proposal"}
          /\ generation' = [NoGeneration EXCEPT !.state = "reserved",
                !.source = drafts[d].current, !.expected = drafts[d].version]
       \/ generation.state = "reserved" /\ UNCHANGED generation         \* a retry
    /\ client' = [client EXCEPT ![c] = [Waiting EXCEPT !.pc = "submit", !.draft = d]]
    /\ UNCHANGED <<drafts, sources, revisions, proposals, objects, access, cleaner>>

\* jobs.submit under a key of the generation, and _verify_job_identity.
SubmitJob(c) ==
    /\ client[c].pc = "submit"
    /\ IF generation.state = "none" THEN UNCHANGED generation ELSE
       generation' = [generation EXCEPT !.job = IF @ = "none" THEN "queued" ELSE @]
    /\ To(c, "link")
    /\ UNCHANGED <<drafts, sources, revisions, proposals, objects, access, cleaner>>

attach_generation_job(c) ==
    /\ client[c].pc = "link"
    /\ generation' = IF Active(client[c].draft) /\ generation.state = "reserved"
                     THEN [generation EXCEPT !.state = "attached"] ELSE generation
    /\ Done(c)
    /\ UNCHANGED <<drafts, sources, revisions, proposals, objects, access, cleaner>>

\* The worker finishes the job, or the owner cancels it first.
EndJob ==
    /\ generation.job = "queued"
    /\ \E job \in {"succeeded", "cancelled"} :
          /\ job = "cancelled" => generation.state = "attached"
          /\ generation' = [generation EXCEPT !.job = job]
    /\ UNCHANGED <<drafts, sources, revisions, proposals, objects, access, client, cleaner>>

attach_generation_revision(c) ==
    /\ client[c].pc = "attach"
    /\ IF /\ Active(client[c].draft)
          /\ generation.result \in {None, client[c].revision}
          /\ generation.key \in {None, client[c].key}
       THEN generation' = [generation EXCEPT !.result = client[c].revision,
                                             !.key = client[c].key]
       ELSE UNCHANGED generation
    /\ Done(c)
    /\ UNCHANGED <<drafts, sources, revisions, proposals, objects, access, cleaner>>

----------------------------------------------------------------------------
(* Recovery, when an API process starts, and retention.                     *)

LeaseEnds ==
    /\ \/ \E r \in Revisions :
             /\ revisions[r].publication.state = "pending" /\ ~revisions[r].publication.lapsed
             /\ revisions' = [revisions EXCEPT ![r].publication.lapsed = TRUE]
             /\ UNCHANGED sources
       \/ \E d \in Drafts :
             /\ sources[d].state = "pending" /\ ~sources[d].lapsed
             /\ sources' = [sources EXCEPT ![d].lapsed = TRUE]
             /\ UNCHANGED revisions
    /\ UNCHANGED <<drafts, proposals, generation, objects, access, client, cleaner>>

\* A stale publication gets another token, and a lease for the recovery.
Claimed(publication, m) == [publication EXCEPT !.holder = m, !.lapsed = FALSE]

recover_stale_publications(m, r) ==
    /\ cleaner[m].pc = "idle"
    /\ revisions[r].publication.state = "pending" /\ revisions[r].publication.lapsed
    /\ revisions' = [revisions EXCEPT ![r].publication = Claimed(@, m)]
    /\ cleaner' = [cleaner EXCEPT ![m] = [NoTask EXCEPT !.pc = "bytes", !.revision = r]]
    /\ UNCHANGED <<drafts, sources, proposals, generation, objects, access, client>>

RemoveArtifacts(m) ==
    LET r == cleaner[m].revision
    IN  /\ cleaner[m].pc = "bytes"
        /\ \/ /\ objects' = objects \ {Artifact(r)}
              /\ cleaner' = [cleaner EXCEPT ![m].pc = "row"]
           \/ cleaner' = [cleaner EXCEPT ![m] = NoTask] /\ UNCHANGED objects
        /\ UNCHANGED <<drafts, sources, revisions, proposals, generation, access, client>>

Removed == [NoRevision EXCEPT !.publication.state = "removed"]

RemoveRevision(m) ==
    LET r == cleaner[m].revision
    IN  /\ cleaner[m].pc = "row"
        /\ revisions' = IF /\ revisions[r].publication.state = "pending"
                           /\ revisions[r].publication.holder = m
                        THEN [revisions EXCEPT ![r] = Removed] ELSE revisions
        /\ cleaner' = [cleaner EXCEPT ![m] = NoTask]
        /\ UNCHANGED <<drafts, sources, proposals, generation, objects, access, client>>

\* cleanup_expired_drafts: a draft that was not touched for long is hidden, or
\* one that an earlier cleanup has hidden is taken up again.
HideDraft(m, d) ==
    /\ "hide" \in Others
    /\ cleaner[m].pc = "idle"
    /\ drafts[d].state \in {"active", "deleting"}
    /\ drafts' = [drafts EXCEPT ![d].state = "deleting"]
    /\ cleaner' = [cleaner EXCEPT ![m] = [NoTask EXCEPT !.pc = "hidden", !.draft = d]]
    /\ UNCHANGED <<sources, revisions, proposals, generation, objects, access, client>>

EmptyDraft(m) ==
    LET d == cleaner[m].draft
    IN  /\ cleaner[m].pc = "hidden"
        /\ \/ /\ objects' = objects \ {Artifact(r) : r \in Rows(d)}
              /\ cleaner' = [cleaner EXCEPT ![m].pc = "emptied"]
           \/ cleaner' = [cleaner EXCEPT ![m] = NoTask] /\ UNCHANGED objects
        /\ UNCHANGED <<drafts, sources, revisions, proposals, generation, access, client>>

DeleteDraft(m) ==
    LET d == cleaner[m].draft
    IN  /\ cleaner[m].pc = "emptied"
        /\ IF drafts[d].state = "deleting"
           THEN /\ drafts' = [drafts EXCEPT ![d].state = "deleted"]
                /\ revisions' = [r \in Revisions |-> IF r \in Rows(d) THEN Removed
                                                                      ELSE revisions[r]]
                /\ proposals' = [p \in Proposals |-> IF proposals[p].draft = d THEN NoProposal
                                                                               ELSE proposals[p]]
                /\ generation' = NoGeneration
           ELSE UNCHANGED <<drafts, revisions, proposals, generation>>
        /\ cleaner' = [cleaner EXCEPT ![m] = NoTask]
        /\ UNCHANGED <<sources, objects, access, client>>

\* cleanup_orphan_sources takes a published source that no draft names.
OrphanSource(d) == sources[d].state = "published" /\ drafts[d].state \notin {"active", "deleting"}

HideSource(m, d) ==
    /\ "hide" \in Others
    /\ cleaner[m].pc = "idle" /\ OrphanSource(d)
    /\ sources' = [sources EXCEPT ![d] = [state |-> "pending", holder |-> m, lapsed |-> FALSE]]
    /\ cleaner' = [cleaner EXCEPT ![m] = [NoTask EXCEPT !.pc = "source", !.draft = d]]
    /\ UNCHANGED <<drafts, revisions, proposals, generation, objects, access, client>>

recover_stale_sources(m, d) ==
    /\ cleaner[m].pc = "idle"
    /\ sources[d].state = "pending" /\ sources[d].lapsed
    /\ sources' = [sources EXCEPT ![d] = Claimed(@, m)]
    /\ cleaner' = [cleaner EXCEPT ![m] = [NoTask EXCEPT !.pc = "source", !.draft = d]]
    /\ UNCHANGED <<drafts, revisions, proposals, generation, objects, access, client>>

RemoveSource(m) ==
    /\ cleaner[m].pc = "source"
    /\ \/ /\ objects' = objects \ {Source(cleaner[m].draft)}
          /\ cleaner' = [cleaner EXCEPT ![m].pc = "sourceless"]
       \/ cleaner' = [cleaner EXCEPT ![m] = NoTask] /\ UNCHANGED objects
    /\ UNCHANGED <<drafts, sources, revisions, proposals, generation, access, client>>

DeleteSource(m) ==
    LET d == cleaner[m].draft
    IN  /\ cleaner[m].pc = "sourceless"
        /\ sources' = IF sources[d].state = "pending" /\ sources[d].holder = m
                      THEN [sources EXCEPT ![d] = [Unpublished EXCEPT !.state = "removed"]]
                      ELSE sources
        /\ cleaner' = [cleaner EXCEPT ![m] = NoTask]
        /\ UNCHANGED <<drafts, revisions, proposals, generation, objects, access, client>>

Crash ==
    /\ "crash" \in Others
    /\ \/ /\ \E c \in Clients : client[c].pc # "idle" /\ Done(c)
          /\ UNCHANGED cleaner
       \/ /\ \E m \in Cleaners : cleaner[m].pc # "idle" /\ cleaner' = [cleaner EXCEPT ![m] = NoTask]
          /\ UNCHANGED client
    /\ UNCHANGED <<drafts, sources, revisions, proposals, generation, objects, access>>

----------------------------------------------------------------------------

\* What a request can be about.
Subjects(d, operation) ==
    CASE operation \in {"capture", "draft", "generate"} -> {0}
      [] operation \in {"proposal", "office"} -> {p \in Proposals : proposals[p].draft = d}
      [] operation = "edit" -> {drafts[d].current} \ {None}
      [] operation = "restore" -> Published(d)

Request(c) ==
    \/ \E d \in Drafts, k \in Keys, operation \in Operations :
          \E about \in Subjects(d, operation) : Ask(c, d, k, operation, about)
    \/ capture_source(c) \/ publish_draft(c) \/ publish_proposal(c)
    \/ publish_office_edit_proposal(c) \/ publish_office_edit(c) \/ restore_revision(c)
    \/ publish_generation(c)
    \/ ReserveRevision(c) \/ PutArtifacts(c) \/ FinalizeRevision(c) \/ UndoArtifacts(c)
    \/ \E d \in Drafts : reserve_generation(c, d) \/ ReserveSource(c, d)
    \/ SubmitJob(c) \/ attach_generation_job(c) \/ attach_generation_revision(c)
    \/ WriteSource(c) \/ ExposeDraft(c) \/ WithdrawSource(c)

Clean(m) ==
    \/ \E r \in Revisions : recover_stale_publications(m, r)
    \/ \E d \in Drafts : HideDraft(m, d) \/ HideSource(m, d) \/ recover_stale_sources(m, d)
    \/ RemoveArtifacts(m) \/ RemoveRevision(m) \/ EmptyDraft(m) \/ DeleteDraft(m)
    \/ RemoveSource(m) \/ DeleteSource(m)

Edit(d) ==
    \/ save_draft(d) \/ add_message(d)
    \/ \E p \in Proposals : \E office \in {o \in BOOLEAN : (IF o THEN "office" ELSE "proposal")
                                                           \in Operations} :
          create_proposal(d, p, office)

DraftsNext ==
    \/ \E c \in Clients : Request(c)
    \/ \E m \in Cleaners : Clean(m)
    \/ \E d \in Drafts : Edit(d)
    \/ \E p \in Proposals : decide_proposal(p)
    \/ ChangeAccess \/ EndJob \/ LeaseEnds \/ Crash

DraftsSpec == DraftsInit /\ [][DraftsNext]_draftVars

----------------------------------------------------------------------------

DraftTypeOK ==
    /\ drafts \in [Drafts -> DraftRow]
    /\ sources \in [Drafts -> Publication]
    /\ revisions \in [Revisions -> RevisionRow]
    /\ proposals \in [Proposals -> ProposalRow]
    /\ generation \in GenerationRow
    /\ client \in [Clients -> Client]
    /\ cleaner \in [Cleaners -> Cleaner]
    /\ \A d \in Drafts : Cardinality(Pending(d)) <= 1

\* Every published revision of a draft can be read: recovery never takes the
\* bytes of a publication that its publisher is about to finish.
RevisionsReadable ==
    \A d \in Drafts : Active(d) => \A r \in Published(d) : Artifact(r) \in objects

\* A draft that can be opened has its source, published and stored.
SourceReadable ==
    \A d \in Drafts : Active(d) => sources[d].state = "published" /\ Source(d) \in objects

\* The current revision of a draft is the last one that was published.
CurrentIsLast ==
    \A d \in Drafts : Active(d) /\ Published(d) # {} =>
        drafts[d].current = CHOOSE r \in Published(d) :
                                \A q \in Published(d) : revisions[q].number <= revisions[r].number

\* A revision is published on what it was made from: the text that was saved,
\* the text that the proposal was made for, the revision that was edited or
\* generated from. Nothing that came in between is lost, and a generation has
\* one result, whatever keys its publication is tried with.
PublishedInPlace ==
    \A r \in Revisions :
        revisions[r].publication.state = "pending" /\ revisions'[r].publication.state = "published" =>
            LET request == revisions[r].request
                draft == drafts[revisions[r].draft]
            IN  CASE request.operation = "draft" ->
                        request.content = draft.content /\ request.base = draft.current
                  [] request.operation = "proposal" ->
                        proposals[request.about].on = draft.content
                  [] request.operation = "office" ->
                        proposals[request.about].reviewed = draft.current
                  [] request.operation \in {"edit", "generate"} -> request.base = draft.current
                  [] OTHER -> TRUE
=============================================================================
