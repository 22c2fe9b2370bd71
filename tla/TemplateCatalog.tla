-------------------------- MODULE TemplateCatalog --------------------------
(* Templates and their immutable versions: publication of an object in     *)
(* three steps (a pending row, the bytes, the published row), compensation  *)
(* and recovery of what was left behind, guarded deletion, preferences, the *)
(* version a conversion job freezes, and the retention of old versions.     *)
(* Every transaction is one step; what a handler does in between is not.    *)
EXTENDS Integers, FiniteSets, FiniteSetsExt

CONSTANTS
    Templates,          \* template identifiers
    Versions,           \* version identifiers; an operation draws a new one
    Processes,          \* request threads and maintenance loops
    Submissions,        \* conversion jobs
    NULL,               \* an SQL NULL
    MinimumVersions,    \* minimum_template_versions
    PostgreSQL,         \* TRUE: reads do not lock, FALSE: writers are serialised
    CatalogEvents,      \* "lapse", "crash", "storage", "database", "ambiguous"
    MaxETag,            \* bound: the revision up to which requests are made
    Offered             \* the operations that clients ask for

ASSUME CatalogAssumption ==
    /\ NULL \notin Templates \cup Versions \cup Processes
    /\ CatalogEvents \subseteq {"lapse", "crash", "storage", "database", "ambiguous"}
    /\ Offered \subseteq {"replace", "restore", "archive", "update", "delete", "prefer",
                         "fallback"}
    /\ MinimumVersions \in Nat /\ MaxETag \in Nat

VARIABLES
    templates,      \* templates[t]: TemplateRow
    versions,       \* versions[v]: TemplateVersionRow
    stored,         \* versions whose object is in the object store
    drawn,          \* identifiers that some operation has drawn
    preferred,      \* the preference of the one user, NULL without a row
    fallback,       \* the system fallback, NULL without a row
    frozen,         \* frozen[j]: the version job j uses, and whether it expired
    process,        \* process[p]: the operation p is at
    catalogFaults   \* history: the kinds of crashes and failures there were

catalogVars == <<templates, versions, stored, drawn, preferred, fallback, frozen,
                 process, catalogFaults>>

NoTemplate == [state |-> "absent", status |-> "active", revision |-> 0, current |-> NULL]

TemplateRow ==
    [state    : {"absent", "pending", "published", "deleting"},
     status   : {"active", "archived"},
     revision : Nat,
     current  : Versions \cup {NULL}]

NoVersion == [state |-> "absent", template |-> NULL, number |-> 0, token |-> NULL,
              retention |-> NULL]

\* A token is fresh for every claim; the process that holds it stands for it.
TemplateVersionRow ==
    [state     : {"absent", "pending", "published"},
     template  : Templates \cup {NULL},
     number    : Nat,
     token     : Processes \cup {NULL},
     retention : Processes \cup {NULL}]      \* retention_token

Idle == [pc |-> "idle", op |-> "none", template |-> NULL, version |-> NULL,
         revision |-> 0, todo |-> {}]

Operations == {"none", "create", "replace", "restore", "archive", "update", "delete",
               "prefer", "fallback", "reclaim", "retain"}

Process ==
    [pc       : {"idle", "read", "put", "finalize", "undo", "abort", "begin", "erase",
                 "drop", "upsert", "claimed", "aborting", "releasing", "deletions",
                 "erasing", "dropping", "retained", "completing"},
     op       : Operations,
     template : Templates \cup {NULL},
     version  : Versions \cup {NULL},
     revision : Nat,                         \* the revision of the client's ETag
     todo     : SUBSET Versions]

NotFrozen == [template |-> NULL, version |-> NULL, expired |-> FALSE]

CatalogInit ==
    /\ templates = [t \in Templates |-> NoTemplate]
    /\ versions = [v \in Versions |-> NoVersion]
    /\ stored = {}
    /\ drawn = {}
    /\ preferred = NULL
    /\ fallback = NULL
    /\ frozen = [j \in Submissions |-> NotFrozen]
    /\ process = [p \in Processes |-> Idle]
    /\ catalogFaults = {}

----------------------------------------------------------------------------
(* Helpers.                                                                *)

VersionsOf(t) == {v \in Versions : versions[v].state # "absent" /\ versions[v].template = t}

PublishedOf(t) == {v \in VersionsOf(t) : versions[v].state = "published"}

\* get: hidden unless published.
Visible(t) == templates[t].state = "published"

\* _require_active
Active(t) == Visible(t) /\ templates[t].status = "active"

At(p, pc) == process[p].pc = pc

Goto(p, pc) == process' = [process EXCEPT ![p].pc = pc]

Return(p) == process' = [process EXCEPT ![p] = Idle]

Fault(kind) ==
    /\ kind \in CatalogEvents
    /\ catalogFaults' = catalogFaults \cup {kind}

NoFault == UNCHANGED catalogFaults

OnlyTemplates == UNCHANGED <<versions, stored, drawn, preferred, fallback, frozen>>
OnlyVersions == UNCHANGED <<templates, stored, drawn, preferred, fallback, frozen>>
OnlyObjects == UNCHANGED <<templates, versions, drawn, preferred, fallback, frozen>>
Rows == <<templates, versions, stored, drawn, preferred, fallback, frozen>>

\* The foreign keys that restrict the deletion of a template row; a job keeps
\* its template's identifier without one.
Restricted(t) == preferred = t \/ fallback = t

Referenced(t) == Restricted(t) \/ \E j \in Submissions : frozen[j].template = t

\* Deleting a template row takes its version rows with it.
Deleted(t) ==
    /\ templates' = [templates EXCEPT ![t] = NoTemplate]
    /\ versions' = [v \in Versions |-> IF versions[v].template = t THEN NoVersion ELSE versions[v]]

----------------------------------------------------------------------------
(* Publication: create, replace and restore.                               *)

NewVersion(p, t, n) ==
    [NoVersion EXCEPT !.state = "pending", !.template = t, !.number = n, !.token = p]

\* create_versioned: the template and its first version, both hidden.
reserve_create(p, t, v) ==
    /\ At(p, "idle")
    /\ {t, v} \cap drawn = {}
    /\ templates' = [templates EXCEPT ![t] = [NoTemplate EXCEPT !.state = "pending",
                                                               !.revision = 1]]
    /\ versions' = [versions EXCEPT ![v] = NewVersion(p, t, 1)]
    /\ drawn' = drawn \cup {t, v}
    /\ process' = [process EXCEPT ![p] = [Idle EXCEPT !.pc = "put", !.op = "create",
                                          !.template = t, !.version = v, !.revision = 1]]
    /\ NoFault
    /\ UNCHANGED <<stored, preferred, fallback, frozen>>

\* The client read the ETag of the published template, the handler checks
\* visibility, ownership and status; a restoration also reads its source.
Read(p, op, t) ==
    /\ At(p, "idle")
    /\ Visible(t)
    /\ templates[t].revision < MaxETag
    /\ op \in {"replace", "restore"} => templates[t].status = "active"
    /\ op = "restore" => \E s \in PublishedOf(t) : s \in stored
    /\ process' = [process EXCEPT ![p] = [Idle EXCEPT !.pc = "read", !.op = op,
                                          !.template = t, !.revision = templates[t].revision]]
    /\ NoFault
    /\ UNCHANGED Rows

NextNumber(t) == Max({versions[v].number : v \in VersionsOf(t)} \cup {0}) + 1

ReserveRefused(p) ==
    /\ At(p, "read")
    /\ process[p].op \in {"replace", "restore"}
    /\ LET t == process[p].template
       IN  ~(Active(t) /\ templates[t].revision = process[p].revision)
    /\ Return(p)
    /\ NoFault
    /\ UNCHANGED Rows

reserve_version(p, v) ==
    LET t == process[p].template
    IN  /\ At(p, "read")
        /\ process[p].op \in {"replace", "restore"}
        /\ Active(t)
        /\ templates[t].revision = process[p].revision
        /\ v \notin drawn
        /\ versions' = [versions EXCEPT ![v] = NewVersion(p, t, NextNumber(t))]
        /\ drawn' = drawn \cup {v}
        /\ process' = [process EXCEPT ![p].pc = "put", ![p].version = v]
        /\ NoFault
        /\ UNCHANGED <<templates, stored, preferred, fallback, frozen>>

Put(p) ==
    /\ At(p, "put")
    /\ stored' = stored \cup {process[p].version}
    /\ Goto(p, "finalize")
    /\ NoFault
    /\ OnlyObjects

PutFails(p) ==
    /\ At(p, "put")
    /\ Fault("storage")
    /\ Goto(p, "undo")
    /\ UNCHANGED Rows

\* Mutant: the publication token is not compared.
PublishableByAnyone(p) ==
    LET v == process[p].version
        t == process[p].template
    IN  /\ versions[v].state = "pending"
        /\ templates[t].revision = process[p].revision
        /\ templates[t].status = "active"
        /\ templates[t].state \in {"pending", "published"}

\* The version is published and becomes current in one transaction, if its
\* token is still the publisher's and nobody changed the template meanwhile.
Publishable(p) ==
    LET v == process[p].version
        t == process[p].template
    IN  /\ versions[v].state = "pending"
        /\ versions[v].token = p
        /\ templates[t].revision = process[p].revision
        /\ templates[t].status = "active"
        /\ templates[t].state \in {"pending", "published"}

\* Mutant: the revision stays, and with it the ETag that clients hold.
PublishedQuietly(p) ==
    LET v == process[p].version
        t == process[p].template
    IN  /\ versions' = [versions EXCEPT ![v].state = "published", ![v].token = NULL]
        /\ templates' = [templates EXCEPT ![t].current = v, ![t].state = "published"]
        /\ UNCHANGED <<stored, drawn, preferred, fallback, frozen>>

Published(p) ==
    LET v == process[p].version
        t == process[p].template
    IN  /\ versions' = [versions EXCEPT ![v].state = "published", ![v].token = NULL]
        /\ templates' = [templates EXCEPT
              ![t].current = v, ![t].state = "published",
              ![t].revision = @ + (IF templates[t].state = "pending" THEN 0 ELSE 1)]
        /\ UNCHANGED <<stored, drawn, preferred, fallback, frozen>>

finalize_version(p) ==
    /\ At(p, "finalize")
    /\ Publishable(p)
    /\ Published(p)
    /\ Return(p)
    /\ NoFault

FinalizeRefused(p) ==
    /\ At(p, "finalize")
    /\ ~Publishable(p)
    /\ Goto(p, "undo")
    /\ NoFault
    /\ UNCHANGED Rows

FinalizeFails(p) ==
    /\ At(p, "finalize")
    /\ \/ Fault("database") /\ UNCHANGED Rows
       \/ Fault("ambiguous") /\ Publishable(p) /\ Published(p)
    /\ Goto(p, "undo")

\* _compensate_pending: the object first, then the row if it is still ours.
CompensateObject(p) ==
    /\ At(p, "undo")
    /\ stored' = stored \ {process[p].version}
    /\ Goto(p, "abort")
    /\ NoFault
    /\ OnlyObjects

CompensateFails(p) ==
    /\ At(p, "undo")
    /\ Fault("storage")
    /\ Return(p)
    /\ UNCHANGED Rows

\* The row of version v goes, with its template if that was never published.
Aborted(p, v) ==
    LET t == versions[v].template
    IN  IF versions[v].state = "pending" /\ versions[v].token = p
        THEN IF templates[t].state = "pending"
             THEN Deleted(t)
             ELSE versions' = [versions EXCEPT ![v] = NoVersion] /\ UNCHANGED templates
        ELSE UNCHANGED <<templates, versions>>

abort_pending(p) ==
    /\ At(p, "abort")
    /\ Aborted(p, process[p].version)
    /\ Return(p)
    /\ NoFault
    /\ UNCHANGED <<stored, drawn, preferred, fallback, frozen>>

----------------------------------------------------------------------------
(* update_metadata and archive: compare and swap on the revision.          *)

_cas_update(p) ==
    LET t == process[p].template
    IN  /\ At(p, "read")
        /\ process[p].op \in {"archive", "update"}
        /\ IF templates[t].state # "absent" /\ templates[t].revision = process[p].revision
           THEN templates' = [templates EXCEPT
                    ![t].revision = @ + 1,
                    ![t].status = IF process[p].op = "archive" THEN "archived" ELSE @]
           ELSE UNCHANGED templates
        /\ Return(p)
        /\ NoFault
        /\ OnlyTemplates

----------------------------------------------------------------------------
(* delete: a durable tombstone, the objects, the rows.                     *)

DeleteRetry(t, expected) ==
    templates[t].state = "deleting" /\ templates[t].revision = expected + 1

\* Mutant: what refers to the template is not looked for.
DeletableReferenced(t, expected) ==
    /\ templates[t].state = "published"
    /\ templates[t].status = "archived"
    /\ templates[t].revision = expected

Deletable(t, expected) ==
    /\ templates[t].state = "published"
    /\ templates[t].status = "archived"
    /\ templates[t].revision = expected
    /\ ~Referenced(t)

begin_delete(p) ==
    LET t == process[p].template
        e == process[p].revision
    IN  /\ At(p, "read")
        /\ process[p].op = "delete"
        /\ IF DeleteRetry(t, e) \/ Deletable(t, e)
           THEN process' = [process EXCEPT ![p].pc = "erase", ![p].todo = VersionsOf(t)]
           ELSE Return(p)
        /\ IF ~DeleteRetry(t, e) /\ Deletable(t, e)
           THEN templates' = [templates EXCEPT ![t].state = "deleting", ![t].revision = @ + 1]
           ELSE UNCHANGED templates
        /\ NoFault
        /\ OnlyTemplates

\* One object after the other.
EraseObject(p, from, to) ==
    /\ At(p, from)
    /\ IF process[p].todo = {}
       THEN Goto(p, to) /\ UNCHANGED stored
       ELSE \E v \in process[p].todo :
                /\ stored' = stored \ {v}
                /\ process' = [process EXCEPT ![p].todo = @ \ {v}]
    /\ NoFault
    /\ OnlyObjects

DeleteObjects(p) == EraseObject(p, "erase", "drop")

DeleteObjectsFails(p) ==
    /\ At(p, "erase")
    /\ Fault("storage")
    /\ Return(p)
    /\ UNCHANGED Rows

\* The row is deleted unless something refers to it: then the foreign key
\* refuses, and the caller gets an error.
DropTemplate(t) ==
    IF templates[t].state = "deleting" /\ ~Restricted(t)
    THEN Deleted(t)
    ELSE UNCHANGED <<templates, versions>>

finalize_delete(p) ==
    /\ At(p, "drop")
    /\ DropTemplate(process[p].template)
    /\ Return(p)
    /\ NoFault
    /\ UNCHANGED <<stored, drawn, preferred, fallback, frozen>>

----------------------------------------------------------------------------
(* Preferences and the system fallback.                                    *)

Upserted(p) ==
    LET t == process[p].template
    IN  \* the foreign key: the row exists when the reference is written
        /\ IF templates[t].state = "absent"
           THEN UNCHANGED <<preferred, fallback>>
           ELSE IF process[p].op = "prefer"
                THEN preferred' = t /\ UNCHANGED fallback
                ELSE fallback' = t /\ UNCHANGED preferred
        /\ Return(p)
        /\ NoFault
        /\ UNCHANGED <<templates, versions, stored, drawn, frozen>>

\* set_preferred_audited and set_system_fallback_audited: the check reads, and
\* only a serialised writer still has what it read when it writes.
RequireActive(p) ==
    /\ At(p, "read")
    /\ process[p].op \in {"prefer", "fallback"}
    /\ IF Active(process[p].template)
       THEN IF PostgreSQL
            THEN Goto(p, "upsert") /\ NoFault /\ UNCHANGED Rows
            ELSE Upserted(p)
       ELSE Return(p) /\ NoFault /\ UNCHANGED Rows

UpsertSelection(p) == At(p, "upsert") /\ Upserted(p)

clear_preferred ==
    /\ preferred # NULL
    /\ preferred' = NULL
    /\ UNCHANGED <<templates, versions, stored, drawn, fallback, frozen, process,
                   catalogFaults>>

----------------------------------------------------------------------------
(* A conversion job freezes a version, uses it, and expires.               *)

Freezable(v) ==
    /\ versions[v].state = "published"
    /\ versions[v].retention = NULL
    /\ Active(versions[v].template)
    /\ templates[versions[v].template].current = v

\* create_or_get: whichever version the request resolved to before.
FreezeVersion(j, v) ==
    /\ frozen[j].version = NULL
    /\ Freezable(v)
    /\ frozen' = [frozen EXCEPT ![j].version = v, ![j].template = versions[v].template]
    /\ UNCHANGED <<templates, versions, stored, drawn, preferred, fallback, process,
                   catalogFaults>>

JobExpires(j) ==
    /\ frozen[j].version # NULL /\ ~frozen[j].expired
    /\ frozen' = [frozen EXCEPT ![j].expired = TRUE]
    /\ UNCHANGED <<templates, versions, stored, drawn, preferred, fallback, process,
                   catalogFaults>>

----------------------------------------------------------------------------
(* reclaim_pending: at the start of an API process.                        *)

\* Whoever holds the publication token of version v still works on it.
AtWork(v) ==
    \E p \in Processes :
        versions[v].token = p /\ (process[p].version = v \/ v \in process[p].todo)

\* publication_lease_expires_at has passed. Without "lapse" nobody is slower
\* than the lease, which then ends only when its holder is gone.
LeaseMayEnd(v) == "lapse" \in CatalogEvents \/ ~AtWork(v)

claim_stale_pending(p, stale) ==
    /\ At(p, "idle")
    /\ \A v \in stale : versions[v].state = "pending" /\ LeaseMayEnd(v)
    /\ stale # {} \/ \E t \in Templates : templates[t].state = "deleting"
    /\ versions' = [v \in Versions |-> IF v \in stale
                       THEN [versions[v] EXCEPT !.token = p]
                       ELSE versions[v]]
    /\ process' = [process EXCEPT ![p] = [Idle EXCEPT !.op = "reclaim",
          !.pc = IF stale = {} THEN "deletions" ELSE "claimed", !.todo = stale]]
    /\ NoFault
    /\ OnlyVersions

ReclaimObject(p, v) ==
    /\ At(p, "claimed")
    /\ v \in process[p].todo
    /\ stored' = stored \ {v}
    /\ process' = [process EXCEPT ![p].pc = "aborting", ![p].version = v]
    /\ NoFault
    /\ OnlyObjects

ReclaimObjectFails(p, v) ==
    /\ At(p, "claimed")
    /\ v \in process[p].todo
    /\ Fault("storage")
    /\ process' = [process EXCEPT ![p].pc = "releasing", ![p].version = v]
    /\ UNCHANGED Rows

NextClaim(p) ==
    LET rest == process[p].todo \ {process[p].version}
    IN  process' = [process EXCEPT ![p].todo = rest, ![p].version = NULL,
                                   ![p].pc = IF rest = {} THEN "deletions" ELSE "claimed"]

ReclaimAbort(p) ==
    /\ At(p, "aborting")
    /\ Aborted(p, process[p].version)
    /\ NextClaim(p)
    /\ NoFault
    /\ UNCHANGED <<stored, drawn, preferred, fallback, frozen>>

\* The claim ends at once, with the work on it, so that the next start retries.
release_pending_claim(p) ==
    /\ At(p, "releasing")
    /\ NextClaim(p)
    /\ NoFault
    /\ UNCHANGED Rows

\* pending_deletions: what an interrupted deletion left, one template at a time.
pending_deletions(p) ==
    /\ At(p, "deletions")
    /\ LET deleting == {t \in Templates : templates[t].state = "deleting"}
       IN  IF deleting = {}
           THEN Return(p)
           ELSE \E t \in deleting :
                   process' = [process EXCEPT ![p].pc = "erasing", ![p].template = t,
                                              ![p].todo = VersionsOf(t)]
    /\ NoFault
    /\ UNCHANGED Rows

DeletionObjects(p) == EraseObject(p, "erasing", "dropping")

DeletionFails(p) ==
    /\ At(p, "erasing")
    /\ Fault("storage")
    /\ Return(p)
    /\ UNCHANGED Rows

DeletionDropped(p) ==
    /\ At(p, "dropping")
    /\ DropTemplate(process[p].template)
    /\ Return(p)
    /\ NoFault
    /\ UNCHANGED <<stored, drawn, preferred, fallback, frozen>>

----------------------------------------------------------------------------
(* RetentionService.cleanup, for template versions.                        *)

\* Newer published versions of the same template.
Rank(v) ==
    Cardinality({w \in PublishedOf(versions[v].template) : versions[w].number > versions[v].number})

\* Whether a version is older than the cutoff, and whether the lease of an
\* earlier claim has ended, is a matter of time: either may be at any moment.

Retainable(v) ==
    /\ versions[v].state = "published"
    /\ Rank(v) >= MinimumVersions
    /\ \A t \in Templates : templates[t].current # v
    /\ \A j \in Submissions : frozen[j].version = v => frozen[j].expired

claim_template_versions(p, v) ==
    /\ At(p, "idle")
    /\ Retainable(v)
    /\ versions' = [versions EXCEPT ![v].retention = p]
    /\ process' = [process EXCEPT ![p] = [Idle EXCEPT !.pc = "retained", !.op = "retain",
                                          !.version = v]]
    /\ NoFault
    /\ OnlyVersions

RetainedObject(p) ==
    /\ At(p, "retained")
    /\ stored' = stored \ {process[p].version}
    /\ Goto(p, "completing")
    /\ NoFault
    /\ OnlyObjects

RetainedObjectFails(p) ==
    /\ At(p, "retained")
    /\ Fault("storage")
    /\ Return(p)
    /\ UNCHANGED Rows

complete_template_version(p) ==
    LET v == process[p].version
    IN  /\ At(p, "completing")
        /\ versions' = IF /\ versions[v].retention = p
                          /\ versions[v].state = "published"
                          /\ \A t \in Templates : templates[t].current # v
                       THEN [versions EXCEPT ![v] = NoVersion]
                       ELSE versions
        /\ Return(p)
        /\ NoFault
        /\ OnlyVersions

----------------------------------------------------------------------------
Crash(p) ==
    /\ process[p].pc # "idle"
    /\ Fault("crash")
    /\ Return(p)
    /\ UNCHANGED Rows

Publish(p) ==
    \/ \E t \in Templates, v \in Versions : reserve_create(p, t, v)
    \/ \E v \in Versions : reserve_version(p, v)
    \/ ReserveRefused(p) \/ Put(p) \/ PutFails(p)
    \/ finalize_version(p) \/ FinalizeRefused(p) \/ FinalizeFails(p)
    \/ CompensateObject(p) \/ CompensateFails(p) \/ abort_pending(p)

Change(p) ==
    \/ \E t \in Templates, op \in Offered : Read(p, op, t)
    \/ _cas_update(p) \/ RequireActive(p) \/ UpsertSelection(p)
    \/ begin_delete(p) \/ DeleteObjects(p) \/ DeleteObjectsFails(p) \/ finalize_delete(p)

Reclaim(p) ==
    \/ \E stale \in SUBSET Versions : claim_stale_pending(p, stale)
    \/ \E v \in Versions : ReclaimObject(p, v) \/ ReclaimObjectFails(p, v)
    \/ ReclaimAbort(p) \/ release_pending_claim(p)
    \/ pending_deletions(p) \/ DeletionObjects(p) \/ DeletionFails(p) \/ DeletionDropped(p)

Retain(p) ==
    \/ \E v \in Versions : claim_template_versions(p, v)
    \/ RetainedObject(p) \/ RetainedObjectFails(p) \/ complete_template_version(p)

CatalogNext ==
    \/ \E p \in Processes : Publish(p) \/ Change(p) \/ Reclaim(p) \/ Retain(p) \/ Crash(p)
    \/ \E j \in Submissions, v \in Versions : FreezeVersion(j, v)
    \/ \E j \in Submissions : JobExpires(j)
    \/ clear_preferred

CatalogSpec == CatalogInit /\ [][CatalogNext]_catalogVars

----------------------------------------------------------------------------

\* Types, and the constraints of the tables that a write could meet: a pending
\* version has a token, a version has a number.
CatalogTypeOK ==
    /\ templates \in [Templates -> TemplateRow]
    /\ versions \in [Versions -> TemplateVersionRow]
    /\ \A v \in Versions :
          /\ versions[v].state = "pending" => versions[v].token # NULL
          /\ versions[v].state # "absent" => versions[v].number > 0
    /\ stored \subseteq Versions
    /\ drawn \subseteq Versions \cup Templates
    /\ preferred \in Templates \cup {NULL}
    /\ fallback \in Templates \cup {NULL}
    /\ frozen \in [Submissions -> [template : Templates \cup {NULL}, version : Versions \cup {NULL},
                                expired : BOOLEAN]]
    /\ process \in [Processes -> Process]
    /\ catalogFaults \subseteq CatalogEvents

\* The current version of a template is a published row of its own, and its
\* bytes are in the store, whoever publishes, reclaims or retains meanwhile. (A
\* publication whose commit is reported as failed is compensated, and if it was
\* made after all, the object of the current version is gone.)
CurrentAvailable ==
    \A t \in Templates : templates[t].state = "published" =>
        /\ templates[t].current \in PublishedOf(t)
        /\ "ambiguous" \notin catalogFaults => templates[t].current \in stored

\* Versions are numbered once, and the current one is the newest that was
\* published: a publication that lost its race never overtakes the winner.
CurrentIsNewest ==
    \A t \in Templates :
        /\ \A v, w \in VersionsOf(t) : versions[v].number = versions[w].number => v = w
        /\ templates[t].state = "published" =>
              \A v \in PublishedOf(t) : versions[v].number <= versions[templates[t].current].number

\* A job that has not expired finds the version it froze, row and bytes.
FrozenAvailable ==
    \A j \in Submissions : frozen[j].version # NULL /\ ~frozen[j].expired =>
        /\ versions[frozen[j].version].state = "published"
        /\ "ambiguous" \notin catalogFaults => frozen[j].version \in stored

\* No object outlives its row while no process dies and the object store
\* answers: whoever may still store or has to delete it is at work, or its row
\* is there for the next start to find.
ObjectsTracked ==
    {"crash", "storage"} \cap catalogFaults = {} =>
        \A v \in stored : versions[v].state = "absent" =>
            \E p \in Processes : process[p].version = v \/ v \in process[p].todo

\* Concurrent publications leave a current version that is the newest and can be
\* read, and no object that no row names; what a job has frozen is not retained away.
TemplatesKept == CurrentAvailable /\ CurrentIsNewest /\ FrozenAvailable /\ ObjectsTracked

\* "It is rejected while a preference, system fallback, or conversion job
\* references the identity": nothing refers to a template that is going. (On
\* PostgreSQL a preference may be written after the tombstone that it should
\* have met: there it is only true of the jobs.)
DeletingUnreferenced ==
    \A t \in Templates : templates[t].state = "deleting" =>
        /\ \A j \in Submissions : frozen[j].template # t
        /\ ~PostgreSQL => ~Restricted(t)

\* The revision is the template's ETag: two answers with the same ETag are of
\* the same current version and status, so that a client that compares it never
\* writes over what it has not seen.
SameRevisionSameTemplate ==
    \A t \in Templates :
        Visible(t) /\ Visible(t)' /\ templates'[t].revision = templates[t].revision
            => templates'[t] = templates[t]

RevisionIdentifies == [][SameRevisionSameTemplate]_catalogVars

=============================================================================
