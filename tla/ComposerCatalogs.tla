-------------------------- MODULE ComposerCatalogs --------------------------
(* The library and the typed templates of Composer: documents with          *)
(* immutable versions. A version is reserved as a hidden row, its bytes are *)
(* written and checked, and a second transaction makes it the current one.  *)
(* Recovery completes or discards what a stopped publisher has left. Only   *)
(* the library deletes documents, and looks for bytes that no row names.    *)
EXTENDS Integers, FiniteSets, FiniteSetsExt

CONSTANTS
    Library,        \* TRUE: the library; FALSE: the typed templates
    Writers,        \* requests that publish a version
    Keepers,        \* processes that do maintenance
    None,
    MaxVersion,     \* bound: version rows
    MaxRevision     \* bound: revisions of the document

VARIABLES
    document,       \* ComposerLibraryDocumentRow or TypedTemplateRow, with its grants
    versions,       \* versions[v]: ComposerLibraryVersionRow or TypedTemplateVersionRow
    bytes,          \* the versions whose objects are stored
    cleanup,        \* versions with a ComposerLibraryCleanupRow
    writer,         \* writer[w]
    keeper          \* keeper[m]

catalogVars == <<document, versions, bytes, cleanup, writer, keeper>>

Versions == 1 .. MaxVersion

DocumentRow ==
    [state : {"none", "pending", "published", "deleted"}, revision : 0 .. MaxRevision,
     current : Versions \cup {None}]

VersionRow ==
    [state : {"none", "pending", "published", "removed"}, number : 0 .. MaxVersion,
     expected : 0 .. MaxRevision, lapsed : BOOLEAN]

NoVersion == [state |-> "none", number |-> 0, expected |-> 0, lapsed |-> FALSE]

Resting == [pc |-> "idle", version |-> None]

Writer == [pc : {"idle", "write", "finalize", "discard"}, version : Versions \cup {None}]

Settled == [pc |-> "idle", version |-> None, listed |-> {}]

Keeper ==
    [pc : {"idle", "finalize", "discard", "swept", "list", "remove"},
     version : Versions \cup {None}, listed : SUBSET Versions]

CatalogInit ==
    /\ document = [state |-> "none", revision |-> 0, current |-> None]
    /\ versions = [v \in Versions |-> NoVersion]
    /\ bytes = {}
    /\ cleanup = {}
    /\ writer = [w \in Writers |-> Resting]
    /\ keeper = [m \in Keepers |-> Settled]

----------------------------------------------------------------------------

Rows == {v \in Versions : versions[v].state \in {"pending", "published"}}

\* Identifiers are never used again.
Fresh(v) == versions[v] = NoVersion /\ \A u \in 1 .. v - 1 : versions[u] # NoVersion

NextNumber == 1 + Max({0} \cup {versions[v].number : v \in Rows})

\* _reserve and _version_row
Reserve(w, v, number, revision) ==
    /\ Fresh(v)
    /\ versions' = [versions EXCEPT ![v] =
          [state |-> "pending", number |-> number, expected |-> revision, lapsed |-> FALSE]]
    /\ writer' = [writer EXCEPT ![w] = [pc |-> "write", version |-> v]]

CreateDocument(w) ==
    /\ writer[w].pc = "idle" /\ document.state = "none"
    /\ \E v \in Versions : Reserve(w, v, 1, 1)
    /\ document' = [state |-> "pending", revision |-> 1, current |-> None]
    /\ UNCHANGED <<bytes, cleanup, keeper>>

library_create(w) == Library /\ CreateDocument(w)

typed_create(w) == ~Library /\ CreateDocument(w)

\* The library lets one publication at a time be under way, until its lease ends.
BeingReplaced == \E v \in Rows : versions[v].state = "pending" /\ ~versions[v].lapsed

ReplaceVersion(w) ==
    /\ writer[w].pc = "idle" /\ document.state = "published"
    /\ \E v \in Versions : Reserve(w, v, NextNumber, document.revision)
    /\ UNCHANGED <<document, bytes, cleanup, keeper>>

library_replace(w) == Library /\ ~BeingReplaced /\ ReplaceVersion(w)

typed_replace(w) == ~Library /\ ReplaceVersion(w)

\* _write and _write_and_verify, which may fail before or after the bytes are stored.
WriteBytes(w) ==
    LET v == writer[w].version
    IN  /\ writer[w].pc = "write"
        /\ \/ /\ bytes' = bytes \cup {v}
              /\ writer' = [writer EXCEPT ![w].pc = "finalize"]
           \/ /\ bytes' \in {bytes, bytes \cup {v}}
              /\ writer' = [writer EXCEPT ![w] =
                    IF Library THEN [@ EXCEPT !.pc = "discard"] ELSE Resting]
        /\ UNCHANGED <<document, versions, cleanup, keeper>>

\* _finalize: the reservation is still there, for the revision it was made for.
Publishable(v) ==
    /\ versions[v].state = "pending"
    /\ document.state # "deleted" /\ document.revision = versions[v].expected
    /\ (document.current = None) = (versions[v].number = 1)

Exposed(v) ==
    /\ versions' = [versions EXCEPT ![v].state = "published", ![v].lapsed = FALSE]
    /\ document' = [state |-> "published", current |-> v,
                    revision |-> document.revision + (IF document.current = None THEN 0 ELSE 1)]

\* A publisher of the library that loses discards its version; one of the typed
\* templates leaves it to recovery.
Finalize(w, loser) ==
    LET v == writer[w].version
    IN  /\ writer[w].pc = "finalize" /\ document.revision < MaxRevision
        /\ IF Publishable(v)
           THEN Exposed(v) /\ writer' = [writer EXCEPT ![w] = Resting]
           ELSE /\ writer' = [writer EXCEPT ![w] = loser]
                /\ UNCHANGED <<document, versions>>
        /\ UNCHANGED <<bytes, cleanup, keeper>>

library_finalize(w) == Library /\ Finalize(w, [writer[w] EXCEPT !.pc = "discard"])

typed_finalize(w) == ~Library /\ Finalize(w, Resting)

\* The row goes in one transaction with its bytes, and takes with it a document
\* that was never published.
DropRow(v) ==
    /\ versions[v].state = "pending"
    /\ bytes' = bytes \ {v}
    /\ versions' = [versions EXCEPT ![v] = [NoVersion EXCEPT !.state = "removed"]]
    /\ document' = IF document.state = "pending"
                   THEN [document EXCEPT !.state = "deleted"] ELSE document

\* A row that has gone has left its bytes to whoever wrote them; a row that was
\* published meanwhile keeps them.
library_discard(v) ==
    IF versions[v].state = "pending" THEN DropRow(v)
    ELSE /\ bytes' = IF versions[v].state = "removed" THEN bytes \ {v} ELSE bytes
         /\ UNCHANGED <<versions, document>>

typed_discard(v) ==
    IF versions[v].state = "pending" THEN DropRow(v) ELSE UNCHANGED <<bytes, versions, document>>

DiscardVersion(v) == IF Library THEN library_discard(v) ELSE typed_discard(v)

\* The store may not let the bytes go: then nothing happens.
WriterDiscards(w) ==
    /\ writer[w].pc = "discard"
    /\ DiscardVersion(writer[w].version) \/ UNCHANGED <<bytes, versions, document>>
    /\ writer' = [writer EXCEPT ![w] = Resting]
    /\ UNCHANGED <<cleanup, keeper>>

\* _change_grant: every change of the grants is a new revision.
ChangeGrant ==
    /\ document.state = "published" /\ document.revision < MaxRevision
    /\ document' = [document EXCEPT !.revision = @ + 1]
    /\ UNCHANGED <<versions, bytes, cleanup, writer, keeper>>

LeaseEnds(v) ==
    /\ versions[v].state = "pending" /\ ~versions[v].lapsed
    /\ versions' = [versions EXCEPT ![v].lapsed = TRUE]
    /\ UNCHANGED <<document, bytes, cleanup, writer, keeper>>

----------------------------------------------------------------------------
(* Maintenance: recover_pending, then for the library sweep_deleted and     *)
(* reconcile_objects.                                                       *)

\* An expired reservation: its bytes are looked at, and decide what becomes of it.
RecoverPending(m, v) ==
    /\ keeper[m].pc = "idle"
    /\ versions[v].state = "pending" /\ versions[v].lapsed
    /\ keeper' = [keeper EXCEPT ![m] = [Settled EXCEPT !.version = v,
                     !.pc = IF v \in bytes THEN "finalize" ELSE "discard"]]
    /\ UNCHANGED <<document, versions, bytes, cleanup, writer>>

library_recover_pending(m, v) == Library /\ RecoverPending(m, v)

typed_recover_pending(m, v) == ~Library /\ RecoverPending(m, v)

KeeperFinalizes(m) ==
    LET v == keeper[m].version
    IN  /\ keeper[m].pc = "finalize" /\ document.revision < MaxRevision
        /\ IF Publishable(v)
           THEN Exposed(v) /\ keeper' = [keeper EXCEPT ![m] = Settled]
           ELSE /\ keeper' = [keeper EXCEPT ![m].pc = "discard"]
                /\ UNCHANGED <<document, versions>>
        /\ UNCHANGED <<bytes, cleanup, writer>>

KeeperDiscards(m) ==
    /\ keeper[m].pc = "discard"
    /\ DiscardVersion(keeper[m].version) \/ UNCHANGED <<bytes, versions, document>>
    /\ keeper' = [keeper EXCEPT ![m] = Settled]
    /\ UNCHANGED <<cleanup, writer>>

\* delete: the rows go, and every version leaves a record of its bytes; the
\* record of an upload under way waits for its lease, which may end before it.
delete ==
    /\ Library /\ document.state = "published"
    /\ document' = [document EXCEPT !.state = "deleted"]
    /\ versions' = [v \in Versions |-> IF v \in Rows THEN [NoVersion EXCEPT !.state = "removed"]
                                                     ELSE versions[v]]
    /\ cleanup' = cleanup \cup Rows
    /\ UNCHANGED <<bytes, writer, keeper>>

sweep_deleted(m, v) ==
    /\ \/ /\ keeper[m].pc = "idle" /\ v \in cleanup
          /\ bytes' = bytes \ {v}
          /\ keeper' = [keeper EXCEPT ![m] = [Settled EXCEPT !.pc = "swept", !.version = v]]
          /\ UNCHANGED cleanup
       \/ /\ keeper[m].pc = "swept" /\ keeper[m].version = v
          /\ cleanup' = cleanup \ {v}
          /\ keeper' = [keeper EXCEPT ![m] = Settled]
          /\ UNCHANGED bytes
    /\ UNCHANGED <<document, versions, writer>>

\* Mutant: the rows are read first, and the store is listed after.
ListAfterRows(m) ==
    /\ Library /\ keeper[m].pc = "idle"
    /\ keeper' = [keeper EXCEPT ![m] = [Settled EXCEPT !.pc = "remove",
                                                       !.listed = Versions \ Rows]]
    /\ UNCHANGED <<document, versions, bytes, cleanup, writer>>

\* reconcile_objects: the store is listed first, the rows are read after.
reconcile_objects(m) ==
    /\ Library /\ keeper[m].pc = "idle" /\ bytes # {}
    /\ keeper' = [keeper EXCEPT ![m] = [Settled EXCEPT !.pc = "list", !.listed = bytes]]
    /\ UNCHANGED <<document, versions, bytes, cleanup, writer>>

ReadReferenced(m) ==
    /\ keeper[m].pc = "list"
    /\ keeper' = [keeper EXCEPT ![m].pc = "remove", ![m].listed = @ \ Rows]
    /\ UNCHANGED <<document, versions, bytes, cleanup, writer>>

RemoveUnreferenced(m) ==
    /\ keeper[m].pc = "remove"
    /\ IF keeper[m].listed = {}
       THEN keeper' = [keeper EXCEPT ![m] = Settled] /\ UNCHANGED bytes
       ELSE \E v \in keeper[m].listed :
               /\ bytes' \in {bytes, bytes \ {v}}
               /\ keeper' = [keeper EXCEPT ![m].listed = @ \ {v}]
    /\ UNCHANGED <<document, versions, cleanup, writer>>

\* A process stops; what it was doing is not done.
Stop ==
    /\ \/ /\ \E w \in Writers : writer[w].pc # "idle" /\ writer' = [writer EXCEPT ![w] = Resting]
          /\ UNCHANGED keeper
       \/ /\ \E m \in Keepers : keeper[m].pc # "idle" /\ keeper' = [keeper EXCEPT ![m] = Settled]
          /\ UNCHANGED writer
    /\ UNCHANGED <<document, versions, bytes, cleanup>>

CatalogNext ==
    \/ \E w \in Writers :
          \/ library_create(w) \/ typed_create(w) \/ library_replace(w) \/ typed_replace(w)
          \/ WriteBytes(w) \/ library_finalize(w) \/ typed_finalize(w) \/ WriterDiscards(w)
    \/ ChangeGrant
    \/ \E v \in Versions : LeaseEnds(v)
    \/ \E m \in Keepers :
          \/ \E v \in Versions : library_recover_pending(m, v) \/ typed_recover_pending(m, v)
                                 \/ sweep_deleted(m, v)
          \/ KeeperFinalizes(m) \/ KeeperDiscards(m)
          \/ reconcile_objects(m) \/ ReadReferenced(m) \/ RemoveUnreferenced(m)
    \/ delete \/ Stop

CatalogSpec == CatalogInit /\ [][CatalogNext]_catalogVars

----------------------------------------------------------------------------

CatalogTypeOK ==
    /\ document \in DocumentRow
    /\ versions \in [Versions -> VersionRow]
    /\ bytes \subseteq Versions /\ cleanup \subseteq Versions
    /\ writer \in [Writers -> Writer]
    /\ keeper \in [Keepers -> Keeper]
    /\ \A u, v \in Rows : versions[u].number = versions[v].number => u = v

\* Every version that can be read has its bytes: neither a publisher that
\* lost, nor recovery, nor the search for unreferenced bytes takes them.
VersionsReadable == \A v \in Versions : versions[v].state = "published" => v \in bytes

\* The current version is the published one with the highest number, and no
\* two published versions have the same number.
CurrentIsHighest ==
    \A v \in Versions : versions[v].state = "published" /\ document.current # v =>
        versions[v].number < versions[document.current].number

\* A document that can be found has a version: a publication that failed leaves
\* none behind, and the failed attempt at it takes no published one away.
PublishedHasVersion ==
    document.state = "published" =>
        document.current # None /\ versions[document.current].state = "published"

=============================================================================
