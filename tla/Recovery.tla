------------------------------ MODULE Recovery ------------------------------
(***************************************************************************)
(* Backup and restore (recovery_service.py, recovery_adapters.py,          *)
(* recovery_manifest.py): a set is made of a database and its objects      *)
(* beside the running service, and restored into a target that has to be   *)
(* empty.  A standalone target is a directory that appears at once, a      *)
(* distributed one a bucket that is filled object by object and a database *)
(* that is written in one transaction.                                     *)
(*                                                                         *)
(* The service stores an object before its row refers to it, and deletes   *)
(* an object before its row is told so (RetentionService.cleanup).         *)
(***************************************************************************)
EXTENDS Naturals, Sequences, FiniteSets

CONSTANTS
    Distributed,    \* the storage profile
    Objects,        \* 1 .. n, in the order of their keys
    Restorers,      \* restore commands that run beside each other
    MaxSets,        \* bound: directories at the destination of the backups
    MaxMishaps      \* bound: crashes, failing calls, damaged files

VARIABLES
    source,     \* source[o]: what the service has done with an object and its row
    backup,     \* the backup command
    sets,       \* what its runs have left at the destination, in order
    restore,    \* restore[r]: a restore command
    target,     \* the database and the objects at the target
    mishaps

recoveryVars == <<source, backup, sets, restore, target, mishaps>>

NoBackup == [pc |-> "idle", refs |-> {}, inventory |-> {}, copied |-> {}, listed |-> {},
             calm |-> TRUE]

NoRestore == [pc |-> "idle", set |-> 0, placed |-> {}, content |-> {}, seen |-> {},
              exit |-> "none"]

Empty == [database |-> "empty", refs |-> {}, set |-> 0,
          objects |-> [o \in Objects |-> "none"]]

\* A target that somebody uses has a database, or at least an object.
Targets ==
    {Empty, [Empty EXCEPT !.database = "foreign"]}
    \cup {[Empty EXCEPT !.objects[o] = "foreign"] : o \in Objects}

ASSUME RecoveryAssumption ==
    Distributed \in BOOLEAN /\ Objects \subseteq Nat /\ MaxSets \in Nat /\ MaxMishaps \in Nat

RecoveryInit ==
    /\ source \in [Objects -> {"new", "kept", "deleted"}]
    /\ backup = NoBackup
    /\ sets = <<>>
    /\ restore = [r \in Restorers |-> NoRestore]
    /\ target \in Targets
    /\ mishaps = 0

Mishap == mishaps < MaxMishaps /\ mishaps' = mishaps + 1

----------------------------------------------------------------------------
(* The service.  A distributed one is quiet while it is backed up.          *)

\* The objects that _referenced_keys_from_rows finds in the rows.
Referenced == {o \in Objects : source[o] \in {"kept", "deleted"}}

Stored == {o \in Objects : source[o] \in {"stored", "kept"}}

ServiceStep(o) ==
    /\ Distributed => backup.pc = "idle"
    /\ Len(sets) < MaxSets              \* afterwards nothing looks at the source
    /\ \E next \in {<<"new", "stored">>, <<"stored", "kept">>, <<"kept", "deleted">>,
                    <<"deleted", "gone">>} :
          /\ source[o] = next[1]
          /\ source' = [source EXCEPT ![o] = next[2]]
          /\ backup' = [backup EXCEPT !.calm = @ /\ next[2] # "deleted"]
    /\ UNCHANGED <<sets, restore, target, mishaps>>

----------------------------------------------------------------------------
(* RecoveryService.backup.                                                  *)

BackupAt(pc) == backup.pc = pc

BackupStep == UNCHANGED <<source, restore, target>>

\* A snapshot of the database comes first.  History: whether any row is ahead of the
\* deletion of its object.
_sqlite_snapshot ==
    /\ BackupAt("idle") /\ Len(sets) < MaxSets
    /\ backup' = [NoBackup EXCEPT !.pc = "inventory", !.refs = Referenced,
                                  !.calm = Referenced \subseteq Stored]
    /\ BackupStep /\ UNCHANGED <<sets, mishaps>>

_inventory ==
    /\ BackupAt("inventory")
    /\ backup' = [backup EXCEPT !.pc = "copy", !.inventory = Stored]
    /\ BackupStep /\ UNCHANGED <<sets, mishaps>>

\* An object that is gone by now ends the backup.
CopyObject ==
    /\ BackupAt("copy")
    /\ IF backup.copied = backup.inventory
       THEN backup' = [backup EXCEPT !.pc = "compare"]
       ELSE \E o \in backup.inventory \ backup.copied :
              /\ \A x \in backup.inventory \ backup.copied : o <= x
              /\ backup' = IF o \in Stored
                           THEN [backup EXCEPT !.copied = @ \cup {o}]
                           ELSE NoBackup
    /\ BackupStep /\ UNCHANGED <<sets, mishaps>>

\* The tree is listed once more: it may not have changed while it was copied.
CompareInventory ==
    /\ BackupAt("compare")
    /\ backup' = IF Stored = backup.inventory
                 THEN [backup EXCEPT !.pc = "manifest"] ELSE NoBackup
    /\ BackupStep /\ UNCHANGED <<sets, mishaps>>

\* Mutant: the database is read at the end, like the second inventory.
SnapshotLate(b) == Referenced

\* The database of the set.
Snapshot(b) == b.refs

write_manifest ==
    /\ BackupAt("manifest")
    /\ backup' = [backup EXCEPT !.pc = "publish", !.listed = backup.copied,
                                !.refs = Snapshot(backup)]
    /\ BackupStep /\ UNCHANGED <<sets, mishaps>>

\* A directory at the destination, published under its identity or left as .pending-.
SetOf(b, named) ==
    [named |-> named, refs |-> b.refs, files |-> b.copied, manifest |-> b.pc = "publish",
     listed |-> b.listed, damaged |-> {}, calm |-> b.calm]

PublishSet ==
    /\ BackupAt("publish")
    /\ sets' = Append(sets, SetOf(backup, TRUE))
    /\ backup' = NoBackup
    /\ BackupStep /\ UNCHANGED mishaps

\* A failing call or the deadline: the staging directory is removed.
BackupFails ==
    /\ ~BackupAt("idle")
    /\ Mishap
    /\ backup' = NoBackup
    /\ BackupStep /\ UNCHANGED sets

BackupCrashes ==
    /\ ~BackupAt("idle")
    /\ Mishap
    /\ sets' = Append(sets, SetOf(backup, FALSE))
    /\ backup' = NoBackup
    /\ BackupStep

\* A file of a set decays or is changed.
DamageFile(i, o) ==
    /\ Mishap
    /\ o \in sets[i].files \ sets[i].damaged
    /\ sets' = [sets EXCEPT ![i].damaged = @ \cup {o}]
    /\ UNCHANGED <<source, backup, restore, target>>

----------------------------------------------------------------------------
(* RecoveryService.restore.                                                 *)

RestoreAt(r, pc) == restore[r].pc = pc

RestoreTo(r, pc) == restore' = [restore EXCEPT ![r].pc = pc]

Exits(r, exit) == restore' = [restore EXCEPT ![r].pc = "done", ![r].exit = exit]

RestoreStep == UNCHANGED <<source, backup, sets>>

SetFor(r) == sets[restore[r].set]

\* load_and_verify_manifest: exactly the files of the manifest, each with its digest.
SetIsWhole(s) == s.manifest /\ s.files = s.listed /\ s.damaged = {}

\* An absent directory, or a bucket without an object.
TargetIsEmpty ==
    IF Distributed
    THEN \A o \in Objects : target.objects[o] = "none"
    ELSE target = Empty

\* History: the damage that there was to see.
VerifySet(r, i) ==
    /\ RestoreAt(r, "idle")
    /\ restore' = [restore EXCEPT ![r] =
          [NoRestore EXCEPT !.set = i, !.seen = sets[i].damaged,
                            !.pc = IF SetIsWhole(sets[i]) THEN "empty" ELSE "done",
                            !.exit = IF SetIsWhole(sets[i]) THEN "none" ELSE "failed"]]
    /\ RestoreStep /\ UNCHANGED <<target, mishaps>>

\* The revision of a set may also be one that this release does not restore.
VerifyTarget(r) ==
    /\ RestoreAt(r, "empty")
    /\ IF TargetIsEmpty
       THEN RestoreTo(r, IF Distributed THEN "put" ELSE "stage") \/ Exits(r, "failed")
       ELSE Exits(r, "failed")
    /\ RestoreStep /\ UNCHANGED <<target, mishaps>>

----------------------------------------------------------------------------
(* StandaloneRecoveryAdapter.restore: a staging directory of its own.       *)

\* The files are copied as they are by now.
CopyMembers(r) ==
    /\ RestoreAt(r, "stage")
    /\ restore' = [restore EXCEPT ![r].pc = "references", ![r].placed = SetFor(r).files,
                                  ![r].content = SetFor(r).damaged]
    /\ RestoreStep /\ UNCHANGED <<target, mishaps>>

\* _verify_database_references.
Resolved(refs, keys) == refs \subseteq keys

\* Before the migration, and once more after it.
_verify_stable_references_sqlite(r) ==
    /\ RestoreAt(r, "references")
    /\ IF Resolved(SetFor(r).refs, restore[r].placed)
       THEN RestoreTo(r, "replace") ELSE Exits(r, "failed")
    /\ RestoreStep /\ UNCHANGED <<target, mishaps>>

\* os.replace does not take the place of a directory that is not empty.  What fails after it
\* leaves the target in its place.
ReplaceTarget(r) ==
    /\ RestoreAt(r, "replace")
    /\ IF target = Empty
       THEN /\ target' = [database |-> "restored", refs |-> SetFor(r).refs, set |-> restore[r].set,
                          objects |-> [o \in Objects |->
                              IF o \in restore[r].content THEN "damaged"
                              ELSE IF o \in restore[r].placed THEN "good" ELSE "none"]]
            /\ \/ Exits(r, "ok") /\ UNCHANGED mishaps
               \/ Mishap /\ Exits(r, "failed")
       ELSE Exits(r, "failed") /\ UNCHANGED <<target, mishaps>>
    /\ RestoreStep

----------------------------------------------------------------------------
(* S3RecoveryAdapter.ensure_empty_and_restore and                           *)
(* PostgreSQLRecoveryAdapter.restore.                                       *)

Unplaced(r) == SetFor(r).listed \ restore[r].placed

\* Mutant: an object takes the place of another of the same key.
MayPlaceOver(o) == TRUE

\* IfNoneMatch.
MayPlace(o) == target.objects[o] = "none"

Content(r, o) == IF o \in SetFor(r).damaged THEN "damaged" ELSE "good"

\* An object is put, and read again to compare its digest.
PutObject(r, o) ==
    /\ RestoreAt(r, "put")
    /\ o \in Unplaced(r) /\ \A x \in Unplaced(r) : o <= x
    /\ \/ /\ MayPlace(o)
          /\ target' = [target EXCEPT !.objects[o] = Content(r, o)]
          /\ restore' = [restore EXCEPT ![r].placed = @ \cup {o},
                            ![r].pc = IF o \in SetFor(r).damaged THEN "remove" ELSE @]
          /\ UNCHANGED mishaps
       \/ /\ ~MayPlace(o)
          /\ RestoreTo(r, "remove") /\ UNCHANGED <<target, mishaps>>
       \/ /\ Mishap                                \* the answer is lost
          /\ target' \in {target} \cup (IF MayPlace(o)
                                        THEN {[target EXCEPT !.objects[o] = Content(r, o)]} ELSE {})
          /\ RestoreTo(r, "remove")
    /\ RestoreStep

OnlyMine(r) == {o \in Objects : target.objects[o] # "none"} = restore[r].placed

ListRestored(r) ==
    /\ RestoreAt(r, "put") /\ Unplaced(r) = {}
    /\ RestoreTo(r, IF OnlyMine(r) THEN "database" ELSE "remove")
    /\ RestoreStep /\ UNCHANGED <<target, mishaps>>

\* What was put is removed.
Refused(r) == RestoreTo(r, "remove")

\* The references of the payload, an empty database, and one transaction for the schema
\* and the rows. The database is looked at before the transaction, which is one step here:
\* of two that found it empty, the second fails on the tables or on the keys of the
\* accounts that all sets have in common, and that is refused like a database in use.
RestoreDatabase(r) ==
    /\ RestoreAt(r, "database")
    /\ \/ /\ Resolved(SetFor(r).refs, restore[r].placed) /\ target.database = "empty"
          /\ target' = [target EXCEPT !.database = "restored", !.refs = SetFor(r).refs,
                                      !.set = restore[r].set]
          /\ \/ Exits(r, "ok") /\ UNCHANGED mishaps
             \/ Mishap /\ RestoreTo(r, "remove")   \* committed, and not known to be
       \/ Refused(r) /\ UNCHANGED <<target, mishaps>>
    /\ RestoreStep

\* A deletion that fails is passed over, or ends the clean-up.
RemovePlaced(r) ==
    /\ RestoreAt(r, "remove")
    /\ IF restore[r].placed = {}
       THEN Exits(r, "failed") /\ UNCHANGED <<target, mishaps>>
       ELSE \E o \in restore[r].placed :
              \/ /\ target' = [target EXCEPT !.objects[o] = "none"]
                 /\ restore' = [restore EXCEPT ![r].placed = @ \ {o}]
                 /\ UNCHANGED mishaps
              \/ /\ Mishap
                 /\ restore' \in {[restore EXCEPT ![r].placed = @ \ {o}],
                                  [restore EXCEPT ![r].pc = "done", ![r].exit = "failed"]}
                 /\ UNCHANGED target
    /\ RestoreStep

\* A failing call or the deadline.
RestoreFails(r) ==
    /\ restore[r].pc \in {"stage", "references", "replace", "put", "database"}
    /\ Mishap
    /\ IF Distributed THEN RestoreTo(r, "remove") ELSE Exits(r, "failed")
    /\ RestoreStep /\ UNCHANGED target

RestoreCrashes(r) ==
    /\ restore[r].pc \notin {"idle", "done"}
    /\ Mishap
    /\ Exits(r, "crashed")
    /\ RestoreStep /\ UNCHANGED target

\* Someone else begins to use the target.
ForeignUse(o) ==
    /\ Mishap
    /\ target.objects[o] = "none"
    /\ target' = [target EXCEPT !.objects[o] = "foreign"]
    /\ UNCHANGED <<source, backup, sets, restore>>

\* Every command has ended, and the service has nothing left to do.
CommandsEnded ==
    /\ \A r \in Restorers : RestoreAt(r, "done")
    /\ Len(sets) = MaxSets
    /\ UNCHANGED recoveryVars

RecoveryNext ==
    \/ \E o \in Objects : ServiceStep(o)
    \/ _sqlite_snapshot \/ _inventory \/ CopyObject \/ CompareInventory \/ write_manifest
    \/ PublishSet \/ BackupFails \/ BackupCrashes
    \/ \E i \in 1 .. Len(sets), o \in Objects : DamageFile(i, o)
    \/ \E r \in Restorers :
        \/ \E i \in 1 .. Len(sets) : VerifySet(r, i)
        \/ VerifyTarget(r) \/ CopyMembers(r) \/ _verify_stable_references_sqlite(r)
        \/ ReplaceTarget(r) \/ \E o \in Objects : PutObject(r, o)
        \/ ListRestored(r) \/ RestoreDatabase(r) \/ RemovePlaced(r)
        \/ RestoreFails(r) \/ RestoreCrashes(r)
    \/ \E o \in Objects : ForeignUse(o)
    \/ CommandsEnded

RecoverySpec == RecoveryInit /\ [][RecoveryNext]_recoveryVars

----------------------------------------------------------------------------
(* Properties.                                                              *)

Backup ==
    [pc        : {"idle", "inventory", "copy", "compare", "manifest", "publish"},
     refs      : SUBSET Objects,         \* of the database that was copied
     inventory : SUBSET Objects,         \* listed before the copy
     copied    : SUBSET Objects,
     listed    : SUBSET Objects,         \* in the manifest
     calm      : BOOLEAN]

BackupSet ==
    [named    : BOOLEAN,                 \* published under its identity
     refs     : SUBSET Objects,
     files    : SUBSET Objects,
     manifest : BOOLEAN,
     listed   : SUBSET Objects,
     damaged  : SUBSET Objects,
     calm     : BOOLEAN]

Restore ==
    [pc      : {"idle", "empty", "stage", "references", "replace", "put", "database", "remove",
                "done"},
     set     : Nat,
     placed  : SUBSET Objects,
     content : SUBSET Objects,           \* copied in a damaged state
     seen    : SUBSET Objects,
     exit    : {"none", "ok", "failed", "crashed"}]

\* Types. A restore command is at one of the sets that exist.
RecoveryTypeOK ==
    /\ source \in [Objects -> {"new", "stored", "kept", "deleted", "gone"}]
    /\ backup \in Backup
    /\ sets \in Seq(BackupSet)
    /\ restore \in [Restorers -> Restore]
    /\ \A r \in Restorers : restore[r].set \in 0 .. Len(sets)
    /\ target \in [database : {"empty", "foreign", "restored"}, refs : SUBSET Objects, set : Nat,
                   objects : [Objects -> {"none", "foreign", "good", "damaged"}]]
    /\ mishaps \in Nat

\* A set that is published can be restored, as far as nobody has damaged it: the service
\* may store objects and write rows while it is backed up.  It may not clean up: an object
\* that is deleted before its row is told leaves a set that is published and refused.
PublishedRestorable ==
    \A i \in 1 .. Len(sets) :
        sets[i].named /\ sets[i].calm =>
            /\ sets[i].manifest /\ sets[i].files = sets[i].listed
            /\ sets[i].refs \subseteq sets[i].files

\* A restore that reports success leaves, for good, the database of its set and every
\* object that the database refers to, also when two restores meet in one target, and none
\* of them damaged.  A standalone one does not look at the digests again: a file of the set
\* may decay between its verification and its copy.
RestoredIsComplete ==
    \A r \in Restorers : restore[r].exit = "ok" =>
        /\ target.database = "restored" /\ target.set = restore[r].set
        /\ target.refs = SetFor(r).refs
        /\ \A o \in target.refs :
              \/ target.objects[o] = "good"
              \/ target.objects[o] = "damaged" /\ o \in restore[r].content \ restore[r].seen

\* While nothing fails, a restore that is refused leaves no trace: the target of another
\* try is still empty, and what was there before is untouched.
NothingLeftBehind ==
    (mishaps = 0 /\ \A r \in Restorers : restore[r].pc \in {"idle", "done"}
                 /\ restore[r].exit # "ok") => target \in Targets

\* What somebody else has at the target is never replaced or removed.
TargetKept ==
    /\ target.database = "foreign" => target'.database = "foreign"
    /\ \A o \in Objects : target.objects[o] = "foreign" => target'.objects[o] = "foreign"

\* A restore that succeeds is complete and stays so, one that is refused leaves no trace,
\* and neither touches what somebody else has at the target.
RestoreIsExact ==
    /\ [](RestoredIsComplete /\ NothingLeftBehind)
    /\ [][TargetKept]_recoveryVars

=============================================================================
