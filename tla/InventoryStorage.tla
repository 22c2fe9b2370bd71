-------------------------- MODULE InventoryStorage --------------------------
(***************************************************************************)
(* The file that the broker keeps its inventory in                         *)
(* (broker/inventory_storage.py): rows that carry an authentication code   *)
(* each, and a manifest that binds all of them together.  Every operation  *)
(* is one transaction of SQLite: it verifies the complete file, changes    *)
(* rows and writes the manifest anew, or it leaves no trace.               *)
(*                                                                         *)
(* A code is modelled by what it authenticates, a digest by what it is     *)
(* made of.  IsolationBroker says what the rows mean.                      *)
(***************************************************************************)
EXTENDS Naturals

CONSTANTS
    Openers,            \* processes that open the file
    Units,              \* units of one principal
    MaxGeneration,      \* bound: transactions that write
    MaxDamage           \* bound: changes made by anything else

ASSUME StorageAssumption == MaxDamage \in Nat

VARIABLES
    inventory,  \* the file, as it was committed last
    past,       \* history: every file that was ever committed
    opener,     \* opener[p]: how far a process has come, and what it has read
    damage      \* how often something else has changed the file

storageVars == <<inventory, past, opener, damage>>

_SCHEMA_VERSION == 3

_LEGACY_SCHEMA_VERSION == 2

\* A code covers the version of the schema, the kind of the row and its values.
_mac_for(schema, kind, values) == <<schema, kind, values>>

Row(schema, kind, values) == [values |-> values, mac |-> _mac_for(schema, kind, values)]

NoRow == [values |-> <<>>, mac |-> <<>>]

Authentic(schema, kind, row) == row.mac = _mac_for(schema, kind, row.values)

\* The generation of a manifest, and the digests of the two tables.
Manifest(schema, generation, i) ==
    Row(schema, "manifest", <<generation, i.principal, i.units>>)

NoFile ==
    [schema |-> 0, principal |-> NoRow, units |-> [u \in Units |-> NoRow], manifest |-> NoRow]

\* A file of the given version with no row, or with a unit.
EmptyFile(schema) ==
    [NoFile EXCEPT !.schema = schema, !.manifest = Manifest(schema, 0, NoFile)]

FileWith(schema, u) ==
    LET i == [NoFile EXCEPT !.schema = schema, !.principal = Row(schema, "principal", <<1>>),
                            !.units[u] = Row(schema, "unit", <<u, 0>>)]
    IN  [i EXCEPT !.manifest = Manifest(schema, 1, i)]

\* What the rows say.
Content(i) == <<i.principal.values, [u \in Units |-> i.units[u].values]>>

StorageInit ==
    /\ inventory \in {NoFile} \cup {FileWith(_LEGACY_SCHEMA_VERSION, u) : u \in Units}
    /\ past = {inventory}
    /\ opener = [p \in Openers |-> [pc |-> "closed", read |-> Content(NoFile)]]
    /\ damage = 0

Reaches(p, pc) == opener' = [opener EXCEPT ![p].pc = pc]

At(p, pc) == opener[p].pc = pc

----------------------------------------------------------------------------
(* What is verified.                                                        *)

\* Mutant: the counts are compared, and not the digests.
MatchesCounts(i) ==
    /\ (i.manifest.values[2] = NoRow) = (i.principal = NoRow)
    /\ \A u \in Units : (i.manifest.values[3][u] = NoRow) = (i.units[u] = NoRow)

_verify_manifest(i) ==
    i.manifest.values[2] = i.principal /\ i.manifest.values[3] = i.units

\* The schema, the codes of all rows, the foreign keys and the manifest.
Whole(schema, i) ==
    /\ i.schema = schema
    /\ i.principal # NoRow => Authentic(schema, "principal", i.principal)
    /\ \A u \in Units : i.units[u] # NoRow =>
          Authentic(schema, "unit", i.units[u]) /\ i.principal # NoRow
    /\ i.manifest # NoRow /\ Authentic(schema, "manifest", i.manifest)
    /\ _verify_manifest(i)

_verify_all == Whole(_SCHEMA_VERSION, inventory)

----------------------------------------------------------------------------
(* Opening the file.  What kind of file it is is read before the            *)
(* transaction that acts on it: another process may have been faster.       *)

LookAtTables(p) ==
    /\ At(p, "closed")
    /\ Reaches(p, CASE inventory.schema = 0                      -> "create"
                    [] inventory.schema = _LEGACY_SCHEMA_VERSION -> "migrate"
                    [] OTHER                                     -> "verify")
    /\ UNCHANGED <<inventory, past, damage>>

Commit(i) == inventory' = i /\ past' = past \cup {i} /\ UNCHANGED damage

\* A transaction that is refused or fails is rolled back.
Rollback == UNCHANGED <<inventory, past, damage>>

_initialize_or_verify_schema(p) ==
    /\ At(p, "create")
    /\ IF inventory.schema = 0
       THEN Commit(EmptyFile(_SCHEMA_VERSION)) /\ Reaches(p, "verify")
       ELSE Rollback /\ Reaches(p, "failed")

\* Every row is authenticated anew.
Migrated(i) ==
    LET rows == [i EXCEPT !.schema = _SCHEMA_VERSION,
                          !.principal = IF @ = NoRow THEN @
                                        ELSE Row(_SCHEMA_VERSION, "principal", @.values),
                          !.units = [u \in Units |->
                              IF @[u] = NoRow THEN NoRow
                              ELSE Row(_SCHEMA_VERSION, "unit", @[u].values)]]
    IN  [rows EXCEPT !.manifest =
            Manifest(_SCHEMA_VERSION, i.manifest.values[1] + 1, rows)]

_migrate_v2(p) ==
    /\ At(p, "migrate")
    /\ IF Whole(_LEGACY_SCHEMA_VERSION, inventory)
       THEN Commit(Migrated(inventory)) /\ Reaches(p, "verify")
       ELSE Rollback /\ Reaches(p, "failed")

VerifyOnce(p) ==
    /\ At(p, "verify")
    /\ Reaches(p, IF _verify_all THEN "open" ELSE "failed")
    /\ Rollback

----------------------------------------------------------------------------
(* Using it.                                                                *)

_verified_connection(p) ==
    /\ At(p, "open")
    /\ opener' = IF _verify_all THEN [opener EXCEPT ![p].read = Content(inventory)]
                 ELSE [opener EXCEPT ![p].pc = "failed"]
    /\ Rollback

_refresh_manifest(i) ==
    [i EXCEPT !.manifest = Manifest(_SCHEMA_VERSION, i.manifest.values[1] + 1, i)]

_transaction(p, changed) ==
    /\ At(p, "open")
    /\ _verify_all /\ inventory.manifest.values[1] < MaxGeneration
    /\ Commit(changed) /\ UNCHANGED opener

\* A number above the last one, and its unit.
reserve(p, u) ==
    /\ inventory.units[u] = NoRow
    /\ LET last == IF inventory.principal = NoRow THEN 0 ELSE inventory.principal.values[1]
       IN  _transaction(p, _refresh_manifest(
               [inventory EXCEPT
                   !.principal = Row(_SCHEMA_VERSION, "principal", <<last + 1>>),
                   !.units[u] = Row(_SCHEMA_VERSION, "unit", <<u, 0>>)]))

\* A revision that the process has read, and that is still the one of the row.
Expected(p, u) ==
    /\ inventory.units[u] # NoRow
    /\ opener[p].read[2][u] = inventory.units[u].values

_write_updated_unit(p, u) ==
    /\ Expected(p, u)
    /\ _transaction(p, _refresh_manifest(
           [inventory EXCEPT !.units[u] =
               Row(_SCHEMA_VERSION, "unit", <<u, inventory.units[u].values[2] + 1>>)]))

Discarded(u) == _refresh_manifest([inventory EXCEPT !.units[u] = NoRow])

Discard(p, u) == Expected(p, u) /\ _transaction(p, Discarded(u))

Reopen(p) ==
    /\ opener[p].pc \in {"open", "failed"}
    /\ opener' = [opener EXCEPT ![p] = [pc |-> "closed", read |-> Content(NoFile)]]
    /\ Rollback

\* Something else changes the file: a value, a row or the manifest is replaced by one of an
\* earlier copy, a row is lost, or the complete file is replaced by an earlier copy.
Damage ==
    /\ damage < MaxDamage /\ damage' = damage + 1
    /\ inventory.schema # 0
    /\ \/ \E i \in past : inventory' = i
       \/ \E i \in past : inventory' \in {[inventory EXCEPT !.principal = i.principal],
                                          [inventory EXCEPT !.manifest = i.manifest]}
       \/ \E u \in Units, i \in past : inventory' = [inventory EXCEPT !.units[u] = i.units[u]]
       \/ \E u \in Units :
            /\ inventory.units[u] # NoRow
            /\ inventory' = [inventory EXCEPT !.units[u].values =
                                  <<u, inventory.units[u].values[2] + 1>>]
    /\ UNCHANGED <<past, opener>>

StorageNext ==
    \/ \E p \in Openers :
        \/ LookAtTables(p) \/ _initialize_or_verify_schema(p) \/ _migrate_v2(p)
        \/ VerifyOnce(p) \/ _verified_connection(p) \/ Reopen(p)
        \/ \E u \in Units : reserve(p, u) \/ _write_updated_unit(p, u) \/ Discard(p, u)
    \/ Damage

StorageSpec == StorageInit /\ [][StorageNext]_storageVars

----------------------------------------------------------------------------
(* Properties.                                                              *)

StorageTypeOK ==
    /\ inventory.schema \in {0, _LEGACY_SCHEMA_VERSION, _SCHEMA_VERSION}
    /\ damage \in 0 .. MaxDamage /\ (damage = 0 => inventory \in past)
    /\ \A p \in Openers :
          opener[p].pc \in {"closed", "create", "migrate", "verify", "open", "failed"}

\* A broker never shuts itself out: whatever its transactions have left, in whatever order
\* two processes opened, migrated and wrote the file, the next reader accepts it.
FileVerifies ==
    damage = 0 =>
        \/ inventory = NoFile
        \/ Whole(_LEGACY_SCHEMA_VERSION, inventory)
        \/ Whole(_SCHEMA_VERSION, inventory)

\* What a process has read was once committed as a whole: a row that was lost, changed or
\* put back from an earlier copy is noticed, also when it comes before the migration.
ReadWasCommitted ==
    \A p \in Openers : opener[p].read \in {Content(i) : i \in past \cup {NoFile}}

\* The inventory can always be read again, and only as a whole that was committed.
InventorySound == StorageTypeOK /\ FileVerifies /\ ReadWasCommitted

=============================================================================
