-------------------------- MODULE Runtimes_proofs ---------------------------
(***************************************************************************)
(* What a broker's process lets others rely on: the file of its inventory, *)
(* for any processes and units and any damage, its transport, for any      *)
(* exchanges, strays and limits, and its two runtimes, for any number of   *)
(* faults.                                                                 *)
(***************************************************************************)
EXTENDS InventoryStorage, MtlsTransport, PodmanRuntime, KubernetesRuntime,
        FiniteSetTheorems, TLAPS

----------------------------------------------------------------------------
(* The file.  Whoever accepts a manifest accepts a manifest that some       *)
(* transaction has written, and with it the rows that it was written for.   *)

IsFile(i) ==
    /\ DOMAIN i = {"schema", "principal", "units", "manifest"}
    /\ i.schema \in {0, _LEGACY_SCHEMA_VERSION, _SCHEMA_VERSION}
    /\ DOMAIN i.units = Units

\* A file that a transaction has left.
Sound(i) ==
    \/ i = NoFile
    \/ Whole(_LEGACY_SCHEMA_VERSION, i)
    \/ Whole(_SCHEMA_VERSION, i)

StorageInv ==
    /\ IsFile(inventory)
    /\ \A i \in past : IsFile(i) /\ Sound(i)
    /\ \E i \in past : inventory.manifest = i.manifest
    /\ damage \in 0 .. MaxDamage /\ (damage = 0 => inventory \in past)
    /\ \A p \in Openers :
          opener[p].pc \in {"closed", "create", "migrate", "verify", "open", "failed"}
    /\ DOMAIN opener = Openers
    /\ \A p \in Openers : opener[p] = [pc |-> opener[p].pc, read |-> opener[p].read]
    /\ ReadWasCommitted

\* A row that was written is there.
LEMMA RowsAreThere ==
    ASSUME NEW schema, NEW kind, NEW values
    PROVE  /\ Row(schema, kind, values) # NoRow
           /\ Authentic(schema, kind, Row(schema, kind, values))
           /\ Row(schema, kind, values).values = values
<1>1. <<schema, kind, values>> # <<>>
  OBVIOUS
<1>. QED
  BY <1>1 DEF Row, NoRow, Authentic, _mac_for

LEMMA NoFileSound == IsFile(NoFile) /\ Sound(NoFile)
BY DEF IsFile, Sound, NoFile

\* A manifest that is written for rows that are authentic makes the file whole.
LEMMA ManifestMakesWhole ==
    ASSUME NEW schema \in {_LEGACY_SCHEMA_VERSION, _SCHEMA_VERSION}, NEW i, NEW generation,
           IsFile(i), i.schema = schema,
           i.principal # NoRow => Authentic(schema, "principal", i.principal),
           \A u \in Units : i.units[u] # NoRow =>
              Authentic(schema, "unit", i.units[u]) /\ i.principal # NoRow
    PROVE  LET j == [i EXCEPT !.manifest = Manifest(schema, generation, i)]
           IN  IsFile(j) /\ Whole(schema, j) /\ Sound(j)
<1>. DEFINE j == [i EXCEPT !.manifest = Manifest(schema, generation, i)]
            values == <<generation, i.principal, i.units>>
<1>1. IsFile(j) /\ j.schema = i.schema /\ j.principal = i.principal /\ j.units = i.units
      /\ j.manifest = Row(schema, "manifest", values)
  BY DEF IsFile, Manifest
<1>2. j.manifest # NoRow /\ Authentic(schema, "manifest", j.manifest) /\ j.manifest.values = values
  BY <1>1, RowsAreThere
<1>3. _verify_manifest(j)
  BY <1>1, <1>2 DEF _verify_manifest
<1>4. Whole(schema, j)
  BY <1>1, <1>2, <1>3 DEF Whole
<1>. QED
  BY <1>1, <1>4 DEF Sound

\* Two files that carry the same manifest, and both are whole, say the same.
LEMMA ManifestBinds ==
    ASSUME NEW i, NEW j, NEW s, NEW t, Whole(s, i), Whole(t, j), i.manifest = j.manifest
    PROVE  Content(i) = Content(j)
BY DEF Whole, _verify_manifest, Content

LEMMA WholeWasCommitted ==
    ASSUME StorageInv, NEW s, Whole(s, inventory)
    PROVE  \E i \in past : Content(inventory) = Content(i)
<1>1. PICK i \in past : inventory.manifest = i.manifest
  BY DEF StorageInv
<1>2. i # NoFile
  BY <1>1 DEF Whole, NoFile
<1>3. Whole(_LEGACY_SCHEMA_VERSION, i) \/ Whole(_SCHEMA_VERSION, i)
  BY <1>1, <1>2 DEF StorageInv, Sound
<1>. QED
  BY <1>1, <1>3, ManifestBinds

LEMMA StorageInitially == StorageInit => StorageInv
<1>. SUFFICES ASSUME StorageInit
              PROVE  StorageInv
  OBVIOUS
<1>. DEFINE Rows(u) == [NoFile EXCEPT !.schema = _LEGACY_SCHEMA_VERSION,
                            !.principal = Row(_LEGACY_SCHEMA_VERSION, "principal", <<1>>),
                            !.units[u] = Row(_LEGACY_SCHEMA_VERSION, "unit", <<u, 0>>)]
<1>1. ASSUME NEW u \in Units
      PROVE  IsFile(FileWith(_LEGACY_SCHEMA_VERSION, u)) /\ Sound(FileWith(_LEGACY_SCHEMA_VERSION, u))
  <2>1. IsFile(Rows(u)) /\ Rows(u).schema = _LEGACY_SCHEMA_VERSION
    <3>1. NoFile.units = [w \in Units |-> NoRow] /\ IsFile(NoFile)
      BY NoFileSound DEF NoFile
    <3>. QED
      BY <3>1 DEF IsFile
  <2>2. Rows(u).principal = Row(_LEGACY_SCHEMA_VERSION, "principal", <<1>>)
    BY DEF NoFile
  <2>3. Rows(u).units[u] = Row(_LEGACY_SCHEMA_VERSION, "unit", <<u, 0>>)
    BY DEF NoFile
  <2>4. \A w \in Units : w # u => Rows(u).units[w] = NoRow
    BY DEF NoFile
  <2>5. Rows(u).principal # NoRow /\ Authentic(_LEGACY_SCHEMA_VERSION, "principal", Rows(u).principal)
    BY <2>2, RowsAreThere
  <2>6. \A w \in Units : Rows(u).units[w] # NoRow =>
            Authentic(_LEGACY_SCHEMA_VERSION, "unit", Rows(u).units[w])
    BY <2>3, <2>4, RowsAreThere
  <2>7. FileWith(_LEGACY_SCHEMA_VERSION, u) =
            [Rows(u) EXCEPT !.manifest = Manifest(_LEGACY_SCHEMA_VERSION, 1, Rows(u))]
    BY DEF FileWith
  <2>. HIDE DEF Rows
  <2>. QED
    BY <2>1, <2>5, <2>6, <2>7, ManifestMakesWhole
<1>2. IsFile(inventory) /\ Sound(inventory)
  BY <1>1, NoFileSound DEF StorageInit
<1>3. past = {inventory} /\ damage = 0 /\ MaxDamage \in Nat
  BY StorageAssumption DEF StorageInit
<1>4. opener = [p \in Openers |-> [pc |-> "closed", read |-> Content(NoFile)]]
  BY DEF StorageInit
<1>5. ReadWasCommitted
  BY <1>4 DEF ReadWasCommitted
<1>. QED
  BY <1>2, <1>3, <1>4, <1>5 DEF StorageInv

\* What was read stays what was committed, for nothing is forgotten.
LEMMA ReadStays ==
    ASSUME ReadWasCommitted, past \subseteq past',
           \A p \in Openers : opener'[p].read = opener[p].read
    PROVE  ReadWasCommitted'
BY DEF ReadWasCommitted

\* A step that only moves a process, in the file or in what it has read.
LEMMA OpenerMoves ==
    ASSUME StorageInv, NEW p \in Openers,
           opener' = [opener EXCEPT ![p] = opener'[p]],
           opener'[p] = [pc |-> opener'[p].pc, read |-> opener'[p].read],
           opener'[p].pc \in {"closed", "create", "migrate", "verify", "open", "failed"},
           opener'[p].read \in {Content(i) : i \in past \cup {NoFile}},
           Rollback
    PROVE  StorageInv'
<1>1. \A q \in Openers : opener'[q] = IF q = p THEN opener'[p] ELSE opener[q]
  BY DEF StorageInv
<1>2. ReadWasCommitted'
  BY <1>1 DEF StorageInv, ReadWasCommitted, Rollback
<1>. QED
  BY <1>1, <1>2 DEF StorageInv, Rollback, IsFile, Sound, Whole, _verify_manifest

\* A transaction that leaves a sound file.
LEMMA CommitKeeps ==
    ASSUME StorageInv, NEW i, IsFile(i), Sound(i), Commit(i),
           \/ UNCHANGED opener
           \/ \E p \in Openers : Reaches(p, "verify")
    PROVE  StorageInv'
<1>1. inventory' = i /\ past' = past \cup {i} /\ damage' = damage
  BY DEF Commit
<1>2. \A q \in Openers : opener'[q].read = opener[q].read /\
          opener'[q].pc \in {"closed", "create", "migrate", "verify", "open", "failed"} /\
          opener'[q] = [pc |-> opener'[q].pc, read |-> opener'[q].read]
  BY DEF StorageInv, Reaches
<1>3. DOMAIN opener' = Openers
  BY DEF StorageInv, Reaches
<1>4. ReadWasCommitted'
  BY <1>1, <1>2, ReadStays DEF StorageInv
<1>5. IsFile(inventory)' /\ \A j \in past' : IsFile(j) /\ Sound(j)
  BY <1>1 DEF StorageInv, IsFile
<1>. QED
  BY <1>1, <1>2, <1>3, <1>4, <1>5 DEF StorageInv

LEMMA EmptySound == IsFile(EmptyFile(_SCHEMA_VERSION)) /\ Sound(EmptyFile(_SCHEMA_VERSION))
<1>. DEFINE i == EmptyFile(_SCHEMA_VERSION)
            values == <<0, NoFile.principal, NoFile.units>>
<1>1. IsFile(i) /\ i.schema = _SCHEMA_VERSION /\ i.principal = NoFile.principal
      /\ i.units = NoFile.units /\ i.manifest = Row(_SCHEMA_VERSION, "manifest", values)
  BY NoFileSound DEF EmptyFile, IsFile, Manifest
<1>2. i.manifest # NoRow /\ Authentic(_SCHEMA_VERSION, "manifest", i.manifest)
      /\ i.manifest.values = values
  BY <1>1, RowsAreThere
<1>3. i.principal = NoRow /\ \A u \in Units : i.units[u] = NoRow
  BY <1>1 DEF NoFile
<1>4. _verify_manifest(i)
  BY <1>1, <1>2 DEF _verify_manifest
<1>. QED
  BY <1>1, <1>2, <1>3, <1>4 DEF Whole, Sound

\* The migration authenticates every row anew.
LEMMA MigratedSound ==
    ASSUME NEW i, IsFile(i), Whole(_LEGACY_SCHEMA_VERSION, i)
    PROVE  IsFile(Migrated(i)) /\ Sound(Migrated(i))
<1>. DEFINE rows == [i EXCEPT !.schema = _SCHEMA_VERSION,
                          !.principal = IF @ = NoRow THEN @
                                        ELSE Row(_SCHEMA_VERSION, "principal", @.values),
                          !.units = [u \in Units |->
                              IF @[u] = NoRow THEN NoRow
                              ELSE Row(_SCHEMA_VERSION, "unit", @[u].values)]]
<1>1. IsFile(rows) /\ rows.schema = _SCHEMA_VERSION
  BY DEF IsFile
<1>2. rows.principal = IF i.principal = NoRow THEN NoRow
                       ELSE Row(_SCHEMA_VERSION, "principal", i.principal.values)
  BY DEF IsFile
<1>3. \A u \in Units : rows.units[u] = IF i.units[u] = NoRow THEN NoRow
                                       ELSE Row(_SCHEMA_VERSION, "unit", i.units[u].values)
  BY DEF IsFile
<1>4. rows.principal # NoRow =>
          i.principal # NoRow /\ Authentic(_SCHEMA_VERSION, "principal", rows.principal)
  BY <1>2, RowsAreThere
<1>5. i.principal # NoRow => rows.principal # NoRow
  BY <1>2, RowsAreThere
<1>6. \A u \in Units : rows.units[u] # NoRow =>
          i.units[u] # NoRow /\ Authentic(_SCHEMA_VERSION, "unit", rows.units[u])
  BY <1>3, RowsAreThere
<1>7. \A u \in Units : rows.units[u] # NoRow => rows.principal # NoRow
  BY <1>5, <1>6 DEF Whole
<1>8. Migrated(i) = [rows EXCEPT !.manifest =
                        Manifest(_SCHEMA_VERSION, i.manifest.values[1] + 1, rows)]
  BY DEF Migrated
<1>. HIDE DEF rows
<1>. QED
  BY <1>1, <1>4, <1>6, <1>7, <1>8, ManifestMakesWhole

\* Every other transaction changes authentic rows into authentic rows, of a whole file.
LEMMA RefreshedSound ==
    ASSUME NEW i, IsFile(i), i.schema = _SCHEMA_VERSION,
           i.principal # NoRow => Authentic(_SCHEMA_VERSION, "principal", i.principal),
           \A u \in Units : i.units[u] # NoRow =>
              Authentic(_SCHEMA_VERSION, "unit", i.units[u]) /\ i.principal # NoRow
    PROVE  IsFile(_refresh_manifest(i)) /\ Sound(_refresh_manifest(i))
BY ManifestMakesWhole DEF _refresh_manifest

LEMMA TransactionKeeps ==
    ASSUME StorageInv, NEW p \in Openers, NEW i, IsFile(i), Sound(i), _transaction(p, i)
    PROVE  StorageInv'
BY CommitKeeps DEF _transaction

LEMMA ReserveKeeps ==
    ASSUME StorageInv, NEW p \in Openers, NEW u \in Units, reserve(p, u)
    PROVE  StorageInv'
<1>. DEFINE last == IF inventory.principal = NoRow THEN 0 ELSE inventory.principal.values[1]
            i == [inventory EXCEPT !.principal = Row(_SCHEMA_VERSION, "principal", <<last + 1>>),
                                   !.units[u] = Row(_SCHEMA_VERSION, "unit", <<u, 0>>)]
<1>1. _transaction(p, _refresh_manifest(i)) /\ Whole(_SCHEMA_VERSION, inventory)
  BY DEF reserve, _transaction, _verify_all
<1>2. IsFile(i) /\ i.schema = _SCHEMA_VERSION
  BY <1>1 DEF StorageInv, IsFile, Whole
<1>3. i.principal = Row(_SCHEMA_VERSION, "principal", <<last + 1>>)
  BY DEF StorageInv, IsFile
<1>4. \A w \in Units : i.units[w] = IF w = u THEN Row(_SCHEMA_VERSION, "unit", <<u, 0>>)
                                    ELSE inventory.units[w]
  BY DEF StorageInv, IsFile
<1>5. i.principal # NoRow /\ Authentic(_SCHEMA_VERSION, "principal", i.principal)
  BY <1>3, RowsAreThere
<1>6. \A w \in Units : i.units[w] # NoRow => Authentic(_SCHEMA_VERSION, "unit", i.units[w])
  BY <1>1, <1>4, RowsAreThere DEF Whole
<1>. HIDE DEF i
<1>. QED
  BY <1>1, <1>2, <1>5, <1>6, RefreshedSound, TransactionKeeps

\* A row of a unit is replaced, by an authentic one or by none.
LEMMA UnitChangeKeeps ==
    ASSUME StorageInv, NEW p \in Openers, NEW u \in Units, NEW row,
           row # NoRow => inventory.units[u] # NoRow /\ Authentic(_SCHEMA_VERSION, "unit", row),
           _transaction(p, _refresh_manifest([inventory EXCEPT !.units[u] = row]))
    PROVE  StorageInv'
<1>. DEFINE i == [inventory EXCEPT !.units[u] = row]
<1>1. Whole(_SCHEMA_VERSION, inventory)
  BY DEF _transaction, _verify_all
<1>2. IsFile(i) /\ i.schema = _SCHEMA_VERSION /\ i.principal = inventory.principal
  BY <1>1 DEF StorageInv, IsFile, Whole
<1>3. \A w \in Units : i.units[w] = IF w = u THEN row ELSE inventory.units[w]
  BY DEF StorageInv, IsFile
<1>4. i.principal # NoRow => Authentic(_SCHEMA_VERSION, "principal", i.principal)
  BY <1>1, <1>2 DEF Whole
<1>5. \A w \in Units : i.units[w] # NoRow =>
          Authentic(_SCHEMA_VERSION, "unit", i.units[w]) /\ i.principal # NoRow
  BY <1>1, <1>2, <1>3 DEF Whole
<1>. HIDE DEF i
<1>6. IsFile(_refresh_manifest(i)) /\ Sound(_refresh_manifest(i))
  BY <1>2, <1>4, <1>5, RefreshedSound
<1>. QED
  BY <1>6, TransactionKeeps DEF i

LEMMA UpdateKeeps ==
    ASSUME StorageInv, NEW p \in Openers, NEW u \in Units, _write_updated_unit(p, u)
    PROVE  StorageInv'
<1>. DEFINE row == Row(_SCHEMA_VERSION, "unit", <<u, inventory.units[u].values[2] + 1>>)
<1>1. inventory.units[u] # NoRow
      /\ _transaction(p, _refresh_manifest([inventory EXCEPT !.units[u] = row]))
  BY DEF _write_updated_unit, Expected
<1>2. Authentic(_SCHEMA_VERSION, "unit", row)
  BY RowsAreThere
<1>. HIDE DEF row
<1>. QED
  BY <1>1, <1>2, UnitChangeKeeps

LEMMA DiscardKeeps ==
    ASSUME StorageInv, NEW p \in Openers, NEW u \in Units, Discard(p, u)
    PROVE  StorageInv'
<1>. DEFINE row == NoRow
<1>1. _transaction(p, _refresh_manifest([inventory EXCEPT !.units[u] = row]))
  BY DEF Discard, Discarded
<1>2. row = NoRow
  OBVIOUS
<1>. HIDE DEF row
<1>. QED
  BY <1>1, <1>2, UnitChangeKeeps

\* What else changes the file makes no manifest.
LEMMA DamageKeeps ==
    ASSUME StorageInv, Damage
    PROVE  StorageInv'
<1>1. damage' = damage + 1 /\ damage < MaxDamage /\ past' = past /\ opener' = opener
  BY DEF Damage
<1>2. IsFile(inventory') /\ \E i \in past : inventory'.manifest = i.manifest
  <2>1. CASE \E i \in past : inventory' = i
    BY <2>1 DEF StorageInv
  <2>2. CASE \E i \in past : inventory' \in {[inventory EXCEPT !.principal = i.principal],
                                             [inventory EXCEPT !.manifest = i.manifest]}
    BY <2>2 DEF StorageInv, IsFile
  <2>3. CASE \E u \in Units, i \in past : inventory' = [inventory EXCEPT !.units[u] = i.units[u]]
    BY <2>3 DEF StorageInv, IsFile
  <2>4. CASE \E u \in Units : inventory' = [inventory EXCEPT !.units[u].values =
                                                <<u, inventory.units[u].values[2] + 1>>]
    BY <2>4 DEF StorageInv, IsFile
  <2>. QED
    BY <2>1, <2>2, <2>3, <2>4 DEF Damage
<1>3. damage' \in 0 .. MaxDamage /\ damage' # 0
  BY <1>1, StorageAssumption DEF StorageInv
<1>4. ReadWasCommitted'
  BY <1>1, ReadStays DEF StorageInv
<1>. QED
  BY <1>1, <1>2, <1>3, <1>4 DEF StorageInv

LEMMA OpenerKeeps ==
    ASSUME StorageInv, NEW p \in Openers,
           \/ LookAtTables(p) \/ _initialize_or_verify_schema(p) \/ _migrate_v2(p)
           \/ VerifyOnce(p) \/ _verified_connection(p) \/ Reopen(p)
    PROVE  StorageInv'
<1>1. ASSUME NEW pc \in {"closed", "create", "migrate", "verify", "open", "failed"},
             Reaches(p, pc), Rollback
      PROVE  StorageInv'
  <2>1. opener[p].read \in {Content(i) : i \in past \cup {NoFile}}
    BY DEF StorageInv, ReadWasCommitted
  <2>2. opener' = [opener EXCEPT ![p] = opener'[p]]
        /\ opener'[p] = [pc |-> pc, read |-> opener[p].read]
    BY <1>1 DEF Reaches, StorageInv
  <2>. QED
    BY <1>1, <2>1, <2>2, OpenerMoves
<1>2. ASSUME opener' = [opener EXCEPT ![p] = opener'[p]],
             opener'[p] = [pc |-> "closed", read |-> Content(NoFile)]
             \/ opener'[p] = [pc |-> "open", read |-> Content(inventory)],
             opener'[p].read \in {Content(i) : i \in past \cup {NoFile}}, Rollback
      PROVE  StorageInv'
  BY <1>2, OpenerMoves
<1>3. CASE LookAtTables(p)
  <2>. DEFINE place == CASE inventory.schema = 0                      -> "create"
                         [] inventory.schema = _LEGACY_SCHEMA_VERSION -> "migrate"
                         [] OTHER                                     -> "verify"
  <2>1. Reaches(p, place) /\ Rollback
    BY <1>3 DEF LookAtTables, Rollback
  <2>2. place \in {"create", "migrate", "verify"}
    BY DEF _LEGACY_SCHEMA_VERSION
  <2>. HIDE DEF place
  <2>. QED
    BY <1>1, <2>1, <2>2
<1>4. CASE _initialize_or_verify_schema(p)
  BY <1>1, <1>4, EmptySound, CommitKeeps DEF _initialize_or_verify_schema
<1>5. CASE _migrate_v2(p)
  <2>1. Whole(_LEGACY_SCHEMA_VERSION, inventory) =>
            IsFile(Migrated(inventory)) /\ Sound(Migrated(inventory))
    BY MigratedSound DEF StorageInv
  <2>. QED
    BY <1>1, <1>5, <2>1, CommitKeeps DEF _migrate_v2
<1>6. CASE VerifyOnce(p)
  BY <1>1, <1>6 DEF VerifyOnce
<1>7. CASE _verified_connection(p)
  <2>1. CASE _verify_all
    <3>1. opener[p].pc = "open" /\ opener' = [opener EXCEPT ![p].read = Content(inventory)]
      BY <1>7, <2>1 DEF _verified_connection, At
    <3>2. opener' = [opener EXCEPT ![p] = opener'[p]]
          /\ opener'[p] = [pc |-> "open", read |-> Content(inventory)]
      BY <3>1 DEF StorageInv
    <3>3. Content(inventory) \in {Content(i) : i \in past \cup {NoFile}}
      BY <2>1, WholeWasCommitted DEF _verify_all
    <3>. QED
      BY <1>2, <1>7, <3>2, <3>3 DEF _verified_connection
  <2>2. CASE ~_verify_all
    <3>1. Reaches(p, "failed") /\ Rollback
      BY <1>7, <2>2 DEF _verified_connection, Reaches
    <3>. QED
      BY <1>1, <3>1
  <2>. QED
    BY <2>1, <2>2
<1>8. CASE Reopen(p)
  <2>1. opener' = [opener EXCEPT ![p] = opener'[p]] /\ Rollback
        /\ opener'[p] = [pc |-> "closed", read |-> Content(NoFile)]
    BY <1>8 DEF Reopen, StorageInv
  <2>. QED
    BY <1>2, <2>1
<1>. QED
  BY <1>3, <1>4, <1>5, <1>6, <1>7, <1>8

LEMMA StorageStep ==
    ASSUME StorageInv, [StorageNext]_storageVars
    PROVE  StorageInv'
<1>1. CASE UNCHANGED storageVars
  BY <1>1 DEF storageVars, StorageInv, ReadWasCommitted
<1>2. CASE StorageNext
  BY <1>2, OpenerKeeps, ReserveKeeps, UpdateKeeps, DiscardKeeps, DamageKeeps DEF StorageNext
<1>. QED
  BY <1>1, <1>2

LEMMA StorageInvariant == StorageSpec => []StorageInv
BY StorageInitially, StorageStep, PTL DEF StorageSpec

\* The inventory file is never of an unknown kind, and a process is never elsewhere than
\* the code can take it (inventory_storage.py).
THEOREM StorageStaysTyped == StorageSpec => []StorageTypeOK
<1>1. StorageInv => StorageTypeOK
  BY DEF StorageInv, StorageTypeOK, IsFile
<1>. QED
  BY <1>1, StorageInvariant, PTL

\* However many processes open, migrate and write the file, what their transactions leave
\* is accepted by the next reader; and whatever else happens to it, what is accepted was
\* once committed as a whole (_verify_all).
THEOREM InventoryStaysSound == StorageSpec => []InventorySound
<1>1. StorageInv => InventorySound
  BY DEF StorageInv, InventorySound, StorageTypeOK, IsFile, FileVerifies, Sound
<1>. QED
  BY <1>1, StorageInvariant, PTL

----------------------------------------------------------------------------
(* The transport.  The place of a thread tells which slots it holds and     *)
(* how far its exchange is; no two requests of one exchange are claimed.    *)

ClientStages == {"start", "reserving", "submitting", "sent", "answered", "done", "failed"}
Reservations == {"none", "open", "claimed", "answered"}

Kinds == {"connections", "handshakes", "exchanges", "handlers"}
Before == {"none", "accepted", "handshake", "authenticated"}
OnResponse == {"reserved", "sending", "released", "closed"}
OnRequest == {"admitted", "received", "claimed", "dispatching", "answering", "answered",
              "published"}
Claimed == {"claimed", "dispatching", "answering", "answered", "published"}
Served == {"dispatching", "answering", "answered", "published"}

\* The slots that a thread holds, by its place.
Holds(kind, place) ==
    \/ kind = "handshakes" /\ place = "handshake"
    \/ kind = "exchanges" /\ place \in {"reserved", "sending"}
    \/ kind = "handlers" /\ place \in {"admitted", "received", "claimed", "dispatching", "answering"}
    \/ kind = "connections" /\ place \in {"accepted", "handshake", "authenticated", "reserved",
          "sending", "admitted", "received", "claimed", "dispatching", "answering"}

\* Nobody has dispatched, or may still dispatch, a request of the exchange.
Fresh(e) ==
    /\ dispatched[e] = 0
    /\ \A c \in Connections : c[1] = e => thread[c] \notin Claimed

ThreadOK(c) ==
    /\ thread[c] \in Before \cup OnResponse \cup OnRequest \cup {"ended"}
    /\ thread[c] \in OnResponse => c[2] = "response"
    /\ thread[c] \in OnRequest => IsRequest(c)
    /\ thread[c] = "claimed" => dispatched[c[1]] = 0
    /\ thread[c] \in Served => dispatched[c[1]] = 1

ExchangeOK(e) ==
    /\ dispatched[e] \in {0, 1}
    /\ reservation[e] # "none" => thread[<<e, "response">>] \in {"reserved", "sending"}
    /\ reservation[e] = "open" \/ thread[<<e, "response">>] \in Before => Fresh(e)
    /\ reservation[e] = "answered" \/ client[e] \in {"answered", "done"} =>
          /\ dispatched[e] = 1
          /\ e \notin Strays => thread[<<e, "request">>] \in {"published", "ended"}
    /\ client[e] = "done" => thread[<<e, "response">>] \in {"closed", "ended"}

ExchangesOK ==
    /\ \A c \in Connections : ThreadOK(c)
    /\ \A e \in Exchanges : ExchangeOK(e)
    /\ \A c, d \in Connections :
          thread[c] \in Claimed /\ thread[d] \in Claimed /\ c[1] = d[1] => c = d

Taken(kind) == {l \in leases : l[1] = kind}

SlotsOK ==
    /\ DOMAIN slots = Kinds
    /\ leases \subseteq Kinds \X Connections
    /\ \A k \in Kinds, c \in Connections : <<k, c>> \in leases <=> Holds(k, thread[c])
    /\ \A k \in Kinds : slots[k] \in Nat /\ slots[k] + Cardinality(Taken(k)) = Limits[k]

GateOK == \A c \in Connections : gate = c <=> thread[c] = "dispatching"

AuthorityOK == ~lock => process \in {"stopped", "dead"} /\ Drained

TransportInv ==
    /\ TransportTypeOK
    /\ DOMAIN dispatched = Exchanges
    /\ ExchangesOK
    /\ SlotsOK
    /\ GateOK
    /\ AuthorityOK

----------------------------------------------------------------------------
(* Connections and slots.                                                   *)

LEMMA LimitsKinds == DOMAIN Limits = Kinds /\ \A k \in Kinds : Limits[k] \in Nat
<1>1. Limits = [connections |-> MaxHandshakes + MaxPending + MaxHandlers,
                handshakes  |-> MaxHandshakes, exchanges |-> MaxPending,
                handlers    |-> MaxHandlers]
  BY DEF Limits
<1>2. DOMAIN Limits = Kinds
  BY <1>1 DEF Kinds
<1>3. /\ Limits["connections"] = MaxHandshakes + MaxPending + MaxHandlers
      /\ Limits["handshakes"] = MaxHandshakes
      /\ Limits["exchanges"] = MaxPending
      /\ Limits["handlers"] = MaxHandlers
  BY <1>1
<1>. QED
  BY <1>2, <1>3, TransportAssumption DEF Kinds

LEMMA ConnectionKinds ==
    /\ \A c \in Connections : c[1] \in Exchanges /\ c = <<c[1], c[2]>>
    /\ \A c \in Connections : c[2] = "response" <=> ~IsRequest(c)
    /\ \A c \in Connections : c[1] \notin Strays => c[2] # "stray"
    /\ \A e \in Exchanges : <<e, "response">> \in Connections /\ <<e, "request">> \in Connections
    /\ Nobody \notin Connections
BY TransportAssumption DEF Connections, IsRequest

LEMMA ConnectionsFinite == IsFiniteSet(Connections) /\ IsFiniteSet(Kinds)
<1>1. IsFiniteSet(Strays)
  BY TransportAssumption, FS_Subset
<1>. DEFINE One(a) == {a}
<1>0. \A a : IsFiniteSet(One(a))
  BY FS_Singleton
<1>. DEFINE Both == {"response", "request"}
<1>2. IsFiniteSet(Both) /\ IsFiniteSet({"stray"})
  <2>1. Both = One("response") \cup One("request")
    OBVIOUS
  <2>2. IsFiniteSet(One("response") \cup One("request"))
    BY <1>0, FS_Union
  <2>. QED
    BY <1>0, <2>1, <2>2
<1>3. IsFiniteSet(Exchanges \X {"response", "request"}) /\ IsFiniteSet(Strays \X {"stray"})
  BY <1>1, <1>2, TransportAssumption, FS_Product
<1>4. IsFiniteSet(Kinds)
  <2>1. Kinds = (One("connections") \cup One("handshakes")) \cup (One("exchanges") \cup One("handlers"))
    BY DEF Kinds
  <2>. QED
    BY <1>0, <2>1, FS_Union
<1>. QED
  BY <1>3, <1>4, FS_Union DEF Connections

LEMMA TakenFinite ==
    ASSUME SlotsOK, NEW k \in Kinds
    PROVE  IsFiniteSet(Taken(k)) /\ Cardinality(Taken(k)) \in Nat
<1>1. IsFiniteSet(Kinds \X Connections)
  BY ConnectionsFinite, FS_Product
<1>2. IsFiniteSet(Taken(k))
  BY <1>1, FS_Subset DEF SlotsOK, Taken
<1>. QED
  BY <1>2, FS_CardinalityType

LEMMA GotoPlaces ==
    ASSUME DOMAIN thread = Connections, NEW c \in Connections, NEW place, Goto(c, place)
    PROVE  /\ DOMAIN thread' = Connections
           /\ \A d \in Connections : thread'[d] = IF d = c THEN place ELSE thread[d]
BY DEF Goto

\* A thread that goes on with the slots that it holds.
LEMMA SlotsStand ==
    ASSUME SlotsOK, DOMAIN thread = Connections, NEW c \in Connections, NEW place,
           Goto(c, place), slots' = slots, leases' = leases,
           \A k \in Kinds : Holds(k, place) <=> Holds(k, thread[c])
    PROVE  SlotsOK'
<1>1. \A d \in Connections : thread'[d] = IF d = c THEN place ELSE thread[d]
  BY GotoPlaces
<1>2. \A k \in Kinds, d \in Connections : <<k, d>> \in leases <=> Holds(k, thread'[d])
  BY <1>1 DEF SlotsOK
<1>. QED
  BY <1>2 DEF SlotsOK, Taken

LEMMA AcquireKeeps ==
    ASSUME SlotsOK, DOMAIN thread = Connections, NEW c \in Connections, NEW place,
           Goto(c, place), NEW kind \in Kinds, Free(kind), acquire(kind, c),
           ~Holds(kind, thread[c]),
           \A k \in Kinds : Holds(k, place) <=> Holds(k, thread[c]) \/ k = kind
    PROVE  SlotsOK'
<1>1. \A d \in Connections : thread'[d] = IF d = c THEN place ELSE thread[d]
  BY GotoPlaces
<1>2. leases' = leases \cup {<<kind, c>>} /\ <<kind, c>> \notin leases
  BY DEF acquire, SlotsOK
<1>3. \A k \in Kinds, d \in Connections : <<k, d>> \in leases' <=> Holds(k, thread'[d])
  BY <1>1, <1>2 DEF SlotsOK
<1>4. leases' \subseteq Kinds \X Connections
  BY <1>2 DEF SlotsOK
<1>5. DOMAIN slots' = Kinds
      /\ \A k \in Kinds : slots'[k] = IF k = kind THEN slots[k] - 1 ELSE slots[k]
  BY DEF acquire, SlotsOK
<1>6. Cardinality(Taken(kind)') = Cardinality(Taken(kind)) + 1
  <2>1. Taken(kind)' = Taken(kind) \cup {<<kind, c>>} /\ <<kind, c>> \notin Taken(kind)
    BY <1>2 DEF Taken
  <2>2. IsFiniteSet(Taken(kind))
    BY TakenFinite
  <2>. QED
    BY <2>1, <2>2, FS_AddElement
<1>7. \A k \in Kinds : k # kind => Taken(k)' = Taken(k)
  BY <1>2 DEF Taken
<1>8. \A k \in Kinds : slots'[k] \in Nat /\ slots'[k] + Cardinality(Taken(k)') = Limits[k]
  <2>1. slots'[kind] \in Nat /\ slots'[kind] + Cardinality(Taken(kind)') = Limits[kind]
    BY <1>5, <1>6, TakenFinite DEF Free, SlotsOK
  <2>2. \A k \in Kinds : k # kind =>
            slots'[k] \in Nat /\ slots'[k] + Cardinality(Taken(k)') = Limits[k]
    BY <1>5, <1>7 DEF SlotsOK
  <2>. QED
    BY <2>1, <2>2
<1>9. \A k \in Kinds : Limits[k]' = Limits[k]
  OBVIOUS
<1>. QED
  BY <1>3, <1>4, <1>5, <1>8, <1>9 DEF SlotsOK

LEMMA ReleaseKeeps ==
    ASSUME SlotsOK, DOMAIN thread = Connections, NEW c \in Connections, NEW place,
           Goto(c, place), NEW kinds \in SUBSET Kinds, release(kinds, c),
           \A k \in Kinds : Holds(k, place) <=> Holds(k, thread[c]) /\ k \notin kinds
    PROVE  SlotsOK'
<1>1. \A d \in Connections : thread'[d] = IF d = c THEN place ELSE thread[d]
  BY GotoPlaces
<1>2. \A k \in Kinds, d \in Connections :
          <<k, d>> \in leases' <=> <<k, d>> \in leases /\ ~ (k \in kinds /\ d = c)
  BY DEF release
<1>3. \A k \in Kinds, d \in Connections : <<k, d>> \in leases' <=> Holds(k, thread'[d])
  BY <1>1, <1>2 DEF SlotsOK
<1>4. leases' \subseteq leases /\ leases' \subseteq Kinds \X Connections
  BY DEF release, SlotsOK
<1>5. DOMAIN slots' = Kinds
      /\ \A k \in Kinds : slots'[k] =
            slots[k] + IF k \in kinds /\ <<k, c>> \in leases THEN 1 ELSE 0
  BY DEF release, SlotsOK
<1>6. ASSUME NEW k \in Kinds
      PROVE  slots'[k] \in Nat /\ slots'[k] + Cardinality(Taken(k)') = Limits[k]
  <2>1. IsFiniteSet(Taken(k)) /\ Cardinality(Taken(k)) \in Nat
        /\ slots[k] \in Nat /\ slots[k] + Cardinality(Taken(k)) = Limits[k]
    BY TakenFinite DEF SlotsOK
  <2>2. CASE k \in kinds /\ <<k, c>> \in leases
    <3>1. Taken(k)' = Taken(k) \ {<<k, c>>} /\ <<k, c>> \in Taken(k)
      BY <1>2, <1>4, <2>2 DEF Taken, release, SlotsOK
    <3>2. Cardinality(Taken(k) \ {<<k, c>>}) = Cardinality(Taken(k)) - 1
      BY <2>1, <3>1, FS_RemoveElement
    <3>3. slots'[k] = slots[k] + 1
      BY <1>5, <2>2
    <3>. QED
      BY <2>1, <3>1, <3>2, <3>3
  <2>3. CASE ~(k \in kinds /\ <<k, c>> \in leases)
    <3>1. Taken(k)' = Taken(k)
      BY <2>3 DEF Taken, release, SlotsOK
    <3>2. slots'[k] = slots[k]
      BY <1>5, <2>1, <2>3
    <3>. QED
      BY <2>1, <3>1, <3>2
  <2>. QED
    BY <2>2, <2>3
<1>7. \A k \in Kinds : Limits[k]' = Limits[k]
  OBVIOUS
<1>. QED
  BY <1>3, <1>4, <1>5, <1>6, <1>7 DEF SlotsOK

\* A thread that ends gives back all that it holds.
LEMMA EndsKeepsSlots ==
    ASSUME SlotsOK, DOMAIN thread = Connections, NEW c \in Connections, Ends(c)
    PROVE  SlotsOK'
<1>1. Goto(c, "ended") /\ release(Kinds, c)
  BY DEF Ends, SlotsOK
<1>2. \A k \in Kinds : Holds(k, "ended") <=> Holds(k, thread[c]) /\ k \notin Kinds
  BY DEF Holds
<1>. QED
  BY <1>1, <1>2, ReleaseKeeps

----------------------------------------------------------------------------
(* What a step of one thread leaves of the rest.                            *)

Typed ==
    /\ client \in [Exchanges -> ClientStages]
    /\ DOMAIN thread = Connections
    /\ reservation \in [Exchanges -> Reservations]
    /\ gate \in Connections \cup {Nobody}
    /\ lapsed \subseteq Exchanges
    /\ DOMAIN dispatched = Exchanges

USE DEF ClientStages, Reservations

LEMMA InvariantParts ==
    TransportInv <=> Typed /\ ExchangesOK /\ SlotsOK /\ GateOK /\ AuthorityOK
BY LimitsKinds DEF TransportInv, TransportTypeOK, Typed, SlotsOK

\* Only the exchange of the connection is concerned.
LEMMA ExchangeMoves ==
    ASSUME ExchangesOK, Typed, NEW c \in Connections, NEW place, Goto(c, place),
           \A x \in Exchanges : x # c[1] =>
              client'[x] = client[x] /\ reservation'[x] = reservation[x],
           dispatched' = dispatched,
           ThreadOK(c)', ExchangeOK(c[1])',
           place \in Claimed => \/ thread[c] \in Claimed
                                \/ \A d \in Connections : d[1] = c[1] => thread[d] \notin Claimed
    PROVE  ExchangesOK'
<1>1. \A d \in Connections : thread'[d] = IF d = c THEN place ELSE thread[d]
  BY GotoPlaces DEF Typed
<1>2. \A d \in Connections : ThreadOK(d)'
  BY <1>1 DEF ExchangesOK, ThreadOK
<1>3. ASSUME NEW x \in Exchanges, x # c[1]
      PROVE  ExchangeOK(x)'
  <2>1. \A d \in Connections : d[1] = x => thread'[d] = thread[d]
    BY <1>1, <1>3
  <2>2. Fresh(x) => Fresh(x)'
    BY <2>1 DEF Fresh
  <2>3. thread'[<<x, "response">>] = thread[<<x, "response">>]
        /\ thread'[<<x, "request">>] = thread[<<x, "request">>]
    BY <2>1, <1>3, ConnectionKinds
  <2>. QED
    BY <1>3, <2>2, <2>3 DEF ExchangesOK, ExchangeOK
<1>4. \A d, f \in Connections :
          thread'[d] \in Claimed /\ thread'[f] \in Claimed /\ d[1] = f[1] => d = f
  BY <1>1 DEF ExchangesOK
<1>. QED
  BY <1>2, <1>3, <1>4 DEF ExchangesOK

LEMMA GateStays ==
    ASSUME GateOK, Typed, NEW c \in Connections, NEW place, Goto(c, place), gate' = gate,
           place # "dispatching", thread[c] # "dispatching"
    PROVE  GateOK'
<1>1. \A d \in Connections : thread'[d] = IF d = c THEN place ELSE thread[d]
  BY GotoPlaces DEF Typed
<1>. QED
  BY <1>1 DEF GateOK

\* Who is at work, works under the authority.
LEMMA AtWorkUnderLock ==
    ASSUME AuthorityOK, NEW c \in Connections,
           thread[c] \notin {"none", "ended"} \/ process = "serving"
    PROVE  lock
BY DEF AuthorityOK, Drained

LEMMA AuthorityStays ==
    ASSUME AuthorityOK, NEW c \in Connections, lock' = lock,
           thread[c] \notin {"none", "ended"} \/ process = "serving"
    PROVE  AuthorityOK'
BY AtWorkUnderLock DEF AuthorityOK

LEMMA ClientFailsTyped ==
    ASSUME Typed, NEW c \in Connections, Dropped(c) \/ client' = client
    PROVE  /\ client' \in [Exchanges -> ClientStages]
           /\ \A x \in Exchanges : x # c[1] => client'[x] = client[x]
           /\ client'[c[1]] = client[c[1]] \/ client'[c[1]] = "failed"
BY ConnectionKinds DEF Typed, Dropped, ClientFails

\* The end of a thread, and perhaps of its client.
LEMMA EndsKeepsExchanges ==
    ASSUME ExchangesOK, Typed, NEW c \in Connections, Ends(c),
           Dropped(c) \/ client' = client, thread[c] # "ended", dispatched' = dispatched
    PROVE  /\ ExchangesOK'
           /\ client' \in [Exchanges -> ClientStages]
           /\ reservation' \in [Exchanges -> Reservations]
           /\ DOMAIN thread' = Connections
<1>. DEFINE e == c[1]
<1>1. Goto(c, "ended") /\ e \in Exchanges /\ c = <<e, c[2]>>
  BY ConnectionKinds DEF Ends
<1>2. \A d \in Connections : thread'[d] = IF d = c THEN "ended" ELSE thread[d]
  BY <1>1, GotoPlaces DEF Typed
<1>3. /\ reservation' \in [Exchanges -> Reservations]
      /\ \A x \in Exchanges : x # e => reservation'[x] = reservation[x]
      /\ reservation'[e] = IF c[2] = "response" THEN "none" ELSE reservation[e]
  BY <1>1 DEF Ends, Typed
<1>4. /\ client' \in [Exchanges -> ClientStages]
      /\ \A x \in Exchanges : x # e => client'[x] = client[x]
      /\ client'[e] = client[e] \/ client'[e] = "failed"
  BY ClientFailsTyped
<1>5. ThreadOK(c)'
  BY <1>2 DEF ThreadOK, Before, OnResponse, OnRequest, Served
<1>6. ExchangeOK(e)'
  <2>1. ExchangeOK(e) /\ <<e, "response">> \in Connections /\ <<e, "request">> \in Connections
    BY <1>1, ConnectionKinds DEF ExchangesOK
  <2>2. thread'[<<e, "response">>] =
            IF c[2] = "response" THEN "ended" ELSE thread[<<e, "response">>]
    BY <1>1, <1>2, <2>1
  <2>3. thread'[<<e, "request">>] \in {thread[<<e, "request">>], "ended"}
    BY <1>2, <2>1
  <2>4. Fresh(e) => Fresh(e)'
    BY <1>2 DEF Fresh, Claimed
  <2>. QED
    BY <1>3, <1>4, <2>1, <2>2, <2>3, <2>4 DEF ExchangeOK, Before
<1>7. DOMAIN thread' = Connections
  BY <1>1, GotoPlaces DEF Typed
<1>8. "ended" \notin Claimed
  BY DEF Claimed
<1>. QED
  BY <1>1, <1>3, <1>4, <1>5, <1>6, <1>7, <1>8, ExchangeMoves

LEMMA MoveFacts ==
    ASSUME ExchangesOK, Typed, NEW c \in Connections, NEW place, Goto(c, place),
           dispatched' = dispatched
    PROVE  /\ c[1] \in Exchanges /\ c = <<c[1], c[2]>>
           /\ thread'[c] = place
           /\ c[2] = "response" =>
                 /\ thread'[<<c[1], "response">>] = place
                 /\ thread[<<c[1], "response">>] = thread[c]
                 /\ thread'[<<c[1], "request">>] = thread[<<c[1], "request">>]
           /\ IsRequest(c) =>
                 /\ thread'[<<c[1], "response">>] = thread[<<c[1], "response">>]
                 /\ thread'[<<c[1], "request">>] = thread[<<c[1], "request">>]
                    \/ (c[2] = "request" /\ thread'[<<c[1], "request">>] = place
                        /\ thread[<<c[1], "request">>] = thread[c])
           /\ c[1] \notin Strays /\ IsRequest(c) => thread[<<c[1], "request">>] = thread[c]
                                                 /\ thread'[<<c[1], "request">>] = place
           /\ place \notin Claimed /\ Fresh(c[1]) => Fresh(c[1])'
           /\ ThreadOK(c) /\ ExchangeOK(c[1])
           /\ c[2] = "response" <=> ~IsRequest(c)
<1>1. \A d \in Connections : thread'[d] = IF d = c THEN place ELSE thread[d]
  BY GotoPlaces DEF Typed
<1>2. c[1] \in Exchanges /\ c = <<c[1], c[2]>> /\ (c[2] = "response" <=> ~IsRequest(c))
      /\ <<c[1], "response">> \in Connections /\ <<c[1], "request">> \in Connections
      /\ (c[1] \notin Strays => c[2] # "stray")
  BY ConnectionKinds
<1>3. place \notin Claimed /\ Fresh(c[1]) => Fresh(c[1])'
  BY <1>1 DEF Fresh
<1>. QED
  BY <1>1, <1>2, <1>3 DEF ExchangesOK, IsRequest

LEMMA EndsKeeps ==
    ASSUME TransportInv, NEW c \in Connections, Ends(c), Dropped(c) \/ client' = client,
           thread[c] \notin {"none", "ended", "dispatching"},
           UNCHANGED <<gate, lapsed, lock, dispatched>>
    PROVE  TransportInv'
<1>1. Typed /\ ExchangesOK /\ SlotsOK /\ GateOK /\ AuthorityOK
  BY InvariantParts
<1>2. ExchangesOK' /\ Typed'
  BY <1>1, EndsKeepsExchanges DEF Typed
<1>3. SlotsOK'
  BY <1>1, EndsKeepsSlots DEF Typed
<1>4. GateOK'
  BY <1>1, GateStays DEF Ends
<1>5. AuthorityOK'
  BY <1>1, AuthorityStays
<1>6. TransportInv' <=> Typed' /\ ExchangesOK' /\ SlotsOK' /\ GateOK' /\ AuthorityOK'
  BY InvariantParts, PTL
<1>. QED
  BY <1>2, <1>3, <1>4, <1>5, <1>6

\* A step that goes on: what is left to show is what is particular to it.
LEMMA MoveKeeps ==
    ASSUME TransportInv, NEW c \in Connections, NEW place, Goto(c, place),
           thread[c] \notin {"ended", "dispatching"}, place # "dispatching",
           thread[c] # "none" \/ process = "serving",
           UNCHANGED <<gate, lapsed, lock, dispatched>>,
           client' \in [Exchanges -> ClientStages],
           reservation' \in [Exchanges -> Reservations],
           \A x \in Exchanges : x # c[1] =>
              client'[x] = client[x] /\ reservation'[x] = reservation[x],
           ThreadOK(c)', ExchangeOK(c[1])', SlotsOK',
           place \in Claimed => \/ thread[c] \in Claimed
                                \/ \A d \in Connections : d[1] = c[1] => thread[d] \notin Claimed
    PROVE  TransportInv'
<1>1. Typed /\ ExchangesOK /\ SlotsOK /\ GateOK /\ AuthorityOK
  BY InvariantParts
<1>2. ExchangesOK'
  BY <1>1, ExchangeMoves
<1>3. Typed'
  BY <1>1, GotoPlaces DEF Typed
<1>4. GateOK'
  BY <1>1, GateStays
<1>5. AuthorityOK'
  BY <1>1, AuthorityStays
<1>6. TransportInv' <=> Typed' /\ ExchangesOK' /\ SlotsOK' /\ GateOK' /\ AuthorityOK'
  BY InvariantParts, PTL
<1>. QED
  BY <1>2, <1>3, <1>4, <1>5, <1>6

LEMMA AcceptKeeps ==
    ASSUME TransportInv, NEW c \in Connections, _accept_loop(c)
    PROVE  TransportInv'
<1>1. Typed /\ ExchangesOK /\ SlotsOK /\ GateOK /\ AuthorityOK
  BY InvariantParts
<1>2. thread[c] = "none" /\ process = "serving" /\ Wanted(c)
      /\ UNCHANGED <<gate, lapsed, lock, dispatched, reservation>>
  BY DEF _accept_loop
<1>3. CASE Free("connections")
  <2>1. Goto(c, "accepted") /\ acquire("connections", c)
        /\ client' = IF c[2] = "response" THEN [client EXCEPT ![c[1]] = "reserving"] ELSE client
    BY <1>3 DEF _accept_loop
  <2>2. SlotsOK'
    <3>1. /\ "connections" \in Kinds /\ ~Holds("connections", thread[c])
          /\ \A k \in Kinds : Holds(k, "accepted") <=> Holds(k, thread[c]) \/ k = "connections"
      BY <1>2 DEF Holds, Kinds
    <3>. QED
      BY <1>1, <1>3, <2>1, <3>1, AcquireKeeps DEF Typed
  <2>3. ThreadOK(c)' /\ ExchangeOK(c[1])'
    BY <1>1, <1>2, <2>1, MoveFacts
       DEF Typed, ThreadOK, ExchangeOK, Before, OnResponse, OnRequest, Served, Claimed
  <2>4. client' \in [Exchanges -> ClientStages]
        /\ \A x \in Exchanges : x # c[1] => client'[x] = client[x]
    BY <1>1, <2>1 DEF Typed
  <2>. QED
    BY <1>1, <1>2, <2>1, <2>2, <2>3, <2>4, MoveKeeps DEF Claimed, Typed
<1>4. CASE ~Free("connections")
  <2>1. Goto(c, "ended") /\ Dropped(c) /\ UNCHANGED <<slots, leases>>
    BY <1>4 DEF _accept_loop
  <2>2. SlotsOK'
    <3>1. \A k \in Kinds : Holds(k, "ended") <=> Holds(k, thread[c])
      BY <1>2 DEF Holds, Kinds
    <3>. QED
      BY <1>1, <2>1, <3>1, SlotsStand DEF Typed
  <2>3. client' \in [Exchanges -> ClientStages]
        /\ (\A x \in Exchanges : x # c[1] => client'[x] = client[x])
        /\ (client'[c[1]] = client[c[1]] \/ client'[c[1]] = "failed")
    BY <1>1, <2>1, ClientFailsTyped
  <2>4. ThreadOK(c)' /\ ExchangeOK(c[1])'
    BY <1>1, <1>2, <2>1, <2>3, MoveFacts
       DEF ThreadOK, ExchangeOK, Before, OnResponse, OnRequest, Served, Claimed
  <2>. QED
    BY <1>1, <1>2, <2>1, <2>2, <2>3, <2>4, MoveKeeps DEF Claimed, Typed
<1>. QED
  BY <1>3, <1>4

LEMMA HandshakeKeeps ==
    ASSUME TransportInv, NEW c \in Connections, BeginHandshake(c)
    PROVE  TransportInv'
<1>1. Typed /\ ExchangesOK /\ SlotsOK /\ GateOK /\ AuthorityOK
  BY InvariantParts
<1>2. thread[c] = "accepted" /\ UNCHANGED <<gate, lapsed, lock, dispatched>>
  BY DEF BeginHandshake
<1>3. CASE Free("handshakes")
  <2>1. /\ Goto(c, "handshake")
        /\ acquire("handshakes", c)
        /\ client' = client
        /\ reservation' = reservation
    BY <1>3 DEF BeginHandshake
  <2>2. SlotsOK'
    <3>1. /\ "handshakes" \in Kinds /\ ~Holds("handshakes", thread[c])
          /\ \A k \in Kinds : Holds(k, "handshake") <=> Holds(k, thread[c]) \/ k = "handshakes"
      BY <1>2 DEF Holds, Kinds
    <3>. QED
      BY <1>1, <1>3, <2>1, <3>1, AcquireKeeps DEF Typed
  <2>3. ThreadOK(c)' /\ ExchangeOK(c[1])'
    BY <1>1, <1>2, <1>3, <2>1, MoveFacts
       DEF Typed, ThreadOK, ExchangeOK, Before, OnResponse, OnRequest, Served, Claimed
  <2>4. /\ client' \in [Exchanges -> ClientStages]
        /\ reservation' \in [Exchanges -> Reservations]
        /\ \A x \in Exchanges : x # c[1] =>
              client'[x] = client[x] /\ reservation'[x] = reservation[x]
    BY <1>1, <2>1 DEF Typed
  <2>. QED
    BY <1>1, <1>2, <2>1, <2>2, <2>3, <2>4, MoveKeeps DEF Claimed, Typed
<1>4. CASE ~(Free("handshakes"))
  BY <1>2, <1>4, EndsKeeps DEF BeginHandshake
<1>. QED
  BY <1>3, <1>4

LEMMA AuthenticatedKeeps ==
    ASSUME TransportInv, NEW c \in Connections, FinishHandshake(c)
    PROVE  TransportInv'
<1>1. Typed /\ ExchangesOK /\ SlotsOK /\ GateOK /\ AuthorityOK
  BY InvariantParts
<1>2. thread[c] = "handshake" /\ UNCHANGED <<gate, lapsed, lock, dispatched>>
  BY DEF FinishHandshake
<1>3. /\ Goto(c, "authenticated")
      /\ release({"handshakes"}, c)
      /\ client' = client
      /\ reservation' = reservation
  BY DEF FinishHandshake
<1>4. SlotsOK'
  <2>1. /\ {"handshakes"} \in SUBSET Kinds
        /\ \A k \in Kinds : Holds(k, "authenticated") <=>
            Holds(k, thread[c]) /\ k \notin {"handshakes"}
    BY <1>2 DEF Holds, Kinds
  <2>. QED
    BY <1>1, <1>3, <2>1, ReleaseKeeps DEF Typed
<1>5. ThreadOK(c)' /\ ExchangeOK(c[1])'
  BY <1>1, <1>2, <1>3, MoveFacts
     DEF Typed, ThreadOK, ExchangeOK, Before, OnResponse, OnRequest, Served, Claimed
<1>6. /\ client' \in [Exchanges -> ClientStages]
      /\ reservation' \in [Exchanges -> Reservations]
      /\ \A x \in Exchanges : x # c[1] =>
            client'[x] = client[x] /\ reservation'[x] = reservation[x]
  BY <1>1, <1>3 DEF Typed
<1>. QED
  BY <1>1, <1>2, <1>3, <1>4, <1>5, <1>6, MoveKeeps DEF Claimed, Typed

LEMMA ReserveKeepsInv ==
    ASSUME TransportInv, NEW c \in Connections, Reserve(c)
    PROVE  TransportInv'
<1>1. Typed /\ ExchangesOK /\ SlotsOK /\ GateOK /\ AuthorityOK
  BY InvariantParts
<1>2. c[2] = "response" /\ thread[c] = "authenticated"
      /\ UNCHANGED <<gate, lapsed, lock, dispatched>>
  BY DEF Reserve
<1>3. CASE Free("exchanges") /\ ~Stopping
  <2>1. /\ Goto(c, "reserved")
        /\ acquire("exchanges", c)
        /\ client' = [client EXCEPT ![c[1]] = IF @ = "reserving" THEN "submitting" ELSE @]
        /\ reservation' = [reservation EXCEPT ![c[1]] = "open"]
    BY <1>3 DEF Reserve
  <2>2. SlotsOK'
    <3>1. /\ "exchanges" \in Kinds /\ ~Holds("exchanges", thread[c])
          /\ \A k \in Kinds : Holds(k, "reserved") <=> Holds(k, thread[c]) \/ k = "exchanges"
      BY <1>2 DEF Holds, Kinds
    <3>. QED
      BY <1>1, <1>3, <2>1, <3>1, AcquireKeeps DEF Typed
  <2>3. ThreadOK(c)' /\ ExchangeOK(c[1])'
    BY <1>1, <1>2, <1>3, <2>1, MoveFacts
       DEF Typed, ThreadOK, ExchangeOK, Before, OnResponse, OnRequest, Served, Claimed
  <2>4. /\ client' \in [Exchanges -> ClientStages]
        /\ reservation' \in [Exchanges -> Reservations]
        /\ \A x \in Exchanges : x # c[1] =>
              client'[x] = client[x] /\ reservation'[x] = reservation[x]
    BY <1>1, <2>1 DEF Typed
  <2>. QED
    BY <1>1, <1>2, <2>1, <2>2, <2>3, <2>4, MoveKeeps DEF Claimed, Typed
<1>4. CASE ~(Free("exchanges") /\ ~Stopping)
  BY <1>2, <1>4, EndsKeeps DEF Reserve
<1>. QED
  BY <1>3, <1>4

LEMMA SendKeeps ==
    ASSUME TransportInv, NEW c \in Connections, SendResponse(c)
    PROVE  TransportInv'
<1>1. Typed /\ ExchangesOK /\ SlotsOK /\ GateOK /\ AuthorityOK
  BY InvariantParts
<1>2. c[2] = "response" /\ thread[c] = "reserved" /\ reservation[c[1]] = "answered"
      /\ UNCHANGED <<gate, lapsed, lock, dispatched>>
  BY DEF SendResponse
<1>3. /\ Goto(c, "sending")
      /\ slots' = slots /\ leases' = leases
      /\ client' = [client EXCEPT ![c[1]] = IF @ = "sent" THEN "answered" ELSE @]
      /\ reservation' = reservation
  BY DEF SendResponse
<1>4. SlotsOK'
  <2>1. \A k \in Kinds : Holds(k, "sending") <=> Holds(k, thread[c])
    BY <1>2 DEF Holds, Kinds
  <2>. QED
    BY <1>1, <1>3, <2>1, SlotsStand DEF Typed
<1>5. ThreadOK(c)' /\ ExchangeOK(c[1])'
  BY <1>1, <1>2, <1>3, MoveFacts
     DEF Typed, ThreadOK, ExchangeOK, Before, OnResponse, OnRequest, Served, Claimed
<1>6. /\ client' \in [Exchanges -> ClientStages]
      /\ reservation' \in [Exchanges -> Reservations]
      /\ \A x \in Exchanges : x # c[1] =>
            client'[x] = client[x] /\ reservation'[x] = reservation[x]
  BY <1>1, <1>3 DEF Typed
<1>. QED
  BY <1>1, <1>2, <1>3, <1>4, <1>5, <1>6, MoveKeeps DEF Claimed, Typed

LEMMA DeliveredKeeps ==
    ASSUME TransportInv, NEW c \in Connections, release_delivered(c)
    PROVE  TransportInv'
<1>1. Typed /\ ExchangesOK /\ SlotsOK /\ GateOK /\ AuthorityOK
  BY InvariantParts
<1>2. c[2] = "response" /\ thread[c] = "sending" /\ client[c[1]] = "answered"
      /\ UNCHANGED <<gate, lapsed, lock, dispatched>>
  BY DEF release_delivered
<1>3. /\ Goto(c, "released")
      /\ release({"exchanges", "connections"}, c)
      /\ client' = client
      /\ reservation' = [reservation EXCEPT ![c[1]] = "none"]
  BY DEF release_delivered
<1>4. SlotsOK'
  <2>1. /\ {"exchanges", "connections"} \in SUBSET Kinds
        /\ \A k \in Kinds : Holds(k, "released") <=>
            Holds(k, thread[c]) /\ k \notin {"exchanges", "connections"}
    BY <1>2 DEF Holds, Kinds
  <2>. QED
    BY <1>1, <1>3, <2>1, ReleaseKeeps DEF Typed
<1>5. ThreadOK(c)' /\ ExchangeOK(c[1])'
  BY <1>1, <1>2, <1>3, MoveFacts
     DEF Typed, ThreadOK, ExchangeOK, Before, OnResponse, OnRequest, Served, Claimed
<1>6. /\ client' \in [Exchanges -> ClientStages]
      /\ reservation' \in [Exchanges -> Reservations]
      /\ \A x \in Exchanges : x # c[1] =>
            client'[x] = client[x] /\ reservation'[x] = reservation[x]
  BY <1>1, <1>3 DEF Typed
<1>. QED
  BY <1>1, <1>2, <1>3, <1>4, <1>5, <1>6, MoveKeeps DEF Claimed, Typed

LEMMA CloseKeeps ==
    ASSUME TransportInv, NEW c \in Connections, CloseNotify(c)
    PROVE  TransportInv'
<1>1. Typed /\ ExchangesOK /\ SlotsOK /\ GateOK /\ AuthorityOK
  BY InvariantParts
<1>2. thread[c] = "released" /\ UNCHANGED <<gate, lapsed, lock, dispatched>>
  BY DEF CloseNotify
<1>3. /\ Goto(c, "closed")
      /\ slots' = slots /\ leases' = leases
      /\ client' = [client EXCEPT ![c[1]] = IF @ = "answered" THEN "done" ELSE @]
      /\ reservation' = reservation
  BY DEF CloseNotify
<1>4. SlotsOK'
  <2>1. \A k \in Kinds : Holds(k, "closed") <=> Holds(k, thread[c])
    BY <1>2 DEF Holds, Kinds
  <2>. QED
    BY <1>1, <1>3, <2>1, SlotsStand DEF Typed
<1>5. ThreadOK(c)' /\ ExchangeOK(c[1])'
  BY <1>1, <1>2, <1>3, MoveFacts
     DEF Typed, ThreadOK, ExchangeOK, Before, OnResponse, OnRequest, Served, Claimed
<1>6. /\ client' \in [Exchanges -> ClientStages]
      /\ reservation' \in [Exchanges -> Reservations]
      /\ \A x \in Exchanges : x # c[1] =>
            client'[x] = client[x] /\ reservation'[x] = reservation[x]
  BY <1>1, <1>3 DEF Typed
<1>. QED
  BY <1>1, <1>2, <1>3, <1>4, <1>5, <1>6, MoveKeeps DEF Claimed, Typed

LEMMA AdmitKeeps ==
    ASSUME TransportInv, NEW c \in Connections, Admit(c)
    PROVE  TransportInv'
<1>1. Typed /\ ExchangesOK /\ SlotsOK /\ GateOK /\ AuthorityOK
  BY InvariantParts
<1>2. IsRequest(c) /\ thread[c] = "authenticated"
      /\ UNCHANGED <<gate, lapsed, lock, dispatched>>
  BY DEF Admit
<1>3. CASE Free("handlers") /\ reservation[c[1]] = "open" /\ ~Stopping
  <2>1. /\ Goto(c, "admitted")
        /\ acquire("handlers", c)
        /\ client' = client
        /\ reservation' = reservation
    BY <1>3 DEF Admit
  <2>2. SlotsOK'
    <3>1. /\ "handlers" \in Kinds /\ ~Holds("handlers", thread[c])
          /\ \A k \in Kinds : Holds(k, "admitted") <=> Holds(k, thread[c]) \/ k = "handlers"
      BY <1>2 DEF Holds, Kinds
    <3>. QED
      BY <1>1, <1>3, <2>1, <3>1, AcquireKeeps DEF Typed
  <2>3. ThreadOK(c)' /\ ExchangeOK(c[1])'
    BY <1>1, <1>2, <1>3, <2>1, MoveFacts
       DEF Typed, ThreadOK, ExchangeOK, Before, OnResponse, OnRequest, Served, Claimed
  <2>4. /\ client' \in [Exchanges -> ClientStages]
        /\ reservation' \in [Exchanges -> Reservations]
        /\ \A x \in Exchanges : x # c[1] =>
              client'[x] = client[x] /\ reservation'[x] = reservation[x]
    BY <1>1, <2>1 DEF Typed
  <2>. QED
    BY <1>1, <1>2, <2>1, <2>2, <2>3, <2>4, MoveKeeps DEF Claimed, Typed
<1>4. CASE ~(Free("handlers") /\ reservation[c[1]] = "open" /\ ~Stopping)
  BY <1>2, <1>4, EndsKeeps DEF Admit
<1>. QED
  BY <1>3, <1>4

LEMMA ReceiveKeeps ==
    ASSUME TransportInv, NEW c \in Connections, ReceiveFrame(c)
    PROVE  TransportInv'
<1>1. Typed /\ ExchangesOK /\ SlotsOK /\ GateOK /\ AuthorityOK
  BY InvariantParts
<1>2. IsRequest(c) /\ thread[c] = "admitted" /\ UNCHANGED <<gate, lapsed, lock, dispatched>>
  BY DEF ReceiveFrame
<1>3. /\ Goto(c, "received")
      /\ slots' = slots /\ leases' = leases
      /\ client' = IF c[2] = "request" THEN [client EXCEPT ![c[1]] = "sent"] ELSE client
      /\ reservation' = reservation
  BY DEF ReceiveFrame
<1>4. SlotsOK'
  <2>1. \A k \in Kinds : Holds(k, "received") <=> Holds(k, thread[c])
    BY <1>2 DEF Holds, Kinds
  <2>. QED
    BY <1>1, <1>3, <2>1, SlotsStand DEF Typed
<1>5. ThreadOK(c)' /\ ExchangeOK(c[1])'
  BY <1>1, <1>2, <1>3, MoveFacts
     DEF Typed, ThreadOK, ExchangeOK, Before, OnResponse, OnRequest, Served, Claimed
<1>6. /\ client' \in [Exchanges -> ClientStages]
      /\ reservation' \in [Exchanges -> Reservations]
      /\ \A x \in Exchanges : x # c[1] =>
            client'[x] = client[x] /\ reservation'[x] = reservation[x]
  BY <1>1, <1>3 DEF Typed
<1>. QED
  BY <1>1, <1>2, <1>3, <1>4, <1>5, <1>6, MoveKeeps DEF Claimed, Typed

LEMMA ReleaseRequestKeeps ==
    ASSUME TransportInv, NEW c \in Connections, ReleaseRequest(c)
    PROVE  TransportInv'
<1>1. Typed /\ ExchangesOK /\ SlotsOK /\ GateOK /\ AuthorityOK
  BY InvariantParts
<1>2. thread[c] = "answering" /\ UNCHANGED <<gate, lapsed, lock, dispatched>>
  BY DEF ReleaseRequest
<1>3. /\ Goto(c, "answered")
      /\ release({"handlers", "connections"}, c)
      /\ client' = client
      /\ reservation' = reservation
  BY DEF ReleaseRequest
<1>4. SlotsOK'
  <2>1. /\ {"handlers", "connections"} \in SUBSET Kinds
        /\ \A k \in Kinds : Holds(k, "answered") <=>
            Holds(k, thread[c]) /\ k \notin {"handlers", "connections"}
    BY <1>2 DEF Holds, Kinds
  <2>. QED
    BY <1>1, <1>3, <2>1, ReleaseKeeps DEF Typed
<1>5. IsRequest(c) /\ ~Fresh(c[1])
  BY <1>1, <1>2 DEF ExchangesOK, ThreadOK, Fresh, OnRequest, Claimed
<1>6. ThreadOK(c)' /\ ExchangeOK(c[1])'
  BY <1>1, <1>2, <1>3, <1>5, MoveFacts
     DEF Typed, ThreadOK, ExchangeOK, Before, OnResponse, OnRequest, Served, Claimed
<1>7. /\ client' \in [Exchanges -> ClientStages]
      /\ reservation' \in [Exchanges -> Reservations]
      /\ \A x \in Exchanges : x # c[1] =>
            client'[x] = client[x] /\ reservation'[x] = reservation[x]
  BY <1>1, <1>3 DEF Typed
<1>. QED
  BY <1>1, <1>2, <1>3, <1>4, <1>6, <1>7, MoveKeeps DEF Claimed, Typed

LEMMA PublishKeeps ==
    ASSUME TransportInv, NEW c \in Connections, Publish(c)
    PROVE  TransportInv'
<1>1. Typed /\ ExchangesOK /\ SlotsOK /\ GateOK /\ AuthorityOK
  BY InvariantParts
<1>2. thread[c] = "answered" /\ UNCHANGED <<gate, lapsed, lock, dispatched>>
  BY DEF Publish
<1>3. /\ Goto(c, "published")
      /\ slots' = slots /\ leases' = leases
      /\ client' = client
      /\ reservation' = [reservation EXCEPT ![c[1]] = IF @ = "claimed" THEN "answered" ELSE @]
  BY DEF Publish
<1>4. SlotsOK'
  <2>1. \A k \in Kinds : Holds(k, "published") <=> Holds(k, thread[c])
    BY <1>2 DEF Holds, Kinds
  <2>. QED
    BY <1>1, <1>3, <2>1, SlotsStand DEF Typed
<1>5. IsRequest(c) /\ ~Fresh(c[1])
  BY <1>1, <1>2 DEF ExchangesOK, ThreadOK, Fresh, OnRequest, Claimed
<1>6. ThreadOK(c)' /\ ExchangeOK(c[1])'
  BY <1>1, <1>2, <1>3, <1>5, MoveFacts
     DEF Typed, ThreadOK, ExchangeOK, Before, OnResponse, OnRequest, Served, Claimed
<1>7. /\ client' \in [Exchanges -> ClientStages]
      /\ reservation' \in [Exchanges -> Reservations]
      /\ \A x \in Exchanges : x # c[1] =>
            client'[x] = client[x] /\ reservation'[x] = reservation[x]
  BY <1>1, <1>3 DEF Typed
<1>. QED
  BY <1>1, <1>2, <1>3, <1>4, <1>6, <1>7, MoveKeeps DEF Claimed, Typed

LEMMA AbandonKeeps ==
    ASSUME TransportInv, NEW c \in Connections, Abandon(c) \/ ThreadEnds(c)
    PROVE  TransportInv'
BY EndsKeeps DEF Abandon, ThreadEnds

LEMMA ClaimKeeps ==
    ASSUME TransportInv, NEW c \in Connections, Claim(c)
    PROVE  TransportInv'
<1>1. Typed /\ ExchangesOK /\ SlotsOK /\ GateOK /\ AuthorityOK
  BY InvariantParts
<1>2. IsRequest(c) /\ thread[c] = "received" /\ UNCHANGED <<gate, lapsed, lock, dispatched>>
  BY DEF Claim
<1>3. CASE reservation[c[1]] = "open" /\ c[1] \notin lapsed /\ ~Stopping
  <2>1. /\ Goto(c, "claimed") /\ slots' = slots /\ leases' = leases /\ client' = client
        /\ reservation' = [reservation EXCEPT ![c[1]] = "claimed"]
    BY <1>3 DEF Claim
  <2>2. SlotsOK'
    <3>1. \A k \in Kinds : Holds(k, "claimed") <=> Holds(k, thread[c])
      BY <1>2 DEF Holds, Kinds
    <3>. QED
      BY <1>1, <2>1, <3>1, SlotsStand DEF Typed
  <2>3. Fresh(c[1]) /\ thread[<<c[1], "response">>] \in {"reserved", "sending"}
    BY <1>1, <1>3, ConnectionKinds DEF ExchangesOK, ExchangeOK
  <2>4. /\ reservation' \in [Exchanges -> Reservations]
        /\ \A x \in Exchanges : x # c[1] => reservation'[x] = reservation[x]
        /\ reservation'[c[1]] = "claimed"
    BY <1>1, <2>1, ConnectionKinds DEF Typed
  <2>5. ThreadOK(c)' /\ ExchangeOK(c[1])'
    <3>1. dispatched[c[1]] = 0 /\ dispatched' = dispatched
      BY <1>2, <2>3 DEF Fresh
    <3>2. thread'[c] = "claimed" /\ ExchangeOK(c[1])
          /\ thread'[<<c[1], "response">>] = thread[<<c[1], "response">>]
      BY <1>1, <1>2, <2>1, MoveFacts
    <3>3. ThreadOK(c)'
      BY <1>2, <3>1, <3>2 DEF ThreadOK, Before, OnResponse, OnRequest, Served, IsRequest
    <3>4. client'[c[1]] \notin {"answered", "done"}
      BY <2>1, <3>1, <3>2 DEF ExchangeOK
    <3>. QED
      BY <2>3, <2>4, <3>1, <3>2, <3>3, <3>4 DEF ExchangeOK, Before
  <2>6. \A d \in Connections : d[1] = c[1] => thread[d] \notin Claimed
    BY <2>3 DEF Fresh
  <2>. QED
    BY <1>1, <1>2, <2>1, <2>2, <2>4, <2>5, <2>6, MoveKeeps DEF Typed
<1>4. CASE ~(reservation[c[1]] = "open" /\ c[1] \notin lapsed /\ ~Stopping)
  BY <1>2, <1>4, EndsKeeps DEF Claim
<1>. QED
  BY <1>3, <1>4

LEMMA DispatchKeeps ==
    ASSUME TransportInv, NEW c \in Connections, BeginDispatch(c)
    PROVE  TransportInv'
<1>1. Typed /\ ExchangesOK /\ SlotsOK /\ GateOK /\ AuthorityOK
  BY InvariantParts
<1>2. /\ thread[c] = "claimed" /\ gate = Nobody /\ gate' = c /\ Goto(c, "dispatching")
      /\ dispatched' = [dispatched EXCEPT ![c[1]] = @ + 1]
      /\ UNCHANGED <<client, slots, leases, reservation, lapsed, process, lock>>
  BY DEF BeginDispatch
<1>3. \A d \in Connections : thread'[d] = IF d = c THEN "dispatching" ELSE thread[d]
  BY <1>1, <1>2, GotoPlaces DEF Typed
<1>4. /\ c[1] \in Exchanges /\ dispatched[c[1]] = 0 /\ ~Fresh(c[1])
      /\ \A d \in Connections : d[1] = c[1] /\ d # c => thread[d] \notin Claimed
  BY <1>1, <1>2, ConnectionKinds DEF ExchangesOK, ThreadOK, Fresh, Claimed
<1>5. /\ DOMAIN dispatched' = Exchanges /\ dispatched'[c[1]] = 1
      /\ \A x \in Exchanges : x # c[1] => dispatched'[x] = dispatched[x]
  BY <1>1, <1>2, <1>4 DEF Typed
<1>6. SlotsOK'
  <2>1. \A k \in Kinds : Holds(k, "dispatching") <=> Holds(k, thread[c])
    BY <1>2 DEF Holds, Kinds
  <2>. QED
    BY <1>1, <1>2, <2>1, SlotsStand DEF Typed
<1>7. ExchangesOK'
  <2>1. ASSUME NEW d \in Connections
        PROVE  ThreadOK(d)'
    <3>1. ThreadOK(d) /\ ThreadOK(c) /\ d[1] \in Exchanges
      BY <1>1, ConnectionKinds DEF ExchangesOK
    <3>2. CASE d = c
      BY <1>2, <1>3, <1>5, <3>1, <3>2 DEF ThreadOK, Before, OnResponse, OnRequest, Served
    <3>3. CASE d # c /\ d[1] = c[1]
      BY <1>3, <1>4, <3>1, <3>3 DEF ThreadOK, Claimed, Served
    <3>4. CASE d # c /\ d[1] # c[1]
      BY <1>3, <1>5, <3>1, <3>4 DEF ThreadOK
    <3>. QED
      BY <3>2, <3>3, <3>4
  <2>2. ASSUME NEW x \in Exchanges
        PROVE  ExchangeOK(x)'
    <3>1. ExchangeOK(x) /\ <<x, "response">> \in Connections /\ <<x, "request">> \in Connections
          /\ c = <<c[1], c[2]>>
      BY <1>1, ConnectionKinds DEF ExchangesOK
    <3>2. CASE x = c[1]
      <4>1. reservation[x] # "open" /\ reservation[x] # "answered"
            /\ client[x] \notin {"answered", "done"} /\ thread[<<x, "response">>] \notin Before
        BY <1>4, <3>1, <3>2 DEF ExchangeOK
      <4>2. thread'[<<x, "response">>] \in {thread[<<x, "response">>], "dispatching"}
            /\ (thread[<<x, "response">>] \in {"reserved", "sending"} =>
                   thread'[<<x, "response">>] = thread[<<x, "response">>])
        BY <1>2, <1>3, <3>1
      <4>. QED
        BY <1>2, <1>5, <3>1, <3>2, <4>1, <4>2 DEF ExchangeOK, Before
    <3>3. CASE x # c[1]
      <4>1. \A d \in Connections : d[1] = x => thread'[d] = thread[d]
        BY <1>3, <3>3
      <4>2. Fresh(x) => Fresh(x)'
        BY <1>5, <3>3, <4>1 DEF Fresh
      <4>. QED
        BY <1>2, <1>5, <3>1, <3>3, <4>1, <4>2 DEF ExchangeOK
    <3>. QED
      BY <3>2, <3>3
  <2>3. \A d, f \in Connections :
            thread'[d] \in Claimed /\ thread'[f] \in Claimed /\ d[1] = f[1] => d = f
    BY <1>1, <1>2, <1>3 DEF ExchangesOK, Claimed
  <2>. QED
    BY <2>1, <2>2, <2>3 DEF ExchangesOK
<1>8. GateOK'
  BY <1>1, <1>2, <1>3, ConnectionKinds DEF GateOK
<1>9. AuthorityOK'
  BY <1>1, <1>2, AuthorityStays
<1>10. Typed'
  BY <1>1, <1>2, <1>5, GotoPlaces DEF Typed
<1>11. TransportInv' <=> Typed' /\ ExchangesOK' /\ SlotsOK' /\ GateOK' /\ AuthorityOK'
  BY InvariantParts, PTL
<1>. QED
  BY <1>6, <1>7, <1>8, <1>9, <1>10, <1>11

LEMMA ReturnKeeps ==
    ASSUME TransportInv, NEW c \in Connections, DispatchReturns(c)
    PROVE  TransportInv'
<1>1. Typed /\ ExchangesOK /\ SlotsOK /\ GateOK /\ AuthorityOK
  BY InvariantParts
<1>2. gate = c /\ gate' = Nobody /\ thread[c] = "dispatching"
      /\ UNCHANGED <<client, lapsed, lock, dispatched>>
  BY <1>1 DEF DispatchReturns, GateOK
<1>3. ASSUME NEW place, Goto(c, place), place # "dispatching"
      PROVE  GateOK' /\ AuthorityOK' /\ DOMAIN thread' = Connections
  <2>1. \A d \in Connections : thread'[d] = IF d = c THEN place ELSE thread[d]
    BY <1>1, <1>3, GotoPlaces DEF Typed
  <2>2. GateOK'
    BY <1>1, <1>2, <1>3, <2>1, ConnectionKinds DEF GateOK
  <2>. QED
    BY <1>1, <1>2, <1>3, <2>2, AuthorityStays, GotoPlaces DEF Typed
<1>4. CASE Goto(c, "answering") /\ UNCHANGED <<slots, leases, reservation, process>>
  <2>1. SlotsOK'
    <3>1. \A k \in Kinds : Holds(k, "answering") <=> Holds(k, thread[c])
      BY <1>2 DEF Holds, Kinds
    <3>. QED
      BY <1>1, <1>4, <3>1, SlotsStand DEF Typed
  <2>2. IsRequest(c) /\ ~Fresh(c[1])
    BY <1>1, <1>2 DEF ExchangesOK, ThreadOK, Fresh, OnRequest, Claimed
  <2>3. ThreadOK(c)' /\ ExchangeOK(c[1])'
    BY <1>1, <1>2, <1>4, <2>2, MoveFacts
       DEF ThreadOK, ExchangeOK, Before, OnResponse, OnRequest, Served, Claimed
  <2>4. ExchangesOK'
    BY <1>1, <1>2, <1>4, <2>3, ExchangeMoves DEF Claimed
  <2>5. Typed' /\ GateOK' /\ AuthorityOK'
    BY <1>1, <1>2, <1>3, <1>4 DEF Typed
  <2>6. TransportInv' <=> Typed' /\ ExchangesOK' /\ SlotsOK' /\ GateOK' /\ AuthorityOK'
    BY InvariantParts, PTL
  <2>. QED
    BY <2>1, <2>4, <2>5, <2>6
<1>5. CASE Ends(c) /\ _record_fatal
  <2>1. ExchangesOK' /\ SlotsOK'
        /\ reservation' \in [Exchanges -> Reservations]
    BY <1>1, <1>2, <1>5, EndsKeepsExchanges, EndsKeepsSlots DEF Typed
  <2>2. Typed' /\ GateOK' /\ AuthorityOK'
    BY <1>1, <1>2, <1>3, <1>5, <2>1 DEF Typed, Ends
  <2>3. TransportInv' <=> Typed' /\ ExchangesOK' /\ SlotsOK' /\ GateOK' /\ AuthorityOK'
    BY InvariantParts, PTL
  <2>. QED
    BY <2>1, <2>2, <2>3
<1>. QED
  BY <1>4, <1>5 DEF DispatchReturns

\* A step of the process, of the time or of a client alone.
LEMMA ThreadsRest ==
    ASSUME TransportInv, UNCHANGED <<thread, slots, leases, reservation, gate, dispatched>>,
           client' = client \/ \E e \in Exchanges : ClientFails(e),
           lapsed' \subseteq Exchanges, AuthorityOK'
    PROVE  TransportInv'
<1>1. Typed /\ ExchangesOK /\ SlotsOK /\ GateOK
  BY InvariantParts
<1>2. /\ client' \in [Exchanges -> ClientStages]
      /\ \A x \in Exchanges : client'[x] = client[x] \/ client'[x] = "failed"
  BY <1>1 DEF Typed, ClientFails
<1>3. ExchangesOK'
  <2>1. \A c \in Connections : ThreadOK(c)'
    BY <1>1 DEF ExchangesOK, ThreadOK
  <2>2. \A x \in Exchanges : Fresh(x) => Fresh(x)'
    BY DEF Fresh
  <2>3. \A x \in Exchanges : ExchangeOK(x)'
    BY <1>1, <1>2, <2>2 DEF ExchangesOK, ExchangeOK
  <2>. QED
    BY <1>1, <2>1, <2>3 DEF ExchangesOK
<1>4. Typed' /\ SlotsOK' /\ GateOK'
  BY <1>1, <1>2 DEF Typed, SlotsOK, Taken, GateOK
<1>5. TransportInv' <=> Typed' /\ ExchangesOK' /\ SlotsOK' /\ GateOK' /\ AuthorityOK'
  BY InvariantParts, PTL
<1>. QED
  BY <1>3, <1>4, <1>5

LEMMA RestKeeps ==
    ASSUME TransportInv,
           \/ \E c \in Connections : _watch_dispatch(c)
           \/ \E e \in Exchanges : Lapse(e) \/ ClientTimesOut(e)
           \/ RequestStop \/ Stop \/ StopTimesOut
    PROVE  TransportInv'
<1>1. AuthorityOK /\ lapsed \subseteq Exchanges
  BY InvariantParts DEF Typed
<1>2. ASSUME NEW c \in Connections, _watch_dispatch(c)
      PROVE  TransportInv'
  BY <1>1, <1>2, ThreadsRest DEF _watch_dispatch, AuthorityOK, _record_fatal, Drained
<1>3. ASSUME NEW e \in Exchanges, Lapse(e)
      PROVE  TransportInv'
  BY <1>1, <1>3, ThreadsRest DEF Lapse, AuthorityOK, Drained
<1>4. ASSUME NEW e \in Exchanges, ClientTimesOut(e)
      PROVE  TransportInv'
  BY <1>1, <1>4, ThreadsRest DEF ClientTimesOut, AuthorityOK, Drained
<1>5. CASE RequestStop
  BY <1>1, <1>5, ThreadsRest DEF RequestStop, AuthorityOK, Drained
<1>6. CASE Stop
  BY <1>1, <1>6, ThreadsRest DEF Stop, AuthorityOK, Drained
<1>7. CASE StopTimesOut
  BY <1>1, <1>7, ThreadsRest DEF StopTimesOut, AuthorityOK, Drained
<1>. QED
  BY <1>2, <1>3, <1>4, <1>5, <1>6, <1>7

\* With the process all its threads end, and with them what they held.
NothingLeft ==
    slots = Limits /\ leases = {} /\ \A c \in Connections : thread[c] \in {"none", "ended"}

LEMMA NothingHeld == NothingLeft => SlotsOK
<1>. SUFFICES ASSUME NothingLeft
              PROVE  SlotsOK
  OBVIOUS
<1>. USE DEF NothingLeft
<1>1. \A k \in Kinds, c \in Connections : ~Holds(k, thread[c])
  BY DEF Holds
<1>2. \A k \in Kinds : Taken(k) = {}
  BY DEF Taken
<1>3. Cardinality({}) = 0
  BY FS_EmptySet
<1>4. \A k \in Kinds : slots[k] \in Nat /\ slots[k] + Cardinality(Taken(k)) = Limits[k]
  BY <1>2, <1>3, LimitsKinds
<1>. QED
  BY <1>1, <1>4, LimitsKinds DEF SlotsOK

LEMMA ExitKeeps ==
    ASSUME TransportInv, HardExit
    PROVE  TransportInv'
<1>1. Typed /\ ExchangesOK
  BY InvariantParts
<1>2. /\ gate' = Nobody /\ lock' = FALSE /\ process' = "dead" /\ dispatched' = dispatched
      /\ thread' = [c \in Connections |-> "ended"]
      /\ slots' = Limits /\ leases' = {} /\ lapsed' = lapsed
      /\ reservation' = [e \in Exchanges |-> "none"]
      /\ client' = [e \in Exchanges |-> IF client[e] \in {"start", "done"}
                                        THEN client[e] ELSE "failed"]
  BY DEF HardExit
<1>3. SlotsOK'
  <2>1. NothingLeft'
    BY <1>2 DEF NothingLeft, Limits
  <2>2. NothingLeft' => SlotsOK'
    BY NothingHeld, PTL
  <2>. QED
    BY <2>1, <2>2
<1>4. ExchangesOK'
  <2>1. \A c \in Connections : ThreadOK(c)'
    BY <1>2 DEF ThreadOK, Before, OnResponse, OnRequest, Served
  <2>2. \A e \in Exchanges : ExchangeOK(e)'
    <3>1. \A e \in Exchanges : thread'[<<e, "response">>] = "ended" /\ thread'[<<e, "request">>] = "ended"
      BY <1>2, ConnectionKinds
    <3>. QED
      BY <1>1, <1>2, <3>1 DEF ExchangesOK, ExchangeOK, Before
  <2>3. \A c \in Connections : thread'[c] \notin Claimed
    BY <1>2 DEF Claimed
  <2>. QED
    BY <2>1, <2>2, <2>3 DEF ExchangesOK
<1>5. Typed' /\ GateOK' /\ AuthorityOK'
  BY <1>1, <1>2, ConnectionKinds DEF Typed, GateOK, AuthorityOK, Drained
<1>6. TransportInv' <=> Typed' /\ ExchangesOK' /\ SlotsOK' /\ GateOK' /\ AuthorityOK'
  BY InvariantParts, PTL
<1>. QED
  BY <1>3, <1>4, <1>5, <1>6

LEMMA TransportInitially == TransportInit => TransportInv
<1>. SUFFICES ASSUME TransportInit
              PROVE  TransportInv
  OBVIOUS
<1>1. Typed
  BY DEF TransportInit, Typed
<1>2. ExchangesOK
  <2>1. \A c \in Connections : thread[c] = "none"
    BY DEF TransportInit
  <2>2. \A e \in Exchanges : Fresh(e)
    BY <2>1 DEF TransportInit, Fresh, Claimed
  <2>. QED
    BY <2>1, <2>2, ConnectionKinds
       DEF TransportInit, ExchangesOK, ThreadOK, ExchangeOK, Before, OnResponse, OnRequest,
           Served, Claimed
<1>3. SlotsOK
  BY NothingHeld DEF TransportInit, NothingLeft
<1>4. GateOK /\ AuthorityOK
  BY ConnectionKinds DEF TransportInit, GateOK, AuthorityOK
<1>. QED
  BY <1>1, <1>2, <1>3, <1>4, InvariantParts

LEMMA TransportStep ==
    ASSUME TransportInv, [TransportNext]_transportVars
    PROVE  TransportInv'
<1>1. CASE UNCHANGED transportVars
  <2>1. UNCHANGED <<thread, slots, leases, reservation, gate, dispatched, client, lapsed>>
        /\ AuthorityOK'
    BY <1>1, InvariantParts DEF transportVars, AuthorityOK, Drained
  <2>. QED
    BY <2>1, InvariantParts, ThreadsRest DEF Typed
<1>2. ASSUME NEW c \in Connections, ServerStep(c)
      PROVE  TransportInv'
  <2>1. CASE GateExpires(c)
    BY <2>1, EndsKeeps DEF GateExpires
  <2>. QED
    BY <1>2, <2>1, HandshakeKeeps, AuthenticatedKeeps, AbandonKeeps, ReserveKeepsInv, SendKeeps,
       DeliveredKeeps, CloseKeeps, AdmitKeeps, ReceiveKeeps, ClaimKeeps, DispatchKeeps,
       ReleaseRequestKeeps, PublishKeeps, RestKeeps DEF ServerStep
<1>. QED
  BY <1>1, <1>2, AcceptKeeps, ReturnKeeps, RestKeeps, ExitKeeps DEF TransportNext

LEMMA TransportInvariant == TransportSpec => []TransportInv
BY TransportInitially, TransportStep, PTL DEF TransportSpec

\* The threads, slots and reservations of the transport are what mtls_transport.py makes
\* them.
THEOREM TransportStaysTyped == TransportSpec => []TransportTypeOK
<1>1. TransportInv => TransportTypeOK
  BY DEF TransportInv
<1>. QED
  BY <1>1, TransportInvariant, PTL

\* For any number of exchanges and strays, and any limits: a request is dispatched at most
\* once, a client is told of no request that was not, slots are neither lost nor given back
\* twice, a complete exchange occupies nothing, and nothing is dispatched without the
\* authority lock.
THEOREM ExchangesStaySound == TransportSpec => []ExchangesSound
<1>1. TransportInv => ExchangesSound
  <2>. SUFFICES ASSUME TransportInv
                PROVE  ExchangesSound
    OBVIOUS
  <2>1. Typed /\ ExchangesOK /\ SlotsOK /\ GateOK /\ AuthorityOK
    BY InvariantParts
  <2>2. SlotsBalanced
    <3>1. \A k \in DOMAIN Limits : slots[k] + Cardinality({l \in leases : l[1] = k}) = Limits[k]
      BY <2>1, LimitsKinds DEF SlotsOK, Taken
    <3>2. ASSUME NEW l \in leases
          PROVE  thread[l[2]] \notin {"none", "ended"}
      <4>1. l[1] \in Kinds /\ l[2] \in Connections /\ <<l[1], l[2]>> \in leases
        BY <2>1 DEF SlotsOK
      <4>. QED
        BY <2>1, <4>1 DEF SlotsOK, Holds
    <3>. QED
      BY <3>1, <3>2 DEF SlotsBalanced
  <2>3. FreeForNext
    <3>. SUFFICES ASSUME NEW e \in Exchanges \ Strays, NEW l \in leases, client[e] = "done"
                  PROVE  l[2] \notin {<<e, "response">>, <<e, "request">>}
      BY DEF FreeForNext
    <3>1. thread[<<e, "response">>] \in {"closed", "ended"}
          /\ thread[<<e, "request">>] \in {"published", "ended"}
      BY <2>1 DEF ExchangesOK, ExchangeOK
    <3>2. l[1] \in Kinds /\ l[2] \in Connections /\ <<l[1], l[2]>> \in leases
      BY <2>1 DEF SlotsOK
    <3>3. Holds(l[1], thread[l[2]])
      BY <2>1, <3>2 DEF SlotsOK
    <3>. QED
      BY <3>1, <3>3 DEF Holds
  <2>4. DispatchedOnce
    <3>1. \A e \in Exchanges : ExchangeOK(e)
      BY <2>1 DEF ExchangesOK
    <3>2. \A e \in Exchanges : dispatched[e] \in {0, 1} /\ (client[e] = "done" => dispatched[e] = 1)
      BY <3>1 DEF ExchangeOK
    <3>3. \A e \in Exchanges : dispatched[e] <= 1
      BY <3>2
    <3>. QED
      BY <3>2, <3>3 DEF DispatchedOnce
  <2>5. AuthorityKept
    BY <2>1 DEF AuthorityKept, GateOK, AuthorityOK, Drained, Typed
  <2>. QED
    BY <2>2, <2>3, <2>4, <2>5 DEF ExchangesSound, TransportInv
<1>. QED
  BY <1>1, TransportInvariant, PTL

----------------------------------------------------------------------------
(* Podman.  A container is created once; where an operation has come to     *)
(* says what podman and the channel must be like, and what has been proved. *)

\* The steps of `create` before there can be a container, and the others.
Begun == {"environment", "cgroup_create", "create"}

PlacesAt(s) ==
    {"idle"} \cup
    CASE s = "intent"  -> Begun \cup {"inspect", "start", "inspect_started", "record_created",
                                      "cleanup_rm", "cleanup_exists", "cleanup_ps",
                                      "cleanup_slice", "recover_created"}
      [] s = "created" -> {"stage_context", "read_state", "read_metadata", "read_result",
                           "terminate", "terminate_started", "start_to_kill", "kill", "killed",
                           "confirm_exit", "record_exit"}
      [] s = "exit"    -> {"confirm_empty", "await_empty", "record_empty"}
      [] s = "empty"   -> {"remove", "rm", "confirm_removed", "confirm_ps", "remove_slice",
                           "record_removed"}
      [] OTHER         -> {}

UnitOK ==
    /\ stage = "none" \/ at \in Begun => container = "none"
    /\ at \in {"start", "start_to_kill"} => flaw \in {"none", "placement"}
    /\ container = "running" => flaw = "none" \/ (flaw = "placement" /\ files = {})

EvidenceOK ==
    /\ stage = "exit" \/ at = "record_exit" => container = "exited"
    /\ stage \in {"empty", "removed"} \/ at = "record_empty" =>
          container \in {"exited", "none"} /\ ~conmon
    /\ stage = "removed" \/ at \in {"confirm_ps", "remove_slice", "record_removed"} =>
          container = "none"
    /\ stage = "removed" \/ at = "record_removed" => ~slice

Request == {"source.bin", "request.json", "pending", "request.commit"}

Arriving == {{}, {"source.bin"}, {"source.bin", "request.json"},
             {"source.bin", "request.json", "pending"}, Request}

Answering(kind) ==
    IF kind = "success"
    THEN {Request, Request \cup {"result.bin"}, Request \cup {"result.bin", "response.json"},
          Request \cup {"result.bin", "response.json", "complete"}}
    ELSE {Request, Request \cup {"response.json"}, Request \cup {"response.json", "complete"}}

ChannelOK ==
    /\ stage \in {"none", "intent"} => files = {} /\ child = "waiting"
    /\ container = "created" => child = "waiting"
    /\ container # "running" => files = {}
    /\ container = "running" =>
          files \in (IF child = "waiting" THEN Arriving ELSE Answering(child))
    /\ container = "running" /\ at \in {"read_metadata", "read_result"} => "complete" \in files

PodmanTyped ==
    /\ container \in {"none", "created", "running", "exited"}
    /\ flaw \in {"none"} \cup _labels \cup build_create_arguments
    /\ child \in {"waiting", "success", "failure"}
    /\ stage \in {"none", "intent", "created", "exit", "empty", "removed"}
    /\ code \in {0, 125} /\ faults \in 0 .. MaxFaults

PodmanInv == PodmanTyped /\ at \in PlacesAt(stage) /\ UnitOK /\ EvidenceOK /\ ChannelOK

LEMMA ContainerInitially == PodmanInit => PodmanInv
BY PodmanAssumption
   DEF PodmanAssumption, PodmanInit, PodmanInv, PodmanTyped, PlacesAt, Begun, UnitOK,
       EvidenceOK, ChannelOK

\* The files of a request and of a response, which are written in their order.
LEMMA CountTwo ==
  ASSUME NEW a, NEW b, a # b
  PROVE  IsFiniteSet({a, b}) /\ Cardinality({a, b}) = 2
<1>1. IsFiniteSet({a}) /\ Cardinality({a}) = 1
  BY FS_Singleton
<1>2. {a, b} = {a} \cup {b} /\ b \notin {a}
  OBVIOUS
<1>3. IsFiniteSet({a} \cup {b}) /\ Cardinality({a} \cup {b}) = 1 + 1
  BY <1>1, <1>2, FS_AddElement
<1>. QED
  BY <1>2, <1>3

LEMMA CountThree ==
  ASSUME NEW a, NEW b, NEW c, a # b, a # c, b # c
  PROVE  Cardinality({a, b, c}) = 3
<1>1. IsFiniteSet({a, b}) /\ Cardinality({a, b}) = 2
  BY CountTwo
<1>2. {a, b, c} = {a, b} \cup {c} /\ c \notin {a, b}
  OBVIOUS
<1>3. Cardinality({a, b} \cup {c}) = 2 + 1
  BY <1>1, <1>2, FS_AddElement
<1>. QED
  BY <1>2, <1>3

LEMMA RequestArrives ==
  /\ ToSet(_build_request_archive) = Request
  /\ files \in Arriving \ {Request} => files \cup {NextFile(_build_request_archive)} \in Arriving
<1>. DEFINE order == _build_request_archive
<1>1. /\ Len(order) = 4 /\ DOMAIN order = {1, 2, 3, 4}
      /\ order[1] = "source.bin" /\ order[2] = "request.json"
      /\ order[3] = "pending" /\ order[4] = "request.commit"
  BY DEF _build_request_archive
<1>2. ToSet(order) = Request
  BY <1>1 DEF ToSet, Request
<1>. HIDE DEF order
<1>3. Cardinality({}) = 0 /\ Cardinality({"source.bin"}) = 1
  BY FS_EmptySet, FS_Singleton
<1>4. Cardinality({"source.bin", "request.json"}) = 2
  BY CountTwo
<1>5. Cardinality({"source.bin", "request.json", "pending"}) = 3
  BY CountThree
<1>6. ASSUME files \in Arriving \ {Request} PROVE files \cap Request = files
  BY <1>6 DEF Arriving, Request
<1>7. ASSUME files \in Arriving \ {Request}
      PROVE  files \cup {order[1 + Cardinality(files)]} \in Arriving
  <2>1. CASE files = {}
    <3>1. order[1 + Cardinality(files)] = "source.bin"
      BY <1>1, <1>3, <2>1
    <3>. QED
      BY <2>1, <3>1 DEF Arriving
  <2>2. CASE files = {"source.bin"}
    <3>1. order[1 + Cardinality(files)] = "request.json"
      BY <1>1, <1>3, <2>2
    <3>. QED
      BY <2>2, <3>1 DEF Arriving
  <2>3. CASE files = {"source.bin", "request.json"}
    <3>1. order[1 + Cardinality(files)] = "pending"
      BY <1>1, <1>4, <2>3
    <3>. QED
      BY <2>3, <3>1 DEF Arriving
  <2>4. CASE files = {"source.bin", "request.json", "pending"}
    <3>1. order[1 + Cardinality(files)] = "request.commit"
      BY <1>1, <1>5, <2>4
    <3>. QED
      BY <2>4, <3>1 DEF Arriving, Request
  <2>. QED
    BY <1>7, <2>1, <2>2, <2>3, <2>4 DEF Arriving
<1>. QED
  BY <1>2, <1>6, <1>7 DEF NextFile, order

LEMMA AnswerFiles ==
  /\ ToSet(write_response("success")) = {"result.bin", "response.json", "complete"}
  /\ ToSet(write_response("failure")) = {"response.json", "complete"}
<1>1. /\ DOMAIN write_response("success") = {1, 2, 3}
      /\ write_response("success")[1] = "result.bin"
      /\ write_response("success")[2] = "response.json"
      /\ write_response("success")[3] = "complete"
  BY DEF write_response
<1>2. /\ DOMAIN write_response("failure") = {1, 2}
      /\ write_response("failure")[1] = "response.json"
      /\ write_response("failure")[2] = "complete"
  BY DEF write_response
<1>. QED
  BY <1>1, <1>2 DEF ToSet

LEMMA ResponseArrives ==
  ASSUME NEW kind \in {"success", "failure"}, files \in Answering(kind),
         ~Written(write_response(kind))
  PROVE  files \cup {NextFile(write_response(kind))} \in Answering(kind)
<1>. DEFINE order == write_response(kind)
<1>1. Cardinality({}) = 0 /\ Cardinality({"result.bin"}) = 1 /\ Cardinality({"response.json"}) = 1
  BY FS_EmptySet, FS_Singleton
<1>2. Cardinality({"result.bin", "response.json"}) = 2
  BY CountTwo
<1>3. CASE kind = "success"
  <2>1. /\ DOMAIN order = {1, 2, 3}
        /\ order[1] = "result.bin" /\ order[2] = "response.json" /\ order[3] = "complete"
    BY <1>3 DEF write_response
  <2>2. ToSet(order) = {"result.bin", "response.json", "complete"}
    BY <2>1 DEF ToSet
  <2>. HIDE DEF order
  <2>3. CASE files = Request
    <3>1. files \cap ToSet(order) = {}
      BY <2>2, <2>3 DEF Request
    <3>2. NextFile(order) = order[1 + 0]
      BY <1>1, <3>1 DEF NextFile
    <3>3. order[1 + 0] = "result.bin"
      BY <2>1
    <3>. QED
      BY <1>3, <2>3, <3>2, <3>3 DEF Answering, order
  <2>4. CASE files = Request \cup {"result.bin"}
    <3>1. files \cap ToSet(order) = {"result.bin"}
      BY <2>2, <2>4 DEF Request
    <3>2. NextFile(order) = order[1 + 1]
      BY <1>1, <3>1 DEF NextFile
    <3>3. order[1 + 1] = "response.json"
      BY <2>1
    <3>. QED
      BY <1>3, <2>4, <3>2, <3>3 DEF Answering, order
  <2>5. CASE files = Request \cup {"result.bin", "response.json"}
    <3>1. files \cap ToSet(order) = {"result.bin", "response.json"}
      BY <2>2, <2>5 DEF Request
    <3>2. NextFile(order) = order[1 + 2]
      BY <1>2, <3>1 DEF NextFile
    <3>3. order[1 + 2] = "complete"
      BY <2>1
    <3>. QED
      BY <1>3, <2>5, <3>2, <3>3 DEF Answering, order
  <2>6. CASE files = Request \cup {"result.bin", "response.json", "complete"}
    BY <2>2, <2>6 DEF Written, order
  <2>. QED
    BY <1>3, <2>3, <2>4, <2>5, <2>6 DEF Answering
<1>4. CASE kind = "failure"
  <2>1. /\ DOMAIN order = {1, 2}
        /\ order[1] = "response.json" /\ order[2] = "complete"
    BY <1>4 DEF write_response
  <2>2. ToSet(order) = {"response.json", "complete"}
    BY <2>1 DEF ToSet
  <2>. HIDE DEF order
  <2>3. CASE files = Request
    <3>1. files \cap ToSet(order) = {}
      BY <2>2, <2>3 DEF Request
    <3>2. NextFile(order) = order[1 + 0]
      BY <1>1, <3>1 DEF NextFile
    <3>3. order[1 + 0] = "response.json"
      BY <2>1
    <3>. QED
      BY <1>4, <2>3, <3>2, <3>3 DEF Answering, order
  <2>4. CASE files = Request \cup {"response.json"}
    <3>1. files \cap ToSet(order) = {"response.json"}
      BY <2>2, <2>4 DEF Request
    <3>2. NextFile(order) = order[1 + 1]
      BY <1>1, <3>1 DEF NextFile
    <3>3. order[1 + 1] = "complete"
      BY <2>1
    <3>. QED
      BY <1>4, <2>4, <3>2, <3>3 DEF Answering, order
  <2>5. CASE files = Request \cup {"response.json", "complete"}
    BY <2>2, <2>5 DEF Written, order
  <2>. QED
    BY <1>4, <2>3, <2>4, <2>5 DEF Answering
<1>. QED
  BY <1>3, <1>4

Counted == faults' = faults \/ (faults < MaxFaults /\ faults' = faults + 1)

LEMMA FaultsCounted == CleanupRemove \/ CollectFile => Counted
BY DEF CleanupRemove, CollectFile, Read, Call, Counted

LEMMA FileStaged ==
  ASSUME StageFile, files' # files
  PROVE  /\ ~Written(_build_request_archive) /\ Workspace
         /\ files' = files \cup {NextFile(_build_request_archive)}
BY DEF StageFile, _atomic_write

LEMMA ContainerMoves ==
  ASSUME PodmanInv, PodmanNext PROVE PodmanInv'
<1>. USE PodmanAssumption
     DEF PodmanAssumption, PodmanInv, PodmanTyped, PlacesAt, Begun, UnitOK, EvidenceOK,
         ChannelOK,
         Arriving, Answering, containerVars, channelVars, Fail, Call, Read, Continue, Verified,
         _unit_from_labels, _policy_from_labels, _matches_create_command,
         verify_realized_specification, _verify_cgroup_binding, _labels, build_create_arguments
<1>1. ASSUME CreateIntent PROVE PodmanInv'
  BY <1>1 DEF CreateIntent
<1>2. ASSUME _require_rootless_environment PROVE PodmanInv'
  BY <1>2 DEF _require_rootless_environment
<1>3. ASSUME _create_cgroup PROVE PodmanInv'
  BY <1>3 DEF _create_cgroup
<1>4. ASSUME CreateContainer PROVE PodmanInv'
  BY <1>4 DEF CreateContainer
<1>5. ASSUME InspectCreated PROVE PodmanInv'
  BY <1>5 DEF InspectCreated, FailCreate, FailCreateAbsent
<1>6. ASSUME StartContainer PROVE PodmanInv'
  BY <1>6 DEF StartContainer, Start, FailCreate
<1>7. ASSUME InspectStarted PROVE PodmanInv'
  BY <1>7 DEF InspectStarted, FailCreate
<1>8. ASSUME RecordCreated PROVE PodmanInv'
  BY <1>8 DEF RecordCreated
<1>9. ASSUME CleanupRemove PROVE PodmanInv'
  <2>1. stage = "intent" /\ files = {} /\ child = "waiting"
    BY <1>9 DEF CleanupRemove
  <2>2. files' = {} /\ child' = child
    BY <1>9 DEF CleanupRemove
  <2>3. stage' = stage /\ at' = "cleanup_exists" /\ code' = code
    BY <1>9 DEF CleanupRemove
  <2>4. Counted
    BY <1>9, FaultsCounted
  <2>5. flaw' = flaw /\ container' \in {"none", container}
    BY <1>9 DEF CleanupRemove
  <2>. QED
    BY <2>1, <2>2, <2>3, <2>4, <2>5 DEF Counted
<1>10. ASSUME CleanupAbsence PROVE PodmanInv'
  BY <1>10 DEF CleanupAbsence, _container_exists
<1>11. ASSUME CleanupSlice PROVE PodmanInv'
  BY <1>11 DEF CleanupSlice, RemoveSlice
<1>12. ASSUME BeginStage PROVE PodmanInv'
  BY <1>12 DEF BeginStage
<1>13. ASSUME StageFile PROVE PodmanInv'
  <2>1. stage = "created" /\ stage' = stage /\ at = "stage_context"
    BY <1>13 DEF StageFile
  <2>2. /\ UNCHANGED <<container, flaw, conmon, slice, child, stage, code>>
        /\ at' \in {"stage_context", "idle"}
    BY <1>13 DEF StageFile
  <2>3. faults' \in 0 .. MaxFaults
    BY <1>13 DEF StageFile
  <2>4. CASE files' = files
    BY <2>1, <2>2, <2>3, <2>4
  <2>5. CASE files' # files
    <3>1. /\ ~Written(_build_request_archive) /\ Workspace
          /\ files' = files \cup {NextFile(_build_request_archive)}
      BY <1>13, <2>5, FileStaged
    <3>2. container = "running" /\ flaw # "placement"
      BY <3>1 DEF Workspace
    <3>3. ~(Request \subseteq files)
      BY <3>1, RequestArrives DEF Written
    <3>4. child = "waiting" /\ files \in Arriving \ {Request}
      BY <3>2, <3>3 DEF Request
    <3>5. files' \in Arriving
      BY <3>1, <3>4, RequestArrives
    <3>. QED
      BY <2>1, <2>2, <2>3, <3>2, <3>4, <3>5
  <2>. QED
    BY <2>4, <2>5
<1>14. ASSUME BeginCollect PROVE PodmanInv'
  BY <1>14 DEF BeginCollect
<1>15. ASSUME CollectFile PROVE PodmanInv'
  <2>1. stage = "created" /\ Counted
    <3>1. at \in {"read_state", "read_metadata", "read_result"}
      BY <1>15 DEF CollectFile
    <3>2. stage = "created"
      BY <3>1
    <3>. QED
      BY <1>15, <3>2, FaultsCounted
  <2>2. UNCHANGED <<container, flaw, conmon, slice, files, child>>
    BY <1>15 DEF CollectFile
  <2>3. stage' = stage /\ code' = code
    BY <1>15 DEF CollectFile
  <2>4. at' \in {"idle", "read_metadata", "read_result"}
    BY <1>15 DEF CollectFile
  <2>5. at' \in {"read_metadata", "read_result"} /\ container = "running" => "complete" \in files
    BY <1>15 DEF CollectFile, decode_channel_state
  <2>. QED
    BY <2>1, <2>4, <2>5, <2>2, <2>3 DEF Counted
<1>16. ASSUME BeginTerminate PROVE PodmanInv'
  BY <1>16 DEF BeginTerminate
<1>17. ASSUME InspectToKill PROVE PodmanInv'
  BY <1>17 DEF InspectToKill
<1>18. ASSUME StartToKill PROVE PodmanInv'
  BY <1>18 DEF StartToKill, Start
<1>19. ASSUME Kill PROVE PodmanInv'
  BY <1>19 DEF Kill, Exited
<1>20. ASSUME ConfirmExit PROVE PodmanInv'
  BY <1>20 DEF ConfirmExit
<1>21. ASSUME ConfirmEmpty PROVE PodmanInv'
  BY <1>21 DEF ConfirmEmpty
<1>22. ASSUME _await_unpopulated PROVE PodmanInv'
  BY <1>22 DEF _await_unpopulated, Populated
<1>23. ASSUME InspectToRemove PROVE PodmanInv'
  BY <1>23 DEF InspectToRemove, _container_exists
<1>24. ASSUME RemoveContainer PROVE PodmanInv'
  BY <1>24 DEF RemoveContainer
<1>25. ASSUME ConfirmAbsence PROVE PodmanInv'
  BY <1>25 DEF ConfirmAbsence, _container_exists
<1>26. ASSUME ConfirmRemoved PROVE PodmanInv'
  BY <1>26 DEF ConfirmRemoved, RemoveSlice
<1>27. ASSUME RecordEvidence PROVE PodmanInv'
  BY <1>27 DEF RecordEvidence
<1>28. ASSUME Reconcile PROVE PodmanInv'
  BY <1>28 DEF Reconcile, discover
<1>29. ASSUME RecoverCreated PROVE PodmanInv'
  BY <1>29 DEF RecoverCreated
<1>30. ASSUME wait_for_request PROVE PodmanInv'
  <2>1. /\ container = "running" /\ child = "waiting" /\ "request.commit" \in files
        /\ UNCHANGED <<stage, at, code, faults, flaw, slice>>
    BY <1>30 DEF wait_for_request, Exited
  <2>2. stage \notin {"none", "intent"} /\ files = Request
    BY <2>1 DEF Request
  <2>3. \/ child' \in {"success", "failure"} /\ UNCHANGED <<container, conmon, files>>
        \/ container' = "exited" /\ files' = {} /\ child' = child
    BY <1>30, <2>1 DEF wait_for_request, Exited
  <2>4. flaw = "none"
    BY <2>1, <2>2 DEF Request
  <2>. QED
    BY <2>1, <2>2, <2>3, <2>4
<1>31. ASSUME Respond PROVE PodmanInv'
  <2>1. /\ container = "running" /\ child \in {"success", "failure"}
        /\ ~Written(write_response(child))
        /\ files' = files \cup {NextFile(write_response(child))}
        /\ UNCHANGED <<container, flaw, conmon, slice, child, stage, at, code, faults>>
    BY <1>31 DEF Respond, _atomic_write
  <2>2. files \in Answering(child)
    BY <2>1
  <2>3. files' \in Answering(child)
    BY <2>1, <2>2, ResponseArrives
  <2>4. files # {}
    BY <2>2 DEF Request
  <2>. QED
    BY <2>1, <2>3, <2>4
<1>32. ASSUME PodmanCrash PROVE PodmanInv'
  BY <1>32 DEF PodmanCrash
<1>33. ASSUME ContainerExits PROVE PodmanInv'
  BY <1>33 DEF ContainerExits, Exited
<1>34. ASSUME MonitorExits PROVE PodmanInv'
  BY <1>34 DEF MonitorExits
<1>. QED
  BY <1>1, <1>2, <1>3, <1>4, <1>5, <1>6, <1>7, <1>8, <1>9, <1>10, <1>11, <1>12, <1>13, <1>14,
       <1>15, <1>16, <1>17, <1>18, <1>19, <1>20, <1>21, <1>22, <1>23, <1>24, <1>25, <1>26,
       <1>27, <1>28, <1>29, <1>30, <1>31, <1>32, <1>33, <1>34
     DEF PodmanNext, CreateStep, WorkspaceStep, TerminateStep, ReconcileStep

PodmanFlags == conmon \in BOOLEAN /\ slice \in BOOLEAN /\ ready \in BOOLEAN

LEMMA PodmanFlagsMove ==
  ASSUME PodmanFlags, PodmanNext PROVE PodmanFlags'
<1>. USE DEF PodmanFlags, containerVars, channelVars, Fail, Call, Read, Continue
<1>1. ASSUME CreateIntent PROVE PodmanFlags'
  BY <1>1 DEF CreateIntent
<1>2. ASSUME _require_rootless_environment PROVE PodmanFlags'
  BY <1>2 DEF _require_rootless_environment
<1>3. ASSUME _create_cgroup PROVE PodmanFlags'
  BY <1>3 DEF _create_cgroup
<1>4. ASSUME CreateContainer PROVE PodmanFlags'
  BY <1>4 DEF CreateContainer
<1>5. ASSUME InspectCreated PROVE PodmanFlags'
  BY <1>5 DEF InspectCreated, FailCreate, FailCreateAbsent
<1>6. ASSUME StartContainer PROVE PodmanFlags'
  BY <1>6 DEF StartContainer, Start, FailCreate
<1>7. ASSUME InspectStarted PROVE PodmanFlags'
  BY <1>7 DEF InspectStarted, FailCreate
<1>8. ASSUME RecordCreated PROVE PodmanFlags'
  BY <1>8 DEF RecordCreated
<1>9. ASSUME CleanupRemove PROVE PodmanFlags'
  BY <1>9 DEF CleanupRemove
<1>10. ASSUME CleanupAbsence PROVE PodmanFlags'
  BY <1>10 DEF CleanupAbsence
<1>11. ASSUME CleanupSlice PROVE PodmanFlags'
  BY <1>11 DEF CleanupSlice, RemoveSlice
<1>12. ASSUME BeginStage PROVE PodmanFlags'
  BY <1>12 DEF BeginStage
<1>13. ASSUME StageFile PROVE PodmanFlags'
  BY <1>13 DEF StageFile
<1>14. ASSUME BeginCollect PROVE PodmanFlags'
  BY <1>14 DEF BeginCollect
<1>15. ASSUME CollectFile PROVE PodmanFlags'
  BY <1>15 DEF CollectFile
<1>16. ASSUME BeginTerminate PROVE PodmanFlags'
  BY <1>16 DEF BeginTerminate
<1>17. ASSUME InspectToKill PROVE PodmanFlags'
  BY <1>17 DEF InspectToKill
<1>18. ASSUME StartToKill PROVE PodmanFlags'
  BY <1>18 DEF StartToKill, Start
<1>19. ASSUME Kill PROVE PodmanFlags'
  BY <1>19 DEF Kill, Exited
<1>20. ASSUME ConfirmExit PROVE PodmanFlags'
  BY <1>20 DEF ConfirmExit
<1>21. ASSUME ConfirmEmpty PROVE PodmanFlags'
  BY <1>21 DEF ConfirmEmpty
<1>22. ASSUME _await_unpopulated PROVE PodmanFlags'
  BY <1>22 DEF _await_unpopulated
<1>23. ASSUME InspectToRemove PROVE PodmanFlags'
  BY <1>23 DEF InspectToRemove
<1>24. ASSUME RemoveContainer PROVE PodmanFlags'
  BY <1>24 DEF RemoveContainer
<1>25. ASSUME ConfirmAbsence PROVE PodmanFlags'
  BY <1>25 DEF ConfirmAbsence
<1>26. ASSUME ConfirmRemoved PROVE PodmanFlags'
  BY <1>26 DEF ConfirmRemoved, RemoveSlice
<1>27. ASSUME RecordEvidence PROVE PodmanFlags'
  BY <1>27 DEF RecordEvidence
<1>28. ASSUME Reconcile PROVE PodmanFlags'
  BY <1>28 DEF Reconcile
<1>29. ASSUME RecoverCreated PROVE PodmanFlags'
  BY <1>29 DEF RecoverCreated
<1>30. ASSUME wait_for_request PROVE PodmanFlags'
  BY <1>30 DEF wait_for_request, Exited
<1>31. ASSUME Respond PROVE PodmanFlags'
  BY <1>31 DEF Respond
<1>32. ASSUME PodmanCrash PROVE PodmanFlags'
  BY <1>32 DEF PodmanCrash
<1>33. ASSUME ContainerExits PROVE PodmanFlags'
  BY <1>33 DEF ContainerExits, Exited
<1>34. ASSUME MonitorExits PROVE PodmanFlags'
  BY <1>34 DEF MonitorExits
<1>. QED
  BY <1>1, <1>2, <1>3, <1>4, <1>5, <1>6, <1>7, <1>8, <1>9, <1>10, <1>11, <1>12, <1>13, <1>14,
       <1>15, <1>16, <1>17, <1>18, <1>19, <1>20, <1>21, <1>22, <1>23, <1>24, <1>25, <1>26,
       <1>27, <1>28, <1>29, <1>30, <1>31, <1>32, <1>33, <1>34
     DEF PodmanNext, CreateStep, WorkspaceStep, TerminateStep, ReconcileStep

\* The evidence that is recorded changes in one action only.
LEMMA EvidenceRecorded ==
  ASSUME PodmanInv, PodmanNext, ~RecordEvidence
  PROVE  PodmanProofs' = PodmanProofs
<1>. USE DEF PodmanInv, PodmanProofs, PlacesAt, Begun, PodmanTyped, containerVars, channelVars,
             Fail,
             Call, Read, Continue
<1>1. ASSUME CreateIntent PROVE PodmanProofs' = PodmanProofs
  BY <1>1 DEF CreateIntent
<1>2. ASSUME _require_rootless_environment PROVE PodmanProofs' = PodmanProofs
  BY <1>2 DEF _require_rootless_environment
<1>3. ASSUME _create_cgroup PROVE PodmanProofs' = PodmanProofs
  BY <1>3 DEF _create_cgroup
<1>4. ASSUME CreateContainer PROVE PodmanProofs' = PodmanProofs
  BY <1>4 DEF CreateContainer
<1>5. ASSUME InspectCreated PROVE PodmanProofs' = PodmanProofs
  BY <1>5 DEF InspectCreated, FailCreate, FailCreateAbsent
<1>6. ASSUME StartContainer PROVE PodmanProofs' = PodmanProofs
  BY <1>6 DEF StartContainer, Start, FailCreate
<1>7. ASSUME InspectStarted PROVE PodmanProofs' = PodmanProofs
  BY <1>7 DEF InspectStarted, FailCreate
<1>8. ASSUME RecordCreated PROVE PodmanProofs' = PodmanProofs
  BY <1>8 DEF RecordCreated
<1>9. ASSUME CleanupRemove PROVE PodmanProofs' = PodmanProofs
  BY <1>9 DEF CleanupRemove
<1>10. ASSUME CleanupAbsence PROVE PodmanProofs' = PodmanProofs
  BY <1>10 DEF CleanupAbsence
<1>11. ASSUME CleanupSlice PROVE PodmanProofs' = PodmanProofs
  BY <1>11 DEF CleanupSlice, RemoveSlice
<1>12. ASSUME BeginStage PROVE PodmanProofs' = PodmanProofs
  BY <1>12 DEF BeginStage
<1>13. ASSUME StageFile PROVE PodmanProofs' = PodmanProofs
  BY <1>13 DEF StageFile
<1>14. ASSUME BeginCollect PROVE PodmanProofs' = PodmanProofs
  BY <1>14 DEF BeginCollect
<1>15. ASSUME CollectFile PROVE PodmanProofs' = PodmanProofs
  BY <1>15 DEF CollectFile
<1>16. ASSUME BeginTerminate PROVE PodmanProofs' = PodmanProofs
  BY <1>16 DEF BeginTerminate
<1>17. ASSUME InspectToKill PROVE PodmanProofs' = PodmanProofs
  BY <1>17 DEF InspectToKill
<1>18. ASSUME StartToKill PROVE PodmanProofs' = PodmanProofs
  BY <1>18 DEF StartToKill, Start
<1>19. ASSUME Kill PROVE PodmanProofs' = PodmanProofs
  BY <1>19 DEF Kill, Exited
<1>20. ASSUME ConfirmExit PROVE PodmanProofs' = PodmanProofs
  BY <1>20 DEF ConfirmExit
<1>21. ASSUME ConfirmEmpty PROVE PodmanProofs' = PodmanProofs
  BY <1>21 DEF ConfirmEmpty
<1>22. ASSUME _await_unpopulated PROVE PodmanProofs' = PodmanProofs
  BY <1>22 DEF _await_unpopulated
<1>23. ASSUME InspectToRemove PROVE PodmanProofs' = PodmanProofs
  BY <1>23 DEF InspectToRemove
<1>24. ASSUME RemoveContainer PROVE PodmanProofs' = PodmanProofs
  BY <1>24 DEF RemoveContainer
<1>25. ASSUME ConfirmAbsence PROVE PodmanProofs' = PodmanProofs
  BY <1>25 DEF ConfirmAbsence
<1>26. ASSUME ConfirmRemoved PROVE PodmanProofs' = PodmanProofs
  BY <1>26 DEF ConfirmRemoved, RemoveSlice
<1>27. ASSUME Reconcile PROVE PodmanProofs' = PodmanProofs
  BY <1>27 DEF Reconcile
<1>28. ASSUME RecoverCreated PROVE PodmanProofs' = PodmanProofs
  BY <1>28 DEF RecoverCreated
<1>29. ASSUME wait_for_request PROVE PodmanProofs' = PodmanProofs
  BY <1>29 DEF wait_for_request, Exited
<1>30. ASSUME Respond PROVE PodmanProofs' = PodmanProofs
  BY <1>30 DEF Respond
<1>31. ASSUME PodmanCrash PROVE PodmanProofs' = PodmanProofs
  BY <1>31 DEF PodmanCrash
<1>32. ASSUME ContainerExits PROVE PodmanProofs' = PodmanProofs
  BY <1>32 DEF ContainerExits, Exited
<1>33. ASSUME MonitorExits PROVE PodmanProofs' = PodmanProofs
  BY <1>33 DEF MonitorExits
<1>. QED
  BY <1>1, <1>2, <1>3, <1>4, <1>5, <1>6, <1>7, <1>8, <1>9, <1>10, <1>11, <1>12, <1>13, <1>14,
       <1>15, <1>16, <1>17, <1>18, <1>19, <1>20, <1>21, <1>22, <1>23, <1>24, <1>25, <1>26,
       <1>27, <1>28, <1>29, <1>30, <1>31, <1>32, <1>33
     DEF PodmanNext, CreateStep, WorkspaceStep, TerminateStep, ReconcileStep

LEMMA ContainerConforms ==
  ASSUME PodmanInv, [PodmanNext]_podmanVars, PodmanInv'
  PROVE  [Podman!ContractNext]_(Podman!contractVars)
<1>. DEFINE Proved == Podman!Kept(container = "running", Populated, container # "none" \/ slice,
                                  PodmanProofs)
<1>0. Proved'
  BY DEF PodmanInv, EvidenceOK, PodmanTyped, Populated, Podman!Kept, PodmanProofs
<1>1. CASE UNCHANGED podmanVars
  BY <1>1 DEF podmanVars, PodmanProofs, Populated, Podman!contractVars
<1>2. ASSUME RecordEvidence
      PROVE  \E e \in Podman!Evidence : Podman!Prove(e)
  <2>1. UNCHANGED <<container, conmon, slice>>
    BY <1>2 DEF RecordEvidence, containerVars
  <2>2. PodmanProofs = Podman!Before(stage')
        /\ PodmanProofs' = PodmanProofs \cup {stage'}
        /\ stage' \in Podman!Evidence
    BY <1>2 DEF RecordEvidence, PodmanInv, PlacesAt, Begun, PodmanTyped, PodmanProofs,
                Podman!Before,
                Podman!Evidence
  <2>3. Podman!Kept(container = "running", Populated, container # "none" \/ slice, PodmanProofs')
    BY <1>0, <2>1 DEF Populated
  <2>. QED
    BY <2>1, <2>2, <2>3 DEF Podman!Prove, Populated
<1>3. ASSUME PodmanNext, ~RecordEvidence
      PROVE  Podman!Change
  BY <1>0, <1>3, EvidenceRecorded DEF Podman!Change
<1>. QED
  BY <1>1, <1>2, <1>3 DEF Podman!ContractNext

\* Whatever commands fail or lose their answer, and wherever the broker dies: a container
\* of which an end is recorded has come to it, podman realises the contract of
\* IsolationRuntime, and the attempt and the broker read whole files only
\* (broker/podman_runtime.py, reversions/attempt_channel.py).
THEOREM ContainersAreHonest == PodmanSpec => PodmanHonest
<1>1. PodmanInit => PodmanInv /\ PodmanFlags /\ Podman!ContractInit
  <2>1. ASSUME PodmanInit PROVE PodmanFlags
    BY <2>1 DEF PodmanInit, PodmanFlags
  <2>2. ASSUME PodmanInit PROVE Podman!ContractInit
    BY <2>2 DEF PodmanInit, PodmanProofs, Populated, Podman!ContractInit
  <2>. QED
    BY <2>1, <2>2, ContainerInitially
<1>2. PodmanInv /\ PodmanFlags /\ [PodmanNext]_podmanVars =>
         PodmanInv' /\ PodmanFlags' /\ [Podman!ContractNext]_(Podman!contractVars)
  <2>. SUFFICES ASSUME PodmanInv, PodmanFlags, [PodmanNext]_podmanVars
                PROVE  PodmanInv' /\ PodmanFlags'
    BY ContainerConforms
  <2>1. CASE UNCHANGED podmanVars
    <3>1. PodmanInv'
      BY <2>1 DEF podmanVars, PodmanInv, PodmanTyped, UnitOK, EvidenceOK, ChannelOK
    <3>2. PodmanFlags'
      BY <2>1 DEF podmanVars, PodmanFlags
    <3>. QED
      BY <3>1, <3>2
  <2>. QED
    BY <2>1, ContainerMoves, PodmanFlagsMove
<1>3. PodmanInv /\ PodmanFlags => PodmanTypeOK /\ RunsAsSpecified /\ ChannelOrdered
  <2>. SUFFICES ASSUME PodmanInv, PodmanFlags
                PROVE  PodmanTypeOK /\ RunsAsSpecified /\ ChannelOrdered
    OBVIOUS
  <2>1. stage \in ToSet(Stages)
    <3>1. /\ DOMAIN Stages = {1, 2, 3, 4, 5, 6}
          /\ Stages[1] = "none" /\ Stages[2] = "intent" /\ Stages[3] = "created"
          /\ Stages[4] = "exit" /\ Stages[5] = "empty" /\ Stages[6] = "removed"
      BY DEF Stages
    <3>2. ToSet(Stages) = {"none", "intent", "created", "exit", "empty", "removed"}
      BY <3>1 DEF ToSet
    <3>. QED
      BY <3>2 DEF PodmanInv, PodmanTyped
  <2>2. files \subseteq {"source.bin", "request.json", "request.commit", "pending", "result.bin",
                        "response.json", "complete"}
    BY DEF PodmanInv, PodmanTyped, ChannelOK, Arriving, Answering, Request
  <2>3. PodmanTypeOK
    BY <2>1, <2>2 DEF PodmanTypeOK, PodmanInv, PodmanTyped, PodmanFlags
  <2>4. RunsAsSpecified
    BY DEF RunsAsSpecified, PodmanInv, UnitOK
  <2>5. ASSUME child # "waiting", container = "running"
        PROVE  Written(_build_request_archive)
    <3>1. Request \subseteq files
      BY <2>5 DEF PodmanInv, ChannelOK, Answering
    <3>. QED
      BY <3>1, RequestArrives DEF Written
  <2>6. ASSUME at \in {"read_metadata", "read_result"}, container = "running"
        PROVE  Written(write_response(child)) /\ decode_response_metadata(child)
    <3>1. "complete" \in files /\ child \in {"success", "failure"} /\ files \in Answering(child)
      BY <2>6 DEF PodmanInv, PodmanTyped, ChannelOK, Arriving, Request
    <3>2. CASE child = "success"
      <4>1. ToSet(write_response(child)) = {"result.bin", "response.json", "complete"}
        BY <3>2, AnswerFiles
      <4>. QED
        BY <3>1, <3>2, <4>1 DEF Answering, Request, Written, decode_response_metadata
    <3>3. CASE child = "failure"
      <4>1. ToSet(write_response(child)) = {"response.json", "complete"}
        BY <3>3, AnswerFiles
      <4>. QED
        BY <3>1, <3>3, <4>1 DEF Answering, Request, Written, decode_response_metadata
    <3>. QED
      BY <3>1, <3>2, <3>3
  <2>. QED
    BY <2>3, <2>4, <2>5, <2>6 DEF ChannelOrdered
<1>. QED
  BY <1>1, <1>2, <1>3, PTL DEF PodmanSpec, PodmanHonest, Podman!Contract

----------------------------------------------------------------------------
(* Kubernetes.  The attester's ledger is true of the Pod, and the broker    *)
(* records nothing that the ledger does not say.                            *)

CallsAt(u) ==
    {"idle"} \cup
    CASE u = "intent"  -> {"create", "bind", "adopt", "find", "record_created"}
      [] u = "created" -> {"rebind", "stage", "collect", "recover", "terminate",
                           "confirm_exit", "record_exit"}
      [] u = "exit"    -> {"recover", "confirm_exit_again", "confirm_empty", "record_empty"}
      [] u = "empty"   -> {"recover", "delete", "confirm_removed", "absent", "record_removed"}
      [] u = "acknowledged" -> {"acknowledge", "discard"}
      [] OTHER         -> {}

\* What the attester's ledger says of the Pod, which it has attested.
LedgerTrue ==
    /\ ledger # "none" => variance = "none"
    /\ ledger \in {"exit", "empty", "removed"} => sandbox \in {"exited", "stopped", "none"}
    /\ ledger \in {"empty", "removed"} => sandbox \in {"stopped", "none"}
    /\ ledger = "removed" => sandbox = "none"
    /\ "bound" \in memory => ledger # "none"
    /\ "removed" \in memory => ledger = "removed"
    /\ object => sandbox # "none"

\* What the broker has recorded and does next, against the ledger.
Follows ==
    /\ unit = "none" => ~object /\ sandbox = "none" /\ ledger = "none"
    /\ unit = "intent" => ledger \in {"none", "bound"}
    /\ unit = "intent" /\ ledger = "bound" => object
    /\ call = "record_created" \/ unit = "created" => ledger # "none"
    /\ call = "record_exit" \/ unit = "exit" => ledger \in {"exit", "empty", "removed"}
    /\ call = "record_empty" \/ unit = "empty" => ledger \in {"empty", "removed"}
    /\ call \in {"absent", "record_removed"} \/ unit = "removed" => ledger = "removed"
    /\ unit \in {"removed", "acknowledged", "gone"} => ~object /\ sandbox = "none"
    /\ call = "discard" \/ unit = "gone" => ledger = "none"

PodTyped ==
    /\ variance \in {"none"} \cup build_pod_manifest
    /\ sandbox \in {"none", "pending", "running", "exited", "stopped"}
    /\ ledger \in {"none", "bound", "exit", "empty", "removed"}
    /\ memory \subseteq {"bound", "exit", "empty", "removed"}
    /\ unit \in {"none", "intent", "created", "exit", "empty", "removed", "acknowledged", "gone"}
    /\ lost \in 0 .. MaxCallFaults

KubernetesInv == PodTyped /\ call \in CallsAt(unit) /\ LedgerTrue /\ Follows

LEMMA LedgerNames ==
  \A l : (\E i \in DOMAIN LedgerStates : l = LedgerStates[i]) <=>
            l \in {"none", "bound", "exit", "empty", "removed"}
<1>1. DOMAIN LedgerStates = 1 .. 5
  BY DEF LedgerStates
<1>2. /\ LedgerStates[1] = "none" /\ LedgerStates[2] = "bound" /\ LedgerStates[3] = "exit"
      /\ LedgerStates[4] = "empty" /\ LedgerStates[5] = "removed"
  BY DEF LedgerStates
<1>3. 1 .. 5 = {1, 2, 3, 4, 5}
  OBVIOUS
<1>. QED
  BY <1>1, <1>2, <1>3

LEMMA PodInitially == KubernetesInit => KubernetesInv
BY KubernetesAssumption
   DEF KubernetesAssumption, KubernetesInit, KubernetesInv, PodTyped, CallsAt,
       LedgerTrue, Follows

LEMMA PodMoves ==
  ASSUME KubernetesInv, KubernetesNext PROVE KubernetesInv'
<1>. USE KubernetesAssumption
     DEF KubernetesAssumption, KubernetesInv, PodTyped, CallsAt, LedgerTrue, Follows,
         Rank, nodeVars, brokerVars, GiveUp, Go, External, Asked
<1>1. ASSUME PrepareIntent PROVE KubernetesInv'
  BY <1>1 DEF PrepareIntent
<1>2. ASSUME CreatePod PROVE KubernetesInv'
  BY <1>2 DEF CreatePod, build_pod_manifest
<1>3. ASSUME BindPod PROVE KubernetesInv'
  BY <1>3 DEF BindPod, Bind, CanBind, _bind, Attested, project_observed_pod, _project_like,
              node_fence, _node_ready, _cgroup_facts, _network, _network_interfaces, _workspace,
              _workspace_size, build_pod_manifest
<1>4. ASSUME AdoptIntent PROVE KubernetesInv'
  BY <1>4 DEF AdoptIntent, Bind, CanBind, _bind, Attested, project_observed_pod, _project_like,
              node_fence, _node_ready, _cgroup_facts, _network, _network_interfaces, _workspace,
              _workspace_size, build_pod_manifest
<1>5. ASSUME FindPod PROVE KubernetesInv'
  BY <1>5 DEF FindPod, find
<1>6. ASSUME RecordBound PROVE KubernetesInv'
  BY <1>6 DEF RecordBound
<1>7. ASSUME BeginStaging PROVE KubernetesInv'
  BY <1>7 DEF BeginStaging
<1>8. ASSUME RebindPod PROVE KubernetesInv'
  BY <1>8 DEF RebindPod, Bind, CanBind, _bind, Attested, project_observed_pod, _project_like,
              node_fence, _node_ready, _cgroup_facts, _network, _network_interfaces, _workspace,
              _workspace_size, build_pod_manifest
<1>9. ASSUME StageOrCollect PROVE KubernetesInv'
  BY <1>9 DEF StageOrCollect, _exec
<1>10. ASSUME RequestTermination PROVE KubernetesInv'
  BY <1>10 DEF RequestTermination
<1>11. ASSUME RecoverUnit PROVE KubernetesInv'
  BY <1>11 DEF RecoverUnit, Recovers
<1>12. ASSUME TerminatePod PROVE KubernetesInv'
  BY <1>12 DEF TerminatePod
<1>13. ASSUME ConfirmPodExit PROVE KubernetesInv'
  BY <1>13 DEF ConfirmPodExit, Confirm, CanProve, Needed, Repeated, _proof, Evident, transition,
               InDoubt, _select_sandbox
<1>14. ASSUME ConfirmExitAgain PROVE KubernetesInv'
  BY <1>14 DEF ConfirmExitAgain, Confirm, CanProve, Needed, Repeated, _proof, Evident, transition,
               InDoubt, _select_sandbox
<1>15. ASSUME ConfirmPodEmpty PROVE KubernetesInv'
  BY <1>15 DEF ConfirmPodEmpty, Confirm, CanProve, Needed, Repeated, _proof, Evident, transition,
               InDoubt, _select_sandbox
<1>16. ASSUME DeletePod PROVE KubernetesInv'
  BY <1>16 DEF DeletePod
<1>17. ASSUME ConfirmPodRemoved PROVE KubernetesInv'
  BY <1>17 DEF ConfirmPodRemoved, Confirm, CanProve, Needed, Repeated, _proof, Evident, transition,
               InDoubt, _select_sandbox
<1>18. ASSUME ConfirmPodAbsent PROVE KubernetesInv'
  BY <1>18 DEF ConfirmPodAbsent
<1>19. ASSUME RecordProof PROVE KubernetesInv'
  BY <1>19 DEF RecordProof
<1>20. ASSUME acknowledge_recovery PROVE KubernetesInv'
  BY <1>20 DEF acknowledge_recovery, _acknowledge
<1>21. ASSUME DiscardAcknowledged PROVE KubernetesInv'
  BY <1>21 DEF DiscardAcknowledged
<1>22. ASSUME ReconcilePod PROVE KubernetesInv'
  BY <1>22 DEF ReconcilePod, discover_pods
<1>23. ASSUME MarkAcknowledged PROVE KubernetesInv'
  BY <1>23 DEF MarkAcknowledged
<1>24. ASSUME KubernetesCrash PROVE KubernetesInv'
  BY <1>24 DEF KubernetesCrash
<1>25. ASSUME RestoreLedger PROVE KubernetesInv'
  BY <1>25 DEF RestoreLedger, _restore_record
<1>26. ASSUME PodStarts PROVE KubernetesInv'
  BY <1>26 DEF PodStarts, Kubelet
<1>27. ASSUME PodExits PROVE KubernetesInv'
  BY <1>27 DEF PodExits, Kubelet
<1>28. ASSUME SandboxStops PROVE KubernetesInv'
  BY <1>28 DEF SandboxStops, Kubelet
<1>29. ASSUME SandboxRemoved PROVE KubernetesInv'
  BY <1>29 DEF SandboxRemoved, Kubelet
<1>. QED
  BY <1>1, <1>2, <1>3, <1>4, <1>5, <1>6, <1>7, <1>8, <1>9, <1>10, <1>11, <1>12, <1>13, <1>14,
       <1>15, <1>16, <1>17, <1>18, <1>19, <1>20, <1>21, <1>22, <1>23, <1>24, <1>25, <1>26,
       <1>27, <1>28, <1>29
     DEF KubernetesNext, KubernetesCreate, KubernetesWorkspace, KubernetesTerminate, KubeletStep

PodFlags == object \in BOOLEAN /\ admits \in BOOLEAN

LEMMA FlagsMove ==
  ASSUME PodFlags, KubernetesNext PROVE PodFlags'
<1>. USE DEF PodFlags, nodeVars, brokerVars, GiveUp, Go, External, Asked
<1>1. ASSUME PrepareIntent PROVE PodFlags'
  BY <1>1 DEF PrepareIntent
<1>2. ASSUME CreatePod PROVE PodFlags'
  BY <1>2 DEF CreatePod, build_pod_manifest
<1>3. ASSUME BindPod PROVE PodFlags'
  BY <1>3 DEF BindPod, Bind, CanBind, _bind, Attested, project_observed_pod, _project_like,
              node_fence, _node_ready, _cgroup_facts, _network, _network_interfaces, _workspace,
              _workspace_size, build_pod_manifest
<1>4. ASSUME AdoptIntent PROVE PodFlags'
  BY <1>4 DEF AdoptIntent, Bind, CanBind, _bind, Attested, project_observed_pod, _project_like,
              node_fence, _node_ready, _cgroup_facts, _network, _network_interfaces, _workspace,
              _workspace_size, build_pod_manifest
<1>5. ASSUME FindPod PROVE PodFlags'
  BY <1>5 DEF FindPod, find
<1>6. ASSUME RecordBound PROVE PodFlags'
  BY <1>6 DEF RecordBound
<1>7. ASSUME BeginStaging PROVE PodFlags'
  BY <1>7 DEF BeginStaging
<1>8. ASSUME RebindPod PROVE PodFlags'
  BY <1>8 DEF RebindPod, Bind, CanBind, _bind, Attested, project_observed_pod, _project_like,
              node_fence, _node_ready, _cgroup_facts, _network, _network_interfaces, _workspace,
              _workspace_size, build_pod_manifest
<1>9. ASSUME StageOrCollect PROVE PodFlags'
  BY <1>9 DEF StageOrCollect, _exec
<1>10. ASSUME RequestTermination PROVE PodFlags'
  BY <1>10 DEF RequestTermination
<1>11. ASSUME RecoverUnit PROVE PodFlags'
  BY <1>11 DEF RecoverUnit, Recovers
<1>12. ASSUME TerminatePod PROVE PodFlags'
  BY <1>12 DEF TerminatePod
<1>13. ASSUME ConfirmPodExit PROVE PodFlags'
  BY <1>13 DEF ConfirmPodExit, Confirm, CanProve, Needed, Repeated, _proof, Evident, transition,
               InDoubt, _select_sandbox
<1>14. ASSUME ConfirmExitAgain PROVE PodFlags'
  BY <1>14 DEF ConfirmExitAgain, Confirm, CanProve, Needed, Repeated, _proof, Evident, transition,
               InDoubt, _select_sandbox
<1>15. ASSUME ConfirmPodEmpty PROVE PodFlags'
  BY <1>15 DEF ConfirmPodEmpty, Confirm, CanProve, Needed, Repeated, _proof, Evident, transition,
               InDoubt, _select_sandbox
<1>16. ASSUME DeletePod PROVE PodFlags'
  BY <1>16 DEF DeletePod
<1>17. ASSUME ConfirmPodRemoved PROVE PodFlags'
  BY <1>17 DEF ConfirmPodRemoved, Confirm, CanProve, Needed, Repeated, _proof, Evident, transition,
               InDoubt, _select_sandbox
<1>18. ASSUME ConfirmPodAbsent PROVE PodFlags'
  BY <1>18 DEF ConfirmPodAbsent
<1>19. ASSUME RecordProof PROVE PodFlags'
  BY <1>19 DEF RecordProof
<1>20. ASSUME acknowledge_recovery PROVE PodFlags'
  BY <1>20 DEF acknowledge_recovery, _acknowledge
<1>21. ASSUME DiscardAcknowledged PROVE PodFlags'
  BY <1>21 DEF DiscardAcknowledged
<1>22. ASSUME ReconcilePod PROVE PodFlags'
  BY <1>22 DEF ReconcilePod, discover_pods
<1>23. ASSUME MarkAcknowledged PROVE PodFlags'
  BY <1>23 DEF MarkAcknowledged
<1>24. ASSUME KubernetesCrash PROVE PodFlags'
  BY <1>24 DEF KubernetesCrash
<1>25. ASSUME RestoreLedger PROVE PodFlags'
  BY <1>25 DEF RestoreLedger, _restore_record
<1>26. ASSUME PodStarts PROVE PodFlags'
  BY <1>26 DEF PodStarts, Kubelet
<1>27. ASSUME PodExits PROVE PodFlags'
  BY <1>27 DEF PodExits, Kubelet
<1>28. ASSUME SandboxStops PROVE PodFlags'
  BY <1>28 DEF SandboxStops, Kubelet
<1>29. ASSUME SandboxRemoved PROVE PodFlags'
  BY <1>29 DEF SandboxRemoved, Kubelet
<1>. QED
  BY <1>1, <1>2, <1>3, <1>4, <1>5, <1>6, <1>7, <1>8, <1>9, <1>10, <1>11, <1>12, <1>13, <1>14,
       <1>15, <1>16, <1>17, <1>18, <1>19, <1>20, <1>21, <1>22, <1>23, <1>24, <1>25, <1>26,
       <1>27, <1>28, <1>29
     DEF KubernetesNext, KubernetesCreate, KubernetesWorkspace, KubernetesTerminate, KubeletStep

\* The evidence that is recorded changes in one action only.
LEMMA ProofsRecorded ==
  ASSUME KubernetesInv, KubernetesNext, ~RecordProof
  PROVE  KubernetesProofs' = KubernetesProofs
<1>. USE DEF KubernetesInv, KubernetesProofs, CallsAt, PodTyped, nodeVars, brokerVars, GiveUp,
             Go,
             External, Asked
<1>1. ASSUME PrepareIntent PROVE KubernetesProofs' = KubernetesProofs
  BY <1>1 DEF PrepareIntent
<1>2. ASSUME CreatePod PROVE KubernetesProofs' = KubernetesProofs
  BY <1>2 DEF CreatePod, build_pod_manifest
<1>3. ASSUME BindPod PROVE KubernetesProofs' = KubernetesProofs
  BY <1>3 DEF BindPod, Bind, CanBind, _bind, Attested, project_observed_pod, _project_like,
              node_fence, _node_ready, _cgroup_facts, _network, _network_interfaces, _workspace,
              _workspace_size, build_pod_manifest
<1>4. ASSUME AdoptIntent PROVE KubernetesProofs' = KubernetesProofs
  BY <1>4 DEF AdoptIntent, Bind, CanBind, _bind, Attested, project_observed_pod, _project_like,
              node_fence, _node_ready, _cgroup_facts, _network, _network_interfaces, _workspace,
              _workspace_size, build_pod_manifest
<1>5. ASSUME FindPod PROVE KubernetesProofs' = KubernetesProofs
  BY <1>5 DEF FindPod, find
<1>6. ASSUME RecordBound PROVE KubernetesProofs' = KubernetesProofs
  BY <1>6 DEF RecordBound
<1>7. ASSUME BeginStaging PROVE KubernetesProofs' = KubernetesProofs
  BY <1>7 DEF BeginStaging
<1>8. ASSUME RebindPod PROVE KubernetesProofs' = KubernetesProofs
  BY <1>8 DEF RebindPod, Bind, CanBind, _bind, Attested, project_observed_pod, _project_like,
              node_fence, _node_ready, _cgroup_facts, _network, _network_interfaces, _workspace,
              _workspace_size, build_pod_manifest
<1>9. ASSUME StageOrCollect PROVE KubernetesProofs' = KubernetesProofs
  BY <1>9 DEF StageOrCollect, _exec
<1>10. ASSUME RequestTermination PROVE KubernetesProofs' = KubernetesProofs
  BY <1>10 DEF RequestTermination
<1>11. ASSUME RecoverUnit PROVE KubernetesProofs' = KubernetesProofs
  BY <1>11 DEF RecoverUnit, Recovers
<1>12. ASSUME TerminatePod PROVE KubernetesProofs' = KubernetesProofs
  BY <1>12 DEF TerminatePod
<1>13. ASSUME ConfirmPodExit PROVE KubernetesProofs' = KubernetesProofs
  BY <1>13 DEF ConfirmPodExit, Confirm, CanProve, Needed, Repeated, _proof, Evident, transition,
               InDoubt, _select_sandbox
<1>14. ASSUME ConfirmExitAgain PROVE KubernetesProofs' = KubernetesProofs
  BY <1>14 DEF ConfirmExitAgain, Confirm, CanProve, Needed, Repeated, _proof, Evident, transition,
               InDoubt, _select_sandbox
<1>15. ASSUME ConfirmPodEmpty PROVE KubernetesProofs' = KubernetesProofs
  BY <1>15 DEF ConfirmPodEmpty, Confirm, CanProve, Needed, Repeated, _proof, Evident, transition,
               InDoubt, _select_sandbox
<1>16. ASSUME DeletePod PROVE KubernetesProofs' = KubernetesProofs
  BY <1>16 DEF DeletePod
<1>17. ASSUME ConfirmPodRemoved PROVE KubernetesProofs' = KubernetesProofs
  BY <1>17 DEF ConfirmPodRemoved, Confirm, CanProve, Needed, Repeated, _proof, Evident, transition,
               InDoubt, _select_sandbox
<1>18. ASSUME ConfirmPodAbsent PROVE KubernetesProofs' = KubernetesProofs
  BY <1>18 DEF ConfirmPodAbsent
<1>19. ASSUME acknowledge_recovery PROVE KubernetesProofs' = KubernetesProofs
  BY <1>19 DEF acknowledge_recovery, _acknowledge
<1>20. ASSUME DiscardAcknowledged PROVE KubernetesProofs' = KubernetesProofs
  BY <1>20 DEF DiscardAcknowledged
<1>21. ASSUME ReconcilePod PROVE KubernetesProofs' = KubernetesProofs
  BY <1>21 DEF ReconcilePod, discover_pods
<1>22. ASSUME MarkAcknowledged PROVE KubernetesProofs' = KubernetesProofs
  BY <1>22 DEF MarkAcknowledged
<1>23. ASSUME KubernetesCrash PROVE KubernetesProofs' = KubernetesProofs
  BY <1>23 DEF KubernetesCrash
<1>24. ASSUME RestoreLedger PROVE KubernetesProofs' = KubernetesProofs
  BY <1>24 DEF RestoreLedger, _restore_record
<1>25. ASSUME PodStarts PROVE KubernetesProofs' = KubernetesProofs
  BY <1>25 DEF PodStarts, Kubelet
<1>26. ASSUME PodExits PROVE KubernetesProofs' = KubernetesProofs
  BY <1>26 DEF PodExits, Kubelet
<1>27. ASSUME SandboxStops PROVE KubernetesProofs' = KubernetesProofs
  BY <1>27 DEF SandboxStops, Kubelet
<1>28. ASSUME SandboxRemoved PROVE KubernetesProofs' = KubernetesProofs
  BY <1>28 DEF SandboxRemoved, Kubelet
<1>. QED
  BY <1>1, <1>2, <1>3, <1>4, <1>5, <1>6, <1>7, <1>8, <1>9, <1>10, <1>11, <1>12, <1>13, <1>14,
       <1>15, <1>16, <1>17, <1>18, <1>19, <1>20, <1>21, <1>22, <1>23, <1>24, <1>25, <1>26,
       <1>27, <1>28
     DEF KubernetesNext, KubernetesCreate, KubernetesWorkspace, KubernetesTerminate, KubeletStep

LEMMA PodConforms ==
  ASSUME KubernetesInv, [KubernetesNext]_kubernetesVars, KubernetesInv'
  PROVE  [Kubernetes!ContractNext]_(Kubernetes!contractVars)
<1>. DEFINE Proved == Kubernetes!Kept(sandbox = "running", sandbox \in {"running", "exited"},
                                      object \/ sandbox # "none", KubernetesProofs)
<1>0. Proved'
  BY DEF KubernetesInv, LedgerTrue, Follows, PodTyped, Kubernetes!Kept, KubernetesProofs
<1>1. CASE UNCHANGED kubernetesVars
  BY <1>1 DEF kubernetesVars, KubernetesProofs, Kubernetes!contractVars
<1>2. ASSUME RecordProof
      PROVE  \E e \in Kubernetes!Evidence : Kubernetes!Prove(e)
  <2>1. UNCHANGED <<object, sandbox>>
    BY <1>2 DEF RecordProof, nodeVars
  <2>2. KubernetesProofs = Kubernetes!Before(unit')
        /\ KubernetesProofs' = KubernetesProofs \cup {unit'}
        /\ unit' \in Kubernetes!Evidence
    BY <1>2 DEF RecordProof, KubernetesInv, CallsAt, PodTyped, KubernetesProofs,
                Kubernetes!Before,
                Kubernetes!Evidence
  <2>3. Kubernetes!Kept(sandbox = "running", sandbox \in {"running", "exited"},
                        object \/ sandbox # "none", KubernetesProofs')
    BY <1>0, <2>1
  <2>. QED
    BY <2>1, <2>2, <2>3 DEF Kubernetes!Prove
<1>3. ASSUME KubernetesNext, ~RecordProof
      PROVE  Kubernetes!Change
  BY <1>0, <1>3, ProofsRecorded DEF Kubernetes!Change
<1>. QED
  BY <1>1, <1>2, <1>3 DEF Kubernetes!ContractNext

\* Whatever calls are lost or handled late, and wherever the broker or the attester dies: a
\* Pod of which an end is recorded has come to it, the attester knows no less of it than the
\* broker, and one that a worker may use is the attested one (broker/kubernetes_runtime.py,
\* broker/kubernetes_attester_service.py).
THEOREM PodsAreHonest == KubernetesSpec => KubernetesHonest
<1>1. KubernetesInit => KubernetesInv /\ PodFlags /\ Kubernetes!ContractInit
  <2>1. ASSUME KubernetesInit PROVE PodFlags
    BY <2>1 DEF KubernetesInit, PodFlags
  <2>2. ASSUME KubernetesInit PROVE Kubernetes!ContractInit
    BY <2>2 DEF KubernetesInit, KubernetesProofs, Kubernetes!ContractInit
  <2>. QED
    BY <2>1, <2>2, PodInitially
<1>2. KubernetesInv /\ PodFlags /\ [KubernetesNext]_kubernetesVars =>
         KubernetesInv' /\ PodFlags' /\ [Kubernetes!ContractNext]_(Kubernetes!contractVars)
  <2>. SUFFICES ASSUME KubernetesInv, PodFlags, [KubernetesNext]_kubernetesVars
                PROVE  KubernetesInv' /\ PodFlags'
    BY PodConforms
  <2>1. CASE UNCHANGED kubernetesVars
    <3>1. KubernetesInv'
      BY <2>1 DEF kubernetesVars, KubernetesInv, PodTyped, LedgerTrue, Follows
    <3>2. PodFlags'
      BY <2>1 DEF kubernetesVars, PodFlags
    <3>. QED
      BY <3>1, <3>2
  <2>. QED
    BY <2>1, PodMoves, FlagsMove
<1>3. KubernetesInv /\ PodFlags => KubernetesTypeOK /\ LedgerAhead /\ UsedAsAttested
  <2>. SUFFICES ASSUME KubernetesInv, PodFlags
                PROVE  KubernetesTypeOK /\ LedgerAhead /\ UsedAsAttested
    OBVIOUS
  <2>1. \E i \in DOMAIN LedgerStates : ledger = LedgerStates[i]
    BY LedgerNames DEF KubernetesInv, PodTyped
  <2>2. unit \in UnitStates \cup {"gone"}
    BY DEF KubernetesInv, PodTyped, UnitStates
  <2>3. KubernetesTypeOK
    BY <2>1, <2>2 DEF KubernetesTypeOK, KubernetesInv, PodTyped, PodFlags
  <2>4. LedgerAhead
    BY DEF LedgerAhead, Rank, KubernetesInv, PodTyped, LedgerTrue, Follows
  <2>5. UsedAsAttested
    BY DEF UsedAsAttested, KubernetesInv, LedgerTrue, Follows
  <2>. QED
    BY <2>3, <2>4, <2>5
<1>. QED
  BY <1>1, <1>2, <1>3, PTL DEF KubernetesSpec, KubernetesHonest, Kubernetes!Contract

=============================================================================
