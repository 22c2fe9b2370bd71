----------------------- MODULE TemplateCatalog_proofs -----------------------
(* What the template catalog keeps, for every number of templates, versions, *)
(* processes and jobs, on SQLite and on PostgreSQL, whatever fails. The      *)
(* invariant says what the rows agree on, what each process may still rely   *)
(* on of the version that it is working at, and which two processes never    *)
(* work at the same version. A process that a step does not concern keeps    *)
(* its part because of the few things that the step can do to a row.         *)
EXTENDS TemplateCatalog, WellFoundedInduction, TLAPS

Storing == {"put", "finalize"}
Publishing == Storing \cup {"undo", "abort"}
Claiming == {"claimed", "aborting", "releasing"}
Erasing == {"erase", "drop", "erasing", "dropping"}
Retaining == {"retained", "completing"}
Holding == {"finalize", "undo"}

Row(t) == templates[t]
Of(v, t) == versions[v].template = t
PublishedVersion(v) == versions[v].state = "published"
Pc(p) == process[p].pc
Held(v) == \E p \in Processes : Pc(p) \in Holding /\ process[p].version = v
Decided == "ambiguous" \notin catalogFaults
Clean == "crash" \notin catalogFaults /\ "storage" \notin catalogFaults

----------------------------------------------------------------------------
(* The invariant.                                                          *)

VersionRowsAgree ==
    \A v \in Versions :
        /\ versions[v].state = "absent" => versions[v] = NoVersion
        /\ versions[v].state # "absent" =>
              /\ v \in drawn
              /\ versions[v].template \in Templates
              /\ Row(versions[v].template).state # "absent"
        /\ versions[v].state = "pending" => versions[v].retention = NULL
        /\ PublishedVersion(v) => versions[v].token = NULL

TemplateRowsAgree ==
    \A t \in Templates :
        /\ Row(t).state # "absent" => t \in drawn
        /\ Row(t).state = "pending" =>
              \A v, w \in Versions : Of(v, t) /\ Of(w, t) => v = w /\ versions[v].state = "pending"
        /\ Row(t).state = "published" =>
              /\ Row(t).current \in Versions
              /\ PublishedVersion(Row(t).current)
              /\ Of(Row(t).current, t)
              /\ Decided => Row(t).current \in stored

\* A version that a cleanup may take is used by nobody.
RetainedUnused ==
    \A v \in Versions : versions[v].retention # NULL =>
        /\ \A t \in Templates : Row(t).current # v
        /\ \A j \in Submissions : frozen[j].version = v => frozen[j].expired

NumbersAgree ==
    /\ \A v, w \in Versions :
          /\ versions[v].state # "absent" /\ versions[w].state # "absent"
          /\ versions[v].template = versions[w].template
          /\ versions[v].number = versions[w].number
          => v = w
    /\ \A t \in Templates : Row(t).state = "published" =>
          \A v \in Versions : PublishedVersion(v) /\ Of(v, t) =>
              versions[v].number <= versions[Row(t).current].number

NumbersBounded == \E n \in Nat : \A v \in Versions : versions[v].number <= n

FrozenAgree ==
    \A j \in Submissions :
        /\ frozen[j].version # NULL =>
              /\ frozen[j].template \in Templates
              /\ Row(frozen[j].template).state = "published"
        /\ frozen[j].version = NULL => frozen[j].template = NULL
        /\ frozen[j].version # NULL /\ ~frozen[j].expired =>
              /\ PublishedVersion(frozen[j].version)
              /\ Of(frozen[j].version, frozen[j].template)
              /\ Decided => frozen[j].version \in stored

SelectionsAgree ==
    ~PostgreSQL =>
        /\ \A p \in Processes : Pc(p) # "upsert"
        /\ \A t \in Templates : Row(t).state = "deleting" => ~Restricted(t)

\* Where an operation is tells what it works at.
WorkPlaced(p) ==
    /\ process[p].version \in drawn \cup {NULL}
    /\ process[p].todo \subseteq drawn
    /\ process[p].template # NULL => process[p].template \in drawn
    /\ Pc(p) \in Publishing => process[p].version # NULL /\ process[p].template # NULL
    /\ Pc(p) \in {"read", "upsert"} => process[p].template # NULL
    /\ Pc(p) = "claimed" => process[p].version = NULL
    /\ Pc(p) \in {"aborting", "releasing"} => process[p].version \in process[p].todo
    /\ Pc(p) \in Erasing => process[p].version = NULL /\ process[p].template # NULL
    /\ Pc(p) \in Retaining => process[p].version # NULL
    /\ Pc(p) \in {"idle", "read", "upsert", "deletions"} => process[p].version = NULL
    /\ Pc(p) \notin Claiming \cup {"erase", "erasing"} => process[p].todo = {}

\* The publication that would still succeed has its object, and its number is
\* above every published one.
Publishes(p) ==
    LET v == process[p].version
        t == process[p].template
    IN  /\ versions[v].state # "absent" => Of(v, t)
        /\ Pc(p) \in Storing \/ Decided => ~PublishedVersion(v)
        /\ Row(t).state # "absent" => process[p].revision <= Row(t).revision
        /\ Pc(p) \in Storing /\ versions[v].token = p /\ Row(t).state \in {"pending", "published"} =>
              /\ Pc(p) = "finalize" => v \in stored
              /\ Row(t).revision = process[p].revision =>
                    \A w \in Versions : PublishedVersion(w) /\ Of(w, t) =>
                        versions[w].number < versions[v].number
        /\ Pc(p) = "abort" => v \notin stored

Claims(p) == \A v \in process[p].todo : ~PublishedVersion(v)

Erases(p) ==
    /\ Row(process[p].template).state \in {"deleting", "absent"}
    /\ \A v \in process[p].todo : versions[v].state # "absent" => Of(v, process[p].template)

Retains(p) ==
    /\ ~ (versions[process[p].version].state # "absent" /\ versions[process[p].version].retention = NULL)
    /\ Pc(p) = "completing" => process[p].version \notin stored

OwnWork(p) ==
    /\ WorkPlaced(p)
    /\ Pc(p) \in Publishing => Publishes(p)
    /\ Pc(p) \in Claiming => Claims(p)
    /\ Pc(p) \in Erasing => Erases(p)
    /\ Pc(p) \in Retaining => Retains(p)

\* Two processes publish different versions, whoever claims a version has taken
\* its publisher's token, and none is cleaned up while it is being stored.
Apart(p, q) ==
    /\ Pc(p) \in Publishing /\ Pc(q) \in Publishing /\ p # q => process[p].version # process[q].version
    /\ Pc(p) \in Storing /\ Pc(q) \in Claiming /\ process[p].version \in process[q].todo =>
          versions[process[p].version].token # p
    /\ Pc(p) \in Storing /\ Pc(q) \in Retaining => process[p].version # process[q].version

\* Where every object goes while nobody dies and the store answers.
Tracked(v) ==
    versions[v].state = "absent" =>
        \E p \in Processes : process[p].version = v \/ v \in process[p].todo

Traces(p) ==
    /\ Pc(p) = "aborting" /\ process[p].version \in stored => Held(process[p].version)
    /\ Pc(p) \in Erasing => \A v \in stored :
          Of(v, process[p].template) => v \in process[p].todo \/ Held(v)
    /\ Pc(p) # "releasing"

TracesKept ==
    Clean => /\ \A v \in stored : Tracked(v)
             /\ \A p \in Processes : Traces(p)

RowsInv ==
    /\ VersionRowsAgree
    /\ TemplateRowsAgree
    /\ RetainedUnused
    /\ NumbersAgree
    /\ NumbersBounded
    /\ FrozenAgree

CatalogInv ==
    /\ CatalogTypeOK
    /\ RowsInv
    /\ SelectionsAgree
    /\ \A p \in Processes : OwnWork(p)
    /\ \A p, q \in Processes : Apart(p, q)
    /\ TracesKept

----------------------------------------------------------------------------
(* Numbers.                                                                *)

\* A set of numbers below a bound has a greatest one (Max of FiniteSetsExt).
LEMMA MaxBounded ==
    ASSUME NEW S \in SUBSET Nat, S # {}, NEW n \in Nat, \A m \in S : m <= n
    PROVE  Max(S) \in S /\ \A m \in S : m <= Max(S)
<1>. DEFINE B == {b \in Nat : \A m \in S : m <= b}
            Less == OpToRel(<, Nat)
<1>1. PICK b \in B : \A c \in B : ~(<<c, b>> \in Less)
  <2>1. IsWellFoundedOn(Less, Nat)
    BY NatLessThanWellFounded
  <2>2. n \in B /\ B \subseteq Nat
    OBVIOUS
  <2>. QED
    BY <2>1, <2>2, WFMin
<1>2. \A c \in B : ~(c < b)
  <2>1. \A c \in B : c < b => <<c, b>> \in Less
    BY DEF OpToRel
  <2>. QED
    BY <1>1, <2>1
<1>3. b \in S
  <2>. SUFFICES ASSUME b \notin S
                PROVE  FALSE
    OBVIOUS
  <2>1. \A m \in S : m < b
    OBVIOUS
  <2>2. PICK m \in S : m < b
    BY <2>1
  <2>3. b - 1 \in B
    BY <2>1, <2>2
  <2>. QED
    BY <1>2, <2>3
<1>4. \A m \in S : b >= m
  OBVIOUS
<1>. QED
  BY <1>3, <1>4 DEF Max

----------------------------------------------------------------------------
(* Types.                                                                  *)

LEMMA ProcessFields ==
    ASSUME CatalogTypeOK, NEW p \in Processes
    PROVE  /\ process[p] \in Process
           /\ process[p].template \in Templates \cup {NULL}
           /\ process[p].version \in Versions \cup {NULL}
           /\ process[p].revision \in Nat
           /\ process[p].todo \subseteq Versions
BY DEF CatalogTypeOK, Process

LEMMA TemplateFields ==
    ASSUME CatalogTypeOK, NEW t \in Templates
    PROVE  /\ templates[t] \in TemplateRow
           /\ templates[t].state \in {"absent", "pending", "published", "deleting"}
           /\ templates[t].revision \in Nat
           /\ templates[t].current \in Versions \cup {NULL}
BY DEF CatalogTypeOK, TemplateRow

LEMMA VersionFields ==
    ASSUME CatalogTypeOK, NEW v \in Versions
    PROVE  /\ versions[v] \in TemplateVersionRow
           /\ versions[v].state \in {"absent", "pending", "published"}
           /\ versions[v].template \in Templates \cup {NULL}
           /\ versions[v].number \in Nat
           /\ versions[v].token \in Processes \cup {NULL}
           /\ versions[v].retention \in Processes \cup {NULL}
           /\ versions[v].state = "pending" => versions[v].token # NULL
BY DEF CatalogTypeOK, TemplateVersionRow

LEMMA IdleTyped == Idle \in Process
BY CatalogAssumption DEF Idle, Process, Operations

\* The steps that leave the rows alone: the types, whatever the process does.
LEMMA ProcessTyped ==
    ASSUME CatalogTypeOK, NEW p \in Processes, NEW r \in Process,
           process' = [process EXCEPT ![p] = r], UNCHANGED Rows,
           catalogFaults' \subseteq CatalogEvents
    PROVE  CatalogTypeOK'
<1>1. process' \in [Processes -> Process]
  BY DEF CatalogTypeOK
<1>. QED
  BY <1>1 DEF CatalogTypeOK, Rows

----------------------------------------------------------------------------
(* What stays as it was.                                                   *)

LEMMA FaultsGrow ==
    ASSUME catalogFaults \subseteq catalogFaults'
    PROVE  (Decided' => Decided) /\ (Clean' => Clean)
BY DEF Decided, Clean

LEMMA RowsStand ==
    ASSUME RowsInv, UNCHANGED Rows, catalogFaults \subseteq catalogFaults'
    PROVE  RowsInv'
<1>1. Decided' => Decided
  BY FaultsGrow
<1>2. VersionRowsAgree'
  BY DEF RowsInv, VersionRowsAgree, Rows, Row, PublishedVersion
<1>3. TemplateRowsAgree'
  BY <1>1 DEF RowsInv, TemplateRowsAgree, Rows, Row, PublishedVersion, Of
<1>4. RetainedUnused'
  BY DEF RowsInv, RetainedUnused, Rows, Row
<1>5. NumbersAgree' /\ NumbersBounded'
  BY DEF RowsInv, NumbersAgree, NumbersBounded, Rows, Row, PublishedVersion, Of
<1>6. FrozenAgree'
  BY <1>1 DEF RowsInv, FrozenAgree, Rows, Row, PublishedVersion, Of
<1>. QED
  BY <1>2, <1>3, <1>4, <1>5, <1>6 DEF RowsInv

LEMMA WorkStands ==
    ASSUME NEW q \in Processes, OwnWork(q), process'[q] = process[q], UNCHANGED Rows,
           catalogFaults \subseteq catalogFaults'
    PROVE  OwnWork(q)'
<1>1. Decided' => Decided
  BY FaultsGrow
<1>2. Pc(q)' = Pc(q)
  BY DEF Pc
<1>3. WorkPlaced(q)'
  BY <1>2 DEF OwnWork, WorkPlaced, Rows
<1>4. Publishes(q) => Publishes(q)'
  BY <1>1, <1>2 DEF Publishes, Rows, Row, PublishedVersion, Of
<1>5. (Claims(q) => Claims(q)') /\ (Erases(q) => Erases(q)') /\ (Retains(q) => Retains(q)')
  BY <1>2 DEF Claims, Erases, Retains, Rows, Row, PublishedVersion, Of
<1>. QED
  BY <1>2, <1>3, <1>4, <1>5 DEF OwnWork

LEMMA ApartStands ==
    ASSUME NEW q \in Processes, NEW r \in Processes, Apart(q, r),
           process'[q] = process[q], process'[r] = process[r], UNCHANGED versions
    PROVE  Apart(q, r)'
BY DEF Apart, Pc

LEMMA ApartFromItself == \A p \in Processes : Apart(p, p)
BY DEF Apart, Storing, Claiming, Retaining

\* What a step of p leaves of the others.
Others(p) == \A q \in Processes : q # p => process'[q] = process[q]

\* An invariant after a step of p, in its parts.
OthersKept(p) ==
    /\ \A q \in Processes : q # p => OwnWork(q)'
    /\ \A q, r \in Processes : q # p /\ r # p => Apart(q, r)'

LEMMA Composed ==
    ASSUME NEW p \in Processes, CatalogTypeOK', RowsInv', SelectionsAgree', OthersKept(p),
           OwnWork(p)', \A q \in Processes : q # p => Apart(p, q)' /\ Apart(q, p)',
           TracesKept'
    PROVE  CatalogInv'
<1>1. Apart(p, p)'
  BY DEF Apart, Storing, Claiming, Retaining
<1>2. \A q, r \in Processes : Apart(q, r)'
  BY <1>1 DEF OthersKept
<1>3. \A q \in Processes : OwnWork(q)'
  BY DEF OthersKept
<1>. QED
  BY <1>2, <1>3 DEF CatalogInv

LEMMA OthersStand ==
    ASSUME CatalogInv, NEW p \in Processes, Others(p), UNCHANGED Rows,
           catalogFaults \subseteq catalogFaults'
    PROVE  OthersKept(p)
<1>1. \A q \in Processes : q # p => OwnWork(q)'
  BY WorkStands DEF CatalogInv, Others
<1>2. UNCHANGED versions
  BY DEF Rows
<1>3. \A q, r \in Processes : q # p /\ r # p => Apart(q, r)'
  BY <1>2, ApartStands DEF CatalogInv, Others
<1>. QED
  BY <1>1, <1>3 DEF OthersKept

\* An operation that is over, or has not begun to work at a version.
LEMMA ResterIsPlaced ==
    ASSUME NEW p \in Processes,
           Pc(p)' \in {"idle", "read", "upsert", "deletions"},
           process'[p].version = NULL, process'[p].todo = {},
           process'[p].template # NULL => process'[p].template \in drawn',
           Pc(p)' \in {"read", "upsert"} => process'[p].template # NULL
    PROVE  /\ OwnWork(p)'
           /\ \A q \in Processes : Apart(p, q)' /\ Apart(q, p)'
<1>1. OwnWork(p)'
  BY DEF OwnWork, WorkPlaced, Publishing, Storing, Claiming, Erasing, Retaining
<1>2. \A q \in Processes : Apart(p, q)' /\ Apart(q, p)'
  BY DEF Apart, Publishing, Storing, Claiming, Retaining
<1>. QED
  BY <1>1, <1>2

LEMMA IdleIsPlaced ==
    ASSUME CatalogTypeOK, NEW p \in Processes, Return(p)
    PROVE  /\ Others(p)
           /\ process'[p] = Idle
           /\ process' = [process EXCEPT ![p] = Idle]
           /\ OwnWork(p)'
           /\ \A q \in Processes : Apart(p, q)' /\ Apart(q, p)'
<1>1. process'[p] = Idle /\ Others(p)
  BY DEF CatalogTypeOK, Return, Others
<1>2. /\ Pc(p)' = "idle" /\ process'[p].version = NULL /\ process'[p].todo = {}
      /\ process'[p].template = NULL
  BY <1>1 DEF Pc, Idle
<1>3. OwnWork(p)' /\ \A q \in Processes : Apart(p, q)' /\ Apart(q, p)'
  BY <1>2, ResterIsPlaced
<1>. QED
  BY <1>1, <1>3 DEF Return

\* The objects stay traced by the others if p lets go of none.
LEMMA TracesStand ==
    ASSUME TracesKept, NEW p \in Processes, Others(p), UNCHANGED <<versions, stored>>,
           catalogFaults \subseteq catalogFaults', stored \subseteq Versions,
           Clean' => /\ \A v \in stored : process[p].version = v \/ v \in process[p].todo =>
                           process'[p].version = v \/ v \in process'[p].todo
                     /\ Pc(p) \in Holding /\ process[p].version \in stored =>
                           Pc(p)' \in Holding /\ process'[p].version = process[p].version
                     /\ Traces(p)'
    PROVE  TracesKept'
<1>. SUFFICES ASSUME Clean'
              PROVE  /\ \A v \in stored : Tracked(v)'
                     /\ \A q \in Processes : Traces(q)'
  BY DEF TracesKept
<1>1. Clean
  BY FaultsGrow
<1>2. \A v \in stored : Tracked(v)'
  <2>. SUFFICES ASSUME NEW v \in stored, versions[v].state = "absent"
                PROVE  \E q \in Processes : process'[q].version = v \/ v \in process'[q].todo
    BY DEF Tracked
  <2>1. PICK q \in Processes : process[q].version = v \/ v \in process[q].todo
    BY <1>1 DEF TracesKept, Tracked
  <2>. QED
    BY <2>1 DEF Others
<1>3. \A v \in stored : Held(v) => Held(v)'
  <2>. SUFFICES ASSUME NEW v \in stored, Held(v)
                PROVE  Held(v)'
    OBVIOUS
  <2>1. PICK q \in Processes : Pc(q) \in Holding /\ process[q].version = v
    BY DEF Held
  <2>2. q # p => Pc(q)' \in Holding /\ process'[q].version = v
    BY <2>1 DEF Pc, Others
  <2>3. CASE q = p
    <3>1. Pc(p)' \in Holding
      BY <2>1, <2>3
    <3>2. process'[p].version = v
      BY <2>1, <2>3, <3>1
    <3>. QED
      BY <3>1, <3>2 DEF Held
  <2>. QED
    BY <2>2, <2>3 DEF Held
<1>4. ASSUME NEW q \in Processes, q # p
      PROVE  Traces(q)'
  BY <1>1, <1>3, <1>4 DEF TracesKept, Traces, Others, Pc, Of
<1>. QED
  BY <1>2, <1>4

----------------------------------------------------------------------------
(* Steps of a process that change no row and no object.                    *)

LEMMA QuietStep ==
    ASSUME CatalogInv, NEW p \in Processes, NEW r \in Process,
           process' = [process EXCEPT ![p] = r], UNCHANGED Rows,
           catalogFaults \subseteq catalogFaults', catalogFaults' \subseteq CatalogEvents,
           PostgreSQL \/ r.pc # "upsert",
           OwnWork(p)', \A q \in Processes : q # p => Apart(p, q)' /\ Apart(q, p)',
           TracesKept'
    PROVE  CatalogInv'
<1>1. CatalogTypeOK'
  BY ProcessTyped DEF CatalogInv
<1>2. RowsInv'
  BY RowsStand DEF CatalogInv
<1>3. process'[p] = r /\ Others(p)
  BY DEF CatalogInv, CatalogTypeOK, Others
<1>4. OthersKept(p)
  BY <1>3, OthersStand
<1>5. SelectionsAgree'
  BY <1>3 DEF CatalogInv, SelectionsAgree, Pc, Others, Rows, Row, Restricted
<1>. QED
  BY <1>1, <1>2, <1>4, <1>5, Composed

\* A process that stops with nothing in its hands, or is stopped.
LEMMA QuietReturn ==
    ASSUME CatalogInv, NEW p \in Processes, Return(p), UNCHANGED Rows,
           catalogFaults \subseteq catalogFaults', catalogFaults' \subseteq CatalogEvents,
           Clean' => process[p].version \notin stored /\ process[p].todo = {}
    PROVE  CatalogInv'
<1>1. /\ Others(p) /\ process'[p] = Idle /\ process' = [process EXCEPT ![p] = Idle]
      /\ OwnWork(p)' /\ \A q \in Processes : Apart(p, q)' /\ Apart(q, p)'
  BY IdleIsPlaced DEF CatalogInv
<1>2. Traces(p)'
  BY <1>1 DEF Traces, Pc, Idle, Erasing
<1>3. TracesKept'
  BY <1>1, <1>2, TracesStand DEF CatalogInv, CatalogTypeOK, Rows
<1>4. Idle.pc # "upsert"
  BY DEF Idle
<1>. QED
  BY <1>1, <1>3, <1>4, IdleTyped, QuietStep

\* Faults are remembered.
LEMMA Remembered ==
    ASSUME CatalogTypeOK
    PROVE  /\ NoFault => catalogFaults \subseteq catalogFaults' /\ catalogFaults' \subseteq CatalogEvents
           /\ \A kind \in {"crash", "storage", "database", "ambiguous"} : Fault(kind) =>
                 /\ catalogFaults \subseteq catalogFaults' /\ catalogFaults' \subseteq CatalogEvents
                 /\ kind \in catalogFaults'
           /\ Fault("crash") => ~Clean'
           /\ Fault("storage") => ~Clean'
           /\ Fault("ambiguous") => ~Decided'
BY DEF CatalogTypeOK, NoFault, Fault, Clean, Decided

LEMMA NothingInHand ==
    ASSUME CatalogInv, NEW p \in Processes,
           Pc(p) \in {"idle", "read", "upsert", "deletions", "drop", "dropping"}
    PROVE  process[p].version = NULL /\ process[p].version \notin stored /\ process[p].todo = {}
<1>1. WorkPlaced(p) /\ stored \subseteq Versions
  BY DEF CatalogInv, OwnWork, CatalogTypeOK
<1>. QED
  BY <1>1, CatalogAssumption DEF WorkPlaced, Claiming, Erasing

LEMMA CrashKeeps ==
    ASSUME CatalogInv, NEW p \in Processes, Crash(p)
    PROVE  CatalogInv'
<1>1. /\ ~Clean' /\ Return(p) /\ UNCHANGED Rows
      /\ catalogFaults \subseteq catalogFaults' /\ catalogFaults' \subseteq CatalogEvents
  BY Remembered DEF CatalogInv, Crash
<1>. QED
  BY <1>1, QuietReturn

LEMMA StorageFailureReturns ==
    ASSUME CatalogInv, NEW p \in Processes,
           \/ CompensateFails(p) \/ DeleteObjectsFails(p) \/ DeletionFails(p)
           \/ RetainedObjectFails(p)
    PROVE  CatalogInv'
<1>1. Fault("storage") /\ Return(p) /\ UNCHANGED Rows
  BY DEF CompensateFails, DeleteObjectsFails, DeletionFails, RetainedObjectFails
<1>2. /\ ~Clean'
      /\ catalogFaults \subseteq catalogFaults' /\ catalogFaults' \subseteq CatalogEvents
  BY <1>1, Remembered DEF CatalogInv
<1>. QED
  BY <1>1, <1>2, QuietReturn

LEMMA RefusalReturns ==
    ASSUME CatalogInv, NEW p \in Processes, At(p, "read"), Return(p), NoFault, UNCHANGED Rows
    PROVE  CatalogInv'
<1>1. catalogFaults \subseteq catalogFaults' /\ catalogFaults' \subseteq CatalogEvents
  BY Remembered DEF CatalogInv
<1>2. process[p].version \notin stored /\ process[p].todo = {}
  BY NothingInHand DEF At, Pc
<1>. QED
  BY <1>1, <1>2, QuietReturn

LEMMA ReserveRefusedKeeps ==
    ASSUME CatalogInv, NEW p \in Processes, ReserveRefused(p)
    PROVE  CatalogInv'
BY RefusalReturns DEF ReserveRefused

----------------------------------------------------------------------------
(* Steps that move on.                                                     *)

LEMMA GotoSets ==
    ASSUME CatalogTypeOK, NEW p \in Processes,
           NEW pc \in {"idle", "read", "put", "finalize", "undo", "abort", "begin", "erase",
                       "drop", "upsert", "claimed", "aborting", "releasing", "deletions",
                       "erasing", "dropping", "retained", "completing"},
           Goto(p, pc)
    PROVE  /\ Others(p)
           /\ Pc(p)' = pc
           /\ process'[p].op = process[p].op
           /\ process'[p].version = process[p].version
           /\ process'[p].template = process[p].template
           /\ process'[p].revision = process[p].revision
           /\ process'[p].todo = process[p].todo
           /\ process' = [process EXCEPT ![p] = [process[p] EXCEPT !.pc = pc]]
           /\ [process[p] EXCEPT !.pc = pc] \in Process
<1>1. process[p] \in Process /\ process \in [Processes -> Process]
  BY DEF CatalogTypeOK
<1>2. process' = [process EXCEPT ![p] = [process[p] EXCEPT !.pc = pc]]
  BY DEF Goto
<1>3. [process[p] EXCEPT !.pc = pc] \in Process
  BY <1>1 DEF Process
<1>4. process'[p] = [process[p] EXCEPT !.pc = pc] /\ Others(p)
  BY <1>1, <1>2 DEF Others
<1>. QED
  BY <1>1, <1>2, <1>3, <1>4 DEF Pc, Process

LEMMA ReadKeeps ==
    ASSUME CatalogInv, NEW p \in Processes, NEW op \in Offered, NEW t \in Templates, Read(p, op, t)
    PROVE  CatalogInv'
<1>. DEFINE r == [Idle EXCEPT !.pc = "read", !.op = op, !.template = t,
                              !.revision = templates[t].revision]
<1>1. /\ process' = [process EXCEPT ![p] = r] /\ UNCHANGED Rows
      /\ catalogFaults \subseteq catalogFaults' /\ catalogFaults' \subseteq CatalogEvents
      /\ Pc(p) = "idle" /\ Row(t).state = "published"
  BY Remembered DEF CatalogInv, Read, At, Pc, Visible, Row
<1>2. r \in Process
  BY TemplateFields, CatalogAssumption DEF CatalogInv, Idle, Process, Operations
<1>3. process'[p] = r /\ Others(p)
  BY <1>1 DEF CatalogInv, CatalogTypeOK, Others
<1>4. /\ Pc(p)' = "read" /\ process'[p].version = NULL /\ process'[p].todo = {}
      /\ process'[p].template = t
  BY <1>3 DEF Pc, Idle
<1>5. t \in drawn' /\ t # NULL
  BY <1>1, CatalogAssumption DEF CatalogInv, RowsInv, TemplateRowsAgree, Rows
<1>6. OwnWork(p)' /\ \A q \in Processes : Apart(p, q)' /\ Apart(q, p)'
  BY <1>4, <1>5, ResterIsPlaced
<1>7. Traces(p)'
  BY <1>4 DEF Traces, Erasing
<1>8. TracesKept'
  BY <1>1, <1>3, <1>4, <1>7, NothingInHand, TracesStand
     DEF CatalogInv, CatalogTypeOK, Rows, Holding
<1>9. r.pc # "upsert"
  BY DEF Idle
<1>. QED
  BY <1>1, <1>2, <1>6, <1>8, <1>9, QuietStep

\* The publisher gives up: its object goes next.
LEMMA GivesUp ==
    ASSUME CatalogInv, NEW p \in Processes, Pc(p) \in Storing, Goto(p, "undo"), UNCHANGED Rows,
           catalogFaults \subseteq catalogFaults', catalogFaults' \subseteq CatalogEvents,
           Pc(p) = "finalize" \/ ~Clean'
    PROVE  CatalogInv'
<1>. DEFINE r == [process[p] EXCEPT !.pc = "undo"]
<1>1. /\ Others(p) /\ Pc(p)' = "undo" /\ process'[p].version = process[p].version
      /\ process'[p].template = process[p].template /\ process'[p].todo = process[p].todo
      /\ process'[p].revision = process[p].revision
      /\ process' = [process EXCEPT ![p] = r] /\ r \in Process
  BY GotoSets DEF CatalogInv
<1>2. WorkPlaced(p) /\ Publishes(p)
  BY DEF CatalogInv, OwnWork, Publishing
<1>3. WorkPlaced(p)'
  BY <1>1, <1>2 DEF WorkPlaced, Publishing, Storing, Claiming, Erasing, Retaining, Rows
<1>4. Publishes(p)'
  BY <1>1, <1>2 DEF Publishes, Storing, Rows, Row, PublishedVersion, Of
<1>5. OwnWork(p)'
  BY <1>1, <1>3, <1>4 DEF OwnWork, Claiming, Erasing, Retaining
<1>6. \A q \in Processes : q # p => Apart(p, q)' /\ Apart(q, p)'
  BY <1>1 DEF CatalogInv, Apart, Others, Pc, Publishing, Storing, Claiming, Retaining
<1>7. Traces(p)'
  BY <1>1 DEF Traces, Erasing
<1>8. TracesKept'
  BY <1>1, <1>7, TracesStand DEF CatalogInv, CatalogTypeOK, Rows, Holding
<1>9. r.pc # "upsert"
  BY <1>1 DEF CatalogInv, CatalogTypeOK, Pc
<1>. QED
  BY <1>1, <1>5, <1>6, <1>8, <1>9, QuietStep

LEMMA PutFailsKeeps ==
    ASSUME CatalogInv, NEW p \in Processes, PutFails(p)
    PROVE  CatalogInv'
<1>1. Pc(p) \in Storing /\ Goto(p, "undo") /\ UNCHANGED Rows /\ Fault("storage")
  BY DEF PutFails, At, Pc, Storing
<1>. QED
  BY <1>1, Remembered, GivesUp DEF CatalogInv

LEMMA FinalizeRefusedKeeps ==
    ASSUME CatalogInv, NEW p \in Processes,
           \/ FinalizeRefused(p)
           \/ At(p, "finalize") /\ Fault("database") /\ UNCHANGED Rows /\ Goto(p, "undo")
    PROVE  CatalogInv'
<1>1. /\ Pc(p) = "finalize" /\ Goto(p, "undo") /\ UNCHANGED Rows
      /\ NoFault \/ Fault("database")
  BY DEF FinalizeRefused, At, Pc
<1>2. catalogFaults \subseteq catalogFaults' /\ catalogFaults' \subseteq CatalogEvents
  BY <1>1, Remembered DEF CatalogInv
<1>. QED
  BY <1>1, <1>2, GivesUp DEF Storing

\* The check that a selection passed on PostgreSQL, without a lock.
LEMMA RequireActiveLater ==
    ASSUME CatalogInv, NEW p \in Processes, At(p, "read"), PostgreSQL, Goto(p, "upsert"),
           NoFault, UNCHANGED Rows
    PROVE  CatalogInv'
<1>. DEFINE r == [process[p] EXCEPT !.pc = "upsert"]
<1>1. /\ Others(p) /\ Pc(p)' = "upsert" /\ process'[p].version = process[p].version
      /\ process'[p].template = process[p].template /\ process'[p].todo = process[p].todo
      /\ process' = [process EXCEPT ![p] = r] /\ r \in Process
  BY GotoSets DEF CatalogInv
<1>2. WorkPlaced(p) /\ Pc(p) = "read"
  BY DEF CatalogInv, OwnWork, At, Pc
<1>3. /\ process'[p].version = NULL /\ process'[p].todo = {} /\ process[p].version \notin stored
      /\ process'[p].template # NULL /\ process'[p].template \in drawn'
  BY <1>1, <1>2, NothingInHand DEF WorkPlaced, Rows
<1>4. OwnWork(p)' /\ \A q \in Processes : Apart(p, q)' /\ Apart(q, p)'
  BY <1>1, <1>3, ResterIsPlaced
<1>5. Traces(p)'
  BY <1>1 DEF Traces, Erasing
<1>6. catalogFaults \subseteq catalogFaults' /\ catalogFaults' \subseteq CatalogEvents
  BY Remembered DEF CatalogInv
<1>7. TracesKept'
  BY <1>1, <1>2, <1>3, <1>5, <1>6, TracesStand DEF CatalogInv, CatalogTypeOK, Rows, Holding
<1>. QED
  BY <1>1, <1>4, <1>6, <1>7, QuietStep

\* The reclaimer goes on to its next version.
LEMMA NextClaimPlaced ==
    ASSUME CatalogTypeOK, NEW p \in Processes, Pc(p) \in {"aborting", "releasing"},
           WorkPlaced(p), drawn \subseteq drawn', NextClaim(p),
           \A v \in process[p].todo : ~PublishedVersion(v)'
    PROVE  /\ Others(p)
           /\ process'[p].version = NULL
           /\ process'[p].todo = process[p].todo \ {process[p].version}
           /\ Pc(p)' \in {"claimed", "deletions"}
           /\ process' = [process EXCEPT ![p] = process'[p]] /\ process'[p] \in Process
           /\ OwnWork(p)'
           /\ \A q \in Processes : Apart(p, q)'
<1>1. process[p] \in Process /\ process \in [Processes -> Process]
  BY DEF CatalogTypeOK
<1>2. /\ process'[p].version = NULL
      /\ process'[p].todo = process[p].todo \ {process[p].version}
      /\ process'[p].template = process[p].template
      /\ Pc(p)' = IF process'[p].todo = {} THEN "deletions" ELSE "claimed"
      /\ process' = [process EXCEPT ![p] = process'[p]] /\ Others(p)
  BY <1>1 DEF NextClaim, Others, Pc, Process
<1>3. process'[p] \in Process
  BY <1>1 DEF NextClaim, Process
<1>4. WorkPlaced(p)'
  BY <1>2 DEF WorkPlaced, Publishing, Storing, Claiming, Erasing, Retaining
<1>5. Claims(p)'
  BY <1>2 DEF Claims
<1>6. OwnWork(p)'
  BY <1>2, <1>4, <1>5 DEF OwnWork, Publishing, Storing, Claiming, Erasing, Retaining
<1>7. \A q \in Processes : Apart(p, q)'
  BY <1>2 DEF Apart, Publishing, Storing, Claiming, Retaining
<1>. QED
  BY <1>2, <1>3, <1>6, <1>7

LEMMA ReleaseKeeps ==
    ASSUME CatalogInv, NEW p \in Processes, release_pending_claim(p)
    PROVE  CatalogInv'
<1>1. /\ Pc(p) = "releasing" /\ NextClaim(p) /\ UNCHANGED Rows
      /\ catalogFaults \subseteq catalogFaults' /\ catalogFaults' \subseteq CatalogEvents
  BY Remembered DEF CatalogInv, release_pending_claim, At, Pc
<1>2. WorkPlaced(p) /\ Claims(p)
  BY <1>1 DEF CatalogInv, OwnWork, Claiming
<1>3. /\ Others(p) /\ process'[p].todo \subseteq process[p].todo
      /\ Pc(p)' \in {"claimed", "deletions"}
      /\ process' = [process EXCEPT ![p] = process'[p]] /\ process'[p] \in Process
      /\ OwnWork(p)' /\ \A q \in Processes : Apart(p, q)'
  <2>1. \A v \in process[p].todo : ~PublishedVersion(v)'
    BY <1>1, <1>2 DEF Claims, PublishedVersion, Rows
  <2>2. drawn \subseteq drawn'
    BY <1>1 DEF Rows
  <2>. QED
    BY <1>1, <1>2, <2>1, <2>2, NextClaimPlaced DEF CatalogInv
<1>4. \A q \in Processes : q # p => Apart(q, p)'
  BY <1>1, <1>3
     DEF CatalogInv, Apart, Others, Pc, Publishing, Storing, Claiming, Retaining, Rows
<1>5. TracesKept'
  BY <1>1, FaultsGrow DEF CatalogInv, TracesKept, Traces
<1>6. process'[p].pc # "upsert"
  BY <1>3 DEF Pc
<1>. QED
  BY <1>1, <1>3, <1>4, <1>5, <1>6, QuietStep

LEMMA ReclaimFailsKeeps ==
    ASSUME CatalogInv, NEW p \in Processes, NEW v \in Versions, ReclaimObjectFails(p, v)
    PROVE  CatalogInv'
<1>. DEFINE r == [process[p] EXCEPT !.pc = "releasing", !.version = v]
<1>1. /\ Pc(p) = "claimed" /\ v \in process[p].todo /\ UNCHANGED Rows
      /\ process' = [process EXCEPT ![p] = r] /\ ~Clean'
      /\ catalogFaults \subseteq catalogFaults' /\ catalogFaults' \subseteq CatalogEvents
  BY Remembered DEF CatalogInv, ReclaimObjectFails, At, Pc
<1>2. r \in Process /\ process'[p] = r /\ Others(p)
  BY <1>1 DEF CatalogInv, CatalogTypeOK, Process, Others
<1>3. /\ Pc(p)' = "releasing" /\ process'[p].version = v /\ process'[p].todo = process[p].todo
      /\ process'[p].template = process[p].template
  BY <1>2, ProcessFields DEF CatalogInv, Pc, Process
<1>4. WorkPlaced(p) /\ Claims(p)
  BY <1>1 DEF CatalogInv, OwnWork, Claiming
<1>5. OwnWork(p)'
  <2>1. WorkPlaced(p)'
    BY <1>1, <1>3, <1>4
       DEF WorkPlaced, Publishing, Storing, Claiming, Erasing, Retaining, Rows
  <2>2. Claims(p)'
    BY <1>1, <1>3, <1>4 DEF Claims, PublishedVersion, Rows
  <2>. QED
    BY <1>3, <2>1, <2>2 DEF OwnWork, Publishing, Storing, Erasing, Retaining
<1>6. \A q \in Processes : q # p => Apart(p, q)' /\ Apart(q, p)'
  BY <1>1, <1>2, <1>3
     DEF CatalogInv, Apart, Others, Pc, Publishing, Storing, Claiming, Retaining, Rows
<1>7. TracesKept' /\ r.pc # "upsert"
  BY <1>1, <1>2, <1>3 DEF TracesKept, Pc
<1>. QED
  BY <1>1, <1>2, <1>5, <1>6, <1>7, QuietStep

----------------------------------------------------------------------------
(* Deletion.                                                               *)

\* Whoever begins to erase a template has all its versions before it.
LEMMA EraserPlaced ==
    ASSUME CatalogInv, NEW p \in Processes, NEW t \in Templates, Others(p),
           Pc(p) \in {"read", "deletions"}, Pc(p)' \in {"erase", "erasing"},
           process'[p].version = NULL, process'[p].template = t,
           process'[p].todo = VersionsOf(t), Row(t).state # "absent", Row(t)'.state = "deleting",
           UNCHANGED <<versions, stored, drawn>>, catalogFaults \subseteq catalogFaults'
    PROVE  /\ OwnWork(p)'
           /\ \A q \in Processes : Apart(p, q)' /\ Apart(q, p)'
           /\ TracesKept'
<1>1. t \in drawn /\ t # NULL /\ VersionsOf(t) \subseteq drawn
  BY CatalogAssumption DEF CatalogInv, RowsInv, TemplateRowsAgree, VersionRowsAgree, VersionsOf
<1>2. WorkPlaced(p)'
  BY <1>1 DEF WorkPlaced, Publishing, Storing, Claiming, Erasing, Retaining
<1>3. Erases(p)'
  BY DEF Erases, VersionsOf, Of
<1>4. OwnWork(p)'
  BY <1>2, <1>3 DEF OwnWork, Publishing, Storing, Claiming, Retaining
<1>5. \A q \in Processes : Apart(p, q)' /\ Apart(q, p)'
  BY DEF Apart, Publishing, Storing, Claiming, Retaining
<1>6. \A v \in Versions : Of(v, t) => v \in VersionsOf(t)
  BY CatalogAssumption DEF CatalogInv, RowsInv, VersionRowsAgree, VersionsOf, Of, NoVersion
<1>7. Traces(p)'
  BY <1>6 DEF Traces, Of, CatalogInv, CatalogTypeOK
<1>8. TracesKept'
  BY <1>7, NothingInHand, TracesStand DEF CatalogInv, CatalogTypeOK, Holding
<1>. QED
  BY <1>4, <1>5, <1>8

LEMMA DeletionsKeep ==
    ASSUME CatalogInv, NEW p \in Processes, pending_deletions(p)
    PROVE  CatalogInv'
<1>1. /\ Pc(p) = "deletions" /\ UNCHANGED Rows
      /\ catalogFaults \subseteq catalogFaults' /\ catalogFaults' \subseteq CatalogEvents
  BY Remembered DEF CatalogInv, pending_deletions, At, Pc
<1>2. CASE Return(p)
  BY <1>1, <1>2, NothingInHand, QuietReturn
<1>3. CASE ~Return(p)
  <2>1. PICK t \in Templates :
            /\ Row(t).state = "deleting"
            /\ process' = [process EXCEPT ![p].pc = "erasing", ![p].template = t,
                                          ![p].todo = VersionsOf(t)]
    BY <1>3 DEF pending_deletions, Row
  <2>. DEFINE r == [process[p] EXCEPT !.pc = "erasing", !.template = t, !.todo = VersionsOf(t)]
  <2>2. process' = [process EXCEPT ![p] = r] /\ VersionsOf(t) \subseteq Versions
    BY <2>1 DEF VersionsOf
  <2>3. r \in Process /\ process'[p] = r /\ Others(p)
    BY <2>2 DEF CatalogInv, CatalogTypeOK, Process, Others
  <2>4. /\ Pc(p)' = "erasing" /\ process'[p].version = process[p].version
        /\ process'[p].template = t /\ process'[p].todo = VersionsOf(t)
    BY <2>3, ProcessFields DEF CatalogInv, Pc, Process
  <2>5. /\ OwnWork(p)' /\ \A q \in Processes : Apart(p, q)' /\ Apart(q, p)'
        /\ TracesKept'
    <3>1. process'[p].version = NULL
      BY <1>1, <2>4, NothingInHand
    <3>2. Row(t)'.state = "deleting" /\ UNCHANGED <<versions, stored, drawn>>
      BY <1>1, <2>1 DEF Rows, Row
    <3>. QED
      BY <1>1, <2>1, <2>3, <2>4, <3>1, <3>2, EraserPlaced
  <2>6. r.pc # "upsert"
    BY <2>3, <2>4 DEF Pc
  <2>. QED
    BY <1>1, <2>2, <2>3, <2>5, <2>6, QuietStep
<1>. QED
  BY <1>2, <1>3

----------------------------------------------------------------------------
(* Objects come and go.                                                    *)

LEMMA HeldStands ==
    ASSUME NEW p \in Processes, NEW v, Others(p), Held(v),
           Pc(p) \in Holding /\ process[p].version = v =>
               Pc(p)' \in Holding /\ process'[p].version = v
    PROVE  Held(v)'
<1>1. PICK q \in Processes : Pc(q) \in Holding /\ process[q].version = v
  BY DEF Held
<1>2. Pc(q)' \in Holding /\ process'[q].version = v
  BY <1>1 DEF Pc, Others
<1>. QED
  BY <1>2 DEF Held

LEMMA TrackedStands ==
    ASSUME NEW p \in Processes, NEW v, Others(p), Tracked(v),
           versions'[v].state = "absent" => versions[v].state = "absent",
           process[p].version = v \/ v \in process[p].todo =>
               process'[p].version = v \/ v \in process'[p].todo
    PROVE  Tracked(v)'
<1>. SUFFICES ASSUME versions[v].state = "absent"
              PROVE  \E q \in Processes : process'[q].version = v \/ v \in process'[q].todo
  BY DEF Tracked
<1>1. PICK q \in Processes : process[q].version = v \/ v \in process[q].todo
  BY DEF Tracked
<1>. QED
  BY <1>1 DEF Others

LEMMA TracesCarry ==
    ASSUME TracesKept, NEW p \in Processes, Others(p), catalogFaults \subseteq catalogFaults',
           Clean' => /\ \A v \in stored' : Tracked(v)'
                     /\ \A v \in stored' : v \in stored \/ Held(v)'
                     /\ \A v \in stored' : Held(v) => Held(v)'
                     /\ \A q \in Processes, v \in stored' :
                           q # p /\ Pc(q) \in Erasing /\ Of(v, process[q].template)' =>
                               Of(v, process[q].template)
                     /\ Traces(p)'
    PROVE  TracesKept'
<1>. SUFFICES ASSUME Clean', NEW q \in Processes, q # p
              PROVE  Traces(q)'
  BY DEF TracesKept
<1>1. Clean
  BY FaultsGrow
<1>2. Traces(q)
  BY <1>1 DEF TracesKept
<1>3. process'[q] = process[q] /\ Pc(q)' = Pc(q)
  BY DEF Others, Pc
<1>4. ASSUME NEW v \in stored', Pc(q) = "aborting", process[q].version = v
      PROVE  Held(v)'
  BY <1>2, <1>4 DEF Traces
<1>5. ASSUME Pc(q) \in Erasing, NEW v \in stored', versions'[v].template = process[q].template
      PROVE  v \in process[q].todo \/ Held(v)'
  BY <1>2, <1>3, <1>5 DEF Traces, Of
<1>7. Pc(q)' = "aborting" /\ process'[q].version \in stored' => Held(process[q].version)'
  BY <1>3, <1>4 DEF Held, Pc
<1>8. Pc(q)' \in Erasing => \A v \in stored' :
          versions'[v].template = process'[q].template => v \in process'[q].todo \/ Held(v)'
  BY <1>3, <1>5 DEF Of
<1>. QED
  BY <1>2, <1>3, <1>7, <1>8 DEF Traces, Of, Held, Pc

\* An object is deleted that no current version, no job and no publisher needs.
LEMMA ObjectGoes ==
    ASSUME CatalogInv, NEW p \in Processes, NEW v, Others(p), OnlyObjects,
           stored' = stored \ {v}, catalogFaults \subseteq catalogFaults',
           Decided /\ PublishedVersion(v) =>
               versions[v].retention # NULL \/ Row(versions[v].template).state # "published",
           \A q \in Processes : q # p /\ Pc(q) = "finalize" /\ process[q].version = v =>
               \/ versions[v].token # q
               \/ Row(process[q].template).state \notin {"pending", "published"}
    PROVE  RowsInv' /\ OthersKept(p)
<1>0. (Decided' => Decided) /\ RowsInv
  BY FaultsGrow DEF CatalogInv
<1>1. VersionRowsAgree' /\ RetainedUnused' /\ NumbersAgree' /\ NumbersBounded'
  BY <1>0 DEF RowsInv, VersionRowsAgree, RetainedUnused, NumbersAgree, NumbersBounded,
              OnlyObjects, Row, PublishedVersion, Of
<1>2. ASSUME NEW t \in Templates, Row(t).state = "published", Decided
      PROVE  Row(t).current # v
  BY <1>0, <1>2 DEF RowsInv, TemplateRowsAgree, RetainedUnused, Of
<1>3. TemplateRowsAgree'
  BY <1>0, <1>2 DEF RowsInv, TemplateRowsAgree, OnlyObjects, Row, PublishedVersion, Of
<1>4. ASSUME NEW j \in Submissions, frozen[j].version # NULL, ~frozen[j].expired, Decided
      PROVE  frozen[j].version # v
  <2>1. CASE frozen[j].version = v
    <3>1. PublishedVersion(v) /\ Row(versions[v].template).state = "published"
      BY <1>0, <1>4, <2>1 DEF RowsInv, FrozenAgree, Of
    <3>2. v \in Versions
      BY <1>4, <2>1 DEF CatalogInv, CatalogTypeOK
    <3>. QED
      BY <1>0, <1>4, <2>1, <3>1, <3>2 DEF RowsInv, RetainedUnused
  <2>. QED
    BY <2>1
<1>5. FrozenAgree'
  BY <1>0, <1>4 DEF RowsInv, FrozenAgree, OnlyObjects, Row, PublishedVersion, Of
<1>6. ASSUME NEW q \in Processes, q # p
      PROVE  OwnWork(q)'
  <2>1. OwnWork(q) /\ process'[q] = process[q] /\ Pc(q)' = Pc(q)
    BY <1>6 DEF CatalogInv, Others, Pc
  <2>2. WorkPlaced(q)'
    BY <2>1 DEF OwnWork, WorkPlaced, OnlyObjects
  <2>3. Publishes(q) => Publishes(q)'
    BY <1>0, <1>6, <2>1 DEF Publishes, OnlyObjects, Row, PublishedVersion, Of
  <2>4. (Claims(q) => Claims(q)') /\ (Erases(q) => Erases(q)') /\ (Retains(q) => Retains(q)')
    BY <2>1 DEF Claims, Erases, Retains, OnlyObjects, Row, PublishedVersion, Of
  <2>. QED
    BY <2>1, <2>2, <2>3, <2>4 DEF OwnWork
<1>7. \A q, r \in Processes : q # p /\ r # p => Apart(q, r)'
  BY ApartStands DEF CatalogInv, Others, OnlyObjects
<1>. QED
  BY <1>1, <1>3, <1>5, <1>6, <1>7 DEF RowsInv, OthersKept

\* The types after a step on the objects.
LEMMA ObjectsTyped ==
    ASSUME CatalogTypeOK, NEW p \in Processes, NEW r \in Process,
           process' = [process EXCEPT ![p] = r], OnlyObjects, stored' \subseteq Versions,
           catalogFaults' \subseteq CatalogEvents
    PROVE  CatalogTypeOK' /\ process'[p] = r /\ Others(p)
<1>1. process' \in [Processes -> Process] /\ process'[p] = r
  BY DEF CatalogTypeOK
<1>. QED
  BY <1>1 DEF CatalogTypeOK, OnlyObjects, Others

LEMMA SelectionsStand ==
    ASSUME CatalogInv, NEW p \in Processes, Others(p), PostgreSQL \/ Pc(p)' # "upsert",
           UNCHANGED <<templates, preferred, fallback>>
    PROVE  SelectionsAgree'
BY DEF CatalogInv, SelectionsAgree, Pc, Others, Row, Restricted

LEMMA ObjectStepComposed ==
    ASSUME CatalogInv, NEW p \in Processes, NEW r \in Process,
           process' = [process EXCEPT ![p] = r], OnlyObjects, stored' \subseteq Versions, NoFault,
           RowsInv', OthersKept(p), r.pc # "upsert", OwnWork(p)',
           \A q \in Processes : q # p => Apart(p, q)' /\ Apart(q, p)',
           TracesKept'
    PROVE  CatalogInv'
<1>1. CatalogTypeOK' /\ process'[p] = r /\ Others(p)
  BY Remembered, ObjectsTyped DEF CatalogInv
<1>2. SelectionsAgree'
  BY <1>1, SelectionsStand DEF OnlyObjects, Pc
<1>. QED
  BY <1>1, <1>2, Composed

\* What an object's deleter has in its hands while it goes on.
LEMMA TracesWithout ==
    ASSUME CatalogInv, NEW p \in Processes, NEW v, Others(p), OnlyObjects,
           stored' = stored \ {v}, NoFault,
           \A w \in stored' : process[p].version = w \/ w \in process[p].todo =>
               process'[p].version = w \/ w \in process'[p].todo,
           Pc(p) \in Holding => process[p].version = v,
           Traces(p)'
    PROVE  TracesKept'
<1>1. catalogFaults \subseteq catalogFaults' /\ (Clean' => Clean)
  BY FaultsGrow DEF NoFault
<1>2. ASSUME Clean', NEW w \in stored'
      PROVE  Tracked(w)' /\ (Held(w) => Held(w)')
  <2>1. Tracked(w)
    BY <1>1, <1>2 DEF CatalogInv, TracesKept
  <2>2. Tracked(w)'
    BY <1>2, <2>1, TrackedStands DEF OnlyObjects
  <2>3. Held(w) => Held(w)'
    BY <1>2, HeldStands
  <2>. QED
    BY <2>2, <2>3
<1>3. \A q \in Processes, w \in stored' :
          q # p /\ Of(w, process[q].template)' => Of(w, process[q].template)
  BY DEF Of, OnlyObjects, Others
<1>. QED
  BY <1>1, <1>2, <1>3, TracesCarry DEF CatalogInv

LEMMA PutKeeps ==
    ASSUME CatalogInv, NEW p \in Processes, Put(p)
    PROVE  CatalogInv'
<1>. DEFINE v == process[p].version
            r == [process[p] EXCEPT !.pc = "finalize"]
<1>1. /\ Pc(p) = "put" /\ stored' = stored \cup {v} /\ Goto(p, "finalize") /\ NoFault /\ OnlyObjects
      /\ WorkPlaced(p) /\ Publishes(p)
  BY DEF Put, At, Pc, CatalogInv, OwnWork, Publishing, Storing
<1>2. /\ Others(p) /\ Pc(p)' = "finalize" /\ process'[p].version = v
      /\ process'[p].template = process[p].template /\ process'[p].todo = process[p].todo
      /\ process'[p].revision = process[p].revision
      /\ process' = [process EXCEPT ![p] = r] /\ r \in Process
  BY <1>1, GotoSets DEF CatalogInv
<1>3. v \in Versions /\ process[p].template \in Templates
  BY <1>1, ProcessFields DEF CatalogInv, WorkPlaced, Publishing, Storing
<1>4. RowsInv'
  BY <1>1 DEF CatalogInv, RowsInv, VersionRowsAgree, TemplateRowsAgree, RetainedUnused,
              NumbersAgree, NumbersBounded, FrozenAgree, OnlyObjects, Row, PublishedVersion, Of,
              Decided, NoFault
<1>5. ASSUME NEW q \in Processes, q # p
      PROVE  OwnWork(q)'
  <2>1. OwnWork(q) /\ process'[q] = process[q] /\ Pc(q)' = Pc(q) /\ Apart(p, q)
    BY <1>2, <1>5 DEF CatalogInv, Others, Pc
  <2>2. WorkPlaced(q)'
    BY <1>1, <2>1 DEF OwnWork, WorkPlaced, OnlyObjects
  <2>3. Pc(q) \in {"abort", "completing"} => process[q].version # v
    BY <1>1, <1>5, <2>1 DEF Apart, Publishing, Storing, Retaining
  <2>4. Publishes(q) => Publishes(q)'
    BY <1>1, <2>1, <2>3
       DEF Publishes, OnlyObjects, Row, PublishedVersion, Of, Decided, NoFault
  <2>5. (Claims(q) => Claims(q)') /\ (Erases(q) => Erases(q)') /\ (Retains(q) => Retains(q)')
    BY <1>1, <2>1, <2>3 DEF Claims, Erases, Retains, OnlyObjects, Row, PublishedVersion, Of
  <2>. QED
    BY <2>1, <2>2, <2>4, <2>5 DEF OwnWork
<1>6. OthersKept(p)
  <2>1. \A q, s \in Processes : q # p /\ s # p => Apart(q, s)'
    BY <1>1, <1>2, ApartStands DEF CatalogInv, Others, OnlyObjects
  <2>. QED
    BY <1>5, <2>1 DEF OthersKept
<1>7. OwnWork(p)'
  <2>1. WorkPlaced(p)'
    BY <1>1, <1>2
       DEF WorkPlaced, Publishing, Storing, Claiming, Erasing, Retaining, OnlyObjects
  <2>2. Publishes(p)'
    BY <1>1, <1>2
       DEF Publishes, Storing, OnlyObjects, Row, PublishedVersion, Of, Decided, NoFault
  <2>. QED
    BY <1>2, <2>1, <2>2 DEF OwnWork, Claiming, Erasing, Retaining
<1>8. \A q \in Processes : q # p => Apart(p, q)' /\ Apart(q, p)'
  BY <1>1, <1>2
     DEF CatalogInv, Apart, Others, Pc, Publishing, Storing, Claiming, Retaining, OnlyObjects
<1>9. TracesKept'
  <2>1. catalogFaults \subseteq catalogFaults' /\ (Clean' => Clean)
    BY <1>1, FaultsGrow DEF NoFault
  <2>2. Held(v)'
    BY <1>2 DEF Held, Holding
  <2>3. ASSUME Clean', NEW w \in stored'
        PROVE  Tracked(w)' /\ (w \in stored \/ Held(w)') /\ (Held(w) => Held(w)')
    <3>1. CASE w = v
      BY <1>2, <2>2, <3>1 DEF Tracked
    <3>2. CASE w # v
      <4>1. w \in stored /\ Tracked(w)
        BY <1>1, <2>1, <2>3, <3>2 DEF CatalogInv, TracesKept
      <4>2. Tracked(w)'
        BY <1>1, <1>2, <4>1, TrackedStands DEF OnlyObjects
      <4>3. Held(w) => Held(w)'
        BY <1>2, <3>2, HeldStands
      <4>. QED
        BY <4>1, <4>2, <4>3
    <3>. QED
      BY <3>1, <3>2
  <2>4. \A q \in Processes, w \in stored' :
            q # p /\ Of(w, process[q].template)' => Of(w, process[q].template)
    BY <1>1, <1>2 DEF Of, OnlyObjects, Others
  <2>5. Traces(p)'
    BY <1>2 DEF Traces, Erasing
  <2>. QED
    BY <1>2, <2>1, <2>3, <2>4, <2>5, TracesCarry DEF CatalogInv
<1>10. stored' \subseteq Versions /\ r.pc # "upsert"
  BY <1>1, <1>2, <1>3 DEF CatalogInv, CatalogTypeOK, Pc
<1>. QED
  BY <1>1, <1>2, <1>4, <1>6, <1>7, <1>8, <1>9, <1>10, ObjectStepComposed

LEMMA CompensateKeeps ==
    ASSUME CatalogInv, NEW p \in Processes, CompensateObject(p)
    PROVE  CatalogInv'
<1>. DEFINE v == process[p].version
            r == [process[p] EXCEPT !.pc = "abort"]
<1>1. /\ Pc(p) = "undo" /\ stored' = stored \ {v} /\ Goto(p, "abort") /\ NoFault /\ OnlyObjects
      /\ WorkPlaced(p) /\ Publishes(p)
  BY DEF CompensateObject, At, Pc, CatalogInv, OwnWork, Publishing
<1>2. /\ Others(p) /\ Pc(p)' = "abort" /\ process'[p].version = v
      /\ process'[p].template = process[p].template /\ process'[p].todo = process[p].todo
      /\ process'[p].revision = process[p].revision
      /\ process' = [process EXCEPT ![p] = r] /\ r \in Process
  BY <1>1, GotoSets DEF CatalogInv
<1>3. Decided => ~PublishedVersion(v)
  BY <1>1 DEF Publishes
<1>4. \A q \in Processes : q # p /\ Pc(q) = "finalize" => process[q].version # v
  BY <1>1 DEF CatalogInv, Apart, Publishing, Storing
<1>5. catalogFaults \subseteq catalogFaults' /\ (Decided' <=> Decided)
  BY <1>1 DEF NoFault, Decided
<1>6. RowsInv' /\ OthersKept(p)
  BY <1>1, <1>2, <1>3, <1>4, <1>5, ObjectGoes
<1>7. OwnWork(p)'
  <2>1. WorkPlaced(p)'
    BY <1>1, <1>2
       DEF WorkPlaced, Publishing, Storing, Claiming, Erasing, Retaining, OnlyObjects
  <2>2. Publishes(p)'
    BY <1>1, <1>2, <1>5 DEF Publishes, Storing, OnlyObjects, Row, PublishedVersion, Of
  <2>. QED
    BY <1>2, <2>1, <2>2 DEF OwnWork, Claiming, Erasing, Retaining
<1>8. \A q \in Processes : q # p => Apart(p, q)' /\ Apart(q, p)'
  BY <1>1, <1>2
     DEF CatalogInv, Apart, Others, Pc, Publishing, Storing, Claiming, Retaining, OnlyObjects
<1>9. TracesKept'
  <2>1. Traces(p)'
    BY <1>2 DEF Traces, Erasing
  <2>. QED
    BY <1>1, <1>2, <2>1, TracesWithout
<1>10. stored' \subseteq Versions /\ r.pc # "upsert"
  BY <1>1, <1>2 DEF CatalogInv, CatalogTypeOK, Pc
<1>. QED
  BY <1>1, <1>2, <1>6, <1>7, <1>8, <1>9, <1>10, ObjectStepComposed

\* One object of a template that is going, or the end of its objects.
LEMMA EraseKeeps ==
    ASSUME CatalogInv, NEW p \in Processes,
           NEW from \in {"erase", "erasing"}, NEW to \in {"drop", "dropping"},
           EraseObject(p, from, to)
    PROVE  CatalogInv'
<1>1. Pc(p) = from /\ NoFault /\ OnlyObjects /\ WorkPlaced(p) /\ Erases(p)
  BY DEF EraseObject, At, Pc, CatalogInv, OwnWork, Erasing
<1>2. catalogFaults \subseteq catalogFaults' /\ catalogFaults' \subseteq CatalogEvents
  BY <1>1, Remembered DEF CatalogInv
<1>3. CASE process[p].todo = {}
  <2>. DEFINE r == [process[p] EXCEPT !.pc = to]
  <2>1. Goto(p, to) /\ UNCHANGED stored
    BY <1>3 DEF EraseObject
  <2>2. UNCHANGED Rows
    BY <1>1, <2>1 DEF OnlyObjects, Rows
  <2>3. /\ Others(p) /\ Pc(p)' = to /\ process'[p].version = process[p].version
        /\ process'[p].template = process[p].template /\ process'[p].todo = process[p].todo
        /\ process' = [process EXCEPT ![p] = r] /\ r \in Process
    BY <2>1, GotoSets DEF CatalogInv
  <2>4. WorkPlaced(p)'
    BY <1>1, <1>3, <2>2, <2>3
       DEF WorkPlaced, Publishing, Storing, Claiming, Erasing, Retaining, Rows
  <2>5. Erases(p)'
    BY <1>1, <2>2, <2>3 DEF Erases, Rows, Row, Of
  <2>6. OwnWork(p)' /\ \A q \in Processes : q # p => Apart(p, q)' /\ Apart(q, p)'
    BY <2>3, <2>4, <2>5 DEF OwnWork, Apart, Publishing, Storing, Claiming, Retaining
  <2>7. Clean' => Traces(p)'
    <3>1. \A v \in stored : Held(v) => Held(v)'
      BY <1>1, <2>3, HeldStands DEF Holding
    <3>2. Clean' => Clean
      BY <1>2, FaultsGrow
    <3>. QED
      BY <1>1, <2>1, <2>2, <2>3, <3>1, <3>2
         DEF CatalogInv, TracesKept, Traces, Erasing, Rows, Of
  <2>8. TracesKept'
    BY <1>1, <1>2, <2>2, <2>3, <2>7, TracesStand
       DEF CatalogInv, CatalogTypeOK, Rows, Holding
  <2>9. r.pc # "upsert"
    BY <2>3 DEF CatalogInv, CatalogTypeOK, Pc
  <2>. QED
    BY <1>2, <2>2, <2>3, <2>6, <2>8, <2>9, QuietStep
<1>4. CASE process[p].todo # {}
  <2>1. PICK v \in process[p].todo :
            stored' = stored \ {v} /\ process' = [process EXCEPT ![p].todo = @ \ {v}]
    BY <1>4 DEF EraseObject
  <2>. DEFINE r == [process[p] EXCEPT !.todo = process[p].todo \ {v}]
  <2>2. process' = [process EXCEPT ![p] = r] /\ r \in Process
    BY <2>1 DEF CatalogInv, CatalogTypeOK, Process
  <2>3. process'[p] = r /\ Others(p)
    BY <2>2 DEF CatalogInv, CatalogTypeOK, Others
  <2>4. /\ Pc(p)' = from /\ process'[p].version = process[p].version
        /\ process'[p].template = process[p].template
        /\ process'[p].todo = process[p].todo \ {v}
    BY <1>1, <2>3, ProcessFields DEF CatalogInv, Pc, Process
  <2>5. v \in Versions /\ stored' \subseteq Versions
    BY <2>1, ProcessFields DEF CatalogInv, CatalogTypeOK
  <2>6. versions[v].state # "absent" =>
            /\ Of(v, process[p].template)
            /\ Row(versions[v].template).state = "deleting"
    <3>1. versions[v].state # "absent" =>
              Of(v, process[p].template) /\ Row(versions[v].template).state # "absent"
      BY <1>1, <2>5 DEF Erases, CatalogInv, RowsInv, VersionRowsAgree
    <3>. QED
      BY <1>1, <3>1 DEF Erases, Of
  <2>7. ASSUME NEW q \in Processes, q # p, Pc(q) = "finalize", process[q].version = v
        PROVE  versions[v].token # q \/ Row(process[q].template).state \notin {"pending", "published"}
    <3>1. Publishes(q)
      BY <2>7 DEF CatalogInv, OwnWork, Publishing, Storing
    <3>2. versions[v].state = "absent" => versions[v].token = NULL /\ q # NULL
      BY <2>5, CatalogAssumption DEF CatalogInv, RowsInv, VersionRowsAgree, NoVersion
    <3>. QED
      BY <2>6, <2>7, <3>1, <3>2 DEF Publishes, Of
  <2>8. RowsInv' /\ OthersKept(p)
    BY <1>1, <1>2, <2>1, <2>3, <2>6, <2>7, ObjectGoes DEF PublishedVersion
  <2>9. WorkPlaced(p)'
    BY <1>1, <2>4 DEF WorkPlaced, Publishing, Storing, Claiming, Erasing, Retaining, OnlyObjects
  <2>10. Erases(p)'
    BY <1>1, <2>4 DEF Erases, OnlyObjects, Row, Of
  <2>11. OwnWork(p)' /\ \A q \in Processes : q # p => Apart(p, q)' /\ Apart(q, p)'
    BY <2>4, <2>9, <2>10 DEF OwnWork, Apart, Publishing, Storing, Claiming, Retaining
  <2>12. Clean' => Traces(p)'
    <3>1. \A w \in stored : Held(w) => Held(w)'
      BY <1>1, <2>3, HeldStands DEF Holding
    <3>2. Clean' => Clean
      BY <1>2, FaultsGrow
    <3>. QED
      BY <1>1, <2>1, <2>4, <3>1, <3>2
         DEF CatalogInv, TracesKept, Traces, Erasing, OnlyObjects, Of
  <2>13. TracesKept'
    <3>1. \A w \in stored' : process[p].version = w \/ w \in process[p].todo =>
               process'[p].version = w \/ w \in process'[p].todo
      BY <2>1, <2>4
    <3>2. CASE Clean'
      BY <1>1, <2>1, <2>3, <2>12, <3>1, <3>2, TracesWithout DEF Holding
    <3>3. CASE ~Clean'
      BY <3>3 DEF TracesKept
    <3>. QED
      BY <3>2, <3>3
  <2>14. r.pc # "upsert"
    BY <2>3, <2>4 DEF Pc
  <2>. QED
    BY <1>1, <2>2, <2>5, <2>8, <2>11, <2>13, <2>14, ObjectStepComposed
<1>. QED
  BY <1>3, <1>4

LEMMA ReclaimObjectKeeps ==
    ASSUME CatalogInv, NEW p \in Processes, NEW v \in Versions, ReclaimObject(p, v)
    PROVE  CatalogInv'
<1>. DEFINE r == [process[p] EXCEPT !.pc = "aborting", !.version = v]
<1>1. /\ Pc(p) = "claimed" /\ v \in process[p].todo /\ stored' = stored \ {v}
      /\ process' = [process EXCEPT ![p] = r] /\ NoFault /\ OnlyObjects
  BY DEF ReclaimObject, At, Pc
<1>2. r \in Process /\ process'[p] = r /\ Others(p)
  BY <1>1 DEF CatalogInv, CatalogTypeOK, Process, Others
<1>3. /\ Pc(p)' = "aborting" /\ process'[p].version = v /\ process'[p].todo = process[p].todo
      /\ process'[p].template = process[p].template
  BY <1>2, ProcessFields DEF CatalogInv, Pc, Process
<1>4. WorkPlaced(p) /\ Claims(p)
  BY <1>1 DEF CatalogInv, OwnWork, Claiming
<1>5. ASSUME NEW q \in Processes, q # p, Pc(q) = "finalize", process[q].version = v
      PROVE  versions[v].token # q
  BY <1>1, <1>5 DEF CatalogInv, Apart, Storing, Claiming
<1>6. RowsInv' /\ OthersKept(p)
  BY <1>1, <1>2, <1>4, <1>5, ObjectGoes DEF Claims, NoFault
<1>7. OwnWork(p)'
  <2>1. WorkPlaced(p)'
    BY <1>1, <1>3, <1>4
       DEF WorkPlaced, Publishing, Storing, Claiming, Erasing, Retaining, OnlyObjects
  <2>2. Claims(p)'
    BY <1>1, <1>3, <1>4 DEF Claims, PublishedVersion, OnlyObjects
  <2>. QED
    BY <1>3, <2>1, <2>2 DEF OwnWork, Publishing, Storing, Erasing, Retaining
<1>8. \A q \in Processes : q # p => Apart(p, q)' /\ Apart(q, p)'
  BY <1>1, <1>2, <1>3
     DEF CatalogInv, Apart, Others, Pc, Publishing, Storing, Claiming, Retaining, OnlyObjects
<1>9. TracesKept'
  <2>1. Traces(p)'
    BY <1>1, <1>3 DEF Traces, Erasing
  <2>2. \A w \in stored' : process[p].version = w \/ w \in process[p].todo =>
             process'[p].version = w \/ w \in process'[p].todo
    <3>1. process[p].version = NULL /\ stored \subseteq Versions
      BY <1>1, <1>4 DEF WorkPlaced, CatalogInv, CatalogTypeOK
    <3>. QED
      BY <1>1, <1>3, <3>1, CatalogAssumption
  <2>. QED
    BY <1>1, <1>2, <2>1, <2>2, TracesWithout DEF Holding
<1>10. stored' \subseteq Versions /\ r.pc # "upsert"
  BY <1>1, <1>2, <1>3 DEF CatalogInv, CatalogTypeOK, Pc
<1>. QED
  BY <1>1, <1>2, <1>6, <1>7, <1>8, <1>9, <1>10, ObjectStepComposed

LEMMA RetainedObjectKeeps ==
    ASSUME CatalogInv, NEW p \in Processes, RetainedObject(p)
    PROVE  CatalogInv'
<1>. DEFINE v == process[p].version
            r == [process[p] EXCEPT !.pc = "completing"]
<1>1. /\ Pc(p) = "retained" /\ stored' = stored \ {v} /\ Goto(p, "completing") /\ NoFault
      /\ OnlyObjects /\ WorkPlaced(p) /\ Retains(p)
  BY DEF RetainedObject, At, Pc, CatalogInv, OwnWork, Retaining
<1>2. /\ Others(p) /\ Pc(p)' = "completing" /\ process'[p].version = v
      /\ process'[p].template = process[p].template /\ process'[p].todo = process[p].todo
      /\ process' = [process EXCEPT ![p] = r] /\ r \in Process
  BY <1>1, GotoSets DEF CatalogInv
<1>3. PublishedVersion(v) => versions[v].retention # NULL
  BY <1>1 DEF Retains, PublishedVersion
<1>4. \A q \in Processes : q # p /\ Pc(q) = "finalize" => process[q].version # v
  BY <1>1 DEF CatalogInv, Apart, Retaining, Storing
<1>5. RowsInv' /\ OthersKept(p)
  BY <1>1, <1>2, <1>3, <1>4, ObjectGoes DEF NoFault
<1>6. OwnWork(p)'
  <2>1. WorkPlaced(p)'
    BY <1>1, <1>2
       DEF WorkPlaced, Publishing, Storing, Claiming, Erasing, Retaining, OnlyObjects
  <2>2. Retains(p)'
    BY <1>1, <1>2 DEF Retains, OnlyObjects
  <2>. QED
    BY <1>2, <2>1, <2>2 DEF OwnWork, Publishing, Storing, Claiming, Erasing
<1>7. \A q \in Processes : q # p => Apart(p, q)' /\ Apart(q, p)'
  BY <1>1, <1>2
     DEF CatalogInv, Apart, Others, Pc, Publishing, Storing, Claiming, Retaining, OnlyObjects
<1>8. TracesKept'
  <2>1. Traces(p)'
    BY <1>2 DEF Traces, Erasing
  <2>. QED
    BY <1>1, <1>2, <2>1, TracesWithout DEF Holding
<1>9. stored' \subseteq Versions /\ r.pc # "upsert"
  BY <1>1, <1>2 DEF CatalogInv, CatalogTypeOK, Pc
<1>. QED
  BY <1>1, <1>2, <1>5, <1>6, <1>7, <1>8, <1>9, ObjectStepComposed

----------------------------------------------------------------------------
(* Claims on versions: of what is left pending, and of what is old.        *)

ClaimRow(p, v) ==
    /\ versions'[v].state = versions[v].state
    /\ versions'[v].template = versions[v].template
    /\ versions'[v].number = versions[v].number
    /\ \/ versions'[v].token = versions[v].token
       \/ versions[v].state = "pending" /\ versions'[v].token = p
    /\ \/ versions'[v].retention = versions[v].retention
       \/ /\ PublishedVersion(v) /\ versions'[v].retention = p
          /\ \A t \in Templates : Row(t).current # v
          /\ \A j \in Submissions : frozen[j].version = v => frozen[j].expired
    /\ versions[v].state = "absent" => versions'[v] = versions[v]

LEMMA ClaimRows ==
    ASSUME CatalogInv, NEW p \in Processes, Others(p), OnlyVersions, NoFault,
           \A v \in Versions : ClaimRow(p, v)
    PROVE  RowsInv' /\ OthersKept(p)
<1>0. RowsInv /\ p # NULL
  BY CatalogAssumption DEF CatalogInv
<1>1. VersionRowsAgree'
  BY <1>0 DEF RowsInv, VersionRowsAgree, ClaimRow, OnlyVersions, PublishedVersion, Row
<1>2. TemplateRowsAgree'
  BY <1>0 DEF RowsInv, TemplateRowsAgree, ClaimRow, OnlyVersions, PublishedVersion, Row, Of,
              Decided, NoFault
<1>3. RetainedUnused'
  BY <1>0 DEF RowsInv, RetainedUnused, ClaimRow, OnlyVersions, Row
<1>4. NumbersAgree' /\ NumbersBounded'
  <2>1. NumbersAgree'
    BY <1>0 DEF RowsInv, TemplateRowsAgree, NumbersAgree, ClaimRow, OnlyVersions,
                PublishedVersion, Row, Of
  <2>2. NumbersBounded'
    BY <1>0 DEF RowsInv, NumbersBounded, ClaimRow
  <2>. QED
    BY <2>1, <2>2
<1>5. FrozenAgree'
  BY <1>0 DEF RowsInv, FrozenAgree, ClaimRow, OnlyVersions, PublishedVersion, Row, Of, Decided,
              NoFault, CatalogInv, CatalogTypeOK
<1>6. ASSUME NEW q \in Processes, q # p
      PROVE  OwnWork(q)'
  <2>1. /\ OwnWork(q) /\ process'[q] = process[q] /\ Pc(q)' = Pc(q)
        /\ process[q].version \in Versions \cup {NULL} /\ process[q].todo \subseteq Versions
    BY <1>6, ProcessFields DEF CatalogInv, Others, Pc
  <2>2. WorkPlaced(q)'
    BY <2>1 DEF OwnWork, WorkPlaced, OnlyVersions
  <2>3. Pc(q) \in Publishing /\ Publishes(q) => Publishes(q)'
    <3>. SUFFICES ASSUME Pc(q) \in Publishing, Publishes(q)
                  PROVE  Publishes(q)'
      OBVIOUS
    <3>1. process[q].version \in Versions
      BY <2>1 DEF OwnWork, WorkPlaced
    <3>2. ClaimRow(p, process[q].version)
      BY <3>1
    <3>3. \A w \in Versions : PublishedVersion(w)' /\ Of(w, process[q].template)' =>
              PublishedVersion(w) /\ Of(w, process[q].template) /\ versions'[w].number = versions[w].number
      BY <2>1 DEF ClaimRow, PublishedVersion, Of
    <3>. QED
      BY <1>6, <2>1, <3>2, <3>3
         DEF Publishes, OnlyVersions, Row, PublishedVersion, Of, ClaimRow, Decided, NoFault
  <2>4. Claims(q) => Claims(q)'
    BY <2>1 DEF Claims, PublishedVersion, ClaimRow
  <2>5. Erases(q) => Erases(q)'
    BY <2>1 DEF Erases, OnlyVersions, Row, Of, ClaimRow
  <2>6. Pc(q) \in Retaining /\ Retains(q) => Retains(q)'
    BY <1>0, <2>1 DEF OwnWork, WorkPlaced, Retains, OnlyVersions, ClaimRow
  <2>. QED
    BY <2>1, <2>2, <2>3, <2>4, <2>5, <2>6 DEF OwnWork
<1>7. ASSUME NEW q \in Processes, NEW s \in Processes, q # p, s # p
      PROVE  Apart(q, s)'
  <2>1. /\ Apart(q, s) /\ process'[q] = process[q] /\ process'[s] = process[s]
        /\ Pc(q)' = Pc(q) /\ Pc(s)' = Pc(s)
        /\ process[s].todo \subseteq Versions
    BY <1>7, ProcessFields DEF CatalogInv, Others, Pc
  <2>2. \A v \in Versions : versions[v].token # q => versions'[v].token # q
    BY <1>7 DEF ClaimRow
  <2>. QED
    BY <2>1, <2>2 DEF Apart
<1>. QED
  BY <1>1, <1>2, <1>3, <1>4, <1>5, <1>6, <1>7 DEF RowsInv, OthersKept

LEMMA ClaimTraces ==
    ASSUME CatalogInv, NEW p \in Processes, Others(p), OnlyVersions, NoFault,
           \A v \in Versions : ClaimRow(p, v),
           process[p].version \notin stored, process[p].todo = {}, Pc(p) \notin Holding,
           Traces(p)'
    PROVE  TracesKept'
<1>1. catalogFaults \subseteq catalogFaults' /\ (Clean' => Clean) /\ stored \subseteq Versions
      /\ stored' = stored
  BY FaultsGrow DEF NoFault, CatalogInv, CatalogTypeOK, OnlyVersions
<1>2. ASSUME Clean', NEW v \in stored
      PROVE  Tracked(v)' /\ (Held(v) => Held(v)')
  <2>1. Tracked(v)
    BY <1>1, <1>2 DEF CatalogInv, TracesKept
  <2>2. versions'[v].state = "absent" => versions[v].state = "absent"
    BY <1>1 DEF ClaimRow
  <2>3. Tracked(v)'
    BY <2>1, <2>2, TrackedStands
  <2>4. Held(v) => Held(v)'
    BY HeldStands
  <2>. QED
    BY <2>3, <2>4
<1>3. \A q \in Processes, v \in stored :
          q # p /\ Of(v, process[q].template)' => Of(v, process[q].template)
  BY <1>1 DEF Of, ClaimRow, Others
<1>. QED
  BY <1>1, <1>2, <1>3, TracesCarry DEF CatalogInv

LEMMA ClaimComposed ==
    ASSUME CatalogInv, NEW p \in Processes, NEW r \in Process,
           process' = [process EXCEPT ![p] = r], OnlyVersions, NoFault,
           versions' \in [Versions -> TemplateVersionRow],
           \A v \in Versions : ClaimRow(p, v), Pc(p) = "idle", r.pc # "upsert",
           OwnWork(p)', \A q \in Processes : q # p => Apart(p, q)' /\ Apart(q, p)',
           Traces(p)'
    PROVE  CatalogInv'
<1>1. process' \in [Processes -> Process] /\ process'[p] = r /\ Others(p)
  BY DEF CatalogInv, CatalogTypeOK, Others
<1>2. CatalogTypeOK'
  <2>1. \A v \in Versions :
            /\ versions'[v].state = "pending" => versions'[v].token # NULL
            /\ versions'[v].state # "absent" => versions'[v].number > 0
    BY CatalogAssumption DEF CatalogInv, CatalogTypeOK, ClaimRow
  <2>. QED
    BY <1>1, <2>1, Remembered DEF CatalogInv, CatalogTypeOK, OnlyVersions
<1>3. RowsInv' /\ OthersKept(p)
  BY <1>1, ClaimRows
<1>4. SelectionsAgree'
  BY <1>1, SelectionsStand DEF OnlyVersions, Pc
<1>5. TracesKept'
  BY <1>1, NothingInHand, ClaimTraces DEF Holding
<1>. QED
  BY <1>2, <1>3, <1>4, <1>5, Composed

LEMMA ClaimStaleKeeps ==
    ASSUME CatalogInv, NEW p \in Processes, NEW stale \in SUBSET Versions,
           claim_stale_pending(p, stale)
    PROVE  CatalogInv'
<1>. DEFINE r == [Idle EXCEPT !.op = "reclaim",
                    !.pc = IF stale = {} THEN "deletions" ELSE "claimed", !.todo = stale]
<1>1. /\ Pc(p) = "idle" /\ process' = [process EXCEPT ![p] = r] /\ OnlyVersions /\ NoFault
      /\ \A v \in stale : versions[v].state = "pending"
      /\ versions' = [v \in Versions |-> IF v \in stale THEN [versions[v] EXCEPT !.token = p]
                                                        ELSE versions[v]]
  BY DEF claim_stale_pending, At, Pc
<1>2. r \in Process
  BY IdleTyped DEF Process, Operations, Idle
<1>3. /\ Pc(p)' = (IF stale = {} THEN "deletions" ELSE "claimed") /\ Others(p)
      /\ process'[p].version = NULL /\ process'[p].todo = stale /\ process'[p].template = NULL
      /\ r.pc # "upsert"
  BY <1>1 DEF CatalogInv, CatalogTypeOK, Others, Pc, Idle
<1>4. ASSUME NEW v \in Versions
      PROVE  ClaimRow(p, v) /\ versions'[v] \in TemplateVersionRow
  <2>1. versions[v] \in TemplateVersionRow
    BY VersionFields DEF CatalogInv
  <2>2. CASE v \in stale
    <3>1. versions'[v] = [versions[v] EXCEPT !.token = p] /\ versions[v].state = "pending"
      BY <1>1, <2>2
    <3>. QED
      BY <2>1, <3>1 DEF ClaimRow, TemplateVersionRow
  <2>3. CASE v \notin stale
    <3>1. versions'[v] = versions[v]
      BY <1>1, <2>3
    <3>. QED
      BY <2>1, <3>1 DEF ClaimRow
  <2>. QED
    BY <2>2, <2>3
<1>5. versions' \in [Versions -> TemplateVersionRow]
  BY <1>1, <1>4
<1>6. OwnWork(p)'
  <2>1. stale \subseteq drawn'
    BY <1>1 DEF CatalogInv, RowsInv, VersionRowsAgree, OnlyVersions
  <2>2. WorkPlaced(p)'
    BY <1>3, <2>1 DEF WorkPlaced, Publishing, Storing, Claiming, Erasing, Retaining
  <2>3. Claims(p)'
    BY <1>1, <1>3, <1>4 DEF Claims, PublishedVersion, ClaimRow
  <2>. QED
    BY <1>3, <2>2, <2>3 DEF OwnWork, Publishing, Storing, Erasing, Retaining
<1>7. \A q \in Processes : q # p => Apart(p, q)' /\ Apart(q, p)'
  <2>1. \A v \in stale : versions'[v].token = p
    BY <1>1 DEF CatalogInv, CatalogTypeOK, TemplateVersionRow
  <2>. QED
    BY <1>3, <2>1 DEF Apart, Publishing, Storing, Claiming, Retaining
<1>8. Traces(p)'
  BY <1>3 DEF Traces, Erasing
<1>. QED
  BY <1>1, <1>2, <1>3, <1>4, <1>5, <1>6, <1>7, <1>8, ClaimComposed

LEMMA ClaimVersionsKeeps ==
    ASSUME CatalogInv, NEW p \in Processes, NEW v \in Versions, claim_template_versions(p, v)
    PROVE  CatalogInv'
<1>. DEFINE r == [Idle EXCEPT !.pc = "retained", !.op = "retain", !.version = v]
<1>1. /\ Pc(p) = "idle" /\ process' = [process EXCEPT ![p] = r] /\ OnlyVersions /\ NoFault
      /\ Retainable(v) /\ versions' = [versions EXCEPT ![v].retention = p]
  BY DEF claim_template_versions, At, Pc
<1>2. r \in Process
  BY IdleTyped DEF Process, Operations, Idle
<1>3. /\ Pc(p)' = "retained" /\ Others(p)
      /\ process'[p].version = v /\ process'[p].todo = {} /\ process'[p].template = NULL
      /\ r.pc # "upsert"
  BY <1>1 DEF CatalogInv, CatalogTypeOK, Others, Pc, Idle
<1>4. \A w \in Versions : ClaimRow(p, w) /\ versions'[w] \in TemplateVersionRow
  BY <1>1 DEF CatalogInv, CatalogTypeOK, ClaimRow, TemplateVersionRow, Retainable,
              PublishedVersion, Row
<1>5. versions' \in [Versions -> TemplateVersionRow]
  BY <1>1, <1>4 DEF CatalogInv, CatalogTypeOK
<1>6. OwnWork(p)'
  <2>1. v \in drawn' /\ v # NULL /\ p # NULL
    BY <1>1, CatalogAssumption
       DEF CatalogInv, RowsInv, VersionRowsAgree, OnlyVersions, Retainable
  <2>2. WorkPlaced(p)'
    BY <1>3, <2>1 DEF WorkPlaced, Publishing, Storing, Claiming, Erasing, Retaining
  <2>3. Retains(p)'
    <3>1. versions'[v].retention = p
      BY <1>1 DEF CatalogInv, CatalogTypeOK, TemplateVersionRow
    <3>. QED
      BY <1>3, <2>1, <3>1 DEF Retains
  <2>. QED
    BY <1>3, <2>2, <2>3 DEF OwnWork, Publishing, Storing, Erasing, Claiming, Retaining
<1>7. ASSUME NEW q \in Processes, q # p
      PROVE  Apart(p, q)' /\ Apart(q, p)'
  <2>1. process'[q] = process[q] /\ Pc(q)' = Pc(q)
    BY <1>3, <1>7 DEF Others, Pc
  <2>2. Pc(q) \in Storing => process[q].version # v
    BY <1>1 DEF CatalogInv, OwnWork, Publishes, Publishing, PublishedVersion, Retainable
  <2>. QED
    BY <1>3, <2>1, <2>2 DEF Apart, Publishing, Storing, Claiming, Retaining
<1>8. Traces(p)'
  BY <1>3 DEF Traces, Erasing
<1>. QED
  BY <1>1, <1>2, <1>3, <1>4, <1>5, <1>6, <1>7, <1>8, ClaimComposed

----------------------------------------------------------------------------
(* Rows go: of an abandoned publication, of a deleted template, of an old   *)
(* version.                                                                 *)

\* What may go: no current version of a published template, no job's version.
Expendable(v) ==
    \/ ~PublishedVersion(v)
    \/ versions[v].retention # NULL
    \/ Row(versions[v].template).state # "published"

GoneRows ==
    /\ \A v \in Versions :
          versions'[v] = versions[v] \/ (versions'[v] = NoVersion /\ Expendable(v))
    /\ \A t \in Templates :
          \/ templates'[t] = templates[t]
          \/ /\ templates'[t] = NoTemplate
             /\ Row(t).state # "published"
             /\ \A v \in Versions : Of(v, t) => versions'[v] = NoVersion

LEMMA NoRows ==
    /\ NoVersion.state = "absent" /\ NoVersion.template = NULL /\ NoVersion.token = NULL
    /\ NoVersion.number = 0 /\ NoVersion.retention = NULL /\ NoVersion \in TemplateVersionRow
    /\ NoTemplate.state = "absent" /\ NoTemplate \in TemplateRow
BY DEF NoVersion, NoTemplate, TemplateVersionRow, TemplateRow

LEMMA GoneRowsKept ==
    ASSUME CatalogInv, NEW p \in Processes, Others(p), GoneRows, NoFault,
           UNCHANGED <<stored, drawn, frozen>>
    PROVE  RowsInv' /\ OthersKept(p)
<1>0. RowsInv /\ NULL \notin Templates \cup Processes \cup Versions
  BY CatalogAssumption DEF CatalogInv
<1>1. \A v \in Versions : versions'[v].state # "absent" =>
          versions'[v] = versions[v] /\ templates'[versions[v].template] = templates[versions[v].template]
  <2>. SUFFICES ASSUME NEW v \in Versions, versions'[v].state # "absent"
                PROVE  /\ versions'[v] = versions[v]
                       /\ templates'[versions[v].template] = templates[versions[v].template]
    OBVIOUS
  <2>1. versions'[v] = versions[v]
    BY NoRows DEF GoneRows
  <2>2. versions[v].template \in Templates
    BY <1>0, <2>1 DEF RowsInv, VersionRowsAgree
  <2>. QED
    BY <2>1, <2>2, NoRows DEF GoneRows, Of
<1>2. VersionRowsAgree'
  <2>. SUFFICES ASSUME NEW v \in Versions
                PROVE  /\ versions'[v].state = "absent" => versions'[v] = NoVersion
                       /\ versions'[v].state # "absent" =>
                             /\ v \in drawn'
                             /\ versions'[v].template \in Templates
                             /\ templates'[versions'[v].template].state # "absent"
                       /\ versions'[v].state = "pending" => versions'[v].retention = NULL
                       /\ versions'[v].state = "published" => versions'[v].token = NULL
    BY DEF VersionRowsAgree, PublishedVersion, Row
  <2>1. CASE versions'[v].state = "absent"
    BY <1>0, <2>1, NoRows DEF RowsInv, VersionRowsAgree, GoneRows
  <2>2. CASE versions'[v].state # "absent"
    BY <1>0, <1>1, <2>2 DEF RowsInv, VersionRowsAgree, PublishedVersion, Row
  <2>. QED
    BY <2>1, <2>2
<1>3. \A v \in Versions, t \in Templates : Of(v, t)' => Of(v, t) /\ versions'[v] = versions[v]
  BY <1>0, NoRows DEF GoneRows, Of
<1>4. ASSUME NEW t \in Templates, Row(t)'.state # "absent"
      PROVE  templates'[t] = templates[t]
  BY <1>4, NoRows DEF GoneRows, Row
<1>5. ASSUME NEW t \in Templates, Row(t).state = "published"
      PROVE  /\ templates'[t] = templates[t]
             /\ Row(t).current \in Versions
             /\ versions'[Row(t).current] = versions[Row(t).current]
  BY <1>0, <1>5 DEF GoneRows, RowsInv, TemplateRowsAgree, RetainedUnused, Expendable, Of
<1>6. TemplateRowsAgree'
  <2>. SUFFICES ASSUME NEW t \in Templates, Row(t)'.state # "absent"
                PROVE  /\ t \in drawn'
                       /\ Row(t)'.state = "pending" =>
                             \A v, w \in Versions : Of(v, t)' /\ Of(w, t)' =>
                                 v = w /\ versions'[v].state = "pending"
                       /\ Row(t)'.state = "published" =>
                             /\ Row(t)'.current \in Versions
                             /\ PublishedVersion(Row(t).current)'
                             /\ Of(Row(t).current, t)'
                             /\ Decided' => Row(t)'.current \in stored'
    BY DEF TemplateRowsAgree
  <2>1. templates'[t] = templates[t]
    BY <1>4
  <2>2. t \in drawn'
    BY <1>0, <2>1 DEF RowsInv, TemplateRowsAgree, Row
  <2>3. Row(t)'.state = "pending" =>
            \A v, w \in Versions : Of(v, t)' /\ Of(w, t)' => v = w /\ versions'[v].state = "pending"
    BY <1>0, <1>3, <2>1 DEF RowsInv, TemplateRowsAgree, Row
  <2>4. Row(t)'.state = "published" =>
             /\ Row(t)'.current \in Versions
             /\ PublishedVersion(Row(t).current)'
             /\ Of(Row(t).current, t)'
             /\ Decided' => Row(t)'.current \in stored'
    BY <1>0, <1>5, <2>1 DEF RowsInv, TemplateRowsAgree, Row, PublishedVersion, Of, Decided, NoFault
  <2>. QED
    BY <2>2, <2>3, <2>4
<1>7. RetainedUnused'
  <2>. SUFFICES ASSUME NEW v \in Versions, versions'[v].retention # NULL
                PROVE  /\ \A t \in Templates : templates'[t].current # v
                       /\ \A j \in Submissions : frozen'[j].version = v => frozen'[j].expired
    BY DEF RetainedUnused, Row
  <2>1. versions'[v] = versions[v]
    BY NoRows DEF GoneRows
  <2>2. NoTemplate.current = NULL
    BY DEF NoTemplate
  <2>. QED
    BY <1>0, <2>1, <2>2 DEF RowsInv, RetainedUnused, Row, GoneRows
<1>8. NumbersAgree'
  <2>1. ASSUME NEW v \in Versions, NEW w \in Versions,
               versions'[v].state # "absent", versions'[w].state # "absent",
               versions'[v].template = versions'[w].template,
               versions'[v].number = versions'[w].number
        PROVE  v = w
    BY <1>0, <1>1, <2>1 DEF RowsInv, NumbersAgree
  <2>2. ASSUME NEW t \in Templates, Row(t)'.state = "published",
               NEW v \in Versions, PublishedVersion(v)', Of(v, t)'
        PROVE  versions'[v].number <= versions'[Row(t)'.current].number
    <3>1. templates'[t] = templates[t] /\ Row(t).state = "published"
      BY <1>4, <2>2 DEF Row
    <3>2. Of(v, t) /\ versions'[v] = versions[v]
      BY <1>3, <2>2
    <3>3. versions'[Row(t).current] = versions[Row(t).current]
      BY <1>5, <3>1
    <3>. QED
      BY <1>0, <2>2, <3>1, <3>2, <3>3 DEF RowsInv, NumbersAgree, PublishedVersion, Row
  <2>. QED
    BY <2>1, <2>2 DEF NumbersAgree
<1>9. NumbersBounded'
  BY <1>0, NoRows DEF RowsInv, NumbersBounded, GoneRows
<1>10. FrozenAgree'
  <2>. SUFFICES ASSUME NEW j \in Submissions, frozen[j].version # NULL
                PROVE  /\ frozen[j].template \in Templates
                       /\ templates'[frozen[j].template].state = "published"
                       /\ ~frozen[j].expired =>
                             /\ versions'[frozen[j].version].state = "published"
                             /\ versions'[frozen[j].version].template = frozen[j].template
                             /\ Decided => frozen[j].version \in stored
    BY <1>0 DEF FrozenAgree, RowsInv, Row, PublishedVersion, Of, Decided, NoFault
  <2>1. /\ frozen[j].template \in Templates
        /\ templates'[frozen[j].template] = templates[frozen[j].template]
        /\ Row(frozen[j].template).state = "published"
    BY <1>0, <1>5 DEF RowsInv, FrozenAgree
  <2>2. frozen[j].version \in Versions
    BY DEF CatalogInv, CatalogTypeOK
  <2>3. ASSUME ~frozen[j].expired
        PROVE  /\ PublishedVersion(frozen[j].version)
               /\ Of(frozen[j].version, frozen[j].template)
               /\ Decided => frozen[j].version \in stored
               /\ versions[frozen[j].version].retention = NULL
    BY <1>0, <2>2, <2>3 DEF RowsInv, FrozenAgree, RetainedUnused
  <2>4. ASSUME ~frozen[j].expired
        PROVE  versions'[frozen[j].version] = versions[frozen[j].version]
    BY <2>1, <2>2, <2>3, <2>4 DEF GoneRows, Expendable, Of
  <2>. QED
    BY <2>1, <2>3, <2>4 DEF Row, PublishedVersion, Of
<1>11. ASSUME NEW q \in Processes, q # p
       PROVE  OwnWork(q)'
  <2>1. /\ OwnWork(q) /\ process'[q] = process[q] /\ Pc(q)' = Pc(q)
        /\ process[q].version \in Versions \cup {NULL} /\ process[q].todo \subseteq Versions
        /\ process[q].template \in Templates \cup {NULL}
    BY <1>11, ProcessFields DEF CatalogInv, Others, Pc
  <2>2. WorkPlaced(q)'
    BY <2>1 DEF OwnWork, WorkPlaced
  <2>3. ASSUME Pc(q) \in Publishing, Publishes(q)
        PROVE  Publishes(q)'
    <3>1. process[q].version \in Versions /\ process[q].template \in Templates
      BY <2>1, <2>3 DEF OwnWork, WorkPlaced
    <3>2. \A w \in Versions : PublishedVersion(w)' /\ Of(w, process[q].template)' =>
              PublishedVersion(w) /\ Of(w, process[q].template) /\ versions'[w].number = versions[w].number
      BY <1>3, <2>1, <3>1 DEF PublishedVersion, Of
    <3>3. CASE versions'[process[q].version] = NoVersion
      BY <1>0, <1>4, <2>1, <2>3, <3>1, <3>3, NoRows
         DEF Publishes, Row, PublishedVersion, Of, Decided, NoFault
    <3>4. CASE versions'[process[q].version] = versions[process[q].version]
      BY <1>0, <1>4, <2>1, <2>3, <3>1, <3>2, <3>4
         DEF Publishes, Row, PublishedVersion, Of, Decided, NoFault
    <3>. QED
      BY <3>1, <3>3, <3>4 DEF GoneRows
  <2>4. Claims(q) => Claims(q)'
    BY <2>1, NoRows DEF Claims, PublishedVersion, GoneRows
  <2>5. ASSUME Pc(q) \in Erasing, Erases(q)
        PROVE  Erases(q)'
    <3>1. process[q].template \in Templates
      BY <2>1, <2>5 DEF OwnWork, WorkPlaced
    <3>2. templates'[process[q].template].state \in {"deleting", "absent"}
      BY <2>5, <3>1, NoRows DEF GoneRows, Erases, Row
    <3>3. \A v \in process[q].todo : versions'[v].state # "absent" =>
              versions'[v].template = process[q].template
      BY <1>1, <2>1, <2>5 DEF Erases, Of
    <3>. QED
      BY <2>1, <3>2, <3>3 DEF Erases, Row, Of
  <2>6. Pc(q) \in Retaining /\ Retains(q) => Retains(q)'
    BY <2>1, NoRows DEF OwnWork, WorkPlaced, Retains, GoneRows
  <2>. QED
    BY <2>1, <2>2, <2>3, <2>4, <2>5, <2>6 DEF OwnWork
<1>12. ASSUME NEW q \in Processes, NEW s \in Processes, q # p, s # p
      PROVE  Apart(q, s)'
  <2>1. /\ Apart(q, s) /\ process'[q] = process[q] /\ process'[s] = process[s]
        /\ Pc(q)' = Pc(q) /\ Pc(s)' = Pc(s)
        /\ process[s].todo \subseteq Versions
    BY <1>12, ProcessFields DEF CatalogInv, Others, Pc
  <2>2. \A v \in Versions : versions[v].token # q => versions'[v].token # q
    BY <1>0, NoRows DEF GoneRows
  <2>. QED
    BY <2>1, <2>2 DEF Apart
<1>. QED
  BY <1>2, <1>6, <1>7, <1>8, <1>9, <1>10, <1>11, <1>12 DEF RowsInv, OthersKept

\* The objects of the rows that went are in somebody's hands.
LEMMA GoneComposed ==
    ASSUME CatalogInv, NEW p \in Processes, GoneRows, NoFault,
           versions' \in [Versions -> TemplateVersionRow],
           templates' \in [Templates -> TemplateRow],
           UNCHANGED <<stored, drawn, preferred, fallback, frozen>>,
           process'[p] \in Process, process' = [process EXCEPT ![p] = process'[p]],
           Pc(p) \notin Holding, Pc(p)' \in {"idle", "claimed", "deletions"},
           OwnWork(p)', \A q \in Processes : q # p => Apart(p, q)' /\ Apart(q, p)',
           Clean => \A v \in stored :
              /\ versions[v].state # "absent" /\ versions'[v].state = "absent" => Held(v)
              /\ process[p].version = v \/ v \in process[p].todo =>
                    v \in process'[p].todo \/ Held(v)
    PROVE  CatalogInv'
<1>1. process' \in [Processes -> Process] /\ Others(p)
  BY DEF CatalogInv, CatalogTypeOK, Others
<1>2. CatalogTypeOK'
  <2>1. \A v \in Versions :
            /\ versions'[v].state = "pending" => versions'[v].token # NULL
            /\ versions'[v].state # "absent" => versions'[v].number > 0
    BY NoRows DEF CatalogInv, CatalogTypeOK, GoneRows
  <2>. QED
    BY <1>1, <2>1, Remembered DEF CatalogInv, CatalogTypeOK
<1>3. RowsInv' /\ OthersKept(p)
  BY <1>1, GoneRowsKept
<1>4. SelectionsAgree'
  <2>1. ASSUME NEW t \in Templates, Row(t)'.state = "deleting"
        PROVE  Row(t).state = "deleting"
    BY <2>1, NoRows DEF GoneRows, Row
  <2>2. \A q \in Processes : Pc(q)' = "upsert" => Pc(q) = "upsert"
    BY <1>1 DEF Others, Pc
  <2>. QED
    BY <2>1, <2>2 DEF CatalogInv, SelectionsAgree, Restricted
<1>5. TracesKept'
  <2>1. catalogFaults \subseteq catalogFaults' /\ (Clean' => Clean) /\ stored \subseteq Versions
    BY FaultsGrow DEF NoFault, CatalogInv, CatalogTypeOK
  <2>2. ASSUME NEW v \in stored, Held(v)
        PROVE  Held(v)' /\ Tracked(v)'
    <3>1. Held(v)'
      BY <1>1, <2>2, HeldStands
    <3>. QED
      BY <3>1 DEF Held, Tracked
  <2>3. ASSUME Clean, NEW v \in stored, ~Held(v)
        PROVE  Tracked(v)'
    <3>1. versions'[v].state = "absent" => versions[v].state = "absent"
      BY <2>3
    <3>2. Tracked(v)
      BY <2>3 DEF CatalogInv, TracesKept
    <3>. QED
      BY <1>1, <2>3, <3>1, <3>2, TrackedStands
  <2>4. ASSUME NEW q \in Processes, NEW v \in stored, q # p, Pc(q) \in Erasing,
               Of(v, process[q].template)'
        PROVE  Of(v, process[q].template)
    <3>1. process'[q] = process[q] /\ process[q].template \in Templates
      BY <1>1, <2>4, ProcessFields DEF Others, CatalogInv, OwnWork, WorkPlaced
    <3>. QED
      BY <2>1, <2>4, <3>1, NoRows, CatalogAssumption DEF GoneRows, Of
  <2>5. Traces(p)'
    BY DEF Traces, Erasing
  <2>. QED
    BY <1>1, <2>1, <2>2, <2>3, <2>4, <2>5, TracesCarry DEF CatalogInv
<1>. QED
  BY <1>1, <1>2, <1>3, <1>4, <1>5, Composed

\* A template row goes with its versions.
LEMMA DeletedRows ==
    ASSUME CatalogInv, NEW t \in Templates, Deleted(t), Row(t).state # "published"
    PROVE  /\ GoneRows
           /\ versions' \in [Versions -> TemplateVersionRow]
           /\ templates' \in [Templates -> TemplateRow]
           /\ \A v \in Versions : versions'[v] # versions[v] => Of(v, t)
<1>1. /\ templates' = [templates EXCEPT ![t] = NoTemplate]
      /\ versions' = [v \in Versions |-> IF versions[v].template = t THEN NoVersion ELSE versions[v]]
  BY DEF Deleted
<1>2. templates' \in [Templates -> TemplateRow] /\ versions' \in [Versions -> TemplateVersionRow]
  BY <1>1, NoRows, VersionFields, TemplateFields DEF CatalogInv, CatalogTypeOK
<1>3. \A u \in Templates : templates'[u] = IF u = t THEN NoTemplate ELSE templates[u]
  BY <1>1 DEF CatalogInv, CatalogTypeOK
<1>4. \A v \in Versions : versions'[v] = IF Of(v, t) THEN NoVersion ELSE versions[v]
  BY <1>1 DEF Of
<1>5. GoneRows
  <2>1. \A v \in Versions : Of(v, t) => Expendable(v)
    BY DEF Of, Expendable
  <2>. QED
    BY <1>3, <1>4, <2>1 DEF GoneRows
<1>. QED
  BY <1>2, <1>4, <1>5

\* One version row goes, of an abandoned publication or after its retention.
LEMMA VersionGoes ==
    ASSUME CatalogInv, NEW v \in Versions, versions' = [versions EXCEPT ![v] = NoVersion],
           UNCHANGED templates, Expendable(v)
    PROVE  /\ GoneRows
           /\ versions' \in [Versions -> TemplateVersionRow]
           /\ templates' \in [Templates -> TemplateRow]
           /\ \A w \in Versions : versions'[w] # versions[w] => w = v
<1>1. versions' \in [Versions -> TemplateVersionRow] /\ templates' \in [Templates -> TemplateRow]
  BY NoRows DEF CatalogInv, CatalogTypeOK
<1>2. \A w \in Versions : versions'[w] = IF w = v THEN NoVersion ELSE versions[w]
  BY DEF CatalogInv, CatalogTypeOK
<1>. QED
  BY <1>1, <1>2 DEF GoneRows

LEMMA NoRowGoes ==
    ASSUME CatalogInv, UNCHANGED <<templates, versions>>
    PROVE  /\ GoneRows
           /\ versions' \in [Versions -> TemplateVersionRow]
           /\ templates' \in [Templates -> TemplateRow]
BY DEF GoneRows, CatalogInv, CatalogTypeOK

\* An aborted publication takes its version, and the template that never was.
LEMMA AbortedRows ==
    ASSUME CatalogInv, NEW p \in Processes, NEW v \in Versions, Aborted(p, v)
    PROVE  /\ GoneRows
           /\ versions' \in [Versions -> TemplateVersionRow]
           /\ templates' \in [Templates -> TemplateRow]
           /\ \A w \in Versions : versions'[w] # versions[w] => w = v
<1>. DEFINE t == versions[v].template
<1>1. CASE /\ versions[v].state = "pending" /\ versions[v].token = p
           /\ templates[t].state = "pending"
  <2>1. t \in Templates /\ Deleted(t) /\ Row(t).state = "pending"
    BY <1>1 DEF Aborted, CatalogInv, RowsInv, VersionRowsAgree, Row
  <2>2. \A w \in Versions : Of(w, t) => w = v
    BY <2>1 DEF CatalogInv, RowsInv, TemplateRowsAgree, Of
  <2>3. /\ GoneRows
        /\ versions' \in [Versions -> TemplateVersionRow]
        /\ templates' \in [Templates -> TemplateRow]
        /\ \A w \in Versions : versions'[w] # versions[w] => Of(w, t)
    BY <2>1, DeletedRows
  <2>. QED
    BY <2>2, <2>3
<1>2. CASE /\ versions[v].state = "pending" /\ versions[v].token = p
           /\ templates[t].state # "pending"
  <2>1. versions' = [versions EXCEPT ![v] = NoVersion] /\ UNCHANGED templates
    BY <1>2 DEF Aborted
  <2>2. Expendable(v)
    BY <1>2 DEF Expendable, PublishedVersion
  <2>. QED
    BY <2>1, <2>2, VersionGoes
<1>3. CASE ~(versions[v].state = "pending" /\ versions[v].token = p)
  BY <1>3, NoRowGoes DEF Aborted
<1>. QED
  BY <1>1, <1>2, <1>3

LEMMA GoneReturn ==
    ASSUME CatalogInv, NEW p \in Processes, GoneRows, NoFault, Return(p),
           versions' \in [Versions -> TemplateVersionRow],
           templates' \in [Templates -> TemplateRow],
           UNCHANGED <<stored, drawn, preferred, fallback, frozen>>,
           Pc(p) \notin Holding,
           Clean => \A v \in stored :
              /\ versions[v].state # "absent" /\ versions'[v].state = "absent" => Held(v)
              /\ process[p].version = v \/ v \in process[p].todo => Held(v)
    PROVE  CatalogInv'
<1>1. /\ process'[p] = Idle /\ process' = [process EXCEPT ![p] = Idle] /\ OwnWork(p)'
      /\ \A q \in Processes : Apart(p, q)' /\ Apart(q, p)'
  BY IdleIsPlaced DEF CatalogInv
<1>2. process'[p] \in Process /\ process' = [process EXCEPT ![p] = process'[p]] /\ Pc(p)' = "idle"
  BY <1>1, IdleTyped DEF Pc, Idle
<1>. QED
  BY <1>1, <1>2, GoneComposed

LEMMA AbortKeeps ==
    ASSUME CatalogInv, NEW p \in Processes, abort_pending(p)
    PROVE  CatalogInv'
<1>. DEFINE v == process[p].version
<1>1. /\ Pc(p) = "abort" /\ Aborted(p, v) /\ Return(p) /\ NoFault
      /\ UNCHANGED <<stored, drawn, preferred, fallback, frozen>>
      /\ WorkPlaced(p) /\ Publishes(p)
  BY DEF abort_pending, At, Pc, CatalogInv, OwnWork, Publishing
<1>2. v \in Versions /\ v \notin stored /\ process[p].todo = {}
  BY <1>1, ProcessFields DEF CatalogInv, WorkPlaced, Publishes, Publishing, Claiming
<1>3. /\ GoneRows
      /\ versions' \in [Versions -> TemplateVersionRow]
      /\ templates' \in [Templates -> TemplateRow]
      /\ \A w \in Versions : versions'[w] # versions[w] => w = v
  BY <1>1, <1>2, AbortedRows
<1>4. \A w \in stored : w \in Versions /\ versions'[w] = versions[w] /\ w # v
  BY <1>2, <1>3 DEF CatalogInv, CatalogTypeOK
<1>. QED
  BY <1>1, <1>2, <1>3, <1>4, GoneReturn DEF Holding

LEMMA ReclaimAbortKeeps ==
    ASSUME CatalogInv, NEW p \in Processes, ReclaimAbort(p)
    PROVE  CatalogInv'
<1>. DEFINE v == process[p].version
<1>1. /\ Pc(p) = "aborting" /\ Aborted(p, v) /\ NextClaim(p) /\ NoFault
      /\ UNCHANGED <<stored, drawn, preferred, fallback, frozen>>
      /\ WorkPlaced(p) /\ Claims(p)
  BY DEF ReclaimAbort, At, Pc, CatalogInv, OwnWork, Claiming
<1>2. v \in Versions /\ v \in process[p].todo /\ process[p].todo \subseteq Versions
  BY <1>1, ProcessFields DEF CatalogInv, WorkPlaced
<1>3. /\ GoneRows
      /\ versions' \in [Versions -> TemplateVersionRow]
      /\ templates' \in [Templates -> TemplateRow]
      /\ \A w \in Versions : versions'[w] # versions[w] => w = v
  BY <1>1, <1>2, AbortedRows
<1>4. \A w \in process[p].todo : ~PublishedVersion(w)'
  BY <1>1, <1>2, <1>3, NoRows DEF Claims, PublishedVersion, GoneRows
<1>5. /\ Others(p) /\ process'[p].version = NULL
      /\ process'[p].todo = process[p].todo \ {v}
      /\ Pc(p)' \in {"claimed", "deletions"}
      /\ process' = [process EXCEPT ![p] = process'[p]] /\ process'[p] \in Process
      /\ OwnWork(p)' /\ \A q \in Processes : Apart(p, q)'
  BY <1>1, <1>4, NextClaimPlaced DEF CatalogInv
<1>6. ASSUME NEW q \in Processes, q # p
      PROVE  Apart(q, p)'
  <2>1. process'[q] = process[q] /\ Pc(q)' = Pc(q) /\ Apart(q, p) /\ q # NULL
    BY <1>5, <1>6, CatalogAssumption DEF Others, Pc, CatalogInv
  <2>2. \A w \in Versions : versions[w].token # q => versions'[w].token # q
    BY <1>3, <2>1, NoRows DEF GoneRows
  <2>3. /\ Pc(q) \in Storing /\ process[q].version \in process'[p].todo =>
               versions'[process[q].version].token # q
        /\ Pc(p)' \notin Publishing \cup Retaining
    BY <1>1, <1>2, <1>5, <2>1, <2>2
       DEF Apart, Publishing, Storing, Claiming, Retaining
  <2>. QED
    BY <2>1, <2>3 DEF Apart
<1>7. ASSUME Clean, NEW w \in stored
      PROVE  /\ versions[w].state # "absent" /\ versions'[w].state = "absent" => Held(w)
             /\ process[p].version = w \/ w \in process[p].todo => w \in process'[p].todo \/ Held(w)
  <2>1. w \in Versions /\ (w = v => Held(w))
    BY <1>1, <1>7 DEF CatalogInv, CatalogTypeOK, TracesKept, Traces
  <2>. QED
    BY <1>3, <1>5, <2>1
<1>. QED
  BY <1>1, <1>3, <1>5, <1>6, <1>7, GoneComposed DEF Holding

\* The rows of a deleted template go when its objects are gone.
LEMMA DropKeeps ==
    ASSUME CatalogInv, NEW p \in Processes, finalize_delete(p) \/ DeletionDropped(p)
    PROVE  CatalogInv'
<1>. DEFINE t == process[p].template
<1>1. /\ Pc(p) \in {"drop", "dropping"} /\ DropTemplate(t) /\ Return(p) /\ NoFault
      /\ UNCHANGED <<stored, drawn, preferred, fallback, frozen>>
      /\ WorkPlaced(p) /\ Erases(p)
  BY DEF finalize_delete, DeletionDropped, At, Pc, CatalogInv, OwnWork, Erasing
<1>2. t \in Templates /\ process[p].version \notin stored /\ process[p].todo = {}
  BY <1>1, ProcessFields, NothingInHand DEF CatalogInv, WorkPlaced, Erasing
<1>3. /\ GoneRows
      /\ versions' \in [Versions -> TemplateVersionRow]
      /\ templates' \in [Templates -> TemplateRow]
      /\ \A w \in Versions : versions'[w] # versions[w] => Of(w, t)
  <2>1. CASE templates[t].state = "deleting" /\ ~Restricted(t)
    BY <1>1, <1>2, <2>1, DeletedRows DEF DropTemplate, Row
  <2>2. CASE ~(templates[t].state = "deleting" /\ ~Restricted(t))
    BY <1>1, <2>2, NoRowGoes DEF DropTemplate
  <2>. QED
    BY <2>1, <2>2
<1>4. Clean => \A w \in stored : versions'[w] # versions[w] => Held(w)
  BY <1>1, <1>2, <1>3 DEF CatalogInv, CatalogTypeOK, TracesKept, Traces, Erasing
<1>. QED
  BY <1>1, <1>2, <1>3, <1>4, GoneReturn DEF Holding

LEMMA CompleteKeeps ==
    ASSUME CatalogInv, NEW p \in Processes, complete_template_version(p)
    PROVE  CatalogInv'
<1>. DEFINE v == process[p].version
<1>1. /\ Pc(p) = "completing" /\ Return(p) /\ NoFault /\ OnlyVersions
      /\ WorkPlaced(p) /\ Retains(p)
      /\ \/ UNCHANGED versions
         \/ versions' = [versions EXCEPT ![v] = NoVersion] /\ versions[v].retention = p
  BY DEF complete_template_version, At, Pc, CatalogInv, OwnWork, Retaining
<1>2. v \in Versions /\ v \notin stored /\ process[p].todo = {} /\ p # NULL
  BY <1>1, ProcessFields, CatalogAssumption
     DEF CatalogInv, WorkPlaced, Retaining, Retains, Claiming
<1>3. /\ GoneRows
      /\ versions' \in [Versions -> TemplateVersionRow]
      /\ templates' \in [Templates -> TemplateRow]
      /\ \A w \in Versions : versions'[w] # versions[w] => w = v
  <2>1. CASE UNCHANGED versions
    BY <1>1, <2>1, NoRowGoes DEF OnlyVersions
  <2>2. CASE versions' = [versions EXCEPT ![v] = NoVersion] /\ versions[v].retention = p
    BY <1>1, <1>2, <2>2, VersionGoes DEF OnlyVersions, Expendable
  <2>. QED
    BY <1>1, <2>1, <2>2
<1>4. \A w \in stored : w \in Versions /\ versions'[w] = versions[w] /\ w # v
  BY <1>2, <1>3 DEF CatalogInv, CatalogTypeOK
<1>. QED
  BY <1>1, <1>2, <1>3, <1>4, GoneReturn DEF Holding, OnlyVersions

----------------------------------------------------------------------------
(* Jobs and selections.                                                    *)

LEMMA WorkUntouched ==
    ASSUME CatalogInv, UNCHANGED <<templates, versions, stored, drawn, process, catalogFaults>>
    PROVE  /\ VersionRowsAgree' /\ TemplateRowsAgree' /\ NumbersAgree' /\ NumbersBounded'
           /\ \A p \in Processes : OwnWork(p)'
           /\ \A p, q \in Processes : Apart(p, q)'
           /\ TracesKept'
<1>1. VersionRowsAgree' /\ TemplateRowsAgree' /\ NumbersAgree' /\ NumbersBounded'
  BY DEF CatalogInv, RowsInv, VersionRowsAgree, TemplateRowsAgree, NumbersAgree, NumbersBounded,
         Row, PublishedVersion, Of, Decided
<1>2. ASSUME NEW p \in Processes
      PROVE  OwnWork(p)'
  <2>1. OwnWork(p) /\ Pc(p)' = Pc(p)
    BY DEF CatalogInv, Pc
  <2>2. WorkPlaced(p)'
    BY <2>1 DEF OwnWork, WorkPlaced
  <2>3. Publishes(p) => Publishes(p)'
    BY <2>1 DEF Publishes, Row, PublishedVersion, Of, Decided
  <2>4. (Claims(p) => Claims(p)') /\ (Erases(p) => Erases(p)') /\ (Retains(p) => Retains(p)')
    BY <2>1 DEF Claims, Erases, Retains, Row, PublishedVersion, Of
  <2>. QED
    BY <2>1, <2>2, <2>3, <2>4 DEF OwnWork
<1>3. \A p, q \in Processes : Apart(p, q)'
  BY DEF CatalogInv, Apart, Pc
<1>4. TracesKept'
  BY DEF CatalogInv, TracesKept, Clean, Tracked, Traces, Held, Pc, Of
<1>. QED
  BY <1>1, <1>2, <1>3, <1>4

LEMMA FreezeKeeps ==
    ASSUME CatalogInv, NEW j \in Submissions, NEW v \in Versions, FreezeVersion(j, v)
    PROVE  CatalogInv'
<1>1. /\ UNCHANGED <<templates, versions, stored, drawn, preferred, fallback, process, catalogFaults>>
      /\ frozen[j].version = NULL /\ Freezable(v) /\ RowsInv
      /\ frozen' = [frozen EXCEPT ![j].version = v, ![j].template = versions[v].template]
  BY DEF FreezeVersion, CatalogInv
<1>2. /\ versions[v].template \in Templates /\ Row(versions[v].template).state = "published"
      /\ Row(versions[v].template).current = v /\ PublishedVersion(v)
      /\ v # NULL /\ versions[v].retention = NULL
      /\ Decided => v \in stored
  BY <1>1, CatalogAssumption
     DEF Freezable, Active, Visible, RowsInv, VersionRowsAgree, TemplateRowsAgree, Row,
         PublishedVersion
<1>3. \A k \in Submissions :
          /\ frozen'[k].version = IF k = j THEN v ELSE frozen[k].version
          /\ frozen'[k].template = IF k = j THEN versions[v].template ELSE frozen[k].template
          /\ frozen'[k].expired = frozen[k].expired
  BY <1>1 DEF CatalogInv, CatalogTypeOK
<1>4. FrozenAgree'
  <2>. SUFFICES ASSUME NEW k \in Submissions
                PROVE  /\ frozen'[k].version # NULL =>
                             /\ frozen'[k].template \in Templates
                             /\ Row(frozen[k].template)'.state = "published"
                       /\ frozen'[k].version = NULL => frozen'[k].template = NULL
                       /\ frozen'[k].version # NULL /\ ~frozen'[k].expired =>
                             /\ PublishedVersion(frozen[k].version)'
                             /\ Of(frozen[k].version, frozen[k].template)'
                             /\ Decided' => frozen'[k].version \in stored'
    BY DEF FrozenAgree
  <2>1. CASE k = j
    <3>1. frozen'[k].version = v /\ frozen'[k].template = versions[v].template
      BY <1>3, <2>1
    <3>. QED
      BY <1>1, <1>2, <3>1 DEF Row, PublishedVersion, Of, Decided
  <2>2. CASE k # j
    <3>1. /\ frozen'[k].version = frozen[k].version /\ frozen'[k].template = frozen[k].template
          /\ frozen'[k].expired = frozen[k].expired
      BY <1>3, <2>2
    <3>. QED
      BY <1>1, <3>1 DEF RowsInv, FrozenAgree, Row, PublishedVersion, Of, Decided
  <2>. QED
    BY <2>1, <2>2
<1>5. RetainedUnused'
  <2>. SUFFICES ASSUME NEW w \in Versions, versions[w].retention # NULL
                PROVE  /\ \A t \in Templates : templates[t].current # w
                       /\ \A k \in Submissions : frozen'[k].version = w => frozen'[k].expired
    BY <1>1 DEF RetainedUnused, Row
  <2>1. w # v
    BY <1>2
  <2>2. /\ \A t \in Templates : templates[t].current # w
        /\ \A k \in Submissions : frozen[k].version = w => frozen[k].expired
    BY <1>1 DEF RowsInv, RetainedUnused, Row
  <2>3. ASSUME NEW k \in Submissions, frozen'[k].version = w
        PROVE  frozen'[k].expired
    <3>1. frozen[k].version = w /\ frozen'[k].expired = frozen[k].expired
      BY <1>3, <2>1, <2>3
    <3>. QED
      BY <2>2, <3>1
  <2>. QED
    BY <2>2, <2>3
<1>6. SelectionsAgree'
  BY <1>1 DEF CatalogInv, SelectionsAgree, Row, Restricted, Pc
<1>7. CatalogTypeOK'
  <2>1. frozen' \in [Submissions -> [template : Templates \cup {NULL}, version : Versions \cup {NULL},
                                expired : BOOLEAN]]
    BY <1>1, <1>2 DEF CatalogInv, CatalogTypeOK
  <2>. QED
    BY <1>1, <2>1 DEF CatalogInv, CatalogTypeOK
<1>. QED
  BY <1>1, <1>4, <1>5, <1>6, <1>7, WorkUntouched DEF CatalogInv, RowsInv

LEMMA ExpireKeeps ==
    ASSUME CatalogInv, NEW j \in Submissions, JobExpires(j)
    PROVE  CatalogInv'
<1>1. /\ UNCHANGED <<templates, versions, stored, drawn, preferred, fallback, process, catalogFaults>>
      /\ frozen' = [frozen EXCEPT ![j].expired = TRUE] /\ RowsInv
  BY DEF JobExpires, CatalogInv
<1>2. \A k \in Submissions :
          /\ frozen'[k].version = frozen[k].version
          /\ frozen'[k].template = frozen[k].template
          /\ frozen'[k].expired = (k = j \/ frozen[k].expired)
  BY <1>1 DEF CatalogInv, CatalogTypeOK
<1>3. FrozenAgree' /\ RetainedUnused'
  BY <1>1, <1>2 DEF RowsInv, FrozenAgree, RetainedUnused, Row, PublishedVersion, Of, Decided
<1>4. SelectionsAgree'
  BY <1>1 DEF CatalogInv, SelectionsAgree, Row, Restricted, Pc
<1>5. CatalogTypeOK'
  BY <1>1 DEF CatalogInv, CatalogTypeOK
<1>. QED
  BY <1>1, <1>3, <1>4, <1>5, WorkUntouched DEF CatalogInv, RowsInv

LEMMA ClearKeeps ==
    ASSUME CatalogInv, clear_preferred
    PROVE  CatalogInv'
<1>1. /\ UNCHANGED <<templates, versions, stored, drawn, fallback, frozen, process, catalogFaults>>
      /\ preferred' = NULL
  BY DEF clear_preferred
<1>2. FrozenAgree' /\ RetainedUnused'
  BY <1>1 DEF CatalogInv, RowsInv, FrozenAgree, RetainedUnused, Row, PublishedVersion, Of, Decided
<1>3. SelectionsAgree'
  BY <1>1, CatalogAssumption DEF CatalogInv, SelectionsAgree, Row, Restricted, Pc
<1>4. CatalogTypeOK'
  BY <1>1 DEF CatalogInv, CatalogTypeOK
<1>. QED
  BY <1>1, <1>2, <1>3, <1>4, WorkUntouched DEF CatalogInv, RowsInv

\* The selection is written: at once with its check, or later.
LEMMA UpsertedKeeps ==
    ASSUME CatalogInv, NEW p \in Processes, Upserted(p), Pc(p) \in {"read", "upsert"},
           PostgreSQL \/ Row(process[p].template).state = "published"
    PROVE  CatalogInv'
<1>. DEFINE t == process[p].template
<1>1. /\ UNCHANGED <<templates, versions, stored, drawn, frozen>> /\ Return(p) /\ NoFault
      /\ preferred' \in {preferred, t} /\ fallback' \in {fallback, t}
  BY DEF Upserted
<1>2. /\ Others(p) /\ process'[p] = Idle /\ process' = [process EXCEPT ![p] = Idle]
      /\ OwnWork(p)' /\ \A q \in Processes : Apart(p, q)' /\ Apart(q, p)'
  BY <1>1, IdleIsPlaced DEF CatalogInv
<1>3. Pc(p)' = "idle" /\ t \in Templates \cup {NULL}
  BY <1>2, ProcessFields DEF Pc, Idle, CatalogInv
<1>4. CatalogTypeOK'
  <2>1. process' \in [Processes -> Process]
    BY <1>2, IdleTyped DEF CatalogInv, CatalogTypeOK
  <2>. QED
    BY <1>1, <1>3, <2>1, Remembered DEF CatalogInv, CatalogTypeOK
<1>5. RowsInv'
  BY <1>1 DEF CatalogInv, RowsInv, VersionRowsAgree, TemplateRowsAgree, RetainedUnused,
              NumbersAgree, NumbersBounded, FrozenAgree, Row, PublishedVersion, Of, Decided, NoFault
<1>6. OthersKept(p)
  <2>1. ASSUME NEW q \in Processes, q # p
        PROVE  OwnWork(q)'
    <3>1. OwnWork(q) /\ process'[q] = process[q] /\ Pc(q)' = Pc(q)
      BY <1>2, <2>1 DEF CatalogInv, Others, Pc
    <3>2. WorkPlaced(q)'
      BY <1>1, <3>1 DEF OwnWork, WorkPlaced
    <3>3. Publishes(q) => Publishes(q)'
      BY <1>1, <3>1 DEF Publishes, Row, PublishedVersion, Of, Decided, NoFault
    <3>4. (Claims(q) => Claims(q)') /\ (Erases(q) => Erases(q)') /\ (Retains(q) => Retains(q)')
      BY <1>1, <3>1 DEF Claims, Erases, Retains, Row, PublishedVersion, Of
    <3>. QED
      BY <3>1, <3>2, <3>3, <3>4 DEF OwnWork
  <2>2. \A q, s \in Processes : q # p /\ s # p => Apart(q, s)'
    BY <1>1, <1>2, ApartStands DEF CatalogInv, Others
  <2>. QED
    BY <2>1, <2>2 DEF OthersKept
<1>7. SelectionsAgree'
  BY <1>1, <1>2, <1>3, CatalogAssumption DEF CatalogInv, SelectionsAgree, Pc, Others, Row, Restricted
<1>8. TracesKept'
  <2>1. Traces(p)'
    BY <1>3 DEF Traces, Erasing
  <2>. QED
    BY <1>1, <1>2, <2>1, NothingInHand, TracesStand
       DEF CatalogInv, CatalogTypeOK, NoFault, Holding
<1>. QED
  BY <1>2, <1>4, <1>5, <1>6, <1>7, <1>8, Composed

LEMMA SelectKeeps ==
    ASSUME CatalogInv, NEW p \in Processes, RequireActive(p) \/ UpsertSelection(p)
    PROVE  CatalogInv'
<1>1. CASE UpsertSelection(p)
  <2>1. Pc(p) = "upsert" /\ Upserted(p) /\ PostgreSQL
    BY <1>1 DEF UpsertSelection, At, Pc, CatalogInv, SelectionsAgree
  <2>. QED
    BY <2>1, UpsertedKeeps
<1>2. CASE RequireActive(p)
  <2>1. At(p, "read")
    BY <1>2 DEF RequireActive
  <2>2. CASE ~Active(process[p].template)
    BY <1>2, <2>1, <2>2, RefusalReturns DEF RequireActive
  <2>3. CASE Active(process[p].template) /\ PostgreSQL
    BY <1>2, <2>1, <2>3, RequireActiveLater DEF RequireActive
  <2>4. CASE Active(process[p].template) /\ ~PostgreSQL
    <3>1. Upserted(p) /\ Pc(p) = "read" /\ Row(process[p].template).state = "published"
      BY <1>2, <2>1, <2>4 DEF RequireActive, At, Pc, Active, Visible, Row
    <3>. QED
      BY <3>1, UpsertedKeeps
  <2>. QED
    BY <2>2, <2>3, <2>4
<1>. QED
  BY <1>1, <1>2

----------------------------------------------------------------------------
(* A template row changes: its revision grows.                             *)

Touched(t) ==
    /\ templates' \in [Templates -> TemplateRow]
    /\ \A u \in Templates : u # t => templates'[u] = templates[u]
    /\ templates'[t].revision = templates[t].revision + 1
    /\ templates'[t].current = templates[t].current
    /\ \/ templates'[t].state = templates[t].state /\ Row(t).state # "absent"
       \/ Row(t).state = "published" /\ templates'[t].state = "deleting" /\ ~Referenced(t)

LEMMA TouchedKeeps ==
    ASSUME CatalogInv, NEW p \in Processes, NEW t \in Templates, Touched(t), OnlyTemplates,
           NoFault, NEW r \in Process, process' = [process EXCEPT ![p] = r], r.pc # "upsert",
           OwnWork(p)', \A q \in Processes : q # p => Apart(p, q)' /\ Apart(q, p)', TracesKept'
    PROVE  CatalogInv'
<1>0. RowsInv /\ t # NULL
  BY CatalogAssumption DEF CatalogInv
<1>1. process' \in [Processes -> Process] /\ process'[p] = r /\ Others(p)
  BY DEF CatalogInv, CatalogTypeOK, Others
<1>2. CatalogTypeOK'
  BY <1>1, Remembered DEF CatalogInv, CatalogTypeOK, OnlyTemplates, Touched
<1>3. VersionRowsAgree'
  BY <1>0 DEF RowsInv, VersionRowsAgree, OnlyTemplates, Touched, Row, PublishedVersion
<1>4. TemplateRowsAgree'
  BY <1>0 DEF RowsInv, TemplateRowsAgree, OnlyTemplates, Touched, Row, PublishedVersion, Of,
              Decided, NoFault
<1>5. RetainedUnused'
  BY <1>0 DEF RowsInv, RetainedUnused, OnlyTemplates, Touched, Row
<1>6. NumbersAgree' /\ NumbersBounded'
  BY <1>0 DEF RowsInv, NumbersAgree, NumbersBounded, OnlyTemplates, Touched, Row,
              PublishedVersion, Of
<1>7. FrozenAgree'
  <2>1. \A j \in Submissions : frozen[j].version # NULL =>
            templates'[frozen[j].template].state = "published"
    BY <1>0 DEF RowsInv, FrozenAgree, Touched, Referenced, Row
  <2>. QED
    BY <1>0, <2>1 DEF RowsInv, FrozenAgree, OnlyTemplates, Row, PublishedVersion, Of, Decided, NoFault
<1>8. ASSUME NEW q \in Processes, q # p
      PROVE  OwnWork(q)'
  <2>1. /\ OwnWork(q) /\ process'[q] = process[q] /\ Pc(q)' = Pc(q)
        /\ process[q].template \in Templates \cup {NULL} /\ process[q].revision \in Nat
    BY <1>1, <1>8, ProcessFields DEF CatalogInv, Others, Pc
  <2>2. WorkPlaced(q)'
    BY <2>1 DEF OwnWork, WorkPlaced, OnlyTemplates
  <2>3. ASSUME Pc(q) \in Publishing, Publishes(q)
        PROVE  Publishes(q)'
    <3>1. process[q].template \in Templates
      BY <2>1, <2>3 DEF OwnWork, WorkPlaced
    <3>2. CASE process[q].template # t
      <4>1. templates'[process[q].template] = templates[process[q].template]
        BY <3>1, <3>2 DEF Touched
      <4>. QED
        BY <2>1, <2>3, <4>1
           DEF Publishes, OnlyTemplates, Row, PublishedVersion, Of, Decided, NoFault
    <3>3. CASE process[q].template = t
      <4>1. /\ Row(t).state # "absent" /\ Row(t).revision \in Nat
            /\ templates'[t].revision = Row(t).revision + 1
        BY TemplateFields DEF CatalogInv, Touched, Row
      <4>2. process[q].revision < templates'[t].revision
        BY <2>1, <2>3, <3>3, <4>1 DEF Publishes
      <4>3. /\ templates'[t].revision # process[q].revision
            /\ process[q].revision <= templates'[t].revision
        BY <2>1, <4>1, <4>2
      <4>4. templates'[t].state \in {"pending", "published"} => templates'[t].state = templates[t].state
        BY DEF Touched
      <4>. QED
        BY <2>1, <2>3, <3>3, <4>3, <4>4
           DEF Publishes, OnlyTemplates, Row, PublishedVersion, Of, Decided, NoFault
    <3>. QED
      BY <3>2, <3>3
  <2>4. (Claims(q) => Claims(q)') /\ (Retains(q) => Retains(q)')
    BY <2>1 DEF Claims, Retains, OnlyTemplates, PublishedVersion
  <2>5. ASSUME Pc(q) \in Erasing, Erases(q)
        PROVE  Erases(q)'
    <3>1. process[q].template \in Templates
      BY <2>1, <2>5 DEF OwnWork, WorkPlaced
    <3>2. templates'[process[q].template].state = templates[process[q].template].state
      BY <2>5, <3>1 DEF Erases, Touched, Row
    <3>. QED
      BY <2>1, <2>5, <3>2 DEF Erases, OnlyTemplates, Row, Of
  <2>. QED
    BY <2>1, <2>2, <2>3, <2>4, <2>5 DEF OwnWork
<1>9. \A q, s \in Processes : q # p /\ s # p => Apart(q, s)'
  BY <1>1, ApartStands DEF CatalogInv, Others, OnlyTemplates
<1>10. SelectionsAgree'
  <2>1. \A u \in Templates : templates'[u].state = "deleting" =>
            Row(u).state = "deleting" \/ ~Restricted(u)
    BY DEF Touched, Referenced, Row
  <2>. QED
    BY <1>1, <2>1 DEF CatalogInv, SelectionsAgree, Pc, Others, OnlyTemplates, Row, Restricted
<1>11. RowsInv' /\ OthersKept(p)
  BY <1>3, <1>4, <1>5, <1>6, <1>7, <1>8, <1>9 DEF RowsInv, OthersKept
<1>. QED
  BY <1>2, <1>10, <1>11, Composed

LEMMA UpdateKeeps ==
    ASSUME CatalogInv, NEW p \in Processes, _cas_update(p)
    PROVE  CatalogInv'
<1>. DEFINE t == process[p].template
<1>1. /\ Pc(p) = "read" /\ Return(p) /\ NoFault /\ OnlyTemplates /\ At(p, "read") /\ WorkPlaced(p)
  BY DEF _cas_update, At, Pc, CatalogInv, OwnWork
<1>2. t \in Templates
  BY <1>1, ProcessFields DEF WorkPlaced, CatalogInv
<1>3. CASE UNCHANGED templates
  <2>1. UNCHANGED Rows
    BY <1>1, <1>3 DEF Rows, OnlyTemplates
  <2>. QED
    BY <1>1, <2>1, RefusalReturns
<1>4. CASE ~UNCHANGED templates
  <2>1. /\ templates[t].state # "absent"
        /\ templates' = [templates EXCEPT
                ![t].revision = @ + 1,
                ![t].status = IF process[p].op = "archive" THEN "archived" ELSE @]
    BY <1>4 DEF _cas_update
  <2>2. Touched(t)
    <3>1. templates[t] \in TemplateRow /\ templates \in [Templates -> TemplateRow]
      BY <1>2 DEF CatalogInv, CatalogTypeOK
    <3>. QED
      BY <1>2, <2>1, <3>1 DEF Touched, TemplateRow, Row
  <2>3. /\ Others(p) /\ process'[p] = Idle /\ process' = [process EXCEPT ![p] = Idle]
        /\ OwnWork(p)' /\ \A q \in Processes : Apart(p, q)' /\ Apart(q, p)'
    BY <1>1, IdleIsPlaced DEF CatalogInv
  <2>4. TracesKept'
    <3>1. Traces(p)'
      BY <2>3 DEF Traces, Erasing, Pc, Idle
    <3>. QED
      BY <1>1, <2>3, <3>1, NothingInHand, TracesStand
         DEF CatalogInv, CatalogTypeOK, NoFault, Holding, OnlyTemplates
  <2>5. Idle.pc # "upsert"
    BY DEF Idle
  <2>. QED
    BY <1>1, <1>2, <2>2, <2>3, <2>4, <2>5, IdleTyped, TouchedKeeps
<1>. QED
  BY <1>3, <1>4

LEMMA BeginDeleteKeeps ==
    ASSUME CatalogInv, NEW p \in Processes, begin_delete(p)
    PROVE  CatalogInv'
<1>1. /\ Pc(p) = "read" /\ NoFault /\ OnlyTemplates /\ At(p, "read") /\ WorkPlaced(p)
  BY DEF begin_delete, At, Pc, CatalogInv, OwnWork
<1>2. PICK t \in Templates, e \in Nat : t = process[p].template /\ e = process[p].revision
  BY <1>1, ProcessFields DEF WorkPlaced, CatalogInv
<1>. DEFINE r == [process[p] EXCEPT !.pc = "erase", !.todo = VersionsOf(t)]
<1>3. CASE ~(DeleteRetry(t, e) \/ Deletable(t, e))
  <2>1. Return(p) /\ UNCHANGED templates
    BY <1>2, <1>3 DEF begin_delete
  <2>2. UNCHANGED Rows
    BY <1>1, <2>1 DEF Rows, OnlyTemplates
  <2>. QED
    BY <1>1, <2>1, <2>2, RefusalReturns
<1>4. CASE DeleteRetry(t, e) \/ Deletable(t, e)
  <2>1. process' = [process EXCEPT ![p] = r] /\ VersionsOf(t) \subseteq Versions
    BY <1>2, <1>4 DEF begin_delete, VersionsOf
  <2>2. r \in Process /\ process'[p] = r /\ Others(p)
    BY <2>1 DEF CatalogInv, CatalogTypeOK, Process, Others
  <2>3. /\ Pc(p)' = "erase" /\ process'[p].version = process[p].version
        /\ process'[p].template = t /\ process'[p].todo = VersionsOf(t)
    BY <1>2, <2>2, ProcessFields DEF CatalogInv, Pc, Process
  <2>4. process'[p].version = NULL /\ r.pc # "upsert"
    BY <1>1, <2>2, <2>3, NothingInHand DEF Pc
  <2>5. catalogFaults \subseteq catalogFaults' /\ catalogFaults' \subseteq CatalogEvents
    BY <1>1, Remembered DEF CatalogInv
  <2>6. Row(t).state # "absent" /\ Row(t)'.state = "deleting"
    <3>1. CASE DeleteRetry(t, e)
      <4>1. UNCHANGED templates
        BY <1>2, <3>1 DEF begin_delete
      <4>. QED
        BY <3>1, <4>1 DEF DeleteRetry, Row
    <3>2. CASE ~DeleteRetry(t, e)
      <4>1. /\ templates' = [templates EXCEPT ![t].state = "deleting", ![t].revision = @ + 1]
            /\ templates[t].state = "published"
        BY <1>2, <1>4, <3>2 DEF begin_delete, Deletable
      <4>. QED
        BY <1>2, <4>1 DEF CatalogInv, CatalogTypeOK, TemplateRow, Row
    <3>. QED
      BY <3>1, <3>2
  <2>7. OwnWork(p)' /\ (\A q \in Processes : Apart(p, q)' /\ Apart(q, p)') /\ TracesKept'
    <3>1. UNCHANGED <<versions, stored, drawn>>
      BY <1>1 DEF OnlyTemplates
    <3>. QED
      BY <1>1, <1>2, <2>2, <2>3, <2>4, <2>5, <2>6, <3>1, EraserPlaced
  <2>8. CASE DeleteRetry(t, e)
    <3>1. UNCHANGED Rows
      BY <1>1, <1>2, <2>8 DEF begin_delete, Rows, OnlyTemplates
    <3>. QED
      BY <2>1, <2>2, <2>4, <2>5, <2>7, <3>1, QuietStep
  <2>9. CASE ~DeleteRetry(t, e)
    <3>1. /\ templates' = [templates EXCEPT ![t].state = "deleting", ![t].revision = @ + 1]
          /\ templates[t].state = "published" /\ ~Referenced(t)
      BY <1>2, <1>4, <2>9 DEF begin_delete, Deletable
    <3>2. Touched(t)
      <4>1. templates[t] \in TemplateRow /\ templates \in [Templates -> TemplateRow]
        BY <1>2 DEF CatalogInv, CatalogTypeOK
      <4>. QED
        BY <1>2, <3>1, <4>1 DEF Touched, TemplateRow, Row
    <3>. QED
      BY <1>1, <1>2, <2>1, <2>2, <2>4, <2>7, <3>2, TouchedKeeps
  <2>. QED
    BY <2>8, <2>9
<1>. QED
  BY <1>3, <1>4

----------------------------------------------------------------------------
(* A version is reserved.                                                  *)

\* The version is new, numbered above those of its template, and hidden.
Fresh(p, t, v, n) ==
    /\ v \notin drawn
    /\ versions' = [versions EXCEPT ![v] = NewVersion(p, t, n)]
    /\ n > 0
    /\ \A w \in Versions : versions[w].state # "absent" /\ Of(w, t) => versions[w].number < n
    /\ templates' \in [Templates -> TemplateRow]
    /\ \A u \in Templates : u # t => templates'[u] = templates[u]
    /\ \/ templates'[t] = templates[t] /\ Row(t).state = "published"
       \/ /\ t \notin drawn
          /\ templates'[t].state = "pending" /\ templates'[t].current = NULL
    /\ drawn' = drawn \cup {t, v}
    /\ UNCHANGED <<stored, preferred, fallback, frozen, catalogFaults>>

LEMMA FreshRows ==
    ASSUME CatalogInv, NEW p \in Processes, NEW t \in Templates, NEW v \in Versions, NEW n \in Nat,
           Fresh(p, t, v, n)
    PROVE  /\ versions' \in [Versions -> TemplateVersionRow]
           /\ versions'[v].state = "pending" /\ versions'[v].template = t
           /\ versions'[v].number = n /\ versions'[v].token = p /\ versions'[v].retention = NULL
           /\ \A w \in Versions : w # v => versions'[w] = versions[w]
           /\ versions[v].state = "absent" /\ versions[v] = NoVersion
           /\ t \notin drawn => \A w \in Versions : ~Of(w, t)
<1>1. NewVersion(p, t, n) \in TemplateVersionRow
  BY DEF NewVersion, NoVersion, TemplateVersionRow
<1>2. /\ NewVersion(p, t, n).state = "pending" /\ NewVersion(p, t, n).template = t
      /\ NewVersion(p, t, n).number = n /\ NewVersion(p, t, n).token = p
      /\ NewVersion(p, t, n).retention = NULL
  BY DEF NewVersion, NoVersion
<1>3. versions' \in [Versions -> TemplateVersionRow] /\ versions'[v] = NewVersion(p, t, n)
      /\ \A w \in Versions : w # v => versions'[w] = versions[w]
  BY <1>1 DEF Fresh, CatalogInv, CatalogTypeOK
<1>4. versions[v].state = "absent" /\ versions[v] = NoVersion
  BY DEF Fresh, CatalogInv, RowsInv, VersionRowsAgree
<1>5. ASSUME t \notin drawn, NEW w \in Versions, Of(w, t)
      PROVE  FALSE
  BY <1>5, NoRows, CatalogAssumption
     DEF CatalogInv, RowsInv, VersionRowsAgree, TemplateRowsAgree, Of, Row
<1>. QED
  BY <1>2, <1>3, <1>4, <1>5

LEMMA FreshKeepsRows ==
    ASSUME CatalogInv, NEW p \in Processes, NEW t \in Templates, NEW v \in Versions, NEW n \in Nat,
           Fresh(p, t, v, n)
    PROVE  RowsInv'
<1>0. /\ RowsInv /\ v # NULL /\ t # NULL /\ p # NULL
      /\ Decided' = Decided /\ UNCHANGED <<stored, frozen>>
  BY CatalogAssumption DEF CatalogInv, Decided, Fresh
<1>1. /\ versions' \in [Versions -> TemplateVersionRow]
      /\ versions'[v].state = "pending" /\ versions'[v].template = t
      /\ versions'[v].number = n /\ versions'[v].token = p /\ versions'[v].retention = NULL
      /\ \A w \in Versions : w # v => versions'[w] = versions[w]
      /\ versions[v].state = "absent" /\ versions[v] = NoVersion
      /\ t \notin drawn => \A w \in Versions : ~Of(w, t)
  BY FreshRows
<1>2. /\ \A u \in Templates : u # t => templates'[u] = templates[u]
      /\ \/ templates'[t] = templates[t] /\ Row(t).state = "published"
         \/ /\ t \notin drawn
            /\ templates'[t].state = "pending" /\ templates'[t].current = NULL
      /\ drawn' = drawn \cup {t, v}
  BY DEF Fresh
<1>3. \A u \in Templates : Row(u).state # "absent" =>
          u \in drawn /\ templates'[u] = templates[u]
  BY <1>0, <1>2 DEF RowsInv, TemplateRowsAgree
<1>4. VersionRowsAgree'
  <2>. SUFFICES ASSUME NEW w \in Versions
                PROVE  /\ versions'[w].state = "absent" => versions'[w] = NoVersion
                       /\ versions'[w].state # "absent" =>
                             /\ w \in drawn'
                             /\ versions'[w].template \in Templates
                             /\ templates'[versions'[w].template].state # "absent"
                       /\ versions'[w].state = "pending" => versions'[w].retention = NULL
                       /\ versions'[w].state = "published" => versions'[w].token = NULL
    BY <1>0 DEF VersionRowsAgree, PublishedVersion, Row
  <2>1. CASE w = v
    BY <1>1, <1>2, <2>1 DEF Row
  <2>2. CASE w # v
    <3>1. versions'[w] = versions[w]
      BY <1>1, <2>2
    <3>. QED
      BY <1>0, <1>2, <1>3, <3>1 DEF RowsInv, VersionRowsAgree, PublishedVersion, Row
  <2>. QED
    BY <2>1, <2>2
<1>5. TemplateRowsAgree'
  <2>. SUFFICES ASSUME NEW u \in Templates, templates'[u].state # "absent"
                PROVE  /\ u \in drawn'
                       /\ templates'[u].state = "pending" =>
                             \A w, x \in Versions :
                                versions'[w].template = u /\ versions'[x].template = u =>
                                    w = x /\ versions'[w].state = "pending"
                       /\ templates'[u].state = "published" =>
                             /\ templates'[u].current \in Versions
                             /\ versions'[templates'[u].current].state = "published"
                             /\ versions'[templates'[u].current].template = u
                             /\ Decided => templates'[u].current \in stored
    BY <1>0 DEF TemplateRowsAgree, PublishedVersion, Row, Of
  <2>1. CASE templates'[u] = templates[u] /\ u # t
    BY <1>0, <1>1, <1>2, <2>1 DEF RowsInv, TemplateRowsAgree, PublishedVersion, Row, Of
  <2>2. CASE u = t /\ templates'[t] = templates[t] /\ Row(t).state = "published"
    <3>1. /\ t \in drawn /\ templates[t].current \in Versions
          /\ versions[templates[t].current].state = "published"
          /\ versions[templates[t].current].template = t
          /\ Decided => templates[t].current \in stored
      BY <1>0, <2>2 DEF RowsInv, TemplateRowsAgree, PublishedVersion, Row, Of
    <3>2. versions'[templates[t].current] = versions[templates[t].current]
      BY <1>1, <3>1
    <3>. QED
      BY <1>2, <2>2, <3>1, <3>2 DEF Row
  <2>3. CASE u = t /\ t \notin drawn /\ templates'[t].state = "pending"
    BY <1>1, <1>2, <2>3 DEF Of
  <2>. QED
    BY <1>2, <2>1, <2>2, <2>3
<1>6. RetainedUnused'
  <2>. SUFFICES ASSUME NEW w \in Versions, versions'[w].retention # NULL
                PROVE  /\ \A u \in Templates : templates'[u].current # w
                       /\ \A j \in Submissions : frozen[j].version = w => frozen[j].expired
    BY <1>0 DEF RetainedUnused, Row
  <2>1. w # v /\ versions'[w] = versions[w]
    BY <1>1
  <2>2. /\ \A u \in Templates : templates[u].current # w
        /\ \A j \in Submissions : frozen[j].version = w => frozen[j].expired
    BY <1>0, <2>1 DEF RowsInv, RetainedUnused, Row
  <2>3. w # NULL
    BY CatalogAssumption
  <2>4. ASSUME NEW u \in Templates
        PROVE  templates'[u].current # w
    <3>1. templates'[u] = templates[u] \/ templates'[u].current = NULL
      BY <1>2
    <3>. QED
      BY <2>2, <2>3, <3>1
  <2>. QED
    BY <2>2, <2>4
<1>7. NumbersAgree'
  <2>1. ASSUME NEW w \in Versions, NEW x \in Versions,
               versions'[w].state # "absent", versions'[x].state # "absent",
               versions'[w].template = versions'[x].template,
               versions'[w].number = versions'[x].number
        PROVE  w = x
    <3>1. \A y \in Versions : y # v /\ versions'[y].state # "absent" /\ versions'[y].template = t =>
              versions'[y].number < n
      BY <1>1 DEF Fresh, Of
    <3>2. \A y \in Versions : versions'[y].number \in Nat
      BY <1>1 DEF TemplateVersionRow
    <3>3. CASE w # v /\ x # v
      BY <1>0, <1>1, <2>1, <3>3 DEF RowsInv, NumbersAgree
    <3>4. CASE w = v \/ x = v
      BY <1>1, <2>1, <3>1, <3>2, <3>4
    <3>. QED
      BY <3>3, <3>4
  <2>2. ASSUME NEW u \in Templates, templates'[u].state = "published",
               NEW w \in Versions, versions'[w].state = "published", versions'[w].template = u
        PROVE  versions'[w].number <= versions'[templates'[u].current].number
    <3>1. templates'[u] = templates[u]
      BY <1>2, <2>2
    <3>2. w # v /\ versions'[w] = versions[w]
      BY <1>1, <2>2
    <3>3. templates[u].current \in Versions /\ versions[templates[u].current].state = "published"
      BY <1>0, <2>2, <3>1 DEF RowsInv, TemplateRowsAgree, PublishedVersion, Row
    <3>4. versions'[templates[u].current] = versions[templates[u].current]
      BY <1>1, <3>3
    <3>. QED
      BY <1>0, <2>2, <3>1, <3>2, <3>4 DEF RowsInv, NumbersAgree, PublishedVersion, Row, Of
  <2>. QED
    BY <2>1, <2>2 DEF NumbersAgree, PublishedVersion, Row, Of
<1>8. NumbersBounded'
  <2>1. PICK m \in Nat : \A w \in Versions : versions[w].number <= m
    BY <1>0 DEF RowsInv, NumbersBounded
  <2>2. \A w \in Versions : versions[w].number \in Nat
    BY VersionFields DEF CatalogInv
  <2>3. \A w \in Versions : versions'[w].number <= m + n
    BY <1>1, <2>1, <2>2
  <2>4. m + n \in Nat
    OBVIOUS
  <2>. QED
    BY <2>3, <2>4 DEF NumbersBounded
<1>9. FrozenAgree'
  <2>. SUFFICES ASSUME NEW j \in Submissions, frozen[j].version # NULL
                PROVE  /\ frozen[j].template \in Templates
                       /\ templates'[frozen[j].template].state = "published"
                       /\ ~frozen[j].expired =>
                             /\ versions'[frozen[j].version].state = "published"
                             /\ versions'[frozen[j].version].template = frozen[j].template
                             /\ Decided => frozen[j].version \in stored
    BY <1>0 DEF FrozenAgree, RowsInv, Row, PublishedVersion, Of
  <2>1. /\ frozen[j].template \in Templates
        /\ templates'[frozen[j].template] = templates[frozen[j].template]
        /\ Row(frozen[j].template).state = "published"
    BY <1>0, <1>3 DEF RowsInv, FrozenAgree
  <2>2. frozen[j].version \in Versions
    BY DEF CatalogInv, CatalogTypeOK
  <2>3. ASSUME ~frozen[j].expired
        PROVE  /\ PublishedVersion(frozen[j].version)
               /\ Of(frozen[j].version, frozen[j].template)
               /\ Decided => frozen[j].version \in stored
    BY <1>0, <2>3 DEF RowsInv, FrozenAgree
  <2>4. ASSUME ~frozen[j].expired
        PROVE  versions'[frozen[j].version] = versions[frozen[j].version]
    BY <1>1, <2>2, <2>3, <2>4 DEF PublishedVersion
  <2>. QED
    BY <2>1, <2>3, <2>4 DEF Row, PublishedVersion, Of
<1>. QED
  BY <1>4, <1>5, <1>6, <1>7, <1>8, <1>9 DEF RowsInv


LEMMA FreshKeepsOthers ==
    ASSUME CatalogInv, NEW p \in Processes, NEW t \in Templates, NEW v \in Versions, NEW n \in Nat,
           Fresh(p, t, v, n), Others(p)
    PROVE  /\ OthersKept(p)
           /\ \A q \in Processes : process[q].version # v /\ v \notin process[q].todo
<1>1. /\ \A w \in Versions : w # v => versions'[w] = versions[w]
      /\ versions'[v].state = "pending"
  BY FreshRows
<1>2. /\ \A u \in Templates : u \in drawn => templates'[u] = templates[u]
      /\ v \notin drawn /\ drawn \subseteq drawn' /\ UNCHANGED <<stored, catalogFaults>>
      /\ v # NULL
  BY CatalogAssumption DEF Fresh, CatalogInv, RowsInv, TemplateRowsAgree, Row
<1>3. ASSUME NEW q \in Processes
      PROVE  /\ process[q].version # v /\ v \notin process[q].todo
             /\ process[q].version \in Versions \cup {NULL} /\ process[q].todo \subseteq Versions
             /\ process[q].version # NULL =>
                    versions'[process[q].version] = versions[process[q].version]
             /\ \A w \in process[q].todo : versions'[w] = versions[w]
             /\ process[q].template # NULL =>
                    /\ process[q].template \in Templates
                    /\ templates'[process[q].template] = templates[process[q].template]
  <2>1. WorkPlaced(q)
    BY DEF CatalogInv, OwnWork
  <2>2. process[q].version # v /\ v \notin process[q].todo
    BY <1>2, <2>1 DEF WorkPlaced
  <2>3. /\ process[q].version \in Versions \cup {NULL} /\ process[q].todo \subseteq Versions
        /\ process[q].template \in Templates \cup {NULL}
    BY ProcessFields DEF CatalogInv
  <2>. QED
    BY <1>1, <1>2, <2>1, <2>2, <2>3 DEF WorkPlaced
<1>4. ASSUME NEW q \in Processes, q # p
      PROVE  OwnWork(q)'
  <2>1. OwnWork(q) /\ process'[q] = process[q] /\ Pc(q)' = Pc(q)
    BY <1>4 DEF CatalogInv, Others, Pc
  <2>2. WorkPlaced(q)'
    BY <1>2, <2>1 DEF OwnWork, WorkPlaced
  <2>3. ASSUME Pc(q) \in Publishing, Publishes(q)
        PROVE  Publishes(q)'
    <3>1. process[q].version # NULL /\ process[q].template # NULL
      BY <2>1, <2>3 DEF OwnWork, WorkPlaced
    <3>2. \A w \in Versions : PublishedVersion(w)' => versions'[w] = versions[w]
      BY <1>1 DEF PublishedVersion
    <3>. QED
      BY <1>2, <1>3, <2>1, <2>3, <3>1, <3>2 DEF Publishes, Row, PublishedVersion, Of, Decided
  <2>4. Claims(q) => Claims(q)'
    BY <1>3, <2>1 DEF Claims, PublishedVersion
  <2>5. Pc(q) \in Erasing /\ Erases(q) => Erases(q)'
    <3>1. Pc(q) \in Erasing => process[q].template # NULL
      BY <2>1 DEF OwnWork, WorkPlaced
    <3>. QED
      BY <1>3, <2>1, <3>1 DEF Erases, Row, Of
  <2>6. Pc(q) \in Retaining /\ Retains(q) => Retains(q)'
    <3>1. Pc(q) \in Retaining => process[q].version # NULL
      BY <2>1 DEF OwnWork, WorkPlaced
    <3>. QED
      BY <1>2, <1>3, <2>1, <3>1 DEF Retains
  <2>. QED
    BY <2>1, <2>2, <2>3, <2>4, <2>5, <2>6 DEF OwnWork
<1>5. ASSUME NEW q \in Processes, NEW s \in Processes, q # p, s # p
      PROVE  Apart(q, s)'
  <2>1. /\ Apart(q, s) /\ process'[q] = process[q] /\ process'[s] = process[s]
        /\ Pc(q)' = Pc(q) /\ Pc(s)' = Pc(s)
    BY <1>5 DEF CatalogInv, Others, Pc
  <2>2. Pc(q) \in Storing => process[q].version # NULL
    BY DEF CatalogInv, OwnWork, WorkPlaced, Publishing
  <2>. QED
    BY <1>3, <2>1, <2>2 DEF Apart
<1>. QED
  BY <1>3, <1>4, <1>5 DEF OthersKept

LEMMA FreshKeeps ==
    ASSUME CatalogInv, NEW p \in Processes, NEW t \in Templates, NEW v \in Versions, NEW n \in Nat,
           Fresh(p, t, v, n), Pc(p) \in {"idle", "read"},
           NEW r \in Process, process' = [process EXCEPT ![p] = r],
           r.pc = "put", r.template = t, r.version = v, r.todo = {},
           r.revision = templates'[t].revision
    PROVE  CatalogInv'
<1>1. process' \in [Processes -> Process] /\ process'[p] = r /\ Others(p) /\ Pc(p)' = "put"
  BY DEF CatalogInv, CatalogTypeOK, Others, Pc
<1>2. /\ versions' \in [Versions -> TemplateVersionRow]
      /\ versions'[v].state = "pending" /\ versions'[v].template = t
      /\ versions'[v].number = n /\ versions'[v].token = p /\ versions'[v].retention = NULL
      /\ \A w \in Versions : w # v => versions'[w] = versions[w]
      /\ versions[v].state = "absent" /\ versions[v] = NoVersion
  BY FreshRows
<1>3. /\ OthersKept(p)
      /\ \A q \in Processes : process[q].version # v /\ v \notin process[q].todo
  BY <1>1, FreshKeepsOthers
<1>4. /\ v \notin drawn /\ n > 0 /\ drawn' = drawn \cup {t, v} /\ p # NULL /\ v # NULL /\ t # NULL
      /\ templates' \in [Templates -> TemplateRow]
      /\ UNCHANGED <<stored, preferred, fallback, frozen, catalogFaults>>
      /\ \A w \in Versions : versions[w].state # "absent" /\ Of(w, t) => versions[w].number < n
  BY CatalogAssumption DEF Fresh
<1>5. CatalogTypeOK'
  <2>1. \A w \in Versions :
            /\ versions'[w].state = "pending" => versions'[w].token # NULL
            /\ versions'[w].state # "absent" => versions'[w].number > 0
    BY <1>2, <1>4 DEF CatalogInv, CatalogTypeOK
  <2>. QED
    BY <1>1, <1>2, <1>4, <2>1 DEF CatalogInv, CatalogTypeOK
<1>6. RowsInv'
  BY FreshKeepsRows
<1>7. SelectionsAgree'
  <2>1. \A u \in Templates : templates'[u].state = "deleting" => Row(u).state = "deleting"
    BY DEF Fresh, Row
  <2>2. \A q \in Processes : Pc(q)' = "upsert" => Pc(q) = "upsert"
    BY <1>1 DEF Pc, Others
  <2>. QED
    BY <1>4, <2>1, <2>2 DEF CatalogInv, SelectionsAgree, Row, Restricted
<1>8. OwnWork(p)'
  <2>1. WorkPlaced(p)'
    BY <1>1, <1>4 DEF WorkPlaced, Publishing, Storing, Claiming, Erasing, Retaining
  <2>2. \A w \in Versions : PublishedVersion(w)' /\ Of(w, t)' =>
            versions'[w].number < versions'[v].number
    BY <1>2, <1>4 DEF PublishedVersion, Of
  <2>3. templates'[t].revision <= templates'[t].revision
    <3>1. templates'[t].revision \in Nat
      BY <1>4 DEF TemplateRow
    <3>. QED
      BY <3>1
  <2>4. Publishes(p)'
    BY <1>1, <1>2, <2>2, <2>3 DEF Publishes, Row, Of, PublishedVersion
  <2>. QED
    BY <1>1, <2>1, <2>4 DEF OwnWork, Claiming, Erasing, Retaining
<1>9. \A q \in Processes : q # p => Apart(p, q)' /\ Apart(q, p)'
  BY <1>1, <1>3 DEF Apart, Others, Publishing, Storing, Claiming, Retaining, Pc
<1>10. TracesKept'
  <2>1. /\ catalogFaults \subseteq catalogFaults' /\ (Clean' => Clean) /\ stored' = stored
        /\ stored \subseteq Versions /\ Pc(p) \notin Holding
    BY <1>4, FaultsGrow DEF CatalogInv, CatalogTypeOK, Holding
  <2>2. process[p].version = NULL /\ process[p].todo = {}
    BY DEF CatalogInv, OwnWork, WorkPlaced, Claiming
  <2>3. Clean => v \notin stored
    BY <1>2, <1>3 DEF CatalogInv, TracesKept, Tracked
  <2>4. ASSUME Clean', NEW w \in stored
        PROVE  Tracked(w)' /\ (Held(w) => Held(w)') /\ versions'[w] = versions[w]
    <3>1. versions'[w] = versions[w] /\ w # NULL
      BY <1>2, <2>1, <2>3, <2>4, CatalogAssumption
    <3>2. Tracked(w)
      BY <2>1, <2>4 DEF CatalogInv, TracesKept
    <3>3. Tracked(w)'
      BY <1>1, <2>2, <3>1, <3>2, TrackedStands
    <3>4. Held(w) => Held(w)'
      BY <1>1, <2>1, HeldStands
    <3>. QED
      BY <3>1, <3>3, <3>4
  <2>5. Traces(p)'
    BY <1>1 DEF Traces, Erasing
  <2>6. Clean' => \A q \in Processes, w \in stored :
            q # p /\ Of(w, process[q].template)' => Of(w, process[q].template)
    BY <1>1, <2>4 DEF Of, Others
  <2>. QED
    BY <1>1, <2>1, <2>4, <2>5, <2>6, TracesCarry DEF CatalogInv
<1>. QED
  BY <1>3, <1>5, <1>6, <1>7, <1>8, <1>9, <1>10, Composed


LEMMA CreateKeeps ==
    ASSUME CatalogInv, NEW p \in Processes, NEW t \in Templates, NEW v \in Versions,
           reserve_create(p, t, v)
    PROVE  CatalogInv'
<1>. DEFINE r == [Idle EXCEPT !.pc = "put", !.op = "create", !.template = t, !.version = v,
                              !.revision = 1]
            row == [NoTemplate EXCEPT !.state = "pending", !.revision = 1]
<1>1. /\ Pc(p) = "idle" /\ t \notin drawn /\ v \notin drawn /\ drawn' = drawn \cup {t, v}
      /\ templates' = [templates EXCEPT ![t] = row]
      /\ versions' = [versions EXCEPT ![v] = NewVersion(p, t, 1)]
      /\ process' = [process EXCEPT ![p] = r]
      /\ UNCHANGED <<stored, preferred, fallback, frozen, catalogFaults>>
  BY DEF reserve_create, At, Pc, NoFault
<1>2. r \in Process /\ r.pc = "put" /\ r.template = t /\ r.version = v /\ r.todo = {} /\ r.revision = 1
  BY DEF Process, Idle, Operations
<1>3. row \in TemplateRow /\ row.state = "pending" /\ row.current = NULL /\ row.revision = 1
  BY DEF TemplateRow, NoTemplate
<1>4. /\ templates' \in [Templates -> TemplateRow] /\ templates'[t] = row
      /\ \A u \in Templates : u # t => templates'[u] = templates[u]
  BY <1>1, <1>3 DEF CatalogInv, CatalogTypeOK
<1>5. \A w \in Versions : versions[w].state # "absent" /\ Of(w, t) => versions[w].number < 1
  BY <1>1 DEF CatalogInv, RowsInv, VersionRowsAgree, TemplateRowsAgree, Of, Row
<1>6. Fresh(p, t, v, 1)
  BY <1>1, <1>3, <1>4, <1>5 DEF Fresh
<1>. HIDE DEF r
<1>7. r.revision = templates'[t].revision /\ 1 \in Nat
  BY <1>2, <1>3, <1>4
<1>. QED
  BY <1>1, <1>2, <1>6, <1>7, FreshKeeps

LEMMA NextNumberAbove ==
    ASSUME CatalogInv, NEW t \in Templates
    PROVE  /\ NextNumber(t) \in Nat /\ NextNumber(t) > 0
           /\ \A w \in Versions : versions[w].state # "absent" /\ Of(w, t) =>
                  versions[w].number < NextNumber(t)
<1>. DEFINE S == {versions[w].number : w \in VersionsOf(t)} \cup {0}
<1>1. PICK m \in Nat : \A w \in Versions : versions[w].number <= m
  BY DEF CatalogInv, RowsInv, NumbersBounded
<1>2. \A w \in Versions : versions[w].number \in Nat
  BY VersionFields DEF CatalogInv
<1>3. S \in SUBSET Nat /\ S # {} /\ \A k \in S : k <= m
  BY <1>1, <1>2 DEF VersionsOf
<1>4. Max(S) \in S /\ \A k \in S : k <= Max(S)
  BY <1>3, MaxBounded
<1>5. Max(S) \in Nat
  BY <1>3, <1>4
<1>6. \A w \in Versions : versions[w].state # "absent" /\ Of(w, t) => versions[w].number \in S
  BY DEF VersionsOf, Of
<1>7. NextNumber(t) = Max(S) + 1
  BY DEF NextNumber
<1>. HIDE DEF S
<1>8. \A w \in Versions : versions[w].state # "absent" /\ Of(w, t) =>
          versions[w].number < Max(S) + 1
  BY <1>2, <1>4, <1>5, <1>6
<1>. QED
  BY <1>5, <1>7, <1>8

LEMMA ReserveKeeps ==
    ASSUME CatalogInv, NEW p \in Processes, NEW v \in Versions, reserve_version(p, v)
    PROVE  CatalogInv'
<1>. DEFINE r == [process[p] EXCEPT !.pc = "put", !.version = v]
<1>1. PICK t : t = process[p].template
  OBVIOUS
<1>2. /\ Pc(p) = "read" /\ Active(t) /\ templates[t].revision = process[p].revision
      /\ v \notin drawn /\ drawn' = drawn \cup {v}
      /\ versions' = [versions EXCEPT ![v] = NewVersion(p, t, NextNumber(t))]
      /\ UNCHANGED <<templates, stored, preferred, fallback, frozen, catalogFaults>>
      /\ process' = [process EXCEPT ![p].pc = "put", ![p].version = v]
  BY <1>1 DEF reserve_version, At, Pc, NoFault
<1>3. /\ t \in Templates /\ t \in drawn /\ process[p] \in Process
      /\ process[p].todo = {} /\ process[p].revision \in Nat
  BY <1>1, <1>2, ProcessFields DEF CatalogInv, OwnWork, WorkPlaced, Claiming
<1>4. /\ r \in Process /\ r.pc = "put" /\ r.template = t /\ r.version = v /\ r.todo = {}
      /\ r.revision = process[p].revision
  BY <1>1, <1>3 DEF Process
<1>5. process' = [process EXCEPT ![p] = r]
  BY <1>2 DEF CatalogInv, CatalogTypeOK
<1>6. Fresh(p, t, v, NextNumber(t))
  BY <1>2, <1>3, NextNumberAbove DEF Fresh, CatalogInv, CatalogTypeOK, Active, Visible, Row
<1>. HIDE DEF r
<1>7. r.revision = templates'[t].revision /\ NextNumber(t) \in Nat
  BY <1>2, <1>3, <1>4, NextNumberAbove
<1>8. PICK n \in Nat : n = NextNumber(t)
  BY <1>7
<1>9. Fresh(p, t, v, n) /\ Pc(p) \in {"idle", "read"}
  BY <1>2, <1>6, <1>8
<1>. QED
  BY <1>3, <1>4, <1>5, <1>7, <1>9, FreshKeeps

----------------------------------------------------------------------------
(* A version is published.                                                 *)

\* What the publisher still holds when its transaction commits.
Publisher(p, t, v) ==
    /\ t = process[p].template /\ v = process[p].version
    /\ t \in Templates /\ v \in Versions
    /\ Pc(p) = "finalize"
    /\ versions[v].state = "pending" /\ versions[v].token = p /\ Of(v, t)
    /\ versions[v].retention = NULL
    /\ v \in stored /\ v \in drawn
    /\ Row(t).state \in {"pending", "published"}
    /\ Row(t).revision = process[p].revision
    /\ process[p].todo = {}
    /\ \A w \in Versions : PublishedVersion(w) /\ Of(w, t) => versions[w].number < versions[v].number

\* What it leaves.
PublishedRows(t, v) ==
    /\ versions' \in [Versions -> TemplateVersionRow]
    /\ templates' \in [Templates -> TemplateRow]
    /\ versions'[v].state = "published" /\ versions'[v].token = NULL
    /\ versions'[v].template = t /\ versions'[v].number = versions[v].number
    /\ versions'[v].retention = NULL
    /\ \A w \in Versions : w # v => versions'[w] = versions[w]
    /\ templates'[t].state = "published" /\ templates'[t].current = v
    /\ Row(t).state = "published" => templates'[t].revision = Row(t).revision + 1
    /\ Row(t).revision <= templates'[t].revision
    /\ \A u \in Templates : u # t => templates'[u] = templates[u]
    /\ UNCHANGED <<stored, drawn, preferred, fallback, frozen>>

LEMMA PublisherHolds ==
    ASSUME CatalogInv, NEW p \in Processes, At(p, "finalize"), Publishable(p), Published(p)
    PROVE  \E t \in Templates, v \in Versions : Publisher(p, t, v) /\ PublishedRows(t, v)
<1>1. PICK t, v : t = process[p].template /\ v = process[p].version
  OBVIOUS
<1>2. /\ Pc(p) = "finalize" /\ WorkPlaced(p) /\ Publishes(p)
  BY DEF At, Pc, CatalogInv, OwnWork, Publishing, Storing
<1>3. t \in Templates /\ v \in Versions
  BY <1>1, <1>2, ProcessFields DEF CatalogInv, WorkPlaced, Publishing, Storing
<1>4. /\ versions[v].state = "pending" /\ versions[v].token = p
      /\ Row(t).state \in {"pending", "published"} /\ Row(t).revision = process[p].revision
  BY <1>1 DEF Publishable, Row
<1>5. Publisher(p, t, v)
  BY <1>1, <1>2, <1>3, <1>4
     DEF Publisher, Publishes, WorkPlaced, Publishing, Storing, Claiming, CatalogInv, RowsInv,
         VersionRowsAgree
<1>6. /\ versions' = [versions EXCEPT ![v].state = "published", ![v].token = NULL]
      /\ templates' = [templates EXCEPT
              ![t].current = v, ![t].state = "published",
              ![t].revision = @ + (IF templates[t].state = "pending" THEN 0 ELSE 1)]
      /\ UNCHANGED <<stored, drawn, preferred, fallback, frozen>>
  BY <1>1 DEF Published
<1>7. /\ versions[v] \in TemplateVersionRow /\ versions \in [Versions -> TemplateVersionRow]
      /\ templates[t] \in TemplateRow /\ templates \in [Templates -> TemplateRow]
  BY <1>3 DEF CatalogInv, CatalogTypeOK
<1>8. /\ versions' \in [Versions -> TemplateVersionRow]
      /\ versions'[v].state = "published" /\ versions'[v].token = NULL
      /\ versions'[v].template = versions[v].template /\ versions'[v].number = versions[v].number
      /\ versions'[v].retention = versions[v].retention
      /\ \A w \in Versions : w # v => versions'[w] = versions[w]
  BY <1>3, <1>6, <1>7 DEF TemplateVersionRow
<1>9. /\ templates' \in [Templates -> TemplateRow]
      /\ templates'[t].state = "published" /\ templates'[t].current = v
      /\ Row(t).state = "published" => templates'[t].revision = Row(t).revision + 1
      /\ Row(t).revision <= templates'[t].revision
      /\ \A u \in Templates : u # t => templates'[u] = templates[u]
  BY <1>3, <1>6, <1>7 DEF TemplateRow, Row
<1>10. PublishedRows(t, v)
  <2>1. versions[v].template = t /\ versions[v].retention = NULL
    BY <1>5 DEF Publisher, Of
  <2>. QED
    BY <1>6, <1>8, <1>9, <2>1 DEF PublishedRows
<1>. QED
  BY <1>3, <1>5, <1>10


LEMMA PublishedKeepsRows ==
    ASSUME CatalogInv, NEW p \in Processes, NEW t \in Templates, NEW v \in Versions,
           Publisher(p, t, v), PublishedRows(t, v), Decided' => Decided
    PROVE  RowsInv'
<1>0. /\ RowsInv /\ v # NULL /\ t # NULL /\ v \in stored /\ v \in drawn
      /\ versions[v].state = "pending" /\ versions[v].template = t
      /\ Row(t).state \in {"pending", "published"}
      /\ UNCHANGED <<stored, drawn, frozen>>
  BY CatalogAssumption DEF CatalogInv, Publisher, PublishedRows, Of
<1>1. /\ versions'[v].state = "published" /\ versions'[v].token = NULL
      /\ versions'[v].template = t /\ versions'[v].number = versions[v].number
      /\ versions'[v].retention = NULL
      /\ \A w \in Versions : w # v => versions'[w] = versions[w]
  BY DEF PublishedRows
<1>2. /\ templates'[t].state = "published" /\ templates'[t].current = v
      /\ \A u \in Templates : u # t => templates'[u] = templates[u]
  BY DEF PublishedRows
<1>3. VersionRowsAgree'
  <2>. SUFFICES ASSUME NEW w \in Versions
                PROVE  /\ versions'[w].state = "absent" => versions'[w] = NoVersion
                       /\ versions'[w].state # "absent" =>
                             /\ w \in drawn
                             /\ versions'[w].template \in Templates
                             /\ templates'[versions'[w].template].state # "absent"
                       /\ versions'[w].state = "pending" => versions'[w].retention = NULL
                       /\ versions'[w].state = "published" => versions'[w].token = NULL
    BY <1>0 DEF VersionRowsAgree, PublishedVersion, Row
  <2>1. CASE w = v
    BY <1>0, <1>1, <1>2, <2>1
  <2>2. CASE w # v
    <3>1. versions'[w] = versions[w]
      BY <1>1, <2>2
    <3>. QED
      BY <1>0, <1>2, <3>1 DEF RowsInv, VersionRowsAgree, PublishedVersion, Row
  <2>. QED
    BY <2>1, <2>2
<1>4. \A w \in Versions : w # v =>
          (PublishedVersion(w)' <=> PublishedVersion(w)) /\ versions'[w] = versions[w]
  BY <1>1 DEF PublishedVersion
<1>5. TemplateRowsAgree'
  <2>. SUFFICES ASSUME NEW u \in Templates
                PROVE  /\ templates'[u].state # "absent" => u \in drawn
                       /\ templates'[u].state = "pending" =>
                             \A w, x \in Versions :
                                versions'[w].template = u /\ versions'[x].template = u =>
                                    w = x /\ versions'[w].state = "pending"
                       /\ templates'[u].state = "published" =>
                             /\ templates'[u].current \in Versions
                             /\ versions'[templates'[u].current].state = "published"
                             /\ versions'[templates'[u].current].template = u
                             /\ Decided' => templates'[u].current \in stored
    BY <1>0 DEF TemplateRowsAgree, PublishedVersion, Row, Of
  <2>1. CASE u = t
    BY <1>0, <1>1, <1>2, <2>1 DEF RowsInv, TemplateRowsAgree, Row
  <2>2. CASE u # t
    <3>1. templates'[u] = templates[u]
      BY <1>2, <2>2
    <3>2. \A w \in Versions : versions'[w].template = u => versions'[w] = versions[w]
      BY <1>1, <2>2
    <3>3. templates[u].state = "published" =>
              /\ templates[u].current \in Versions
              /\ versions'[templates[u].current] = versions[templates[u].current]
      BY <1>0, <1>1 DEF RowsInv, TemplateRowsAgree, PublishedVersion, Row
    <3>. QED
      BY <1>0, <3>1, <3>2, <3>3 DEF RowsInv, TemplateRowsAgree, PublishedVersion, Row, Of
  <2>. QED
    BY <2>1, <2>2
<1>6. RetainedUnused'
  <2>. SUFFICES ASSUME NEW w \in Versions, versions'[w].retention # NULL
                PROVE  /\ \A u \in Templates : templates'[u].current # w
                       /\ \A j \in Submissions : frozen[j].version = w => frozen[j].expired
    BY <1>0 DEF RetainedUnused, Row
  <2>1. w # v /\ versions'[w] = versions[w]
    BY <1>1
  <2>2. /\ \A u \in Templates : templates[u].current # w
        /\ \A j \in Submissions : frozen[j].version = w => frozen[j].expired
    BY <1>0, <2>1 DEF RowsInv, RetainedUnused, Row
  <2>. QED
    BY <1>2, <2>1, <2>2
<1>7. NumbersAgree'
  <2>1. \A w \in Versions : /\ versions'[w].number = versions[w].number
                            /\ versions'[w].template = versions[w].template
                            /\ versions'[w].state # "absent" => versions[w].state # "absent"
    BY <1>0, <1>1
  <2>2. ASSUME NEW u \in Templates, templates'[u].state = "published",
               NEW w \in Versions, versions'[w].state = "published", versions'[w].template = u
        PROVE  versions'[w].number <= versions'[templates'[u].current].number
    <3>1. CASE u = t /\ w = v
      <4>1. versions[v].number \in Nat
        BY VersionFields DEF CatalogInv
      <4>. QED
        BY <1>1, <1>2, <3>1, <4>1
    <3>2. CASE u = t /\ w # v
      <4>1. versions[w].number < versions[v].number
        BY <1>1, <2>2, <3>2 DEF Publisher, PublishedVersion, Of
      <4>2. versions[w].number \in Nat /\ versions[v].number \in Nat
        BY VersionFields DEF CatalogInv
      <4>3. versions'[w].number < versions'[v].number
        BY <2>1, <4>1
      <4>. QED
        BY <1>2, <2>1, <3>2, <4>2, <4>3
    <3>3. CASE u # t
      <4>1. templates'[u] = templates[u] /\ w # v /\ versions'[w] = versions[w]
        BY <1>1, <1>2, <2>2, <3>3
      <4>2. templates[u].current \in Versions
        BY <1>0, <2>2, <4>1 DEF RowsInv, TemplateRowsAgree, Row
      <4>3. versions'[templates[u].current].number = versions[templates[u].current].number
        BY <2>1, <4>2
      <4>. QED
        BY <1>0, <2>2, <4>1, <4>3 DEF RowsInv, NumbersAgree, PublishedVersion, Row, Of
    <3>. QED
      BY <3>1, <3>2, <3>3
  <2>. QED
    BY <1>0, <2>1, <2>2 DEF RowsInv, NumbersAgree, PublishedVersion, Row, Of
<1>8. NumbersBounded'
  <2>1. \A w \in Versions : versions'[w].number = versions[w].number
    BY <1>1
  <2>. QED
    BY <1>0, <2>1 DEF RowsInv, NumbersBounded
<1>9. FrozenAgree'
  <2>. SUFFICES ASSUME NEW j \in Submissions, frozen[j].version # NULL
                PROVE  /\ frozen[j].template \in Templates
                       /\ templates'[frozen[j].template].state = "published"
                       /\ ~frozen[j].expired =>
                             /\ versions'[frozen[j].version].state = "published"
                             /\ versions'[frozen[j].version].template = frozen[j].template
                             /\ Decided' => frozen[j].version \in stored
    BY <1>0 DEF FrozenAgree, RowsInv, Row, PublishedVersion, Of
  <2>1. /\ frozen[j].template \in Templates
        /\ templates'[frozen[j].template].state = "published"
    BY <1>0, <1>2 DEF RowsInv, FrozenAgree, Row
  <2>2. frozen[j].version \in Versions
    BY DEF CatalogInv, CatalogTypeOK
  <2>3. ASSUME ~frozen[j].expired
        PROVE  /\ PublishedVersion(frozen[j].version)
               /\ Of(frozen[j].version, frozen[j].template)
               /\ Decided => frozen[j].version \in stored
    BY <1>0, <2>3 DEF RowsInv, FrozenAgree
  <2>4. ASSUME ~frozen[j].expired
        PROVE  versions'[frozen[j].version] = versions[frozen[j].version]
    BY <1>0, <1>1, <2>2, <2>3, <2>4 DEF PublishedVersion
  <2>. QED
    BY <2>1, <2>3, <2>4 DEF PublishedVersion, Of
<1>. QED
  BY <1>3, <1>5, <1>6, <1>7, <1>8, <1>9 DEF RowsInv


\* The version is no other publisher's, claimed by nobody and not cleaned up.
LEMMA PublisherAlone ==
    ASSUME CatalogInv, NEW p \in Processes, NEW t \in Templates, NEW v \in Versions,
           Publisher(p, t, v), NEW q \in Processes, q # p
    PROVE  /\ Pc(q) \in Publishing \cup Retaining => process[q].version # v
           /\ Pc(q) \in Claiming => v \notin process[q].todo
           /\ Pc(q) \in Erasing => process[q].template # t
<1>1. Apart(p, q) /\ OwnWork(q) /\ Pc(p) \in Storing /\ Pc(p) \in Publishing
  BY DEF CatalogInv, Publisher, Storing, Publishing
<1>. QED
  BY <1>1 DEF Apart, OwnWork, Erases, Publisher, Row

LEMMA PublishedKeepsOthers ==
    ASSUME CatalogInv, NEW p \in Processes, NEW t \in Templates, NEW v \in Versions,
           Publisher(p, t, v), PublishedRows(t, v), Decided' => Decided, Others(p)
    PROVE  OthersKept(p)
<1>1. /\ \A w \in Versions : w # v => versions'[w] = versions[w]
      /\ \A u \in Templates : u # t => templates'[u] = templates[u]
      /\ UNCHANGED <<stored, drawn>>
      /\ versions'[v].template = t /\ versions'[v].state = "published"
  BY DEF PublishedRows
<1>2. ASSUME NEW q \in Processes, q # p
      PROVE  /\ OwnWork(q) /\ process'[q] = process[q] /\ Pc(q)' = Pc(q)
             /\ process[q].version \in Versions \cup {NULL} /\ process[q].todo \subseteq Versions
             /\ process[q].template \in Templates \cup {NULL} /\ process[q].revision \in Nat
             /\ Pc(q) \in Publishing \cup Retaining =>
                    /\ process[q].version \in Versions /\ process[q].version # v
                    /\ versions'[process[q].version] = versions[process[q].version]
  <2>1. /\ OwnWork(q) /\ process'[q] = process[q] /\ Pc(q)' = Pc(q)
        /\ process[q].version \in Versions \cup {NULL} /\ process[q].todo \subseteq Versions
        /\ process[q].template \in Templates \cup {NULL} /\ process[q].revision \in Nat
    BY <1>2, ProcessFields DEF CatalogInv, Others, Pc
  <2>2. Pc(q) \in Publishing \cup Retaining => process[q].version # v /\ process[q].version # NULL
    BY <1>2, <2>1, PublisherAlone DEF OwnWork, WorkPlaced
  <2>. QED
    BY <1>1, <2>1, <2>2
<1>3. ASSUME NEW q \in Processes, q # p, Pc(q) \in Publishing, Publishes(q)
      PROVE  Publishes(q)'
  <2>0. PICK x, u : x = process[q].version /\ u = process[q].template
    OBVIOUS
  <2>1. /\ x \in Versions /\ x # v /\ versions'[x] = versions[x] /\ process'[q] = process[q]
        /\ Pc(q)' = Pc(q) /\ u \in Templates /\ process[q].revision \in Nat
    BY <1>2, <1>3, <2>0 DEF OwnWork, WorkPlaced
  <2>2. CASE u # t
    <3>1. templates'[u] = templates[u]
      BY <1>1, <2>1, <2>2
    <3>2. \A w \in Versions : Of(w, u)' => versions'[w] = versions[w]
      BY <1>1, <2>2 DEF Of
    <3>. QED
      BY <1>1, <1>3, <2>0, <2>1, <3>1, <3>2 DEF Publishes, Row, PublishedVersion, Of
  <2>3. CASE u = t
    <3>1. /\ Row(t).revision \in Nat /\ templates'[t].revision \in Nat
          /\ Row(t).revision <= templates'[t].revision
          /\ Row(t).state \in {"pending", "published"}
          /\ Row(t).state = "published" => templates'[t].revision = Row(t).revision + 1
      BY TemplateFields DEF PublishedRows, TemplateRow, CatalogInv, Row, Publisher
    <3>2. process[q].revision <= Row(t).revision
      BY <1>3, <2>0, <2>3, <3>1 DEF Publishes
    <3>3. process[q].revision <= templates'[t].revision
      BY <2>1, <3>1, <3>2
    <3>4. Pc(q) \in Storing /\ versions[x].token = q => templates'[t].revision # process[q].revision
      <4>1. CASE Row(t).state = "published"
        BY <2>1, <3>1, <3>2, <4>1
      <4>2. CASE Row(t).state = "pending"
        <5>. SUFFICES ASSUME versions[x].token = q
                      PROVE  FALSE
          OBVIOUS
        <5>1. versions[x].state # "absent"
          BY <2>1, NoRows, CatalogAssumption DEF CatalogInv, RowsInv, VersionRowsAgree
        <5>2. Of(x, t) /\ Of(v, t)
          BY <1>3, <2>0, <2>3, <5>1 DEF Publishes, Publisher
        <5>3. \A y, w \in Versions : Of(y, t) /\ Of(w, t) => y = w
          BY <4>2 DEF CatalogInv, RowsInv, TemplateRowsAgree
        <5>4. x \in Versions /\ x # v
          BY <2>1
        <5>. QED
          BY <5>2, <5>3, <5>4
      <4>. QED
        BY <3>1, <4>1, <4>2
    <3>. QED
      BY <1>1, <1>3, <2>0, <2>1, <2>3, <3>1, <3>3, <3>4 DEF Publishes, Row, PublishedVersion, Of
  <2>. QED
    BY <2>2, <2>3
<1>4. ASSUME NEW q \in Processes, q # p
      PROVE  OwnWork(q)'
  <2>1. OwnWork(q) /\ process'[q] = process[q] /\ Pc(q)' = Pc(q) /\ process[q].todo \subseteq Versions
        /\ process[q].template \in Templates \cup {NULL}
    BY <1>2, <1>4
  <2>2. WorkPlaced(q)'
    BY <1>1, <2>1 DEF OwnWork, WorkPlaced
  <2>3. Pc(q) \in Publishing => Publishes(q)'
    BY <1>3, <1>4, <2>1 DEF OwnWork
  <2>4. Pc(q) \in Claiming => Claims(q)'
    <3>1. Pc(q) \in Claiming => v \notin process[q].todo /\ Claims(q)
      BY <1>4, <2>1, PublisherAlone DEF OwnWork
    <3>. QED
      BY <1>1, <2>1, <3>1 DEF Claims, PublishedVersion
  <2>5. Pc(q) \in Erasing => Erases(q)'
    <3>. SUFFICES ASSUME Pc(q) \in Erasing
                  PROVE  Erases(q)'
      OBVIOUS
    <3>1. process[q].template # t /\ process[q].template # NULL /\ Erases(q)
      BY <1>4, <2>1, PublisherAlone DEF OwnWork, WorkPlaced
    <3>2. templates'[process[q].template] = templates[process[q].template]
      BY <1>1, <2>1, <3>1
    <3>3. v \notin process[q].todo
      BY <3>1 DEF Publisher, Erases, Of
    <3>. QED
      BY <1>1, <2>1, <3>1, <3>2, <3>3 DEF Erases, Row, Of
  <2>6. Pc(q) \in Retaining => Retains(q)'
    <3>1. Pc(q) \in Retaining =>
              Retains(q) /\ versions'[process[q].version] = versions[process[q].version]
      BY <1>2, <1>4, <2>1 DEF OwnWork
    <3>. QED
      BY <1>1, <2>1, <3>1 DEF Retains
  <2>. QED
    BY <2>1, <2>2, <2>3, <2>4, <2>5, <2>6 DEF OwnWork
<1>5. ASSUME NEW q \in Processes, NEW s \in Processes, q # p, s # p
      PROVE  Apart(q, s)'
  <2>1. /\ Apart(q, s) /\ process'[q] = process[q] /\ process'[s] = process[s]
        /\ Pc(q)' = Pc(q) /\ Pc(s)' = Pc(s)
    BY <1>2, <1>5 DEF CatalogInv
  <2>2. Pc(q) \in Storing => versions'[process[q].version] = versions[process[q].version]
    BY <1>2, <1>5 DEF Publishing
  <2>. QED
    BY <2>1, <2>2 DEF Apart
<1>. QED
  BY <1>4, <1>5 DEF OthersKept

LEMMA PublishedKeepsTraces ==
    ASSUME CatalogInv, NEW p \in Processes, NEW t \in Templates, NEW v \in Versions,
           Publisher(p, t, v), PublishedRows(t, v), Others(p),
           catalogFaults \subseteq catalogFaults', Pc(p)' \in {"idle", "undo"}
    PROVE  TracesKept'
<1>. SUFFICES ASSUME Clean'
              PROVE  /\ \A w \in stored : Tracked(w)'
                     /\ \A q \in Processes : Traces(q)'
  BY DEF TracesKept, PublishedRows
<1>1. /\ Clean /\ stored' = stored /\ stored \subseteq Versions
      /\ versions'[v].state = "published" /\ versions'[v].template = t
      /\ \A w \in Versions : w # v => versions'[w] = versions[w]
      /\ process[p].version = v /\ process[p].todo = {} /\ versions[v].template = t
  BY FaultsGrow DEF CatalogInv, CatalogTypeOK, PublishedRows, Publisher, Of
<1>2. ASSUME NEW w \in stored
      PROVE  Tracked(w)'
  <2>1. CASE w = v
    BY <1>1, <2>1 DEF Tracked
  <2>2. CASE w # v
    <3>1. Tracked(w) /\ versions'[w] = versions[w]
      BY <1>1, <2>2 DEF CatalogInv, TracesKept
    <3>. QED
      BY <1>1, <2>2, <3>1, TrackedStands
  <2>. QED
    BY <2>1, <2>2
<1>3. ASSUME NEW w, w # v, Held(w)
      PROVE  Held(w)'
  BY <1>1, <1>3, HeldStands
<1>4. ASSUME NEW q \in Processes, q # p
      PROVE  Traces(q)'
  <2>1. Traces(q) /\ process'[q] = process[q] /\ Pc(q)' = Pc(q) /\ OwnWork(q)
    BY <1>1, <1>4 DEF CatalogInv, TracesKept, Others, Pc
  <2>2. Pc(q) = "aborting" => process[q].version # v
    BY <1>4, <2>1, PublisherAlone DEF OwnWork, WorkPlaced, Claiming
  <2>3. Pc(q) \in Erasing => process[q].template # t
    BY <1>4, PublisherAlone
  <2>4. Pc(q) = "aborting" /\ process[q].version \in stored => Held(process[q].version)'
    BY <1>3, <2>1, <2>2 DEF Traces
  <2>5. ASSUME Pc(q) \in Erasing, NEW w \in stored, versions'[w].template = process[q].template
        PROVE  w \in process[q].todo \/ Held(w)'
    <3>1. w # v /\ versions'[w] = versions[w]
      BY <1>1, <2>3, <2>5
    <3>2. w \in process[q].todo \/ Held(w)
      BY <2>1, <2>5, <3>1 DEF Traces, Of
    <3>. QED
      BY <1>3, <3>1, <3>2
  <2>6. PICK x : x = process[q].version
    OBVIOUS
  <2>7. Pc(q)' = "aborting" /\ process'[q].version \in stored' => Held(process[q].version)'
    BY <1>1, <2>1, <2>4
  <2>. QED
    BY <1>1, <2>1, <2>5, <2>7 DEF Traces, Of, Held, Pc
<1>5. Traces(p)'
  BY DEF Traces, Erasing
<1>. QED
  BY <1>2, <1>4, <1>5


LEMMA PublishedKeeps ==
    ASSUME CatalogInv, NEW p \in Processes, At(p, "finalize"), Publishable(p), Published(p),
           NEW r \in Process, process' = [process EXCEPT ![p] = r], r.pc \in {"idle", "undo"},
           OwnWork(p)', catalogFaults \subseteq catalogFaults', catalogFaults' \subseteq CatalogEvents,
           r.version \in {NULL, process[p].version}
    PROVE  CatalogInv'
<1>1. PICK t \in Templates, v \in Versions : Publisher(p, t, v) /\ PublishedRows(t, v)
  BY PublisherHolds
<1>2. process' \in [Processes -> Process] /\ process'[p] = r /\ Others(p) /\ Pc(p)' \in {"idle", "undo"}
  BY DEF CatalogInv, CatalogTypeOK, Others, Pc
<1>3. Decided' => Decided
  BY FaultsGrow
<1>4. CatalogTypeOK'
  <2>1. \A w \in Versions :
            /\ versions'[w].state = "pending" => versions'[w].token # NULL
            /\ versions'[w].state # "absent" => versions'[w].number > 0
    BY <1>1 DEF CatalogInv, CatalogTypeOK, PublishedRows, Publisher
  <2>. QED
    BY <1>1, <1>2, <2>1 DEF CatalogInv, CatalogTypeOK, PublishedRows
<1>5. RowsInv'
  BY <1>1, <1>3, PublishedKeepsRows
<1>6. SelectionsAgree'
  <2>1. \A u \in Templates : templates'[u].state = "deleting" => Row(u).state = "deleting"
    BY <1>1 DEF PublishedRows, Row
  <2>2. \A q \in Processes : Pc(q)' = "upsert" => Pc(q) = "upsert"
    BY <1>2 DEF Pc, Others
  <2>3. UNCHANGED <<preferred, fallback>>
    BY <1>1 DEF PublishedRows
  <2>. QED
    BY <2>1, <2>2, <2>3 DEF CatalogInv, SelectionsAgree, Row, Restricted
<1>7. OthersKept(p)
  BY <1>1, <1>2, <1>3, PublishedKeepsOthers
<1>8. ASSUME NEW q \in Processes, q # p
      PROVE  Apart(p, q)' /\ Apart(q, p)'
  <2>1. Pc(q)' = Pc(q) /\ process'[q].version = process[q].version
    BY <1>2, <1>8 DEF Others, Pc
  <2>2. Pc(q) \in Publishing => process[q].version # process[p].version
    BY <1>1, <1>8, PublisherAlone DEF Publisher
  <2>3. Pc(p)' \in Publishing => process'[p].version = process[p].version
    BY <1>2, CatalogAssumption DEF OwnWork, WorkPlaced
  <2>. QED
    BY <1>2, <2>1, <2>2, <2>3 DEF Apart, Publishing, Storing, Claiming, Retaining
<1>9. TracesKept'
  BY <1>1, <1>2, PublishedKeepsTraces
<1>. QED
  BY <1>4, <1>5, <1>6, <1>7, <1>8, <1>9, Composed

LEMMA FinalizeKeeps ==
    ASSUME CatalogInv, NEW p \in Processes, finalize_version(p)
    PROVE  CatalogInv'
<1>1. At(p, "finalize") /\ Publishable(p) /\ Published(p) /\ Return(p) /\ NoFault
  BY DEF finalize_version
<1>2. process' = [process EXCEPT ![p] = Idle] /\ OwnWork(p)'
  BY <1>1, IdleIsPlaced DEF CatalogInv
<1>3. Idle.pc = "idle" /\ Idle.version = NULL
  BY DEF Idle
<1>4. catalogFaults \subseteq catalogFaults' /\ catalogFaults' \subseteq CatalogEvents
  BY <1>1, Remembered DEF CatalogInv
<1>. QED
  BY <1>1, <1>2, <1>3, <1>4, IdleTyped, PublishedKeeps

LEMMA AmbiguousKeeps ==
    ASSUME CatalogInv, NEW p \in Processes, At(p, "finalize"), Fault("ambiguous"), Publishable(p),
           Published(p), Goto(p, "undo")
    PROVE  CatalogInv'
<1>. DEFINE r == [process[p] EXCEPT !.pc = "undo"]
<1>1. PICK t \in Templates, v \in Versions : Publisher(p, t, v) /\ PublishedRows(t, v)
  BY PublisherHolds
<1>2. /\ Others(p) /\ Pc(p)' = "undo" /\ process'[p].version = v
      /\ process'[p].template = t /\ process'[p].todo = {}
      /\ process'[p].revision = Row(t).revision
      /\ process' = [process EXCEPT ![p] = r] /\ r \in Process
  BY <1>1, GotoSets DEF CatalogInv, Publisher
<1>3. /\ catalogFaults \subseteq catalogFaults' /\ catalogFaults' \subseteq CatalogEvents
      /\ ~Decided'
  BY Remembered DEF CatalogInv
<1>4. WorkPlaced(p)'
  <2>1. v \in drawn /\ t \in drawn /\ drawn' = drawn /\ v # NULL /\ t # NULL
    BY <1>1, CatalogAssumption
       DEF Publisher, PublishedRows, CatalogInv, RowsInv, TemplateRowsAgree, Row
  <2>. QED
    BY <1>2, <2>1 DEF WorkPlaced, Publishing, Storing, Claiming, Erasing, Retaining
<1>5. Publishes(p)'
  BY <1>1, <1>2, <1>3 DEF Publishes, PublishedRows, Storing, Of, Row
<1>6. OwnWork(p)'
  BY <1>2, <1>4, <1>5 DEF OwnWork, Claiming, Erasing, Retaining
<1>7. r.pc = "undo" /\ r.version = process[p].version
  BY <1>2, <1>1 DEF Process
<1>. HIDE DEF r
<1>. QED
  BY <1>2, <1>3, <1>6, <1>7, PublishedKeeps


LEMMA FinalizeFailsKeeps ==
    ASSUME CatalogInv, NEW p \in Processes, FinalizeFails(p)
    PROVE  CatalogInv'
BY FinalizeRefusedKeeps, AmbiguousKeeps DEF FinalizeFails

----------------------------------------------------------------------------
(* Every step.                                                             *)

LEMMA CatalogStarts == CatalogInit => CatalogInv
<1>. SUFFICES ASSUME CatalogInit
              PROVE  CatalogInv
  OBVIOUS
<1>1. /\ Idle \in Process /\ Idle.pc = "idle" /\ Idle.version = NULL /\ Idle.template = NULL
      /\ Idle.todo = {}
  BY IdleTyped DEF Idle
<1>2. /\ NoTemplate \in TemplateRow /\ NoTemplate.state = "absent"
      /\ NoTemplate.current = NULL
  BY DEF NoTemplate, TemplateRow
<1>3. CatalogTypeOK
  BY <1>1, <1>2, NoRows DEF CatalogInit, CatalogTypeOK, NotFrozen
<1>4. RowsInv
  <2>1. \A v \in Versions : versions[v] = NoVersion
    BY DEF CatalogInit
  <2>2. \A t \in Templates : templates[t] = NoTemplate
    BY DEF CatalogInit
  <2>3. \A j \in Submissions : frozen[j].version = NULL /\ frozen[j].template = NULL
    BY DEF CatalogInit, NotFrozen
  <2>4. VersionRowsAgree /\ TemplateRowsAgree /\ RetainedUnused /\ FrozenAgree
    BY <1>2, <2>1, <2>2, <2>3, NoRows, CatalogAssumption
       DEF VersionRowsAgree, TemplateRowsAgree, RetainedUnused, FrozenAgree, Row, PublishedVersion
  <2>5. NumbersAgree
    BY <1>2, <2>1, <2>2, NoRows DEF NumbersAgree, Row
  <2>6. NumbersBounded
    <3>1. 0 \in Nat /\ \A v \in Versions : versions[v].number <= 0
      BY <2>1, NoRows
    <3>. QED
      BY <3>1 DEF NumbersBounded
  <2>. QED
    BY <2>4, <2>5, <2>6 DEF RowsInv
<1>5. \A p \in Processes : /\ Pc(p) = "idle" /\ process[p].version = NULL
                           /\ process[p].template = NULL /\ process[p].todo = {}
  BY <1>1 DEF CatalogInit, Pc
<1>6. SelectionsAgree
  BY <1>2, <1>5 DEF CatalogInit, SelectionsAgree, Row
<1>7. \A p \in Processes : OwnWork(p)
  BY <1>5 DEF OwnWork, WorkPlaced, Publishing, Storing, Claiming, Erasing, Retaining
<1>8. \A p, q \in Processes : Apart(p, q)
  BY <1>5 DEF Apart, Publishing, Storing, Claiming, Retaining
<1>9. TracesKept
  BY <1>5 DEF CatalogInit, TracesKept, Traces, Erasing
<1>. QED
  BY <1>3, <1>4, <1>6, <1>7, <1>8, <1>9 DEF CatalogInv

LEMMA PublishStep ==
    ASSUME CatalogInv, NEW p \in Processes, Publish(p)
    PROVE  CatalogInv'
<1>1. \A t \in Templates, v \in Versions : reserve_create(p, t, v) => CatalogInv'
  BY CreateKeeps
<1>2. \A v \in Versions : reserve_version(p, v) => CatalogInv'
  BY ReserveKeeps
<1>3. ReserveRefused(p) \/ Put(p) \/ PutFails(p) => CatalogInv'
  BY ReserveRefusedKeeps, PutKeeps, PutFailsKeeps
<1>4. finalize_version(p) \/ FinalizeRefused(p) \/ FinalizeFails(p) => CatalogInv'
  BY FinalizeKeeps, FinalizeRefusedKeeps, FinalizeFailsKeeps
<1>5. CompensateObject(p) \/ CompensateFails(p) \/ abort_pending(p) => CatalogInv'
  BY CompensateKeeps, StorageFailureReturns, AbortKeeps
<1>. QED
  BY <1>1, <1>2, <1>3, <1>4, <1>5 DEF Publish

LEMMA ChangeStep ==
    ASSUME CatalogInv, NEW p \in Processes, Change(p)
    PROVE  CatalogInv'
<1>1. \A t \in Templates, op \in Offered : Read(p, op, t) => CatalogInv'
  BY ReadKeeps
<1>2. _cas_update(p) \/ RequireActive(p) \/ UpsertSelection(p) => CatalogInv'
  BY UpdateKeeps, SelectKeeps
<1>3. begin_delete(p) \/ DeleteObjectsFails(p) \/ finalize_delete(p) => CatalogInv'
  BY BeginDeleteKeeps, StorageFailureReturns, DropKeeps
<1>4. DeleteObjects(p) => CatalogInv'
  BY EraseKeeps DEF DeleteObjects
<1>. QED
  BY <1>1, <1>2, <1>3, <1>4 DEF Change

LEMMA ReclaimStep ==
    ASSUME CatalogInv, NEW p \in Processes, Reclaim(p)
    PROVE  CatalogInv'
<1>1. \A stale \in SUBSET Versions : claim_stale_pending(p, stale) => CatalogInv'
  BY ClaimStaleKeeps
<1>2. \A v \in Versions : ReclaimObject(p, v) \/ ReclaimObjectFails(p, v) => CatalogInv'
  BY ReclaimObjectKeeps, ReclaimFailsKeeps
<1>3. ReclaimAbort(p) \/ release_pending_claim(p) \/ pending_deletions(p) => CatalogInv'
  BY ReclaimAbortKeeps, ReleaseKeeps, DeletionsKeep
<1>4. DeletionObjects(p) => CatalogInv'
  BY EraseKeeps DEF DeletionObjects
<1>5. DeletionFails(p) \/ DeletionDropped(p) => CatalogInv'
  BY StorageFailureReturns, DropKeeps
<1>. QED
  BY <1>1, <1>2, <1>3, <1>4, <1>5 DEF Reclaim

LEMMA RetainStep ==
    ASSUME CatalogInv, NEW p \in Processes, Retain(p)
    PROVE  CatalogInv'
<1>1. \A v \in Versions : claim_template_versions(p, v) => CatalogInv'
  BY ClaimVersionsKeeps
<1>2. RetainedObject(p) \/ RetainedObjectFails(p) \/ complete_template_version(p) => CatalogInv'
  BY RetainedObjectKeeps, StorageFailureReturns, CompleteKeeps
<1>. QED
  BY <1>1, <1>2 DEF Retain

LEMMA CatalogStutters ==
    ASSUME CatalogInv, UNCHANGED catalogVars
    PROVE  CatalogInv'
<1>1. /\ UNCHANGED Rows /\ UNCHANGED process /\ UNCHANGED catalogFaults
      /\ catalogFaults \subseteq catalogFaults'
  BY DEF catalogVars, Rows
<1>2. CatalogTypeOK' /\ SelectionsAgree'
  BY <1>1 DEF CatalogInv, CatalogTypeOK, SelectionsAgree, Rows, Pc, Row, Restricted
<1>3. RowsInv'
  BY <1>1, RowsStand DEF CatalogInv
<1>4. \A p \in Processes : OwnWork(p)'
  BY <1>1, WorkStands DEF CatalogInv
<1>5. \A p, q \in Processes : Apart(p, q)'
  BY <1>1, ApartStands DEF CatalogInv, Rows
<1>6. TracesKept'
  BY <1>1 DEF CatalogInv, TracesKept, Clean, Tracked, Traces, Held, Pc, Of, Rows
<1>. QED
  BY <1>2, <1>3, <1>4, <1>5, <1>6 DEF CatalogInv

LEMMA CatalogStep == CatalogInv /\ [CatalogNext]_catalogVars => CatalogInv'
<1>. SUFFICES ASSUME CatalogInv, [CatalogNext]_catalogVars
              PROVE  CatalogInv'
  OBVIOUS
<1>1. ASSUME NEW p \in Processes, Publish(p) \/ Change(p) \/ Reclaim(p) \/ Retain(p) \/ Crash(p)
      PROVE  CatalogInv'
  BY <1>1, PublishStep, ChangeStep, ReclaimStep, RetainStep, CrashKeeps
<1>2. ASSUME NEW j \in Submissions, NEW v \in Versions, FreezeVersion(j, v)
      PROVE  CatalogInv'
  BY <1>2, FreezeKeeps
<1>3. ASSUME NEW j \in Submissions, JobExpires(j)
      PROVE  CatalogInv'
  BY <1>3, ExpireKeeps
<1>4. CASE clear_preferred
  BY <1>4, ClearKeeps
<1>5. CASE UNCHANGED catalogVars
  BY <1>5, CatalogStutters
<1>. QED
  BY <1>1, <1>2, <1>3, <1>4, <1>5 DEF CatalogNext

LEMMA CatalogStays == CatalogSpec => []CatalogInv
BY CatalogStarts, CatalogStep, PTL DEF CatalogSpec


----------------------------------------------------------------------------
(* What follows.                                                           *)

\* The rows of templates and versions keep their types, and with them the
\* constraints of their tables: a pending version has a publication token and a
\* version has a number (persistence/templates and its migrations).
THEOREM CatalogStaysTyped == CatalogSpec => []CatalogTypeOK
<1>1. CatalogInv => CatalogTypeOK
  BY DEF CatalogInv
<1>. QED
  BY <1>1, CatalogStays, PTL

LEMMA InvKeepsTemplates == CatalogInv => TemplatesKept
<1>. SUFFICES ASSUME CatalogInv
              PROVE  TemplatesKept
  OBVIOUS
<1>1. CurrentAvailable
  BY DEF CatalogInv, RowsInv, TemplateRowsAgree, CurrentAvailable, PublishedOf, VersionsOf,
         PublishedVersion, Of, Row, Decided
<1>2. CurrentIsNewest
  BY DEF CatalogInv, RowsInv, NumbersAgree, CurrentIsNewest, PublishedOf, VersionsOf,
         PublishedVersion, Of, Row
<1>3. FrozenAvailable
  BY DEF CatalogInv, RowsInv, FrozenAgree, FrozenAvailable, PublishedVersion, Decided
<1>4. ObjectsTracked
  BY DEF CatalogInv, TracesKept, Tracked, ObjectsTracked, Clean
<1>. QED
  BY <1>1, <1>2, <1>3, <1>4 DEF TemplatesKept

\* Whoever publishes, compensates, reclaims, deletes and retains at the same
\* time, and whatever fails or dies meanwhile: a template's current version is a
\* published row of its own and the newest one, its bytes and those of the
\* versions that unexpired jobs froze are in the store unless a commit was
\* ambiguous, and no object is left without a row while the store answers
\* (TemplateService.create, replace and restore, reclaim_pending and
\* RetentionService.cleanup over SqlAlchemyTemplateRepository).
THEOREM TemplatesStayKept == CatalogSpec => []TemplatesKept
<1>1. CatalogInv => TemplatesKept
  BY InvKeepsTemplates
<1>. QED
  BY <1>1, CatalogStays, PTL

\* A template that is being deleted is used by no conversion job, and on SQLite,
\* whose writers are serialised, selected by nobody (begin_delete against
\* create_or_get, set_preferred_audited and set_system_fallback_audited).
THEOREM DeletedStayUnreferenced == CatalogSpec => []DeletingUnreferenced
<1>1. CatalogInv => DeletingUnreferenced
  <2>. SUFFICES ASSUME CatalogInv, NEW t \in Templates, templates[t].state = "deleting"
                PROVE  /\ \A j \in Submissions : frozen[j].template # t
                       /\ ~PostgreSQL => ~Restricted(t)
    BY DEF DeletingUnreferenced
  <2>1. \A j \in Submissions : frozen[j].template # t
    BY CatalogAssumption DEF CatalogInv, RowsInv, FrozenAgree, Row
  <2>. QED
    BY <2>1 DEF CatalogInv, SelectionsAgree, Row
<1>. QED
  BY <1>1, CatalogStays, PTL

----------------------------------------------------------------------------
(* Revisions.                                                              *)

\* A template row that is visible before and after a step is left alone, or its
\* revision moves on.
RevisionMoves ==
    \A t \in Templates :
        \/ templates'[t] = templates[t]
        \/ ~Visible(t) \/ templates'[t].state # "published"
        \/ templates'[t].revision = templates[t].revision + 1

LEMMA GoneHidden ==
    ASSUME CatalogInv, NEW t, Deleted(t)
    PROVE  RevisionMoves
<1>1. \A u \in Templates : templates'[u] = templates[u] \/ templates'[u] = NoTemplate
  BY DEF Deleted, CatalogInv, CatalogTypeOK
<1>. QED
  BY <1>1, NoRows DEF RevisionMoves

LEMMA AbortMovesOn ==
    ASSUME CatalogInv, NEW p \in Processes, NEW v, Aborted(p, v)
    PROVE  RevisionMoves
<1>1. Deleted(versions[v].template) \/ UNCHANGED templates
  BY DEF Aborted
<1>2. UNCHANGED templates => RevisionMoves
  BY DEF RevisionMoves
<1>. QED
  BY <1>1, <1>2, GoneHidden

LEMMA DropMovesOn ==
    ASSUME CatalogInv, NEW t, DropTemplate(t)
    PROVE  RevisionMoves
<1>1. Deleted(t) \/ UNCHANGED templates
  BY DEF DropTemplate
<1>2. UNCHANGED templates => RevisionMoves
  BY DEF RevisionMoves
<1>. QED
  BY <1>1, <1>2, GoneHidden

LEMMA PublicationMovesOn ==
    ASSUME CatalogInv, NEW p \in Processes, Published(p)
    PROVE  RevisionMoves
<1>1. PICK t : t = process[p].template
  OBVIOUS
<1>2. PICK v : templates' = [templates EXCEPT
              ![t].current = v, ![t].state = "published",
              ![t].revision = @ + (IF templates[t].state = "pending" THEN 0 ELSE 1)]
  BY <1>1 DEF Published
<1>3. templates \in [Templates -> TemplateRow]
  BY DEF CatalogInv, CatalogTypeOK
<1>4. ASSUME NEW u \in Templates, Visible(u), u = t
      PROVE  templates'[u].revision = templates[u].revision + 1
  BY <1>2, <1>3, <1>4 DEF TemplateRow, Visible
<1>5. \A u \in Templates : u # t => templates'[u] = templates[u]
  BY <1>2, <1>3
<1>. QED
  BY <1>4, <1>5 DEF RevisionMoves

LEMMA PublishMovesOn ==
    ASSUME CatalogInv, NEW p \in Processes, Publish(p)
    PROVE  RevisionMoves
<1>0. UNCHANGED templates => RevisionMoves
  BY DEF RevisionMoves
<1>1. ASSUME NEW t \in Templates, NEW v \in Versions, reserve_create(p, t, v)
      PROVE  RevisionMoves
  <2>1. \A u \in Templates : u # t => templates'[u] = templates[u]
    BY <1>1 DEF reserve_create, CatalogInv, CatalogTypeOK
  <2>2. ~Visible(t)
    BY <1>1 DEF reserve_create, CatalogInv, RowsInv, TemplateRowsAgree, Row, Visible
  <2>. QED
    BY <2>1, <2>2 DEF RevisionMoves
<1>2. finalize_version(p) \/ FinalizeFails(p) => RevisionMoves
  BY <1>0, PublicationMovesOn DEF finalize_version, FinalizeFails, Rows
<1>3. abort_pending(p) => RevisionMoves
  BY AbortMovesOn DEF abort_pending
<1>4. ASSUME NEW v \in Versions, reserve_version(p, v)
      PROVE  RevisionMoves
  BY <1>0, <1>4 DEF reserve_version
<1>5. ReserveRefused(p) \/ Put(p) \/ PutFails(p) \/ FinalizeRefused(p) \/ CompensateObject(p)
         \/ CompensateFails(p) => RevisionMoves
  BY <1>0 DEF ReserveRefused, Put, PutFails, FinalizeRefused, CompensateObject, CompensateFails,
              Rows, OnlyObjects
<1>. QED
  BY <1>1, <1>2, <1>3, <1>4, <1>5 DEF Publish

LEMMA ChangeMovesOn ==
    ASSUME CatalogInv, NEW p \in Processes, Change(p)
    PROVE  RevisionMoves
<1>0. UNCHANGED templates => RevisionMoves
  BY DEF RevisionMoves
<1>1. PICK t : t = process[p].template
  OBVIOUS
<1>2. templates \in [Templates -> TemplateRow]
  BY DEF CatalogInv, CatalogTypeOK
<1>3. CASE _cas_update(p)
  <2>1. CASE UNCHANGED templates
    BY <1>0, <2>1
  <2>2. CASE ~UNCHANGED templates
    <3>1. PICK s : templates' = [templates EXCEPT ![t].revision = @ + 1, ![t].status = s]
      BY <1>1, <1>3, <2>2 DEF _cas_update
    <3>2. \A u \in Templates : u # t => templates'[u] = templates[u]
      BY <1>2, <3>1
    <3>3. t \in Templates => templates'[t].revision = templates[t].revision + 1
      BY <1>2, <3>1 DEF TemplateRow
    <3>. QED
      BY <3>2, <3>3 DEF RevisionMoves
  <2>. QED
    BY <2>1, <2>2
<1>4. CASE begin_delete(p)
  <2>1. CASE UNCHANGED templates
    BY <1>0, <2>1
  <2>2. CASE ~UNCHANGED templates
    <3>1. templates' = [templates EXCEPT ![t].state = "deleting", ![t].revision = @ + 1]
      BY <1>1, <1>4, <2>2 DEF begin_delete
    <3>2. \A u \in Templates : u # t => templates'[u] = templates[u]
      BY <1>2, <3>1
    <3>3. t \in Templates => templates'[t].state = "deleting"
      BY <1>2, <3>1 DEF TemplateRow
    <3>. QED
      BY <3>2, <3>3 DEF RevisionMoves
  <2>. QED
    BY <2>1, <2>2
<1>5. finalize_delete(p) => RevisionMoves
  BY DropMovesOn DEF finalize_delete
<1>6. RequireActive(p) \/ UpsertSelection(p) => RevisionMoves
  BY <1>0 DEF RequireActive, UpsertSelection, Upserted, Rows
<1>7. DeleteObjects(p) \/ DeleteObjectsFails(p) => RevisionMoves
  BY <1>0 DEF DeleteObjects, DeleteObjectsFails, EraseObject, OnlyObjects, Rows
<1>8. ASSUME NEW u \in Templates, NEW op \in Offered, Read(p, op, u)
      PROVE  RevisionMoves
  BY <1>0, <1>8 DEF Read, Rows
<1>. QED
  BY <1>3, <1>4, <1>5, <1>6, <1>7, <1>8 DEF Change

LEMMA ReclaimMovesOn ==
    ASSUME CatalogInv, NEW p \in Processes, Reclaim(p) \/ Retain(p)
    PROVE  RevisionMoves
<1>0. UNCHANGED templates => RevisionMoves
  BY DEF RevisionMoves
<1>1. ReclaimAbort(p) => RevisionMoves
  BY AbortMovesOn DEF ReclaimAbort
<1>2. DeletionDropped(p) => RevisionMoves
  BY DropMovesOn DEF DeletionDropped
<1>3. CASE Reclaim(p)
  BY <1>0, <1>1, <1>2, <1>3
     DEF Reclaim, claim_stale_pending, ReclaimObject, ReclaimObjectFails, release_pending_claim,
         pending_deletions, DeletionObjects, EraseObject, DeletionFails, OnlyVersions, OnlyObjects,
         Rows
<1>4. CASE Retain(p)
  BY <1>0, <1>4
     DEF Retain, claim_template_versions, RetainedObject, RetainedObjectFails,
         complete_template_version, OnlyVersions, OnlyObjects, Rows
<1>. QED
  BY <1>3, <1>4

\* Two reads of a published template with the same revision, which is its ETag,
\* have read the same current version and status: every publication, update,
\* archival and deletion moves the revision on, and a new template has an
\* identifier of its own (finalize_version, _cas_update, begin_delete).
THEOREM RevisionsIdentify == CatalogSpec => RevisionIdentifies
<1>1. CatalogInv /\ [CatalogNext]_catalogVars => RevisionMoves
  <2>. SUFFICES ASSUME CatalogInv, [CatalogNext]_catalogVars
                PROVE  RevisionMoves
    OBVIOUS
  <2>0. UNCHANGED templates => RevisionMoves
    BY DEF RevisionMoves
  <2>1. ASSUME NEW p \in Processes, Publish(p) \/ Change(p) \/ Reclaim(p) \/ Retain(p) \/ Crash(p)
        PROVE  RevisionMoves
    BY <2>0, <2>1, PublishMovesOn, ChangeMovesOn, ReclaimMovesOn DEF Crash, Rows
  <2>2. CASE \E j \in Submissions, v \in Versions : FreezeVersion(j, v)
    BY <2>0, <2>2 DEF FreezeVersion
  <2>3. CASE \E j \in Submissions : JobExpires(j)
    BY <2>0, <2>3 DEF JobExpires
  <2>4. CASE clear_preferred
    BY <2>0, <2>4 DEF clear_preferred
  <2>5. CASE UNCHANGED catalogVars
    BY <2>0, <2>5 DEF catalogVars
  <2>. QED
    BY <2>1, <2>2, <2>3, <2>4, <2>5 DEF CatalogNext
<1>2. CatalogInv /\ RevisionMoves => SameRevisionSameTemplate
  <2>. SUFFICES ASSUME CatalogInv, RevisionMoves, NEW t \in Templates, Visible(t), Visible(t)',
                       templates'[t].revision = templates[t].revision
                PROVE  templates'[t] = templates[t]
    BY DEF SameRevisionSameTemplate
  <2>1. templates[t].revision \in Nat
    BY TemplateFields DEF CatalogInv
  <2>. QED
    BY <2>1 DEF RevisionMoves, Visible
<1>3. CatalogInv /\ [CatalogNext]_catalogVars => [SameRevisionSameTemplate]_catalogVars
  BY <1>1, <1>2
<1>. QED
  BY <1>3, CatalogStays, PTL DEF CatalogSpec, RevisionIdentifies
=============================================================================
