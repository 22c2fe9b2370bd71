------------------------- MODULE Processes_proofs --------------------------
(***************************************************************************)
(* What processes beside the service may rely on: an operator's backup and *)
(* restore commands (Recovery), the two threads of one attempt in a worker *)
(* (JobHeartbeat), the commands of the command line, which share one       *)
(* profile (CliSessions), local conversions, which publish into one        *)
(* directory (LocalOutputs), and remote commands (RemoteClient); each for  *)
(* any number of them, any bounds and any order of their steps.            *)
(***************************************************************************)
EXTENDS Recovery, JobHeartbeat, CliSessions, LocalOutputs, RemoteClient, SequenceTheorems,
        FiniteSetTheorems, TLAPS

----------------------------------------------------------------------------
(* Backup and restore, standalone and distributed, whatever fails, dies or  *)
(* decays.  A set is whole by the way a backup makes it; a restore only     *)
(* touches what it has placed itself, which no other restore has.           *)


Kept == {o \in Objects : source[o] = "kept"}

\* What a calm backup has seen referred to is stored, and is copied.
BackupOK ==
    /\ backup.pc \in {"idle", "inventory"} => backup.copied = {}
    /\ backup.pc \in {"copy", "compare", "manifest", "publish"} =>
          backup.copied \subseteq backup.inventory
    /\ backup.pc \in {"compare", "manifest", "publish"} => backup.copied = backup.inventory
    /\ backup.pc = "publish" => backup.listed = backup.copied
    /\ backup.calm /\ backup.pc # "idle" => backup.refs \subseteq Kept
    /\ backup.calm /\ backup.pc \in {"copy", "compare", "manifest", "publish"} =>
          backup.refs \subseteq backup.inventory

SetOK(s) ==
    s.named => /\ s.manifest /\ s.files = s.listed
               /\ s.calm => s.refs \subseteq s.files

\* The target that a successful restore has left.
Complete(r) ==
    /\ target.database = "restored" /\ target.set = restore[r].set
    /\ target.refs = SetFor(r).refs
    /\ Distributed => /\ target.refs \subseteq restore[r].placed
                      /\ \A o \in restore[r].placed : target.objects[o] = "good"
    /\ ~Distributed => \A o \in target.refs :
          \/ target.objects[o] = "good"
          \/ target.objects[o] = "damaged" /\ o \in restore[r].content

\* A restore command, with its set and what it has placed at the target.
CommandOK(r) ==
    /\ restore[r].pc # "idle" => restore[r].set \in 1 .. Len(sets)
    /\ restore[r].pc = "done" <=> restore[r].exit # "none"
    /\ restore[r].pc \in {"idle", "empty", "stage"} => restore[r].placed = {}
    /\ restore[r].pc # "done" \/ restore[r].exit = "ok" => restore[r].seen = {}
    /\ restore[r].pc \in {"stage", "references", "replace"} => ~Distributed
    /\ restore[r].pc \in {"put", "database", "remove"} => Distributed
    /\ restore[r].pc = "replace" => SetFor(r).refs \subseteq restore[r].placed
    /\ Distributed => \A o \in restore[r].placed : target.objects[o] \in {"good", "damaged"}
    /\ restore[r].pc \in {"put", "database"} =>
          \A o \in restore[r].placed : target.objects[o] = "good"
    /\ restore[r].exit = "ok" => Complete(r)

Disjoint ==
    Distributed => \A q, r \in Restorers : q # r => restore[q].placed \cap restore[r].placed = {}

\* No restore has succeeded, and the target is as it was but for what is being placed.
Untouched ==
    /\ target.database \in {"empty", "foreign"} /\ target.refs = {} /\ target.set = 0
    /\ \A o \in Objects :
          (Distributed => \A r \in Restorers : o \notin restore[r].placed) =>
              target.objects[o] \in {"none", "foreign"}
    /\ \A o, x \in Objects : target.objects[o] = "foreign" =>
          /\ target.database = "empty"
          /\ target.objects[x] = "foreign" => o = x

NoTrace ==
    mishaps = 0 =>
        /\ \A r \in Restorers : Distributed /\ restore[r].pc = "done" /\ restore[r].exit # "ok" =>
              restore[r].placed = {}
        /\ (\A r \in Restorers : restore[r].exit # "ok") => Untouched

RecoveryInv ==
    /\ RecoveryTypeOK
    /\ BackupOK
    /\ \A i \in 1 .. Len(sets) : SetOK(sets[i])
    /\ \A r \in Restorers : CommandOK(r)
    /\ Disjoint
    /\ NoTrace


----------------------------------------------------------------------------
(* What stands.                                                            *)

\* Sets are added, and only their files decay.
SetsStand ==
    /\ Len(sets) <= Len(sets')
    /\ \A i \in 1 .. Len(sets) : sets'[i].refs = sets[i].refs

\* A restored database stays with what it refers to.
DatabaseStands ==
    target.database = "restored" =>
        /\ target'.database = "restored" /\ target'.set = target.set /\ target'.refs = target.refs
        /\ ~Distributed => \A o \in Objects : target.objects[o] # "none" =>
                               target'.objects[o] = target.objects[o]

TargetTyped ==
    target \in [database : {"empty", "foreign", "restored"}, refs : SUBSET Objects, set : Nat,
                objects : [Objects -> {"none", "foreign", "good", "damaged"}]]

LEMMA SetsUnchanged ==
    ASSUME RecoveryTypeOK, UNCHANGED sets
    PROVE  SetsStand /\ Len(sets) \in Nat
BY DEF RecoveryTypeOK, SetsStand

LEMMA CommandFields ==
    ASSUME RecoveryTypeOK, NEW r \in Restorers
    PROVE  /\ restore[r] \in Restore
           /\ restore[r].placed \subseteq Objects /\ restore[r].content \subseteq Objects
           /\ restore[r].set \in 0 .. Len(sets) /\ Len(sets) \in Nat
BY DEF RecoveryTypeOK, Restore

LEMMA CommandStands ==
    ASSUME RecoveryInv, NEW r \in Restorers, restore'[r] = restore[r], SetsStand, DatabaseStands,
           Len(sets') \in Nat,
           Distributed => \A o \in restore[r].placed : target'.objects[o] = target.objects[o]
    PROVE  CommandOK(r)'
<1>1. CommandOK(r) /\ RecoveryTypeOK /\ Len(sets) \in Nat
  BY CommandFields DEF RecoveryInv
<1>2. restore[r].set \in 1 .. Len(sets) =>
          restore[r].set \in 1 .. Len(sets') /\ sets'[restore[r].set].refs = sets[restore[r].set].refs
  BY <1>1 DEF SetsStand
<1>3. target.refs \subseteq Objects
  BY <1>1 DEF RecoveryTypeOK
<1>4. restore[r].exit = "ok" => Complete(r)'
  <2>. SUFFICES ASSUME restore[r].exit = "ok"
                PROVE  Complete(r)'
    OBVIOUS
  <2>1. Complete(r) /\ restore[r].set \in 1 .. Len(sets)
    BY <1>1 DEF CommandOK
  <2>2. SetFor(r)'.refs = SetFor(r).refs
    BY <1>2, <2>1 DEF SetFor
  <2>3. target'.database = "restored" /\ target'.set = target.set /\ target'.refs = target.refs
    BY <2>1 DEF DatabaseStands, Complete
  <2>4. ~Distributed => \A o \in target.refs :
          \/ target'.objects[o] = "good"
          \/ target'.objects[o] = "damaged" /\ o \in restore[r].content
    BY <1>3, <2>1 DEF DatabaseStands, Complete
  <2>. QED
    BY <2>1, <2>2, <2>3, <2>4 DEF Complete
<1>5. restore[r].pc = "replace" => SetFor(r)'.refs \subseteq restore[r].placed
  BY <1>1, <1>2 DEF CommandOK, SetFor
<1>. QED
  BY <1>1, <1>2, <1>4, <1>5 DEF CommandOK

\* A step beside the restores.
LEMMA RestoresStand ==
    ASSUME RecoveryInv, UNCHANGED <<restore, target>>, SetsStand, Len(sets') \in Nat,
           mishaps' = mishaps \/ mishaps' = mishaps + 1
    PROVE  (\A r \in Restorers : CommandOK(r)') /\ Disjoint' /\ NoTrace'
<1>1. DatabaseStands
  BY DEF DatabaseStands
<1>2. \A r \in Restorers : CommandOK(r)'
  BY <1>1, CommandStands
<1>3. mishaps' = 0 => mishaps = 0
  BY DEF RecoveryInv, RecoveryTypeOK
<1>4. Disjoint'
  BY DEF RecoveryInv, Disjoint
<1>5. Untouched => Untouched'
  BY DEF Untouched
<1>6. NoTrace'
  BY <1>3, <1>5 DEF RecoveryInv, NoTrace
<1>. QED
  BY <1>2, <1>4, <1>6

\* A step of one restore, in its parts.
OtherRestores(r) == \A q \in Restorers : q # r => restore'[q] = restore[q]

LEMMA RestoreComposed ==
    ASSUME RecoveryInv, NEW r \in Restorers, RestoreStep, OtherRestores(r),
           restore' \in [Restorers -> Restore], restore'[r].set \in 0 .. Len(sets),
           TargetTyped', mishaps' = mishaps \/ mishaps' = mishaps + 1, DatabaseStands,
           Distributed => \A q \in Restorers : q # r =>
               /\ \A o \in restore[q].placed : target'.objects[o] = target.objects[o]
               /\ restore'[r].placed \cap restore[q].placed = {},
           CommandOK(r)', NoTrace'
    PROVE  RecoveryInv'
<1>1. UNCHANGED <<source, backup, sets>> /\ SetsStand /\ Len(sets') \in Nat
  BY SetsUnchanged DEF RestoreStep, RecoveryInv
<1>2. RecoveryTypeOK'
  <2>1. \A q \in Restorers : restore'[q].set \in 0 .. Len(sets)
    BY DEF RecoveryInv, RecoveryTypeOK, OtherRestores
  <2>2. mishaps' \in Nat
    BY DEF RecoveryInv, RecoveryTypeOK
  <2>. QED
    BY <1>1, <2>1, <2>2 DEF RecoveryInv, RecoveryTypeOK, TargetTyped
<1>3. BackupOK' /\ \A i \in 1 .. Len(sets') : SetOK(sets[i])'
  BY <1>1 DEF RecoveryInv, BackupOK, Kept, SetOK
<1>4. \A q \in Restorers : CommandOK(q)'
  BY <1>1, CommandStands DEF OtherRestores
<1>5. Disjoint'
  BY DEF RecoveryInv, Disjoint, OtherRestores
<1>. QED
  BY <1>2, <1>3, <1>4, <1>5 DEF RecoveryInv

\* A step of one restore that leaves the target alone.
LEMMA QuietRestore ==
    ASSUME RecoveryInv, NEW r \in Restorers, RestoreStep, OtherRestores(r),
           restore' \in [Restorers -> Restore], restore'[r].set \in 0 .. Len(sets),
           UNCHANGED target, mishaps' = mishaps \/ mishaps' = mishaps + 1,
           restore[r].pc # "done", restore'[r].exit # "ok",
           Distributed => restore'[r].placed \subseteq restore[r].placed,
           mishaps' = 0 /\ Distributed => restore'[r].placed = restore[r].placed,
           mishaps' = 0 /\ Distributed /\ restore'[r].pc = "done" => restore'[r].placed = {},
           CommandOK(r)'
    PROVE  RecoveryInv'
<1>1. DatabaseStands /\ TargetTyped'
  BY DEF DatabaseStands, TargetTyped, RecoveryInv, RecoveryTypeOK
<1>2. Distributed => \A q \in Restorers : q # r => restore'[r].placed \cap restore[q].placed = {}
  BY DEF RecoveryInv, Disjoint
<1>3. mishaps' = 0 => mishaps = 0
  BY DEF RecoveryInv, RecoveryTypeOK
<1>4. NoTrace'
  <2>. SUFFICES ASSUME mishaps' = 0
                PROVE  /\ \A q \in Restorers :
                              Distributed /\ restore'[q].pc = "done" /\ restore'[q].exit # "ok" =>
                                  restore'[q].placed = {}
                       /\ (\A q \in Restorers : restore'[q].exit # "ok") => Untouched'
    BY DEF NoTrace
  <2>1. NoTrace /\ mishaps = 0
    BY <1>3 DEF RecoveryInv
  <2>2. restore[r].exit # "ok"
    BY DEF RecoveryInv, CommandOK
  <2>3. (\A q \in Restorers : restore'[q].exit # "ok") =>
            \A q \in Restorers : restore[q].exit # "ok"
    BY <2>2 DEF OtherRestores
  <2>4. Distributed => \A q \in Restorers : restore'[q].placed = restore[q].placed
    BY DEF OtherRestores
  <2>5. Untouched => Untouched'
    BY <2>4 DEF Untouched
  <2>6. ASSUME NEW q \in Restorers, Distributed, restore'[q].pc = "done", restore'[q].exit # "ok"
        PROVE  restore'[q].placed = {}
    BY <2>1, <2>6 DEF NoTrace, OtherRestores
  <2>. QED
    BY <2>1, <2>3, <2>5, <2>6 DEF NoTrace
<1>. QED
  BY <1>1, <1>2, <1>4, RestoreComposed

----------------------------------------------------------------------------
(* Where a command goes.                                                   *)

Places == {"idle", "empty", "stage", "references", "replace", "put", "database", "remove", "done"}

LEMMA GoesTo ==
    ASSUME RecoveryTypeOK, NEW r \in Restorers, NEW pc \in Places, RestoreTo(r, pc)
    PROVE  /\ restore' \in [Restorers -> Restore] /\ OtherRestores(r)
           /\ restore'[r].pc = pc /\ restore'[r].set = restore[r].set
           /\ restore'[r].placed = restore[r].placed /\ restore'[r].content = restore[r].content
           /\ restore'[r].seen = restore[r].seen /\ restore'[r].exit = restore[r].exit
<1>1. restore' = [restore EXCEPT ![r] = [restore[r] EXCEPT !.pc = pc]]
  BY DEF RestoreTo, RecoveryTypeOK
<1>2. restore[r] \in Restore /\ restore \in [Restorers -> Restore]
  BY DEF RecoveryTypeOK
<1>3. [restore[r] EXCEPT !.pc = pc] \in Restore
  BY <1>2 DEF Restore, Places
<1>. QED
  BY <1>1, <1>2, <1>3 DEF OtherRestores, Restore

LEMMA ExitsWith ==
    ASSUME RecoveryTypeOK, NEW r \in Restorers, NEW exit \in {"ok", "failed", "crashed"},
           Exits(r, exit)
    PROVE  /\ restore' \in [Restorers -> Restore] /\ OtherRestores(r)
           /\ restore'[r].pc = "done" /\ restore'[r].set = restore[r].set
           /\ restore'[r].placed = restore[r].placed /\ restore'[r].content = restore[r].content
           /\ restore'[r].seen = restore[r].seen /\ restore'[r].exit = exit
<1>1. restore' = [restore EXCEPT ![r] = [restore[r] EXCEPT !.pc = "done", !.exit = exit]]
  BY DEF Exits, RecoveryTypeOK
<1>2. restore[r] \in Restore /\ restore \in [Restorers -> Restore]
  BY DEF RecoveryTypeOK
<1>3. [restore[r] EXCEPT !.pc = "done", !.exit = exit] \in Restore
  BY <1>2 DEF Restore
<1>. QED
  BY <1>1, <1>2, <1>3 DEF OtherRestores, Restore

\* A restore that ends without success.
LEMMA FailureKeeps ==
    ASSUME RecoveryInv, NEW r \in Restorers, NEW exit \in {"failed", "crashed"}, Exits(r, exit),
           RestoreStep, UNCHANGED target, mishaps' = mishaps \/ mishaps' = mishaps + 1,
           restore[r].pc \notin {"idle", "done"},
           mishaps' = 0 /\ Distributed => restore[r].placed = {}
    PROVE  RecoveryInv'
<1>1. RecoveryTypeOK /\ CommandOK(r) /\ UNCHANGED sets
  BY DEF RecoveryInv, RestoreStep
<1>2. /\ restore' \in [Restorers -> Restore] /\ OtherRestores(r)
      /\ restore'[r].pc = "done" /\ restore'[r].set = restore[r].set
      /\ restore'[r].placed = restore[r].placed /\ restore'[r].content = restore[r].content
      /\ restore'[r].seen = restore[r].seen /\ restore'[r].exit = exit
  BY <1>1, ExitsWith
<1>3. CommandOK(r)'
  BY <1>1, <1>2 DEF CommandOK
<1>4. restore[r].set \in 0 .. Len(sets)
  BY <1>1, CommandFields
<1>. QED
  BY <1>2, <1>3, <1>4, QuietRestore

\* A restore that goes on without touching the target.
LEMMA MoveKeeps ==
    ASSUME RecoveryInv, NEW r \in Restorers, NEW pc \in Places, RestoreTo(r, pc), RestoreStep,
           UNCHANGED target, mishaps' = mishaps \/ mishaps' = mishaps + 1,
           restore[r].pc \notin {"idle", "done"}, pc \notin {"idle", "empty", "done"},
           pc = "stage" => restore[r].placed = {},
           pc \in {"stage", "references", "replace"} => ~Distributed,
           pc \in {"put", "database", "remove"} => Distributed,
           pc = "replace" => SetFor(r).refs \subseteq restore[r].placed,
           pc \in {"put", "database"} =>
               restore[r].pc \in {"put", "database"} \/ restore[r].placed = {}
    PROVE  RecoveryInv'
<1>1. RecoveryTypeOK /\ CommandOK(r) /\ UNCHANGED sets
  BY DEF RecoveryInv, RestoreStep
<1>2. /\ restore' \in [Restorers -> Restore] /\ OtherRestores(r)
      /\ restore'[r].pc = pc /\ restore'[r].set = restore[r].set
      /\ restore'[r].placed = restore[r].placed /\ restore'[r].content = restore[r].content
      /\ restore'[r].seen = restore[r].seen /\ restore'[r].exit = restore[r].exit
  BY <1>1, GoesTo
<1>3. CommandOK(r)'
  BY <1>1, <1>2 DEF CommandOK, SetFor, Places
<1>4. restore[r].set \in 0 .. Len(sets)
  BY <1>1, CommandFields
<1>. QED
  BY <1>1, <1>2, <1>3, <1>4, QuietRestore DEF CommandOK


----------------------------------------------------------------------------
(* Restores that look, stage and give up.                                  *)

LEMMA VerifySetKeeps ==
    ASSUME RecoveryInv, NEW r \in Restorers, NEW i \in 1 .. Len(sets), VerifySet(r, i)
    PROVE  RecoveryInv'
<1>. DEFINE c == [NoRestore EXCEPT !.set = i, !.seen = sets[i].damaged,
                            !.pc = IF SetIsWhole(sets[i]) THEN "empty" ELSE "done",
                            !.exit = IF SetIsWhole(sets[i]) THEN "none" ELSE "failed"]
<1>1. /\ restore[r].pc = "idle" /\ restore' = [restore EXCEPT ![r] = c] /\ RestoreStep
      /\ UNCHANGED <<target, mishaps>>
  BY DEF VerifySet, RestoreAt
<1>2. /\ RecoveryTypeOK /\ CommandOK(r) /\ sets[i] \in BackupSet /\ i \in Nat /\ Len(sets) \in Nat
  BY DEF RecoveryInv, RecoveryTypeOK
<1>3. c \in Restore /\ c.set = i /\ c.placed = {} /\ c.seen = sets[i].damaged
      /\ \/ c.pc = "empty" /\ c.exit = "none" /\ sets[i].damaged = {}
         \/ c.pc = "done" /\ c.exit = "failed"
  BY <1>2 DEF NoRestore, Restore, BackupSet, SetIsWhole
<1>4. restore' \in [Restorers -> Restore] /\ restore'[r] = c /\ OtherRestores(r)
  BY <1>1, <1>2, <1>3 DEF RecoveryTypeOK, OtherRestores
<1>5. restore[r].placed = {}
  BY <1>1, <1>2 DEF CommandOK
<1>. HIDE DEF c
<1>6. CommandOK(r)'
  BY <1>1, <1>3, <1>4 DEF CommandOK, RestoreStep
<1>7. restore'[r].set \in 0 .. Len(sets)
  BY <1>2, <1>3, <1>4
<1>. QED
  BY <1>1, <1>3, <1>4, <1>5, <1>6, <1>7, QuietRestore

LEMMA VerifyTargetKeeps ==
    ASSUME RecoveryInv, NEW r \in Restorers, VerifyTarget(r)
    PROVE  RecoveryInv'
<1>1. /\ restore[r].pc = "empty" /\ RestoreStep /\ UNCHANGED <<target, mishaps>>
      /\ RestoreTo(r, IF Distributed THEN "put" ELSE "stage") \/ Exits(r, "failed")
  BY DEF VerifyTarget, RestoreAt
<1>2. restore[r].placed = {}
  BY <1>1 DEF RecoveryInv, CommandOK
<1>3. Exits(r, "failed") => RecoveryInv'
  BY <1>1, <1>2, FailureKeeps
<1>4. Distributed /\ RestoreTo(r, "put") => RecoveryInv'
  BY <1>1, <1>2, MoveKeeps DEF Places
<1>5. ~Distributed /\ RestoreTo(r, "stage") => RecoveryInv'
  BY <1>1, <1>2, MoveKeeps DEF Places
<1>. QED
  BY <1>1, <1>3, <1>4, <1>5

LEMMA CopyMembersKeeps ==
    ASSUME RecoveryInv, NEW r \in Restorers, CopyMembers(r)
    PROVE  RecoveryInv'
<1>. DEFINE s == sets[restore[r].set]
            c == [restore[r] EXCEPT !.pc = "references", !.placed = s.files, !.content = s.damaged]
<1>1. /\ restore[r].pc = "stage" /\ RestoreStep /\ UNCHANGED <<target, mishaps>>
      /\ restore' = [restore EXCEPT ![r].pc = "references", ![r].placed = s.files,
                                    ![r].content = s.damaged]
  BY DEF CopyMembers, RestoreAt, SetFor
<1>2. RecoveryTypeOK /\ CommandOK(r) /\ restore[r] \in Restore
  BY CommandFields DEF RecoveryInv
<1>3. ~Distributed /\ restore[r].set \in 1 .. Len(sets) /\ restore[r].exit = "none"
  BY <1>1, <1>2 DEF CommandOK, Restore
<1>4. s \in BackupSet
  BY <1>2, <1>3 DEF RecoveryTypeOK
<1>5. /\ c \in Restore /\ c.pc = "references" /\ c.set = restore[r].set /\ c.exit = restore[r].exit
      /\ c.seen = restore[r].seen
  BY <1>2, <1>4 DEF Restore, BackupSet
<1>6. restore' = [restore EXCEPT ![r] = c]
  BY <1>1, <1>2 DEF RecoveryTypeOK
<1>. HIDE DEF c
<1>7. restore' \in [Restorers -> Restore] /\ restore'[r] = c /\ OtherRestores(r)
  BY <1>2, <1>5, <1>6 DEF RecoveryTypeOK, OtherRestores
<1>8. CommandOK(r)'
  BY <1>1, <1>2, <1>3, <1>5, <1>7 DEF CommandOK, RestoreStep
<1>9. restore'[r].set \in 0 .. Len(sets)
  BY <1>2, <1>5, <1>7, CommandFields
<1>. QED
  BY <1>1, <1>3, <1>5, <1>7, <1>8, <1>9, QuietRestore

LEMMA ReferencesKeep ==
    ASSUME RecoveryInv, NEW r \in Restorers, _verify_stable_references_sqlite(r)
    PROVE  RecoveryInv'
<1>1. /\ restore[r].pc = "references" /\ RestoreStep /\ UNCHANGED <<target, mishaps>>
      /\ \/ SetFor(r).refs \subseteq restore[r].placed /\ RestoreTo(r, "replace")
         \/ Exits(r, "failed")
  BY DEF _verify_stable_references_sqlite, RestoreAt, Resolved
<1>2. ~Distributed
  BY <1>1 DEF RecoveryInv, CommandOK
<1>3. Exits(r, "failed") => RecoveryInv'
  BY <1>1, <1>2, FailureKeeps
<1>4. SetFor(r).refs \subseteq restore[r].placed /\ RestoreTo(r, "replace") => RecoveryInv'
  BY <1>1, <1>2, MoveKeeps DEF Places
<1>. QED
  BY <1>1, <1>3, <1>4

LEMMA ListKeeps ==
    ASSUME RecoveryInv, NEW r \in Restorers, ListRestored(r)
    PROVE  RecoveryInv'
<1>1. /\ restore[r].pc = "put" /\ RestoreStep /\ UNCHANGED <<target, mishaps>>
      /\ RestoreTo(r, "database") \/ RestoreTo(r, "remove")
  BY DEF ListRestored, RestoreAt
<1>2. Distributed
  BY <1>1 DEF RecoveryInv, CommandOK
<1>3. RestoreTo(r, "database") => RecoveryInv'
  BY <1>1, <1>2, MoveKeeps DEF Places
<1>4. RestoreTo(r, "remove") => RecoveryInv'
  BY <1>1, <1>2, MoveKeeps DEF Places
<1>. QED
  BY <1>1, <1>3, <1>4

LEMMA MishapCounts ==
    ASSUME RecoveryTypeOK, Mishap
    PROVE  mishaps' = mishaps + 1 /\ mishaps' # 0 /\ mishaps' \in Nat
BY DEF RecoveryTypeOK, Mishap

LEMMA RestoreFailsKeeps ==
    ASSUME RecoveryInv, NEW r \in Restorers, RestoreFails(r)
    PROVE  RecoveryInv'
<1>1. /\ restore[r].pc \in {"stage", "references", "replace", "put", "database"}
      /\ RestoreStep /\ UNCHANGED target /\ mishaps' = mishaps + 1 /\ mishaps' # 0
      /\ IF Distributed THEN RestoreTo(r, "remove") ELSE Exits(r, "failed")
  BY MishapCounts DEF RestoreFails, RecoveryInv
<1>2. CASE Distributed
  BY <1>1, <1>2, MoveKeeps DEF Places
<1>3. CASE ~Distributed
  BY <1>1, <1>3, FailureKeeps
<1>. QED
  BY <1>2, <1>3

LEMMA RestoreCrashesKeeps ==
    ASSUME RecoveryInv, NEW r \in Restorers, RestoreCrashes(r)
    PROVE  RecoveryInv'
BY MishapCounts, FailureKeeps DEF RestoreCrashes, RecoveryInv


----------------------------------------------------------------------------
(* Restores that write to the target.                                      *)

LEMMA TargetFields ==
    ASSUME RecoveryTypeOK
    PROVE  /\ target.database \in {"empty", "foreign", "restored"}
           /\ target.refs \subseteq Objects /\ target.set \in Nat
           /\ target.objects \in [Objects -> {"none", "foreign", "good", "damaged"}]
           /\ target = [database |-> target.database, refs |-> target.refs, set |-> target.set,
                        objects |-> target.objects]
BY DEF RecoveryTypeOK

\* One object of the target is written.
LEMMA ObjectWritten ==
    ASSUME RecoveryTypeOK, NEW o \in Objects, NEW x \in {"none", "foreign", "good", "damaged"},
           target' = [target EXCEPT !.objects[o] = x]
    PROVE  /\ TargetTyped'
           /\ UNCHANGED <<target.database, target.refs, target.set>>
           /\ target'.objects[o] = x
           /\ \A y \in Objects : y # o => target'.objects[y] = target.objects[y]
BY TargetFields DEF TargetTyped, RecoveryTypeOK

\* The database is written.
LEMMA DatabaseWritten ==
    ASSUME RecoveryTypeOK, NEW refs \in SUBSET Objects, NEW i \in Nat,
           target' = [target EXCEPT !.database = "restored", !.refs = refs, !.set = i]
    PROVE  /\ TargetTyped'
           /\ target'.database = "restored" /\ target'.refs = refs /\ target'.set = i
           /\ target'.objects = target.objects
BY TargetFields DEF TargetTyped, RecoveryTypeOK

LEMMA SetTyped ==
    ASSUME RecoveryInv, NEW r \in Restorers, restore[r].pc # "idle"
    PROVE  /\ restore[r].set \in 1 .. Len(sets) /\ restore[r].set \in Nat
           /\ restore[r].set \in 0 .. Len(sets)
           /\ SetFor(r) \in BackupSet /\ SetFor(r).refs \subseteq Objects
           /\ SetFor(r).damaged \subseteq Objects
<1>1. restore[r].set \in 1 .. Len(sets) /\ Len(sets) \in Nat /\ sets \in Seq(BackupSet)
  BY DEF RecoveryInv, CommandOK, RecoveryTypeOK
<1>2. SetFor(r) \in BackupSet
  BY <1>1 DEF SetFor
<1>. QED
  BY <1>1, <1>2 DEF BackupSet

LEMMA ReplaceKeeps ==
    ASSUME RecoveryInv, NEW r \in Restorers, ReplaceTarget(r)
    PROVE  RecoveryInv'
<1>1. restore[r].pc = "replace" /\ RestoreStep /\ UNCHANGED sets
  BY DEF ReplaceTarget, RestoreAt, RestoreStep
<1>2. /\ RecoveryTypeOK /\ CommandOK(r) /\ ~Distributed
      /\ SetFor(r).refs \subseteq restore[r].placed /\ restore[r].seen = {}
  BY <1>1 DEF RecoveryInv, CommandOK
<1>3. CASE target # Empty
  <2>1. Exits(r, "failed") /\ UNCHANGED <<target, mishaps>>
    BY <1>3 DEF ReplaceTarget
  <2>. QED
    BY <1>1, <1>2, <2>1, FailureKeeps
<1>4. CASE target = Empty
  <2>. DEFINE objects == [o \in Objects |->
                              IF o \in restore[r].content THEN "damaged"
                              ELSE IF o \in restore[r].placed THEN "good" ELSE "none"]
  <2>1. /\ target' = [database |-> "restored", refs |-> SetFor(r).refs, set |-> restore[r].set,
                      objects |-> objects]
        /\ \/ Exits(r, "ok") /\ UNCHANGED mishaps
           \/ Exits(r, "failed") /\ mishaps' = mishaps + 1 /\ mishaps' # 0
    BY <1>2, <1>4, MishapCounts DEF ReplaceTarget
  <2>2. /\ restore[r].set \in 1 .. Len(sets) /\ restore[r].set \in Nat
        /\ restore[r].set \in 0 .. Len(sets) /\ SetFor(r).refs \subseteq Objects
    BY <1>1, SetTyped
  <2>3. target.database = "empty"
    BY <1>4 DEF Empty
  <2>4. DatabaseStands
    BY <2>3 DEF DatabaseStands
  <2>5. /\ TargetTyped' /\ target'.database = "restored" /\ target'.refs = SetFor(r).refs
        /\ target'.set = restore[r].set
        /\ \A o \in SetFor(r).refs :
              \/ target'.objects[o] = "good"
              \/ target'.objects[o] = "damaged" /\ o \in restore[r].content
    BY <1>2, <2>1, <2>2 DEF TargetTyped
  <2>6. PICK exit \in {"ok", "failed", "crashed"} :
            /\ Exits(r, exit)
            /\ mishaps' = mishaps \/ mishaps' = mishaps + 1
            /\ exit # "ok" => mishaps' # 0
    BY <2>1
  <2>7. /\ restore' \in [Restorers -> Restore] /\ OtherRestores(r)
        /\ restore'[r].pc = "done" /\ restore'[r].set = restore[r].set
        /\ restore'[r].placed = restore[r].placed /\ restore'[r].content = restore[r].content
        /\ restore'[r].seen = restore[r].seen /\ restore'[r].exit = exit
    BY <1>2, <2>6, ExitsWith
  <2>8. Complete(r)'
    BY <1>1, <1>2, <2>5, <2>7 DEF Complete, SetFor
  <2>9. CommandOK(r)'
    BY <1>1, <1>2, <2>2, <2>7, <2>8 DEF CommandOK
  <2>10. NoTrace'
    <3>. SUFFICES ASSUME mishaps' = 0
                  PROVE  NoTrace'
      BY DEF NoTrace
    <3>1. restore'[r].exit = "ok"
      BY <2>6, <2>7
    <3>. QED
      BY <1>2, <3>1 DEF NoTrace
  <2>. QED
    BY <1>1, <1>2, <2>2, <2>4, <2>5, <2>6, <2>7, <2>9, <2>10, RestoreComposed
<1>. QED
  BY <1>3, <1>4

LEMMA PutKeeps ==
    ASSUME RecoveryInv, NEW r \in Restorers, NEW o \in Objects, PutObject(r, o)
    PROVE  RecoveryInv'
<1>1. restore[r].pc = "put" /\ RestoreStep /\ UNCHANGED sets
  BY DEF PutObject, RestoreAt, RestoreStep
<1>2. /\ RecoveryTypeOK /\ CommandOK(r) /\ Distributed /\ restore[r] \in Restore
      /\ restore[r].exit = "none"
      /\ \A x \in restore[r].placed : target.objects[x] = "good"
  BY <1>1, CommandFields DEF RecoveryInv, CommandOK, Restore
<1>3. /\ restore[r].set \in 1 .. Len(sets) /\ restore[r].set \in 0 .. Len(sets)
      /\ Content(r, o) \in {"good", "damaged"}
      /\ restore[r].placed \subseteq Objects
  BY <1>1, SetTyped, CommandFields DEF RecoveryInv, Content
<1>4. MayPlace(o) => \A q \in Restorers : o \notin restore[q].placed
  BY <1>2 DEF MayPlace, RecoveryInv, CommandOK
<1>5. CASE ~MayPlace(o) /\ RestoreTo(r, "remove") /\ UNCHANGED <<target, mishaps>>
  BY <1>1, <1>2, <1>5, MoveKeeps DEF Places
<1>6. CASE /\ MayPlace(o)
           /\ target' = [target EXCEPT !.objects[o] = Content(r, o)]
           /\ restore' = [restore EXCEPT ![r].placed = @ \cup {o},
                             ![r].pc = IF o \in SetFor(r).damaged THEN "remove" ELSE @]
           /\ UNCHANGED mishaps
  <2>. DEFINE c == [restore[r] EXCEPT !.placed = @ \cup {o},
                                      !.pc = IF o \in SetFor(r).damaged THEN "remove" ELSE @]
  <2>1. /\ TargetTyped' /\ UNCHANGED <<target.database, target.refs, target.set>>
        /\ target'.objects[o] = Content(r, o)
        /\ \A y \in Objects : y # o => target'.objects[y] = target.objects[y]
    <3>1. Content(r, o) \in {"none", "foreign", "good", "damaged"}
      BY <1>3
    <3>. QED
      BY <1>2, <1>6, <3>1, ObjectWritten
  <2>2. /\ c \in Restore /\ c.placed = restore[r].placed \cup {o} /\ c.set = restore[r].set
        /\ c.exit = restore[r].exit /\ c.seen = restore[r].seen
        /\ \/ c.pc = "remove"
           \/ c.pc = "put" /\ o \notin SetFor(r).damaged
    BY <1>1, <1>2 DEF Restore
  <2>3. restore' = [restore EXCEPT ![r] = c]
    BY <1>2, <1>6 DEF RecoveryTypeOK
  <2>. HIDE DEF c
  <2>4. restore' \in [Restorers -> Restore] /\ restore'[r] = c /\ OtherRestores(r)
    BY <1>2, <2>2, <2>3 DEF RecoveryTypeOK, OtherRestores
  <2>5. DatabaseStands
    BY <1>2, <2>1 DEF DatabaseStands
  <2>6. \A q \in Restorers : q # r =>
            /\ \A x \in restore[q].placed : target'.objects[x] = target.objects[x]
            /\ restore'[r].placed \cap restore[q].placed = {}
    <3>1. \A q \in Restorers : q # r => restore[r].placed \cap restore[q].placed = {}
      BY <1>2 DEF RecoveryInv, Disjoint
    <3>2. \A q \in Restorers : o \notin restore[q].placed /\ restore[q].placed \subseteq Objects
      BY <1>2, <1>4, <1>6, CommandFields
    <3>. QED
      BY <2>1, <2>2, <2>4, <3>1, <3>2
  <2>7. /\ \A x \in c.placed : target'.objects[x] \in {"good", "damaged"}
        /\ c.pc = "put" => \A x \in c.placed : target'.objects[x] = "good"
    <3>1. c.pc = "put" => target'.objects[o] = "good"
      BY <2>1, <2>2 DEF Content
    <3>2. \A x \in restore[r].placed : x # o => target'.objects[x] = "good"
      BY <1>2, <1>3, <2>1
    <3>. QED
      BY <1>3, <2>1, <2>2, <3>1, <3>2
  <2>8. CommandOK(r)'
    BY <1>1, <1>2, <1>3, <2>2, <2>4, <2>7 DEF CommandOK
  <2>9. NoTrace'
    <3>. SUFFICES ASSUME mishaps = 0
                  PROVE  NoTrace'
      BY <1>6 DEF NoTrace
    <3>1. \A q \in Restorers : restore'[q].pc = "done" /\ restore'[q].exit # "ok" =>
              restore'[q].placed = {}
      BY <1>2, <2>2, <2>4 DEF RecoveryInv, NoTrace, OtherRestores
    <3>2. ASSUME \A q \in Restorers : restore'[q].exit # "ok"
          PROVE  Untouched'
      <4>1. \A q \in Restorers : restore[q].exit # "ok"
        BY <1>2, <2>4, <3>2 DEF OtherRestores
      <4>2. Untouched
        BY <4>1 DEF RecoveryInv, NoTrace
      <4>3. \A x \in Objects : (\A q \in Restorers : x \notin restore'[q].placed) =>
                x # o /\ \A q \in Restorers : x \notin restore[q].placed
        BY <2>2, <2>4 DEF OtherRestores
      <4>4. \A x \in Objects : (\A q \in Restorers : x \notin restore'[q].placed) =>
                target'.objects[x] \in {"none", "foreign"}
        BY <1>2, <2>1, <4>2, <4>3 DEF Untouched
      <4>5. \A x \in Objects : target'.objects[x] = "foreign" => target.objects[x] = "foreign"
        BY <1>3, <2>1
      <4>. QED
        BY <1>2, <2>1, <4>2, <4>4, <4>5 DEF Untouched
    <3>. QED
      BY <3>1, <3>2 DEF NoTrace
  <2>10. restore'[r].set \in 0 .. Len(sets)
    BY <1>3, <2>2, <2>4
  <2>. QED
    BY <1>1, <1>6, <2>1, <2>4, <2>5, <2>6, <2>8, <2>9, <2>10, RestoreComposed
<1>7. CASE /\ mishaps' = mishaps + 1 /\ mishaps' # 0
           /\ target' \in {target} \cup (IF MayPlace(o)
                                         THEN {[target EXCEPT !.objects[o] = Content(r, o)]} ELSE {})
           /\ RestoreTo(r, "remove")
  <2>1. CASE UNCHANGED target
    BY <1>1, <1>2, <1>7, <2>1, MoveKeeps DEF Places
  <2>2. CASE MayPlace(o) /\ target' = [target EXCEPT !.objects[o] = Content(r, o)]
    <3>1. /\ TargetTyped' /\ UNCHANGED <<target.database, target.refs, target.set>>
          /\ \A y \in Objects : y # o => target'.objects[y] = target.objects[y]
      <4>1. Content(r, o) \in {"none", "foreign", "good", "damaged"}
        BY <1>3
      <4>. QED
        BY <1>2, <2>2, <4>1, ObjectWritten
    <3>2. /\ restore' \in [Restorers -> Restore] /\ OtherRestores(r)
          /\ restore'[r].pc = "remove" /\ restore'[r].set = restore[r].set
          /\ restore'[r].placed = restore[r].placed /\ restore'[r].content = restore[r].content
          /\ restore'[r].seen = restore[r].seen /\ restore'[r].exit = restore[r].exit
      BY <1>2, <1>7, GoesTo DEF Places
    <3>3. DatabaseStands
      BY <1>2, <3>1 DEF DatabaseStands
    <3>4. \A q \in Restorers : \A x \in restore[q].placed :
              target'.objects[x] = target.objects[x]
      BY <1>2, <1>4, <2>2, <3>1, CommandFields
    <3>5. CommandOK(r)'
      BY <1>1, <1>2, <1>3, <3>2, <3>4 DEF CommandOK
    <3>6. NoTrace'
      BY <1>7 DEF NoTrace
    <3>7. \A q \in Restorers : q # r => restore'[r].placed \cap restore[q].placed = {}
      BY <1>2, <3>2 DEF RecoveryInv, Disjoint
    <3>8. restore'[r].set \in 0 .. Len(sets)
      BY <1>3, <3>2
    <3>. QED
      BY <1>1, <1>7, <3>1, <3>2, <3>3, <3>4, <3>5, <3>6, <3>7, <3>8, RestoreComposed
  <2>. QED
    BY <1>7, <2>1, <2>2
<1>. QED
  BY <1>2, <1>5, <1>6, <1>7, MishapCounts DEF PutObject


\* What is referred to is resolved by what is placed, all of it good.
LEMMA RestoreDatabaseKeeps ==
    ASSUME RecoveryInv, NEW r \in Restorers, RestoreDatabase(r)
    PROVE  RecoveryInv'
<1>1. restore[r].pc = "database" /\ RestoreStep /\ UNCHANGED sets
  BY DEF RestoreDatabase, RestoreAt, RestoreStep
<1>2. /\ RecoveryTypeOK /\ CommandOK(r) /\ Distributed /\ restore[r].exit = "none"
      /\ restore[r].seen = {}
      /\ \A x \in restore[r].placed : target.objects[x] = "good"
  BY <1>1, CommandFields DEF RecoveryInv, CommandOK, Restore
<1>3. /\ restore[r].set \in 1 .. Len(sets) /\ restore[r].set \in Nat
      /\ restore[r].set \in 0 .. Len(sets) /\ SetFor(r).refs \subseteq Objects
  BY <1>1, SetTyped
<1>4. CASE RestoreTo(r, "remove") /\ UNCHANGED <<target, mishaps>>
  BY <1>1, <1>2, <1>4, MoveKeeps DEF Places
<1>5. CASE /\ SetFor(r).refs \subseteq restore[r].placed /\ target.database = "empty"
           /\ target' = [target EXCEPT !.database = "restored", !.refs = SetFor(r).refs,
                                       !.set = restore[r].set]
           /\ \/ Exits(r, "ok") /\ UNCHANGED mishaps
              \/ RestoreTo(r, "remove") /\ mishaps' = mishaps + 1 /\ mishaps' # 0
  <2>1. /\ TargetTyped' /\ target'.database = "restored" /\ target'.refs = SetFor(r).refs
        /\ target'.set = restore[r].set /\ target'.objects = target.objects
    <3>1. PICK refs \in SUBSET Objects : refs = SetFor(r).refs
      BY <1>3
    <3>2. target' = [target EXCEPT !.database = "restored", !.refs = refs, !.set = restore[r].set]
      BY <1>5, <3>1
    <3>. QED
      BY <1>2, <1>3, <3>1, <3>2, DatabaseWritten
  <2>2. DatabaseStands
    BY <1>5 DEF DatabaseStands
  <2>3. \A q \in Restorers : q # r =>
            /\ \A x \in restore[q].placed : target'.objects[x] = target.objects[x]
            /\ restore[r].placed \cap restore[q].placed = {}
    BY <1>2, <2>1 DEF RecoveryInv, Disjoint
  <2>4. CASE Exits(r, "ok") /\ UNCHANGED mishaps
    <3>1. /\ restore' \in [Restorers -> Restore] /\ OtherRestores(r)
          /\ restore'[r].pc = "done" /\ restore'[r].set = restore[r].set
          /\ restore'[r].placed = restore[r].placed /\ restore'[r].content = restore[r].content
          /\ restore'[r].seen = restore[r].seen /\ restore'[r].exit = "ok"
      BY <1>2, <2>4, ExitsWith
    <3>2. Complete(r)'
      BY <1>1, <1>2, <1>5, <2>1, <3>1 DEF Complete, SetFor
    <3>3. CommandOK(r)'
      BY <1>1, <1>2, <1>3, <2>1, <3>1, <3>2 DEF CommandOK
    <3>4. NoTrace'
      <4>. SUFFICES ASSUME mishaps' = 0
                    PROVE  NoTrace'
        BY DEF NoTrace
      <4>1. \A q \in Restorers : restore'[q].pc = "done" /\ restore'[q].exit # "ok" =>
                restore'[q].placed = {}
        BY <1>2, <2>4, <3>1 DEF RecoveryInv, NoTrace, OtherRestores
      <4>. QED
        BY <3>1, <4>1 DEF NoTrace
    <3>. QED
      BY <1>1, <1>3, <2>1, <2>2, <2>3, <2>4, <3>1, <3>3, <3>4, RestoreComposed
  <2>5. CASE RestoreTo(r, "remove") /\ mishaps' = mishaps + 1 /\ mishaps' # 0
    <3>1. /\ restore' \in [Restorers -> Restore] /\ OtherRestores(r)
          /\ restore'[r].pc = "remove" /\ restore'[r].set = restore[r].set
          /\ restore'[r].placed = restore[r].placed /\ restore'[r].content = restore[r].content
          /\ restore'[r].seen = restore[r].seen /\ restore'[r].exit = restore[r].exit
      BY <1>2, <2>5, GoesTo DEF Places
    <3>2. CommandOK(r)'
      BY <1>1, <1>2, <1>3, <2>1, <3>1 DEF CommandOK
    <3>3. NoTrace'
      BY <2>5 DEF NoTrace
    <3>. QED
      BY <1>1, <1>3, <2>1, <2>2, <2>3, <2>5, <3>1, <3>2, <3>3, RestoreComposed
  <2>. QED
    BY <1>5, <2>4, <2>5
<1>. QED
  BY <1>2, <1>4, <1>5, MishapCounts DEF RestoreDatabase, Refused, Resolved

\* Only what the command has placed itself is removed.
LEMMA RemoveKeeps ==
    ASSUME RecoveryInv, NEW r \in Restorers, RemovePlaced(r)
    PROVE  RecoveryInv'
<1>1. restore[r].pc = "remove" /\ RestoreStep /\ UNCHANGED sets
  BY DEF RemovePlaced, RestoreAt, RestoreStep
<1>2. /\ RecoveryTypeOK /\ CommandOK(r) /\ Distributed /\ restore[r].exit = "none"
      /\ restore[r] \in Restore /\ restore[r].placed \subseteq Objects
  BY <1>1, CommandFields DEF RecoveryInv, CommandOK, Restore
<1>3. restore[r].set \in 0 .. Len(sets)
  BY <1>1, SetTyped
<1>4. CASE restore[r].placed = {} /\ Exits(r, "failed") /\ UNCHANGED <<target, mishaps>>
  BY <1>1, <1>4, FailureKeeps
<1>5. CASE Exits(r, "failed") /\ UNCHANGED target /\ mishaps' = mishaps + 1 /\ mishaps' # 0
  BY <1>1, <1>5, FailureKeeps
<1>6. ASSUME NEW o \in restore[r].placed, restore' = [restore EXCEPT ![r].placed = @ \ {o}]
      PROVE  /\ restore' \in [Restorers -> Restore] /\ OtherRestores(r)
             /\ restore'[r].pc = "remove" /\ restore'[r].set = restore[r].set
             /\ restore'[r].placed = restore[r].placed \ {o}
             /\ restore'[r].seen = restore[r].seen /\ restore'[r].exit = "none"
  <2>. DEFINE c == [restore[r] EXCEPT !.placed = @ \ {o}]
  <2>1. /\ c \in Restore /\ c.placed = restore[r].placed \ {o} /\ c.set = restore[r].set
        /\ c.exit = restore[r].exit /\ c.seen = restore[r].seen /\ c.pc = restore[r].pc
    BY <1>2 DEF Restore
  <2>2. restore' = [restore EXCEPT ![r] = c]
    BY <1>2, <1>6 DEF RecoveryTypeOK
  <2>. HIDE DEF c
  <2>. QED
    BY <1>1, <1>2, <2>1, <2>2 DEF RecoveryTypeOK, OtherRestores
<1>7. ASSUME NEW o \in restore[r].placed, restore' = [restore EXCEPT ![r].placed = @ \ {o}],
             UNCHANGED target, mishaps' = mishaps + 1 /\ mishaps' # 0
      PROVE  RecoveryInv'
  <2>1. /\ restore' \in [Restorers -> Restore] /\ OtherRestores(r)
        /\ restore'[r].pc = "remove" /\ restore'[r].set = restore[r].set
        /\ restore'[r].placed = restore[r].placed \ {o}
        /\ restore'[r].seen = restore[r].seen /\ restore'[r].exit = "none"
    BY <1>6, <1>7
  <2>2. CommandOK(r)'
    BY <1>1, <1>2, <1>7, <2>1 DEF CommandOK
  <2>. QED
    BY <1>1, <1>2, <1>3, <1>7, <2>1, <2>2, QuietRestore
<1>8. ASSUME NEW o \in restore[r].placed, restore' = [restore EXCEPT ![r].placed = @ \ {o}],
             target' = [target EXCEPT !.objects[o] = "none"], UNCHANGED mishaps
      PROVE  RecoveryInv'
  <2>1. /\ restore' \in [Restorers -> Restore] /\ OtherRestores(r)
        /\ restore'[r].pc = "remove" /\ restore'[r].set = restore[r].set
        /\ restore'[r].placed = restore[r].placed \ {o}
        /\ restore'[r].seen = restore[r].seen /\ restore'[r].exit = "none"
    BY <1>6, <1>8
  <2>2. o \in Objects
    BY <1>2
  <2>3. /\ TargetTyped' /\ UNCHANGED <<target.database, target.refs, target.set>>
        /\ target'.objects[o] = "none"
        /\ \A y \in Objects : y # o => target'.objects[y] = target.objects[y]
    BY <1>2, <1>8, <2>2, ObjectWritten
  <2>4. DatabaseStands
    BY <1>2, <2>3 DEF DatabaseStands
  <2>5. \A q \in Restorers : q # r =>
            /\ \A x \in restore[q].placed : target'.objects[x] = target.objects[x]
            /\ restore'[r].placed \cap restore[q].placed = {}
    <3>1. \A q \in Restorers : q # r => restore[r].placed \cap restore[q].placed = {}
      BY <1>2 DEF RecoveryInv, Disjoint
    <3>2. \A q \in Restorers : restore[q].placed \subseteq Objects
      BY <1>2, CommandFields
    <3>. QED
      BY <2>1, <2>3, <3>1, <3>2
  <2>6. \A x \in restore'[r].placed : target'.objects[x] \in {"good", "damaged"}
    BY <1>2, <2>1, <2>3 DEF CommandOK
  <2>7. CommandOK(r)'
    BY <1>1, <1>2, <1>3, <2>1, <2>6 DEF CommandOK
  <2>8. NoTrace'
    <3>. SUFFICES ASSUME mishaps = 0
                  PROVE  NoTrace'
      BY <1>8 DEF NoTrace
    <3>1. \A q \in Restorers : restore'[q].pc = "done" /\ restore'[q].exit # "ok" =>
              restore'[q].placed = {}
      BY <1>2, <2>1 DEF RecoveryInv, NoTrace, OtherRestores
    <3>2. ASSUME \A q \in Restorers : restore'[q].exit # "ok"
          PROVE  Untouched'
      <4>1. \A q \in Restorers : restore[q].exit # "ok"
        BY <1>2, <2>1, <3>2 DEF OtherRestores
      <4>2. Untouched
        BY <4>1 DEF RecoveryInv, NoTrace
      <4>3. \A x \in Objects : (\A q \in Restorers : x \notin restore'[q].placed) =>
                x = o \/ \A q \in Restorers : x \notin restore[q].placed
        BY <2>1 DEF OtherRestores
      <4>4. \A x \in Objects : (\A q \in Restorers : x \notin restore'[q].placed) =>
                target'.objects[x] \in {"none", "foreign"}
        BY <1>2, <2>3, <4>2, <4>3 DEF Untouched
      <4>5. \A x \in Objects : target'.objects[x] = "foreign" => target.objects[x] = "foreign"
        BY <2>3
      <4>. QED
        BY <1>2, <2>3, <4>2, <4>4, <4>5 DEF Untouched
    <3>. QED
      BY <3>1, <3>2 DEF NoTrace
  <2>9. restore'[r].set \in 0 .. Len(sets)
    BY <1>3, <2>1
  <2>. QED
    BY <1>1, <1>8, <2>1, <2>3, <2>4, <2>5, <2>7, <2>8, <2>9, RestoreComposed
<1>9. \/ restore[r].placed = {} /\ Exits(r, "failed") /\ UNCHANGED <<target, mishaps>>
      \/ \E o \in restore[r].placed :
            \/ /\ target' = [target EXCEPT !.objects[o] = "none"]
               /\ restore' = [restore EXCEPT ![r].placed = @ \ {o}] /\ UNCHANGED mishaps
            \/ /\ mishaps' = mishaps + 1 /\ mishaps' # 0 /\ UNCHANGED target
               /\ \/ restore' = [restore EXCEPT ![r].placed = @ \ {o}]
                  \/ Exits(r, "failed")
  BY <1>2, MishapCounts DEF RemovePlaced, Exits
<1>. QED
  BY <1>4, <1>5, <1>7, <1>8, <1>9

LEMMA ForeignUseKeeps ==
    ASSUME RecoveryInv, NEW o \in Objects, ForeignUse(o)
    PROVE  RecoveryInv'
<1>1. /\ UNCHANGED <<source, backup, sets, restore>> /\ mishaps' = mishaps + 1 /\ mishaps' # 0
      /\ mishaps' \in Nat /\ RecoveryTypeOK /\ target.objects[o] = "none"
      /\ target' = [target EXCEPT !.objects[o] = "foreign"]
  BY MishapCounts DEF ForeignUse, RecoveryInv
<1>2. /\ TargetTyped' /\ UNCHANGED <<target.database, target.refs, target.set>>
      /\ \A y \in Objects : y # o => target'.objects[y] = target.objects[y]
  BY <1>1, ObjectWritten
<1>3. SetsStand /\ Len(sets') \in Nat
  BY <1>1, SetsUnchanged
<1>4. DatabaseStands
  BY <1>1, <1>2 DEF DatabaseStands
<1>5. Distributed => \A r \in Restorers : \A x \in restore[r].placed :
          target'.objects[x] = target.objects[x]
  <2>1. Distributed => \A r \in Restorers : o \notin restore[r].placed
    BY <1>1 DEF RecoveryInv, CommandOK
  <2>. QED
    BY <1>1, <1>2, <2>1, CommandFields
<1>6. \A r \in Restorers : CommandOK(r)'
  BY <1>1, <1>3, <1>4, <1>5, CommandStands
<1>7. RecoveryTypeOK'
  BY <1>1, <1>2 DEF RecoveryTypeOK, TargetTyped
<1>8. /\ BackupOK' /\ (\A i \in 1 .. Len(sets') : SetOK(sets[i])') /\ Disjoint' /\ NoTrace'
  BY <1>1 DEF RecoveryInv, BackupOK, Kept, SetOK, Disjoint, NoTrace
<1>. QED
  BY <1>6, <1>7, <1>8 DEF RecoveryInv


----------------------------------------------------------------------------
(* The service and the backup.                                             *)

LEMMA BackupFields ==
    ASSUME RecoveryTypeOK
    PROVE  /\ backup \in Backup
           /\ Referenced \subseteq Objects /\ Stored \subseteq Objects /\ Kept \subseteq Stored
           /\ Referenced \cap Stored \subseteq Kept
           /\ NoBackup \in Backup /\ NoBackup.pc = "idle" /\ NoBackup.calm /\ NoBackup.copied = {}
BY DEF RecoveryTypeOK, Referenced, Stored, Kept, NoBackup, Backup

\* A step that leaves the sets and the restores alone.
LEMMA BackupComposed ==
    ASSUME RecoveryInv, UNCHANGED <<sets, restore, target>>,
           mishaps' = mishaps \/ mishaps' = mishaps + 1,
           source' \in [Objects -> {"new", "stored", "kept", "deleted", "gone"}],
           backup' \in Backup, BackupOK'
    PROVE  RecoveryInv'
<1>1. SetsStand /\ Len(sets') \in Nat
  BY SetsUnchanged DEF RecoveryInv
<1>2. (\A r \in Restorers : CommandOK(r)') /\ Disjoint' /\ NoTrace'
  BY <1>1, RestoresStand
<1>3. RecoveryTypeOK'
  BY DEF RecoveryInv, RecoveryTypeOK
<1>4. \A i \in 1 .. Len(sets') : SetOK(sets[i])'
  BY DEF RecoveryInv, SetOK
<1>. QED
  BY <1>2, <1>3, <1>4 DEF RecoveryInv

\* A step that changes a set or adds one.
LEMMA SetsComposed ==
    ASSUME RecoveryInv, UNCHANGED <<source, restore, target>>,
           mishaps' = mishaps \/ mishaps' = mishaps + 1, backup' = backup \/ backup' = NoBackup,
           sets' \in Seq(BackupSet), SetsStand, \A i \in 1 .. Len(sets') : SetOK(sets'[i])
    PROVE  RecoveryInv'
<1>1. Len(sets') \in Nat /\ Len(sets) \in Nat
  BY DEF RecoveryInv, RecoveryTypeOK
<1>2. (\A r \in Restorers : CommandOK(r)') /\ Disjoint' /\ NoTrace'
  BY <1>1, RestoresStand
<1>3. RecoveryTypeOK'
  <2>1. backup' \in Backup
    BY BackupFields DEF RecoveryInv
  <2>2. \A r \in Restorers : restore'[r].set \in 0 .. Len(sets')
    BY <1>1 DEF RecoveryInv, RecoveryTypeOK, SetsStand
  <2>. QED
    BY <2>1, <2>2 DEF RecoveryInv, RecoveryTypeOK
<1>4. BackupOK'
  BY DEF RecoveryInv, BackupOK, NoBackup, Kept
<1>5. \A i \in 1 .. Len(sets') : SetOK(sets[i])'
  BY DEF SetOK
<1>. QED
  BY <1>2, <1>3, <1>4, <1>5 DEF RecoveryInv

LEMMA ServiceKeeps ==
    ASSUME RecoveryInv, NEW o \in Objects, ServiceStep(o)
    PROVE  RecoveryInv'
<1>1. RecoveryTypeOK /\ UNCHANGED <<sets, restore, target, mishaps>>
  BY DEF RecoveryInv, ServiceStep
<1>2. PICK next \in {<<"new", "stored">>, <<"stored", "kept">>, <<"kept", "deleted">>,
                     <<"deleted", "gone">>} :
          /\ source[o] = next[1]
          /\ source' = [source EXCEPT ![o] = next[2]]
          /\ backup' = [backup EXCEPT !.calm = @ /\ next[2] # "deleted"]
  BY DEF ServiceStep
<1>3. /\ source' \in [Objects -> {"new", "stored", "kept", "deleted", "gone"}]
      /\ next[2] = "deleted" \/ Kept \subseteq Kept'
  BY <1>1, <1>2 DEF RecoveryTypeOK, Kept
<1>4. /\ backup' \in Backup
      /\ backup'.pc = backup.pc /\ backup'.refs = backup.refs
      /\ backup'.inventory = backup.inventory /\ backup'.copied = backup.copied
      /\ backup'.listed = backup.listed
      /\ backup'.calm => backup.calm /\ next[2] # "deleted"
  <2>1. backup \in Backup
    BY <1>1, BackupFields
  <2>2. PICK calm \in BOOLEAN : calm = (backup.calm /\ next[2] # "deleted")
    OBVIOUS
  <2>3. backup' = [backup EXCEPT !.calm = calm]
    BY <1>2, <2>2
  <2>4. /\ backup' \in Backup /\ backup'.calm = calm
        /\ backup'.pc = backup.pc /\ backup'.refs = backup.refs
        /\ backup'.inventory = backup.inventory /\ backup'.copied = backup.copied
        /\ backup'.listed = backup.listed
    BY <2>1, <2>3 DEF Backup
  <2>. QED
    BY <2>2, <2>4
<1>5. BackupOK'
  BY <1>3, <1>4 DEF RecoveryInv, BackupOK
<1>. QED
  BY <1>1, <1>3, <1>4, <1>5, BackupComposed

LEMMA SnapshotKeeps ==
    ASSUME RecoveryInv, _sqlite_snapshot
    PROVE  RecoveryInv'
<1>1. /\ UNCHANGED <<source, restore, target, sets, mishaps>> /\ RecoveryTypeOK
      /\ backup' = [NoBackup EXCEPT !.pc = "inventory", !.refs = Referenced,
                                    !.calm = Referenced \subseteq Stored]
  BY DEF _sqlite_snapshot, BackupStep, RecoveryInv
<1>2. PICK calm \in BOOLEAN : calm = (Referenced \subseteq Stored)
  OBVIOUS
<1>3. /\ backup' \in Backup /\ backup'.pc = "inventory" /\ backup'.refs = Referenced
      /\ backup'.calm = calm /\ backup'.copied = {}
  BY <1>1, <1>2, BackupFields DEF NoBackup, Backup
<1>4. BackupOK'
  BY <1>1, <1>2, <1>3, BackupFields DEF BackupOK, Kept
<1>. QED
  BY <1>1, <1>3, <1>4, BackupComposed DEF RecoveryTypeOK

LEMMA InventoryKeeps ==
    ASSUME RecoveryInv, _inventory
    PROVE  RecoveryInv'
<1>1. /\ UNCHANGED <<source, restore, target, sets, mishaps>> /\ RecoveryTypeOK
      /\ backup' = [backup EXCEPT !.pc = "copy", !.inventory = Stored]
      /\ backup.pc = "inventory"
  BY DEF _inventory, BackupStep, BackupAt, RecoveryInv
<1>2. /\ backup' \in Backup /\ backup'.pc = "copy" /\ backup'.refs = backup.refs
      /\ backup'.inventory = Stored /\ backup'.copied = backup.copied /\ backup'.calm = backup.calm
  BY <1>1, BackupFields DEF Backup
<1>3. BackupOK'
  BY <1>1, <1>2, BackupFields DEF RecoveryInv, BackupOK, Kept
<1>. QED
  BY <1>1, <1>2, <1>3, BackupComposed DEF RecoveryTypeOK


\* A backup that gives up has left nothing.
LEMMA NoBackupKeeps ==
    ASSUME RecoveryInv, UNCHANGED <<source, sets, restore, target>>,
           mishaps' = mishaps \/ mishaps' = mishaps + 1, backup' = NoBackup
    PROVE  RecoveryInv'
<1>1. BackupOK'
  BY BackupFields DEF RecoveryInv, BackupOK, NoBackup
<1>. QED
  BY <1>1, BackupFields, BackupComposed DEF RecoveryInv, RecoveryTypeOK

LEMMA CopyObjectKeeps ==
    ASSUME RecoveryInv, CopyObject
    PROVE  RecoveryInv'
<1>1. /\ UNCHANGED <<source, restore, target, sets, mishaps>> /\ RecoveryTypeOK
      /\ backup.pc = "copy" /\ backup \in Backup /\ BackupOK
  BY BackupFields DEF CopyObject, BackupStep, BackupAt, RecoveryInv
<1>2. CASE backup' = NoBackup
  BY <1>1, <1>2, NoBackupKeeps
<1>3. CASE backup.copied = backup.inventory /\ backup' = [backup EXCEPT !.pc = "compare"]
  <2>1. /\ backup' \in Backup /\ backup'.pc = "compare" /\ backup'.refs = backup.refs
        /\ backup'.inventory = backup.inventory /\ backup'.copied = backup.copied
        /\ backup'.calm = backup.calm
    BY <1>1, <1>3 DEF Backup
  <2>2. BackupOK'
    BY <1>1, <1>3, <2>1 DEF BackupOK, Kept
  <2>. QED
    BY <1>1, <2>1, <2>2, BackupComposed DEF RecoveryTypeOK
<1>4. ASSUME NEW o \in backup.inventory, backup' = [backup EXCEPT !.copied = @ \cup {o}]
      PROVE  RecoveryInv'
  <2>1. /\ backup' \in Backup /\ backup'.pc = "copy" /\ backup'.refs = backup.refs
        /\ backup'.inventory = backup.inventory /\ backup'.copied = backup.copied \cup {o}
        /\ backup'.calm = backup.calm
    BY <1>1, <1>4 DEF Backup
  <2>2. BackupOK'
    BY <1>1, <1>4, <2>1 DEF BackupOK, Kept
  <2>. QED
    BY <1>1, <2>1, <2>2, BackupComposed DEF RecoveryTypeOK
<1>. QED
  BY <1>2, <1>3, <1>4 DEF CopyObject

LEMMA CompareKeeps ==
    ASSUME RecoveryInv, CompareInventory
    PROVE  RecoveryInv'
<1>1. /\ UNCHANGED <<source, restore, target, sets, mishaps>> /\ RecoveryTypeOK
      /\ backup.pc = "compare" /\ backup \in Backup /\ BackupOK
      /\ backup' = [backup EXCEPT !.pc = "manifest"] \/ backup' = NoBackup
  BY BackupFields DEF CompareInventory, BackupStep, BackupAt, RecoveryInv
<1>2. CASE backup' = NoBackup
  BY <1>1, <1>2, NoBackupKeeps
<1>3. CASE backup' = [backup EXCEPT !.pc = "manifest"]
  <2>1. /\ backup' \in Backup /\ backup'.pc = "manifest" /\ backup'.refs = backup.refs
        /\ backup'.inventory = backup.inventory /\ backup'.copied = backup.copied
        /\ backup'.calm = backup.calm
    BY <1>1, <1>3 DEF Backup
  <2>2. BackupOK'
    BY <1>1, <2>1 DEF BackupOK, Kept
  <2>. QED
    BY <1>1, <2>1, <2>2, BackupComposed DEF RecoveryTypeOK
<1>. QED
  BY <1>1, <1>2, <1>3

LEMMA ManifestKeeps ==
    ASSUME RecoveryInv, write_manifest
    PROVE  RecoveryInv'
<1>1. /\ UNCHANGED <<source, restore, target, sets, mishaps>> /\ RecoveryTypeOK
      /\ backup.pc = "manifest" /\ backup \in Backup /\ BackupOK
      /\ backup' = [backup EXCEPT !.pc = "publish", !.listed = backup.copied,
                                  !.refs = backup.refs]
  BY BackupFields DEF write_manifest, Snapshot, BackupStep, BackupAt, RecoveryInv
<1>2. /\ backup' \in Backup /\ backup'.pc = "publish" /\ backup'.refs = backup.refs
      /\ backup'.inventory = backup.inventory /\ backup'.copied = backup.copied
      /\ backup'.listed = backup.copied /\ backup'.calm = backup.calm
  BY <1>1 DEF Backup
<1>3. BackupOK'
  BY <1>1, <1>2 DEF BackupOK, Kept
<1>. QED
  BY <1>1, <1>2, <1>3, BackupComposed DEF RecoveryTypeOK

\* A set is added to those at the destination.
LEMMA SetAdded ==
    ASSUME RecoveryInv, NEW s \in BackupSet, SetOK(s), sets' = Append(sets, s),
           UNCHANGED <<source, restore, target>>, mishaps' = mishaps \/ mishaps' = mishaps + 1,
           backup' = NoBackup
    PROVE  RecoveryInv'
<1>1. sets \in Seq(BackupSet) /\ Len(sets) \in Nat /\ \A i \in 1 .. Len(sets) : SetOK(sets[i])
  BY DEF RecoveryInv, RecoveryTypeOK
<1>2. /\ sets' \in Seq(BackupSet) /\ Len(sets') = Len(sets) + 1
      /\ \A i \in 1 .. Len(sets) : sets'[i] = sets[i]
      /\ sets'[Len(sets) + 1] = s
  BY <1>1, AppendProperties
<1>3. SetsStand
  BY <1>1, <1>2 DEF SetsStand
<1>4. \A i \in 1 .. Len(sets') : SetOK(sets'[i])
  <2>1. \A i \in 1 .. Len(sets') : i \in 1 .. Len(sets) \/ i = Len(sets) + 1
    BY <1>1, <1>2
  <2>. QED
    BY <1>1, <1>2, <2>1
<1>. QED
  BY <1>2, <1>3, <1>4, SetsComposed

LEMMA SetMade ==
    ASSUME RecoveryTypeOK, NEW named \in BOOLEAN
    PROVE  /\ SetOf(backup, named) \in BackupSet
           /\ SetOf(backup, named).named = named
           /\ SetOf(backup, named).manifest = (backup.pc = "publish")
           /\ SetOf(backup, named).files = backup.copied
           /\ SetOf(backup, named).listed = backup.listed
           /\ SetOf(backup, named).refs = backup.refs
           /\ SetOf(backup, named).calm = backup.calm
<1>1. PICK manifest \in BOOLEAN : manifest = (backup.pc = "publish")
  OBVIOUS
<1>2. SetOf(backup, named) =
          [named |-> named, refs |-> backup.refs, files |-> backup.copied, manifest |-> manifest,
           listed |-> backup.listed, damaged |-> {}, calm |-> backup.calm]
  BY <1>1 DEF SetOf
<1>. QED
  BY <1>1, <1>2, BackupFields DEF Backup, BackupSet

LEMMA PublishKeeps ==
    ASSUME RecoveryInv, PublishSet
    PROVE  RecoveryInv'
<1>1. /\ UNCHANGED <<source, restore, target, mishaps>> /\ RecoveryTypeOK /\ BackupOK
      /\ backup.pc = "publish" /\ sets' = Append(sets, SetOf(backup, TRUE)) /\ backup' = NoBackup
  BY DEF PublishSet, BackupStep, BackupAt, RecoveryInv
<1>2. PICK s \in BackupSet : s = SetOf(backup, TRUE)
  BY <1>1, SetMade
<1>3. SetOK(s)
  BY <1>1, <1>2, SetMade DEF SetOK, BackupOK
<1>. QED
  BY <1>1, <1>2, <1>3, SetAdded

LEMMA BackupCrashesKeeps ==
    ASSUME RecoveryInv, BackupCrashes
    PROVE  RecoveryInv'
<1>1. /\ UNCHANGED <<source, restore, target>> /\ RecoveryTypeOK /\ mishaps' = mishaps + 1
      /\ sets' = Append(sets, SetOf(backup, FALSE)) /\ backup' = NoBackup
  BY MishapCounts DEF BackupCrashes, BackupStep, RecoveryInv
<1>2. PICK s \in BackupSet : s = SetOf(backup, FALSE)
  BY <1>1, SetMade
<1>3. SetOK(s)
  BY <1>1, <1>2, SetMade DEF SetOK
<1>. QED
  BY <1>1, <1>2, <1>3, SetAdded

LEMMA BackupFailsKeeps ==
    ASSUME RecoveryInv, BackupFails
    PROVE  RecoveryInv'
BY MishapCounts, NoBackupKeeps DEF BackupFails, BackupStep, RecoveryInv

\* A set that decays is still the set that was made.
LEMMA DamageKeeps ==
    ASSUME RecoveryInv, NEW i \in 1 .. Len(sets), NEW o \in Objects, DamageFile(i, o)
    PROVE  RecoveryInv'
<1>1. /\ UNCHANGED <<source, backup, restore, target>> /\ mishaps' = mishaps + 1
      /\ sets' = [sets EXCEPT ![i].damaged = @ \cup {o}]
      /\ sets \in Seq(BackupSet) /\ Len(sets) \in Nat /\ \A j \in 1 .. Len(sets) : SetOK(sets[j])
  BY MishapCounts DEF DamageFile, RecoveryInv, RecoveryTypeOK
<1>2. sets[i] \in BackupSet
  BY <1>1
<1>3. PICK s \in BackupSet :
          /\ s = [sets[i] EXCEPT !.damaged = @ \cup {o}]
          /\ s.named = sets[i].named /\ s.refs = sets[i].refs /\ s.files = sets[i].files
          /\ s.manifest = sets[i].manifest /\ s.listed = sets[i].listed
          /\ s.calm = sets[i].calm
  <2>. DEFINE d == [sets[i] EXCEPT !.damaged = @ \cup {o}]
  <2>1. /\ d \in BackupSet
        /\ d.named = sets[i].named /\ d.refs = sets[i].refs /\ d.files = sets[i].files
        /\ d.manifest = sets[i].manifest /\ d.listed = sets[i].listed /\ d.calm = sets[i].calm
    BY <1>2 DEF BackupSet
  <2>. HIDE DEF d
  <2>2. \E s \in BackupSet :
          /\ s = d
          /\ s.named = sets[i].named /\ s.refs = sets[i].refs /\ s.files = sets[i].files
          /\ s.manifest = sets[i].manifest /\ s.listed = sets[i].listed
          /\ s.calm = sets[i].calm
    BY <2>1
  <2>. QED
    BY <2>2 DEF d
<1>4. /\ sets' \in Seq(BackupSet) /\ Len(sets') = Len(sets) /\ sets'[i] = s
      /\ \A j \in 1 .. Len(sets) : j # i => sets'[j] = sets[j]
  <2>1. sets' = [sets EXCEPT ![i] = s]
    BY <1>1, <1>3
  <2>2. /\ [sets EXCEPT ![i] = s] \in Seq(BackupSet)
        /\ Len([sets EXCEPT ![i] = s]) = Len(sets)
        /\ \A j \in 1 .. Len(sets) :
              [sets EXCEPT ![i] = s][j] = IF j = i THEN s ELSE sets[j]
    BY <1>1, ExceptSeq
  <2>. QED
    BY <2>1, <2>2
<1>5. SetsStand
  BY <1>1, <1>3, <1>4 DEF SetsStand
<1>6. \A j \in 1 .. Len(sets') : SetOK(sets'[j])
  BY <1>1, <1>3, <1>4 DEF SetOK
<1>. QED
  BY <1>1, <1>4, <1>5, <1>6, SetsComposed


----------------------------------------------------------------------------
(* The invariant.                                                          *)

LEMMA RecoveryStarts ==
    ASSUME RecoveryInit
    PROVE  RecoveryInv
<1>1. NoRestore \in Restore /\ sets = <<>> /\ restore = [r \in Restorers |-> NoRestore]
  BY DEF RecoveryInit, NoRestore, Restore
<1>2. /\ target \in [database : {"empty", "foreign", "restored"}, refs : SUBSET Objects, set : Nat,
                     objects : [Objects -> {"none", "foreign", "good", "damaged"}]]
      /\ Untouched
  <2>1. CASE target = Empty
    BY <2>1 DEF Empty, Untouched
  <2>2. CASE target = [Empty EXCEPT !.database = "foreign"]
    BY <2>2 DEF Empty, Untouched
  <2>3. ASSUME NEW o \in Objects, target = [Empty EXCEPT !.objects[o] = "foreign"]
        PROVE  /\ target \in [database : {"empty", "foreign", "restored"}, refs : SUBSET Objects,
                              set : Nat, objects : [Objects -> {"none", "foreign", "good", "damaged"}]]
               /\ Untouched
    BY <2>3 DEF Empty, Untouched
  <2>. QED
    BY <2>1, <2>2, <2>3 DEF RecoveryInit, Targets
<1>3. RecoveryTypeOK
  BY <1>1, <1>2, BackupFields DEF RecoveryInit, RecoveryTypeOK, NoRestore, NoBackup, Backup
<1>4. BackupOK
  BY DEF RecoveryInit, BackupOK, NoBackup
<1>5. \A i \in 1 .. Len(sets) : SetOK(sets[i])
  BY <1>1
<1>6. (\A r \in Restorers : CommandOK(r)) /\ Disjoint
  BY <1>1 DEF CommandOK, Disjoint, NoRestore
<1>7. NoTrace
  BY <1>1, <1>2 DEF NoTrace, NoRestore
<1>. QED
  BY <1>3, <1>4, <1>5, <1>6, <1>7 DEF RecoveryInv

LEMMA RecoveryStands ==
    ASSUME RecoveryInv, UNCHANGED recoveryVars
    PROVE  RecoveryInv'
<1>1. UNCHANGED <<source, backup, sets, restore, target, mishaps>>
  BY DEF recoveryVars
<1>. QED
  BY <1>1, BackupComposed DEF RecoveryInv, RecoveryTypeOK, BackupOK, Kept

LEMMA RecoveryStep ==
    ASSUME RecoveryInv, [RecoveryNext]_recoveryVars
    PROVE  RecoveryInv'
<1>1. CASE \E o \in Objects : ServiceStep(o)
  BY <1>1, ServiceKeeps
<1>2. CASE _sqlite_snapshot \/ _inventory \/ CopyObject \/ CompareInventory \/ write_manifest
  BY <1>2, SnapshotKeeps, InventoryKeeps, CopyObjectKeeps, CompareKeeps, ManifestKeeps
<1>3. CASE PublishSet \/ BackupFails \/ BackupCrashes
  BY <1>3, PublishKeeps, BackupFailsKeeps, BackupCrashesKeeps
<1>4. CASE \E i \in 1 .. Len(sets), o \in Objects : DamageFile(i, o)
  BY <1>4, DamageKeeps
<1>5. ASSUME NEW r \in Restorers, \E i \in 1 .. Len(sets) : VerifySet(r, i)
      PROVE  RecoveryInv'
  BY <1>5, VerifySetKeeps
<1>6. ASSUME NEW r \in Restorers,
             VerifyTarget(r) \/ CopyMembers(r) \/ _verify_stable_references_sqlite(r)
                 \/ ReplaceTarget(r)
      PROVE  RecoveryInv'
  BY <1>6, VerifyTargetKeeps, CopyMembersKeeps, ReferencesKeep, ReplaceKeeps
<1>7. ASSUME NEW r \in Restorers, \E o \in Objects : PutObject(r, o)
      PROVE  RecoveryInv'
  BY <1>7, PutKeeps
<1>8. ASSUME NEW r \in Restorers,
             ListRestored(r) \/ RestoreDatabase(r) \/ RemovePlaced(r) \/ RestoreFails(r)
                 \/ RestoreCrashes(r)
      PROVE  RecoveryInv'
  BY <1>8, ListKeeps, RestoreDatabaseKeeps, RemoveKeeps, RestoreFailsKeeps, RestoreCrashesKeeps
<1>9. CASE \E o \in Objects : ForeignUse(o)
  BY <1>9, ForeignUseKeeps
<1>10. CASE CommandsEnded \/ UNCHANGED recoveryVars
  BY <1>10, RecoveryStands DEF CommandsEnded
<1>. QED
  BY <1>1, <1>2, <1>3, <1>4, <1>5, <1>6, <1>7, <1>8, <1>9, <1>10 DEF RecoveryNext

----------------------------------------------------------------------------
(* What the invariant says.                                                *)

\* A successful restore: the digests had been looked at when it was copied or put.
LEMMA SuccessIsComplete ==
    ASSUME RecoveryInv
    PROVE  RestoredIsComplete
<1>. SUFFICES ASSUME NEW r \in Restorers, restore[r].exit = "ok"
              PROVE  /\ target.database = "restored" /\ target.set = restore[r].set
                     /\ target.refs = SetFor(r).refs
                     /\ \A o \in target.refs :
                           \/ target.objects[o] = "good"
                           \/ target.objects[o] = "damaged"
                              /\ o \in restore[r].content \ restore[r].seen
  BY DEF RestoredIsComplete
<1>1. Complete(r) /\ restore[r].seen = {}
  BY DEF RecoveryInv, CommandOK
<1>. QED
  BY <1>1 DEF Complete

\* With nothing placed and no success, the target is one of those it could have been.
LEMMA RefusalLeavesNothing ==
    ASSUME RecoveryInv
    PROVE  NothingLeftBehind
<1>. SUFFICES ASSUME mishaps = 0,
                     \A r \in Restorers : restore[r].pc \in {"idle", "done"}
                                          /\ restore[r].exit # "ok"
              PROVE  target \in Targets
  BY DEF NothingLeftBehind
<1>1. Distributed => \A r \in Restorers : restore[r].placed = {}
  BY DEF RecoveryInv, CommandOK, NoTrace
<1>2. Untouched
  BY DEF RecoveryInv, NoTrace
<1>3. /\ target.database \in {"empty", "foreign"} /\ target.refs = {} /\ target.set = 0
      /\ \A o \in Objects : target.objects[o] \in {"none", "foreign"}
      /\ \A o, x \in Objects : target.objects[o] = "foreign" =>
            /\ target.database = "empty"
            /\ target.objects[x] = "foreign" => o = x
  BY <1>1, <1>2 DEF Untouched
<1>4. /\ target = [database |-> target.database, refs |-> {}, set |-> 0, objects |-> target.objects]
      /\ target.objects = [o \in Objects |-> target.objects[o]]
  BY <1>3, TargetFields DEF RecoveryInv
<1>5. CASE \A o \in Objects : target.objects[o] = "none"
  <2>1. target.objects = [o \in Objects |-> "none"]
    BY <1>4, <1>5
  <2>2. target = Empty \/ target = [Empty EXCEPT !.database = "foreign"]
    BY <1>3, <1>4, <2>1 DEF Empty
  <2>. QED
    BY <2>2 DEF Targets
<1>6. ASSUME NEW x \in Objects, target.objects[x] = "foreign"
      PROVE  target \in Targets
  <2>1. \A o \in Objects : target.objects[o] = IF o = x THEN "foreign" ELSE "none"
    BY <1>3, <1>6
  <2>2. target.objects = [o \in Objects |-> IF o = x THEN "foreign" ELSE "none"]
    BY <1>4, <2>1
  <2>3. target.database = "empty"
    BY <1>3, <1>6
  <2>4. [Empty EXCEPT !.objects[x] = "foreign"] =
            [database |-> "empty", refs |-> {}, set |-> 0,
             objects |-> [o \in Objects |-> IF o = x THEN "foreign" ELSE "none"]]
    <3>1. /\ Empty = [database |-> "empty", refs |-> {}, set |-> 0, objects |-> Empty.objects]
          /\ Empty.objects = [o \in Objects |-> "none"]
      BY DEF Empty
    <3>. HIDE DEF Empty
    <3>2. PICK none : none = Empty.objects
      OBVIOUS
    <3>3. [none EXCEPT ![x] = "foreign"] = [o \in Objects |-> IF o = x THEN "foreign" ELSE "none"]
      BY <3>1, <3>2
    <3>4. [Empty EXCEPT !.objects[x] = "foreign"] =
              [database |-> "empty", refs |-> {}, set |-> 0, objects |-> [none EXCEPT ![x] = "foreign"]]
      BY <3>1, <3>2
    <3>. QED
      BY <3>3, <3>4
  <2>5. target = [Empty EXCEPT !.objects[x] = "foreign"]
    <3>1. target = [database |-> "empty", refs |-> {}, set |-> 0,
                    objects |-> [o \in Objects |-> IF o = x THEN "foreign" ELSE "none"]]
      BY <1>4, <2>2, <2>3
    <3>. QED
      BY <2>4, <3>1, Zenon
  <2>. HIDE DEF Empty
  <2>6. [Empty EXCEPT !.objects[x] = "foreign"]
            \in {[Empty EXCEPT !.objects[o] = "foreign"] : o \in Objects}
    OBVIOUS
  <2>. QED
    BY <2>5, <2>6 DEF Targets
<1>. QED
  BY <1>3, <1>5, <1>6

\* The steps that write to the target: a directory that takes the place of an empty one, an
\* object where there was none, the rows of an empty database, and the removal of an object
\* of one's own.
LEMMA TargetStaysKept ==
    ASSUME RecoveryInv, [RecoveryNext]_recoveryVars
    PROVE  TargetKept
<1>1. RecoveryTypeOK
  BY DEF RecoveryInv
<1>2. UNCHANGED target => TargetKept
  BY DEF TargetKept
<1>3. ASSUME NEW o \in Objects, NEW x \in {"none", "foreign", "good", "damaged"},
             target' = [target EXCEPT !.objects[o] = x], target.objects[o] # "foreign"
      PROVE  TargetKept
  BY <1>1, <1>3, ObjectWritten DEF TargetKept
<1>4. ASSUME NEW r \in Restorers, ReplaceTarget(r)
      PROVE  TargetKept
  <2>1. target = Empty \/ UNCHANGED target
    BY <1>4 DEF ReplaceTarget
  <2>. QED
    BY <1>2, <2>1 DEF Empty, TargetKept
<1>5. ASSUME NEW r \in Restorers, NEW o \in Objects, PutObject(r, o)
      PROVE  TargetKept
  <2>1. \/ UNCHANGED target
        \/ MayPlace(o) /\ target' = [target EXCEPT !.objects[o] = Content(r, o)]
    BY <1>5 DEF PutObject
  <2>2. Content(r, o) \in {"none", "foreign", "good", "damaged"}
    BY DEF Content
  <2>. QED
    BY <1>2, <1>3, <2>1, <2>2 DEF MayPlace
<1>6. ASSUME NEW r \in Restorers, RestoreDatabase(r)
      PROVE  TargetKept
  <2>1. \/ UNCHANGED target
        \/ /\ target.database = "empty"
           /\ target' = [target EXCEPT !.database = "restored", !.refs = SetFor(r).refs,
                                       !.set = restore[r].set]
    BY <1>6 DEF RestoreDatabase
  <2>2. target'.objects = target.objects \/ UNCHANGED target
    BY <1>1, <2>1, TargetFields
  <2>. QED
    BY <1>2, <2>1, <2>2 DEF TargetKept
<1>7. ASSUME NEW r \in Restorers, RemovePlaced(r)
      PROVE  TargetKept
  <2>1. Distributed /\ restore[r].placed \subseteq Objects
    BY <1>1, <1>7, CommandFields DEF RemovePlaced, RestoreAt, RecoveryInv, CommandOK
  <2>2. \A o \in restore[r].placed : target.objects[o] # "foreign"
    BY <2>1 DEF RecoveryInv, CommandOK
  <2>3. \/ UNCHANGED target
        \/ \E o \in restore[r].placed : target' = [target EXCEPT !.objects[o] = "none"]
    BY <1>7 DEF RemovePlaced
  <2>4. ASSUME NEW o \in restore[r].placed, target' = [target EXCEPT !.objects[o] = "none"]
        PROVE  TargetKept
    <3>1. PICK x \in {"none", "foreign", "good", "damaged"} : x = "none"
      OBVIOUS
    <3>2. target' = [target EXCEPT !.objects[o] = x]
      BY <2>4, <3>1
    <3>. QED
      BY <1>3, <2>1, <2>2, <3>2
  <2>. QED
    BY <1>2, <2>3, <2>4
<1>8. ASSUME NEW o \in Objects, ForeignUse(o)
      PROVE  TargetKept
  BY <1>3, <1>8 DEF ForeignUse
<1>9. CASE \/ \E o \in Objects : ServiceStep(o)
           \/ _sqlite_snapshot \/ _inventory \/ CopyObject \/ CompareInventory \/ write_manifest
           \/ PublishSet \/ BackupFails \/ BackupCrashes
           \/ \E i \in 1 .. Len(sets), o \in Objects : DamageFile(i, o)
           \/ CommandsEnded \/ UNCHANGED recoveryVars
  BY <1>2, <1>9
     DEF ServiceStep, _sqlite_snapshot, _inventory, CopyObject, CompareInventory, write_manifest,
         PublishSet, BackupFails, BackupCrashes, BackupStep, DamageFile, CommandsEnded, recoveryVars
<1>10. ASSUME NEW r \in Restorers,
              \/ \E i \in 1 .. Len(sets) : VerifySet(r, i)
              \/ VerifyTarget(r) \/ CopyMembers(r) \/ _verify_stable_references_sqlite(r)
              \/ ListRestored(r) \/ RestoreFails(r) \/ RestoreCrashes(r)
       PROVE  TargetKept
  BY <1>2, <1>10
     DEF VerifySet, VerifyTarget, CopyMembers, _verify_stable_references_sqlite, ListRestored,
         RestoreFails, RestoreCrashes
<1>. QED
  BY <1>4, <1>5, <1>6, <1>7, <1>8, <1>9, <1>10 DEF RecoveryNext

----------------------------------------------------------------------------
(* Theorems.                                                               *)

\* Types: also that a restore command always stands at a set that exists.
THEOREM RecoveryStaysTyped == RecoverySpec => []RecoveryTypeOK
<1>1. RecoveryInit => RecoveryInv
  BY RecoveryStarts
<1>2. RecoveryInv /\ [RecoveryNext]_recoveryVars => RecoveryInv'
  BY RecoveryStep
<1>3. RecoveryInv => RecoveryTypeOK
  BY DEF RecoveryInv
<1>. QED
  BY <1>1, <1>2, <1>3, PTL DEF RecoverySpec

\* RecoveryService.backup: a set that is published has a manifest of exactly its files, and
\* what its database refers to is among them, although the database is copied before the
\* objects are listed and the service goes on storing; unless it also deletes.
THEOREM PublishedStaysRestorable == RecoverySpec => []PublishedRestorable
<1>1. RecoveryInit => RecoveryInv
  BY RecoveryStarts
<1>2. RecoveryInv /\ [RecoveryNext]_recoveryVars => RecoveryInv'
  BY RecoveryStep
<1>3. RecoveryInv => PublishedRestorable
  BY DEF RecoveryInv, SetOK, PublishedRestorable
<1>. QED
  BY <1>1, <1>2, <1>3, PTL DEF RecoverySpec

\* RecoveryService.restore with both adapters: whatever restores meet at one target, one
\* that reports success stays complete, a refused one leaves nothing behind when nothing
\* else fails, and nothing of somebody else is ever replaced or removed.
THEOREM RestoresAreExact == RecoverySpec => RestoreIsExact
<1>1. RecoveryInit => RecoveryInv
  BY RecoveryStarts
<1>2. RecoveryInv /\ [RecoveryNext]_recoveryVars => RecoveryInv'
  BY RecoveryStep
<1>3. RecoveryInv => RestoredIsComplete /\ NothingLeftBehind
  BY SuccessIsComplete, RefusalLeavesNothing
<1>4. RecoveryInv /\ [RecoveryNext]_recoveryVars => [TargetKept]_recoveryVars
  BY TargetStaysKept
<1>. QED
  BY <1>1, <1>2, <1>3, <1>4, PTL DEF RecoverySpec, RestoreIsExact

----------------------------------------------------------------------------
(* The heartbeat of an attempt.  ConversionService takes a heartbeat as one *)
(* step; here the thread that renews the lease and the thread that converts *)
(* go on access by access, for any lease, clock and number of faults.       *)

HeartRow == [owned : BOOLEAN, finished : BOOLEAN, heartbeat_at : Int,
             lease_expires_at : Int, step : Int, progress : Int]

HeartPlaces == {"work", "wait", "lock", "clock", "read", "beat", "resolve", "decide", "publish",
                "verify", "finish", "stop", "join", "end"}

HeartThread == [pc : HeartPlaces, now : Int, step : Int, error : {"none", "lost", "failed"}]

Inside == {"clock", "read", "beat", "decide", "verify", "finish"}

\* What a thread with the lock has read is not older than what the row has.
ThreadOK(x) ==
    /\ thread[x].pc \in Inside => lock = x
    /\ thread[x].pc \in {"read", "beat"} =>
          row.heartbeat_at <= thread[x].now /\ thread[x].now <= clock
    /\ thread[x].pc = "beat" => row.step <= thread[x].step /\ thread[x].step <= progress

SharedOK ==
    /\ clock \in Int /\ row \in HeartRow /\ progress \in Int /\ errors \in BOOLEAN
    /\ row.heartbeat_at <= clock /\ row.step <= progress /\ row.progress <= progress

HeartInv ==
    /\ SharedOK
    /\ thread \in [Threads -> HeartThread]
    /\ \A x \in Threads : ThreadOK(x)
    /\ thread["main"].pc = "finish" => ~errors

LEMMA HeartInitially == Init => HeartInv
<1>. SUFFICES ASSUME Init PROVE HeartInv
  OBVIOUS
<1>1. SharedOK
  <2>1. LeaseSeconds \in Int
    BY HeartbeatAssumption DEF HeartbeatAssumption
  <2>2. row \in HeartRow
    BY <2>1 DEF Init, HeartRow
  <2>3. row.heartbeat_at = 0 /\ row.step = 0 /\ row.progress = 0 /\ clock = 0 /\ progress = 0
    BY DEF Init
  <2>4. errors \in BOOLEAN
    BY DEF Init
  <2>. QED
    BY <2>2, <2>3, <2>4 DEF SharedOK
<1>2. ASSUME NEW x \in Threads
      PROVE  thread[x] \in HeartThread /\ thread[x].pc \in {"work", "wait"}
  <2>1. thread[x] = [pc |-> IF x = "main" THEN "work" ELSE "wait", now |-> 0, step |-> 0,
                     error |-> "none"]
    BY DEF Init
  <2>2. CASE x = "main"
    BY <2>1, <2>2 DEF HeartThread, HeartPlaces
  <2>3. CASE x # "main"
    BY <2>1, <2>3 DEF HeartThread, HeartPlaces
  <2>. QED
    BY <2>2, <2>3
<1>3. DOMAIN thread = Threads /\ thread = [x \in Threads |-> thread[x]]
  BY DEF Init
<1>. QED
  BY <1>1, <1>2, <1>3 DEF HeartInv, ThreadOK, Inside, Threads

\* A step of one thread: what it has to show of itself, and of what it leaves to the other.
LEMMA OneMoves ==
    ASSUME HeartInv, NEW x \in Threads, NEW t \in HeartThread,
           thread' = [thread EXCEPT ![x] = t], SharedOK',
           ThreadOK(x)', lock # x => lock' \in {lock, x} /\ (lock' = lock \/ lock = "free"),
           lock = x \/ row' = row,
           clock' >= clock, progress' >= progress,
           thread'["main"].pc = "finish" => ~errors'
    PROVE  HeartInv'
<1>1. /\ thread \in [Threads -> HeartThread]
      /\ thread' \in [Threads -> HeartThread]
      /\ thread'[x] = t
  BY DEF HeartInv
<1>2. ASSUME NEW y \in Threads, y # x
      PROVE  ThreadOK(y)'
  <2>1. thread'[y] = thread[y] /\ thread[y] \in HeartThread /\ ThreadOK(y)
    BY <1>1, <1>2 DEF HeartInv
  <2>2. thread[y].now \in Int /\ thread[y].step \in Int
    BY <2>1 DEF HeartThread
  <2>3. CASE thread[y].pc \notin Inside
    BY <2>1, <2>3 DEF ThreadOK, Inside
  <2>4. CASE thread[y].pc \in Inside
    <3>1. lock = y /\ y # "free"
      BY <2>1, <2>4 DEF ThreadOK, Threads
    <3>2. lock' = y /\ row' = row
      BY <3>1, <1>2
    <3>. QED
      BY <2>1, <2>2, <3>2 DEF ThreadOK, HeartInv, SharedOK, HeartRow
  <2>. QED
    BY <2>3, <2>4
<1>. QED
  BY <1>1, <1>2 DEF HeartInv

LEMMA OfThread ==
    ASSUME HeartInv, NEW x \in Threads
    PROVE  /\ thread[x] \in HeartThread /\ ThreadOK(x) /\ SharedOK
           /\ thread[x].now \in Int /\ thread[x].step \in Int
           /\ row.heartbeat_at \in Int /\ row.step \in Int /\ row.progress \in Int
           /\ x \in {"main", "keepalive"}
BY DEF HeartInv, HeartThread, SharedOK, HeartRow, Threads

\* What a thread reads or where it goes is written to its own record.
LEMMA OneWrites ==
    ASSUME HeartInv, NEW x \in Threads, NEW t \in HeartThread,
           thread' = [thread EXCEPT ![x] = t]
    PROVE  /\ thread'[x] = t
           /\ x # "main" => thread'["main"] = thread["main"]
           /\ x = "main" => thread'["main"] = t
BY DEF HeartInv, Threads

\* A step that leaves the row and the errors alone.
Quiet == row' = row /\ errors' = errors

LEMMA QuietKeeps ==
    ASSUME HeartInv, Quiet
    PROVE  StepKept /\ ErrorIsFinal
BY DEF Quiet, HeartInv, SharedOK, HeartRow, StepKept, ErrorIsFinal

\* A step that only goes from one place to another, and may take or give back the lock.
LEMMA Went ==
    ASSUME HeartInv, NEW x \in Threads, NEW pc \in HeartPlaces \ {"read", "beat", "finish"},
           Goto(x, pc), Quiet, clock' = clock,
           progress' = progress \/ progress' = progress + 1,
           pc \in Inside => lock' = x,
           lock' = lock \/ (lock = "free" /\ lock' = x) \/ (lock = x /\ lock' = "free")
    PROVE  HeartInv' /\ StepKept /\ ErrorIsFinal
<1>. DEFINE t == [thread[x] EXCEPT !.pc = pc]
<1>1. t \in HeartThread /\ t.pc = pc
  BY OfThread DEF HeartThread
<1>2. thread' = [thread EXCEPT ![x] = t]
  BY DEF Goto
<1>3. SharedOK' /\ progress' >= progress /\ clock' >= clock
  BY DEF SharedOK, HeartInv, HeartRow, Quiet
<1>4. thread'[x].pc = pc
  BY <1>1, <1>2, OneWrites
<1>5. ThreadOK(x)'
  BY <1>4 DEF ThreadOK
<1>6. thread'["main"].pc = "finish" => ~errors'
  BY <1>1, <1>2, OneWrites DEF HeartInv, Quiet
<1>7. HeartInv'
  BY <1>1, <1>2, <1>3, <1>5, <1>6, OneMoves DEF Quiet
<1>. QED
  BY <1>7, QuietKeeps

LEMMA HeartMoves ==
    ASSUME HeartInv, [Next]_(vars)
    PROVE  HeartInv' /\ StepKept /\ ErrorIsFinal
<1>. DEFINE Goes == HeartInv' /\ StepKept /\ ErrorIsFinal
<1>1. ASSUME NEW x \in Threads, Acquire(x) PROVE Goes
  BY <1>1, Went DEF Acquire, HeartPlaces, Quiet
<1>2. KeepaliveDue \/ KeepaliveEnds => Goes
  BY Went DEF KeepaliveDue, KeepaliveEnds, HeartPlaces, Inside, Threads,
              Quiet
<1>3. Report \/ Processed => Goes
  BY Went DEF Report, Processed, HeartPlaces, Inside, Threads,
              Quiet
<1>4. Guard => Goes
  BY Went DEF Guard, HeartPlaces, Inside, Threads,
              Quiet
<1>5. ASSUME GuardRaises \/ Decide PROVE Goes
  <2>1. lock = "main"
    BY <1>5, OfThread DEF GuardRaises, Decide, At, ThreadOK,
                          Inside, Threads
  <2>. QED
    BY <1>5, <2>1, Went DEF GuardRaises, Decide, HeartPlaces, Inside, Threads,
              Quiet
<1>6. SetStop \/ Join => Goes
  BY Went DEF SetStop, Join, HeartPlaces, Inside, Threads,
              Quiet
<1>7. ASSUME FinishFails PROVE Goes
  <2>1. lock = "main"
    BY <1>7, OfThread DEF FinishFails, At, ThreadOK, Inside, Threads
  <2>. QED
    BY <1>7, <2>1, Went DEF FinishFails, HeartPlaces, Inside, Threads,
              Quiet
<1>8. ASSUME NEW x \in Threads, ReadClock(x) PROVE Goes
  <2>. DEFINE t == [thread[x] EXCEPT !.pc = "read", !.now = clock]
  <2>1. t \in HeartThread /\ t.pc = "read" /\ t.now = clock
    BY OfThread DEF HeartThread, SharedOK, HeartPlaces
  <2>2. thread' = [thread EXCEPT ![x] = t] /\ Quiet
    BY <1>8 DEF ReadClock, Quiet
  <2>3. SharedOK' /\ lock = x
    BY <1>8, OfThread DEF ReadClock, At, ThreadOK, Inside, SharedOK
  <2>4. thread'[x] = t /\ (thread'["main"].pc = "finish" => ~errors')
    BY <2>1, <2>2, OneWrites DEF HeartInv, Quiet
  <2>5. ThreadOK(x)'
    <3>1. row' = row /\ clock' = clock /\ lock' = lock
      BY <1>8 DEF ReadClock
    <3>2. row.heartbeat_at <= clock /\ clock \in Int
      BY OfThread DEF SharedOK
    <3>. QED
      BY <2>1, <2>3, <2>4, <3>1, <3>2 DEF ThreadOK
  <2>6. clock' >= clock /\ progress' >= progress /\ lock' = lock
    BY <1>8 DEF ReadClock, HeartInv, SharedOK
  <2>. QED
    BY <2>1, <2>2, <2>3, <2>4, <2>5, <2>6, OneMoves, QuietKeeps
<1>9. ASSUME NEW x \in Threads, ReadProgress(x) PROVE Goes
  <2>. DEFINE t == [thread[x] EXCEPT !.pc = "beat", !.step = progress]
  <2>1. t \in HeartThread /\ t.pc = "beat" /\ t.now = thread[x].now /\ t.step = progress
    BY OfThread DEF HeartThread, SharedOK, HeartPlaces
  <2>2. thread' = [thread EXCEPT ![x] = t] /\ Quiet
    BY <1>9 DEF ReadProgress, Quiet
  <2>3. SharedOK' /\ lock = x
    BY <1>9, OfThread DEF ReadProgress, At, ThreadOK, Inside, SharedOK
  <2>4. thread'[x] = t /\ (thread'["main"].pc = "finish" => ~errors')
    BY <2>1, <2>2, OneWrites DEF HeartInv, Quiet
  <2>5. ThreadOK(x)'
    <3>1. row' = row /\ clock' = clock /\ lock' = lock /\ progress' = progress
      BY <1>9 DEF ReadProgress
    <3>2. row.heartbeat_at <= thread[x].now /\ thread[x].now <= clock
      BY <1>9, OfThread DEF ReadProgress, At, ThreadOK
    <3>3. row.step <= progress /\ progress \in Int
      BY OfThread DEF SharedOK
    <3>. QED
      BY <2>1, <2>3, <2>4, <3>1, <3>2, <3>3 DEF ThreadOK
  <2>6. clock' >= clock /\ progress' >= progress /\ lock' = lock
    BY <1>9 DEF ReadProgress, HeartInv, SharedOK
  <2>. QED
    BY <2>1, <2>2, <2>3, <2>4, <2>5, <2>6, OneMoves, QuietKeeps
<1>10. ASSUME NEW x \in Threads, Beat(x) PROVE Goes
  <2>. DEFINE pc == IF x = "main" THEN "work" ELSE "wait"
              t == [thread[x] EXCEPT !.pc = pc]
  <2>1. t \in HeartThread /\ t.pc = pc /\ pc \in {"work", "wait"}
    BY OfThread DEF HeartThread, HeartPlaces
  <2>2. thread' = [thread EXCEPT ![x] = t]
    BY <1>10 DEF Beat, Resume, Goto
  <2>3. /\ lock = x /\ row.heartbeat_at <= thread[x].now /\ thread[x].now <= clock
        /\ row.step <= thread[x].step /\ thread[x].step <= progress
    BY <1>10, OfThread DEF Beat, At, ThreadOK, Inside
  <2>4. /\ row' \in HeartRow /\ row'.heartbeat_at = thread[x].now /\ row'.step = thread[x].step
        /\ row'.progress = (IF row.progress > thread[x].step
                            THEN row.progress ELSE thread[x].step)
        /\ row'.finished = row.finished
    <3>1. row \in HeartRow /\ thread[x].now \in Int /\ thread[x].step \in Int
      BY OfThread DEF SharedOK
    <3>2. thread[x].now + LeaseSeconds \in Int
      BY <3>1, HeartbeatAssumption DEF HeartbeatAssumption
    <3>. QED
      BY <1>10, <3>1, <3>2 DEF Beat, HeartRow
  <2>5. SharedOK' /\ StepKept /\ ErrorIsFinal
    BY <1>10, <2>3, <2>4, OfThread
       DEF Beat, SharedOK, StepKept, ErrorIsFinal
  <2>6. thread'[x] = t /\ (thread'["main"].pc = "finish" => ~errors')
    BY <1>10, <2>1, <2>2, OneWrites DEF Beat, HeartInv
  <2>7. ThreadOK(x)'
    BY <2>1, <2>6 DEF ThreadOK, Inside
  <2>8. clock' >= clock /\ progress' >= progress
    BY <1>10 DEF Beat, HeartInv, SharedOK
  <2>. QED
    BY <2>1, <2>2, <2>3, <2>5, <2>6, <2>7, <2>8, OneMoves
<1>11. ASSUME NEW x \in Threads, BeatFails(x) PROVE Goes
  <2>. DEFINE pc == IF x = "main" THEN "resolve" ELSE "end"
              t == [thread[x] EXCEPT !.pc = pc,
                                     !.error = IF Accepted(x) THEN "failed" ELSE "lost"]
  <2>1. t \in HeartThread /\ t.pc = pc /\ pc \in {"resolve", "end"}
    BY OfThread DEF HeartThread, HeartPlaces
  <2>2. thread' = [thread EXCEPT ![x] = t]
    BY <1>11 DEF BeatFails
  <2>3. lock = x
    BY <1>11, OfThread DEF BeatFails, At, ThreadOK, Inside
  <2>4. SharedOK' /\ StepKept /\ ErrorIsFinal
    BY <1>11, OfThread DEF BeatFails, SharedOK, StepKept, ErrorIsFinal
  <2>5. thread'[x] = t /\ thread'[x].pc \in {"resolve", "end"}
    BY <2>1, <2>2, OneWrites
  <2>6. ThreadOK(x)'
    BY <2>1, <2>5 DEF ThreadOK, Inside
  <2>7. thread'["main"].pc # "finish"
    <3>1. CASE x = "main"
      BY <2>5, <3>1
    <3>2. CASE x # "main"
      <4>1. thread'["main"] = thread["main"]
        BY <2>1, <2>2, <3>2, OneWrites
      <4>2. lock # "main" /\ "main" \in Threads
        BY <2>3, <3>2 DEF Threads
      <4>. QED
        BY <4>1, <4>2, OfThread DEF ThreadOK, Inside
    <3>. QED
      BY <3>1, <3>2
  <2>8. clock' >= clock /\ progress' >= progress
    BY <1>11 DEF BeatFails, HeartInv, SharedOK
  <2>. QED
    BY <2>1, <2>2, <2>3, <2>4, <2>6, <2>7, <2>8, OneMoves
<1>12. ASSUME ReadFinishClock PROVE Goes
  <2>. DEFINE t == [thread["main"] EXCEPT !.pc = "finish", !.now = clock]
  <2>1. "main" \in Threads
    BY DEF Threads
  <2>2. t \in HeartThread /\ t.pc = "finish"
    BY <2>1, OfThread DEF HeartThread, SharedOK, HeartPlaces
  <2>3. thread' = [thread EXCEPT !["main"] = t] /\ Quiet /\ ~errors
    BY <1>12 DEF ReadFinishClock, Quiet
  <2>4. SharedOK' /\ lock = "main" /\ lock' = lock
    BY <1>12, <2>1, OfThread DEF ReadFinishClock, At, ThreadOK, Inside, SharedOK
  <2>5. ThreadOK("main")'
    BY <2>1, <2>2, <2>3, <2>4, OneWrites DEF ThreadOK
  <2>6. clock' >= clock /\ progress' >= progress
    BY <1>12 DEF ReadFinishClock, HeartInv, SharedOK
  <2>. QED
    BY <2>1, <2>2, <2>3, <2>4, <2>5, <2>6, OneMoves, QuietKeeps DEF Quiet
<1>13. ASSUME Finish PROVE Goes
  <2>. DEFINE t == [thread["main"] EXCEPT !.pc = "stop"]
  <2>1. "main" \in Threads
    BY DEF Threads
  <2>2. t \in HeartThread /\ t.pc = "stop"
    BY <2>1, OfThread DEF HeartThread, HeartPlaces
  <2>3. thread' = [thread EXCEPT !["main"] = t] /\ ~errors
    BY <1>13 DEF Finish, Goto, At, HeartInv
  <2>4. /\ row' \in HeartRow /\ row'.heartbeat_at = row.heartbeat_at /\ row'.step = row.step
        /\ row'.progress = row.progress
    BY <1>13, <2>1, OfThread DEF Finish, SharedOK, HeartRow
  <2>5. SharedOK' /\ StepKept /\ ErrorIsFinal
    <3>1. clock' = clock /\ progress' = progress /\ errors' = errors
      BY <1>13 DEF Finish
    <3>2. SharedOK /\ row.step \in Int /\ row.progress \in Int
      BY <2>1, OfThread
    <3>. QED
      BY <2>3, <2>4, <3>1, <3>2 DEF SharedOK, StepKept, ErrorIsFinal
  <2>8. lock = "main"
    BY <1>13, <2>1, OfThread DEF Finish, At, ThreadOK, Inside
  <2>6. ThreadOK("main")' /\ thread'["main"].pc # "finish"
    BY <2>1, <2>2, <2>3, OneWrites DEF ThreadOK, Inside
  <2>7. clock' >= clock /\ progress' >= progress
    BY <1>13 DEF Finish, HeartInv, SharedOK
  <2>. QED
    BY <2>1, <2>2, <2>3, <2>5, <2>6, <2>7, <2>8, OneMoves
<1>14. ASSUME Recover PROVE Goes
  <2>1. /\ row' \in HeartRow /\ row'.heartbeat_at = row.heartbeat_at /\ row'.step = row.step
        /\ row'.progress = row.progress /\ row'.finished = row.finished
    BY <1>14 DEF Recover, HeartInv, SharedOK, HeartRow
  <2>. QED
    BY <1>14, <2>1 DEF Recover, HeartInv, SharedOK, HeartRow, ThreadOK,
                       StepKept, ErrorIsFinal
<1>15. ASSUME Tick PROVE Goes
  <2>1. Quiet /\ SharedOK' /\ clock' = clock + 1 /\ clock \in Int
    BY <1>15 DEF Tick, Quiet, HeartInv, SharedOK, HeartRow
  <2>2. ASSUME NEW x \in Threads PROVE ThreadOK(x)'
    BY <1>15, <2>1, OfThread DEF Tick, ThreadOK
  <2>. QED
    BY <1>15, <2>1, <2>2, QuietKeeps DEF Tick, HeartInv
<1>16. ASSUME UNCHANGED vars PROVE Goes
  BY <1>16, QuietKeeps DEF vars, Quiet, HeartInv, SharedOK, ThreadOK
<1>. QED
  BY <1>1, <1>2, <1>3, <1>4, <1>5, <1>6, <1>7, <1>8, <1>9, <1>10, <1>11, <1>12, <1>13, <1>14,
     <1>15, <1>16
     DEF Next, Keepalive, Main, Heartbeat, Threads,
         Returned

\* Where a thread goes, it keeps to its type.
LEMMA HeartGoto ==
    ASSUME TypeOK, NEW x \in Threads,
           NEW pc \in {"work", "wait", "lock", "clock", "read", "beat", "resolve",
                       "decide", "publish", "verify", "finish", "stop", "join", "end"}
    PROVE  Goto(x, pc) => thread' \in [Threads -> Thread]
<1>1. [thread[x] EXCEPT !.pc = pc] \in Thread
  BY DEF TypeOK, Thread
<1>. QED
  BY <1>1 DEF Goto, TypeOK

LEMMA HeartTyped == TypeOK /\ [Next]_vars => TypeOK'
<1>. SUFFICES ASSUME TypeOK, [Next]_vars PROVE TypeOK'
  OBVIOUS
<1>. DEFINE Ranges == /\ clock' \in 0 .. MaxClock /\ row' \in Row /\ progress' \in 0 .. Steps
                      /\ lock' \in Threads \cup {"free"} /\ faults' \in 0 .. MaxFaults
                      /\ thread' \in [Threads -> Thread]
            Flags == stop' \in BOOLEAN /\ errors' \in BOOLEAN
<1>1. ASSUME NEW x \in Threads, Acquire(x) PROVE Ranges
  BY <1>1, HeartGoto DEF Acquire, TypeOK
<1>2. KeepaliveDue \/ KeepaliveEnds => Ranges
  BY HeartGoto DEF KeepaliveDue, KeepaliveEnds, TypeOK, Threads
<1>3. ASSUME Report \/ Processed PROVE Ranges
  <2>1. thread' \in [Threads -> Thread]
    BY <1>3, HeartGoto DEF Report, Processed, Threads
  <2>2. progress' \in 0 .. Steps
    BY <1>3, HeartbeatAssumption DEF Report, Processed, TypeOK
  <2>. QED
    BY <1>3, <2>1, <2>2 DEF Report, Processed, TypeOK
<1>4. Guard => Ranges
  BY HeartGoto DEF Guard, TypeOK, Threads
<1>5. GuardRaises => Ranges
  BY HeartGoto DEF GuardRaises, TypeOK, Threads
<1>6. Decide => Ranges
  BY HeartGoto DEF Decide, TypeOK, Threads
<1>7. SetStop \/ Join => Ranges
  BY HeartGoto DEF SetStop, Join, TypeOK, Threads
<1>8. ASSUME FinishFails PROVE Ranges
  <2>1. thread' \in [Threads -> Thread]
    BY <1>8, HeartGoto DEF FinishFails, Threads
  <2>2. faults' \in 0 .. MaxFaults
    BY <1>8, HeartbeatAssumption DEF FinishFails, TypeOK
  <2>. QED
    BY <1>8, <2>1, <2>2 DEF FinishFails, TypeOK, Threads
<1>9. ASSUME NEW x \in Threads, ReadClock(x) PROVE Ranges
  <2>1. clock \in Int
    BY HeartbeatAssumption DEF TypeOK
  <2>2. [thread[x] EXCEPT !.pc = "read", !.now = clock] \in Thread
    BY <2>1 DEF TypeOK, Thread
  <2>. QED
    BY <1>9, <2>2 DEF ReadClock, TypeOK
<1>10. ASSUME NEW x \in Threads, ReadProgress(x) PROVE Ranges
  <2>1. [thread[x] EXCEPT !.pc = "beat", !.step = progress] \in Thread
    BY DEF TypeOK, Thread
  <2>. QED
    BY <1>10, <2>1 DEF ReadProgress, TypeOK
<1>11. ASSUME NEW x \in Threads, Beat(x) PROVE Ranges
  <2>1. thread[x] \in Thread /\ thread[x].now \in Int /\ thread[x].step \in 0 .. Steps
    BY DEF TypeOK, Thread
  <2>2. thread[x].now + LeaseSeconds \in Int
    BY <2>1, HeartbeatAssumption
  <2>3. row' \in Row
    BY <1>11, <2>1, <2>2 DEF Beat, TypeOK, Row
  <2>4. thread' \in [Threads -> Thread]
    BY <1>11, HeartGoto DEF Beat, Resume
  <2>. QED
    BY <1>11, <2>3, <2>4 DEF Beat, TypeOK
<1>12. ASSUME NEW x \in Threads, BeatFails(x) PROVE Ranges
  <2>1. [thread[x] EXCEPT !.pc = IF x = "main" THEN "resolve" ELSE "end",
                          !.error = IF Accepted(x) THEN "failed" ELSE "lost"] \in Thread
    BY DEF TypeOK, Thread
  <2>2. faults' \in 0 .. MaxFaults
    BY <1>12, HeartbeatAssumption DEF BeatFails, TypeOK
  <2>. QED
    BY <1>12, <2>1, <2>2 DEF BeatFails, TypeOK
<1>13. ASSUME ReadFinishClock PROVE Ranges
  <2>1. clock \in Int /\ "main" \in Threads
    BY HeartbeatAssumption DEF TypeOK, Threads
  <2>2. [thread["main"] EXCEPT !.pc = "finish", !.now = clock] \in Thread
    BY <2>1 DEF TypeOK, Thread
  <2>. QED
    BY <1>13, <2>1, <2>2 DEF ReadFinishClock, TypeOK
<1>14. ASSUME Finish PROVE Ranges
  <2>1. thread' \in [Threads -> Thread]
    BY <1>14, HeartGoto DEF Finish, Threads
  <2>2. row' \in Row
    BY <1>14 DEF Finish, TypeOK, Row
  <2>. QED
    BY <1>14, <2>1, <2>2 DEF Finish, TypeOK
<1>15. Recover => Ranges
  BY DEF Recover, TypeOK, Row
<1>16. Tick => Ranges
  BY HeartbeatAssumption DEF Tick, TypeOK
<1>17. UNCHANGED vars => Ranges
  BY DEF vars, TypeOK
<1>18. Ranges
  BY <1>1, <1>2, <1>3, <1>4, <1>5, <1>6, <1>7, <1>8, <1>9, <1>10, <1>11, <1>12, <1>13, <1>14,
     <1>15, <1>16, <1>17
     DEF Next, Keepalive, Main, Heartbeat, Threads, Returned
<1>19. Flags
  <2>1. stop \in BOOLEAN /\ errors \in BOOLEAN
    BY DEF TypeOK
  <2>2. stop' = stop \/ stop' = TRUE
    BY DEF Next, Keepalive, Main, Heartbeat, Acquire, ReadClock, ReadProgress, Beat, BeatFails,
           KeepaliveDue, KeepaliveEnds, Report, Processed, Guard, GuardRaises, Decide,
           ReadFinishClock, Finish, FinishFails, SetStop, Join, Recover, Tick, Returned, vars
  <2>3. errors' = errors \/ (\E x \in Threads : errors' = (errors \/ x = "keepalive"))
    BY Zenon DEF Next, Keepalive, Main, Heartbeat, Acquire, ReadClock, ReadProgress, Beat, BeatFails,
           KeepaliveDue, KeepaliveEnds, Report, Processed, Guard, GuardRaises, Decide,
           ReadFinishClock, Finish, FinishFails, SetStop, Join, Recover, Tick, Returned, vars,
           Threads
  <2>. QED
    BY <2>1, <2>2, <2>3, Zenon
<1>. QED
  BY <1>18, <1>19 DEF TypeOK

LEMMA HeartTypedAtFirst == Init => TypeOK
<1>. SUFFICES ASSUME Init PROVE TypeOK
  OBVIOUS
<1>1. row \in Row
  <2>1. LeaseSeconds \in Int /\ 0 \in 0 .. Steps /\ 0 \in Int
    BY HeartbeatAssumption
  <2>. QED
    BY <2>1 DEF Init, Row
<1>2. ASSUME NEW x \in Threads PROVE thread[x] \in Thread
  <2>1. 0 \in 0 .. Steps /\ 0 \in Int
    BY HeartbeatAssumption
  <2>2. thread[x] = [pc |-> IF x = "main" THEN "work" ELSE "wait", now |-> 0, step |-> 0,
                     error |-> "none"]
    BY DEF Init
  <2>. QED
    BY <2>1, <2>2 DEF Thread
<1>3. thread \in [Threads -> Thread]
  BY <1>2 DEF Init
<1>4. stop \in BOOLEAN /\ errors \in BOOLEAN
  BY Zenon DEF Init
<1>5. clock \in 0 .. MaxClock /\ progress \in 0 .. Steps /\ faults \in 0 .. MaxFaults
      /\ lock \in Threads \cup {"free"}
  BY HeartbeatAssumption DEF Init
<1>. QED
  BY <1>1, <1>3, <1>4, <1>5 DEF TypeOK

\* Neither the thread that renews the lease nor the thread that converts refuses the other
\* a heartbeat for an older clock reading, overwrites a later step with an earlier one, or
\* finishes the job after an error was recorded (jobs/worker_execution.py).
THEOREM ThreadsStayAgreed == Spec => ThreadsAgree
<1>1. HeartInv => ReadingsOrdered
  BY DEF HeartInv, ThreadOK, ReadingsOrdered, At
<1>2. Spec => []HeartInv
  BY HeartInitially, HeartMoves, PTL DEF Spec
<1>3. Spec => []TypeOK
  BY HeartTypedAtFirst, HeartTyped, PTL DEF Spec
<1>4. HeartInv /\ [Next]_(vars) =>
         [StepKept /\ ErrorIsFinal]_(vars)
  BY HeartMoves
<1>. QED
  BY <1>1, <1>2, <1>3, <1>4, PTL DEF Spec, ThreadsAgree

----------------------------------------------------------------------------
(* The sessions of the command line: any number of commands, in processes   *)
(* of their own, share one profile.                                         *)

Pcs == {"idle", "ask", "save", "undo", "delete", "forget", "renew", "change", "withdraw",
        "remove", "changed"}

Command == [command : Commands \cup {"none"}, pc : Pcs, held : Nat, new : Nat,
            exit : {"none", "ok"}]

\* Holds, of what the command is about to become.
HeldBy(c, s) == c.pc \in {"save", "undo", "change", "withdraw"} /\ c.new = s

\* The session that the command was run with has ended.
HeldEnded(c) ==
    \/ c.pc \in {"save", "delete", "forget", "changed"}
    \/ c.pc = "idle" /\ c.exit = "ok" /\ c.command \in {"login", "logout"}

\* The account's sessions have ended.
AllEnded(c) ==
    c.pc = "changed" \/ (c.pc = "idle" /\ c.exit = "ok" /\ c.command = "change_password")

SessionOK(c, known, alive) ==
    /\ c.held <= known /\ c.new <= known
    /\ HeldEnded(c) => c.held \notin alive
    /\ AllEnded(c) => \A s \in alive : c.new < s

NumbersOK ==
    /\ created \in 0 .. MaxSessions /\ profile \in 0 .. created /\ live \subseteq 1 .. created
    /\ left \in [1 .. MaxSessions -> Windows \cup {"nowhere"}]

SessionsInv ==
    /\ NumbersOK
    /\ process \in [Processes -> Command]
    /\ \A p \in Processes : SessionOK(process[p], created, live)
    /\ NoSessionForgotten

LEMMA SessionsInitially == SessionInit => SessionsInv
BY SessionAssumption
   DEF SessionAssumption, SessionInit, SessionsInv, NumbersOK, SessionOK, HeldEnded, AllEnded,
       NoSessionForgotten, Command, Pcs, Idle, Windows

LEMMA SessionsSound == SessionsInv => SessionsKept
BY DEF SessionsInv, SessionOK, HeldEnded, AllEnded, SessionsKept, SignedOut, Reported, Runs

\* A command that becomes c. A session that is alive after the step is new, or it was in
\* nobody's hands before, or the command accounts for it.
LEMMA SessionMoves ==
    ASSUME SessionsInv, NEW p \in Processes, NEW c \in Command,
           process' = [process EXCEPT ![p] = c],
           NumbersOK', created' >= created, live' \subseteq live \cup {created + 1},
           SessionOK(c, created', live'),
           \A s \in live' : \/ s = profile' \/ HeldBy(c, s) \/ left'[s] \in Windows
                            \/ s \in live /\ s # profile /\ ~HeldBy(process[p], s),
           \A s \in 1 .. MaxSessions : left[s] \in Windows => left'[s] \in Windows
    PROVE  SessionsInv'
<1>1. /\ process' \in [Processes -> Command] /\ process'[p] = c
      /\ \A q \in Processes \ {p} : process'[q] = process[q]
  BY DEF SessionsInv
<1>2. ASSUME NEW q \in Processes PROVE SessionOK(process'[q], created', live')
  <2>1. /\ SessionOK(process[q], created, live) /\ process[q] \in Command
        /\ created \in Nat /\ created' \in Nat /\ live \subseteq 1 .. created
    BY DEF SessionsInv, NumbersOK
  <2>2. process[q].held \in Nat /\ process[q].new \in Nat
    BY <2>1 DEF Command
  <2>3. SessionOK(process[q], created', live')
    BY <2>1, <2>2 DEF SessionOK
  <2>. QED
    BY <1>1, <2>3
<1>3. NoSessionForgotten'
  <2>. SUFFICES ASSUME NEW s \in live'
                PROVE  \/ s = profile' \/ left'[s] \in Windows
                       \/ \E q \in Processes : HeldBy(process'[q], s)
    BY DEF NoSessionForgotten, Holds, HeldBy
  <2>1. CASE s \in live /\ s # profile /\ ~HeldBy(process[p], s)
    <3>1. left[s] \in Windows \/ \E q \in Processes : HeldBy(process[q], s)
      BY <2>1 DEF SessionsInv, NoSessionForgotten, Holds, HeldBy
    <3>2. s \in 1 .. MaxSessions
      BY <2>1, SessionAssumption DEF SessionsInv, NumbersOK, SessionAssumption
    <3>3. CASE left[s] \in Windows
      BY <3>2, <3>3
    <3>4. ASSUME NEW q \in Processes, HeldBy(process[q], s)
          PROVE  HeldBy(process'[q], s)
      BY <1>1, <2>1, <3>4
    <3>. QED
      BY <3>1, <3>3, <3>4
  <2>2. CASE s = profile' \/ HeldBy(c, s) \/ left'[s] \in Windows
    BY <1>1, <2>2
  <2>. QED
    BY <2>1, <2>2
<1>. QED
  BY <1>1, <1>2, <1>3 DEF SessionsInv

LEMMA OfCommand ==
    ASSUME SessionsInv, NEW p \in Processes
    PROVE  /\ process[p] \in Command /\ SessionOK(process[p], created, live)
           /\ process[p].held \in Nat /\ process[p].new \in Nat
           /\ NumbersOK /\ created \in Nat /\ created <= MaxSessions /\ MaxSessions \in Nat
BY SessionAssumption DEF SessionsInv, NumbersOK, Command, SessionAssumption

LEMMA Leaving ==
    ASSUME NumbersOK, NEW s, NEW w \in Windows, Leave(s, w) \/ UNCHANGED left
    PROVE  /\ left' \in [1 .. MaxSessions -> Windows \cup {"nowhere"}]
           /\ \A t \in 1 .. MaxSessions : left[t] \in Windows => left'[t] \in Windows
           /\ Leave(s, w) /\ s \in 1 .. MaxSessions => left'[s] \in Windows
BY DEF NumbersOK, Leave

\* A step of a command that makes no session and leaves the profile alone: what it held it
\* still holds, or it has ended it, or left it in a window.
LEMMA Onward ==
    ASSUME SessionsInv, NEW p \in Processes, NEW c \in Command, NEW w \in Windows, NEW t,
           process' = [process EXCEPT ![p] = c], UNCHANGED <<profile, created>>,
           live' \subseteq live, c.held = 0 \/ c.held = process[p].held,
           c.new = 0 \/ c.new = process[p].new,
           HeldEnded(c) => c.held \notin live', AllEnded(c) => live' = {},
           \/ UNCHANGED left
              /\ \A s \in live' : HeldBy(process[p], s) => HeldBy(c, s)
           \/ Leave(t, w) /\ t = process[p].new
    PROVE  SessionsInv'
<1>1. /\ NumbersOK' /\ created' >= created /\ live' \subseteq live \cup {created + 1}
      /\ \A s \in 1 .. MaxSessions : left[s] \in Windows => left'[s] \in Windows
      /\ live' \subseteq 1 .. MaxSessions
      /\ Leave(t, w) /\ t \in 1 .. MaxSessions => left'[t] \in Windows
  BY OfCommand, Leaving DEF NumbersOK
<1>2. SessionOK(c, created', live')
  BY OfCommand DEF SessionOK, NumbersOK
<1>3. \A s \in live' : \/ s = profile' \/ HeldBy(c, s) \/ left'[s] \in Windows
                       \/ s \in live /\ s # profile /\ ~HeldBy(process[p], s)
  BY <1>1 DEF HeldBy
<1>. QED
  BY <1>1, <1>2, <1>3, SessionMoves

\* The same, for a step that removes the profile.
LEMMA ProfileGoes ==
    ASSUME SessionsInv, NEW p \in Processes, NEW c \in Command, NEW w \in Windows,
           process' = [process EXCEPT ![p] = c], UNCHANGED <<created, live>>, profile' = 0,
           c.held \in {0, process[p].held}, c.new \in {0, process[p].new},
           HeldEnded(c) => HeldEnded(process[p]), AllEnded(c) => AllEnded(process[p]),
           process[p].pc \in {"delete", "forget", "remove", "changed"},
           \/ UNCHANGED left /\ profile \notin live
           \/ Leave(profile, w)
    PROVE  SessionsInv'
<1>1. /\ NumbersOK' /\ created' >= created /\ live' \subseteq live \cup {created + 1}
      /\ \A s \in 1 .. MaxSessions : left[s] \in Windows => left'[s] \in Windows
      /\ live' \subseteq 1 .. MaxSessions
      /\ Leave(profile, w) /\ profile \in 1 .. MaxSessions => left'[profile] \in Windows
  BY OfCommand, Leaving DEF NumbersOK
<1>2. SessionOK(c, created', live')
  <2>1. 0 \notin live /\ (AllEnded(c) => c.new < created + 1)
    BY OfCommand DEF NumbersOK, SessionOK
  <2>2. \A s \in live : s \in Nat /\ 0 < s
    BY OfCommand DEF NumbersOK
  <2>. QED
    BY <2>1, <2>2, OfCommand DEF SessionOK
<1>3. \A s \in live' : \/ s = profile' \/ HeldBy(c, s) \/ left'[s] \in Windows
                       \/ s \in live /\ s # profile /\ ~HeldBy(process[p], s)
  BY <1>1 DEF HeldBy
<1>. QED
  BY <1>1, <1>2, <1>3, SessionMoves

\* What a command is after its end.
After(c, exit) == IF exit = "ok" THEN [c EXCEPT !.pc = "idle", !.exit = "ok"] ELSE Idle

LEMMA AtEnd ==
    ASSUME SessionsInv, NEW p \in Processes, NEW exit, NEW c, c = After(process[p], exit),
           Exit(p, exit)
    PROVE  /\ c \in Command /\ process' = [process EXCEPT ![p] = c] /\ c.pc = "idle"
           /\ exit = "ok" => /\ c.exit = "ok" /\ c.command = process[p].command
                             /\ c.held = process[p].held /\ c.new = process[p].new
           /\ exit # "ok" => c = Idle
           /\ c.held \in {0, process[p].held} /\ c.new \in {0, process[p].new}
<1>1. process' = [process EXCEPT ![p] = c]
  BY DEF Exit, After, SessionsInv
<1>2. CASE exit = "ok"
  <2>1. c = [process[p] EXCEPT !.pc = "idle", !.exit = "ok"]
    BY <1>2 DEF After
  <2>. QED
    BY <1>1, <1>2, <2>1, OfCommand DEF Command, Pcs
<1>3. CASE exit # "ok"
  <2>1. c = Idle
    BY <1>3 DEF After
  <2>. QED
    BY <1>1, <1>3, <2>1 DEF Idle, Command, Pcs
<1>. QED
  BY <1>2, <1>3

LEMMA IdleHolds == HeldEnded(Idle) = FALSE /\ AllEnded(Idle) = FALSE
BY DEF HeldEnded, AllEnded, Idle

LEMMA RunStep ==
    ASSUME SessionsInv, NEW p \in Processes, NEW name \in Commands, Run(p, name)
    PROVE  SessionsInv'
<1>. DEFINE c == IF name # "login" /\ profile = 0 THEN Idle
                 ELSE [Idle EXCEPT !.command = name, !.pc = "ask", !.held = profile]
<1>1. /\ process[p].pc = "idle" /\ process' = [process EXCEPT ![p] = c]
      /\ UNCHANGED <<profile, live, created, left>>
  BY DEF Run
<1>2. c \in Command
  <2>1. Idle \in Command /\ profile \in Nat
    BY OfCommand DEF Command, Pcs, Idle, NumbersOK
  <2>2. [Idle EXCEPT !.command = name, !.pc = "ask", !.held = profile] \in Command
    BY <2>1 DEF Command, Pcs
  <2>. QED
    BY <2>1, <2>2
<1>3. NumbersOK' /\ created' >= created /\ live' \subseteq live \cup {created + 1}
  BY <1>1, OfCommand DEF NumbersOK
<1>4. SessionOK(c, created', live')
  BY <1>1, OfCommand, IdleHolds DEF SessionOK, NumbersOK, HeldEnded, AllEnded, Idle
<1>5. \A s \in live' : s = profile' \/ (s \in live /\ s # profile /\ ~HeldBy(process[p], s))
  BY <1>1 DEF HeldBy
<1>6. \A s \in 1 .. MaxSessions : left[s] \in Windows => left'[s] \in Windows
  BY <1>1
<1>. HIDE DEF c
<1>. QED
  BY <1>1, <1>2, <1>3, <1>4, <1>5, <1>6, SessionMoves

\* A command whose process ends, for whatever reason: it has ended the session that was in
\* its hands, or it leaves it.
LEMMA EndsStep ==
    ASSUME SessionsInv, NEW p \in Processes, NEW exit, exit # "ok", Exit(p, exit),
           UNCHANGED <<profile, created>>, live' \subseteq live, NEW w \in Windows,
           \/ UNCHANGED left /\ (\A s \in live' : ~HeldBy(process[p], s))
           \/ Leave(process[p].new, w)
    PROVE  SessionsInv'
<1>. DEFINE c == After(process[p], exit)
<1>1. c \in Command /\ process' = [process EXCEPT ![p] = c] /\ c = Idle
  <2>. HIDE DEF c
  <2>1. c = After(process[p], exit)
    BY DEF c
  <2>. QED
    BY <2>1, AtEnd
<1>. HIDE DEF c
<1>2. /\ c.held = 0 /\ c.new = 0 /\ ~HeldEnded(c) /\ ~AllEnded(c)
  BY <1>1, IdleHolds DEF Idle
<1>3. \/ UNCHANGED left /\ \A s \in live' : HeldBy(process[p], s) => HeldBy(c, s)
      \/ Leave(process[p].new, w)
  OBVIOUS
<1>. DEFINE t == process[p].new
<1>4. \/ UNCHANGED left /\ \A s \in live' : HeldBy(process[p], s) => HeldBy(c, s)
      \/ Leave(t, w) /\ t = process[p].new
  BY <1>3
<1>. HIDE DEF t
<1>. QED
  BY <1>1, <1>2, <1>4, Onward

\* A command that goes on to another place, with what it held.
LEMMA GoesOnStep ==
    ASSUME SessionsInv, NEW p \in Processes, NEW pc \in Pcs, To(p, pc), pc # "idle",
           UNCHANGED <<profile, created>>, live' \subseteq live, NEW w \in Windows,
           pc \in {"save", "delete", "forget", "changed"} => process[p].held \notin live',
           pc = "changed" => live' = {},
           \/ UNCHANGED left /\ (\A s \in live' : HeldBy(process[p], s) =>
                                     pc \in {"save", "undo", "change", "withdraw"})
           \/ Leave(process[p].new, w)
    PROVE  SessionsInv'
<1>. DEFINE c == [process[p] EXCEPT !.pc = pc]
<1>1. c \in Command /\ process' = [process EXCEPT ![p] = c]
  BY OfCommand DEF Command, To, SessionsInv
<1>2. /\ c.held = process[p].held /\ c.new = process[p].new /\ c.pc = pc
  BY OfCommand DEF Command
<1>3. HeldEnded(c) => c.held \notin live'
  BY <1>2 DEF HeldEnded
<1>4. AllEnded(c) => live' = {}
  BY <1>2 DEF AllEnded
<1>5. \A s \in live' : HeldBy(process[p], s) /\ pc \in {"save", "undo", "change", "withdraw"}
                          => HeldBy(c, s)
  BY <1>2 DEF HeldBy
<1>. HIDE DEF c
<1>. DEFINE t == process[p].new
<1>6. \/ UNCHANGED left /\ \A s \in live' : HeldBy(process[p], s) => HeldBy(c, s)
      \/ Leave(t, w) /\ t = process[p].new
  BY <1>5
<1>. HIDE DEF t
<1>. QED
  BY <1>1, <1>2, <1>3, <1>4, <1>6, Onward

LEMMA DeleteStep ==
    ASSUME SessionsInv, NEW p \in Processes, NEW exit, delete(p, exit),
           process[p].pc \in {"delete", "forget", "changed"},
           exit = "ok" => \/ process[p].pc = "delete" /\ process[p].command = "logout"
                          \/ process[p].pc = "changed" /\ process[p].command = "change_password",
           UNCHANGED <<created, live>>
    PROVE  SessionsInv'
<1>1. process[p].held \notin live /\ "beside" \in Windows
  BY OfCommand DEF SessionOK, HeldEnded, Windows
<1>2. \A s \in live : ~HeldBy(process[p], s)
  BY DEF HeldBy
<1>3. CASE profile' = 0 /\ Displace(p) /\ Exit(p, exit)
  <2>. DEFINE c == After(process[p], exit)
  <2>0. c = After(process[p], exit) /\ Exit(p, exit)
    BY <1>3
  <2>. HIDE DEF c
  <2>1. /\ c \in Command /\ process' = [process EXCEPT ![p] = c] /\ c.pc = "idle"
        /\ exit = "ok" => c.exit = "ok" /\ c.command = process[p].command
        /\ exit # "ok" => c = Idle
        /\ c.held \in {0, process[p].held} /\ c.new \in {0, process[p].new}
    BY <2>0, AtEnd
  <2>2. HeldEnded(c) => HeldEnded(process[p])
    BY <2>1, IdleHolds DEF HeldEnded
  <2>3. AllEnded(c) => AllEnded(process[p])
    BY <2>1, IdleHolds DEF AllEnded
  <2>4. (UNCHANGED left /\ profile \notin live) \/ Leave(profile, "beside")
    BY <1>1, <1>3 DEF Displace
  <2>. QED
    BY <1>1, <1>3, <2>1, <2>2, <2>3, <2>4, ProfileGoes
<1>4. CASE Exit(p, "failed") /\ UNCHANGED <<profile, left>>
  BY <1>1, <1>2, <1>4, EndsStep
<1>. QED
  BY <1>3, <1>4 DEF delete

\* The new profile holds the new session, and the old one holds nothing that is alive and
\* not left.
LEMMA SaveStep ==
    ASSUME SessionsInv, NEW p \in Processes, save(p)
    PROVE  SessionsInv'
<1>1. /\ process[p].command = "login" /\ process[p].pc = "save" /\ UNCHANGED <<live, created>>
      /\ process[p].held \notin live /\ {"temporary", "beside"} \subseteq Windows
  BY OfCommand DEF save, Runs, SessionOK, HeldEnded, Windows
<1>2. CASE profile' = process[p].new /\ Displace(p) /\ Exit(p, "ok")
  <2>. DEFINE c == After(process[p], "ok")
  <2>0. c = After(process[p], "ok") /\ Exit(p, "ok")
    BY <1>2
  <2>. HIDE DEF c
  <2>1. /\ c \in Command /\ process' = [process EXCEPT ![p] = c] /\ c.pc = "idle"
        /\ c.exit = "ok" /\ c.command = process[p].command
        /\ c.held = process[p].held /\ c.new = process[p].new
    BY <2>0, AtEnd
  <2>2. UNCHANGED left \/ Leave(profile, "beside")
    BY <1>2 DEF Displace
  <2>3. /\ left' \in [1 .. MaxSessions -> Windows \cup {"nowhere"}]
        /\ \A t \in 1 .. MaxSessions : left[t] \in Windows => left'[t] \in Windows
        /\ Leave(profile, "beside") /\ profile \in 1 .. MaxSessions
              => left'[profile] \in Windows
    BY <1>1, <2>2, OfCommand, Leaving
  <2>4. /\ NumbersOK' /\ created' >= created /\ live' \subseteq live \cup {created + 1}
        /\ live \subseteq 1 .. MaxSessions
    BY <1>1, <1>2, <2>3, OfCommand DEF NumbersOK, SessionOK
  <2>5. SessionOK(c, created', live')
    <3>1. 0 \notin live /\ ~AllEnded(c)
      BY <1>1, <2>1, OfCommand DEF NumbersOK, AllEnded
    <3>. QED
      BY <1>1, <2>1, <3>1, OfCommand DEF SessionOK
  <2>6. \A s \in live' : \/ s = profile' \/ left'[s] \in Windows
                         \/ s \in live /\ s # profile /\ ~HeldBy(process[p], s)
    BY <1>1, <1>2, <2>3, <2>4 DEF Displace, HeldBy
  <2>. QED
    BY <2>1, <2>3, <2>4, <2>5, <2>6, SessionMoves
<1>3. CASE To(p, "undo") /\ UNCHANGED <<left, profile>>
  BY <1>1, <1>3, GoesOnStep DEF Pcs
<1>4. CASE Exit(p, "failed") /\ Leave(process[p].new, "temporary") /\ UNCHANGED profile
  BY <1>1, <1>4, EndsStep
<1>. QED
  BY <1>2, <1>3, <1>4 DEF save, SaveFailed

\* A login that was served: the new session is in the command's hands, or the answer is
\* lost with it.
LEMMA LoginServedStep ==
    ASSUME SessionsInv, NEW p \in Processes, NEW previous, NEW then,
           LoginServed(p, previous, then),
           \/ process[p].pc = "ask" /\ previous = process[p].held /\ then = "save"
           \/ process[p].pc = "renew" /\ then = "change"
    PROVE  SessionsInv'
<1>1. /\ created' = created + 1 /\ created' <= MaxSessions /\ UNCHANGED profile
      /\ live' = (live \ {previous}) \cup {created + 1} /\ "answer" \in Windows
      /\ created \in Nat /\ created' \in 0 .. MaxSessions /\ profile \in 0 .. created
      /\ live \subseteq 1 .. created
  BY OfCommand DEF LoginServed, Windows, NumbersOK
<1>2. UNCHANGED left \/ Leave(created + 1, "answer")
  BY DEF LoginServed
<1>3. /\ left' \in [1 .. MaxSessions -> Windows \cup {"nowhere"}]
      /\ \A t \in 1 .. MaxSessions : left[t] \in Windows => left'[t] \in Windows
      /\ Leave(created + 1, "answer") => left'[created + 1] \in Windows
  <2>1. created + 1 \in 1 .. MaxSessions
    BY <1>1, OfCommand
  <2>. DEFINE t == created + 1
  <2>2. t \in 1 .. MaxSessions /\ (UNCHANGED left \/ Leave(t, "answer"))
    BY <1>2, <2>1
  <2>3. Leave(t, "answer") => left'[t] \in Windows
    <3>. HIDE DEF t
    <3>. QED
      BY <1>1, <2>2, OfCommand, Leaving
  <2>4. /\ left' \in [1 .. MaxSessions -> Windows \cup {"nowhere"}]
        /\ \A u \in 1 .. MaxSessions : left[u] \in Windows => left'[u] \in Windows
    <3>. HIDE DEF t
    <3>. QED
      BY <1>1, <2>2, OfCommand, Leaving
  <2>. QED
    BY <2>3, <2>4
<1>4. /\ NumbersOK' /\ created' >= created /\ live' \subseteq live \cup {created + 1}
  <2>1. profile' \in 0 .. created' /\ created' >= created
    BY <1>1
  <2>2. ASSUME NEW s \in live' PROVE s \in 1 .. created'
    <3>1. s \in live \/ s = created + 1
      BY <1>1
    <3>2. \A t \in 1 .. created : t \in 1 .. created + 1
      BY <1>1
    <3>. QED
      BY <1>1, <3>1, <3>2
  <2>. QED
    BY <1>1, <1>3, <2>1, <2>2 DEF NumbersOK
<1>5. CASE /\ process' = [process EXCEPT ![p].pc = then, ![p].new = created + 1]
           /\ UNCHANGED left
  <2>. DEFINE c == [process[p] EXCEPT !.pc = then, !.new = created + 1]
  <2>0. then \in Pcs /\ created + 1 \in Nat
    BY <1>1 DEF Pcs
  <2>1. c \in Command /\ process' = [process EXCEPT ![p] = c]
    <3>1. c \in Command
      BY <2>0, OfCommand DEF Command
    <3>2. process' = [process EXCEPT ![p] = c]
      BY <1>5, OfCommand DEF SessionsInv, Command
    <3>. QED
      BY <3>1, <3>2
  <2>2. c.pc = then /\ c.new = created + 1 /\ c.held = process[p].held
    BY OfCommand DEF Command
  <2>3. SessionOK(c, created', live')
    <3>1. c.held <= created + 1 /\ c.held # created + 1 /\ ~AllEnded(c)
      BY <1>1, <2>2, OfCommand DEF SessionOK, AllEnded
    <3>2. HeldEnded(c) => c.held \notin live'
      BY <1>1, <2>2, <3>1 DEF HeldEnded
    <3>. QED
      BY <1>1, <2>2, <3>1, <3>2 DEF SessionOK
  <2>4. \A s \in live' : \/ HeldBy(c, s)
                         \/ s = profile'
                         \/ s \in live /\ s # profile /\ ~HeldBy(process[p], s)
    BY <1>1, <2>2 DEF HeldBy
  <2>. HIDE DEF c
  <2>. QED
    BY <1>3, <1>4, <2>1, <2>3, <2>4, SessionMoves
<1>6. CASE Exit(p, "failed") /\ Leave(created + 1, "answer")
  <2>. DEFINE c == After(process[p], "failed")
  <2>0. c = After(process[p], "failed") /\ Exit(p, "failed")
    BY <1>6
  <2>. HIDE DEF c
  <2>1. c \in Command /\ process' = [process EXCEPT ![p] = c] /\ c = Idle
    BY <2>0, AtEnd
  <2>2. SessionOK(c, created', live')
    BY <1>1, <2>1, IdleHolds DEF SessionOK, Idle
  <2>3. \A s \in live' : \/ left'[s] \in Windows
                         \/ s = profile'
                         \/ s \in live /\ s # profile /\ ~HeldBy(process[p], s)
    BY <1>1, <1>3, <1>6 DEF HeldBy
  <2>. QED
    BY <1>3, <1>4, <2>1, <2>2, <2>3, SessionMoves
<1>. QED
  BY <1>5, <1>6 DEF LoginServed

LEMMA LoginRefusedStep ==
    ASSUME SessionsInv, NEW p \in Processes, NEW previous, LoginRefused(p, previous),
           process[p].pc \in {"ask", "renew"}
    PROVE  SessionsInv'
<1>1. /\ Exit(p, "failed") /\ UNCHANGED <<profile, created, left>> /\ live' \subseteq live
      /\ "cut" \in Windows
  BY DEF LoginRefused, Windows
<1>2. \A s \in live' : ~HeldBy(process[p], s)
  BY DEF HeldBy
<1>. QED
  BY <1>1, <1>2, EndsStep

LEMMA LoginStep ==
    ASSUME SessionsInv, NEW p \in Processes, login(p)
    PROVE  SessionsInv'
BY LoginServedStep, LoginRefusedStep DEF login, Runs

\* The new session is ended, or left where the answer was lost.
LEMMA EndingNew ==
    ASSUME SessionsInv, NEW p \in Processes, EndNew(p)
    PROVE  /\ live' \subseteq live /\ "answer" \in Windows
           /\ \/ UNCHANGED left /\ (\A s \in live' : ~HeldBy(process[p], s))
              \/ Leave(process[p].new, "answer")
BY DEF EndNew, HeldBy, Windows

LEMMA UndoStep ==
    ASSUME SessionsInv, NEW p \in Processes, UndoLogin(p)
    PROVE  SessionsInv'
<1>1. EndNew(p) /\ Exit(p, "failed") /\ UNCHANGED <<profile, created>>
  BY DEF UndoLogin
<1>. QED
  BY <1>1, EndingNew, EndsStep

LEMMA LogoutStep ==
    ASSUME SessionsInv, NEW p \in Processes, logout(p)
    PROVE  SessionsInv'
<1>1. ASSUME Runs(p, "logout", "ask"), LogoutAnswered(p),
             UNCHANGED <<profile, created, renewal, left>>
      PROVE  SessionsInv'
  <2>1. /\ live' \subseteq live /\ "cut" \in Windows /\ "delete" \in Pcs
        /\ \A s \in live' : ~HeldBy(process[p], s)
    BY <1>1 DEF LogoutAnswered, Runs, HeldBy, Windows, Pcs
  <2>2. CASE To(p, "delete") /\ live' = live \ {process[p].held}
    BY <1>1, <2>1, <2>2, GoesOnStep
  <2>3. CASE Exit(p, "failed")
    BY <1>1, <2>1, <2>3, EndsStep
  <2>. QED
    BY <1>1, <2>2, <2>3 DEF LogoutAnswered
<1>2. ASSUME Runs(p, "logout", "delete"), delete(p, "ok"), UNCHANGED <<live, created, renewal>>
      PROVE  SessionsInv'
  BY <1>2, DeleteStep DEF Runs
<1>. QED
  BY <1>1, <1>2 DEF logout

\* What follows on whoami's question, whatever it is asked for.
LEMMA CheckedStep ==
    ASSUME SessionsInv, NEW p \in Processes, process[p].pc = "ask",
           \/ To(p, "forget") /\ process[p].held \notin live
           \/ To(p, "renew")
           \/ \E exit \in {"shown", "failed"} : Exit(p, exit),
           UNCHANGED <<profile, live, created, renewal, left>>
    PROVE  SessionsInv'
<1>1. /\ live' \subseteq live /\ "cut" \in Windows /\ {"forget", "renew"} \subseteq Pcs
      /\ \A s \in live' : ~HeldBy(process[p], s)
  BY DEF HeldBy, Windows, Pcs
<1>2. CASE To(p, "forget") /\ process[p].held \notin live
  BY <1>1, <1>2, GoesOnStep
<1>3. CASE To(p, "renew")
  BY <1>1, <1>3, GoesOnStep
<1>4. ASSUME NEW exit \in {"shown", "failed"}, Exit(p, exit) PROVE SessionsInv'
  BY <1>1, <1>4, EndsStep
<1>. QED
  BY <1>2, <1>3, <1>4

LEMMA WhoamiStep ==
    ASSUME SessionsInv, NEW p \in Processes, whoami(p)
    PROVE  SessionsInv'
BY CheckedStep DEF whoami, Runs, SessionChecked

LEMMA ForgetStep ==
    ASSUME SessionsInv, NEW p \in Processes, Forget(p)
    PROVE  SessionsInv'
BY DeleteStep DEF Forget

\* A refused change: the session of the profile is left, and so is that of another command
\* that has come into it.
LEMMA RemoveStep ==
    ASSUME SessionsInv, NEW p \in Processes, RemoveRefused(p)
    PROVE  SessionsInv'
<1>1. /\ process[p].pc = "remove" /\ Exit(p, "failed") /\ UNCHANGED <<live, created>>
      /\ \A s \in live' : ~HeldBy(process[p], s)
  BY DEF RemoveRefused, Runs, HeldBy
<1>. DEFINE w == IF profile = process[p].held THEN "refused" ELSE "beside"
<1>2. w \in Windows
  BY DEF Windows
<1>3. CASE profile' = 0 /\ Leave(profile, w)
  <2>. HIDE DEF w
  <2>. DEFINE c == After(process[p], "failed")
  <2>0. c = After(process[p], "failed") /\ Exit(p, "failed")
    BY <1>1
  <2>. HIDE DEF c
  <2>1. /\ c \in Command /\ process' = [process EXCEPT ![p] = c] /\ c = Idle
        /\ c.held \in {0, process[p].held} /\ c.new \in {0, process[p].new}
    BY <2>0, AtEnd
  <2>. QED
    BY <1>1, <1>2, <1>3, <2>1, IdleHolds, ProfileGoes
<1>4. CASE UNCHANGED <<profile, left>>
  <2>. HIDE DEF w
  <2>. QED
    BY <1>1, <1>2, <1>4, EndsStep
<1>. QED
  BY <1>3, <1>4 DEF RemoveRefused

LEMMA ChangeStep ==
    ASSUME SessionsInv, NEW p \in Processes, change_password(p)
    PROVE  SessionsInv'
<1>. {"withdraw", "remove", "changed"} \subseteq Pcs /\ {"cut", "answer"} \subseteq Windows
  BY DEF Pcs, Windows
<1>1. ASSUME Runs(p, "change_password", "ask"),
             SessionChecked(p, IF renewal THEN To(p, "renew") ELSE Exit(p, "failed")),
             UNCHANGED <<profile, live, created, renewal, left>>
      PROVE  SessionsInv'
  BY <1>1, CheckedStep DEF SessionChecked, Runs
<1>2. ASSUME Runs(p, "change_password", "renew"),
             LoginServed(p, 0, "change") \/ LoginRefused(p, 0)
      PROVE  SessionsInv'
  BY <1>2, LoginServedStep, LoginRefusedStep DEF Runs
<1>3. ASSUME Runs(p, "change_password", "change"), ChangeServed(p), UNCHANGED <<profile, created>>
      PROVE  SessionsInv'
  <2>1. live' = {} /\ UNCHANGED left
    BY <1>3 DEF ChangeServed
  <2>2. CASE To(p, "changed")
    BY <1>3, <2>1, <2>2, GoesOnStep
  <2>3. CASE Exit(p, "failed")
    BY <1>3, <2>1, <2>3, EndsStep
  <2>. QED
    BY <1>3, <2>2, <2>3 DEF ChangeServed
<1>4. ASSUME Runs(p, "change_password", "change"), ChangeRefused(p), UNCHANGED <<profile, created>>
      PROVE  SessionsInv'
  BY <1>4, GoesOnStep DEF ChangeRefused
<1>5. ASSUME Runs(p, "change_password", "change"), ChangeLost(p), UNCHANGED <<profile, created>>
      PROVE  SessionsInv'
  BY <1>5, EndsStep DEF ChangeLost
<1>6. ASSUME Runs(p, "change_password", "withdraw"), EndNew(p), To(p, "remove"),
             UNCHANGED <<profile, created, renewal>>
      PROVE  SessionsInv'
  BY <1>6, EndingNew, GoesOnStep
<1>7. ASSUME Runs(p, "change_password", "changed"), delete(p, "ok"),
             UNCHANGED <<live, created, renewal>>
      PROVE  SessionsInv'
  BY <1>7, DeleteStep DEF Runs
<1>. QED
  BY <1>1, <1>2, <1>3, <1>4, <1>5, <1>6, <1>7, RemoveStep DEF change_password

LEMMA KilledStep ==
    ASSUME SessionsInv, NEW p \in Processes, Killed(p)
    PROVE  SessionsInv'
<1>1. /\ Exit(p, "failed") /\ UNCHANGED <<profile, created, live>> /\ "cut" \in Windows
      /\ \/ UNCHANGED left /\ (\A s \in live' : ~HeldBy(process[p], s))
         \/ Leave(process[p].new, "cut")
  BY DEF Killed, Holds, HeldBy, Windows
<1>. QED
  BY <1>1, EndsStep

\* What the service does of itself only ends sessions.
LEMMA ServiceEndsStep ==
    ASSUME SessionsInv, ServiceActs
    PROVE  SessionsInv'
<1>1. live' \subseteq live /\ UNCHANGED <<profile, created, process, left>>
  BY DEF ServiceActs
<1>2. NumbersOK' /\ NoSessionForgotten'
  BY <1>1 DEF SessionsInv, NumbersOK, NoSessionForgotten, Holds
<1>3. \A p \in Processes : SessionOK(process'[p], created', live')
  BY <1>1 DEF SessionsInv, SessionOK
<1>. QED
  BY <1>1, <1>2, <1>3 DEF SessionsInv

LEMMA SessionsStep == SessionsInv /\ [SessionNext]_(sessionVars) => SessionsInv'
<1>. SUFFICES ASSUME SessionsInv, [SessionNext]_(sessionVars) PROVE SessionsInv'
  OBVIOUS
<1>1. ASSUME UNCHANGED sessionVars PROVE SessionsInv'
  BY <1>1 DEF sessionVars, SessionsInv, NumbersOK, SessionOK, NoSessionForgotten, Holds
<1>. QED
  BY <1>1, RunStep, LoginStep, SaveStep, UndoStep, LogoutStep, WhoamiStep, ForgetStep,
     ChangeStep, KilledStep, ServiceEndsStep
     DEF SessionNext

\* However many commands run beside each other in one profile, are cut short or lose an
\* answer: a session that the service accepts is in the profile, in the hands of a running
\* command, or was left in one of the five windows that are named; and a command that
\* reports success has ended what it was to end (cli/commands/authentication.py).
THEOREM SessionsStayKept == SessionSpec => []SessionsKept
<1>1. SessionSpec => []SessionsInv
  BY SessionsInitially, SessionsStep, PTL DEF SessionSpec
<1>. QED
  BY <1>1, SessionsSound, PTL

----------------------------------------------------------------------------
(* The outputs of local conversions, published side by side into one        *)
(* directory.  The publisher that holds the lock has published a prefix of  *)
(* the names, and its .previous files say what was there; undone from its   *)
(* end, that prefix leaves the directory as it was found.                   *)

Holding == {"stage", "commit", "replace", "decide", "rollback", "undo", "clean"}

PublishedItem == [name : NameSet, backup : BOOLEAN]

PreviousFiles == [name : NameSet, of : Writers \ {"none"}]

PublisherRow ==
    [pc : Holding \cup {"convert", "lock", "done"}, next : 1 .. Len(Names),
     overwrite : BOOLEAN, exit : {"none", "failed", "ok", "killed", "conflict"}]

OutputsTyped ==
    /\ directory \in [NameSet -> Writers]
    /\ hidden \in [Publishers -> SUBSET PreviousFiles]
    /\ committed \in [Publishers -> Seq(PublishedItem)]
    /\ publisher \in [Publishers -> PublisherRow]
    /\ holder \in Publishers \cup {"none"}

IsHidden(p, n) == \E h \in hidden[p] : h.name = n

IsCommitted(p, n) == \E i \in 1 .. Len(committed[p]) : Names[i] = n

\* The prefix of the names that a publisher has published, by where it is.
PrefixOK(p) ==
    /\ holder = p <=> publisher[p].pc \in Holding
    /\ Len(committed[p]) <= Len(Names)
    /\ \A i \in 1 .. Len(committed[p]) : committed[p][i].name = Names[i]
    /\ publisher[p].pc \in {"convert", "lock", "stage"} =>
          Len(committed[p]) = 0 /\ hidden[p] = {}
    /\ publisher[p].pc \in {"convert", "lock"} => publisher[p].next = 1
    /\ publisher[p].pc \in {"commit", "replace"} => Len(committed[p]) = publisher[p].next - 1
    /\ publisher[p].pc = "decide" => Len(committed[p]) = Len(Names)
    /\ publisher[p].pc = "clean" =>
          Len(committed[p]) = IF publisher[p].exit = "ok" THEN Len(Names) ELSE 0
    /\ publisher[p].pc = "undo" =>
          /\ Len(committed[p]) # 0
          /\ LET n == Names[Len(committed[p])] IN directory[n] = p \/ n \in foreign
    /\ publisher[p].exit = "ok" => publisher[p].pc \in {"clean", "done"}

\* The .previous files that a publisher keeps.
HiddenOK(p) ==
    /\ \A g, h \in hidden[p] : g.name = h.name => g = h
    /\ hidden[p] # {} => publisher[p].overwrite
    /\ publisher[p].pc \in Holding => \A i \in 1 .. Len(committed[p]) :
          committed[p][i].backup <=> IsHidden(p, Names[i])
    /\ publisher[p].pc = "commit" => \A h \in hidden[p] : IsCommitted(p, h.name)
    /\ publisher[p].pc = "replace" => \A h \in hidden[p] :
          IsCommitted(p, h.name) \/ h.name = NextName(p)
    /\ publisher[p].pc = "replace" => \E h \in hidden[p] :
          /\ h.name = NextName(p)
          /\ h.of = directory[h.name] \/ h.name \in foreign

\* A file that was there before has not been lost.
SafeName(n) ==
    \/ directory[n] = "old"
    \/ \E p \in Publishers :
        \/ PublisherAt(p, "done") /\ publisher[p].exit = "ok" /\ publisher[p].overwrite
        \/ [name |-> n, of |-> "old"] \in hidden[p]

PreviousSafe == \A n \in NameSet \ foreign : before[n] = "old" => SafeName(n)

Calm == ~cut /\ foreign = {}

\* What the name will hold if the publisher gives up.
Originally(p, n, w) ==
    IF ~IsCommitted(p, n) THEN directory[n] = w
    ELSE IF IsHidden(p, n) THEN [name |-> n, of |-> w] \in hidden[p] ELSE w = "none"

OriginalSet(p) ==
    \/ \A n \in NameSet : \E w \in {"none", "old"} : Originally(p, n, w)
    \/ \E q \in Publishers : \A n \in NameSet : Originally(p, n, q)

WholeSet ==
    \/ \A n \in NameSet : directory[n] \in {"none", "old"}
    \/ \E q \in Publishers : \A n \in NameSet : directory[n] = q

CalmOK ==
    Calm => /\ holder = "none" => WholeSet
            /\ \A p \in Publishers : holder = p =>
                 /\ \A i \in 1 .. Len(committed[p]) : directory[Names[i]] = p
                 /\ OriginalSet(p)

OutputsInv ==
    /\ OutputsTyped
    /\ \A p \in Publishers : PrefixOK(p) /\ HiddenOK(p)
    /\ PreviousSafe /\ CalmOK

----------------------------------------------------------------------------
\* The names in their order.
LEMMA NamesOrdered ==
    /\ Len(Names) \in Nat /\ Len(Names) >= 1
    /\ \A i \in 1 .. Len(Names) : Names[i] \in NameSet
    /\ \A i, j \in 1 .. Len(Names) : Names[i] = Names[j] => i = j
    /\ \A n \in NameSet : \E i \in 1 .. Len(Names) : n = Names[i]
    /\ NameSet # {}
<1>1. Names \in Seq(NameSet) /\ Names # <<>> /\ IsInjective(Names)
  BY OutputsAssumption
<1>2. Len(Names) \in Nat /\ Len(Names) # 0 /\ DOMAIN Names = 1 .. Len(Names)
  BY <1>1, LenProperties, EmptySeq
<1>3. \A i, j \in 1 .. Len(Names) : Names[i] = Names[j] => i = j
  BY <1>1, <1>2 DEF IsInjective
<1>4. /\ \A i \in 1 .. Len(Names) : Names[i] \in NameSet
      /\ \A n \in NameSet : \E i \in 1 .. Len(Names) : n = Names[i]
  BY DEF NameSet
<1>. QED
  BY <1>2, <1>3, <1>4

LEMMA OfPublisher ==
    ASSUME OutputsTyped, NEW p \in Publishers
    PROVE  /\ publisher[p] \in PublisherRow
           /\ committed[p] \in Seq(PublishedItem) /\ Len(committed[p]) \in Nat
           /\ hidden[p] \in SUBSET PreviousFiles
           /\ p # "none" /\ p # "old" /\ p # "foreign" /\ p \in Writers
<1>1. committed[p] \in Seq(PublishedItem) /\ Len(committed[p]) \in Nat
  BY LenProperties DEF OutputsTyped
<1>. QED
  BY <1>1, OutputsAssumption DEF OutputsTyped, Writers

\* A step of a publisher in its own place.
Goes(p, pc, next, exit) ==
    /\ publisher' \in [Publishers -> PublisherRow]
    /\ publisher'[p].pc = pc /\ publisher'[p].next = next /\ publisher'[p].exit = exit
    /\ publisher'[p].overwrite = publisher[p].overwrite
    /\ \A q \in Publishers \ {p} : publisher'[q] = publisher[q]

LEMMA PublisherGoes ==
    ASSUME OutputsTyped, NEW p \in Publishers, NEW place \in PublisherRow,
           place.overwrite = publisher[p].overwrite,
           publisher' = [publisher EXCEPT ![p] = place]
    PROVE  Goes(p, place.pc, place.next, place.exit)
BY DEF Goes, OutputsTyped

LEMMA RowIs ==
    ASSUME OutputsTyped, NEW p \in Publishers
    PROVE  /\ publisher[p].pc \in Holding \cup {"convert", "lock", "done"}
           /\ publisher[p].next \in 1 .. Len(Names)
           /\ publisher[p].exit \in {"none", "failed", "ok", "killed", "conflict"}
BY OfPublisher DEF PublisherRow

LEMMA ToGoes ==
    ASSUME OutputsTyped, NEW p \in Publishers,
           NEW pc \in Holding \cup {"convert", "lock", "done"}, PublisherTo(p, pc)
    PROVE  Goes(p, pc, publisher[p].next, publisher[p].exit)
<1>. DEFINE place == [publisher[p] EXCEPT !.pc = pc]
<1>1. /\ place \in PublisherRow /\ place.overwrite = publisher[p].overwrite
      /\ place.pc = pc /\ place.next = publisher[p].next /\ place.exit = publisher[p].exit
  BY OfPublisher DEF PublisherRow
<1>2. publisher' = [publisher EXCEPT ![p] = place]
  BY DEF PublisherTo
<1>. HIDE DEF place
<1>. QED
  BY <1>1, <1>2, PublisherGoes

LEMMA ExitGoes ==
    ASSUME OutputsTyped, NEW p \in Publishers,
           NEW pc \in Holding \cup {"convert", "lock", "done"},
           NEW exit \in {"none", "failed", "ok", "killed", "conflict"},
           publisher' = [publisher EXCEPT ![p].pc = pc, ![p].exit = exit]
    PROVE  Goes(p, pc, publisher[p].next, exit)
<1>. DEFINE place == [[publisher[p] EXCEPT !.pc = pc] EXCEPT !.exit = exit]
<1>1. /\ place \in PublisherRow /\ place.overwrite = publisher[p].overwrite
      /\ place.pc = pc /\ place.next = publisher[p].next /\ place.exit = exit
  BY OfPublisher DEF PublisherRow
<1>2. publisher' = [publisher EXCEPT ![p] = place]
  BY DEF OutputsTyped
<1>. HIDE DEF place
<1>. QED
  BY <1>1, <1>2, PublisherGoes

\* The next name, or the first one again at the end.
LEMMA NextGoes ==
    ASSUME OutputsTyped, NEW p \in Publishers,
           NEW pc \in Holding \cup {"convert", "lock", "done"},
           NEW next \in 1 .. Len(Names),
           publisher' = [publisher EXCEPT ![p].next = next, ![p].pc = pc]
    PROVE  Goes(p, pc, next, publisher[p].exit)
<1>. DEFINE place == [[publisher[p] EXCEPT !.next = next] EXCEPT !.pc = pc]
<1>1. /\ place \in PublisherRow /\ place.overwrite = publisher[p].overwrite
      /\ place.pc = pc /\ place.next = next /\ place.exit = publisher[p].exit
  BY OfPublisher DEF PublisherRow
<1>2. publisher' = [publisher EXCEPT ![p] = place]
  BY DEF OutputsTyped
<1>. HIDE DEF place
<1>. QED
  BY <1>1, <1>2, PublisherGoes

----------------------------------------------------------------------------
\* What has been lost stays in its place, wherever else a file may be.
LEMMA PreviousStands ==
    ASSUME OutputsInv, before' = before, foreign \subseteq foreign',
           \A n \in NameSet \ foreign' : SafeName(n) => SafeName(n)'
    PROVE  PreviousSafe'
BY DEF OutputsInv, PreviousSafe

LEMMA OriginalsStand ==
    ASSUME NEW p \in Publishers, OriginalSet(p), {"none", "old"} \cup Publishers \subseteq Writers,
           \A n \in NameSet, w \in Writers : Originally(p, n, w) => Originally(p, n, w)'
    PROVE  OriginalSet(p)'
<1>1. CASE \A n \in NameSet : \E w \in {"none", "old"} : Originally(p, n, w)
  <2>1. \A n \in NameSet : \E w \in {"none", "old"} : Originally(p, n, w)'
    BY <1>1
  <2>. QED
    BY <2>1 DEF OriginalSet
<1>2. CASE \E q \in Publishers : \A n \in NameSet : Originally(p, n, q)
  <2>1. PICK q \in Publishers : \A n \in NameSet : Originally(p, n, q)
    BY <1>2
  <2>2. \A n \in NameSet : Originally(p, n, q)'
    BY <2>1
  <2>. QED
    BY <2>2 DEF OriginalSet
<1>. QED
  BY <1>1, <1>2 DEF OriginalSet

\* A step of one publisher is nothing to the others: whoever holds the lock is alone.
LEMMA OthersStand ==
    ASSUME OutputsInv, NEW p \in Publishers, NEW q \in Publishers \ {p},
           publisher'[q] = publisher[q], committed'[q] = committed[q], hidden'[q] = hidden[q],
           holder' = q <=> holder = q,
           directory' = directory \/ holder = p, foreign' = foreign
    PROVE  PrefixOK(q)' /\ HiddenOK(q)'
<1>1. PrefixOK(q) /\ HiddenOK(q)
  BY DEF OutputsInv
<1>2. publisher[q].pc \in {"replace", "undo"} => directory' = directory
  BY <1>1 DEF PrefixOK, Holding
<1>3. PrefixOK(q)'
  BY <1>1, <1>2 DEF PrefixOK
<1>. QED
  BY <1>1, <1>2, <1>3 DEF HiddenOK, IsHidden, IsCommitted, NextName

LEMMA OutputsComposed ==
    ASSUME OutputsInv, NEW p \in Publishers, OutputsTyped', PrefixOK(p)', HiddenOK(p)',
           \A q \in Publishers \ {p} :
              /\ publisher'[q] = publisher[q] /\ committed'[q] = committed[q]
              /\ hidden'[q] = hidden[q] /\ (holder' = q <=> holder = q),
           directory' = directory \/ holder = p, foreign' = foreign,
           PreviousSafe', CalmOK'
    PROVE  OutputsInv'
BY OthersStand DEF OutputsInv

\* A publisher that only moves on.
LEMMA RowStep ==
    ASSUME OutputsInv, NEW p \in Publishers, NEW pc, NEW next, NEW exit,
           Goes(p, pc, next, exit), publisher[p].pc # "done",
           UNCHANGED <<directory, before, hidden, committed, holder, foreign>>,
           Calm' => Calm, PrefixOK(p)', HiddenOK(p)'
    PROVE  OutputsInv'
<1>1. OutputsTyped'
  BY DEF OutputsInv, OutputsTyped, Goes
<1>2. PreviousSafe'
  <2>1. \A n \in NameSet : SafeName(n) => SafeName(n)'
    BY DEF SafeName, PublisherAt, Goes
  <2>. QED
    BY <2>1, PreviousStands
<1>3. CalmOK'
  BY DEF OutputsInv, CalmOK, WholeSet, OriginalSet, Originally, IsCommitted, IsHidden
<1>. QED
  BY <1>1, <1>2, <1>3, OutputsComposed DEF Goes

LEMMA OutputsInitially == OutputsInit => OutputsInv
<1>. SUFFICES ASSUME OutputsInit PROVE OutputsInv
  OBVIOUS
<1>1. directory \in [NameSet -> Writers] /\ (\A n \in NameSet : directory[n] \in {"none", "old"})
  BY DEF OutputsInit, Writers
<1>2. committed \in [Publishers -> Seq(PublishedItem)]
      /\ (\A p \in Publishers : Len(committed[p]) = 0)
  BY EmptySeq DEF OutputsInit
<1>3. hidden \in [Publishers -> SUBSET PreviousFiles] /\ (\A p \in Publishers : hidden[p] = {})
  BY DEF OutputsInit
<1>4. /\ publisher \in [Publishers -> PublisherRow]
      /\ \A p \in Publishers : publisher[p].pc = "convert" /\ publisher[p].next = 1
                               /\ publisher[p].exit = "none"
  <2>1. 1 \in 1 .. Len(Names)
    BY NamesOrdered
  <2>2. {[pc |-> "convert", next |-> 1, overwrite |-> overwrite, exit |-> "none"] :
            overwrite \in BOOLEAN} \subseteq PublisherRow
    BY <2>1 DEF PublisherRow
  <2>. QED
    BY <2>2 DEF OutputsInit
<1>5. holder = "none" /\ (\A p \in Publishers : p # "none")
  BY OutputsAssumption DEF OutputsInit
<1>6. OutputsTyped
  BY <1>1, <1>2, <1>3, <1>4, <1>5 DEF OutputsTyped
<1>7. ASSUME NEW p \in Publishers PROVE PrefixOK(p) /\ HiddenOK(p)
  BY <1>2, <1>3, <1>4, <1>5, NamesOrdered DEF PrefixOK, HiddenOK, Holding
<1>8. PreviousSafe
  BY DEF PreviousSafe, SafeName, OutputsInit
<1>9. CalmOK
  BY <1>1, <1>5 DEF CalmOK, WholeSet
<1>. QED
  BY <1>6, <1>7, <1>8, <1>9 DEF OutputsInv

LEMMA OutputsSound == OutputsInv => OutputsTypeOK /\ OneSet /\ PreviousKept
<1>. SUFFICES ASSUME OutputsInv PROVE OutputsTypeOK /\ OneSet /\ PreviousKept
  OBVIOUS
<1>1. OutputsTypeOK
  BY DEF OutputsInv, OutputsTyped, OutputsTypeOK, PreviousFiles
<1>2. OneSet
  BY DEF OutputsInv, CalmOK, Calm, WholeSet, OneSet
<1>3. PreviousKept
  BY DEF OutputsInv, PreviousSafe, SafeName, PreviousKept
<1>. QED
  BY <1>1, <1>2, <1>3

----------------------------------------------------------------------------
(* One lemma for each kind of step.                                         *)

LEMMA ConvertStep ==
    ASSUME OutputsInv, NEW p \in Publishers, before' = before, _convert_locally(p)
    PROVE  OutputsInv'
<1>1. /\ publisher[p].pc = "convert" /\ cut' = cut
      /\ UNCHANGED <<directory, hidden, committed, holder, foreign>>
  BY DEF _convert_locally, PublisherAt
<1>2. OutputsTyped /\ PrefixOK(p) /\ HiddenOK(p) /\ (Calm' => Calm)
  BY <1>1 DEF OutputsInv, Calm
<1>3. publisher[p].next \in 1 .. Len(Names)
  BY <1>2, RowIs
<1>4. CASE publisher' = [publisher EXCEPT ![p].pc = "done", ![p].exit = "failed"]
  <2>1. Goes(p, "done", publisher[p].next, "failed")
    BY <1>2, <1>4, ExitGoes
  <2>2. PrefixOK(p)' /\ HiddenOK(p)'
    BY <1>1, <1>2, <2>1 DEF Goes, PrefixOK, HiddenOK, Holding
  <2>. QED
    BY <1>1, <1>2, <2>1, <2>2, RowStep
<1>5. CASE publisher' = [publisher EXCEPT ![p].pc = "lock"]
  <2>1. Goes(p, "lock", publisher[p].next, publisher[p].exit)
    BY <1>2, <1>5, ToGoes DEF PublisherTo
  <2>2. PrefixOK(p)' /\ HiddenOK(p)'
    BY <1>1, <1>2, <2>1 DEF Goes, PrefixOK, HiddenOK, Holding
  <2>. QED
    BY <1>1, <1>2, <2>1, <2>2, RowStep
<1>. QED
  BY <1>4, <1>5 DEF _convert_locally

\* Whoever takes the lock finds a whole set.
LEMMA LockStep ==
    ASSUME OutputsInv, NEW p \in Publishers, before' = before, _lock_directory(p)
    PROVE  OutputsInv'
<1>1. /\ publisher[p].pc = "lock" /\ cut' = cut
      /\ UNCHANGED <<directory, hidden, committed, foreign>>
  BY DEF _lock_directory, PublisherAt
<1>2. OutputsTyped /\ PrefixOK(p) /\ HiddenOK(p) /\ Calm' = Calm
  BY <1>1 DEF OutputsInv, Calm
<1>3. CASE UNCHANGED holder /\ publisher' = [publisher EXCEPT ![p].pc = "done", ![p].exit = "failed"]
  <2>1. Goes(p, "done", publisher[p].next, "failed")
    BY <1>2, <1>3, ExitGoes
  <2>2. PrefixOK(p)' /\ HiddenOK(p)'
    BY <1>1, <1>2, <1>3, <2>1 DEF Goes, PrefixOK, HiddenOK, Holding
  <2>. QED
    BY <1>1, <1>2, <1>3, <2>1, <2>2, RowStep
<1>4. CASE LockFree /\ holder' = p /\ PublisherTo(p, "stage")
  <2>1. Goes(p, "stage", publisher[p].next, publisher[p].exit)
    BY <1>2, <1>4, ToGoes DEF Holding
  <2>2. holder = "none" /\ p # "none" /\ (\A q \in Publishers \ {p} : holder # q /\ holder' # q)
    BY <1>2, <1>4, OfPublisher DEF LockFree
  <2>3. OutputsTyped'
    BY <1>1, <1>2, <1>4, <2>1 DEF OutputsTyped, Goes
  <2>4. PrefixOK(p)' /\ HiddenOK(p)'
    BY <1>1, <1>2, <1>4, <2>1 DEF Goes, PrefixOK, HiddenOK, Holding
  <2>5. PreviousSafe'
    <3>1. \A n \in NameSet : SafeName(n) => SafeName(n)'
      BY <1>1, <2>1 DEF SafeName, PublisherAt, Goes
    <3>. QED
      BY <1>1, <3>1, PreviousStands
  <2>6. CalmOK'
    <3>1. Len(committed'[p]) = 0 /\ 1 .. 0 = {}
      BY <1>1, <1>2 DEF PrefixOK
    <3>2. \A n \in NameSet, w \in Writers : Originally(p, n, w)' <=> directory[n] = w
      BY <1>1, <3>1 DEF Originally, IsCommitted
    <3>3. {"none", "old"} \cup Publishers \subseteq Writers
      BY DEF Writers
    <3>4. WholeSet => OriginalSet(p)'
      <4>1. CASE \A n \in NameSet : directory[n] \in {"none", "old"}
        <5>1. \A n \in NameSet : \E w \in {"none", "old"} : Originally(p, n, w)'
          BY <3>2, <3>3, <4>1
        <5>. QED
          BY <5>1 DEF OriginalSet
      <4>2. CASE \E q \in Publishers : \A n \in NameSet : directory[n] = q
        BY <3>2, <3>3, <4>2 DEF OriginalSet
      <4>. QED
        BY <4>1, <4>2 DEF WholeSet
    <3>5. Calm => WholeSet
      BY <2>2 DEF OutputsInv, CalmOK
    <3>. QED
      BY <1>2, <1>4, <2>2, <3>1, <3>4, <3>5 DEF CalmOK
  <2>. QED
    BY <1>1, <2>1, <2>2, <2>3, <2>4, <2>5, <2>6, OutputsComposed DEF Goes
<1>. QED
  BY <1>3, <1>4 DEF _lock_directory

\* A checkpoint or a call that fails: what has been published is taken back.
LEMMA AbortStep ==
    ASSUME OutputsInv, NEW p \in Publishers, before' = before,
           publisher[p].pc \in {"stage", "commit", "decide"}, Abort(p, "failed"),
           UNCHANGED <<directory, hidden, committed, holder, foreign, cut>>
    PROVE  OutputsInv'
<1>1. OutputsTyped /\ PrefixOK(p) /\ HiddenOK(p) /\ (Calm' => Calm)
  BY DEF OutputsInv, Calm
<1>2. Goes(p, "rollback", publisher[p].next, "failed")
  BY <1>1, ExitGoes DEF Abort, Holding
<1>3. PrefixOK(p)' /\ HiddenOK(p)'
  BY <1>1, <1>2 DEF Goes, PrefixOK, HiddenOK, Holding, IsHidden
<1>. QED
  BY <1>1, <1>2, <1>3, RowStep

LEMMA StageStep ==
    ASSUME OutputsInv, NEW p \in Publishers, before' = before, _stage(p)
    PROVE  OutputsInv'
<1>1. /\ publisher[p].pc = "stage" /\ cut' = cut
      /\ UNCHANGED <<directory, hidden, committed, holder, foreign>>
  BY DEF _stage, PublisherAt
<1>2. OutputsTyped /\ PrefixOK(p) /\ HiddenOK(p) /\ (Calm' => Calm)
  BY <1>1 DEF OutputsInv, Calm
<1>3. CASE Abort(p, "failed")
  BY <1>1, <1>3, AbortStep
<1>4. CASE publisher' = [publisher EXCEPT
                ![p].next = IF @ = Len(Names) THEN 1 ELSE @ + 1,
                ![p].pc = IF publisher[p].next = Len(Names) THEN "commit" ELSE "stage"]
  <2>. DEFINE next == IF publisher[p].next = Len(Names) THEN 1 ELSE publisher[p].next + 1
              pc == IF publisher[p].next = Len(Names) THEN "commit" ELSE "stage"
  <2>1. next \in 1 .. Len(Names) /\ pc \in Holding \cup {"convert", "lock", "done"}
    BY <1>2, RowIs, NamesOrdered DEF Holding
  <2>2. Goes(p, pc, next, publisher[p].exit)
    <3>1. publisher' = [publisher EXCEPT ![p].next = next, ![p].pc = pc]
      BY <1>4
    <3>. HIDE DEF next, pc
    <3>. QED
      BY <1>2, <2>1, <3>1, NextGoes
  <2>3. pc = "stage" \/ (pc = "commit" /\ next = 1)
    OBVIOUS
  <2>. HIDE DEF next, pc
  <2>4. PrefixOK(p)' /\ HiddenOK(p)'
    BY <1>1, <1>2, <2>2, <2>3, NamesOrdered DEF Goes, PrefixOK, HiddenOK, Holding
  <2>. QED
    BY <1>1, <1>2, <2>2, <2>4, RowStep
<1>. QED
  BY <1>3, <1>4 DEF _stage

LEMMA AcceptStep ==
    ASSUME OutputsInv, NEW p \in Publishers, before' = before, Accept(p)
    PROVE  OutputsInv'
<1>1. /\ publisher[p].pc = "decide" /\ cut' = cut
      /\ UNCHANGED <<directory, hidden, committed, holder, foreign>>
  BY DEF Accept, PublisherAt
<1>2. OutputsTyped /\ PrefixOK(p) /\ HiddenOK(p) /\ (Calm' => Calm)
  BY <1>1 DEF OutputsInv, Calm
<1>3. CASE Abort(p, "failed")
  BY <1>1, <1>3, AbortStep
<1>4. CASE publisher' = [publisher EXCEPT ![p].pc = "clean", ![p].exit = "ok"]
  <2>1. Goes(p, "clean", publisher[p].next, "ok")
    BY <1>2, <1>4, ExitGoes DEF Holding
  <2>2. PrefixOK(p)' /\ HiddenOK(p)'
    BY <1>1, <1>2, <2>1 DEF Goes, PrefixOK, HiddenOK, Holding, IsHidden
  <2>. QED
    BY <1>1, <1>2, <2>1, <2>2, RowStep
<1>. QED
  BY <1>3, <1>4 DEF Accept

----------------------------------------------------------------------------
\* The name that comes next is not among those that have been published.
LEMMA NextIsNew ==
    ASSUME OutputsInv, NEW p \in Publishers, publisher[p].pc \in {"commit", "replace"}
    PROVE  /\ NextName(p) \in NameSet
           /\ \A i \in 1 .. Len(committed[p]) : Names[i] # NextName(p)
           /\ ~IsCommitted(p, NextName(p))
<1>1. OutputsTyped /\ PrefixOK(p)
  BY DEF OutputsInv
<1>2. publisher[p].next \in 1 .. Len(Names) /\ Len(committed[p]) \in Nat
      /\ Len(committed[p]) = publisher[p].next - 1
  BY <1>1, RowIs, OfPublisher DEF PrefixOK
<1>3. \A i \in 1 .. Len(committed[p]) : i \in 1 .. Len(Names) /\ i # publisher[p].next
  BY <1>2, NamesOrdered
<1>. QED
  BY <1>2, <1>3, NamesOrdered DEF NextName, IsCommitted

\* One more name is published.
LEMMA PublishedGoes ==
    ASSUME OutputsInv, NEW p \in Publishers, NEW replaced \in BOOLEAN,
           publisher[p].pc \in {"commit", "replace"}, holder' = holder, Published(p, replaced)
    PROVE  /\ \E pc \in {"commit", "decide"}, next \in 1 .. Len(Names) :
                 Goes(p, pc, next, publisher[p].exit)
           /\ committed' \in [Publishers -> Seq(PublishedItem)]
           /\ \A q \in Publishers \ {p} : committed'[q] = committed[q]
           /\ Len(committed'[p]) = Len(committed[p]) + 1
           /\ \A i \in 1 .. Len(committed[p]) : committed'[p][i] = committed[p][i]
           /\ committed'[p][Len(committed[p]) + 1] = [name |-> NextName(p), backup |-> replaced]
           /\ Names[Len(committed[p]) + 1] = NextName(p)
           /\ \A n \in NameSet : IsCommitted(p, n)' <=> IsCommitted(p, n) \/ n = NextName(p)
           /\ PrefixOK(p)'
<1>. DEFINE item == [name |-> NextName(p), backup |-> replaced]
            next == IF publisher[p].next = Len(Names) THEN 1 ELSE publisher[p].next + 1
            pc == IF publisher[p].next = Len(Names) THEN "decide" ELSE "commit"
<1>1. OutputsTyped /\ PrefixOK(p) /\ HiddenOK(p)
  BY DEF OutputsInv
<1>2. publisher[p].next \in 1 .. Len(Names) /\ Len(committed[p]) \in Nat
      /\ Len(committed[p]) = publisher[p].next - 1
  BY <1>1, RowIs, OfPublisher DEF PrefixOK
<1>3. next \in 1 .. Len(Names) /\ pc \in Holding \cup {"convert", "lock", "done"}
  BY <1>2, NamesOrdered DEF Holding
<1>4. Goes(p, pc, next, publisher[p].exit)
  <2>1. publisher' = [publisher EXCEPT ![p].next = next, ![p].pc = pc]
    BY DEF Published
  <2>. HIDE DEF next, pc
  <2>. QED
    BY <1>1, <1>3, <2>1, NextGoes
<1>5. item \in PublishedItem /\ item.name = NextName(p)
  BY NextIsNew DEF PublishedItem
<1>6. committed' = [committed EXCEPT ![p] = Append(committed[p], item)]
  BY DEF Published
<1>. HIDE DEF item
<1>7. /\ Append(committed[p], item) \in Seq(PublishedItem)
      /\ Len(Append(committed[p], item)) = Len(committed[p]) + 1
      /\ \A i \in 1 .. Len(committed[p]) : Append(committed[p], item)[i] = committed[p][i]
      /\ Append(committed[p], item)[Len(committed[p]) + 1] = item
  BY <1>1, <1>5, OfPublisher, AppendProperties
<1>8. /\ committed' \in [Publishers -> Seq(PublishedItem)]
      /\ \A q \in Publishers \ {p} : committed'[q] = committed[q]
      /\ committed'[p] = Append(committed[p], item)
  BY <1>1, <1>6, <1>7 DEF OutputsTyped
<1>9. Names[Len(committed[p]) + 1] = NextName(p)
  BY <1>2 DEF NextName
<1>10. \A n \in NameSet : IsCommitted(p, n)' <=> IsCommitted(p, n) \/ n = NextName(p)
  BY <1>2, <1>7, <1>8, <1>9 DEF IsCommitted
<1>11. PrefixOK(p)'
  <2>1. \A i \in 1 .. Len(committed'[p]) : committed'[p][i].name = Names[i]
    <3>1. \A i \in 1 .. Len(committed[p]) : committed'[p][i].name = Names[i]
      BY <1>1, <1>7, <1>8 DEF PrefixOK
    <3>2. committed'[p][Len(committed[p]) + 1].name = Names[Len(committed[p]) + 1]
      BY <1>5, <1>7, <1>8, <1>9
    <3>3. \A i \in 1 .. Len(committed'[p]) :
             i \in 1 .. Len(committed[p]) \/ i = Len(committed[p]) + 1
      BY <1>2, <1>7, <1>8
    <3>. QED
      BY <3>1, <3>2, <3>3
  <2>2. /\ Len(committed'[p]) = publisher[p].next /\ Len(committed'[p]) <= Len(Names)
        /\ Len(committed'[p]) \in Nat
        /\ (pc = "decide" /\ publisher[p].next = Len(Names))
           \/ (pc = "commit" /\ next = publisher[p].next + 1 /\ publisher[p].next < Len(Names))
    <3>1. Len(committed'[p]) = publisher[p].next
      BY <1>2, <1>7, <1>8
    <3>2. publisher[p].next # Len(Names) => publisher[p].next < Len(Names)
      BY <1>2, NamesOrdered
    <3>. QED
      BY <1>2, <3>1, <3>2, NamesOrdered
  <2>3. publisher'[p].pc = pc /\ publisher'[p].next = next /\ publisher'[p].exit = publisher[p].exit
    BY <1>4 DEF Goes
  <2>4. publisher[p].exit # "ok" /\ holder = p
    BY <1>1 DEF PrefixOK, Holding
  <2>. HIDE DEF next, pc
  <2>5. CASE pc = "decide"
    BY <2>1, <2>2, <2>3, <2>4, <2>5 DEF PrefixOK, Holding
  <2>6. CASE pc = "commit"
    BY <2>1, <2>2, <2>3, <2>4, <2>6, <1>2 DEF PrefixOK, Holding
  <2>. QED
    BY <2>2, <2>5, <2>6
<1>12. \E c \in {"commit", "decide"}, m \in 1 .. Len(Names) : Goes(p, c, m, publisher[p].exit)
  <2>1. pc \in {"commit", "decide"}
    OBVIOUS
  <2>. HIDE DEF next, pc
  <2>. QED
    BY <1>3, <1>4, <2>1
<1>. QED
  BY <1>7, <1>8, <1>9, <1>10, <1>11, <1>12 DEF item

\* The file that is about to be replaced is kept.
LEMMA LinkBackupStep ==
    ASSUME OutputsInv, NEW p \in Publishers, before' = before, LinkBackup(p)
    PROVE  OutputsInv'
<1>. DEFINE n == NextName(p)
            file == [name |-> n, of |-> directory[n]]
<1>1. /\ publisher[p].pc = "commit" /\ publisher[p].overwrite /\ directory[n] # "none"
      /\ UNCHANGED <<directory, committed, holder, foreign, cut>>
  BY DEF LinkBackup, PublisherAt
<1>2. OutputsTyped /\ PrefixOK(p) /\ HiddenOK(p)
  BY DEF OutputsInv
<1>3. CASE Abort(p, "failed") /\ UNCHANGED hidden
  BY <1>1, <1>3, AbortStep
<1>4. CASE hidden' = [hidden EXCEPT ![p] = @ \cup {file}] /\ PublisherTo(p, "replace")
  <2>1. Goes(p, "replace", publisher[p].next, publisher[p].exit)
    BY <1>2, <1>4, ToGoes DEF Holding
  <2>2. n \in NameSet /\ ~IsCommitted(p, n) /\ (\A i \in 1 .. Len(committed[p]) : Names[i] # n)
    BY <1>1, NextIsNew
  <2>3. file \in PreviousFiles /\ file.name = n /\ file.of = directory[n]
    BY <1>1, <1>2, <2>2 DEF OutputsTyped, PreviousFiles
  <2>4. /\ hidden' \in [Publishers -> SUBSET PreviousFiles]
        /\ hidden'[p] = hidden[p] \cup {file}
        /\ \A q \in Publishers \ {p} : hidden'[q] = hidden[q]
    BY <1>2, <1>4, <2>3 DEF OutputsTyped
  <2>5. \A h \in hidden[p] : h.name # n
    BY <1>1, <1>2, <2>2 DEF HiddenOK
  <2>. HIDE DEF file
  <2>6. OutputsTyped'
    BY <1>1, <1>2, <2>1, <2>4 DEF OutputsTyped, Goes
  <2>7. PrefixOK(p)'
    BY <1>1, <1>2, <2>1 DEF Goes, PrefixOK, Holding
  <2>8. \A m \in NameSet \ {n} : IsHidden(p, m)' <=> IsHidden(p, m)
    BY <2>3, <2>4 DEF IsHidden
  <2>9. HiddenOK(p)'
    <3>1. NextName(p)' = n /\ publisher'[p].pc = "replace" /\ publisher'[p].overwrite
      BY <1>1, <2>1 DEF Goes, NextName
    <3>2. \A g, h \in hidden'[p] : g.name = h.name => g = h
      BY <1>2, <2>3, <2>4, <2>5 DEF HiddenOK
    <3>3. \A i \in 1 .. Len(committed[p]) : committed[p][i].backup <=> IsHidden(p, Names[i])'
      <4>1. \A i \in 1 .. Len(committed[p]) : Names[i] \in NameSet \ {n}
        BY <1>2, <2>2, NamesOrdered, OfPublisher DEF PrefixOK
      <4>2. \A i \in 1 .. Len(committed[p]) : committed[p][i].backup <=> IsHidden(p, Names[i])
        BY <1>1, <1>2 DEF HiddenOK, Holding
      <4>. QED
        BY <2>8, <4>1, <4>2
    <3>4. \A h \in hidden'[p] : IsCommitted(p, h.name) \/ h.name = n
      BY <1>1, <1>2, <2>3, <2>4 DEF HiddenOK
    <3>5. \A m : IsCommitted(p, m)' = IsCommitted(p, m)
      BY <1>1 DEF IsCommitted
    <3>. QED
      BY <1>1, <2>3, <2>4, <3>1, <3>2, <3>3, <3>4, <3>5 DEF HiddenOK
  <2>10. PreviousSafe'
    <3>1. \A m \in NameSet : SafeName(m) => SafeName(m)'
      BY <1>1, <2>1, <2>4 DEF SafeName, PublisherAt, Goes
    <3>. QED
      BY <1>1, <3>1, PreviousStands
  <2>11. CalmOK'
    <3>1. \A m \in NameSet, w \in Writers : Originally(p, m, w) => Originally(p, m, w)'
      BY <1>1, <2>2, <2>4, <2>8 DEF Originally, IsCommitted
    <3>2. holder = p /\ (\A q \in Publishers : holder = q => q = p) /\ p # "none"
      BY <1>1, <1>2, OfPublisher DEF PrefixOK, Holding
    <3>3. OriginalSet(p) => OriginalSet(p)'
      <4>1. {"none", "old"} \cup Publishers \subseteq Writers
        BY DEF Writers
      <4>. QED
        BY <3>1, <4>1, OriginalsStand
    <3>. QED
      BY <1>1, <3>2, <3>3 DEF OutputsInv, CalmOK, Calm
  <2>. QED
    BY <1>1, <2>1, <2>4, <2>6, <2>7, <2>9, <2>10, <2>11, OutputsComposed DEF Goes
<1>. QED
  BY <1>3, <1>4 DEF LinkBackup

----------------------------------------------------------------------------
LEMMA HolderAlone ==
    ASSUME OutputsInv, NEW p \in Publishers, publisher[p].pc \in Holding
    PROVE  holder = p /\ p # "none" /\ (\A q \in Publishers \ {p} : holder # q)
BY OfPublisher DEF OutputsInv, PrefixOK

\* The holder goes on, and what it would leave behind stays the same.
LEMMA CalmStands ==
    ASSUME OutputsInv, NEW p \in Publishers, publisher[p].pc \in Holding, holder' = holder,
           Calm' => Calm,
           Calm => /\ \A i \in 1 .. Len(committed'[p]) : directory'[Names[i]] = p
                   /\ \A n \in NameSet, w \in Writers : Originally(p, n, w) => Originally(p, n, w)'
    PROVE  CalmOK'
<1>1. holder = p /\ p # "none" /\ (\A q \in Publishers : holder = q => q = p)
  BY HolderAlone
<1>2. {"none", "old"} \cup Publishers \subseteq Writers
  BY DEF Writers
<1>3. Calm => OriginalSet(p)
  BY <1>1 DEF OutputsInv, CalmOK
<1>4. Calm => OriginalSet(p)'
  BY <1>2, <1>3, OriginalsStand
<1>. QED
  BY <1>1, <1>4 DEF CalmOK

\* A name that was free holds the new file.
LEMMA LinkStep ==
    ASSUME OutputsInv, NEW p \in Publishers, before' = before, Link(p)
    PROVE  OutputsInv'
<1>. DEFINE n == NextName(p)
<1>1. publisher[p].pc = "commit" /\ UNCHANGED <<hidden, holder, foreign, cut>>
  BY DEF Link, PublisherAt
<1>2. OutputsTyped /\ PrefixOK(p) /\ HiddenOK(p)
  BY DEF OutputsInv
<1>3. CASE Abort(p, "failed") /\ UNCHANGED <<directory, committed>>
  BY <1>1, <1>3, AbortStep
<1>4. CASE MayLink(p) /\ directory' = [directory EXCEPT ![n] = p] /\ Published(p, FALSE)
  <2>1. /\ n \in NameSet /\ ~IsCommitted(p, n)
        /\ \A i \in 1 .. Len(committed[p]) : Names[i] # n
    BY <1>1, NextIsNew
  <2>2. p \in Writers /\ p # "none" /\ Len(committed[p]) \in Nat /\ Len(committed[p]) <= Len(Names)
    BY <1>2, OfPublisher DEF PrefixOK
  <2>3. /\ directory' \in [NameSet -> Writers] /\ directory'[n] = p /\ directory[n] = "none"
        /\ \A m \in NameSet \ {n} : directory'[m] = directory[m]
    BY <1>2, <1>4, <2>1, <2>2 DEF OutputsTyped, MayLink
  <2>4. PICK pc \in {"commit", "decide"}, next \in 1 .. Len(Names) :
           Goes(p, pc, next, publisher[p].exit)
    BY <1>1, <1>4, PublishedGoes
  <2>5. /\ committed' \in [Publishers -> Seq(PublishedItem)]
        /\ \A q \in Publishers \ {p} : committed'[q] = committed[q]
        /\ Len(committed'[p]) = Len(committed[p]) + 1
        /\ \A i \in 1 .. Len(committed[p]) : committed'[p][i] = committed[p][i]
        /\ committed'[p][Len(committed[p]) + 1] = [name |-> n, backup |-> FALSE]
        /\ Names[Len(committed[p]) + 1] = n
        /\ \A m \in NameSet : IsCommitted(p, m)' <=> IsCommitted(p, m) \/ m = n
        /\ PrefixOK(p)'
    BY <1>1, <1>4, PublishedGoes
  <2>6. OutputsTyped'
    BY <1>1, <1>2, <2>3, <2>4, <2>5 DEF OutputsTyped, Goes
  <2>7. ~IsHidden(p, n) /\ (\A m : IsHidden(p, m)' <=> IsHidden(p, m))
    BY <1>1, <1>2, <2>1 DEF HiddenOK, IsHidden
  <2>8. HiddenOK(p)'
    <3>1. publisher'[p].pc # "replace" /\ publisher'[p].overwrite = publisher[p].overwrite
      BY <2>4 DEF Goes
    <3>2. \A i \in 1 .. Len(committed'[p]) :
             committed'[p][i].backup <=> IsHidden(p, Names[i])'
      <4>1. ~committed'[p][Len(committed[p]) + 1].backup
        BY <2>5
      <4>2. \A i \in 1 .. Len(committed[p]) : committed[p][i].backup <=> IsHidden(p, Names[i])
        BY <1>1, <1>2 DEF HiddenOK, Holding
      <4>3. \A i \in 1 .. Len(committed'[p]) :
               i \in 1 .. Len(committed[p]) \/ i = Len(committed[p]) + 1
        BY <2>2, <2>5
      <4>. QED
        BY <2>5, <2>7, <4>1, <4>2, <4>3
    <3>3. \A h \in hidden'[p] : IsCommitted(p, h.name)'
      <4>1. \A h \in hidden[p] : h.name \in NameSet
        BY <1>2, OfPublisher DEF PreviousFiles
      <4>. QED
        BY <1>1, <1>2, <2>5, <4>1 DEF HiddenOK
    <3>. QED
      BY <1>1, <1>2, <3>1, <3>2, <3>3 DEF HiddenOK
  <2>9. PreviousSafe'
    <3>1. \A m \in NameSet : SafeName(m) => SafeName(m)'
      BY <1>1, <2>3, <2>4 DEF SafeName, PublisherAt, Goes
    <3>. QED
      BY <1>1, <3>1, PreviousStands
  <2>10. CalmOK'
    <3>1. \A m \in NameSet, w \in Writers : Originally(p, m, w) => Originally(p, m, w)'
      BY <1>1, <2>1, <2>3, <2>5, <2>7 DEF Originally
    <3>2. Calm => \A i \in 1 .. Len(committed'[p]) : directory'[Names[i]] = p
      <4>1. holder = p
        BY <1>1, HolderAlone DEF Holding
      <4>2. Calm => \A i \in 1 .. Len(committed[p]) : directory[Names[i]] = p
        BY <4>1 DEF OutputsInv, CalmOK
      <4>3. \A i \in 1 .. Len(committed[p]) : Names[i] \in NameSet \ {n}
        BY <2>1, <2>2, NamesOrdered
      <4>. QED
        BY <2>2, <2>3, <2>5, <4>2, <4>3
    <3>. QED
      BY <1>1, <3>1, <3>2, CalmStands DEF Holding, Calm
  <2>11. holder = p
    BY <1>1, HolderAlone DEF Holding
  <2>. QED
    BY <1>1, <2>4, <2>5, <2>6, <2>8, <2>9, <2>10, <2>11, OutputsComposed DEF Goes
<1>. QED
  BY <1>3, <1>4 DEF Link

----------------------------------------------------------------------------
\* The .previous file of one name goes.
LEMMA HiddenLess ==
    ASSUME OutputsTyped, NEW p \in Publishers, NEW n,
           hidden' = [hidden EXCEPT ![p] = {h \in @ : h.name # n}]
    PROVE  /\ hidden' \in [Publishers -> SUBSET PreviousFiles]
           /\ hidden'[p] = {h \in hidden[p] : h.name # n}
           /\ \A q \in Publishers \ {p} : hidden'[q] = hidden[q]
           /\ \A m : m # n => (IsHidden(p, m)' <=> IsHidden(p, m))
<1>1. /\ hidden' \in [Publishers -> SUBSET PreviousFiles]
      /\ hidden'[p] = {h \in hidden[p] : h.name # n}
      /\ \A q \in Publishers \ {p} : hidden'[q] = hidden[q]
  BY DEF OutputsTyped
<1>. QED
  BY <1>1 DEF IsHidden

\* The new file takes the place of the one that has been kept.
LEMMA ReplaceStep ==
    ASSUME OutputsInv, NEW p \in Publishers, before' = before, Replace(p)
    PROVE  OutputsInv'
<1>. DEFINE n == NextName(p)
<1>1. publisher[p].pc = "replace" /\ UNCHANGED <<holder, foreign, cut>> /\ publisher[p].pc \in Holding
  BY DEF Replace, PublisherAt, Holding
<1>2. OutputsTyped /\ PrefixOK(p) /\ HiddenOK(p)
  BY DEF OutputsInv
<1>3. /\ n \in NameSet /\ ~IsCommitted(p, n)
      /\ \A i \in 1 .. Len(committed[p]) : Names[i] # n
  BY <1>1, NextIsNew
<1>4. /\ p \in Writers /\ p # "none" /\ Len(committed[p]) \in Nat /\ Len(committed[p]) <= Len(Names)
      /\ hidden[p] \in SUBSET PreviousFiles
  BY <1>2, OfPublisher DEF PrefixOK
<1>5. PICK file \in hidden[p] : file.name = n /\ (file.of = directory[n] \/ n \in foreign)
  BY <1>1, <1>2 DEF HiddenOK
<1>6. \A h \in hidden[p] : h.name = n => h = file
  BY <1>2, <1>5 DEF HiddenOK
<1>7. file = [name |-> n, of |-> file.of]
  BY <1>4, <1>5 DEF PreviousFiles
<1>8. \A i \in 1 .. Len(committed[p]) : committed[p][i].backup <=> IsHidden(p, Names[i])
  BY <1>1, <1>2 DEF HiddenOK
<1>9. holder = p
  BY <1>1, HolderAlone
<1>10. CASE directory' = [directory EXCEPT ![n] = p] /\ Published(p, TRUE) /\ UNCHANGED hidden
  <2>1. /\ directory' \in [NameSet -> Writers] /\ directory'[n] = p
        /\ \A m \in NameSet \ {n} : directory'[m] = directory[m]
    BY <1>2, <1>3, <1>4, <1>10 DEF OutputsTyped
  <2>2. PICK pc \in {"commit", "decide"}, next \in 1 .. Len(Names) :
           Goes(p, pc, next, publisher[p].exit)
    BY <1>1, <1>10, PublishedGoes
  <2>3. /\ committed' \in [Publishers -> Seq(PublishedItem)]
        /\ \A q \in Publishers \ {p} : committed'[q] = committed[q]
        /\ Len(committed'[p]) = Len(committed[p]) + 1
        /\ \A i \in 1 .. Len(committed[p]) : committed'[p][i] = committed[p][i]
        /\ committed'[p][Len(committed[p]) + 1] = [name |-> n, backup |-> TRUE]
        /\ Names[Len(committed[p]) + 1] = n
        /\ \A m \in NameSet : IsCommitted(p, m)' <=> IsCommitted(p, m) \/ m = n
        /\ PrefixOK(p)'
    BY <1>1, <1>10, PublishedGoes
  <2>4. OutputsTyped'
    BY <1>1, <1>2, <1>10, <2>1, <2>2, <2>3 DEF OutputsTyped, Goes
  <2>5. IsHidden(p, n) /\ (\A m : IsHidden(p, m)' <=> IsHidden(p, m))
    BY <1>5, <1>10 DEF IsHidden
  <2>6. HiddenOK(p)'
    <3>1. publisher'[p].pc # "replace" /\ publisher'[p].overwrite = publisher[p].overwrite
      BY <2>2 DEF Goes
    <3>2. \A i \in 1 .. Len(committed'[p]) :
             committed'[p][i].backup <=> IsHidden(p, Names[i])'
      <4>1. committed'[p][Len(committed[p]) + 1].backup
        BY <2>3
      <4>2. \A i \in 1 .. Len(committed'[p]) :
               i \in 1 .. Len(committed[p]) \/ i = Len(committed[p]) + 1
        BY <1>4, <2>3
      <4>. QED
        BY <1>8, <2>3, <2>5, <4>1, <4>2
    <3>3. \A h \in hidden'[p] : IsCommitted(p, h.name)'
      <4>1. \A h \in hidden[p] : h.name \in NameSet
        BY <1>4 DEF PreviousFiles
      <4>. QED
        BY <1>1, <1>2, <1>10, <2>3, <4>1 DEF HiddenOK
    <3>. QED
      BY <1>2, <1>10, <3>1, <3>2, <3>3 DEF HiddenOK
  <2>7. PreviousSafe'
    <3>1. ASSUME NEW m \in NameSet \ foreign', SafeName(m) PROVE SafeName(m)'
      <4>1. CASE m = n /\ directory[n] = "old"
        <5>1. [name |-> n, of |-> "old"] \in hidden'[p]
          BY <1>1, <1>5, <1>7, <1>10, <3>1, <4>1
        <5>. QED
          BY <4>1, <5>1 DEF SafeName
      <4>2. CASE ~(m = n /\ directory[n] = "old")
        BY <1>1, <1>10, <2>1, <2>2, <3>1, <4>2 DEF SafeName, PublisherAt, Goes
      <4>. QED
        BY <4>1, <4>2
    <3>. QED
      BY <1>1, <3>1, PreviousStands
  <2>8. CalmOK'
    <3>1. ASSUME Calm, NEW m \in NameSet, NEW w \in Writers, Originally(p, m, w)
          PROVE  Originally(p, m, w)'
      <4>1. CASE m = n
        <5>1. directory[n] = w /\ file.of = directory[n]
          BY <1>3, <1>5, <3>1, <4>1 DEF Originally, Calm
        <5>2. [name |-> m, of |-> w] \in hidden'[p] /\ IsCommitted(p, m)' /\ IsHidden(p, m)'
          BY <1>3, <1>5, <1>7, <1>10, <2>3, <2>5, <4>1, <5>1
        <5>. QED
          BY <5>2 DEF Originally
      <4>2. CASE m # n
        BY <1>10, <2>1, <2>3, <2>5, <3>1, <4>2 DEF Originally
      <4>. QED
        BY <4>1, <4>2
    <3>2. Calm => \A i \in 1 .. Len(committed'[p]) : directory'[Names[i]] = p
      <4>1. Calm => \A i \in 1 .. Len(committed[p]) : directory[Names[i]] = p
        BY <1>9 DEF OutputsInv, CalmOK
      <4>2. \A i \in 1 .. Len(committed[p]) : Names[i] \in NameSet \ {n}
        BY <1>3, <1>4, NamesOrdered
      <4>. QED
        BY <1>4, <2>1, <2>3, <4>1, <4>2
    <3>3. Calm' => Calm
      BY <1>1 DEF Calm
    <3>. QED
      BY <1>1, <3>1, <3>2, <3>3, CalmStands
  <2>. QED
    BY <1>1, <1>9, <1>10, <2>2, <2>3, <2>4, <2>6, <2>7, <2>8, OutputsComposed DEF Goes
<1>11. CASE /\ Abort(p, "failed") /\ UNCHANGED <<directory, committed>>
            /\ hidden' = [hidden EXCEPT ![p] = {h \in @ : h.name # n}]
  <2>1. Goes(p, "rollback", publisher[p].next, "failed")
    BY <1>2, <1>11, ExitGoes DEF Abort, Holding
  <2>2. /\ hidden' \in [Publishers -> SUBSET PreviousFiles]
        /\ hidden'[p] = {h \in hidden[p] : h.name # n}
        /\ \A q \in Publishers \ {p} : hidden'[q] = hidden[q]
        /\ \A m : m # n => (IsHidden(p, m)' <=> IsHidden(p, m))
    BY <1>2, <1>11, HiddenLess
  <2>3. OutputsTyped'
    BY <1>1, <1>2, <1>11, <2>1, <2>2 DEF OutputsTyped, Goes
  <2>4. PrefixOK(p)'
    BY <1>1, <1>2, <1>11, <2>1 DEF Goes, PrefixOK, Holding
  <2>5. HiddenOK(p)'
    <3>1. publisher'[p].pc = "rollback" /\ publisher'[p].overwrite = publisher[p].overwrite
      BY <2>1 DEF Goes
    <3>2. \A i \in 1 .. Len(committed'[p]) : committed'[p][i].backup <=> IsHidden(p, Names[i])'
      BY <1>3, <1>8, <1>11, <2>2
    <3>. QED
      BY <1>2, <2>2, <3>1, <3>2 DEF HiddenOK
  <2>6. PreviousSafe'
    <3>1. ASSUME NEW m \in NameSet \ foreign', SafeName(m) PROVE SafeName(m)'
      <4>1. CASE m = n /\ [name |-> m, of |-> "old"] \in hidden[p]
        <5>1. [name |-> m, of |-> "old"].of = "old" /\ [name |-> m, of |-> "old"] = file
          BY <1>6, <4>1
        <5>2. directory[n] = "old"
          BY <1>1, <1>5, <3>1, <4>1, <5>1
        <5>. QED
          BY <1>11, <4>1, <5>2 DEF SafeName
      <4>2. CASE ~(m = n /\ [name |-> m, of |-> "old"] \in hidden[p])
        <5>1. [name |-> m, of |-> "old"] \in hidden[p] => [name |-> m, of |-> "old"] \in hidden'[p]
          BY <2>2, <4>2
        <5>. QED
          BY <1>1, <1>11, <2>1, <2>2, <3>1, <5>1 DEF SafeName, PublisherAt, Goes
      <4>. QED
        BY <4>1, <4>2
    <3>. QED
      BY <1>1, <3>1, PreviousStands
  <2>7. CalmOK'
    <3>1. ASSUME NEW m \in NameSet, NEW w \in Writers, Originally(p, m, w)
          PROVE  Originally(p, m, w)'
      <4>1. IsCommitted(p, m)' <=> IsCommitted(p, m)
        BY <1>11 DEF IsCommitted
      <4>2. IsCommitted(p, m) => m # n /\ ([name |-> m, of |-> w] \in hidden[p] =>
                                           [name |-> m, of |-> w] \in hidden'[p])
        BY <1>3, <2>2
      <4>. QED
        BY <1>11, <2>2, <3>1, <4>1, <4>2 DEF Originally
    <3>2. Calm => \A i \in 1 .. Len(committed'[p]) : directory'[Names[i]] = p
      BY <1>9, <1>11 DEF OutputsInv, CalmOK
    <3>3. Calm' => Calm
      BY <1>1 DEF Calm
    <3>. QED
      BY <1>1, <3>1, <3>2, <3>3, CalmStands
  <2>. QED
    BY <1>1, <1>9, <1>11, <2>1, <2>2, <2>3, <2>4, <2>5, <2>6, <2>7, OutputsComposed DEF Goes
<1>. QED
  BY <1>10, <1>11 DEF Replace

----------------------------------------------------------------------------
\* The last of the published names is taken off.
LEMMA CommittedShorter ==
    ASSUME OutputsInv, NEW p \in Publishers, publisher[p].pc \in Holding,
           Len(committed[p]) # 0, Undone(p)
    PROVE  LET n == Last(committed[p]).name
               k == Len(committed[p]) - 1
           IN  /\ committed' \in [Publishers -> Seq(PublishedItem)]
               /\ \A q \in Publishers \ {p} : committed'[q] = committed[q]
               /\ k \in Nat /\ k < Len(Names) /\ Len(committed'[p]) = k
               /\ \A i \in 1 .. k : committed'[p][i] = committed[p][i]
               /\ n \in NameSet /\ n = Names[k + 1] /\ Last(committed[p]) = committed[p][k + 1]
               /\ \A i \in 1 .. k : Names[i] # n /\ Names[i] \in NameSet
               /\ \A m \in NameSet : IsCommitted(p, m)' <=> IsCommitted(p, m) /\ m # n
               /\ IsCommitted(p, n)
<1>. DEFINE n == Last(committed[p]).name
            k == Len(committed[p]) - 1
<1>1. OutputsTyped /\ PrefixOK(p)
  BY DEF OutputsInv
<1>2. /\ committed[p] \in Seq(PublishedItem) /\ Len(committed[p]) \in Nat
      /\ Len(committed[p]) <= Len(Names) /\ Len(committed[p]) # 0
  BY <1>1, OfPublisher DEF PrefixOK
<1>3. k \in Nat /\ k < Len(Names) /\ k + 1 = Len(committed[p]) /\ k + 1 \in 1 .. Len(Names)
  BY <1>2, NamesOrdered
<1>4. Last(committed[p]) = committed[p][k + 1]
  BY <1>3 DEF Last
<1>5. n = Names[k + 1] /\ n \in NameSet
  BY <1>1, <1>2, <1>3, <1>4, NamesOrdered DEF PrefixOK
<1>6. /\ Front(committed[p]) \in Seq(PublishedItem) /\ Len(Front(committed[p])) = k
      /\ \A i \in 1 .. k : Front(committed[p])[i] = committed[p][i]
  <2>1. 1 \in 1 .. Len(committed[p]) + 1 /\ k \in 1 - 1 .. Len(committed[p])
    BY <1>2, <1>3
  <2>2. \A i \in 1 .. k : committed[p][i] \in PublishedItem
    BY <1>2, <1>3, ElementOfSeq
  <2>. QED
    BY <1>2, <1>3, <2>1, <2>2, SubSeqProperties DEF Front
<1>7. /\ committed' \in [Publishers -> Seq(PublishedItem)]
      /\ \A q \in Publishers \ {p} : committed'[q] = committed[q]
      /\ committed'[p] = Front(committed[p])
  BY <1>1, <1>6 DEF Undone, OutputsTyped
<1>8. \A i \in 1 .. k : Names[i] # n /\ Names[i] \in NameSet
  BY <1>3, <1>5, NamesOrdered
<1>9. \A m \in NameSet : IsCommitted(p, m)' <=> IsCommitted(p, m) /\ m # n
  <2>1. \A i : i \in 1 .. k + 1 <=> i \in 1 .. k \/ i = k + 1
    BY <1>3
  <2>. QED
    BY <1>3, <1>5, <1>6, <1>7, <1>8, <2>1 DEF IsCommitted
<1>10. IsCommitted(p, n)
  BY <1>2, <1>3, <1>5 DEF IsCommitted
<1>. QED
  BY <1>3, <1>4, <1>5, <1>6, <1>7, <1>8, <1>9, <1>10

\* A name that is not undone, because somebody else has it or a call has failed.
LEMMA SkipStep ==
    ASSUME OutputsInv, NEW p \in Publishers, NEW exit, exit # "ok", before' = before,
           publisher[p].pc \in {"rollback", "undo"},
           Len(committed[p]) # 0, Undone(p), Goes(p, "rollback", publisher[p].next, exit),
           UNCHANGED <<directory, hidden, holder, foreign>>, ~Calm'
    PROVE  OutputsInv'
<1>. DEFINE k == Len(committed[p]) - 1
<1>1. OutputsTyped /\ PrefixOK(p) /\ HiddenOK(p) /\ publisher[p].pc \in Holding
  BY DEF OutputsInv, Holding
<1>2. /\ committed' \in [Publishers -> Seq(PublishedItem)]
      /\ \A q \in Publishers \ {p} : committed'[q] = committed[q]
      /\ k \in Nat /\ k < Len(Names) /\ Len(committed'[p]) = k
      /\ \A i \in 1 .. k : committed'[p][i] = committed[p][i]
      /\ \A i \in 1 .. k : i \in 1 .. Len(committed[p])
  BY <1>1, CommittedShorter
<1>3. OutputsTyped'
  BY <1>1, <1>2 DEF OutputsTyped, Goes
<1>4. PrefixOK(p)' /\ HiddenOK(p)'
  <2>. HIDE DEF k
  <2>1. PrefixOK(p)'
    <3>1. /\ publisher'[p].pc = "rollback" /\ publisher'[p].next = publisher[p].next
          /\ publisher'[p].exit = exit /\ holder' = holder
      BY <1>1, <1>2 DEF Goes
    <3>2. holder' = p <=> publisher'[p].pc \in Holding
      BY <1>1, <3>1 DEF PrefixOK, Holding
    <3>3. Len(committed'[p]) <= Len(Names)
      BY <1>2, NamesOrdered
    <3>4. \A i \in 1 .. Len(committed'[p]) : committed'[p][i].name = Names[i]
      BY <1>1, <1>2 DEF PrefixOK
    <3>. QED
      BY <3>1, <3>2, <3>3, <3>4 DEF PrefixOK
  <2>2. HiddenOK(p)'
    BY <1>1, <1>2 DEF HiddenOK, IsHidden, Goes
  <2>. QED
    BY <2>1, <2>2
<1>5. PreviousSafe'
  <2>1. \A n \in NameSet : SafeName(n) => SafeName(n)'
    BY DEF SafeName, PublisherAt, Goes
  <2>. QED
    BY <2>1, PreviousStands
<1>6. CalmOK'
  BY DEF CalmOK
<1>. QED
  BY <1>2, <1>3, <1>4, <1>5, <1>6, OutputsComposed DEF Goes

LEMMA LookBackStep ==
    ASSUME OutputsInv, NEW p \in Publishers, before' = before, LookBack(p)
    PROVE  OutputsInv'
<1>1. publisher[p].pc = "rollback" /\ UNCHANGED <<directory, hidden, holder, foreign>>
  BY DEF LookBack, PublisherAt
<1>2. OutputsTyped /\ PrefixOK(p) /\ HiddenOK(p) /\ publisher[p].pc \in Holding
  BY <1>1 DEF OutputsInv, Holding
<1>3. publisher[p].exit # "ok"
  BY <1>1, <1>2 DEF PrefixOK
<1>4. CASE committed[p] = <<>> /\ PublisherTo(p, "clean") /\ UNCHANGED <<committed, cut>>
  <2>1. Goes(p, "clean", publisher[p].next, publisher[p].exit)
    BY <1>2, <1>4, ToGoes DEF Holding
  <2>2. Len(committed[p]) = 0
    BY <1>4
  <2>3. PrefixOK(p)' /\ HiddenOK(p)'
    BY <1>1, <1>2, <1>3, <1>4, <2>1, <2>2 DEF Goes, PrefixOK, HiddenOK, Holding, IsHidden
  <2>4. Calm' => Calm
    BY <1>1, <1>4 DEF Calm
  <2>. QED
    BY <1>1, <1>4, <2>1, <2>3, <2>4, RowStep
<1>5. CASE /\ committed[p] # <<>> /\ PublisherTo(p, "undo") /\ UNCHANGED <<committed, cut>>
           /\ StillMine(p, Last(committed[p]).name)
  <2>1. Goes(p, "undo", publisher[p].next, publisher[p].exit)
    BY <1>2, <1>5, ToGoes DEF Holding
  <2>2. Len(committed[p]) # 0
    BY <1>2, <1>5, OfPublisher, EmptySeq
  <2>3. directory[Names[Len(committed[p])]] = p
    <3>1. Last(committed[p]).name = Names[Len(committed[p])]
      BY <1>2, <2>2, OfPublisher DEF PrefixOK, Last
    <3>. QED
      BY <1>5, <3>1 DEF StillMine
  <2>4. PrefixOK(p)' /\ HiddenOK(p)'
    BY <1>1, <1>2, <1>3, <1>5, <2>1, <2>2, <2>3 DEF Goes, PrefixOK, HiddenOK, Holding, IsHidden
  <2>5. Calm' => Calm
    BY <1>1, <1>5 DEF Calm
  <2>. QED
    BY <1>1, <1>5, <2>1, <2>4, <2>5, RowStep
<1>6. CASE /\ committed[p] # <<>> /\ Undone(p) /\ UNCHANGED cut
           /\ ~StillMine(p, Last(committed[p]).name)
           /\ publisher' = [publisher EXCEPT
                 ![p].exit = IF Last(committed[p]).backup THEN "conflict" ELSE @]
  <2>. DEFINE exit == IF Last(committed[p]).backup THEN "conflict" ELSE publisher[p].exit
              place == [publisher[p] EXCEPT !.exit = exit]
  <2>1. Len(committed[p]) # 0
    BY <1>2, <1>6, OfPublisher, EmptySeq
  <2>2. exit # "ok" /\ exit \in {"none", "failed", "ok", "killed", "conflict"}
    BY <1>2, <1>3, RowIs
  <2>3. Goes(p, "rollback", publisher[p].next, exit)
    <3>1. publisher' = [publisher EXCEPT ![p] = place]
      BY <1>6
    <3>. HIDE DEF exit
    <3>2. /\ place \in PublisherRow /\ place.overwrite = publisher[p].overwrite
          /\ place.pc = "rollback" /\ place.next = publisher[p].next /\ place.exit = exit
      BY <1>1, <1>2, <2>2, OfPublisher DEF PublisherRow
    <3>. HIDE DEF place
    <3>. QED
      BY <1>2, <3>1, <3>2, PublisherGoes
  <2>4. ~Calm'
    <3>1. holder = p
      BY <1>2, HolderAlone
    <3>2. Calm => directory[Last(committed[p]).name] = p
      <4>1. Calm => \A i \in 1 .. Len(committed[p]) : directory[Names[i]] = p
        BY <3>1 DEF OutputsInv, CalmOK
      <4>2. /\ Last(committed[p]).name = Names[Len(committed[p]) - 1 + 1]
            /\ Len(committed[p]) - 1 \in Nat
        BY <1>2, <1>6, <2>1, CommittedShorter
      <4>3. Len(committed[p]) - 1 + 1 \in 1 .. Len(committed[p])
        BY <1>2, <4>2, OfPublisher
      <4>. QED
        BY <4>1, <4>2, <4>3
    <3>3. Calm' => Calm
      BY <1>1, <1>6 DEF Calm
    <3>. QED
      BY <1>6, <3>2, <3>3 DEF StillMine
  <2>. HIDE DEF exit
  <2>. QED
    BY <1>1, <1>6, <2>1, <2>2, <2>3, <2>4, SkipStep
<1>7. CASE committed[p] # <<>> /\ Undone(p) /\ cut' = TRUE /\ UNCHANGED publisher
  <2>1. Len(committed[p]) # 0
    BY <1>2, <1>7, OfPublisher, EmptySeq
  <2>2. Goes(p, "rollback", publisher[p].next, publisher[p].exit)
    BY <1>1, <1>2, <1>7 DEF Goes, OutputsTyped
  <2>3. ~Calm'
    BY <1>7, Zenon DEF Calm
  <2>. QED
    BY <1>1, <1>3, <1>7, <2>1, <2>2, <2>3, SkipStep
<1>. QED
  BY <1>4, <1>5, <1>6, <1>7 DEF LookBack

----------------------------------------------------------------------------
\* What a name is put back to: its .previous file, or nothing.
LEMMA RestoredIs ==
    ASSUME OutputsInv, NEW p \in Publishers, publisher[p].pc \in Holding,
           NEW i \in 1 .. Len(committed[p])
    PROVE  LET item == committed[p][i]
               w == Restored(p, item)
           IN  /\ w \in Writers
               /\ \A h \in hidden[p] : h.name = Names[i] => h.of = w
               /\ ~IsHidden(p, Names[i]) => w = "none"
<1>. DEFINE item == committed[p][i]
<1>1. OutputsTyped /\ HiddenOK(p) /\ PrefixOK(p)
  BY DEF OutputsInv
<1>2. item.name = Names[i] /\ (item.backup <=> IsHidden(p, Names[i]))
  BY <1>1 DEF PrefixOK, HiddenOK
<1>3. hidden[p] \in SUBSET PreviousFiles
  BY <1>1, OfPublisher
<1>. HIDE DEF item
<1>4. CASE IsHidden(p, Names[i])
  <2>1. PICK h \in hidden[p] : h.name = Names[i]
    BY <1>4 DEF IsHidden
  <2>2. \A g \in hidden[p] : g.name = Names[i] <=> g = h
    BY <1>1, <2>1 DEF HiddenOK
  <2>3. PreviousFile(p, Names[i]) = h
    BY <2>1, <2>2 DEF PreviousFile
  <2>4. Restored(p, item) = h.of
    BY <1>2, <1>4, <2>3 DEF Restored
  <2>. QED
    BY <1>3, <1>4, <2>1, <2>2, <2>4 DEF PreviousFiles, item
<1>5. CASE ~IsHidden(p, Names[i])
  <2>1. Restored(p, item) = "none"
    BY <1>2, <1>5 DEF Restored
  <2>. QED
    BY <1>5, <2>1 DEF IsHidden, Writers, item
<1>. QED
  BY <1>4, <1>5

LEMMA PutBackStep ==
    ASSUME OutputsInv, NEW p \in Publishers, before' = before, Undo(p)
    PROVE  OutputsInv'
<1>. DEFINE item == Last(committed[p])
            n == item.name
            k == Len(committed[p]) - 1
<1>1. /\ publisher[p].pc = "undo" /\ publisher[p].pc \in Holding
      /\ UNCHANGED <<holder, foreign>> /\ Undone(p) /\ PublisherTo(p, "rollback")
  BY DEF Undo, PublisherAt, Holding
<1>2. OutputsTyped /\ PrefixOK(p) /\ HiddenOK(p)
  BY DEF OutputsInv
<1>3. publisher[p].exit # "ok" /\ Len(committed[p]) # 0 /\ Len(committed[p]) \in Nat
  BY <1>1, <1>2, OfPublisher DEF PrefixOK
<1>4. Goes(p, "rollback", publisher[p].next, publisher[p].exit)
  BY <1>1, <1>2, ToGoes DEF Holding
<1>5. CASE cut' = TRUE /\ UNCHANGED <<directory, hidden>>
  <2>1. ~Calm'
    BY <1>5, Zenon DEF Calm
  <2>. QED
    BY <1>1, <1>3, <1>4, <1>5, <2>1, SkipStep
<1>6. CASE /\ directory' = [directory EXCEPT ![n] = Restored(p, item)]
           /\ hidden' = [hidden EXCEPT ![p] = {h \in @ : h.name # n}]
           /\ UNCHANGED cut
  <2>1. /\ committed' \in [Publishers -> Seq(PublishedItem)]
        /\ \A q \in Publishers \ {p} : committed'[q] = committed[q]
        /\ k \in Nat /\ k < Len(Names) /\ Len(committed'[p]) = k
        /\ \A i \in 1 .. k : committed'[p][i] = committed[p][i]
        /\ n \in NameSet /\ n = Names[k + 1] /\ item = committed[p][k + 1]
        /\ \A i \in 1 .. k : Names[i] # n /\ Names[i] \in NameSet
        /\ \A m \in NameSet : IsCommitted(p, m)' <=> IsCommitted(p, m) /\ m # n
        /\ IsCommitted(p, n)
    BY <1>1, <1>3, CommittedShorter
  <2>2. k + 1 \in 1 .. Len(committed[p]) /\ (\A i \in 1 .. k : i \in 1 .. Len(committed[p]))
    BY <1>3, <2>1
  <2>3. PICK w \in Writers :
           /\ w = Restored(p, item)
           /\ \A h \in hidden[p] : h.name = n => h.of = w
           /\ ~IsHidden(p, n) => w = "none"
    BY <1>1, <2>1, <2>2, RestoredIs
  <2>. HIDE DEF item, n, k
  <2>4. /\ directory' \in [NameSet -> Writers] /\ directory'[n] = w
        /\ \A m \in NameSet \ {n} : directory'[m] = directory[m]
    BY <1>2, <1>6, <2>1, <2>3 DEF OutputsTyped
  <2>5. /\ hidden' \in [Publishers -> SUBSET PreviousFiles]
        /\ hidden'[p] = {h \in hidden[p] : h.name # n}
        /\ \A q \in Publishers \ {p} : hidden'[q] = hidden[q]
        /\ \A m : m # n => (IsHidden(p, m)' <=> IsHidden(p, m))
    BY <1>2, <1>6, HiddenLess
  <2>6. OutputsTyped'
    BY <1>1, <1>2, <1>4, <2>1, <2>4, <2>5 DEF OutputsTyped, Goes
  <2>7. PrefixOK(p)'
    <3>1. /\ publisher'[p].pc = "rollback" /\ publisher'[p].exit # "ok" /\ holder' = p
          /\ Len(committed'[p]) <= Len(Names)
      BY <1>1, <1>3, <1>4, <2>1, HolderAlone, NamesOrdered DEF Goes
    <3>2. \A i \in 1 .. Len(committed'[p]) : committed'[p][i].name = Names[i]
      BY <1>2, <2>1, <2>2 DEF PrefixOK
    <3>. QED
      BY <3>1, <3>2 DEF PrefixOK, Holding
  <2>8. HiddenOK(p)'
    <3>1. publisher'[p].pc = "rollback" /\ publisher'[p].overwrite = publisher[p].overwrite
      BY <1>4 DEF Goes
    <3>2. \A i \in 1 .. k : committed'[p][i].backup <=> IsHidden(p, Names[i])'
      <4>1. \A i \in 1 .. k : committed[p][i].backup <=> IsHidden(p, Names[i])
        BY <1>1, <1>2, <2>2 DEF HiddenOK
      <4>. QED
        BY <2>1, <2>5, <4>1
    <3>. QED
      BY <1>2, <2>1, <2>5, <3>1, <3>2 DEF HiddenOK
  <2>9. holder = p
    BY <1>1, HolderAlone
  <2>12. n = Names[Len(committed[p])]
    BY <1>3, <2>1 DEF k
  <2>10. PreviousSafe'
    <3>1. ASSUME NEW m \in NameSet \ foreign', SafeName(m) PROVE SafeName(m)'
      <4>1. CASE m = n /\ [name |-> m, of |-> "old"] \in hidden[p]
        <5>1. w = "old"
          BY <2>3, <4>1
        <5>. QED
          BY <2>4, <4>1, <5>1 DEF SafeName
      <4>2. CASE m = n /\ [name |-> m, of |-> "old"] \notin hidden[p]
        <5>1. directory[n] = p /\ p # "old"
          BY <1>1, <1>2, <2>1, <2>12, <3>1, <4>2, OfPublisher DEF PrefixOK
        <5>. QED
          BY <1>1, <1>4, <2>5, <3>1, <4>2, <5>1 DEF SafeName, PublisherAt, Goes
      <4>3. CASE m # n
        <5>1. [name |-> m, of |-> "old"] \in hidden[p] => [name |-> m, of |-> "old"] \in hidden'[p]
          BY <2>5, <4>3
        <5>. QED
          BY <1>1, <1>4, <2>4, <2>5, <3>1, <4>3, <5>1 DEF SafeName, PublisherAt, Goes
      <4>. QED
        BY <4>1, <4>2, <4>3
    <3>. QED
      BY <1>1, <3>1, PreviousStands
  <2>11. CalmOK'
    <3>1. ASSUME NEW m \in NameSet, NEW v \in Writers, Originally(p, m, v)
          PROVE  Originally(p, m, v)'
      <4>1. CASE m = n
        <5>1. IsHidden(p, n) => [name |-> n, of |-> v] \in hidden[p]
          BY <2>1, <3>1, <4>1 DEF Originally
        <5>2. w = v
          BY <2>1, <2>3, <3>1, <4>1, <5>1 DEF Originally
        <5>. QED
          BY <2>1, <2>4, <4>1, <5>2 DEF Originally
      <4>2. CASE m # n
        <5>1. [name |-> m, of |-> v] \in hidden[p] => [name |-> m, of |-> v] \in hidden'[p]
          BY <2>5, <4>2
        <5>. QED
          BY <2>1, <2>4, <2>5, <3>1, <4>2, <5>1 DEF Originally
      <4>. QED
        BY <4>1, <4>2
    <3>2. Calm => \A i \in 1 .. Len(committed'[p]) : directory'[Names[i]] = p
      <4>1. Calm => \A i \in 1 .. Len(committed[p]) : directory[Names[i]] = p
        BY <2>9 DEF OutputsInv, CalmOK
      <4>. QED
        BY <2>1, <2>2, <2>4, <4>1
    <3>3. Calm' => Calm
      BY <1>1, <1>6 DEF Calm
    <3>. QED
      BY <1>1, <3>1, <3>2, <3>3, CalmStands
  <2>. QED
    BY <1>1, <1>4, <2>1, <2>5, <2>6, <2>7, <2>8, <2>9, <2>10, <2>11, OutputsComposed DEF Goes
<1>. QED
  BY <1>5, <1>6 DEF Undo

----------------------------------------------------------------------------
\* The lock is given back with a whole set in the directory.
LEMMA CleanStep ==
    ASSUME OutputsInv, NEW p \in Publishers, before' = before, Clean(p)
    PROVE  OutputsInv'
<1>1. /\ publisher[p].pc = "clean" /\ publisher[p].pc \in Holding
      /\ hidden' = [hidden EXCEPT ![p] = KeptBackups(p)]
      /\ holder' = "none" /\ PublisherTo(p, "done")
      /\ UNCHANGED <<directory, committed, foreign, cut>>
  BY DEF Clean, PublisherAt, Holding
<1>2. OutputsTyped /\ PrefixOK(p) /\ HiddenOK(p)
  BY DEF OutputsInv
<1>3. Goes(p, "done", publisher[p].next, publisher[p].exit)
  BY <1>1, <1>2, ToGoes
<1>4. holder = p /\ p # "none" /\ (\A q \in Publishers : q # "none" /\ (holder = q => q = p))
  BY <1>1, <1>2, HolderAlone, OfPublisher
<1>5. KeptBackups(p) \subseteq hidden[p] /\ (publisher[p].exit # "ok" => KeptBackups(p) = hidden[p])
  BY DEF KeptBackups
<1>6. /\ hidden' \in [Publishers -> SUBSET PreviousFiles] /\ hidden'[p] = KeptBackups(p)
      /\ \A q \in Publishers \ {p} : hidden'[q] = hidden[q]
  BY <1>1, <1>2, <1>5 DEF OutputsTyped
<1>7. OutputsTyped'
  BY <1>1, <1>2, <1>3, <1>6 DEF OutputsTyped, Goes
<1>8. PrefixOK(p)' /\ HiddenOK(p)'
  <2>1. PrefixOK(p)'
    BY <1>1, <1>2, <1>3, <1>4 DEF PrefixOK, Goes, Holding
  <2>2. HiddenOK(p)'
    BY <1>1, <1>2, <1>3, <1>5, <1>6 DEF HiddenOK, Goes, Holding
  <2>. QED
    BY <2>1, <2>2
<1>9. PreviousSafe'
  <2>1. ASSUME NEW n \in NameSet, SafeName(n) PROVE SafeName(n)'
    <3>1. CASE publisher[p].exit = "ok" /\ [name |-> n, of |-> "old"] \in hidden[p]
      <4>1. publisher[p].overwrite
        BY <1>2, <3>1 DEF HiddenOK
      <4>. QED
        BY <1>3, <3>1, <4>1 DEF SafeName, PublisherAt, Goes
    <3>2. CASE ~(publisher[p].exit = "ok" /\ [name |-> n, of |-> "old"] \in hidden[p])
      BY <1>1, <1>3, <1>5, <1>6, <2>1, <3>2 DEF SafeName, PublisherAt, Goes
    <3>. QED
      BY <3>1, <3>2
  <2>. QED
    BY <1>1, <2>1, PreviousStands
<1>10. CalmOK'
  <2>1. Calm => OriginalSet(p) /\ (\A i \in 1 .. Len(committed[p]) : directory[Names[i]] = p)
    BY <1>4 DEF OutputsInv, CalmOK
  <2>2. CASE publisher[p].exit = "ok"
    <3>1. Len(committed[p]) = Len(Names)
      BY <1>1, <1>2, <2>2 DEF PrefixOK
    <3>2. Calm => \A n \in NameSet : directory[n] = p
      BY <2>1, <3>1, NamesOrdered
    <3>. QED
      BY <1>1, <1>4, <3>2 DEF CalmOK, Calm, WholeSet
  <2>3. CASE publisher[p].exit # "ok"
    <3>1. Len(committed[p]) = 0 /\ 1 .. 0 = {}
      BY <1>1, <1>2, <2>3 DEF PrefixOK
    <3>2. \A n, w : Originally(p, n, w) <=> directory[n] = w
      BY <3>1 DEF Originally, IsCommitted
    <3>3. OriginalSet(p) => WholeSet
      BY <3>2 DEF OriginalSet, WholeSet
    <3>. QED
      BY <1>1, <1>4, <2>1, <3>3 DEF CalmOK, Calm, WholeSet
  <2>. QED
    BY <2>2, <2>3
<1>. QED
  BY <1>1, <1>3, <1>4, <1>6, <1>7, <1>8, <1>9, <1>10, OutputsComposed DEF Goes

\* A kill leaves the files as they are, and the lock to the next.
LEMMA PublisherKilledStep ==
    ASSUME OutputsInv, NEW p \in Publishers, before' = before, PublisherKilled(p)
    PROVE  OutputsInv'
<1>1. /\ publisher[p].pc # "done"
      /\ holder' = IF holder = p THEN "none" ELSE holder
      /\ publisher' = [publisher EXCEPT ![p].pc = "done", ![p].exit = "killed"]
      /\ UNCHANGED <<directory, hidden, committed, foreign>>
  BY DEF PublisherKilled, PublisherAt
<1>2. OutputsTyped /\ PrefixOK(p) /\ HiddenOK(p)
  BY DEF OutputsInv
<1>3. Goes(p, "done", publisher[p].next, "killed")
  BY <1>1, <1>2, ExitGoes
<1>4. \A q \in Publishers : q # "none"
  BY <1>2, OfPublisher
<1>5. cut' = (cut \/ holder = p)
  BY DEF PublisherKilled
<1>6. Calm' => Calm /\ holder # p
  <2>1. ~cut' => ~cut /\ holder # p
    BY <1>5, Zenon
  <2>. QED
    BY <1>1, <2>1 DEF Calm
<1>7. OutputsTyped'
  BY <1>1, <1>2, <1>3 DEF OutputsTyped, Goes
<1>8. PrefixOK(p)' /\ HiddenOK(p)'
  <2>1. PrefixOK(p)'
    BY <1>1, <1>2, <1>3, <1>4 DEF PrefixOK, Goes, Holding
  <2>2. HiddenOK(p)'
    BY <1>1, <1>2, <1>3 DEF HiddenOK, Goes, Holding
  <2>. QED
    BY <2>1, <2>2
<1>9. PreviousSafe'
  <2>1. \A n \in NameSet : SafeName(n) => SafeName(n)'
    BY <1>1, <1>3 DEF SafeName, PublisherAt, Goes
  <2>. QED
    BY <1>1, <2>1, PreviousStands
<1>10. CalmOK'
  <2>1. CASE holder = p
    BY <1>6, <2>1 DEF CalmOK
  <2>2. CASE holder # p
    <3>1. holder' = holder
      BY <1>1, <2>2
    <3>. QED
      BY <1>1, <1>6, <3>1
         DEF OutputsInv, CalmOK, WholeSet, OriginalSet, Originally, IsCommitted, IsHidden
  <2>. QED
    BY <2>1, <2>2
<1>11. \A q \in Publishers \ {p} : holder' = q <=> holder = q
  BY <1>1, <1>4
<1>. QED
  BY <1>1, <1>3, <1>7, <1>8, <1>9, <1>10, <1>11, OutputsComposed DEF Goes

\* Whoever knows nothing of the lock.
LEMMA SomeoneWritesStep ==
    ASSUME OutputsInv, NEW n \in NameSet, before' = before, SomeoneWrites(n)
    PROVE  OutputsInv'
<1>1. /\ foreign' = foreign \cup {n} /\ directory' = [directory EXCEPT ![n] = "foreign"]
      /\ UNCHANGED <<hidden, committed, publisher, holder>>
  BY DEF SomeoneWrites
<1>2. OutputsTyped
  BY DEF OutputsInv
<1>3. /\ directory' \in [NameSet -> Writers]
      /\ \A m \in NameSet \ {n} : directory'[m] = directory[m]
  BY <1>1, <1>2 DEF OutputsTyped, Writers
<1>4. OutputsTyped'
  BY <1>1, <1>2, <1>3 DEF OutputsTyped
<1>5. ASSUME NEW p \in Publishers PROVE PrefixOK(p)' /\ HiddenOK(p)'
  <2>1. PrefixOK(p) /\ HiddenOK(p)
    BY DEF OutputsInv
  <2>2. Len(committed[p]) # 0 => Names[Len(committed[p])] \in NameSet
    <3>1. Len(committed[p]) \in Nat /\ Len(committed[p]) <= Len(Names)
      BY <1>2, <2>1, OfPublisher DEF PrefixOK
    <3>. QED
      BY <3>1, NamesOrdered
  <2>3. PrefixOK(p)'
    BY <1>1, <1>3, <2>1, <2>2 DEF PrefixOK
  <2>4. \A h \in hidden[p] : h.name \in NameSet
    BY <1>2, OfPublisher DEF PreviousFiles
  <2>5. HiddenOK(p)'
    BY <1>1, <1>3, <2>1, <2>4 DEF HiddenOK, IsHidden, IsCommitted, NextName
  <2>. QED
    BY <2>3, <2>5
<1>6. PreviousSafe'
  <2>1. \A m \in NameSet \ foreign' : SafeName(m) => SafeName(m)'
    BY <1>1, <1>3 DEF SafeName, PublisherAt
  <2>. QED
    BY <1>1, <2>1, PreviousStands
<1>7. CalmOK'
  BY <1>1 DEF CalmOK, Calm
<1>. QED
  BY <1>4, <1>5, <1>6, <1>7 DEF OutputsInv

LEMMA OutputsMove == OutputsInv /\ [OutputsNext]_outputVars => OutputsInv'
<1>. SUFFICES ASSUME OutputsInv, [OutputsNext]_outputVars PROVE OutputsInv'
  OBVIOUS
<1>1. ASSUME before' = before, NEW p \in Publishers, Cancelled(p) PROVE OutputsInv'
  BY <1>1, AbortStep DEF Cancelled
<1>2. ASSUME UNCHANGED outputVars PROVE OutputsInv'
  <2>1. /\ UNCHANGED <<directory, before, hidden, committed, publisher, holder, foreign>>
        /\ UNCHANGED cut
    BY <1>2 DEF outputVars
  <2>2. OutputsTyped'
    BY <2>1 DEF OutputsInv, OutputsTyped
  <2>3. \A p \in Publishers : PrefixOK(p)' /\ HiddenOK(p)'
    <3>1. \A p \in Publishers : PrefixOK(p)'
      BY <2>1 DEF OutputsInv, PrefixOK
    <3>2. \A p \in Publishers : HiddenOK(p)'
      BY <2>1 DEF OutputsInv, HiddenOK, IsHidden, IsCommitted, NextName
    <3>. QED
      BY <3>1, <3>2
  <2>4. PreviousSafe'
    BY <2>1 DEF OutputsInv, PreviousSafe, SafeName, PublisherAt
  <2>5. CalmOK'
    BY <2>1 DEF OutputsInv, CalmOK, Calm, WholeSet, OriginalSet, Originally, IsHidden, IsCommitted
  <2>. QED
    BY <2>2, <2>3, <2>4, <2>5 DEF OutputsInv
<1>. QED
  BY <1>1, <1>2, ConvertStep, LockStep, StageStep, AcceptStep, LinkBackupStep, ReplaceStep,
     LinkStep, LookBackStep, PutBackStep, CleanStep, PublisherKilledStep, SomeoneWritesStep
     DEF OutputsNext, OutputsStep

\* Only a replacement and an undoing take a file away that somebody has written.
LEMMA ForeignStays == OutputsInv /\ [OutputsNext]_outputVars => [ForeignKept]_outputVars
<1>. SUFFICES ASSUME OutputsInv, OutputsNext PROVE ForeignKept
  OBVIOUS
<1>1. OutputsTyped
  BY DEF OutputsInv
<1>2. CASE UNCHANGED directory
  BY <1>2 DEF ForeignKept
<1>3. ASSUME NEW p \in Publishers, PublisherAt(p, "replace") \/ PublisherAt(p, "undo")
      PROVE  ForeignKept
  BY <1>3 DEF ForeignKept
<1>4. ASSUME NEW p \in Publishers, MayLink(p),
             directory' = [directory EXCEPT ![NextName(p)] = p]
      PROVE  ForeignKept
  BY <1>1, <1>4 DEF ForeignKept, MayLink, OutputsTyped
<1>5. ASSUME NEW n \in NameSet, SomeoneWrites(n) PROVE ForeignKept
  BY <1>1, <1>5 DEF ForeignKept, SomeoneWrites, OutputsTyped
<1>6. ASSUME NEW p \in Publishers, Link(p) PROVE ForeignKept
  BY <1>2, <1>4, <1>6 DEF Link
<1>7. ASSUME NEW p \in Publishers, Replace(p) \/ Undo(p) PROVE ForeignKept
  BY <1>3, <1>7 DEF Replace, Undo
<1>. QED
  BY <1>2, <1>5, <1>6, <1>7
     DEF OutputsNext, OutputsStep, _convert_locally, _lock_directory, Cancelled, _stage,
         LinkBackup, Accept, LookBack, Clean, PublisherKilled

\* However many conversions publish into one directory, are cancelled, fail or are killed:
\* while nobody publishes, the directory holds the outputs of one of them or what was there
\* before, a previous file is lost to a successful replacement only, and a file of somebody
\* else in the two windows that the file system leaves (cli/local_outputs.py).
THEOREM FilesStayKept == OutputsSpec => FilesKept
<1>1. OutputsSpec => []OutputsInv
  BY OutputsInitially, OutputsMove, PTL DEF OutputsSpec
<1>2. OutputsSpec => [](OutputsTypeOK /\ OneSet /\ PreviousKept)
  BY <1>1, OutputsSound, PTL
<1>3. OutputsSpec => [][ForeignKept]_outputVars
  BY <1>1, ForeignStays, PTL DEF OutputsSpec
<1>. QED
  BY <1>2, <1>3, PTL DEF FilesKept

----------------------------------------------------------------------------
(* A remote command, its user and the service: what was asked for, what is  *)
(* on its way and what was done, for every command that keeps to its order. *)

\* The steps that a command has taken to their end.
PassedBy(c) == {i \in 1 .. Len(steps) : i < c.at \/ c.exit = "ok"}

\* What the command has come to know and to do on its way.
PassedOK(c, s, o) ==
    \A i \in PassedBy(c) :
        /\ steps[i].kind = "set" => s.set
        /\ steps[i].op = "wait" => s.job = "succeeded"
        /\ steps[i].op = "save" => o \in {"whole", "short"}
        /\ steps[i].keeps = "etag" => c.etag # 0
        /\ steps[i].keeps = "body" => c.body # "none"

AskedOK(c) ==
    c.asked => c.shown = c.approval /\ \E i \in PassedBy(c) : steps[i].op = "confirm"

\* A request has been made by this run or an earlier one, with what the command knew then.
RequestOK(c, r) ==
    /\ r.id[1] <= c.run
    /\ r.id[1] = c.run => r.id[2] <= c.request
    /\ c.state = "sent" /\ r.id = <<c.run, c.request>> => r.step = steps[c.at]
    /\ r.step.kind = "change" => r.etag # 0
    /\ r.step.etag = "given" => r.etag = Known
    /\ r.asked => r.shown = r.approval
    /\ r.step.op \in {"get", "send", "wait"}

\* The effects of a command whose effects happen once: what has been served under a key, or
\* has replaced the version that the user has seen, cannot happen again.
OnceOK ==
    (\A i \in Effects : OnceOnly(i)) =>
        /\ service.made <= 1
        /\ service.made = 1 =>
              /\ Effects # {}
              /\ IF \E i \in Effects : steps[i].key
                 THEN service.served # {}
                 ELSE service.version # Known

\* The effects that this run has asked for, and the requests for an effect on their way.
Asked(c) == {i \in Effects : i < c.at \/ (i = c.at /\ c.state # "ready")}

Pending(w) == {r \in w : r.step.kind \in Kinds \ {"set"}}

OftenOK(c, w, made) ==
    (\E i \in Effects : ~OnceOnly(i)) =>
        made + Cardinality(Pending(w)) <= Cardinality(Effects) * (c.run - 1) + Cardinality(Asked(c))

\* The parts of the invariant that speak of the command, as it stands before a service s, a
\* destination o and the requests w.
CommandInv(c, s, o, w) ==
    /\ c.state = "ended" <=> c.exit # "none"
    /\ PassedOK(c, s, o)
    /\ AskedOK(c)
    /\ \A r \in w : RequestOK(c, r)
    /\ s.made >= Cardinality(Effects \cap PassedBy(c))
    /\ OftenOK(c, w, s.made)

\* What holds of the service, the requests and the destination, wherever the command is.
ServiceInv ==
    /\ IsFiniteSet(wire)
    /\ service.served # {} => service.made # 0
    /\ OnceOK
    /\ NothingUnseen /\ SentAsShown /\ DestinationSafe

RemoteInv == RemoteTypeOK /\ CommandInv(command, service, output, wire) /\ ServiceInv

RemoteCommand ==
    [run : 1 .. MaxRuns, at : 1 .. Len(steps), state : {"ready", "sent", "ended"},
     request : Nat, tries : Nat \ {0}, polls : Nat, etag : 0 .. MaxVersion,
     approval : Approval, asked : BOOLEAN, shown : Approval,
     body : {"none", "whole", "short"},
     exit : {"none", "ok", "refused", "network", "timeout", "interrupted"}]

RemoteRequest ==
    [id : (1 .. MaxRuns) \X Nat, step : {steps[i] : i \in 1 .. Len(steps)},
     etag : 0 .. MaxVersion, approval : Approval, asked : BOOLEAN, shown : Approval]

RemoteService ==
    [version : 1 .. MaxVersion, connection : 1 .. MaxChange, records : 1 .. MaxChange,
     made : Nat, set : BOOLEAN, served : SUBSET Approval, unseen : BOOLEAN,
     started : SUBSET [asked : BOOLEAN, shown : Approval, sent : Approval],
     job : {"running", "succeeded", "failed"}]

\* Every command keeps to its order.
LEMMA StepsOrdered ==
    ASSUME steps \in RemoteCommands
    PROVE  /\ Len(steps) \in Nat \ {0}
           /\ KeepsOrder(steps)
           /\ \A i \in 1 .. Len(steps) : steps[i] \in AnyStep
<1>1. steps \in Seq(AnyStep) /\ steps # <<>> /\ KeepsOrder(steps)
  BY RemoteAssumption
<1>2. Len(steps) \in Nat /\ steps \in [1 .. Len(steps) -> AnyStep]
  BY <1>1
<1>3. Len(steps) # 0
  BY <1>1
<1> QED
  BY <1>1, <1>2, <1>3

\* A set with one more element has at most one more.
LEMMA OneMore ==
    ASSUME NEW A, IsFiniteSet(A), NEW x
    PROVE  /\ Cardinality(A) \in Nat /\ Cardinality(A \cup {x}) \in Nat
           /\ IsFiniteSet(A \cup {x}) /\ Cardinality(A \cup {x}) <= Cardinality(A) + 1
<1>1. /\ IsFiniteSet(A \cup {x})
      /\ Cardinality(A \cup {x}) = IF x \in A THEN Cardinality(A) ELSE Cardinality(A) + 1
  BY FS_AddElement
<1>2. Cardinality(A) \in Nat
  BY FS_CardinalityType
<1> QED
  BY <1>1, <1>2

\* Some of a command's effects are finitely many, and never more than all of them; with one
\* more step there is at most one more of them.
LEMMA EffectsCounted ==
    ASSUME steps \in RemoteCommands, NEW S, NEW i
    PROVE  /\ IsFiniteSet(Effects) /\ Cardinality(Effects) \in Nat
           /\ Cardinality(Effects \cap S) \in Nat
           /\ Cardinality(Effects \cap S) <= Cardinality(Effects)
           /\ Cardinality(Effects \cap (S \cup {i})) <= Cardinality(Effects \cap S) + 1
<1>1. IsFiniteSet(1 .. Len(steps))
  BY StepsOrdered, FS_Interval
<1>2. IsFiniteSet(Effects) /\ Cardinality(Effects) \in Nat
  BY <1>1, FS_Subset, FS_CardinalityType DEF Effects
<1>3. /\ IsFiniteSet(Effects \cap S) /\ Cardinality(Effects \cap S) \in Nat
      /\ Cardinality(Effects \cap S) <= Cardinality(Effects)
  BY <1>2, FS_Subset, FS_CardinalityType
<1>4. Cardinality(Effects \cap (S \cup {i})) <= Cardinality(Effects \cap S) + 1
  <2>1. PICK A : A = Effects \cap S
    OBVIOUS
  <2>2. PICK B : B = Effects \cap (S \cup {i})
    OBVIOUS
  <2>3. B = A \/ B = A \cup {i}
    BY <2>1, <2>2
  <2>4. Cardinality(A) \in Nat /\ Cardinality(A \cup {i}) <= Cardinality(A) + 1
    BY <1>3, <2>1, OneMore
  <2>5. Cardinality(B) <= Cardinality(A) + 1
    <3>1. \/ Cardinality(B) = Cardinality(A)
          \/ Cardinality(B) = Cardinality(A \cup {i})
      BY <2>3, Zenon
    <3> QED
      BY <2>4, <3>1
  <2> QED
    BY <2>1, <2>2, <2>5
<1> QED
  BY <1>2, <1>3, <1>4

\* A larger part of the effects has as many or more.
LEMMA EffectsGrow ==
    ASSUME steps \in RemoteCommands, NEW S, NEW T, Effects \cap S \subseteq T
    PROVE  Cardinality(Effects \cap S) <= Cardinality(Effects \cap T)
<1>1. IsFiniteSet(Effects)
  BY EffectsCounted
<1>2. IsFiniteSet(Effects \cap T)
  BY <1>1, FS_Subset
<1> QED
  BY <1>2, FS_Subset

\* A command that ends without success keeps what it knows and has done.
LEMMA CommandEnded ==
    ASSUME steps \in RemoteCommands, NEW c \in RemoteCommand, NEW s \in RemoteService, NEW o,
           NEW w \in SUBSET RemoteRequest, IsFiniteSet(w),
           CommandInv(c, s, o, w), c.state # "ended",
           NEW exit \in {"refused", "network", "timeout", "interrupted"}
    PROVE  /\ Ended(c, exit) \in RemoteCommand
           /\ CommandInv(Ended(c, exit), s, o, w)
<1> DEFINE d == Ended(c, exit)
<1>1. /\ d \in RemoteCommand /\ d.state = "ended" /\ d.exit = exit /\ d.at = c.at
      /\ d.run = c.run /\ d.request = c.request /\ d.etag = c.etag /\ d.body = c.body
      /\ d.asked = c.asked /\ d.shown = c.shown /\ d.approval = c.approval
  BY DEF Ended, RemoteCommand
<1>2. c.exit = "none"
  BY DEF CommandInv, RemoteCommand
<1>3. PassedBy(d) = PassedBy(c)
  BY <1>1, <1>2 DEF PassedBy
<1> HIDE DEF d
<1>4. PassedOK(d, s, o) /\ AskedOK(d)
  BY <1>1, <1>3 DEF CommandInv, PassedOK, AskedOK
<1>5. \A r \in w : RequestOK(d, r)
  BY <1>1 DEF CommandInv, RequestOK
<1>6. OftenOK(d, w, s.made)
  <2>1. Asked(c) = Effects \cap Asked(c) /\ Asked(d) = Effects \cap Asked(d)
    BY DEF Asked
  <2>2. Asked(c) \subseteq Asked(d)
    BY <1>1, StepsOrdered DEF Asked, Effects, RemoteCommand
  <2>3. Cardinality(Asked(c)) <= Cardinality(Asked(d))
    BY <2>1, <2>2, EffectsGrow
  <2>4. /\ Cardinality(Asked(c)) \in Nat /\ Cardinality(Asked(d)) \in Nat
        /\ Cardinality(Effects) \in Nat
    BY <2>1, EffectsCounted
  <2>5. Cardinality(Pending(w)) \in Nat
    BY FS_Subset, FS_CardinalityType DEF Pending
  <2>6. s.made \in Nat /\ c.run \in Nat \ {0}
    BY RemoteAssumption DEF RemoteService, RemoteCommand
  <2>7. Cardinality(Effects) * (c.run - 1) \in Nat
    BY <2>4, <2>6
  <2> QED
    BY <1>1, <2>3, <2>4, <2>5, <2>6, <2>7 DEF CommandInv, OftenOK
<1> QED
  BY <1>1, <1>2, <1>3, <1>4, <1>5, <1>6 DEF CommandInv, d

\* What a command learns from an answer, or from its user.
Learns(c, k) ==
    /\ k.run = c.run /\ k.at = c.at /\ k.request = c.request /\ k.exit = c.exit
    /\ k.etag = c.etag \/ k.etag # 0
    /\ k.body = c.body \/ k.body # "none"
    /\ \/ /\ k.asked = c.asked /\ k.shown = c.shown
          /\ k.approval = c.approval \/ steps[c.at].keeps \in {"connection", "preview"}
       \/ steps[c.at].op = "confirm" /\ k.shown = k.approval

\* What a step leaves behind when it has come to its end.
StepDone(k, s, o) ==
    /\ steps[k.at].kind = "set" => s.set
    /\ steps[k.at].op = "wait" => s.job = "succeeded"
    /\ steps[k.at].op = "save" => o \in {"whole", "short"}
    /\ steps[k.at].keeps = "etag" => k.etag # 0
    /\ steps[k.at].keeps = "body" => k.body # "none"

\* A step that has done what it is for leads to the next one, or to success.
LEMMA CommandAdvanced ==
    ASSUME steps \in RemoteCommands, NEW c \in RemoteCommand, NEW k \in RemoteCommand,
           NEW s \in RemoteService, NEW o, NEW w \in SUBSET RemoteRequest, IsFiniteSet(w),
           CommandInv(c, s, o, w), c.state # "ended", Learns(c, k), StepDone(k, s, o),
           s.made >= Cardinality(Effects \cap (PassedBy(c) \cup {c.at}))
    PROVE  /\ Advance(k) \in RemoteCommand
           /\ CommandInv(Advance(k), s, o, w)
<1> DEFINE d == Advance(k)
<1>1. /\ c.exit = "none" /\ c.at \in 1 .. Len(steps) /\ c.run \in Nat \ {0}
      /\ Len(steps) \in Nat \ {0}
  <2>1. c.at \in 1 .. Len(steps) /\ c.run \in 1 .. MaxRuns
    BY DEF RemoteCommand
  <2>2. c.exit = "none"
    BY DEF CommandInv
  <2> QED
    BY <2>1, <2>2, StepsOrdered, RemoteAssumption
<1> HIDE DEF d
<1>2. /\ d \in RemoteCommand
      /\ d.run = c.run /\ d.request = c.request /\ d.etag = k.etag /\ d.body = k.body
      /\ d.asked = k.asked /\ d.shown = k.shown /\ d.approval = k.approval
      /\ \/ d.state = "ended" /\ d.exit = "ok" /\ d.at = c.at /\ c.at = Len(steps)
         \/ d.state = "ready" /\ d.exit = "none" /\ d.at = c.at + 1
  <2>1. CASE k.at = Len(steps)
    BY <1>1, <2>1 DEF Advance, Ended, RemoteCommand, Learns, d
  <2>2. CASE k.at # Len(steps)
    <3>1. d = [k EXCEPT !.at = @ + 1, !.state = "ready", !.tries = 1]
      BY <2>2 DEF Advance, d
    <3>2. k.at + 1 \in 1 .. Len(steps)
      BY <1>1, <2>2 DEF Learns
    <3>3. 1 \in Nat \ {0}
      OBVIOUS
    <3>4. /\ d \in RemoteCommand /\ d.at = k.at + 1 /\ d.state = "ready"
          /\ d.run = k.run /\ d.request = k.request /\ d.etag = k.etag /\ d.body = k.body
          /\ d.asked = k.asked /\ d.shown = k.shown /\ d.approval = k.approval
          /\ d.exit = k.exit
      BY <3>1, <3>2, <3>3 DEF RemoteCommand
    <3> QED
      BY <1>1, <3>4 DEF Learns
  <2> QED
    BY <2>1, <2>2
<1>3. PassedBy(c) = {i \in 1 .. Len(steps) : i < c.at}
  BY <1>1 DEF PassedBy
<1>4. PassedBy(d) = PassedBy(c) \cup {c.at}
  BY <1>1, <1>2, <1>3 DEF PassedBy
<1>5. PassedOK(d, s, o)
  <2>1. ASSUME NEW i \in PassedBy(d)
        PROVE  /\ steps[i].kind = "set" => s.set
               /\ steps[i].op = "wait" => s.job = "succeeded"
               /\ steps[i].op = "save" => o \in {"whole", "short"}
               /\ steps[i].keeps = "etag" => d.etag # 0
               /\ steps[i].keeps = "body" => d.body # "none"
    <3>1. CASE i = c.at
      BY <1>2, <3>1 DEF StepDone, Learns
    <3>2. CASE i \in PassedBy(c)
      BY <1>2, <3>2 DEF CommandInv, PassedOK, Learns
    <3> QED
      BY <1>4, <2>1, <3>1, <3>2
  <2> QED
    BY <2>1 DEF PassedOK
<1>6. AskedOK(d)
  <2>1. CASE steps[c.at].op = "confirm" /\ k.shown = k.approval
    BY <1>2, <1>4, <2>1 DEF AskedOK
  <2>2. CASE c.asked /\ k.shown = c.shown
             /\ (k.approval = c.approval \/ steps[c.at].keeps \in {"connection", "preview"})
    <3>1. PICK i \in PassedBy(c) : steps[i].op = "confirm"
      BY <2>2 DEF CommandInv, AskedOK
    <3>2. steps[c.at].keeps \notin {"connection", "preview"}
      BY <1>1, <1>3, <3>1, StepsOrdered DEF KeepsOrder
    <3> QED
      BY <1>2, <1>4, <2>2, <3>1, <3>2 DEF CommandInv, AskedOK
  <2> QED
    BY <1>2, <2>1, <2>2 DEF Learns, AskedOK
<1>7. \A r \in w : RequestOK(d, r)
  BY <1>2 DEF CommandInv, RequestOK
<1>8. OftenOK(d, w, s.made)
  <2>1. Asked(c) = Effects \cap Asked(c) /\ Asked(d) = Effects \cap Asked(d)
    BY DEF Asked
  <2>2. Asked(c) \subseteq Asked(d)
    BY <1>1, <1>2 DEF Asked, Effects
  <2>3. Cardinality(Asked(c)) <= Cardinality(Asked(d))
    BY <2>1, <2>2, EffectsGrow
  <2>4. /\ Cardinality(Asked(c)) \in Nat /\ Cardinality(Asked(d)) \in Nat
        /\ Cardinality(Effects) \in Nat
    BY <2>1, EffectsCounted
  <2>5. Cardinality(Pending(w)) \in Nat /\ s.made \in Nat
    BY FS_Subset, FS_CardinalityType DEF Pending, RemoteService
  <2>6. Cardinality(Effects) * (c.run - 1) \in Nat
    BY <1>1, <2>4
  <2> QED
    BY <1>2, <2>3, <2>4, <2>5, <2>6 DEF CommandInv, OftenOK
<1>9. s.made >= Cardinality(Effects \cap PassedBy(d))
  BY <1>4
<1> QED
  BY <1>2, <1>5, <1>6, <1>7, <1>8, <1>9 DEF CommandInv, d

\* A step that is no effect has its effects behind it when it is taken.
LEMMA NoEffectHere ==
    ASSUME steps \in RemoteCommands, NEW i \in 1 .. Len(steps), i \notin Effects, NEW S
    PROVE  Cardinality(Effects \cap (S \cup {i})) = Cardinality(Effects \cap S)
<1>1. Effects \cap (S \cup {i}) = Effects \cap S
  OBVIOUS
<1> QED
  BY <1>1

\* Steps that send nothing are no effects.
LEMMA OnlySendsAreEffects ==
    ASSUME steps \in RemoteCommands, NEW i \in 1 .. Len(steps)
    PROVE  /\ i \in Effects => steps[i].op = "send"
           /\ steps[i].op = "send" => steps[i].kind \in Kinds
           /\ steps[i].kind \in Kinds => steps[i].op = "send"
           /\ steps[i].kind = "set" => steps[i].op = "send" /\ i \notin Effects
           /\ steps[i].kind = "set" \/ i \in Effects \/ steps[i].op # "send"
           /\ steps[i].keeps # "nothing" => steps[i].op \in {"get", "send"}
  BY StepsOrdered DEF KeepsOrder, Effects, Kinds

\* The service only ever goes on: what a command has seen of it stays true, whether a request
\* is served, refused or lost, or someone else was served.
LEMMA ServiceGoesOn ==
    ASSUME steps \in RemoteCommands, NEW c \in RemoteCommand, NEW s \in RemoteService,
           NEW t \in RemoteService, NEW o, NEW w \in SUBSET RemoteRequest, NEW v \in SUBSET w,
           CommandInv(c, s, o, w),
           s.set => t.set, s.job = "succeeded" => t.job = "succeeded", t.made >= s.made,
           (\E i \in Effects : ~OnceOnly(i)) =>
               t.made + Cardinality(Pending(v)) <= s.made + Cardinality(Pending(w)),
           IsFiniteSet(w)
    PROVE  CommandInv(c, t, o, v)
<1>1. PassedOK(c, t, o)
  BY DEF CommandInv, PassedOK
<1>2. Cardinality(Effects \cap PassedBy(c)) \in Nat /\ s.made \in Nat /\ t.made \in Nat
  BY EffectsCounted DEF RemoteService
<1>3. t.made >= Cardinality(Effects \cap PassedBy(c))
  BY <1>2 DEF CommandInv
<1>4. OftenOK(c, v, t.made)
  <2>1. Asked(c) = Effects \cap Asked(c)
    BY DEF Asked
  <2>2. Cardinality(Asked(c)) \in Nat /\ Cardinality(Effects) \in Nat /\ c.run \in Nat \ {0}
    <3>1. c.run \in Nat \ {0}
      BY RemoteAssumption DEF RemoteCommand
    <3>2. Cardinality(Asked(c)) \in Nat /\ Cardinality(Effects) \in Nat
      BY <2>1, EffectsCounted
    <3> QED
      BY <3>1, <3>2
  <2>3. Cardinality(Pending(w)) \in Nat /\ Cardinality(Pending(v)) \in Nat
    BY FS_Subset, FS_CardinalityType DEF Pending
  <2>4. Cardinality(Effects) * (c.run - 1) \in Nat
    BY <2>2
  <2> QED
    BY <1>2, <2>2, <2>3, <2>4 DEF CommandInv, OftenOK
<1> QED
  BY <1>1, <1>3, <1>4 DEF CommandInv

LEMMA RemoteTyped ==
    RemoteTypeOK <=> /\ steps \in RemoteCommands
                     /\ command \in RemoteCommand
                     /\ wire \subseteq RemoteRequest
                     /\ service \in RemoteService
                     /\ output \in {"none", "old", "foreign", "whole", "short"}
  BY DEF RemoteTypeOK, RemoteCommand, RemoteRequest, RemoteService

\* The invariant of the next state, from its parts.
LEMMA NextRemoteInv ==
    ASSUME RemoteInv, steps' = steps, command' \in RemoteCommand,
           wire' \in SUBSET RemoteRequest, service' \in RemoteService,
           output' \in {"none", "old", "foreign", "whole", "short"},
           CommandInv(command', service', output', wire'), ServiceInv'
    PROVE  RemoteInv'
<1>1. RemoteTypeOK'
  <2>1. steps' \in RemoteCommands /\ Len(steps') = Len(steps)
    BY DEF RemoteInv, RemoteTypeOK
  <2>2. command' \in RemoteCommand'
    BY DEF RemoteCommand
  <2>3. wire' \subseteq RemoteRequest'
    BY DEF RemoteRequest
  <2>4. service' \in RemoteService'
    BY DEF RemoteService
  <2> QED
    BY <2>1, <2>2, <2>3, <2>4 DEF RemoteTypeOK, RemoteCommand, RemoteRequest, RemoteService
<1>2. /\ PassedBy(command)' = PassedBy(command') /\ Effects' = Effects
      /\ Asked(command)' = Asked(command')
      /\ \A i : OnceOnly(i)' <=> OnceOnly(i)
      /\ Pending(wire)' = Pending(wire')
  BY DEF PassedBy, Effects, Asked, OnceOnly, Pending
<1>3. PassedOK(command, service, output)' /\ AskedOK(command)'
  BY <1>2 DEF CommandInv, PassedOK, AskedOK
<1>4. \A r \in wire' : RequestOK(command, r)'
  BY DEF CommandInv, RequestOK, Known
<1>5. OftenOK(command, wire, service.made)'
  BY <1>2 DEF CommandInv, OftenOK
<1>6. CommandInv(command, service, output, wire)'
  BY <1>2, <1>3, <1>4, <1>5 DEF CommandInv
<1> QED
  BY <1>1, <1>6 DEF RemoteInv

\* The service stands where it stood.
LEMMA ServiceStands ==
    ASSUME RemoteInv, steps' = steps, service' = service, output' = output,
           wire' \in SUBSET wire
    PROVE  ServiceInv'
<1>1. IsFiniteSet(wire')
  BY FS_Subset DEF RemoteInv, ServiceInv
<1> QED
  BY <1>1 DEF RemoteInv, ServiceInv, OnceOK, OnceOnly, Effects, NothingUnseen, SentAsShown,
              DestinationSafe

\* A step of the command that needs no request, a lost answer, an interrupt.
LEMMA RemoteMoves ==
    ASSUME RemoteInv, UNCHANGED <<steps, wire, service, output>>,
           command' \in RemoteCommand, CommandInv(command', service, output, wire)
    PROVE  RemoteInv'
<1>1. ServiceInv'
  BY ServiceStands
<1> QED
  BY <1>1, NextRemoteInv, RemoteTyped DEF RemoteInv

LEMMA RemoteStart == ASSUME RemoteInit PROVE RemoteInv
<1>1. steps \in RemoteCommands /\ Len(steps) \in Nat \ {0}
  BY StepsOrdered DEF RemoteInit
<1>2. RemoteTypeOK
  BY <1>1, RemoteAssumption DEF RemoteInit, RemoteTypeOK, Ready, Nothing, Approval
<1>3. PassedBy(command) = {} /\ Asked(command) = {}
  BY <1>1 DEF RemoteInit, PassedBy, Asked, Ready, Effects
<1>4. Pending(wire) = {} /\ Effects \cap PassedBy(command) = {}
  BY <1>3 DEF RemoteInit, Pending
<1>5. Cardinality({}) = 0 /\ IsFiniteSet({})
  BY FS_EmptySet
<1>6. Cardinality(Effects) \in Nat
  BY <1>1, EffectsCounted
<1>7. command.run = 1 /\ command.state = "ready" /\ command.exit = "none" /\ ~command.asked
  BY DEF RemoteInit, Ready
<1>8. service.made = 0 /\ service.served = {} /\ service.started = {} /\ ~service.unseen
      /\ wire = {} /\ output # "short"
  BY DEF RemoteInit
<1>9. OftenOK(command, wire, service.made)
  <2>1. Cardinality(Effects) * (1 - 1) = 0
    BY <1>6
  <2> QED
    BY <1>3, <1>4, <1>5, <1>7, <1>8, <2>1 DEF OftenOK
<1>10. CommandInv(command, service, output, wire)
  BY <1>3, <1>4, <1>5, <1>7, <1>8, <1>9 DEF CommandInv, PassedOK, AskedOK
<1>11. ServiceInv
  BY <1>5, <1>8 DEF ServiceInv, OnceOK, NothingUnseen, SentAsShown, DestinationSafe
<1> QED
  BY <1>2, <1>10, <1>11 DEF RemoteInv

\* A command that ends without success, wherever it stood.
LEMMA RemoteEnds ==
    ASSUME RemoteInv, command.state # "ended", UNCHANGED <<steps, wire, service, output>>,
           NEW exit \in {"refused", "network", "timeout", "interrupted"},
           command' = Ended(command, exit)
    PROVE  RemoteInv'
<1>1. command' \in RemoteCommand /\ CommandInv(command', service, output, wire)
  BY CommandEnded, RemoteTyped DEF RemoteInv, ServiceInv
<1> QED
  BY <1>1, RemoteMoves

\* What a command that stands at a step has behind it.
LEMMA AtStep ==
    ASSUME RemoteInv
    PROVE  /\ steps \in RemoteCommands /\ command \in RemoteCommand
           /\ wire \in SUBSET RemoteRequest /\ IsFiniteSet(wire)
           /\ service \in RemoteService
           /\ CommandInv(command, service, output, wire)
           /\ command.at \in 1 .. Len(steps)
           /\ Current = steps[command.at]
           /\ Current \in AnyStep
  BY RemoteTyped, StepsOrdered DEF RemoteInv, ServiceInv, RemoteCommand, Current

\* A step that is no effect is taken to its end.
LEMMA RemoteAdvances ==
    ASSUME RemoteInv, command.state # "ended", UNCHANGED <<steps, wire, service, output>>,
           Current.op # "send", NEW k \in RemoteCommand, Learns(command, k),
           StepDone(k, service, output), command' = Advance(k)
    PROVE  RemoteInv'
<1>1. command.at \notin Effects
  BY AtStep, OnlySendsAreEffects
<1>2. Cardinality(Effects \cap (PassedBy(command) \cup {command.at}))
          = Cardinality(Effects \cap PassedBy(command))
  BY <1>1, AtStep, NoEffectHere
<1>3. service.made >= Cardinality(Effects \cap (PassedBy(command) \cup {command.at}))
  BY <1>2 DEF RemoteInv, CommandInv
<1>4. command' \in RemoteCommand /\ CommandInv(command', service, output, wire)
  BY <1>3, AtStep, CommandAdvanced
<1> QED
  BY <1>4, RemoteMoves

LEMMA ReadInputKeeps == ASSUME RemoteInv, ReadInput PROVE RemoteInv'
<1>1. Current.op = "input" /\ command.state = "ready" /\ UNCHANGED <<steps, wire, service, output>>
  BY DEF ReadInput, CommandAt
<1>2. CASE command' = Advance(command)
  <2>1. Learns(command, command) /\ StepDone(command, service, output)
    BY <1>1, AtStep, OnlySendsAreEffects DEF Learns, StepDone
  <2> QED
    BY <1>1, <1>2, <2>1, AtStep, RemoteAdvances
<1>3. CASE command' = Ended(command, "refused")
  BY <1>1, <1>3, RemoteEnds
<1> QED
  BY <1>2, <1>3 DEF ReadInput

LEMMA RefuseArgumentsKeeps == ASSUME RemoteInv, RefuseArguments PROVE RemoteInv'
  BY RemoteEnds DEF RefuseArguments, CommandAt

LEMMA ConfirmKeeps == ASSUME RemoteInv, Confirm PROVE RemoteInv'
<1>1. Current.op = "confirm" /\ command.state = "ready" /\ UNCHANGED <<steps, wire, service, output>>
  BY DEF Confirm, CommandAt
<1>2. CASE command' = Advance([command EXCEPT !.asked = TRUE, !.shown = command.approval])
  <2> DEFINE k == [command EXCEPT !.asked = TRUE, !.shown = command.approval]
  <2>1. /\ k \in RemoteCommand /\ k.at = command.at
        /\ k.run = command.run /\ k.request = command.request /\ k.exit = command.exit
        /\ k.etag = command.etag /\ k.body = command.body /\ k.shown = k.approval
    BY AtStep DEF RemoteCommand
  <2> HIDE DEF k
  <2>2. Learns(command, k) /\ StepDone(k, service, output)
    BY <1>1, <2>1, AtStep, OnlySendsAreEffects DEF Learns, StepDone
  <2>3. command' = Advance(k)
    BY <1>2 DEF k
  <2> QED
    BY <1>1, <2>1, <2>2, <2>3, RemoteAdvances
<1>3. CASE command' = Ended(command, "refused")
  BY <1>1, <1>3, RemoteEnds
<1> QED
  BY <1>2, <1>3 DEF Confirm

LEMMA LookAtDestinationKeeps == ASSUME RemoteInv, LookAtDestination PROVE RemoteInv'
<1>1. Current.op = "look" /\ command.state = "ready" /\ UNCHANGED <<steps, wire, service, output>>
  BY DEF LookAtDestination, CommandAt
<1>2. CASE command' = Advance(command)
  <2>1. Learns(command, command) /\ StepDone(command, service, output)
    BY <1>1, AtStep, OnlySendsAreEffects DEF Learns, StepDone
  <2> QED
    BY <1>1, <1>2, <2>1, AtStep, RemoteAdvances
<1>3. CASE command' = Ended(command, "refused")
  BY <1>1, <1>3, RemoteEnds
<1> QED
  BY <1>2, <1>3 DEF LookAtDestination

\* What is put in place has been downloaded, and is whole if it must be.
LEMMA PutInPlaceKeeps == ASSUME RemoteInv, PutInPlace PROVE RemoteInv'
<1>1. Current.op = "save" /\ command.state = "ready" /\ UNCHANGED <<steps, wire, service>>
  BY DEF PutInPlace, CommandAt
<1>2. CASE /\ Acceptable(Current) /\ output' = command.body
           /\ command' \in {Advance(command), Ended(command, "refused")}
  <2>1. PICK j \in 1 .. command.at - 1 : steps[j].keeps = "body"
    BY <1>1, AtStep, StepsOrdered DEF KeepsOrder
  <2>2. j \in PassedBy(command)
    BY AtStep, StepsOrdered DEF PassedBy
  <2>3. output' \in {"whole", "short"}
    BY <1>2, <2>1, <2>2, AtStep DEF CommandInv, PassedOK, RemoteCommand
  <2>4. CommandInv(command, service, output', wire)
    BY <2>3, AtStep DEF CommandInv, PassedOK
  <2>5. command.at \notin Effects
    BY <1>1, AtStep, OnlySendsAreEffects
  <2>6. Cardinality(Effects \cap (PassedBy(command) \cup {command.at}))
            = Cardinality(Effects \cap PassedBy(command))
    BY <2>5, AtStep, NoEffectHere
  <2>7. service.made >= Cardinality(Effects \cap (PassedBy(command) \cup {command.at}))
    BY <2>6 DEF RemoteInv, CommandInv
  <2>8. Learns(command, command) /\ StepDone(command, service, output')
    BY <1>1, <2>3, AtStep, OnlySendsAreEffects DEF Learns, StepDone
  <2>9. command' \in RemoteCommand /\ CommandInv(command', service, output', wire)
    <3>1. CASE command' = Advance(command)
      BY <1>1, <3>1, <2>4, <2>7, <2>8, AtStep, CommandAdvanced
    <3>2. CASE command' = Ended(command, "refused")
      BY <1>1, <3>2, <2>4, AtStep, CommandEnded
    <3> QED
      BY <1>2, <3>1, <3>2
  <2>10. DestinationSafe'
    <3>1. ASSUME NEW i \in 1 .. Len(steps), steps[i].op = "save", steps[i].verified
          PROVE  output' # "short"
      <4>1. steps[command.at].verified
        BY <1>1, <3>1, AtStep, StepsOrdered DEF KeepsOrder
      <4> QED
        BY <1>2, <4>1, AtStep DEF Acceptable
    <3> QED
      BY <1>1, <3>1 DEF DestinationSafe
  <2>11. ServiceInv'
    BY <1>1, <2>10 DEF RemoteInv, ServiceInv, OnceOK, OnceOnly, Effects, NothingUnseen, SentAsShown
  <2> QED
    BY <1>1, <2>3, <2>9, <2>11, NextRemoteInv, AtStep
<1>3. CASE command' = Ended(command, "refused") /\ UNCHANGED output
  BY <1>1, <1>3, RemoteEnds
<1> QED
  BY <1>2, <1>3 DEF PutInPlace

LEMMA InterruptKeeps == ASSUME RemoteInv, Interrupt PROVE RemoteInv'
  BY RemoteEnds DEF Interrupt

\* A request that is tried again has a key, and is the only effect of its command.
LEMMA NetworkErrorKeeps == ASSUME RemoteInv, NetworkError PROVE RemoteInv'
<1>1. command.state = "sent" /\ UNCHANGED <<steps, wire, service, output>>
  BY DEF NetworkError
<1>2. CASE /\ command.tries < Current.tries
           /\ command' = [command EXCEPT !.state = "ready", !.tries = @ + 1]
  <2>1. Current.tries > 1
    BY <1>2, AtStep DEF RemoteCommand, AnyStep
  <2>2. /\ steps[command.at].key
        /\ \A j \in 1 .. Len(steps) : steps[j].kind \in Kinds \ {"set"} => j = command.at
    BY <2>1, AtStep, StepsOrdered DEF KeepsOrder
  <2>3. \A i \in Effects : OnceOnly(i)
    BY <2>2 DEF Effects, OnceOnly
  <2>4. /\ command' \in RemoteCommand /\ command'.state = "ready"
        /\ command'.at = command.at /\ command'.run = command.run
        /\ command'.request = command.request /\ command'.exit = command.exit
        /\ command'.etag = command.etag /\ command'.body = command.body
        /\ command'.asked = command.asked /\ command'.shown = command.shown
        /\ command'.approval = command.approval
    <3>1. command.tries + 1 \in Nat \ {0}
      BY AtStep DEF RemoteCommand
    <3> QED
      BY <1>2, <3>1, AtStep DEF RemoteCommand
  <2>5. PassedBy(command') = PassedBy(command)
    BY <2>4 DEF PassedBy
  <2>6. CommandInv(command', service, output, wire)
    BY <1>1, <2>3, <2>4, <2>5, AtStep
       DEF CommandInv, PassedOK, AskedOK, RequestOK, OftenOK
  <2> QED
    BY <1>1, <2>4, <2>6, RemoteMoves
<1>3. CASE command' = Ended(command, "network")
  BY <1>1, <1>3, RemoteEnds
<1> QED
  BY <1>2, <1>3 DEF NetworkError

\* No run has asked for more effects than the command has.
LEMMA AskedCounted ==
    ASSUME steps \in RemoteCommands, NEW c \in RemoteCommand
    PROVE  /\ Cardinality(Asked(c)) \in Nat /\ Cardinality(Effects) \in Nat
           /\ Cardinality(Asked(c)) <= Cardinality(Effects)
           /\ Cardinality(Effects) * (c.run - 1) \in Nat
           /\ Cardinality(Effects) * (c.run - 1) + Cardinality(Effects)
                  = Cardinality(Effects) * c.run
<1>1. Asked(c) = Effects \cap Asked(c)
  BY DEF Asked
<1>2. /\ Cardinality(Asked(c)) \in Nat /\ Cardinality(Effects) \in Nat
      /\ Cardinality(Asked(c)) <= Cardinality(Effects)
  BY <1>1, EffectsCounted
<1>3. c.run \in Nat \ {0}
  BY RemoteAssumption DEF RemoteCommand
<1>4. \A e \in Nat, n \in Nat \ {0} : e * (n - 1) \in Nat /\ e * (n - 1) + e = e * n
  OBVIOUS
<1> QED
  BY <1>2, <1>3, <1>4

LEMMA PendingCounted ==
    ASSUME NEW w, IsFiniteSet(w)
    PROVE  IsFiniteSet(Pending(w)) /\ Cardinality(Pending(w)) \in Nat
  BY FS_Subset, FS_CardinalityType DEF Pending

\* A new run knows nothing, and may ask for every effect again.
LEMMA RunAgainKeeps == ASSUME RemoteInv, RunAgain PROVE RemoteInv'
<1>1. /\ UNCHANGED <<steps, wire, service, output>>
      /\ command.run < MaxRuns /\ command' = Ready(command.run + 1)
  BY DEF RunAgain
<1>2. /\ command' \in RemoteCommand /\ command'.state = "ready" /\ command'.exit = "none"
      /\ command'.run = command.run + 1 /\ command'.at = 1 /\ ~command'.asked
  <2>1. command.run + 1 \in 1 .. MaxRuns /\ 1 \in 1 .. Len(steps)
    BY <1>1, AtStep, StepsOrdered, RemoteAssumption DEF RemoteCommand
  <2>2. Nothing \in Approval /\ 0 \in 0 .. MaxVersion /\ 1 \in Nat \ {0} /\ 0 \in Nat
    BY RemoteAssumption DEF Nothing, Approval
  <2> QED
    BY <1>1, <2>1, <2>2 DEF RemoteCommand, Ready
<1>3. PassedBy(command') = {} /\ Asked(command') = {}
  BY <1>2, AtStep, StepsOrdered DEF PassedBy, Asked, Effects
<1>4. Cardinality({}) = 0
  BY FS_EmptySet
<1>5. command.run \in Nat /\ service.made \in Nat
  BY AtStep, RemoteAssumption DEF RemoteCommand, RemoteService
<1>6. OftenOK(command', wire, service.made)
  <2>1. Cardinality(Effects) * (command'.run - 1) = Cardinality(Effects) * command.run
    BY <1>2, <1>5
  <2>2. Cardinality(Pending(wire)) \in Nat
    BY PendingCounted, AtStep
  <2>3. /\ Cardinality(Asked(command)) \in Nat /\ Cardinality(Effects) \in Nat
        /\ Cardinality(Asked(command)) <= Cardinality(Effects)
        /\ Cardinality(Effects) * (command.run - 1) \in Nat
        /\ Cardinality(Effects) * (command.run - 1) + Cardinality(Effects)
               = Cardinality(Effects) * command.run
    BY AskedCounted, AtStep
  <2>4. OftenOK(command, wire, service.made)
    BY DEF RemoteInv, CommandInv
  <2> QED
    BY <1>3, <1>4, <1>5, <2>1, <2>2, <2>3, <2>4 DEF OftenOK
<1>7. \A r \in wire : RequestOK(command', r)
  BY <1>2, <1>5, AtStep, RemoteAssumption DEF CommandInv, RequestOK, RemoteRequest
<1>8. Effects \cap PassedBy(command') = {}
  BY <1>3
<1>9. CommandInv(command', service, output, wire)
  BY <1>2, <1>3, <1>4, <1>5, <1>6, <1>7, <1>8 DEF CommandInv, PassedOK, AskedOK
<1> QED
  BY <1>1, <1>2, <1>9, RemoteMoves

\* A request carries what the command knows: an ETag that was given or read, and what the
\* user was shown, if the user was asked.
LEMMA IssueKeeps == ASSUME RemoteInv, Issue PROVE RemoteInv'
<1> DEFINE new == [id |-> <<command.run, command.request + 1>>, step |-> Current,
                   etag |-> Etag(Current), approval |-> command.approval,
                   asked |-> command.asked, shown |-> command.shown]
<1>1. /\ command.state = "ready" /\ UNCHANGED <<steps, service, output>>
      /\ command' = [command EXCEPT !.state = "sent", !.request = @ + 1]
      /\ Current.op \in {"get", "send", "wait"}
      /\ wire' = wire \cup {new}
  BY DEF Issue, CommandAt
<1>2. /\ command' \in RemoteCommand /\ command'.state = "sent"
      /\ command'.request = command.request + 1 /\ command.request \in Nat
      /\ command'.at = command.at /\ command'.run = command.run
      /\ command'.exit = command.exit /\ command'.etag = command.etag
      /\ command'.body = command.body /\ command'.asked = command.asked
      /\ command'.shown = command.shown /\ command'.approval = command.approval
  <2>1. command.request + 1 \in Nat
    BY AtStep DEF RemoteCommand
  <2> QED
    BY <1>1, <2>1, AtStep DEF RemoteCommand
<1>3. PassedBy(command') = PassedBy(command)
  BY <1>2 DEF PassedBy
<1>4. Etag(Current) \in 0 .. MaxVersion
  <2>1. 1 \in 0 .. MaxVersion /\ 0 \in 0 .. MaxVersion
    BY RemoteAssumption
  <2>2. command.etag \in 0 .. MaxVersion
    BY AtStep DEF RemoteCommand
  <2> QED
    BY <2>1, <2>2 DEF Etag, Known
<1>5. new \in RemoteRequest
  <2>1. /\ <<command.run, command.request + 1>> \in (1 .. MaxRuns) \X Nat
        /\ command.approval \in Approval /\ command.asked \in BOOLEAN
        /\ command.shown \in Approval
    BY AtStep DEF RemoteCommand
  <2>2. Current \in {steps[i] : i \in 1 .. Len(steps)}
    BY AtStep
  <2> QED
    BY <1>4, <2>1, <2>2 DEF RemoteRequest
<1> HIDE DEF new
<1>6. RequestOK(command', new)
  <2>1. Current.kind = "change" => Etag(Current) # 0
    <3>1. CASE Current.etag = "given"
      BY <3>1 DEF Etag, Known
    <3>2. CASE Current.kind = "change" /\ Current.etag = "read"
      <4>1. PICK j \in 1 .. command.at - 1 : steps[j].keeps = "etag"
        BY <3>2, AtStep, StepsOrdered DEF KeepsOrder
      <4>2. j \in PassedBy(command)
        BY AtStep, StepsOrdered DEF PassedBy
      <4> QED
        BY <3>2, <4>1, <4>2, AtStep DEF CommandInv, PassedOK, Etag
    <3> QED
      BY <3>1, <3>2, AtStep, StepsOrdered DEF KeepsOrder
  <2>2. Current.etag = "given" => Etag(Current) = Known
    BY DEF Etag
  <2>3. command.asked => command.shown = command.approval
    BY AtStep DEF CommandInv, AskedOK
  <2>4. /\ new.id = <<command.run, command.request + 1>> /\ new.step = Current
        /\ new.etag = Etag(Current) /\ new.asked = command.asked
        /\ new.shown = command.shown /\ new.approval = command.approval
    BY DEF new
  <2>5. new.id[1] = command.run /\ new.id[2] = command.request + 1 /\ command.run \in Nat
    BY <2>4, AtStep, RemoteAssumption DEF RemoteCommand
  <2>6. command.run <= command.run /\ command.request + 1 <= command.request + 1
    BY <1>2, <2>5
  <2> QED
    BY <1>1, <1>2, <2>1, <2>2, <2>3, <2>4, <2>5, <2>6, AtStep DEF RequestOK
<1>7. ASSUME NEW r \in wire PROVE RequestOK(command', r)
  <2>1. RequestOK(command, r) /\ r.id \in (1 .. MaxRuns) \X Nat
    BY AtStep DEF CommandInv, RemoteRequest
  <2>2. r.id # <<command'.run, command'.request>>
    BY <1>2, <2>1 DEF RequestOK
  <2> QED
    BY <1>2, <2>1, <2>2 DEF RequestOK
<1>8. IsFiniteSet(wire') /\ wire' \in SUBSET RemoteRequest
  <2>1. IsFiniteSet(wire \cup {new})
    BY AtStep, FS_AddElement
  <2>2. wire \cup {new} \in SUBSET RemoteRequest
    BY <1>5, AtStep
  <2> QED
    BY <1>1, <2>1, <2>2
<1>9. OftenOK(command', wire', service.made)
  <2>1. /\ Cardinality(Pending(wire)) \in Nat /\ IsFiniteSet(Pending(wire))
        /\ Cardinality(Pending(wire')) \in Nat
    BY <1>8, PendingCounted, AtStep
  <2>2. /\ Cardinality(Asked(command)) \in Nat /\ IsFiniteSet(Asked(command))
        /\ Cardinality(Asked(command')) \in Nat
        /\ Cardinality(Effects) * (command.run - 1) \in Nat
    <3>1. Asked(command) = Effects \cap Asked(command)
      BY DEF Asked
    <3> QED
      BY <1>2, <3>1, AskedCounted, EffectsCounted, FS_Subset, AtStep
  <2>3. OftenOK(command, wire, service.made) /\ service.made \in Nat
    BY AtStep DEF RemoteInv, CommandInv, RemoteService
  <2>4. CASE command.at \in Effects
    <3>1. Asked(command') = Asked(command) \cup {command.at} /\ command.at \notin Asked(command)
      BY <1>1, <1>2, <2>4, AtStep DEF Asked
    <3>2. Cardinality(Asked(command')) = Cardinality(Asked(command)) + 1
      BY <2>2, <3>1, FS_AddElement
    <3>3. \/ Pending(wire') = Pending(wire)
          \/ Pending(wire') = Pending(wire) \cup {new}
      BY <1>1 DEF Pending
    <3>4. \/ Cardinality(Pending(wire')) = Cardinality(Pending(wire))
          \/ Cardinality(Pending(wire')) = Cardinality(Pending(wire) \cup {new})
      BY <3>3, Zenon
    <3>5. Cardinality(Pending(wire) \cup {new}) <= Cardinality(Pending(wire)) + 1
      BY <2>1, OneMore
    <3>6. Cardinality(Pending(wire) \cup {new}) \in Nat
      BY <2>1, OneMore
    <3>7. Cardinality(Pending(wire')) <= Cardinality(Pending(wire)) + 1
      BY <2>1, <3>4, <3>5, <3>6
    <3> QED
      BY <1>2, <2>1, <2>2, <2>3, <3>2, <3>7 DEF OftenOK
  <2>5. CASE command.at \notin Effects
    <3>1. Asked(command') = Asked(command)
      BY <1>1, <1>2, <2>5 DEF Asked
    <3>2. new.step.kind \notin Kinds \ {"set"}
      BY <2>5, AtStep DEF Effects, new
    <3>3. Pending(wire') = Pending(wire)
      BY <1>1, <3>2 DEF Pending
    <3> QED
      BY <1>2, <2>3, <3>1, <3>3 DEF OftenOK
  <2> QED
    BY <2>4, <2>5
<1>10. CommandInv(command', service, output, wire')
  <2>1. PassedOK(command', service, output) /\ AskedOK(command')
    BY <1>2, <1>3, AtStep DEF CommandInv, PassedOK, AskedOK
  <2>2. \A r \in wire' : RequestOK(command', r)
    BY <1>1, <1>6, <1>7
  <2> QED
    BY <1>1, <1>2, <1>3, <1>9, <2>1, <2>2, AtStep DEF CommandInv
<1>11. ServiceInv'
  BY <1>1, <1>8 DEF RemoteInv, ServiceInv, OnceOK, OnceOnly, Effects, NothingUnseen,
                    SentAsShown, DestinationSafe
<1> QED
  BY <1>1, <1>2, <1>8, <1>10, <1>11, NextRemoteInv, RemoteTyped, AtStep DEF RemoteInv

\* Other clients change what the service holds, and take nothing back.
LEMMA SomeoneElseKeeps == ASSUME RemoteInv, SomeoneElse PROVE RemoteInv'
<1>1. UNCHANGED <<steps, command, wire, output>>
  BY DEF SomeoneElse
<1>2. /\ service' \in RemoteService /\ service'.made = service.made
      /\ service'.set = service.set /\ service'.served = service.served
      /\ service'.started = service.started /\ service'.unseen = service.unseen
      /\ service'.version = service.version \/ service'.version = service.version + 1
      /\ service.job = "succeeded" => service'.job = "succeeded"
  <2>1. CASE service' = [service EXCEPT !.version = @ + 1] /\ service.version < MaxVersion
    <3>1. service.version + 1 \in 1 .. MaxVersion
      BY <2>1, AtStep, RemoteAssumption DEF RemoteService
    <3> QED
      BY <2>1, <3>1, AtStep DEF RemoteService
  <2>2. CASE service' = [service EXCEPT !.connection = @ + 1] /\ service.connection < MaxChange
    <3>1. service.connection + 1 \in 1 .. MaxChange
      BY <2>2, AtStep, RemoteAssumption DEF RemoteService
    <3> QED
      BY <2>2, <3>1, AtStep DEF RemoteService
  <2>3. CASE service' = [service EXCEPT !.records = @ + 1] /\ service.records < MaxChange
    <3>1. service.records + 1 \in 1 .. MaxChange
      BY <2>3, AtStep, RemoteAssumption DEF RemoteService
    <3> QED
      BY <2>3, <3>1, AtStep DEF RemoteService
  <2>4. ASSUME service.job = "running", NEW end \in {"succeeded", "failed"},
               service' = [service EXCEPT !.job = end]
        PROVE  /\ service' \in RemoteService /\ service'.made = service.made
               /\ service'.set = service.set /\ service'.served = service.served
               /\ service'.started = service.started /\ service'.unseen = service.unseen
               /\ service'.version = service.version
               /\ service.job = "succeeded" => service'.job = "succeeded"
    BY <2>4, AtStep DEF RemoteService
  <2> QED
    BY <2>1, <2>2, <2>3, <2>4 DEF SomeoneElse
<1>3. CommandInv(command, service', output, wire)
  <2>1. service.made \in Nat /\ Cardinality(Pending(wire)) \in Nat
    BY AtStep, PendingCounted DEF RemoteService
  <2> QED
    BY <1>2, <2>1, AtStep, ServiceGoesOn
<1>4. ServiceInv'
  <2>1. service.version \in Nat \ {0}
    BY AtStep, RemoteAssumption DEF RemoteService
  <2>2. OnceOK'
    BY <1>1, <1>2, <2>1 DEF RemoteInv, ServiceInv, OnceOK, OnceOnly, Effects, Known
  <2> QED
    BY <1>1, <1>2, <2>2 DEF RemoteInv, ServiceInv, NothingUnseen, SentAsShown, DestinationSafe
<1> QED
  BY <1>1, <1>2, <1>3, <1>4, NextRemoteInv, RemoteTyped, AtStep DEF RemoteInv

LEMMA FileAppearsKeeps == ASSUME RemoteInv, FileAppears PROVE RemoteInv'
<1>1. UNCHANGED <<steps, command, wire, service>> /\ output = "none" /\ output' = "foreign"
  BY DEF FileAppears
<1>2. CommandInv(command, service, output', wire)
  BY <1>1, AtStep DEF CommandInv, PassedOK
<1>3. ServiceInv'
  BY <1>1 DEF RemoteInv, ServiceInv, OnceOK, OnceOnly, Effects, NothingUnseen, SentAsShown,
              DestinationSafe
<1> QED
  BY <1>1, <1>2, <1>3, NextRemoteInv, RemoteTyped, AtStep DEF RemoteInv

\* An answer tells the command what it is kept for, and nothing else.
LEMMA AnswerTells ==
    ASSUME RemoteInv, NEW r \in wire, r.step = Current, r.step.op # "wait",
           NEW k \in WithAnswer(command, r)
    PROVE  /\ k \in RemoteCommand /\ Learns(command, k)
           /\ Current.keeps = "etag" => k.etag # 0
           /\ Current.keeps = "body" => k.body # "none"
<1>1. /\ command \in RemoteCommand /\ command.approval \in Approval
      /\ service.version \in 1 .. MaxVersion /\ service.version \in 0 .. MaxVersion
      /\ service.version # 0
      /\ service.connection \in 0 .. MaxChange /\ service.records \in 0 .. MaxChange
  <2>1. command \in RemoteCommand /\ service \in RemoteService
    BY AtStep
  <2>2. command.approval \in Approval
    BY <2>1 DEF RemoteCommand
  <2>3. /\ service.version \in 1 .. MaxVersion
        /\ service.connection \in 1 .. MaxChange /\ service.records \in 1 .. MaxChange
    BY <2>1 DEF RemoteService
  <2>4. \A m \in Nat \ {0} : \A n \in 1 .. m : n \in 0 .. m /\ n # 0
    OBVIOUS
  <2> QED
    BY <2>1, <2>2, <2>3, <2>4, RemoteAssumption
<1>2. CASE Current.keeps = "etag"
  <2>1. k = [command EXCEPT !.etag = service.version]
    BY <1>2 DEF WithAnswer
  <2> QED
    BY <1>1, <1>2, <2>1 DEF RemoteCommand, Learns
<1>3. CASE Current.keeps = "connection"
  <2>1. k = [command EXCEPT !.approval = [command.approval EXCEPT !.connection = service.connection]]
    BY <1>3 DEF WithAnswer
  <2>2. [command.approval EXCEPT !.connection = service.connection] \in Approval
    BY <1>1 DEF Approval
  <2> QED
    BY <1>1, <1>3, <2>1, <2>2, AtStep DEF RemoteCommand, Learns
<1>4. CASE Current.keeps = "preview"
  <2>1. k = [command EXCEPT !.approval = [command.approval EXCEPT !.records = service.records]]
    BY <1>4 DEF WithAnswer
  <2>2. [command.approval EXCEPT !.records = service.records] \in Approval
    BY <1>1 DEF Approval
  <2> QED
    BY <1>1, <1>4, <2>1, <2>2, AtStep DEF RemoteCommand, Learns
<1>5. CASE Current.keeps = "body"
  <2>1. PICK body \in {"whole", "short"} : k = [command EXCEPT !.body = body]
    BY <1>5 DEF WithAnswer
  <2> QED
    BY <1>1, <1>5, <2>1 DEF RemoteCommand, Learns
<1>6. CASE Current.keeps = "nothing"
  <2>1. k = command
    BY <1>6 DEF WithAnswer
  <2> QED
    BY <1>1, <1>6, <2>1 DEF Learns
<1> QED
  BY <1>2, <1>3, <1>4, <1>5, <1>6, AtStep DEF AnyStep

\* Whatever the service has done with a request, its answer or the lack of one leaves the
\* command where it may stand: a command that goes on has had its effect.
LEMMA AnswerKeeps ==
    ASSUME RemoteInv, NEW r \in wire, NEW accepted \in BOOLEAN, Answer(r, accepted),
           service' \in RemoteService, service'.job = service.job,
           NEW v \in SUBSET wire, IsFiniteSet(v), CommandInv(command, service', output, v),
           accepted /\ AwaitedBy(r) =>
              /\ r.step.kind = "set" => service'.set
              /\ r.step.kind \in Kinds \ {"set"} =>
                    service'.made >= Cardinality(Effects \cap PassedBy(command)) + 1
    PROVE  command' \in RemoteCommand /\ CommandInv(command', service', output, v)
<1>1. CASE UNCHANGED command
  BY <1>1, AtStep
<1>2. ASSUME AwaitedBy(r), NEW exit \in {"refused", "timeout"}, command' = Ended(command, exit)
      PROVE  command' \in RemoteCommand /\ CommandInv(command', service', output, v)
  BY <1>2, AtStep, CommandEnded DEF AwaitedBy
<1>3. ASSUME AwaitedBy(r) PROVE r.step = Current /\ command.state = "sent"
  BY <1>3, AtStep DEF CommandInv, RequestOK, AwaitedBy
<1>4. ASSUME AwaitedBy(r), accepted, NEW k \in RemoteCommand, Learns(command, k),
             StepDone(k, service', output), command' = Advance(k)
      PROVE  command' \in RemoteCommand /\ CommandInv(command', service', output, v)
  <2> DEFINE passed == Cardinality(Effects \cap PassedBy(command))
             next == Cardinality(Effects \cap (PassedBy(command) \cup {command.at}))
  <2>1. passed \in Nat /\ next <= passed + 1
    BY EffectsCounted, AtStep
  <2>2. next \in Nat
    BY EffectsCounted, AtStep
  <2>3. command.at \notin Effects => next = passed
    BY NoEffectHere, AtStep
  <2>4. command.at \in Effects => r.step.kind \in Kinds \ {"set"}
    BY <1>3, <1>4, AtStep DEF Effects
  <2>5. service'.made >= passed /\ service'.made \in Nat
    BY DEF CommandInv, RemoteService
  <2>6. service'.made >= next
    <3> HIDE DEF passed, next
    <3>1. CASE command.at \in Effects
      <4>1. service'.made >= passed + 1
        BY <1>4, <2>4, <3>1 DEF passed
      <4> QED
        BY <2>1, <2>2, <2>5, <4>1
    <3>2. CASE command.at \notin Effects
      BY <2>3, <2>5, <3>2
    <3> QED
      BY <3>1, <3>2
  <2> QED
    BY <1>3, <1>4, <2>6, AtStep, CommandAdvanced
<1>5. CASE /\ AwaitedBy(r) /\ r.step.op = "wait" /\ accepted
           /\ command' \in {CASE service.job = "succeeded" -> Advance(command)
                               [] service.job = "failed"    -> Ended(command, "refused")
                               [] OTHER                     -> Polled(command)}
  <2>1. /\ Current.op = "wait" /\ r.step = Current /\ command.state = "sent"
        /\ command.at \notin Effects
    BY <1>3, <1>5, AtStep, OnlySendsAreEffects
  <2>2. CASE service.job = "succeeded"
    <3>1. Learns(command, command) /\ StepDone(command, service', output)
      BY <2>1, <2>2, AtStep, OnlySendsAreEffects DEF Learns, StepDone
    <3>2. command' = Advance(command)
      BY <1>5, <2>2
    <3> QED
      BY <1>4, <1>5, <3>1, <3>2, AtStep
  <2>3. CASE service.job = "failed"
    BY <1>2, <1>5, <2>3
  <2>4. CASE service.job \notin {"succeeded", "failed"} /\ command' = Polled(command)
    <3>1. CASE command' = Ended(command, "timeout")
      BY <1>2, <1>5, <3>1
    <3>2. CASE command' = [command EXCEPT !.state = "ready", !.polls = @ + 1]
      <4>1. /\ command' \in RemoteCommand /\ command'.state = "ready"
            /\ command'.at = command.at /\ command'.run = command.run
            /\ command'.request = command.request /\ command'.exit = command.exit
            /\ command'.etag = command.etag /\ command'.body = command.body
            /\ command'.asked = command.asked /\ command'.shown = command.shown
            /\ command'.approval = command.approval
        <5>1. command.polls + 1 \in Nat
          BY AtStep DEF RemoteCommand
        <5> QED
          BY <3>2, <5>1, AtStep DEF RemoteCommand
      <4>2. PassedBy(command') = PassedBy(command) /\ Asked(command') = Asked(command)
        BY <2>1, <4>1 DEF PassedBy, Asked
      <4>3. command.exit = "none"
        BY <2>1, AtStep DEF CommandInv
      <4> QED
        BY <4>1, <4>2, <4>3 DEF CommandInv, PassedOK, AskedOK, RequestOK, OftenOK
    <3> QED
      BY <2>4, <3>1, <3>2 DEF Polled
  <2> QED
    BY <1>5, <2>2, <2>3, <2>4
<1>6. CASE AwaitedBy(r) /\ ~(r.step.op = "wait" /\ accepted) /\ command' \in _object(command, r, accepted)
  <2>1. CASE ~accepted
    BY <1>2, <1>6, <2>1 DEF _object
  <2>2. CASE accepted
    <3>1. PICK k \in WithAnswer(command, r) : command' = Advance(k)
      BY <1>6, <2>2 DEF _object
    <3>2. r.step = Current /\ r.step.op # "wait"
      BY <1>3, <1>6, <2>2
    <3>3. /\ k \in RemoteCommand /\ Learns(command, k)
          /\ Current.keeps = "etag" => k.etag # 0
          /\ Current.keeps = "body" => k.body # "none"
      BY <3>2, AnswerTells
    <3>4. r.step.op \in {"get", "send"}
      BY <3>2, AtStep DEF CommandInv, RequestOK
    <3>5. StepDone(k, service', output)
      BY <1>6, <2>2, <3>2, <3>3, <3>4, AtStep DEF StepDone, Learns
    <3> QED
      BY <1>4, <1>6, <2>2, <3>1, <3>3, <3>5
  <2> QED
    BY <2>1, <2>2
<1> QED
  BY <1>1, <1>5, <1>6 DEF Answer

\* A request that is served or refused is no longer on its way.
LEMMA RequestGone ==
    ASSUME RemoteInv, NEW r \in wire
    PROVE  /\ wire \ {r} \in SUBSET wire /\ IsFiniteSet(wire \ {r})
           /\ Cardinality(Pending(wire \ {r})) \in Nat /\ Cardinality(Pending(wire)) \in Nat
           /\ Cardinality(Pending(wire \ {r})) <= Cardinality(Pending(wire))
           /\ r.step.kind \in Kinds \ {"set"} =>
                 Cardinality(Pending(wire \ {r})) = Cardinality(Pending(wire)) - 1
<1>1. wire \ {r} \in SUBSET wire /\ IsFiniteSet(wire \ {r})
  BY AtStep, FS_Subset
<1>2. /\ IsFiniteSet(Pending(wire)) /\ Cardinality(Pending(wire)) \in Nat
      /\ Cardinality(Pending(wire \ {r})) \in Nat
  BY <1>1, AtStep, PendingCounted
<1>3. Pending(wire \ {r}) = Pending(wire) \ {r}
  BY DEF Pending
<1>4. Cardinality(Pending(wire) \ {r}) =
          IF r \in Pending(wire) THEN Cardinality(Pending(wire)) - 1 ELSE Cardinality(Pending(wire))
  BY <1>2, FS_RemoveElement
<1>5. r.step.kind \in Kinds \ {"set"} => r \in Pending(wire)
  BY DEF Pending
<1> QED
  BY <1>1, <1>2, <1>3, <1>4, <1>5

\* A request is one of the command's own steps.
LEMMA RequestStep ==
    ASSUME RemoteInv, NEW r \in wire
    PROVE  /\ r \in RemoteRequest /\ RequestOK(command, r)
           /\ \E i \in 1 .. Len(steps) : r.step = steps[i]
           /\ r.step.op = "send" <=> r.step.kind \in Kinds
  BY AtStep, OnlySendsAreEffects DEF CommandInv, RemoteRequest

\* The service leaves everything as it is, and answers.
LEMMA NothingServed ==
    ASSUME RemoteInv, NEW r \in wire, wire' = wire \ {r}, UNCHANGED <<steps, service, output>>,
           NEW accepted \in BOOLEAN, Answer(r, accepted),
           accepted /\ AwaitedBy(r) =>
              /\ r.step.kind = "set" => service.set
              /\ r.step.kind \in Kinds \ {"set"} =>
                    service.made >= Cardinality(Effects \cap PassedBy(command)) + 1
    PROVE  RemoteInv'
<1>1. /\ wire' \in SUBSET wire /\ IsFiniteSet(wire')
      /\ Cardinality(Pending(wire')) <= Cardinality(Pending(wire))
      /\ Cardinality(Pending(wire')) \in Nat /\ Cardinality(Pending(wire)) \in Nat
  BY RequestGone
<1>2. CommandInv(command, service', output, wire')
  <2>1. service.made \in Nat
    BY AtStep DEF RemoteService
  <2>2. service.made >= service.made
        /\ service.made + Cardinality(Pending(wire')) <= service.made + Cardinality(Pending(wire))
    BY <1>1, <2>1
  <2> QED
    BY <1>1, <2>2, AtStep, ServiceGoesOn
<1>3. command' \in RemoteCommand /\ CommandInv(command', service', output', wire')
  BY <1>1, <1>2, AtStep, AnswerKeeps
<1>4. ServiceInv'
  BY <1>1, ServiceStands
<1> QED
  BY <1>1, <1>3, <1>4, NextRemoteInv, RemoteTyped, AtStep DEF RemoteInv

LEMMA RejectKeeps == ASSUME RemoteInv, NEW r \in wire, Reject(r) PROVE RemoteInv'
  BY NothingServed DEF Reject

\* A key that is sent again has had its effect: there is no other effect to be counted.
LEMMA RepeatedCounts ==
    ASSUME RemoteInv, NEW r \in wire, Repeated(r), AwaitedBy(r)
    PROVE  /\ r.step.kind \in Kinds \ {"set"}
           /\ service.made >= Cardinality(Effects \cap PassedBy(command)) + 1
<1>1. r.step = steps[command.at] /\ command.state = "sent" /\ command.exit = "none"
  BY AtStep DEF CommandInv, RequestOK, AwaitedBy
<1>2. /\ r.step.kind \in Kinds \ {"set"}
      /\ \A j \in 1 .. Len(steps) : steps[j].kind \in Kinds \ {"set"} => j = command.at
  BY <1>1, AtStep, StepsOrdered DEF Repeated, KeepsOrder
<1>3. Effects \cap PassedBy(command) = {}
  BY <1>1, <1>2, AtStep DEF Effects, PassedBy
<1>4. Cardinality(Effects \cap PassedBy(command)) = 0
  BY <1>3, FS_EmptySet
<1>5. service.made \in Nat /\ service.made # 0
  BY AtStep DEF RemoteInv, ServiceInv, Repeated, RemoteService
<1> QED
  BY <1>2, <1>4, <1>5

\* What a served request makes of the service.
LEMMA ServiceApplied ==
    ASSUME RemoteInv, NEW r \in wire, r.step.kind = "change" => service.version < MaxVersion
    PROVE  LET t == Applied(r) IN
           /\ t \in RemoteService
           /\ t.made = IF r.step.kind = "set" THEN service.made ELSE service.made + 1
           /\ t.set = (service.set \/ r.step.kind = "set")
           /\ t.version = IF r.step.kind = "change" THEN service.version + 1 ELSE service.version
           /\ t.unseen = (service.unseen
                          \/ (r.step.kind = "change" /\ service.version \notin {Known, r.etag}))
           /\ t.served = IF r.step.key THEN {r.approval} ELSE service.served
           /\ t.started = IF r.step.approves
                          THEN service.started \cup
                               {[asked |-> r.asked, shown |-> r.shown, sent |-> Transmitted(r)]}
                          ELSE service.started
           /\ t.job = service.job
<1>1. /\ service \in RemoteService /\ r.approval \in Approval /\ r.shown \in Approval
      /\ r.asked \in BOOLEAN
  BY AtStep DEF RemoteRequest
<1>2. service.made + 1 \in Nat /\ service.made \in Nat
  BY <1>1 DEF RemoteService
<1>3. service.version \in 1 .. MaxVersion
      /\ (r.step.kind = "change" => service.version + 1 \in 1 .. MaxVersion)
  BY <1>1, RemoteAssumption DEF RemoteService
<1>4. Transmitted(r) \in Approval
  <2>1. service.connection \in 0 .. MaxChange /\ service.records \in 0 .. MaxChange
        /\ 0 \in 0 .. MaxChange
    BY <1>1, RemoteAssumption DEF RemoteService
  <2> QED
    BY <2>1 DEF Transmitted, Approval
<1> DEFINE made == IF r.step.kind = "set" THEN service.made ELSE service.made + 1
           set == service.set \/ r.step.kind = "set"
           version == IF r.step.kind = "change" THEN service.version + 1 ELSE service.version
           unseen == service.unseen
                     \/ (r.step.kind = "change" /\ service.version \notin {Known, r.etag})
           served == IF r.step.key THEN {r.approval} ELSE service.served
           started == IF r.step.approves
                      THEN service.started \cup
                           {[asked |-> r.asked, shown |-> r.shown, sent |-> Transmitted(r)]}
                      ELSE service.started
<1>5. made \in Nat /\ version \in 1 .. MaxVersion
  BY <1>2, <1>3
<1>6. set \in BOOLEAN /\ unseen \in BOOLEAN
  BY <1>1 DEF RemoteService
<1>7. served \in SUBSET Approval
  BY <1>1 DEF RemoteService
<1>8. started \in SUBSET [asked : BOOLEAN, shown : Approval, sent : Approval]
  BY <1>1, <1>4 DEF RemoteService
<1>9. Applied(r) = [service EXCEPT !.made = made, !.set = set, !.version = version,
                                   !.unseen = unseen, !.served = served, !.started = started]
  BY DEF Applied
<1> HIDE DEF made, set, version, unseen, served, started
<1>10. /\ Applied(r) \in RemoteService
       /\ Applied(r).made = made /\ Applied(r).set = set /\ Applied(r).version = version
       /\ Applied(r).unseen = unseen /\ Applied(r).served = served
       /\ Applied(r).started = started /\ Applied(r).job = service.job
  BY <1>1, <1>5, <1>6, <1>7, <1>8, <1>9 DEF RemoteService
<1> QED
  BY <1>10 DEF made, set, version, unseen, served, started

\* An effect that happens once cannot have happened when its request is applied.
LEMMA FirstEffect ==
    ASSUME RemoteInv, NEW r \in wire, r.step.kind \in Kinds \ {"set"}, ~Repeated(r),
           Applicable(r), \A i \in Effects : OnceOnly(i)
    PROVE  /\ service.made = 0 /\ Effects # {}
           /\ (\E i \in Effects : steps[i].key) => r.step.key
           /\ r.step.key \/ r.step.kind = "change"
<1>1. PICK i \in 1 .. Len(steps) : r.step = steps[i]
  BY RequestStep
<1>2. i \in Effects /\ OnceOnly(i)
  BY <1>1 DEF Effects
<1>3. service.made \in Nat /\ (service.made # 0 => service.made = 1)
  BY AtStep DEF RemoteInv, ServiceInv, OnceOK, RemoteService
<1>4. ASSUME NEW j \in Effects, steps[j].key
      PROVE  j = i
  BY <1>2, <1>4, AtStep, StepsOrdered DEF KeepsOrder, Effects
<1>5. CASE r.step.key
  <2>1. service.served = {}
    BY <1>5 DEF Repeated
  <2> QED
    BY <1>1, <1>2, <1>3, <1>5, <2>1 DEF RemoteInv, ServiceInv, OnceOK
<1>6. CASE ~r.step.key
  <2>1. r.step.kind = "change" /\ r.step.etag = "given"
    BY <1>1, <1>2, <1>6 DEF OnceOnly
  <2>2. r.etag = Known
    BY <2>1, RequestStep DEF RequestOK
  <2>3. service.version = Known
    BY <2>2 DEF Applicable, Known
  <2>4. ~(\E j \in Effects : steps[j].key)
    BY <1>1, <1>4, <1>6
  <2> QED
    BY <1>2, <1>3, <2>1, <2>3, <2>4 DEF RemoteInv, ServiceInv, OnceOK
<1> QED
  BY <1>5, <1>6

\* A request that is applied has its effect, replaces what was seen, and sends a model what
\* was approved.
LEMMA AppliedKeeps ==
    ASSUME RemoteInv, NEW r \in wire, r.step.op = "send", ~Repeated(r), Applicable(r),
           r.step.kind = "change" => service.version < MaxVersion,
           wire' = wire \ {r}, service' = Applied(r), Answer(r, TRUE), UNCHANGED <<steps, output>>
    PROVE  RemoteInv'
<1>1. /\ service' \in RemoteService
      /\ service'.made = IF r.step.kind = "set" THEN service.made ELSE service.made + 1
      /\ service'.set = (service.set \/ r.step.kind = "set")
      /\ service'.version = IF r.step.kind = "change" THEN service.version + 1 ELSE service.version
      /\ service'.unseen = (service.unseen
                     \/ (r.step.kind = "change" /\ service.version \notin {Known, r.etag}))
      /\ service'.served = IF r.step.key THEN {r.approval} ELSE service.served
      /\ service'.started = IF r.step.approves
                     THEN service.started \cup
                          {[asked |-> r.asked, shown |-> r.shown, sent |-> Transmitted(r)]}
                     ELSE service.started
      /\ service'.job = service.job
  BY ServiceApplied
<1>2. /\ wire' \in SUBSET wire /\ IsFiniteSet(wire')
      /\ Cardinality(Pending(wire')) \in Nat /\ Cardinality(Pending(wire)) \in Nat
      /\ Cardinality(Pending(wire')) <= Cardinality(Pending(wire))
      /\ r.step.kind \in Kinds \ {"set"} =>
            Cardinality(Pending(wire')) = Cardinality(Pending(wire)) - 1
  BY RequestGone
<1>3. service.made \in Nat /\ service.version \in Nat \ {0}
  BY AtStep, RemoteAssumption DEF RemoteService
<1>4. r.step.kind \in Kinds
  BY RequestStep
<1>5. /\ service'.made >= service.made
      /\ service'.made + Cardinality(Pending(wire')) <= service.made + Cardinality(Pending(wire))
  BY <1>1, <1>2, <1>3, <1>4
<1>6. CommandInv(command, service', output, wire')
  BY <1>1, <1>2, <1>5, AtStep, ServiceGoesOn
<1>7. command' \in RemoteCommand /\ CommandInv(command', service', output', wire')
  <2>1. r.step.kind = "set" => service'.set
    BY <1>1
  <2>2. r.step.kind \in Kinds \ {"set"} =>
            service'.made >= Cardinality(Effects \cap PassedBy(command)) + 1
    <3>1. /\ service.made >= Cardinality(Effects \cap PassedBy(command))
          /\ Cardinality(Effects \cap PassedBy(command)) \in Nat
      BY AtStep, EffectsCounted DEF CommandInv
    <3> QED
      BY <1>1, <1>3, <3>1
  <2>3. TRUE \in BOOLEAN
    OBVIOUS
  <2> QED
    BY <1>1, <1>2, <1>6, <2>1, <2>2, <2>3, AnswerKeeps
<1>8. OnceOK'
  <2>1. SUFFICES ASSUME \A i \in Effects : OnceOnly(i)
                 PROVE  /\ service'.made <= 1
                        /\ service'.made = 1 =>
                              /\ Effects # {}
                              /\ IF \E i \in Effects : steps[i].key
                                 THEN service'.served # {}
                                 ELSE service'.version # Known
    BY DEF OnceOK, OnceOnly, Effects
  <2>2. CASE r.step.kind = "set"
    <3>1. /\ service'.made = service.made /\ service'.version = service.version
          /\ service.served # {} => service'.served # {}
      BY <1>1, <2>2
    <3> QED
      BY <2>1, <3>1 DEF RemoteInv, ServiceInv, OnceOK
  <2>3. CASE r.step.kind # "set"
    <3>1. /\ service.made = 0 /\ Effects # {}
          /\ (\E i \in Effects : steps[i].key) => r.step.key
          /\ r.step.key \/ r.step.kind = "change"
      BY <1>4, <2>1, <2>3, FirstEffect
    <3>2. service'.made = 1
      BY <1>1, <2>3, <3>1
    <3>3. (\E i \in Effects : steps[i].key) => service'.served # {}
      BY <1>1, <3>1
    <3>4. ~(\E i \in Effects : steps[i].key) => service'.version # Known
      <4>1. r.step.key => \E i \in Effects : steps[i].key
        BY <1>4, <2>3, RequestStep DEF Effects
      <4>2. r.step.kind = "change" => service'.version # Known
        BY <1>1, <1>3 DEF Known
      <4> QED
        BY <3>1, <4>1, <4>2
    <3> QED
      BY <3>1, <3>2, <3>3, <3>4
  <2> QED
    BY <2>2, <2>3
<1>9. service'.served # {} => service'.made # 0
  <2>1. r.step.key => r.step.kind # "set"
    BY RequestStep, AtStep, StepsOrdered DEF KeepsOrder
  <2> QED
    BY <1>1, <1>3, <2>1 DEF RemoteInv, ServiceInv
<1>10. NothingUnseen'
  <2>1. r.step.kind = "change" => r.etag = service.version
    BY RequestStep DEF RequestOK, Applicable
  <2> QED
    BY <1>1, <2>1 DEF RemoteInv, ServiceInv, NothingUnseen
<1>11. SentAsShown'
  <2>1. r.step.approves => Transmitted(r) = r.approval
    BY DEF Applicable
  <2>2. r.asked => r.shown = r.approval
    BY RequestStep DEF RequestOK
  <2>3. ASSUME NEW x \in service'.started, x.asked
        PROVE  x.shown = x.sent
    <3>1. CASE x \in service.started
      BY <2>3, <3>1 DEF RemoteInv, ServiceInv, SentAsShown
    <3>2. CASE /\ r.step.approves
               /\ x = [asked |-> r.asked, shown |-> r.shown, sent |-> Transmitted(r)]
      BY <2>1, <2>2, <2>3, <3>2
    <3> QED
      BY <1>1, <2>3, <3>1, <3>2
  <2> QED
    BY <2>3 DEF SentAsShown
<1>12. DestinationSafe'
  BY DEF RemoteInv, ServiceInv, DestinationSafe
<1>13. ServiceInv'
  BY <1>2, <1>8, <1>9, <1>10, <1>11, <1>12 DEF ServiceInv
<1> QED
  BY <1>1, <1>2, <1>7, <1>13, NextRemoteInv, RemoteTyped, AtStep DEF RemoteInv

LEMMA ServeKeeps == ASSUME RemoteInv, NEW r \in wire, Serve(r) PROVE RemoteInv'
<1>1. wire' = wire \ {r} /\ UNCHANGED <<steps, output>>
  BY DEF Serve
<1>2. CASE r.step.op # "send"
  <2> DEFINE accepted == r.step.keeps = "preview" =>
                           /\ service.version = Known
                           /\ service.connection = r.approval.connection
  <2>1. Answer(r, accepted) /\ UNCHANGED service /\ accepted \in BOOLEAN
    BY <1>2 DEF Serve
  <2> HIDE DEF accepted
  <2>2. r.step.kind \notin Kinds /\ r.step.kind # "set"
    BY <1>2, RequestStep DEF Kinds
  <2> QED
    BY <1>1, <2>1, <2>2, NothingServed
<1>3. CASE r.step.op = "send" /\ Repeated(r)
  <2>1. Answer(r, r.approval \in service.served) /\ UNCHANGED service
        /\ (r.approval \in service.served) \in BOOLEAN
    BY <1>3 DEF Serve
  <2> QED
    BY <1>1, <1>3, <2>1, NothingServed, RepeatedCounts
<1>4. CASE r.step.op = "send" /\ ~Repeated(r) /\ Applicable(r)
  BY <1>1, <1>4, AppliedKeeps DEF Serve
<1>5. CASE r.step.op = "send" /\ ~Repeated(r) /\ ~Applicable(r)
  <2>1. Answer(r, FALSE) /\ UNCHANGED service
    BY <1>5 DEF Serve
  <2> QED
    BY <1>1, <2>1, NothingServed
<1> QED
  BY <1>2, <1>3, <1>4, <1>5

LEMMA RemoteInvKept == ASSUME RemoteInv, RemoteNext PROVE RemoteInv'
<1>1. CASE CommandStep
  BY <1>1, ReadInputKeeps, RefuseArgumentsKeeps, ConfirmKeeps, LookAtDestinationKeeps,
     PutInPlaceKeeps, IssueKeeps DEF CommandStep
<1>2. CASE NetworkError \/ Interrupt \/ RunAgain \/ SomeoneElse \/ FileAppears
  BY <1>2, NetworkErrorKeeps, InterruptKeeps, RunAgainKeeps, SomeoneElseKeeps, FileAppearsKeeps
<1>3. CASE \E r \in wire : Serve(r) \/ Reject(r)
  BY <1>3, ServeKeeps, RejectKeeps
<1> QED
  BY <1>1, <1>2, <1>3 DEF RemoteNext

\* What the invariant says of a command that is looked at from outside.
LEMMA RemoteHonest ==
    ASSUME RemoteInv
    PROVE  /\ RemoteTypeOK /\ EffectsAsRun /\ NothingUnseen /\ SuccessIsReal /\ SentAsShown
           /\ DestinationSafe
<1>1. /\ Cardinality(Effects) \in Nat /\ IsFiniteSet(Effects)
      /\ service.made \in Nat /\ command.run \in Nat
  <2>1. Cardinality(Effects) \in Nat /\ IsFiniteSet(Effects)
    BY AtStep, EffectsCounted
  <2>2. service.made \in Nat
    BY AtStep DEF RemoteService
  <2>3. command.run \in Nat
    BY AtStep, RemoteAssumption DEF RemoteCommand
  <2> QED
    BY <2>1, <2>2, <2>3
<1>2. EffectsAsRun
  <2>1. CASE \A i \in Effects : OnceOnly(i)
    <3>1. service.made <= 1 /\ (service.made = 1 => Effects # {})
      BY <2>1 DEF RemoteInv, ServiceInv, OnceOK
    <3>2. Effects # {} => Cardinality(Effects) # 0
      BY <1>1, FS_EmptySet
    <3>3. service.made <= Cardinality(Effects)
      BY <1>1, <3>1, <3>2
    <3> QED
      BY <2>1, <3>3 DEF EffectsAsRun
  <2>2. CASE \E i \in Effects : ~OnceOnly(i)
    <3>1. /\ Cardinality(Asked(command)) \in Nat
          /\ Cardinality(Asked(command)) <= Cardinality(Effects)
          /\ Cardinality(Effects) * (command.run - 1) \in Nat
          /\ Cardinality(Effects) * (command.run - 1) + Cardinality(Effects)
                 = Cardinality(Effects) * command.run
      BY AskedCounted, AtStep
    <3>2. Cardinality(Pending(wire)) \in Nat
      BY PendingCounted, AtStep
    <3>3. OftenOK(command, wire, service.made)
      BY DEF RemoteInv, CommandInv
    <3>4. service.made <= Cardinality(Effects) * command.run
      BY <1>1, <2>2, <3>1, <3>2, <3>3 DEF OftenOK
    <3> QED
      BY <2>2, <3>4 DEF EffectsAsRun
  <2> QED
    BY <2>1, <2>2
<1>3. SuccessIsReal
  <2>1. SUFFICES ASSUME command.exit = "ok"
                 PROVE  /\ service.made >= Cardinality(Effects)
                        /\ Has("kind", "set") => service.set
                        /\ Has("op", "wait") => service.job = "succeeded"
                        /\ Has("op", "save") => output \in {"whole", "short"}
    BY DEF SuccessIsReal
  <2>2. PassedBy(command) = 1 .. Len(steps)
    BY <2>1 DEF PassedBy
  <2>3. Effects \cap PassedBy(command) = Effects
    BY <2>2 DEF Effects
  <2>4. service.made >= Cardinality(Effects)
    BY <2>3 DEF RemoteInv, CommandInv
  <2> QED
    BY <2>2, <2>4 DEF RemoteInv, CommandInv, PassedOK, Has
<1> QED
  BY <1>2, <1>3 DEF RemoteInv, ServiceInv

\* Only a download that may overwrite replaces what was at its destination.
LEMMA OnlyOverwriting == ASSUME RemoteInv, RemoteNext PROVE DestinationKept
<1>1. CASE PutInPlace /\ output' # output
  <2>1. Current.op = "save" /\ MayPut(Current)
    BY <1>1 DEF PutInPlace, CommandAt
  <2> QED
    BY <2>1, AtStep DEF MayPut, DestinationKept
<1>2. CASE FileAppears
  BY <1>2 DEF FileAppears, DestinationKept
<1>3. CASE output' = output
  BY <1>3 DEF DestinationKept
<1> QED
  BY <1>1, <1>2, <1>3
     DEF RemoteNext, CommandStep, ReadInput, RefuseArguments, Confirm, LookAtDestination, Issue,
         NetworkError, Interrupt, RunAgain, SomeoneElse, Serve, Reject

\* Any remote command, run any number of times over a network that loses requests and
\* answers, beside other clients and beside files that appear: it has its effect once under a
\* key or the ETag that its user has seen, replaces nothing unseen, sends a model what was
\* shown, succeeds only if it has done what it was run for, and replaces no file unasked.
THEOREM CommandsStayHonest == RemoteSpec => CommandsHonest
<1> DEFINE Honest == RemoteTypeOK /\ EffectsAsRun /\ NothingUnseen /\ SuccessIsReal
                     /\ SentAsShown /\ DestinationSafe
<1>1. RemoteInit => RemoteInv
  BY RemoteStart
<1>2. RemoteInv /\ [RemoteNext]_remoteVars => RemoteInv'
  <2>1. ASSUME RemoteInv, UNCHANGED remoteVars
        PROVE  RemoteInv'
    BY <2>1, RemoteMoves, AtStep DEF remoteVars
  <2> QED
    BY <2>1, RemoteInvKept
<1>3. RemoteInv => Honest
  BY RemoteHonest
<1>4. RemoteInv /\ [RemoteNext]_remoteVars => [DestinationKept]_remoteVars
  BY OnlyOverwriting
<1> HIDE DEF Honest
<1>5. RemoteSpec => []Honest /\ [][DestinationKept]_remoteVars
  BY <1>1, <1>2, <1>3, <1>4, PTL DEF RemoteSpec
<1> QED
  BY <1>5 DEF CommandsHonest, Honest

=============================================================================
