----------------------------- MODULE LocalOutputs -----------------------------
(***************************************************************************)
(* The outputs of a local conversion and their publication, all or none    *)
(* (cli/commands/local_conversion.py and cli/local_outputs.py).  Several   *)
(* processes publish into one directory, under a lock on the directory     *)
(* itself; someone who knows nothing of the lock may write there as well.  *)
(*                                                                         *)
(* A step is one system call, or one checkpoint: a signal only sets an     *)
(* event, so cancellation and the deadline act at checkpoints alone.  A    *)
(* process may be killed anywhere.  A file is told apart by who wrote it,  *)
(* which is also what its inode says.                                      *)
(***************************************************************************)
EXTENDS Naturals, SequencesExt

CONSTANTS
    Publishers,
    Names,          \* the names of the outputs, in the order of publication
    MaxForeign,     \* bound: files that someone else writes
    MaxFailures     \* bound: system calls that fail

VARIABLES
    directory,  \* directory[n]: who wrote the file of that name, or "none"
    before,     \* the directory as it was at first
    hidden,     \* hidden[p]: the names of which p keeps a .previous file, with its writer
    staged,     \* staged[p]: the names for which p has a temporary file
    committed,  \* committed[p]: the names that p has published, with their backups
    publisher,  \* publisher[p]: where it is, and how it ends
    holder,     \* who holds the lock of the directory
    foreign,    \* the names that someone else has written since
    failures,
    cut         \* a publisher was killed, or could not roll back

outputVars == <<directory, before, hidden, staged, committed, publisher, holder, foreign,
                failures, cut>>

NameSet == {Names[i] : i \in 1 .. Len(Names)}

Writers == Publishers \cup {"none", "old", "foreign"}

ASSUME OutputsAssumption ==
    /\ Names \in Seq(NameSet) /\ Names # <<>> /\ IsInjective(Names)
    /\ Publishers \cap {"none", "old", "foreign"} = {}

OutputsInit ==
    /\ before \in [NameSet -> {"none", "old"}]
    /\ directory = before
    /\ hidden = [p \in Publishers |-> {}]
    /\ staged = [p \in Publishers |-> {}]
    /\ committed = [p \in Publishers |-> <<>>]
    /\ publisher \in [Publishers -> {[pc |-> "convert", next |-> 1, overwrite |-> overwrite,
                                      exit |-> "none"] : overwrite \in BOOLEAN}]
    /\ holder = "none" /\ foreign = {} /\ failures = 0 /\ cut = FALSE

PublisherAt(p, pc) == publisher[p].pc = pc

PublisherTo(p, pc) == publisher' = [publisher EXCEPT ![p].pc = pc]

NextName(p) == Names[publisher[p].next]

\* Everything is rolled back, in the end.
Abort(p, exit) == publisher' = [publisher EXCEPT ![p].pc = "rollback", ![p].exit = exit]

Fail == failures < MaxFailures /\ failures' = failures + 1

\* check_destination: an existing file is refused unless it may be replaced.
NameRefused(p, n) == directory[n] # "none" /\ ~publisher[p].overwrite

----------------------------------------------------------------------------
(* _convert_locally.                                                        *)

\* The destinations are looked at before the conversion, which may fail.
_convert_locally(p) ==
    /\ PublisherAt(p, "convert")
    /\ publisher' \in
          {[publisher EXCEPT ![p].pc = "done", ![p].exit = "failed"]}
          \cup (IF \E n \in NameSet : NameRefused(p, n)
                THEN {} ELSE {[publisher EXCEPT ![p].pc = "lock"]})
    /\ UNCHANGED <<directory, hidden, staged, committed, holder, foreign, failures, cut>>

LockFree == holder = "none"

\* output_busy, or a checkpoint while waiting.
_lock_directory(p) ==
    /\ PublisherAt(p, "lock")
    /\ \/ LockFree /\ holder' = p /\ PublisherTo(p, "stage")
       \/ /\ publisher' = [publisher EXCEPT ![p].pc = "done", ![p].exit = "failed"]
          /\ UNCHANGED holder
    /\ UNCHANGED <<directory, hidden, staged, committed, foreign, failures, cut>>

----------------------------------------------------------------------------
(* _publish_locked.                                                         *)

\* A checkpoint that raises.
Cancelled(p) ==
    /\ publisher[p].pc \in {"stage", "commit", "decide"}
    /\ Abort(p, "failed")
    /\ UNCHANGED <<directory, hidden, staged, committed, holder, foreign, failures, cut>>

_stage(p) ==
    /\ PublisherAt(p, "stage")
    /\ \/ /\ NameRefused(p, NextName(p)) /\ Abort(p, "failed")
          /\ UNCHANGED <<staged, failures>>
       \/ /\ Fail /\ Abort(p, "failed")
          /\ UNCHANGED staged
       \/ /\ ~NameRefused(p, NextName(p))
          /\ staged' = [staged EXCEPT ![p] = @ \cup {NextName(p)}]
          /\ publisher' = [publisher EXCEPT
                ![p].next = IF @ = Len(Names) THEN 1 ELSE @ + 1,
                ![p].pc = IF publisher[p].next = Len(Names) THEN "commit" ELSE "stage"]
          /\ UNCHANGED failures
    /\ UNCHANGED <<directory, hidden, committed, holder, foreign, cut>>

\* One name is published: the next one, or the decision.
Published(p, replaced) ==
    /\ committed' = [committed EXCEPT ![p] = Append(@, [name |-> NextName(p), backup |-> replaced])]
    /\ publisher' = [publisher EXCEPT
          ![p].next = IF @ = Len(Names) THEN 1 ELSE @ + 1,
          ![p].pc = IF publisher[p].next = Len(Names) THEN "decide" ELSE "commit"]

\* _commit of a name that is there and may be replaced: its file gets a second name...
\* A file that comes or goes between _exists and the link makes the link fail, and what
\* follows is what follows Cancelled.
LinkBackup(p) ==
    /\ PublisherAt(p, "commit")
    /\ publisher[p].overwrite /\ directory[NextName(p)] # "none"
    /\ \/ /\ hidden' = [hidden EXCEPT ![p] = @ \cup {[name |-> NextName(p), of |-> directory[NextName(p)]]}]
          /\ PublisherTo(p, "replace")
          /\ UNCHANGED failures
       \/ Fail /\ Abort(p, "failed") /\ UNCHANGED hidden
    /\ UNCHANGED <<directory, staged, committed, holder, foreign, cut>>

\* ... and then the new file takes its place.
Replace(p) ==
    /\ PublisherAt(p, "replace")
    /\ \/ /\ directory' = [directory EXCEPT ![NextName(p)] = p]
          /\ staged' = [staged EXCEPT ![p] = @ \ {NextName(p)}]
          /\ Published(p, TRUE)
          /\ UNCHANGED <<hidden, failures>>
       \/ /\ Fail /\ Abort(p, "failed")
          /\ hidden' = [hidden EXCEPT ![p] = {h \in @ : h.name # NextName(p)}]
          /\ UNCHANGED <<directory, staged, committed>>
    /\ UNCHANGED <<holder, foreign, cut>>

\* Mutant: a new name takes the place of whatever appeared there meanwhile.
MayLinkAnyway(p) == TRUE

MayLink(p) == directory[NextName(p)] = "none"

\* _commit of a name that was not there, or may not be replaced: os.link refuses one that is.
Link(p) ==
    /\ PublisherAt(p, "commit")
    /\ ~publisher[p].overwrite \/ directory[NextName(p)] = "none"
    /\ \/ /\ MayLink(p)
          /\ directory' = [directory EXCEPT ![NextName(p)] = p]
          /\ Published(p, FALSE)
          /\ UNCHANGED failures
       \/ /\ \/ ~MayLink(p) /\ UNCHANGED failures
             \/ Fail
          /\ Abort(p, "failed")
          /\ UNCHANGED <<directory, committed>>
    /\ UNCHANGED <<hidden, staged, holder, foreign, cut>>

\* The final checkpoint: a later signal no longer withdraws the result.
Accept(p) ==
    /\ PublisherAt(p, "decide")
    /\ \/ /\ publisher' = [publisher EXCEPT ![p].pc = "clean", ![p].exit = "ok"]
          /\ UNCHANGED failures
       \/ Fail /\ Abort(p, "failed")                         \* _fsync
    /\ UNCHANGED <<directory, hidden, staged, committed, holder, foreign, cut>>

----------------------------------------------------------------------------
(* _rollback, from the last name to the first: a look at the name, then its *)
(* previous file back in place.                                             *)

Undone(p) == committed' = [committed EXCEPT ![p] = Front(@)]

StillMine(p, n) == directory[n] = p

LookBack(p) ==
    /\ PublisherAt(p, "rollback")
    /\ IF committed[p] = <<>>
       THEN PublisherTo(p, "clean") /\ UNCHANGED <<committed, failures, cut>>
       ELSE \/ /\ StillMine(p, Last(committed[p]).name)
               /\ PublisherTo(p, "undo")
               /\ UNCHANGED <<committed, failures, cut>>
            \/ /\ ~StillMine(p, Last(committed[p]).name)     \* output_conflict
               /\ publisher' = [publisher EXCEPT
                     ![p].exit = IF Last(committed[p]).backup THEN "conflict" ELSE @]
               /\ Undone(p)
               /\ UNCHANGED <<failures, cut>>
            \/ Fail /\ Undone(p) /\ cut' = TRUE /\ UNCHANGED publisher
    /\ UNCHANGED <<directory, hidden, staged, holder, foreign>>

PreviousFile(p, n) == CHOOSE h \in hidden[p] : h.name = n

Restored(p, item) == IF item.backup THEN PreviousFile(p, item.name).of ELSE "none"

Undo(p) ==
    LET item == Last(committed[p])
    IN  /\ PublisherAt(p, "undo")
        /\ \/ /\ directory' = [directory EXCEPT ![item.name] = Restored(p, item)]
              /\ hidden' = [hidden EXCEPT ![p] = {h \in @ : h.name # item.name}]
              /\ UNCHANGED <<failures, cut>>
           \/ Fail /\ cut' = TRUE /\ UNCHANGED <<directory, hidden>>
        /\ Undone(p)
        /\ PublisherTo(p, "rollback")
        /\ UNCHANGED <<staged, holder, foreign>>

KeptBackups(p) == IF publisher[p].exit = "ok" THEN {} ELSE hidden[p]

\* The temporary files go, the previous ones after a success only, and the lock.
Clean(p) ==
    /\ PublisherAt(p, "clean")
    /\ staged' = [staged EXCEPT ![p] = {}]
    /\ hidden' = [hidden EXCEPT ![p] = KeptBackups(p)]
    /\ holder' = "none"
    /\ PublisherTo(p, "done")
    /\ UNCHANGED <<directory, committed, foreign, failures, cut>>

----------------------------------------------------------------------------
\* The kernel lets go of the lock of a process that is killed.
PublisherKilled(p) ==
    /\ ~PublisherAt(p, "done")
    /\ publisher' = [publisher EXCEPT ![p].pc = "done", ![p].exit = "killed"]
    /\ holder' = IF holder = p THEN "none" ELSE holder
    /\ cut' = (cut \/ holder = p)
    /\ UNCHANGED <<directory, hidden, staged, committed, foreign, failures>>

SomeoneWrites(n) ==
    /\ n \notin foreign /\ Cardinality(foreign) < MaxForeign
    /\ directory' = [directory EXCEPT ![n] = "foreign"]
    /\ foreign' = foreign \cup {n}
    /\ UNCHANGED <<hidden, staged, committed, publisher, holder, failures, cut>>

OutputsStep ==
    \/ \E p \in Publishers :
        \/ _convert_locally(p) \/ _lock_directory(p) \/ Cancelled(p) \/ _stage(p)
        \/ LinkBackup(p) \/ Replace(p) \/ Link(p) \/ Accept(p) \/ LookBack(p) \/ Undo(p)
        \/ Clean(p) \/ PublisherKilled(p)
    \/ \E n \in NameSet : SomeoneWrites(n)

OutputsNext == OutputsStep /\ UNCHANGED before

OutputsSpec == OutputsInit /\ [][OutputsNext]_outputVars

----------------------------------------------------------------------------
(* Properties.                                                              *)

OutputsTypeOK ==
    /\ directory \in [NameSet -> Writers]
    /\ hidden \in [Publishers -> SUBSET [name : NameSet, of : Writers \ {"none"}]]
    /\ holder \in Publishers \cup {"none"}

\* While nobody publishes, the directory holds the outputs of one conversion, or what was
\* there before: never some files of one and some of another.
OneSet ==
    (holder = "none" /\ ~cut /\ foreign = {}) =>
        \/ \A n \in NameSet : directory[n] \in {"none", "old"}
        \/ \E p \in Publishers : \A n \in NameSet : directory[n] = p

\* A file that was there before is in its place or in a .previous file, until a
\* publication that may replace it has succeeded; also after a kill in between.
PreviousKept ==
    \A n \in NameSet \ foreign :
        before[n] = "old" =>
            \/ directory[n] = "old"
            \/ \E p \in Publishers :
                \/ publisher[p].exit = "ok" /\ publisher[p].overwrite
                \/ [name |-> n, of |-> "old"] \in hidden[p]

\* A file of someone else is replaced by a publisher that may overwrite, and is otherwise
\* left alone; but one that is written between the look at a name and its undoing is lost.
ForeignKept ==
    \A n \in NameSet :
        (directory[n] = "foreign" /\ directory'[n] # "foreign") =>
            \E p \in Publishers : PublisherAt(p, "replace") \/ PublisherAt(p, "undo")

\* Outputs are there as a whole or not at all, and no file of anybody else is lost.
FilesKept == [](OutputsTypeOK /\ OneSet /\ PreviousKept) /\ [][ForeignKept]_outputVars

=============================================================================
