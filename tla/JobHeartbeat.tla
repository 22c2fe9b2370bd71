---------------------------- MODULE JobHeartbeat ----------------------------
(***************************************************************************)
(* One attempt of one job inside one worker process: the main thread, which*)
(* converts, reports progress and finishes the job, and the heartbeat      *)
(* thread of JobHeartbeatService, which renews the lease meanwhile         *)
(* (jobs/worker_execution.py).  They share the progress to report, a lock  *)
(* around every write to the job, a stop event and a list of errors.       *)
(*                                                                         *)
(* A step here is one access to shared memory, one clock reading or one    *)
(* transaction, so the two threads interleave inside each heartbeat.       *)
(* ConversionService takes a heartbeat as one step; the properties below   *)
(* say why it may.                                                         *)
(***************************************************************************)
EXTENDS Integers

CONSTANTS
    Steps,          \* how many times the processor reports progress
    LeaseSeconds,
    MaxClock,       \* bound: how far the clock runs
    MaxFaults       \* bound: how many transactions fail

ASSUME HeartbeatAssumption ==
    /\ Steps \in Nat
    /\ LeaseSeconds \in Nat \ {0}
    /\ MaxClock \in Nat
    /\ MaxFaults \in Nat

VARIABLES
    clock,      \* the wall clock of this worker
    row,        \* the job's row, as far as this attempt goes
    progress,   \* _ProgressState: how far the processor is
    lock,       \* who holds _operation_lock
    stop,       \* the _stop event
    errors,     \* whether _errors is not empty
    thread,     \* thread[x]: its program counter and what it has read
    faults

vars == <<clock, row, progress, lock, stop, errors, thread, faults>>

Threads == {"main", "keepalive"}

\* progress stands for the pair of step and percentage, which the processor
\* reports in increasing order.
Row == [owned            : BOOLEAN,
        finished         : BOOLEAN,
        heartbeat_at     : Int,
        lease_expires_at : Int,
        step             : 0 .. Steps,
        progress         : 0 .. Steps]

Thread == [pc    : {"work", "wait", "lock", "clock", "read", "beat", "resolve",
                    "decide", "publish", "verify", "finish", "stop", "join", "end"},
           now   : Int,          \* the clock reading
           step  : 0 .. Steps,   \* the progress read from memory
           error : {"none", "lost", "failed"}]   \* what its heartbeat raised

Init ==
    /\ clock = 0
    /\ row = [owned |-> TRUE, finished |-> FALSE, heartbeat_at |-> 0,
              lease_expires_at |-> LeaseSeconds, step |-> 0, progress |-> 0]
    /\ progress = 0
    /\ lock = "free"
    /\ stop = FALSE
    /\ errors = FALSE
    /\ thread = [x \in Threads |->
                    [pc |-> IF x = "main" THEN "work" ELSE "wait", now |-> 0,
                     step |-> 0, error |-> "none"]]
    /\ faults = 0

At(x, pc) == thread[x].pc = pc

Goto(x, pc) == thread' = [thread EXCEPT ![x].pc = pc]

----------------------------------------------------------------------------
(* _heartbeat, which both threads run with the lock held.                  *)

Acquire(x) ==
    /\ At(x, "lock")
    /\ lock = "free"
    /\ lock' = x
    /\ Goto(x, "clock")
    /\ UNCHANGED <<clock, row, progress, stop, errors, faults>>

ReadClock(x) ==
    /\ At(x, "clock")
    /\ thread' = [thread EXCEPT ![x].pc = "read", ![x].now = clock]
    /\ UNCHANGED <<clock, row, progress, lock, stop, errors, faults>>

\* Mutant: the heartbeat thread goes on with the progress it started with.
ReadCachedProgress(x) ==
    /\ At(x, "read")
    /\ thread' = [thread EXCEPT ![x].pc = "beat",
                                ![x].step = IF x = "main" THEN progress ELSE @]
    /\ UNCHANGED <<clock, row, progress, lock, stop, errors, faults>>

ReadProgress(x) ==
    /\ At(x, "read")
    /\ thread' = [thread EXCEPT ![x].pc = "beat", ![x].step = progress]
    /\ UNCHANGED <<clock, row, progress, lock, stop, errors, faults>>

LeaseLive(now) == row.owned /\ row.lease_expires_at >= now

Accepted(x) ==
    LeaseLive(thread[x].now) /\ row.heartbeat_at <= thread[x].now

\* Where a thread goes on after its heartbeat.
Resume(x) == Goto(x, IF x = "main" THEN "work" ELSE "wait")

Beat(x) ==
    /\ At(x, "beat")
    /\ Accepted(x)
    /\ row' = [row EXCEPT !.heartbeat_at = thread[x].now,
                          !.lease_expires_at = thread[x].now + LeaseSeconds,
                          !.step = thread[x].step,
                          !.progress = IF @ > thread[x].step THEN @ ELSE thread[x].step]
    /\ lock' = "free"
    /\ Resume(x)
    /\ UNCHANGED <<clock, progress, stop, errors, faults>>

\* A refusal or a failing transaction: the heartbeat thread records it, sets
\* _lease_lost and ends; in the main thread it is the outcome of processing.
BeatFails(x) ==
    /\ At(x, "beat")
    /\ \/ ~Accepted(x) /\ UNCHANGED faults
       \/ Accepted(x) /\ faults < MaxFaults /\ faults' = faults + 1
    /\ lock' = "free"
    /\ thread' = [thread EXCEPT ![x].pc = IF x = "main" THEN "resolve" ELSE "end",
                                ![x].error = IF Accepted(x) THEN "failed" ELSE "lost"]
    /\ errors' = (errors \/ x = "keepalive")
    /\ UNCHANGED <<clock, row, progress, stop>>

----------------------------------------------------------------------------
(* _keepalive                                                              *)

\* wait timed out without the event set.
KeepaliveDue ==
    /\ At("keepalive", "wait")
    /\ ~stop
    /\ Goto("keepalive", "lock")
    /\ UNCHANGED <<clock, row, progress, lock, stop, errors, faults>>

KeepaliveEnds ==
    /\ At("keepalive", "wait")
    /\ stop
    /\ Goto("keepalive", "end")
    /\ UNCHANGED <<clock, row, progress, lock, stop, errors, faults>>

----------------------------------------------------------------------------
(* The main thread: run_once.                                              *)

\* progress(): the new value is visible before the lock is taken.
Report ==
    /\ At("main", "work")
    /\ progress < Steps
    /\ progress' = progress + 1
    /\ Goto("main", "lock")
    /\ UNCHANGED <<clock, row, lock, stop, errors, faults>>

\* The processor returns or raises.
Processed ==
    /\ At("main", "work")
    /\ Goto("main", "resolve")
    /\ UNCHANGED <<clock, row, progress, lock, stop, errors, faults>>

\* guarded(): take the lock, then look at the errors.
Guard ==
    /\ \/ At("main", "resolve") /\ Goto("main", "decide")
       \/ At("main", "publish") /\ Goto("main", "verify")
    /\ lock = "free"
    /\ lock' = "main"
    /\ UNCHANGED <<clock, row, progress, stop, errors, faults>>

\* A recorded error, or the error of the main thread's own heartbeat.
GuardRaises ==
    /\ \/ errors /\ (At("main", "decide") \/ At("main", "verify"))
       \/ thread["main"].error # "none" /\ At("main", "decide")
    /\ lock' = "free"
    /\ Goto("main", "stop")
    /\ UNCHANGED <<clock, row, progress, stop, errors, faults>>

\* resolve: a result leaves the lock and is put into the store, a shutdown
\* leaves the job as it is, and everything else is finished under the lock.
\* After a failed heartbeat a cancellation or the budget still may finish it.
Decide ==
    /\ At("main", "decide")
    /\ ~errors
    /\ thread["main"].error # "lost"
    /\ \/ /\ thread["main"].error = "none"
          /\ Goto("main", "publish") /\ lock' = "free" /\ UNCHANGED stop
       \/ Goto("main", "stop") /\ lock' = "free" /\ stop' = TRUE
       \/ Goto("main", "verify") /\ UNCHANGED <<lock, stop>>
    /\ UNCHANGED <<clock, row, progress, errors, faults>>

\* The terminal transition reads the clock with the lock held.
ReadFinishClock ==
    /\ At("main", "verify")
    /\ ~errors
    /\ thread' = [thread EXCEPT !["main"].pc = "finish", !["main"].now = clock]
    /\ UNCHANGED <<clock, row, progress, lock, stop, errors, faults>>

\* _finish_owned, then request_stop, still under the lock.
Finish ==
    /\ At("main", "finish")
    /\ LeaseLive(thread["main"].now)
    /\ row' = [row EXCEPT !.owned = FALSE, !.finished = TRUE]
    /\ stop' = TRUE
    /\ lock' = "free"
    /\ Goto("main", "stop")
    /\ UNCHANGED <<clock, progress, errors, faults>>

FinishFails ==
    /\ At("main", "finish")
    /\ \/ ~LeaseLive(thread["main"].now) /\ UNCHANGED faults
       \/ LeaseLive(thread["main"].now) /\ faults < MaxFaults /\ faults' = faults + 1
    /\ lock' = "free"
    /\ Goto("main", "stop")
    /\ UNCHANGED <<clock, row, progress, stop, errors>>

\* Mutant: the finally clause only joins.
SetNothing ==
    /\ At("main", "stop")
    /\ Goto("main", "join")
    /\ UNCHANGED <<clock, row, progress, lock, stop, errors, faults>>

\* heartbeat.stop() in the finally clause of run_once.
SetStop ==
    /\ At("main", "stop")
    /\ stop' = TRUE
    /\ Goto("main", "join")
    /\ UNCHANGED <<clock, row, progress, lock, errors, faults>>

Join ==
    /\ At("main", "join")
    /\ At("keepalive", "end")
    /\ Goto("main", "end")
    /\ UNCHANGED <<clock, row, progress, lock, stop, errors, faults>>

----------------------------------------------------------------------------
(* The environment.                                                        *)

\* Another worker's recovery takes the job back once its lease has expired.
Recover ==
    /\ row.owned
    /\ row.lease_expires_at < clock
    /\ row' = [row EXCEPT !.owned = FALSE]
    /\ UNCHANGED <<clock, progress, lock, stop, errors, thread, faults>>

Tick ==
    /\ clock < MaxClock
    /\ clock' = clock + 1
    /\ UNCHANGED <<row, progress, lock, stop, errors, thread, faults>>

\* run_once has returned.
Returned == At("main", "end") /\ UNCHANGED vars

Heartbeat(x) == Acquire(x) \/ ReadClock(x) \/ ReadProgress(x) \/ Beat(x) \/ BeatFails(x)

Keepalive == Heartbeat("keepalive") \/ KeepaliveDue \/ KeepaliveEnds

Main ==
    \/ Heartbeat("main") \/ Report \/ Processed
    \/ Guard \/ GuardRaises \/ Decide \/ ReadFinishClock \/ Finish \/ FinishFails
    \/ SetStop \/ Join

Next == Keepalive \/ Main \/ Recover \/ Tick \/ Returned

Spec == Init /\ [][Next]_vars

----------------------------------------------------------------------------
(* Properties.                                                             *)

\* Both threads and what they share keep to their types.
TypeOK ==
    /\ clock \in 0 .. MaxClock
    /\ row \in Row
    /\ progress \in 0 .. Steps
    /\ lock \in Threads \cup {"free"}
    /\ stop \in BOOLEAN
    /\ errors \in BOOLEAN
    /\ thread \in [Threads -> Thread]
    /\ faults \in 0 .. MaxFaults

\* No false alarm: while the attempt owns the job, a heartbeat is never refused
\* for its clock reading being older than the last heartbeat of the other
\* thread.  A refusal would cost the attempt though its lease is good.
ReadingsOrdered ==
    \A x \in Threads : At(x, "beat") /\ row.owned => row.heartbeat_at <= thread[x].now

\* What the owner sees never goes backwards within an attempt: neither thread
\* overwrites the step that the other has stored with an older one.
StepKept == row'.step >= row.step /\ row'.progress >= row.progress

\* Once the heartbeat thread has recorded an error, this attempt no longer
\* finishes the job, whatever the main thread was doing at that moment: its
\* lease may be somebody else's.
ErrorIsFinal == errors => row'.finished = row.finished

\* The two threads of an attempt neither mislead nor overwrite each other.
ThreadsAgree == [](TypeOK /\ ReadingsOrdered) /\ [][StepKept /\ ErrorIsFinal]_vars

=============================================================================
