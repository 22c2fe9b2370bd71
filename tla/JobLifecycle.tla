---------------------------- MODULE JobLifecycle ----------------------------
(***************************************************************************)
(* What the service promises about one conversion job, as a state machine  *)
(* per job (docs/jobs.md, "Lifecycle"): a job moves through queued and     *)
(* running to exactly one of succeeded, failed or cancelled, a recorded    *)
(* cancellation can only end in cancelled, attempts only grow, and a       *)
(* finished job is expired and then cleaned.                               *)
(*                                                                         *)
(* Recovery and cleanup are batch operations, so one step may move several *)
(* jobs.                                                                   *)
(***************************************************************************)
EXTENDS Naturals

CONSTANT Jobs

VARIABLE life   \* life[j]: its phase, and how often it has been claimed

Phases == {"absent", "reserved", "queued", "running", "stopping", "succeeded",
           "failed", "cancelled", "expired", "cleaned"}

\* The moves between phases that start no new attempt.
Moves ==
    {<<"absent", "reserved">>,
     <<"reserved", "queued">>, <<"reserved", "failed">>, <<"reserved", "cancelled">>,
     <<"queued", "cancelled">>,
     <<"running", "queued">>, <<"running", "stopping">>,
     <<"running", "succeeded">>, <<"running", "failed">>, <<"running", "cancelled">>,
     <<"stopping", "cancelled">>,
     <<"succeeded", "expired">>, <<"failed", "expired">>, <<"cancelled", "expired">>,
     <<"expired", "cleaned">>}

Unborn == [phase |-> "absent", attempt |-> 0]

LifeInit == life = [j \in Jobs |-> Unborn]

Start(old, new) ==
    /\ old.phase = "queued"
    /\ new = [phase |-> "running", attempt |-> old.attempt + 1]

Move(old, new) ==
    /\ <<old.phase, new.phase>> \in Moves
    /\ new.attempt = old.attempt

LifeNext ==
    /\ life' = [j \in Jobs |-> life'[j]]
    /\ \A j \in Jobs : \/ life'[j] = life[j]
                       \/ Start(life[j], life'[j])
                       \/ Move(life[j], life'[j])

LifeSpec == LifeInit /\ [][LifeNext]_life
=============================================================================
