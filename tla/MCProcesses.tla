----------------------------- MODULE MCProcesses ----------------------------
(* What happens inside single processes: the two threads of one attempt     *)
(* ("heartbeat"), a remote command against the service ("remote"), the      *)
(* session of the command line ("cli") and the publication of local outputs *)
(* ("outputs").                                                             *)
(* A behaviour stays in its instance.                                       *)
EXTENDS JobHeartbeat, RemoteClient, CliSessions, LocalOutputs

VARIABLE instance

processVars == <<instance, vars, remoteVars, sessionVars, outputVars>>

ComposerPart == INSTANCE ComposerCommands

AdministrationPart == INSTANCE AdministrationCommands

JobPart == INSTANCE JobCommands WITH MaxTries <- 2

AllCommands ==
    ComposerPart!register \cup AdministrationPart!_run \cup AdministrationPart!register
    \cup JobPart!conversions \cup JobPart!reversions

OutputNames == <<"docx", "manifest">>

----------------------------------------------------------------------------
NoHeartbeat == Init

NoRemote == RemoteInit /\ steps = <<Query>>

NoCli == SessionInit /\ ~renewal

NoOutputs ==
    /\ OutputsInit
    /\ \A n \in NameSet : before[n] = "none"
    /\ \A p \in Publishers : ~publisher[p].overwrite

ProcessesInit ==
    \/ /\ instance = "heartbeat" /\ Init
       /\ NoRemote /\ NoCli /\ NoOutputs
    \/ /\ instance = "remote" /\ RemoteInit
       /\ NoHeartbeat /\ NoCli /\ NoOutputs
    \/ /\ instance = "cli" /\ SessionInit
       /\ NoHeartbeat /\ NoRemote /\ NoOutputs
    \/ /\ instance = "outputs" /\ OutputsInit
       /\ NoHeartbeat /\ NoRemote /\ NoCli

InHeartbeat ==
    instance = "heartbeat" /\ UNCHANGED <<instance, remoteVars, sessionVars, outputVars>>

InRemote ==
    instance = "remote" /\ UNCHANGED <<instance, vars, sessionVars, outputVars>>

InCli == instance = "cli" /\ UNCHANGED <<instance, vars, remoteVars, outputVars>>

InOutputs ==
    instance = "outputs" /\ UNCHANGED <<instance, vars, remoteVars, sessionVars>>

ProcessesNext ==
    \/ InHeartbeat /\ Next
    \/ InRemote /\ RemoteNext
    \/ InCli /\ SessionNext
    \/ InOutputs /\ OutputsNext

\* The scheduler runs both threads of an attempt, and a lock that is released again and
\* again is acquired in the end. A command goes on while it waits for no answer; a call
\* ends by itself only at a --timeout, which a command that waits for a job must be given.
ProcessesSpec ==
    /\ ProcessesInit /\ [][ProcessesNext]_processVars
    /\ WF_processVars((InHeartbeat /\ Main) \/ (InRemote /\ CommandStep)
                      \/ (InRemote /\ Timed /\ NetworkError))
    /\ WF_processVars(InHeartbeat /\ Keepalive)
    /\ \A x \in Threads : SF_processVars(InHeartbeat /\ Acquire(x))
    /\ SF_processVars(InHeartbeat /\ Guard)

----------------------------------------------------------------------------
\* Neither thread waits for the other for ever: run_once comes back, joining the
\* heartbeat thread, whatever was refused or failed on the way.
RunOnceReturns == <>[](instance = "heartbeat" => At("main", "end"))

\* No poll and no retry goes on for ever, whatever is lost: a command that waits for a job
\* comes to its end, and any other does or waits for ever for the answer to one request.
CommandEnds ==
    <>[](instance = "remote" => \/ command.state = "ended"
                                \/ command.state = "sent" /\ ~Timed)

\* Every attempt and every command comes to its end, but for a request without an answer.
ProcessesEnd == RunOnceReturns /\ CommandEnds

=============================================================================
