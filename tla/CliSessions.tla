----------------------------- MODULE CliSessions -----------------------------
(***************************************************************************)
(* The sessions of the command line: login, logout, whoami and             *)
(* change-password (cli/commands/authentication.py), the transport they    *)
(* use (cli/http.py) and the connection profile in which a session is kept *)
(* between commands (cli/profiles.py).  Commands run in processes of their *)
(* own, and nothing keeps two of them apart.                               *)
(*                                                                         *)
(* The service is what Authentication says of it: a login ends the session *)
(* that it is given, whether the password is right or not; a password      *)
(* change ends every session of the account.                               *)
(***************************************************************************)
EXTENDS Naturals, FiniteSets

CONSTANTS
    Processes,
    MaxSessions     \* bound: sessions that are created

ASSUME SessionAssumption == MaxSessions \in Nat

VARIABLES
    profile,    \* the session in the profile file, or 0
    live,       \* the sessions that the service would accept
    created,    \* how many it has created
    renewal,    \* password_change_required of the account
    process,    \* process[p]: the command that it runs
    left        \* left[s]: the window in which session s was left, or "nowhere"

sessionVars == <<profile, live, created, renewal, process, left>>

Commands == {"login", "logout", "whoami", "change_password"}

\* The windows of the code in which the one who has a session loses it:
\*   "cut"       the process ends before the session is in the profile;
\*   "answer"    an answer is lost, or says nothing that the command can use;
\*   "temporary" ProfileStore.save cannot make its temporary file;
\*   "refused"   the service refuses a password change;
\*   "beside"    another command has put its own session in the profile.
Windows == {"cut", "answer", "temporary", "refused", "beside"}

Idle == [command |-> "none", pc |-> "idle", held |-> 0, new |-> 0, exit |-> "none"]

SessionInit ==
    /\ profile = 0 /\ live = {} /\ created = 0
    /\ renewal \in BOOLEAN
    /\ process = [p \in Processes |-> Idle]
    /\ left = [s \in 1..MaxSessions |-> "nowhere"]

\* Session s, if there is one, is left to itself.
Leave(s, window) == left' = [t \in 1..MaxSessions |-> IF t = s THEN window ELSE left[t]]

To(p, pc) == process' = [process EXCEPT ![p].pc = pc]

\* What a command knew is kept when it reports that something has been done.
Exit(p, exit) ==
    process' = [process EXCEPT ![p] = IF exit = "ok"
                                      THEN [@ EXCEPT !.pc = "idle", !.exit = "ok"] ELSE Idle]

Runs(p, name, pc) == process[p].command = name /\ process[p].pc = pc

----------------------------------------------------------------------------
(* ProfileStore: a file of its own per profile, replaced at once.           *)

\* load: the session of the profile, which all but a login need.
Run(p, name) ==
    /\ process[p].pc = "idle"
    /\ process' = [process EXCEPT ![p] =
          IF name # "login" /\ profile = 0
          THEN Idle
          ELSE [Idle EXCEPT !.command = name, !.pc = "ask", !.held = profile]]
    /\ UNCHANGED <<profile, live, created, renewal, left>>

\* The session in the profile makes way. That of another command, written after this
\* one had read the profile, is then in no profile.
Displace(p) ==
    IF profile = process[p].held THEN UNCHANGED left ELSE Leave(profile, "beside")

\* delete goes by the name of the profile, whatever session is in it by now.
delete(p, exit) ==
    \/ profile' = 0 /\ Displace(p) /\ Exit(p, exit)
    \/ Exit(p, "failed") /\ UNCHANGED <<profile, left>>      \* profile_delete_failed

\* Mutant: the session is dropped with the profile that could not be written.
SaveFailedSilently(p) == Exit(p, "failed") /\ UNCHANGED left

\* A profile that cannot be written is a CliError, after which the session is ended; but
\* the temporary file is made outside the handler, and its OSError passes it by.
SaveFailed(p) ==
    \/ To(p, "undo") /\ UNCHANGED left
    \/ Exit(p, "failed") /\ Leave(process[p].new, "temporary")

save(p) ==
    /\ Runs(p, "login", "save")
    /\ \/ profile' = process[p].new /\ Displace(p) /\ Exit(p, "ok")
       \/ SaveFailed(p) /\ UNCHANGED profile
    /\ UNCHANGED <<live, created, renewal>>

----------------------------------------------------------------------------
(* Requests.  An answer may be lost after the request was served.           *)

\* HttpTransport.login: the session that the request carries is ended first.
LoginServed(p, previous, then) ==
    /\ created < MaxSessions
    /\ created' = created + 1
    /\ live' = (live \ {previous}) \cup {created + 1}
    /\ \/ /\ process' = [process EXCEPT ![p].pc = then, ![p].new = created + 1]
          /\ UNCHANGED left
       \/ Exit(p, "failed") /\ Leave(created + 1, "answer")
    /\ UNCHANGED <<profile, renewal>>

\* Refused, or lost on the way to the service.
LoginRefused(p, previous) ==
    /\ live' \in {live, live \ {previous}}
    /\ Exit(p, "failed")
    /\ UNCHANGED <<profile, created, renewal, left>>

login(p) ==
    /\ Runs(p, "login", "ask")
    /\ \/ LoginServed(p, process[p].held, "save")
       \/ LoginRefused(p, process[p].held)

\* The new session is ended, by a request of which an error is suppressed.
EndNew(p) ==
    \/ live' = live \ {process[p].new} /\ UNCHANGED left
    \/ Leave(process[p].new, "answer") /\ UNCHANGED live

\* The session that the profile could not keep is ended.
UndoLogin(p) ==
    /\ Runs(p, "login", "undo")
    /\ EndNew(p)
    /\ Exit(p, "failed")
    /\ UNCHANGED <<profile, created, renewal>>

\* 204 for a session that was there, 401 for one that was not; any other status keeps
\* the profile.
LogoutAnswered(p) ==
    \/ To(p, "delete") /\ live' = live \ {process[p].held}
    \/ Exit(p, "failed") /\ live' \in {live, live \ {process[p].held}}

logout(p) ==
    \/ /\ Runs(p, "logout", "ask")
       /\ LogoutAnswered(p)
       /\ UNCHANGED <<profile, created, renewal, left>>
    \/ /\ Runs(p, "logout", "delete")
       /\ delete(p, "ok")
       /\ UNCHANGED <<live, created, renewal>>

\* A session that the service does not know any more is forgotten.
SessionChecked(p, then) ==
    IF process[p].held \in live
    THEN then \/ Exit(p, "failed")                           \* network_error
    ELSE To(p, "forget") \/ Exit(p, "failed")

Forget(p) ==
    /\ process[p].pc = "forget"
    /\ delete(p, "failed")
    /\ UNCHANGED <<live, created, renewal>>

whoami(p) ==
    /\ Runs(p, "whoami", "ask")
    /\ SessionChecked(p, Exit(p, "shown"))
    /\ UNCHANGED <<profile, live, created, renewal, left>>

----------------------------------------------------------------------------
(* change-password: a session of its own proves the current password, and   *)
(* carries the change.                                                      *)

\* The service ends every session of the account, as old as they are.
ChangeServed(p) ==
    /\ process[p].new \in live
    /\ live' = {} /\ renewal' = FALSE
    /\ To(p, "changed") \/ Exit(p, "failed")                 \* the answer is lost
    /\ UNCHANGED left

ChangeRefused(p) == To(p, "withdraw") /\ UNCHANGED <<live, renewal, left>>

\* No answer to a change that was not served: a CliError that nothing handles.
ChangeLost(p) ==
    /\ Exit(p, "failed") /\ Leave(process[p].new, "answer")
    /\ UNCHANGED <<live, renewal>>

\* A refused change ends the new session, and takes the profile away although the
\* session in it is alive.
RemoveRefused(p) ==
    /\ Runs(p, "change_password", "remove")
    /\ \/ /\ profile' = 0
          /\ Leave(profile, IF profile = process[p].held THEN "refused" ELSE "beside")
       \/ UNCHANGED <<profile, left>>
    /\ Exit(p, "failed")
    /\ UNCHANGED <<live, created, renewal>>

change_password(p) ==
    \/ /\ Runs(p, "change_password", "ask")
       /\ SessionChecked(p, IF renewal THEN To(p, "renew") ELSE Exit(p, "failed"))
       /\ UNCHANGED <<profile, live, created, renewal, left>>
    \/ /\ Runs(p, "change_password", "renew")
       /\ LoginServed(p, 0, "change") \/ LoginRefused(p, 0)
    \/ /\ Runs(p, "change_password", "change")
       /\ ChangeServed(p) \/ ChangeRefused(p) \/ ChangeLost(p)
       /\ UNCHANGED <<profile, created>>
    \/ /\ Runs(p, "change_password", "withdraw")
       /\ EndNew(p)
       /\ To(p, "remove")
       /\ UNCHANGED <<profile, created, renewal>>
    \/ RemoveRefused(p)
    \/ /\ Runs(p, "change_password", "changed")
       /\ delete(p, "ok")
       /\ UNCHANGED <<live, created, renewal>>

----------------------------------------------------------------------------
\* A session in the hands of a command, which saves it or ends it.
Holds(p, s) == process[p].pc \in {"save", "undo", "change", "withdraw"} /\ process[p].new = s

\* An interruption, or an error that no handler of the command expects.
Killed(p) ==
    /\ process[p].pc # "idle"
    /\ Exit(p, "failed")
    /\ IF Holds(p, process[p].new) THEN Leave(process[p].new, "cut") ELSE UNCHANGED left
    /\ UNCHANGED <<profile, live, created, renewal>>

\* An administrator asks for a new password, or the session lapses.
ServiceActs ==
    /\ \/ ~renewal /\ renewal' = TRUE /\ UNCHANGED live
       \/ \E s \in live : live' = live \ {s} /\ UNCHANGED renewal
    /\ UNCHANGED <<profile, created, process, left>>

SessionNext ==
    \/ \E p \in Processes :
        \/ \E name \in Commands : Run(p, name)
        \/ login(p) \/ save(p) \/ UndoLogin(p) \/ logout(p) \/ whoami(p)
        \/ Forget(p) \/ change_password(p) \/ Killed(p)
    \/ ServiceActs

SessionSpec == SessionInit /\ [][SessionNext]_sessionVars

----------------------------------------------------------------------------
(* Properties.                                                              *)

\* A session that the service accepts is the one in the profile, or in the hands of a
\* command that will save it or end it, or it was left in one of the windows: a process
\* that was killed, an answer that was lost, a temporary file that could not be made
\* (which alone of the failures of a save ends nothing), a password change that was
\* refused, or a second command in the same profile. Each is a leak that the code has;
\* no other failure, and no command that ends as it should, leaves a session behind.
NoSessionForgotten ==
    \A s \in live : \/ s = profile
                    \/ \E p \in Processes : Holds(p, s)
                    \/ left[s] \in Windows

\* A command reports success only when what it was asked to end has ended, for good: a
\* sign-out and a login the session of the profile that they were run with, a password
\* change every session as old as the one that carried it.
Reported(p, name, pc) ==
    Runs(p, name, pc) \/ (Runs(p, name, "idle") /\ process[p].exit = "ok")

SignedOut ==
    \A p \in Processes :
        /\ Reported(p, "logout", "delete") \/ Reported(p, "login", "save")
              => process[p].held \notin live
        /\ Reported(p, "change_password", "changed")
              => \A s \in live : process[p].new < s

\* The user knows of every session that the command line has made, but for the windows.
SessionsKept == NoSessionForgotten /\ SignedOut

=============================================================================
