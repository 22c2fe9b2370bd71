--------------------------- MODULE Authentication ---------------------------
(* Local accounts and server-side sessions. A request is authenticated in  *)
(* several transactions (the session, the account, the idle policy, the    *)
(* session again), a login in three, and an account is changed in two: the *)
(* account, then its sessions. Whoever stops in between leaves the rest.    *)
EXTENDS Integers, Sequences

CONSTANTS
    Users,          \* accounts
    Admin,          \* the bootstrap administrator
    Tokens,         \* session tokens; a login draws a new one
    Requests,       \* request threads
    None,
    Absolute,       \* absolute_lifetime
    Minutes,        \* idle durations that an administrator may set
    MaxTime,        \* bound: the clock
    MaxVersion,     \* bound: security changes of one account
    MaxRevision,    \* bound: changes of the idle policy
    Asked           \* the operations that requests are made for

ASSUME AuthAssumption ==
    /\ None \notin Users /\ None \notin Tokens
    /\ Absolute \in Nat
    /\ Minutes \subseteq Nat
    /\ MaxTime \in Nat /\ MaxVersion \in Nat /\ MaxRevision \in Nat
    /\ Asked \subseteq {"use", "logout", "password", "create", "deactivate", "reactivate",
                        "reset", "require", "policy", "provision"}

VARIABLES
    users,          \* users[u]: UserRow
    sessions,       \* sessions[s]: SessionRow
    idlePolicy,     \* IdleSessionPolicyRow
    trail,          \* IdleSessionPolicyAuditRow, in order
    request,        \* request[r]: what request thread r is at
    now,
    dead,           \* history: tokens whose login came before a security change
    used            \* history: used[s], when the session was last accepted, or -1

authVars == <<users, sessions, idlePolicy, trail, request, now, dead, used>>

UserRow ==
    [exists : BOOLEAN, role : {"user", "admin"}, active : BOOLEAN,
     version : 0 .. MaxVersion, change : BOOLEAN, password : Nat]

NoSession == [user |-> None, version |-> 0, seen |-> 0, idle |-> 0, absolute |-> 0]

SessionRow ==
    [user : Users \cup {None}, version : 0 .. MaxVersion, seen : 0 .. MaxTime,
     idle : Nat, absolute : Nat]

Waiting == [pc |-> "idle", op |-> "none", token |-> None, session |-> NoSession,
            user |-> None, version |-> 0, role |-> "user", change |-> FALSE,
            minutes |-> 0, revision |-> 0, late |-> FALSE]

AdminOperations == {"create", "deactivate", "reactivate", "reset", "require", "policy"}

UserOperations == {"use", "logout", "password"}

Request ==
    [pc       : {"idle", "session", "user", "check", "save", "csrf", "act", "commit",
                 "store", "revoke", "replace"},
     op       : UserOperations \cup AdminOperations \cup {"none", "login", "provision"},
     token    : Tokens \cup {None},
     session  : SessionRow,                 \* the row as it was read
     user     : Users \cup {None},
     version  : 0 .. MaxVersion,            \* auth_version as it was read
     role     : {"user", "admin"},
     change   : BOOLEAN,
     minutes  : Nat,
     revision : Nat,
     late     : BOOLEAN]                    \* history: the token was dead at the start

AuthInit ==
    /\ users = [u \in Users |->
          [exists |-> u = Admin, role |-> IF u = Admin THEN "admin" ELSE "user",
           active |-> TRUE, version |-> 0, change |-> FALSE, password |-> 0]]
    /\ sessions = [s \in Tokens |-> NoSession]
    /\ \E m \in Minutes : idlePolicy = [minutes |-> m, revision |-> 0]
    /\ trail = <<>>
    /\ request = [r \in Requests |-> Waiting]
    /\ now = 0
    /\ dead = {}
    /\ used = [s \in Tokens |-> -1]

----------------------------------------------------------------------------

Lesser(a, b) == IF a < b THEN a ELSE b

AtStep(r, pc) == request[r].pc = pc

Answer(r) == request' = [request EXCEPT ![r] = Waiting]

ToStep(r, pc) == request' = [request EXCEPT ![r].pc = pc]

Stored(s) == sessions[s].user # None

Drawn(s) == \/ Stored(s) \/ s \in dead \/ used[s] >= 0
            \/ \E r \in Requests : request[r].token = s

revoke(s) == sessions' = [sessions EXCEPT ![s] = NoSession]

\* _idle_lifetime: one duration for each role; the model keeps one for both.
IdleLifetime == idlePolicy.minutes

Untouched == UNCHANGED <<users, sessions, idlePolicy, trail, now, dead, used>>

----------------------------------------------------------------------------
(* login: verify, compare and set, create the session.                     *)

\* Any password may be tried: the one the account has, or an old one. The
\* token is drawn later in the code, and named here.
login(r, u, s) ==
    /\ AtStep(r, "idle")
    /\ ~Drawn(s)
    /\ users[u].exists /\ users[u].active
    /\ request' = [request EXCEPT ![r] = [Waiting EXCEPT !.pc = "commit", !.op = "login",
                      !.token = s, !.user = u, !.version = users[u].version]]
    /\ Untouched

\* The session that the client still has is logged out first, whatever becomes of the login.
EndPrevious(r, s) ==
    /\ AtStep(r, "idle")
    /\ Stored(s)
    /\ revoke(s)
    /\ Answer(r)
    /\ UNCHANGED <<users, idlePolicy, trail, now, dead, used>>

commit_verified_login(r) ==
    LET u == users[request[r].user]
    IN  /\ AtStep(r, "commit")
        /\ IF u.active /\ u.version = request[r].version
           THEN ToStep(r, "store")
           ELSE Answer(r)
        /\ Untouched

CreateSession(r) ==
    LET s == request[r].token
    IN  /\ AtStep(r, "store")
        /\ sessions' = [sessions EXCEPT ![s] =
              [user |-> request[r].user, version |-> request[r].version, seen |-> now,
               idle |-> Lesser(now + IdleLifetime, now + Absolute),
               absolute |-> now + Absolute]]
        /\ used' = [used EXCEPT ![s] = now]
        /\ Answer(r)
        /\ UNCHANGED <<users, idlePolicy, trail, now, dead>>

----------------------------------------------------------------------------
(* authenticate, and validate_csrf for what changes something.             *)

\* The client still sends the token of a session that may be gone.
BeginRequest(r, s, op) ==
    /\ AtStep(r, "idle")
    /\ Drawn(s)
    /\ request' = [request EXCEPT ![r] = [Waiting EXCEPT !.pc = "session", !.op = op,
                      !.token = s, !.late = s \in dead]]
    /\ Untouched

Expired(session) == now >= session.idle \/ now >= session.absolute

\* _stored_session
GetSession(r) ==
    LET s == request[r].token
    IN  /\ AtStep(r, "session")
        /\ IF Stored(s) /\ ~Expired(sessions[s])
           THEN /\ request' = [request EXCEPT ![r].pc = "user", ![r].session = sessions[s],
                                              ![r].user = sessions[s].user]
                /\ UNCHANGED sessions
           ELSE Answer(r) /\ (IF Stored(s) THEN revoke(s) ELSE UNCHANGED sessions)
        /\ UNCHANGED <<users, idlePolicy, trail, now, dead, used>>

\* Mutant: the sessions of a changed account are gone, so nobody compares.
SameAccountLoosely(r) == users[request[r].user].active

SameAccount(r) ==
    /\ users[request[r].user].active
    /\ users[request[r].user].version = request[r].session.version

GetUser(r) ==
    LET u == users[request[r].user]
    IN  /\ AtStep(r, "user")
        /\ IF SameAccount(r)
           THEN /\ request' = [request EXCEPT ![r].pc = "check", ![r].version = u.version,
                                              ![r].role = u.role, ![r].change = u.change]
                /\ UNCHANGED sessions
           ELSE Answer(r) /\ revoke(request[r].token)
        /\ UNCHANGED <<users, idlePolicy, trail, now, dead, used>>

\* The stored expiry, and the one that the policy in force gives.
StillIdle(r) ==
    /\ now < request[r].session.idle
    /\ now < Lesser(request[r].session.seen + IdleLifetime, request[r].session.absolute)

CheckIdle(r) ==
    /\ AtStep(r, "check")
    /\ IF ~StillIdle(r)
       THEN Answer(r) /\ revoke(request[r].token) /\ UNCHANGED used
       ELSE /\ UNCHANGED sessions
            /\ IF request[r].change /\ request[r].op \notin {"password", "logout"}
               THEN Answer(r) /\ UNCHANGED used
               ELSE /\ request' = [request EXCEPT ![r].pc = "save",
                          ![r].session.seen = now,
                          ![r].session.idle = Lesser(now + IdleLifetime,
                                                       request[r].session.absolute)]
                    /\ used' = [used EXCEPT ![request[r].token] = now]
    /\ UNCHANGED <<users, idlePolicy, trail, now, dead>>

\* Mutant: the session is written whether or not it is still there.
SaveAnyway(r) ==
    /\ AtStep(r, "save")
    /\ sessions' = [sessions EXCEPT ![request[r].token] = request[r].session]
    /\ ToStep(r, "csrf")
    /\ UNCHANGED <<users, idlePolicy, trail, now, dead, used>>

save(r) ==
    LET s == request[r].token
    IN  /\ AtStep(r, "save")
        /\ sessions' = IF Stored(s)
                       THEN [sessions EXCEPT ![s] = request[r].session]
                       ELSE sessions
        /\ ToStep(r, "csrf")
        /\ UNCHANGED <<users, idlePolicy, trail, now, dead, used>>

\* validate_csrf reads the session once more; require_admin for the operations
\* of an administrator.
validate_csrf(r) ==
    LET s == request[r].token
    IN  /\ AtStep(r, "csrf")
        /\ IF Stored(s) /\ ~Expired(sessions[s])
           THEN /\ UNCHANGED sessions
                /\ IF request[r].op \in AdminOperations /\ request[r].role # "admin"
                   THEN Answer(r)
                   ELSE ToStep(r, "act")
           ELSE Answer(r) /\ (IF Stored(s) THEN revoke(s) ELSE UNCHANGED sessions)
        /\ UNCHANGED <<users, idlePolicy, trail, now, dead, used>>

----------------------------------------------------------------------------
(* What an authenticated request does.                                     *)

UseService(r) == AtStep(r, "act") /\ request[r].op = "use" /\ Answer(r) /\ Untouched

logout(r) ==
    /\ AtStep(r, "act")
    /\ request[r].op = "logout"
    /\ revoke(request[r].token)
    /\ Answer(r)
    /\ UNCHANGED <<users, idlePolicy, trail, now, dead, used>>

\* Every login that is not later than a change of the account.
DeadWith(u) == {s \in Tokens : \/ sessions[s].user = u
                               \/ \E r \in Requests : request[r].token = s /\ request[r].user = u}

Changed(u, row) ==
    /\ users' = [users EXCEPT ![u] = [row EXCEPT !.version = @ + 1]]
    /\ dead' = dead \cup DeadWith(u)

\* A reset and a requirement both write the flag that the administrator has chosen.
SecurityChange(op, row, password, change) ==
    CASE op = "deactivate" -> [row EXCEPT !.active = FALSE]
      [] op = "reactivate" -> [row EXCEPT !.active = TRUE]
      [] op = "require"    -> [row EXCEPT !.change = change]
      [] op = "reset"      -> [row EXCEPT !.password = password, !.change = change]

\* set_active, reset_password, set_password_change_required: the account first,
\* its sessions in a transaction of their own.
update_security(r, u) ==
    /\ AtStep(r, "act")
    /\ request[r].op \in AdminOperations \ {"create", "policy"}
    /\ users[u].exists /\ users[u].version < MaxVersion
    /\ \E change \in BOOLEAN :
          Changed(u, SecurityChange(request[r].op, users[u], users[u].version + 1, change))
    /\ request' = [request EXCEPT ![r].pc = "revoke", ![r].user = u, ![r].token = None]
    /\ UNCHANGED <<sessions, idlePolicy, trail, now, used>>

revoke_user(r) ==
    /\ AtStep(r, "revoke")
    /\ sessions' = [s \in Tokens |-> IF sessions[s].user = request[r].user THEN NoSession
                                                                          ELSE sessions[s]]
    /\ Answer(r)
    /\ UNCHANGED <<users, idlePolicy, trail, now, dead, used>>

Renewable(r) ==
    LET u == users[request[r].user]
    IN  u.active /\ u.change /\ u.version = request[r].version

commit_password_change(r) ==
    LET u == request[r].user
    IN  /\ AtStep(r, "act")
        /\ request[r].op = "password"
        /\ users[u].version < MaxVersion
        /\ IF Renewable(r)
           THEN /\ Changed(u, [users[u] EXCEPT !.change = FALSE,
                                               !.password = users[u].version + 1])
                /\ ToStep(r, "revoke")
           ELSE Answer(r) /\ UNCHANGED <<users, dead>>
        /\ UNCHANGED <<sessions, idlePolicy, trail, now, used>>

create_user(r, u) ==
    /\ AtStep(r, "act")
    /\ request[r].op = "create"
    /\ ~users[u].exists
    /\ \E required \in BOOLEAN :
          users' = [users EXCEPT ![u].exists = TRUE, ![u].change = required]
    /\ Answer(r)
    /\ UNCHANGED <<sessions, idlePolicy, trail, now, dead, used>>

\* provision_users at the start of a process: accounts and their sessions in
\* one transaction, and the sessions once more.
provision(r, u) ==
    /\ AtStep(r, "idle") /\ "provision" \in Asked
    /\ users[u].version < MaxVersion
    /\ \E role \in {"user", "admin"}, active \in BOOLEAN :
         IF users[u].exists
         THEN /\ Changed(u, [users[u] EXCEPT !.role = role, !.active = active,
                                             !.password = users[u].version + 1])
              /\ sessions' = [s \in Tokens |-> IF sessions[s].user = u THEN NoSession
                                                                       ELSE sessions[s]]
         ELSE /\ users' = [users EXCEPT ![u].exists = TRUE, ![u].role = role,
                                        ![u].active = active]
              /\ UNCHANGED <<sessions, dead>>
    /\ request' = [request EXCEPT ![r] = [Waiting EXCEPT !.pc = "revoke", !.op = "provision",
                                          !.user = u]]
    /\ UNCHANGED <<idlePolicy, trail, now, used>>

----------------------------------------------------------------------------
(* The idle policy: an optimistic update with its evidence.                *)

\* The service reads the policy; the client's ETag says what it has seen.
update_idle_session_policy(r, m) ==
    /\ AtStep(r, "act")
    /\ request[r].op = "policy"
    /\ m <= Absolute
    /\ \E revision \in 0 .. idlePolicy.revision :
          request' = [request EXCEPT ![r].pc = "replace", ![r].revision = revision,
                                     ![r].minutes = m]
    /\ Untouched

ReplacePolicy(r) ==
    /\ AtStep(r, "replace")
    /\ idlePolicy.revision < MaxRevision
    /\ IF idlePolicy.revision = request[r].revision
       THEN /\ idlePolicy' = [minutes |-> request[r].minutes, revision |-> idlePolicy.revision + 1]
            /\ trail' = Append(trail, [old |-> idlePolicy.minutes, new |-> request[r].minutes,
                                       revision |-> idlePolicy.revision + 1])
       ELSE UNCHANGED <<idlePolicy, trail>>
    /\ Answer(r)
    /\ UNCHANGED <<users, sessions, now, dead, used>>

----------------------------------------------------------------------------

Tick ==
    /\ now < MaxTime
    /\ now' = now + 1
    /\ UNCHANGED <<users, sessions, idlePolicy, trail, request, dead, used>>

\* A process dies, or a transaction fails and its request is answered with an error.
Abandon(r) == request[r].pc # "idle" /\ Answer(r) /\ Untouched

AuthStep(r) ==
    \/ \E u \in Users, s \in Tokens : login(r, u, s)
    \/ \E s \in Tokens : EndPrevious(r, s)
    \/ commit_verified_login(r) \/ CreateSession(r)
    \/ \E s \in Tokens, op \in Asked \ {"provision"} : BeginRequest(r, s, op)
    \/ GetSession(r) \/ GetUser(r) \/ CheckIdle(r) \/ save(r) \/ validate_csrf(r)
    \/ UseService(r) \/ logout(r) \/ revoke_user(r) \/ commit_password_change(r)
    \/ \E u \in Users : update_security(r, u) \/ create_user(r, u) \/ provision(r, u)
    \/ \E m \in Minutes : update_idle_session_policy(r, m)
    \/ ReplacePolicy(r) \/ Abandon(r)

AuthNext == Tick \/ \E r \in Requests : AuthStep(r)

AuthSpec == AuthInit /\ [][AuthNext]_authVars

----------------------------------------------------------------------------

\* Types; and no session is ever kept past its absolute end.
AuthTypeOK ==
    /\ users \in [Users -> UserRow]
    /\ sessions \in [Tokens -> SessionRow]
    /\ request \in [Requests -> Request]
    /\ \A s \in Tokens : Stored(s) => sessions[s].idle <= sessions[s].absolute
    /\ now \in 0 .. MaxTime
    /\ dead \subseteq Tokens

\* A request that begins after an account was deactivated, reset or changed is
\* never let through with a login from before, even one that was verified
\* before the change and stored after the sessions were revoked.
NoStaleAccess ==
    \A r \in DOMAIN request : request[r].late => request[r].pc \in {"session", "user"}

\* The evidence of policy changes is one chain: every entry starts from what
\* the one before it left, and the last is the policy in force.
PolicyTrail ==
    /\ \A i \in 1 .. Len(trail) : trail[i].revision = i
    /\ \A i \in 2 .. Len(trail) : trail[i].old = trail[i - 1].new
    /\ trail # <<>> => trail[Len(trail)].new = idlePolicy.minutes

\* A credential that was withdrawn opens nothing (authenticate), and the idle
\* policy in force has its evidence (SqlIdleSessionPolicyRepository.update).
NoLateAccess == NoStaleAccess /\ PolicyTrail

\* Only somebody who logged in after an account's last change renews its
\* password: a renewal that was under way does not undo a reset.
HolderRenews ==
    \A r \in DOMAIN request :
        AtStep(r, "act") /\ request[r].op = "password" /\ request'[r].pc = "revoke" =>
            request[r].token \notin dead

\* A session that was ended stays ended: only a login makes one.
EndedStaysEnded ==
    \A s \in DOMAIN sessions : ~Stored(s) /\ Stored(s)' =>
        \E r \in DOMAIN request : AtStep(r, "store") /\ request[r].token = s

\* An accepted request is within the idle time that is in force, counted from
\* the last accepted request, and within the absolute lifetime.
SessionsLapse ==
    \A r \in DOMAIN request : AtStep(r, "check") /\ request'[r].pc = "save" =>
        /\ now < used[request[r].token] + idlePolicy.minutes
        /\ now < request[r].session.absolute

\* What was read before does not undo what was written since: neither an old
\* password (commit_password_change), nor a session that was ended (save),
\* nor the idle time of an earlier policy (authenticate) comes back.
ChangesFenced == [][HolderRenews /\ EndedStaysEnded /\ SessionsLapse]_authVars
=============================================================================
