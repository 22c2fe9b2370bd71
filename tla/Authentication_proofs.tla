----------------------- MODULE Authentication_proofs ------------------------
(***************************************************************************)
(* Theorems about the local accounts and their sessions, for every set of  *)
(* accounts, tokens and request threads, interleaved in any order, and     *)
(* stopped between any two transactions.                                   *)
(*                                                                         *)
(* The inductive invariant says what each row and each request in progress *)
(* knows of an account: a version that is not later than the account's,    *)
(* and an earlier one once the account has changed since the login.  It    *)
(* holds because a token names one account for ever, which in turn holds   *)
(* because nobody but a login stores a session.                            *)
(***************************************************************************)
EXTENDS Authentication, SequenceTheorems, TLAPS

\* A login from before a change of its account has an earlier version.
Before(u, version, s) ==
    /\ u \in Users
    /\ version <= users[u].version
    /\ s \in dead => version < users[u].version

Verifying == {"commit", "store"}

Identified == {"user", "check", "save", "csrf", "act"}

Authenticated == {"check", "save", "csrf", "act"}

AuditRow == [old : Nat, new : Nat, revision : Nat]

TypesKept ==
    /\ AuthTypeOK
    /\ idlePolicy \in [minutes : Nat, revision : 0 .. MaxRevision]
    /\ trail \in Seq(AuditRow)
    /\ used \in [Tokens -> Int]
    /\ \A s \in Tokens : used[s] <= now

PolicyKept == PolicyTrail /\ Len(trail) = idlePolicy.revision

\* What a stored row says of the session with token s.
SessionOK(s, row) ==
    /\ Before(row.user, row.version, s)
    /\ row.idle <= row.absolute
    /\ row.seen <= used[s]

SessionsOK == \A s \in Tokens : Stored(s) => SessionOK(s, sessions[s])

\* What a request in progress has read.
RequestOK(q) ==
    /\ q.pc = "idle" => q.token = None
    /\ q.pc = "session" => q.token \in Tokens /\ q.user = None
    /\ q.pc \in Verifying =>
          q.token \in Tokens /\ ~Stored(q.token) /\ Before(q.user, q.version, q.token)
    /\ q.pc \in Identified =>
          q.token \in Tokens /\ q.session.user = q.user /\ SessionOK(q.token, q.session)
    /\ q.pc \in Authenticated => q.version = q.session.version
    /\ q.late => q.token \in dead /\ q.pc \in {"session", "user"}

RequestsOK == \A r \in Requests : RequestOK(request[r])

\* A token names one account: that of its session, and of the requests with it.
TokenOK(q) ==
    q.token \in Tokens /\ q.user # None /\ Stored(q.token) => sessions[q.token].user = q.user

\* Two requests with one token act for one account, and the token of a login
\* in progress is known to nobody who has found a session with it.
Agree(p, q) ==
    p.token \in Tokens /\ p.token = q.token =>
        /\ p.user # None /\ q.user # None => p.user = q.user
        /\ p.pc \in Verifying => q.pc = "session"

TokensOK ==
    /\ \A r \in Requests : TokenOK(request[r])
    /\ \A r, t \in Requests : r # t => Agree(request[r], request[t])

AuthInv == TypesKept /\ PolicyKept /\ SessionsOK /\ RequestsOK /\ TokensOK

\* What every step of the accounts and sessions is shown to be.
Kept == AuthInv' /\ HolderRenews /\ EndedStaysEnded /\ SessionsLapse

----------------------------------------------------------------------------

\* The bounds are natural numbers, and no value stands for none.
LEMMA Constants ==
  /\ None \notin Users /\ None \notin Tokens
  /\ Absolute \in Nat /\ MaxTime \in Nat /\ MaxVersion \in Nat /\ MaxRevision \in Nat
  /\ Minutes \subseteq Nat
  BY AuthAssumption

\* The empty rows.
LEMMA EmptyRows ==
  /\ NoSession \in SessionRow /\ NoSession.user = None
  /\ Waiting \in Request /\ Waiting.pc = "idle" /\ Waiting.token = None /\ Waiting.user = None
  /\ Waiting.late = FALSE
<1>1. NoSession \in SessionRow /\ NoSession.user = None
  BY Constants DEF NoSession, SessionRow
<1>2. Waiting \in Request
  BY <1>1, Constants DEF Waiting, Request
<1>. QED
  BY <1>1, <1>2 DEF Waiting

\* The first state of the accounts.
LEMMA InitKept == AuthInit => AuthInv
<1>. SUFFICES ASSUME AuthInit PROVE AuthInv
  OBVIOUS
<1>1. \A s \in Tokens : ~Stored(s)
  BY EmptyRows DEF AuthInit, Stored
<1>2. \A r \in Requests : request[r] = Waiting
  BY DEF AuthInit
<1>3. TypesKept
  <2>1. users \in [Users -> UserRow]
    BY Constants DEF AuthInit, UserRow
  <2>2. sessions \in [Tokens -> SessionRow] /\ request \in [Requests -> Request]
    BY EmptyRows DEF AuthInit
  <2>3. idlePolicy \in [minutes : Nat, revision : 0 .. MaxRevision]
    BY Constants DEF AuthInit
  <2>4. trail \in Seq(AuditRow)
    BY DEF AuthInit
  <2>5. /\ now \in 0 .. MaxTime /\ dead \subseteq Tokens
        /\ used \in [Tokens -> Int] /\ \A s \in Tokens : used[s] <= now
    BY Constants DEF AuthInit
  <2>. QED
    BY <1>1, <2>1, <2>2, <2>3, <2>4, <2>5 DEF TypesKept, AuthTypeOK
<1>4. PolicyKept
  BY DEF AuthInit, PolicyKept, PolicyTrail
<1>5. RequestsOK /\ TokensOK
  BY <1>2, EmptyRows, Constants
  DEF RequestsOK, RequestOK, TokensOK, TokenOK, Agree, Verifying, Identified, Authenticated
<1>. QED
  BY <1>1, <1>3, <1>4, <1>5 DEF AuthInv, SessionsOK

----------------------------------------------------------------------------
(* Steps that write one request and may end sessions.                      *)

\* What the invariant says of one request.
LEMMA RequestFacts ==
  ASSUME AuthInv, NEW r \in Requests
  PROVE  request[r] \in Request /\ RequestOK(request[r]) /\ TokenOK(request[r])
  BY DEF AuthInv, TypesKept, AuthTypeOK, RequestsOK, TokensOK

\* Request r becomes q, and nobody else is disturbed by that.
MayBecome(r, q) ==
    /\ q \in Request
    /\ RequestOK(q)
    /\ TokenOK(q)
    /\ \A t \in Requests \ {r} : Agree(q, request[t]) /\ Agree(request[t], q)
    /\ q.pc \notin {"revoke", "save"}

\* Sessions stay as they are or end.
SessionsMayEnd ==
    /\ sessions' \in [Tokens -> SessionRow]
    /\ \A s \in Tokens : sessions'[s] \in {sessions[s], NoSession}

LEMMA RequestWritten ==
  ASSUME AuthInv, NEW r \in Requests, NEW q, MayBecome(r, q), SessionsMayEnd,
         request' = [request EXCEPT ![r] = q],
         UNCHANGED <<users, idlePolicy, trail, now, dead, used>>
  PROVE  Kept
<1>1. /\ TypesKept /\ PolicyKept /\ SessionsOK /\ RequestsOK /\ TokensOK
      /\ request \in [Requests -> Request] /\ request' \in [Requests -> Request]
      /\ request'[r] = q /\ \A t \in Requests \ {r} : request'[t] = request[t]
  BY DEF AuthInv, TypesKept, AuthTypeOK, MayBecome
<1>2. \A s \in Tokens : Stored(s)' => Stored(s) /\ sessions'[s] = sessions[s]
  BY EmptyRows DEF SessionsMayEnd, Stored
<1>3. \A s, row : SessionOK(s, row)' <=> SessionOK(s, row)
  BY DEF SessionOK, Before
<1>4. TypesKept'
  BY <1>1, <1>2 DEF TypesKept, AuthTypeOK, SessionsMayEnd
<1>5. PolicyKept'
  BY <1>1 DEF PolicyKept, PolicyTrail
<1>6. SessionsOK'
  BY <1>1, <1>2, <1>3 DEF SessionsOK
<1>7. RequestsOK'
  <2>1. ASSUME NEW p, RequestOK(p) PROVE RequestOK(p)'
    BY <1>2, <1>3, <2>1 DEF RequestOK, Before
  <2>. QED
    BY <1>1, <2>1 DEF RequestsOK, MayBecome
<1>8. TokensOK'
  <2>1. ASSUME NEW p, TokenOK(p) PROVE TokenOK(p)'
    BY <1>2, <2>1 DEF TokenOK
  <2>. QED
    BY <1>1, <2>1 DEF TokensOK, MayBecome, Agree
<1>9. HolderRenews /\ EndedStaysEnded /\ SessionsLapse
  <2>1. DOMAIN sessions = Tokens /\ DOMAIN request = Requests
    BY <1>1 DEF TypesKept, AuthTypeOK
  <2>. QED
    BY <1>1, <1>2, <2>1 DEF HolderRenews, EndedStaysEnded, SessionsLapse, AtStep, MayBecome
<1>. QED
  BY <1>4, <1>5, <1>6, <1>7, <1>8, <1>9 DEF Kept, AuthInv

\* A request that is answered.
LEMMA MayAnswer ==
  ASSUME NEW r
  PROVE  MayBecome(r, Waiting)
  BY EmptyRows, Constants
  DEF MayBecome, RequestOK, TokenOK, Agree, Verifying, Identified, Authenticated

\* A step of a request that keeps its token and its account.
LEMMA MayMoveOn ==
  ASSUME AuthInv, NEW r \in Requests, NEW q \in Request, RequestOK(q),
         q.token = request[r].token, q.user = request[r].user,
         q.pc \in Verifying => request[r].pc \in Verifying,
         request[r].pc = "session" => q.pc = "session",
         q.pc \notin {"revoke", "save"}
  PROVE  MayBecome(r, q)
  BY DEF MayBecome, AuthInv, TokensOK, TokenOK, Agree

\* No session is ended, or one, or those of an account.
LEMMA NoneEnd ==
  ASSUME AuthInv, UNCHANGED sessions
  PROVE  SessionsMayEnd
  BY DEF AuthInv, TypesKept, AuthTypeOK, SessionsMayEnd

LEMMA OneEnds ==
  ASSUME AuthInv, NEW s, revoke(s)
  PROVE  SessionsMayEnd
  BY EmptyRows DEF AuthInv, TypesKept, AuthTypeOK, SessionsMayEnd, revoke

LEMMA AccountsEnd ==
  ASSUME AuthInv, NEW u,
         sessions' = [s \in Tokens |-> IF sessions[s].user = u THEN NoSession ELSE sessions[s]]
  PROVE  SessionsMayEnd
  BY EmptyRows DEF AuthInv, TypesKept, AuthTypeOK, SessionsMayEnd

LEMMA AnswerKeeps ==
  ASSUME AuthInv, NEW r \in Requests, Answer(r), SessionsMayEnd,
         UNCHANGED <<users, idlePolicy, trail, now, dead, used>>
  PROVE  Kept
  BY MayAnswer, RequestWritten DEF Answer

----------------------------------------------------------------------------
(* The steps of a request that change nothing else.                        *)

LEMMA LoginStep ==
  ASSUME AuthInv, NEW r \in Requests, NEW u \in Users, NEW s \in Tokens, login(r, u, s)
  PROVE  Kept
<1>. DEFINE q == [Waiting EXCEPT !.pc = "commit", !.op = "login", !.token = s, !.user = u,
                                 !.version = users[u].version]
<1>1. users[u].version \in 0 .. MaxVersion /\ users[u].version <= users[u].version
  BY Constants DEF AuthInv, TypesKept, AuthTypeOK, UserRow
<1>2. /\ q \in Request /\ q.pc = "commit" /\ q.token = s /\ q.user = u /\ q.late = FALSE
      /\ q.version = users[u].version
  BY <1>1, EmptyRows DEF Request
<1>3. s \notin dead /\ ~Stored(s) /\ \A t \in Requests : request[t].token # s
  BY DEF login, Drawn
<1>4. UNCHANGED <<users, sessions, idlePolicy, trail, now, dead, used>>
      /\ request' = [request EXCEPT ![r] = q]
  BY DEF login, Untouched
<1>. HIDE DEF q
<1>5. MayBecome(r, q)
  BY <1>1, <1>2, <1>3
  DEF MayBecome, RequestOK, Before, TokenOK, Agree, Verifying, Identified, Authenticated
<1>. QED
  BY <1>4, <1>5, NoneEnd, RequestWritten

LEMMA BeginStep ==
  ASSUME AuthInv, NEW r \in Requests, NEW s \in Tokens, NEW op \in Asked \ {"provision"},
         BeginRequest(r, s, op)
  PROVE  Kept
<1>. DEFINE q(late) == [Waiting EXCEPT !.pc = "session", !.op = op, !.token = s, !.late = late]
<1>1. UNCHANGED <<users, sessions, idlePolicy, trail, now, dead, used>>
      /\ request' = [request EXCEPT ![r] = q(s \in dead)]
  BY DEF BeginRequest, Untouched
<1>2. PICK late \in BOOLEAN : late <=> s \in dead
  OBVIOUS
<1>3. request' = [request EXCEPT ![r] = q(late)]
  <2>1. CASE s \in dead
    <3>1. (s \in dead) = TRUE /\ late = TRUE
      BY <1>2, <2>1
    <3>. QED
      BY <1>1, <3>1, Zenon
  <2>2. CASE s \notin dead
    <3>1. (s \in dead) = FALSE /\ late = FALSE
      BY <1>2, <2>2
    <3>. QED
      BY <1>1, <3>1, Zenon
  <2>. QED
    BY <2>1, <2>2
<1>4. op \in UserOperations \cup AdminOperations \cup {"none", "login", "provision"}
  BY AuthAssumption DEF UserOperations, AdminOperations
<1>5. /\ q(late) \in Request /\ q(late).pc = "session" /\ q(late).token = s
      /\ q(late).user = None /\ q(late).late = late
  BY <1>4, EmptyRows DEF Request
<1>. HIDE DEF q
<1>6. MayBecome(r, q(late))
  BY <1>2, <1>5
  DEF MayBecome, RequestOK, TokenOK, Agree, Verifying, Identified, Authenticated
<1>. QED
  BY <1>1, <1>3, <1>6, NoneEnd, RequestWritten

\* The session is found, or is gone or over.
LEMMA GetSessionStep ==
  ASSUME AuthInv, NEW r \in Requests, GetSession(r)
  PROVE  Kept
<1>. DEFINE s == request[r].token
            q == [request[r] EXCEPT !.pc = "user", !.session = sessions[s],
                                    !.user = sessions[s].user]
<1>1. /\ request[r] \in Request /\ request[r].pc = "session" /\ s \in Tokens
      /\ RequestOK(request[r])
  BY RequestFacts DEF GetSession, AtStep, RequestOK
<1>2. UNCHANGED <<users, idlePolicy, trail, now, dead, used>>
  BY DEF GetSession
<1>3. CASE Stored(s) /\ ~Expired(sessions[s])
  <2>1. /\ request' = [request EXCEPT ![r] = q] /\ UNCHANGED sessions
        /\ sessions[s] \in SessionRow /\ SessionOK(s, sessions[s])
    BY <1>1, <1>3 DEF GetSession, AuthInv, SessionsOK, TypesKept, AuthTypeOK
  <2>2. /\ q \in Request /\ q.pc = "user" /\ q.token = s /\ q.user = sessions[s].user
        /\ q.session = sessions[s] /\ q.late = request[r].late
    BY <1>1, <2>1 DEF Request, SessionRow
  <2>. HIDE DEF q
  <2>3. RequestOK(q)
    BY <1>1, <2>1, <2>2 DEF RequestOK, Verifying, Identified, Authenticated
  <2>4. \A t \in Requests \ {r} : request[t].token = s =>
           /\ request[t].user # None => request[t].user = sessions[s].user
           /\ request[t].pc \notin Verifying
    BY <1>1, <1>3 DEF AuthInv, TokensOK, TokenOK, RequestsOK, RequestOK
  <2>5. MayBecome(r, q)
    BY <2>2, <2>3, <2>4 DEF MayBecome, TokenOK, Agree, Verifying
  <2>. QED
    BY <1>2, <2>1, <2>5, NoneEnd, RequestWritten
<1>4. CASE ~(Stored(s) /\ ~Expired(sessions[s]))
  BY <1>2, <1>4, NoneEnd, OneEnds, AnswerKeeps DEF GetSession
<1>. QED
  BY <1>3, <1>4

\* A login from before a change of the account goes no further than this.
LEMMA GetUserStep ==
  ASSUME AuthInv, NEW r \in Requests, GetUser(r)
  PROVE  Kept
<1>. DEFINE u == users[request[r].user]
            q == [request[r] EXCEPT !.pc = "check", !.version = u.version, !.role = u.role,
                                    !.change = u.change]
<1>1. /\ request[r] \in Request /\ request[r].pc = "user" /\ RequestOK(request[r])
      /\ request[r].token \in Tokens
      /\ Before(request[r].user, request[r].session.version, request[r].token)
  BY RequestFacts DEF GetUser, AtStep, RequestOK, Identified, SessionOK
<1>2. UNCHANGED <<users, idlePolicy, trail, now, dead, used>>
  BY DEF GetUser
<1>3. CASE SameAccount(r)
  <2>1. /\ request' = [request EXCEPT ![r] = q] /\ UNCHANGED sessions
        /\ u.version = request[r].session.version
    BY <1>1, <1>3 DEF GetUser, SameAccount, AuthInv, TypesKept, AuthTypeOK
  <2>2. u \in UserRow
    BY <1>1 DEF Before, AuthInv, TypesKept, AuthTypeOK
  <2>3. request[r].token \notin dead /\ ~request[r].late
    BY <1>1, <2>1, <2>2, Constants DEF Before, RequestOK, UserRow
  <2>4. /\ q \in Request /\ q.pc = "check" /\ q.token = request[r].token
        /\ q.user = request[r].user /\ q.session = request[r].session
        /\ q.version = u.version /\ ~q.late
    BY <1>1, <2>2, <2>3 DEF Request, UserRow
  <2>. HIDE DEF q, u
  <2>5. RequestOK(q)
    BY <1>1, <2>1, <2>4 DEF RequestOK, Verifying, Identified, Authenticated
  <2>6. MayBecome(r, q)
    BY <1>1, <2>4, <2>5, MayMoveOn DEF Verifying
  <2>. QED
    BY <1>2, <2>1, <2>6, NoneEnd, RequestWritten
<1>4. CASE ~SameAccount(r)
  BY <1>2, <1>4, OneEnds, AnswerKeeps DEF GetUser
<1>. QED
  BY <1>3, <1>4

\* The steps that only move a request on, or answer it.
LEMMA MoveStep ==
  ASSUME AuthInv, NEW r \in Requests,
         \/ commit_verified_login(r) \/ validate_csrf(r)
         \/ \E m \in Minutes : update_idle_session_policy(r, m)
  PROVE  Kept
<1>1. request[r] \in Request /\ RequestOK(request[r])
  BY RequestFacts
<1>2. UNCHANGED <<users, idlePolicy, trail, now, dead, used>>
  BY DEF commit_verified_login, validate_csrf, update_idle_session_policy, Untouched
<1>3. ASSUME NEW q \in Request, request' = [request EXCEPT ![r] = q], RequestOK(q),
             q.token = request[r].token, q.user = request[r].user,
             q.pc \in Verifying => request[r].pc \in Verifying,
             request[r].pc # "session", q.pc \notin {"revoke", "save"},
             UNCHANGED sessions
      PROVE  Kept
  BY <1>2, <1>3, MayMoveOn, NoneEnd, RequestWritten
<1>4. ASSUME Answer(r), SessionsMayEnd
      PROVE  Kept
  BY <1>2, <1>4, AnswerKeeps
<1>5. CASE commit_verified_login(r)
  <2>. DEFINE q == [request[r] EXCEPT !.pc = "store"]
  <2>1. q \in Request /\ RequestOK(q) /\ request[r].pc = "commit"
    BY <1>1, <1>5
    DEF commit_verified_login, AtStep, Request, RequestOK, Verifying, Identified, Authenticated
  <2>2. CASE ToStep(r, "store")
    <3>1. request' = [request EXCEPT ![r] = q]
      BY <2>2 DEF ToStep, AuthInv, TypesKept, AuthTypeOK
    <3>2. /\ q.token = request[r].token /\ q.user = request[r].user
          /\ q.pc = "store" /\ UNCHANGED sessions
      BY <1>1, <1>5 DEF commit_verified_login, Untouched, Request
    <3>. QED
      BY <1>3, <2>1, <3>1, <3>2 DEF Verifying
  <2>. QED
    BY <1>4, <1>5, <2>2, NoneEnd DEF commit_verified_login, Untouched
<1>6. CASE validate_csrf(r)
  <2>. DEFINE q == [request[r] EXCEPT !.pc = "act"]
  <2>1. q \in Request /\ RequestOK(q) /\ request[r].pc = "csrf"
    BY <1>1, <1>6
    DEF validate_csrf, AtStep, Request, RequestOK, Verifying, Identified, Authenticated
  <2>2. CASE ToStep(r, "act") /\ UNCHANGED sessions
    <3>1. request' = [request EXCEPT ![r] = q]
      BY <2>2 DEF ToStep, AuthInv, TypesKept, AuthTypeOK
    <3>2. q.token = request[r].token /\ q.user = request[r].user /\ q.pc = "act"
      BY <1>1 DEF Request
    <3>. QED
      BY <1>3, <2>1, <2>2, <3>1, <3>2 DEF Verifying
  <2>. QED
    BY <1>4, <1>6, <2>2, NoneEnd, OneEnds DEF validate_csrf
<1>7. CASE \E m \in Minutes : update_idle_session_policy(r, m)
  <2>1. PICK m \in Minutes, revision \in 0 .. idlePolicy.revision :
               /\ request' = [request EXCEPT ![r].pc = "replace", ![r].revision = revision,
                                             ![r].minutes = m]
               /\ AtStep(r, "act") /\ UNCHANGED sessions
    BY <1>7 DEF update_idle_session_policy, Untouched
  <2>. DEFINE q == [request[r] EXCEPT !.pc = "replace", !.revision = revision, !.minutes = m]
  <2>2. request' = [request EXCEPT ![r] = q]
    BY <2>1 DEF AuthInv, TypesKept, AuthTypeOK
  <2>3. revision \in Nat /\ m \in Nat
    BY Constants DEF AuthInv, TypesKept
  <2>4. /\ q \in Request /\ q.pc = "replace" /\ q.token = request[r].token
        /\ q.user = request[r].user /\ q.late = request[r].late
    BY <1>1, <2>3 DEF Request
  <2>. HIDE DEF q
  <2>5. RequestOK(q)
    BY <1>1, <2>1, <2>4 DEF AtStep, RequestOK, Verifying, Identified, Authenticated
  <2>. QED
    BY <1>3, <2>1, <2>2, <2>4, <2>5 DEF AtStep, Verifying
<1>. QED
  BY <1>5, <1>6, <1>7

LEMMA AnswerStep ==
  ASSUME AuthInv, NEW r \in Requests,
         \/ UseService(r) \/ logout(r) \/ revoke_user(r) \/ Abandon(r)
         \/ \E s \in Tokens : EndPrevious(r, s)
  PROVE  Kept
  BY NoneEnd, OneEnds, AccountsEnd, AnswerKeeps
  DEF UseService, logout, revoke_user, Abandon, EndPrevious, Untouched

----------------------------------------------------------------------------
(* The idle time is checked against the policy in force.                   *)

\* The lesser of two numbers.
LEMMA LesserBounds ==
  ASSUME NEW a \in Int, NEW b \in Int
  PROVE  /\ Lesser(a, b) \in {a, b} /\ Lesser(a, b) <= a /\ Lesser(a, b) <= b
  BY DEF Lesser

\* An accepted request raises the last use of its session.
LEMMA AcceptStep ==
  ASSUME AuthInv, NEW r \in Requests, CheckIdle(r), request'[r].pc = "save"
  PROVE  Kept
<1>. PICK s \in Tokens, row \in SessionRow :
        s = request[r].token /\ row = request[r].session
  BY RequestFacts DEF CheckIdle, AtStep, RequestOK, Identified, Request
<1>1. PICK q :
         /\ s = request[r].token /\ row = request[r].session
         /\ q = [request[r] EXCEPT !.pc = "save", !.session.seen = now,
                    !.session.idle = Lesser(now + IdleLifetime, request[r].session.absolute)]
  BY RequestFacts DEF CheckIdle, AtStep, RequestOK, Identified, Request
<1>2. /\ request[r] \in Request /\ request[r].pc = "check"
      /\ row.user = request[r].user /\ SessionOK(s, row)
      /\ request[r].version = row.version /\ ~request[r].late
      /\ TokenOK(request[r])
  BY <1>1, RequestFacts DEF CheckIdle, AtStep, RequestOK, Identified, Authenticated
<1>3. /\ request \in [Requests -> Request] /\ used \in [Tokens -> Int]
      /\ now \in 0 .. MaxTime /\ now \in Nat /\ idlePolicy.minutes \in Nat
      /\ \A t \in Tokens : used[t] <= now /\ used[t] \in Int
  BY Constants DEF AuthInv, TypesKept, AuthTypeOK
<1>4. request' # [request EXCEPT ![r] = Waiting]
  BY <1>3, EmptyRows
<1>5. /\ StillIdle(r)
      /\ request' = [request EXCEPT ![r] = q]
      /\ used' = [used EXCEPT ![s] = now]
      /\ UNCHANGED <<users, sessions, idlePolicy, trail, now, dead>>
  BY <1>1, <1>3, <1>4 DEF CheckIdle, Answer
<1>6. row.absolute \in Nat /\ row.idle \in Nat /\ row.seen \in Int
  BY <1>1, Constants DEF SessionRow
<1>7. PICK idle \in Nat :
         /\ idle = Lesser(now + IdleLifetime, row.absolute) /\ idle <= row.absolute
  BY <1>3, <1>6, LesserBounds DEF IdleLifetime
<1>8. /\ q \in Request /\ q.pc = "save" /\ q.token = s /\ q.user = row.user
      /\ q.version = row.version /\ ~q.late
      /\ q.session \in SessionRow /\ q.session.user = row.user
      /\ q.session.version = row.version
      /\ q.session.seen = now /\ q.session.idle = idle
      /\ q.session.absolute = row.absolute
  <2>1. q = [request[r] EXCEPT !.pc = "save",
                               !.session = [row EXCEPT !.seen = now, !.idle = idle]]
    BY <1>1, <1>2, <1>7 DEF Request
  <2>2. /\ [row EXCEPT !.seen = now, !.idle = idle] \in SessionRow
        /\ q.session = [row EXCEPT !.seen = now, !.idle = idle]
    BY <1>2, <1>3, <2>1 DEF Request, SessionRow
  <2>3. q \in Request /\ q.pc = "save" /\ q.token = s /\ q.user = row.user
        /\ q.version = row.version /\ ~q.late
    BY <1>1, <1>2, <2>1, <2>2 DEF Request
  <2>. QED
    BY <2>2, <2>3 DEF SessionRow
<1>9. /\ request'[r] = q /\ \A t \in Requests \ {r} : request'[t] = request[t]
      /\ request' \in [Requests -> Request]
      /\ used'[s] = now /\ \A t \in Tokens : used'[t] \in {used[t], now}
      /\ used' \in [Tokens -> Int]
  BY <1>3, <1>5, <1>8
<1>10. \A t \in Tokens : used[t] <= used'[t] /\ used'[t] <= now /\ used'[t] \in Int
  BY <1>3, <1>9
<1>11. ASSUME NEW t \in Tokens, NEW other \in SessionRow, SessionOK(t, other)
       PROVE  SessionOK(t, other)'
  <2>1. other.seen \in Int
    BY Constants DEF SessionRow
  <2>. QED
    BY <1>3, <1>5, <1>10, <1>11, <2>1 DEF SessionOK, Before
<1>12. TypesKept'
  BY <1>5, <1>9, <1>10 DEF AuthInv, TypesKept, AuthTypeOK, Stored
<1>13. PolicyKept' /\ SessionsOK'
  BY <1>5, <1>11 DEF AuthInv, PolicyKept, PolicyTrail, SessionsOK, Stored, TypesKept, AuthTypeOK
<1>14. RequestsOK'
  <2>1. ASSUME NEW p \in Request, RequestOK(p) PROVE RequestOK(p)'
    BY <1>5, <1>11, <2>1 DEF RequestOK, Before, Stored, Request
  <2>2. SessionOK(s, q.session)'
    BY <1>2, <1>3, <1>5, <1>7, <1>8, <1>9 DEF SessionOK, Before
  <2>3. RequestOK(q)'
    BY <1>8, <2>2 DEF RequestOK, Verifying, Identified, Authenticated
  <2>. QED
    BY <1>9, <2>1, <2>3, RequestFacts DEF RequestsOK
<1>15. TokensOK'
  BY <1>1, <1>2, <1>5, <1>8, <1>9 DEF AuthInv, TokensOK, TokenOK, Agree, Stored, Verifying
<1>16. HolderRenews /\ EndedStaysEnded
  BY <1>2, <1>3, <1>5, <1>9, <1>8 DEF HolderRenews, EndedStaysEnded, Stored, AtStep
<1>17. SessionsLapse
  <2>1. now < used[s] + idlePolicy.minutes /\ now < request[r].session.absolute
    <3>1. PICK end \in Int :
             /\ end = Lesser(row.seen + idlePolicy.minutes, row.absolute)
             /\ end <= row.seen + idlePolicy.minutes /\ end <= row.absolute
      BY <1>3, <1>6, LesserBounds
    <3>2. now < end
      BY <1>1, <1>5, <3>1 DEF StillIdle, IdleLifetime
    <3>3. now < row.seen + idlePolicy.minutes /\ now < row.absolute
      BY <1>3, <1>6, <3>1, <3>2
    <3>. QED
      BY <1>1, <1>2, <1>3, <1>6, <3>3 DEF SessionOK
  <2>. QED
    BY <1>1, <1>3, <1>9, <2>1 DEF SessionsLapse, AtStep
<1>. QED
  BY <1>12, <1>13, <1>14, <1>15, <1>16, <1>17 DEF Kept, AuthInv

LEMMA CheckStep ==
  ASSUME AuthInv, NEW r \in Requests, CheckIdle(r)
  PROVE  Kept
<1>1. CASE request'[r].pc = "save"
  BY <1>1, AcceptStep
<1>2. CASE request'[r].pc # "save"
  <2>1. Answer(r) /\ UNCHANGED used /\ (UNCHANGED sessions \/ revoke(request[r].token))
    <3>1. request \in [Requests -> Request]
      BY DEF AuthInv, TypesKept, AuthTypeOK
    <3>2. ~(request' = [request EXCEPT ![r].pc = "save", ![r].session.seen = now,
                 ![r].session.idle = Lesser(now + IdleLifetime, request[r].session.absolute)])
      BY <1>2, <3>1 DEF Request
    <3>. QED
      BY <3>2 DEF CheckIdle
  <2>2. UNCHANGED <<users, idlePolicy, trail, now, dead>>
    BY DEF CheckIdle
  <2>. QED
    BY <2>1, <2>2, NoneEnd, OneEnds, AnswerKeeps
<1>. QED
  BY <1>1, <1>2

----------------------------------------------------------------------------
(* Sessions are written.                                                   *)

\* A session that is still there gets the row that its request has read and
\* renewed; it is the same login of the same account.
LEMMA SaveStep ==
  ASSUME AuthInv, NEW r \in Requests, save(r)
  PROVE  Kept
<1>. PICK s \in Tokens, row \in SessionRow :
        s = request[r].token /\ row = request[r].session
  BY RequestFacts DEF save, AtStep, RequestOK, Identified, Request
<1>1. PICK q :
         /\ s = request[r].token /\ row = request[r].session
         /\ q = [request[r] EXCEPT !.pc = "csrf"]
  BY RequestFacts DEF save, AtStep, RequestOK, Identified, Request
<1>2. /\ request[r] \in Request /\ request[r].pc = "save" /\ RequestOK(request[r])
      /\ row.user = request[r].user /\ SessionOK(s, row) /\ row.user # None
      /\ TokenOK(request[r])
  BY <1>1, RequestFacts, Constants DEF save, AtStep, RequestOK, Identified, SessionOK, Before
<1>3. /\ request \in [Requests -> Request] /\ sessions \in [Tokens -> SessionRow]
  BY DEF AuthInv, TypesKept, AuthTypeOK
<1>4. /\ q \in Request /\ q.pc = "csrf" /\ q.token = s /\ q.user = row.user
      /\ q.late = request[r].late /\ q.version = request[r].version /\ q.session = row
  BY <1>1, <1>2 DEF Request
<1>5. /\ request' = [request EXCEPT ![r] = q]
      /\ sessions' = IF Stored(s) THEN [sessions EXCEPT ![s] = row] ELSE sessions
      /\ UNCHANGED <<users, idlePolicy, trail, now, dead, used>>
  BY <1>1, <1>3 DEF save, ToStep
<1>6. /\ request'[r] = q /\ \A t \in Requests \ {r} : request'[t] = request[t]
      /\ request' \in [Requests -> Request]
      /\ \A t \in Tokens \ {s} : sessions'[t] = sessions[t]
      /\ sessions'[s] \in {sessions[s], row} /\ sessions' \in [Tokens -> SessionRow]
  BY <1>3, <1>4, <1>5
<1>7. \A t \in Tokens : Stored(t)' <=> Stored(t)
  BY <1>2, <1>3, <1>5 DEF Stored
<1>8. \A t \in Tokens : Stored(t) => sessions'[t].user = sessions[t].user
  BY <1>1, <1>2, <1>6 DEF TokenOK, Stored
<1>9. \A t, other : SessionOK(t, other)' <=> SessionOK(t, other)
  BY <1>5 DEF SessionOK, Before
<1>10. SessionsOK'
  BY <1>2, <1>6, <1>7, <1>9 DEF AuthInv, SessionsOK
<1>11. TypesKept'
  BY <1>5, <1>6, <1>10 DEF AuthInv, TypesKept, AuthTypeOK, SessionsOK, SessionOK
<1>12. PolicyKept'
  BY <1>5 DEF AuthInv, PolicyKept, PolicyTrail
<1>13. RequestsOK'
  <2>1. ASSUME NEW p \in Request, RequestOK(p) PROVE RequestOK(p)'
    BY <1>5, <1>7, <1>9, <2>1 DEF RequestOK, Before
  <2>2. RequestOK(q)
    BY <1>1, <1>2, <1>4 DEF RequestOK, Verifying, Identified, Authenticated
  <2>. QED
    BY <1>4, <1>6, <2>1, <2>2, RequestFacts DEF RequestsOK
<1>14. TokensOK'
  <2>1. ASSUME NEW p, TokenOK(p) PROVE TokenOK(p)'
    BY <1>7, <1>8, <2>1 DEF TokenOK
  <2>2. TokenOK(q)
    BY <1>1, <1>2, <1>4 DEF TokenOK
  <2>3. \A t \in Requests \ {r} : Agree(q, request[t]) /\ Agree(request[t], q)
    BY <1>1, <1>2, <1>4 DEF AuthInv, TokensOK, Agree, Verifying
  <2>. QED
    BY <1>6, <2>1, <2>2, <2>3 DEF AuthInv, TokensOK, Agree
<1>15. HolderRenews /\ EndedStaysEnded /\ SessionsLapse
  <2>1. DOMAIN sessions = Tokens /\ DOMAIN request = Requests
    BY <1>3
  <2>. QED
    BY <1>2, <1>4, <1>6, <1>7, <2>1 DEF HolderRenews, EndedStaysEnded, SessionsLapse, AtStep
<1>. QED
  BY <1>10, <1>11, <1>12, <1>13, <1>14, <1>15 DEF Kept, AuthInv

\* Only a login stores a session that was not there, for a token that no
\* request has found a session with.
LEMMA CreateStep ==
  ASSUME AuthInv, NEW r \in Requests, CreateSession(r)
  PROVE  Kept
<1>1. PICK s \in Tokens, u \in Users :
         /\ s = request[r].token /\ u = request[r].user /\ ~Stored(s)
         /\ Before(u, request[r].version, s)
  BY RequestFacts DEF CreateSession, AtStep, RequestOK, Verifying, Before
<1>2. /\ request[r] \in Request /\ request[r].pc = "store" /\ u # None
      /\ request[r].version \in 0 .. MaxVersion
  BY RequestFacts, Constants DEF CreateSession, AtStep, Request
<1>3. /\ request \in [Requests -> Request] /\ sessions \in [Tokens -> SessionRow]
      /\ used \in [Tokens -> Int] /\ now \in 0 .. MaxTime /\ now \in Nat
      /\ idlePolicy.minutes \in Nat
      /\ \A t \in Tokens : used[t] <= now /\ used[t] \in Int
  BY Constants DEF AuthInv, TypesKept, AuthTypeOK
<1>4. PICK idle \in Nat, absolute \in Nat :
         /\ idle <= absolute
         /\ idle = Lesser(now + IdleLifetime, now + Absolute) /\ absolute = now + Absolute
  BY <1>3, Constants, LesserBounds DEF IdleLifetime
<1>5. PICK row \in SessionRow :
         /\ row = [user |-> u, version |-> request[r].version, seen |-> now, idle |-> idle,
                   absolute |-> absolute]
         /\ row.user = u /\ row.version = request[r].version /\ row.seen = now
         /\ row.idle = idle /\ row.absolute = absolute
  <2>. DEFINE new == [user |-> u, version |-> request[r].version, seen |-> now, idle |-> idle,
                      absolute |-> absolute]
  <2>1. new \in SessionRow
    BY <1>2, <1>3 DEF SessionRow
  <2>2. /\ new.user = u /\ new.version = request[r].version /\ new.seen = now
        /\ new.idle = idle /\ new.absolute = absolute
    OBVIOUS
  <2>. QED
    BY <2>1, <2>2
<1>6. /\ request' = [request EXCEPT ![r] = Waiting]
      /\ sessions' = [sessions EXCEPT ![s] = row]
      /\ used' = [used EXCEPT ![s] = now]
      /\ UNCHANGED <<users, idlePolicy, trail, now, dead>>
  BY <1>1, <1>4, <1>5 DEF CreateSession, Answer
<1>7. /\ request'[r] = Waiting /\ \A t \in Requests \ {r} : request'[t] = request[t]
      /\ request' \in [Requests -> Request]
      /\ sessions'[s] = row /\ \A t \in Tokens \ {s} : sessions'[t] = sessions[t]
      /\ sessions' \in [Tokens -> SessionRow]
      /\ used'[s] = now /\ used' \in [Tokens -> Int]
      /\ \A t \in Tokens : used[t] <= used'[t] /\ used'[t] <= now /\ used'[t] \in Int
  BY <1>3, <1>6, EmptyRows
<1>8. \A t \in Requests \ {r} : request[t].token = s =>
         request[t].pc = "session" /\ request[t].user = None
  BY <1>1, <1>2, RequestFacts DEF AuthInv, TokensOK, Agree, Verifying, RequestOK
<1>9. ASSUME NEW t \in Tokens, NEW other \in SessionRow, SessionOK(t, other)
      PROVE  SessionOK(t, other)'
  <2>1. other.seen \in Int
    BY Constants DEF SessionRow
  <2>. QED
    BY <1>3, <1>6, <1>7, <1>9, <2>1 DEF SessionOK, Before
<1>10. SessionsOK'
  <2>1. SessionOK(s, row)'
    BY <1>1, <1>3, <1>4, <1>5, <1>6, <1>7 DEF SessionOK, Before
  <2>. QED
    BY <1>3, <1>7, <1>9, <2>1 DEF AuthInv, SessionsOK, Stored
<1>11. TypesKept'
  BY <1>6, <1>7, <1>10 DEF AuthInv, TypesKept, AuthTypeOK, SessionsOK, SessionOK
<1>12. PolicyKept'
  BY <1>6 DEF AuthInv, PolicyKept, PolicyTrail
<1>13. RequestsOK'
  <2>1. ASSUME NEW t \in Requests \ {r}, NEW p, p = request[t] PROVE RequestOK(p)'
    <3>1. p \in Request /\ RequestOK(p) /\ (p.token = s => p.pc = "session")
      BY <1>8, <2>1, RequestFacts
    <3>. QED
      BY <1>6, <1>7, <1>9, <3>1
      DEF RequestOK, Before, Stored, Request, Verifying, Identified, Authenticated
  <2>2. RequestOK(Waiting)'
    BY EmptyRows DEF RequestOK, Verifying, Identified, Authenticated
  <2>. QED
    BY <1>7, <2>1, <2>2 DEF RequestsOK
<1>14. TokensOK'
  BY <1>7, <1>8, EmptyRows, Constants DEF AuthInv, TokensOK, TokenOK, Agree, Stored
<1>15. HolderRenews /\ SessionsLapse
  BY <1>2, <1>3, <1>7, EmptyRows DEF HolderRenews, SessionsLapse, AtStep
<1>16. EndedStaysEnded
  BY <1>1, <1>2, <1>3, <1>7 DEF EndedStaysEnded, Stored, AtStep
<1>. QED
  BY <1>10, <1>11, <1>12, <1>13, <1>14, <1>15, <1>16 DEF Kept, AuthInv

----------------------------------------------------------------------------
(* Accounts change.                                                        *)

\* A step that changes accounts answers its request, or leaves it with the
\* sessions to revoke, with its token and account or with no token.
Leaves(r, q) ==
    /\ q \in Request
    /\ q.pc \in {"idle", "revoke"} /\ ~q.late
    /\ \/ q.token = None
       \/ /\ q.pc = "revoke" /\ request[r].pc # "session"
          /\ q.token = request[r].token /\ q.user = request[r].user

\* A login of account u at its given version, in a row or in a request.
KnownLogin(u, version, s) ==
    \/ Stored(s) /\ sessions[s].user = u /\ sessions[s].version = version
    \/ \E t \in Requests :
          /\ request[t].token = s /\ request[t].user = u
          /\ \/ request[t].pc \in Verifying /\ request[t].version = version
             \/ request[t].pc \in Identified /\ request[t].session.version = version

LEMMA AccountsWritten ==
  ASSUME AuthInv, NEW r \in Requests, NEW q, Leaves(r, q),
         request' = [request EXCEPT ![r] = q], SessionsMayEnd,
         users' \in [Users -> UserRow], dead' \subseteq Tokens, dead \subseteq dead',
         \A s \in Tokens, u \in Users, version \in 0 .. MaxVersion :
            KnownLogin(u, version, s) => Before(u, version, s)',
         request[r].pc = "act" /\ request[r].op = "password" /\ q.pc = "revoke" =>
            request[r].token \notin dead,
         UNCHANGED <<idlePolicy, trail, now, used>>
  PROVE  Kept
<1>1. /\ request \in [Requests -> Request] /\ request' \in [Requests -> Request]
      /\ sessions \in [Tokens -> SessionRow]
      /\ request'[r] = q /\ \A t \in Requests \ {r} : request'[t] = request[t]
  BY DEF AuthInv, TypesKept, AuthTypeOK, Leaves
<1>2. \A s \in Tokens : Stored(s)' => Stored(s) /\ sessions'[s] = sessions[s]
  BY EmptyRows DEF SessionsMayEnd, Stored
<1>3. ASSUME NEW s \in Tokens, NEW row \in SessionRow, SessionOK(s, row),
             KnownLogin(row.user, row.version, s)
      PROVE  SessionOK(s, row)'
  <2>1. row.user \in Users /\ row.version \in 0 .. MaxVersion
    BY <1>3 DEF SessionOK, Before, SessionRow
  <2>. QED
    BY <1>3, <2>1 DEF SessionOK
<1>4. SessionsOK'
  <2>1. ASSUME NEW s \in Tokens, NEW row, row = sessions[s], Stored(s)
        PROVE  row \in SessionRow /\ SessionOK(s, row)'
    BY <1>1, <1>3, <2>1 DEF AuthInv, SessionsOK, KnownLogin
  <2>. QED
    BY <1>2, <2>1 DEF SessionsOK
<1>5. TypesKept'
  <2>1. \A s \in Tokens : Stored(s)' => sessions'[s].idle <= sessions'[s].absolute
    BY <1>4 DEF SessionsOK, SessionOK
  <2>. QED
    BY <1>1, <2>1 DEF AuthInv, TypesKept, AuthTypeOK, SessionsMayEnd
<1>6. PolicyKept'
  BY DEF AuthInv, PolicyKept, PolicyTrail
<1>7. RequestsOK'
  <2>1. ASSUME NEW t \in Requests \ {r}, NEW p, p = request[t]
        PROVE  RequestOK(p)'
    <3>1. p \in Request /\ RequestOK(p) /\ p.session \in SessionRow /\ p.version \in 0 .. MaxVersion
      BY <2>1, RequestFacts DEF Request
    <3>2. p.pc \in Verifying => Before(p.user, p.version, p.token)'
      <4>1. CASE p.pc \in Verifying
        <5>1. p.user \in Users /\ p.token \in Tokens /\ KnownLogin(p.user, p.version, p.token)
          BY <2>1, <3>1, <4>1 DEF RequestOK, Before, KnownLogin
        <5>. QED
          BY <3>1, <5>1
      <4>. QED
        BY <4>1
    <3>3. p.pc \in Identified => SessionOK(p.token, p.session)'
      <4>1. CASE p.pc \in Identified
        <5>1. /\ p.token \in Tokens /\ SessionOK(p.token, p.session)
              /\ KnownLogin(p.session.user, p.session.version, p.token)
          BY <2>1, <3>1, <4>1 DEF RequestOK, KnownLogin
        <5>. QED
          BY <1>3, <3>1, <5>1
      <4>. QED
        BY <4>1
    <3>. QED
      BY <1>2, <3>1, <3>2, <3>3 DEF RequestOK
  <2>2. RequestOK(q)'
    BY Constants DEF Leaves, RequestOK, Verifying, Identified, Authenticated
  <2>. QED
    BY <1>1, <2>1, <2>2 DEF RequestsOK
<1>8. TokensOK'
  <2>1. TokenOK(q)
    BY Constants DEF AuthInv, TokensOK, TokenOK, Leaves
  <2>2. \A t \in Requests \ {r} : Agree(q, request[t]) /\ Agree(request[t], q)
    <3>1. CASE q.token = None
      BY <3>1, Constants DEF Agree
    <3>2. CASE q.token = request[r].token /\ q.user = request[r].user /\ q.pc = "revoke"
               /\ request[r].pc # "session"
      BY <3>2 DEF AuthInv, TokensOK, Agree, Verifying
    <3>. QED
      BY <3>1, <3>2 DEF Leaves
  <2>3. ASSUME NEW p, TokenOK(p) PROVE TokenOK(p)'
    BY <1>2, <2>3 DEF TokenOK
  <2>. QED
    BY <1>1, <2>1, <2>2, <2>3 DEF AuthInv, TokensOK, Agree
<1>9. HolderRenews /\ EndedStaysEnded /\ SessionsLapse
  <2>1. DOMAIN sessions = Tokens /\ DOMAIN request = Requests
    BY <1>1
  <2>. QED
    BY <1>1, <1>2, <2>1 DEF HolderRenews, EndedStaysEnded, SessionsLapse, AtStep, Leaves
<1>. QED
  BY <1>4, <1>5, <1>6, <1>7, <1>8, <1>9 DEF Kept, AuthInv

\* What is known of a login was so before.
LEMMA LoginsAreBefore ==
  ASSUME AuthInv, NEW s \in Tokens, NEW u \in Users, NEW version, KnownLogin(u, version, s)
  PROVE  Before(u, version, s)
  BY DEF KnownLogin, AuthInv, SessionsOK, SessionOK, RequestsOK, RequestOK

\* A change that leaves the versions alone.
LEMMA VersionsStay ==
  ASSUME AuthInv, \A u \in Users : users'[u].version = users[u].version, dead' = dead,
         NEW s \in Tokens, NEW u \in Users, NEW version, KnownLogin(u, version, s)
  PROVE  Before(u, version, s)'
  BY LoginsAreBefore DEF Before

\* A security change: the logins that die with it are those of its account.
LEMMA ChangeStaysBefore ==
  ASSUME AuthInv, NEW v \in Users, NEW row \in UserRow, Changed(v, row),
         row.version = users[v].version,
         NEW s \in Tokens, NEW u \in Users, NEW version \in 0 .. MaxVersion,
         KnownLogin(u, version, s)
  PROVE  Before(u, version, s)'
<1>1. Before(u, version, s) /\ u # None /\ v # None
  BY LoginsAreBefore, Constants
<1>2. users \in [Users -> UserRow]
  BY DEF AuthInv, TypesKept, AuthTypeOK
<1>3. /\ users'[v].version = users[v].version + 1
      /\ \A w \in Users \ {v} : users'[w] = users[w]
      /\ dead' = dead \cup DeadWith(v)
      /\ users[v].version \in Int /\ version \in Int
  BY <1>2, Constants DEF Changed, UserRow
<1>4. s \in DeadWith(v) => u = v
  <2>1. ASSUME sessions[s].user = v PROVE u = v
    BY <1>1, <2>1 DEF KnownLogin, AuthInv, TokensOK, TokenOK, Stored
  <2>2. ASSUME NEW t \in Requests, request[t].token = s, request[t].user = v PROVE u = v
    BY <1>1, <2>2 DEF KnownLogin, AuthInv, TokensOK, TokenOK, Agree
  <2>. QED
    BY <2>1, <2>2 DEF DeadWith
<1>. QED
  BY <1>1, <1>3, <1>4 DEF Before

\* What a security change writes is a row of the account at its version.
LEMMA ChangeRow ==
  ASSUME NEW op \in AdminOperations \ {"create", "policy"}, NEW row \in UserRow,
         NEW password \in Nat, NEW change \in BOOLEAN
  PROVE  /\ SecurityChange(op, row, password, change) \in UserRow
         /\ SecurityChange(op, row, password, change).version = row.version
<1>1. op \in {"deactivate", "reactivate", "require", "reset"}
  BY DEF AdminOperations
<1>2. CASE op = "deactivate"
  BY <1>2 DEF SecurityChange, UserRow
<1>3. CASE op = "reactivate"
  BY <1>3 DEF SecurityChange, UserRow
<1>4. CASE op = "require"
  BY <1>4 DEF SecurityChange, UserRow
<1>5. CASE op = "reset"
  BY <1>5 DEF SecurityChange, UserRow
<1>. QED
  BY <1>1, <1>2, <1>3, <1>4, <1>5

\* A changed account has a row, and no token is forgotten to be dead.
LEMMA ChangedTypes ==
  ASSUME AuthInv, NEW u \in Users, NEW row \in UserRow, Changed(u, row),
         row.version = users[u].version, users[u].version < MaxVersion
  PROVE  users' \in [Users -> UserRow] /\ dead' \subseteq Tokens /\ dead \subseteq dead'
<1>1. users \in [Users -> UserRow] /\ dead \subseteq Tokens
  BY DEF AuthInv, TypesKept, AuthTypeOK
<1>2. row.version + 1 \in 0 .. MaxVersion
  BY <1>1, Constants DEF UserRow
<1>3. [row EXCEPT !.version = row.version + 1] \in UserRow
  BY <1>2 DEF UserRow
<1>. QED
  BY <1>1, <1>3 DEF Changed, DeadWith, UserRow

\* An account has a row, and its next version is a number.
LEMMA AccountRow ==
  ASSUME AuthInv, NEW u \in Users
  PROVE  users[u] \in UserRow /\ users[u].version \in Nat /\ users[u].version + 1 \in Nat
<1>1. users[u] \in UserRow
  BY DEF AuthInv, TypesKept, AuthTypeOK
<1>2. users[u].version \in Nat
  BY <1>1, Constants DEF UserRow
<1>. QED
  BY <1>1, <1>2

LEMMA SecurityStep ==
  ASSUME AuthInv, NEW r \in Requests, NEW u \in Users, update_security(r, u)
  PROVE  Kept
<1>. PICK change \in BOOLEAN :
        Changed(u, SecurityChange(request[r].op, users[u], users[u].version + 1, change))
  BY DEF update_security
<1>. DEFINE q == [request[r] EXCEPT !.pc = "revoke", !.user = u, !.token = None]
            row == SecurityChange(request[r].op, users[u], users[u].version + 1, change)
<1>1. /\ request[r] \in Request /\ request[r].pc = "act" /\ ~request[r].late
      /\ request[r].op \in AdminOperations \ {"create", "policy"}
      /\ users[u] \in UserRow /\ users[u].version + 1 \in Nat
  BY RequestFacts, AccountRow DEF update_security, AtStep, RequestOK
<1>2. row \in UserRow /\ row.version = users[u].version
  BY <1>1, ChangeRow
<1>3. /\ Changed(u, row) /\ users[u].version < MaxVersion
      /\ UNCHANGED <<sessions, idlePolicy, trail, now, used>>
  BY DEF update_security
<1>. HIDE DEF row
<1>4. request' = [request EXCEPT ![r] = q]
  BY DEF update_security, AuthInv, TypesKept, AuthTypeOK
<1>5. Leaves(r, q)
  BY <1>1, EmptyRows DEF Leaves, Request
<1>6. request[r].op # "password"
  BY <1>1 DEF AdminOperations
<1>. HIDE DEF q
<1>. QED
  BY <1>2, <1>3, <1>4, <1>5, <1>6, ChangedTypes, ChangeStaysBefore, NoneEnd, AccountsWritten

\* A renewal goes through only for a login at the version that the account has,
\* which no login from before a change is at.
LEMMA PasswordStep ==
  ASSUME AuthInv, NEW r \in Requests, commit_password_change(r)
  PROVE  Kept
<1>1. /\ request[r] \in Request /\ request[r].pc = "act" /\ RequestOK(request[r])
      /\ request[r].user \in Users /\ request[r].token \in Tokens /\ ~request[r].late
      /\ Before(request[r].user, request[r].version, request[r].token)
  BY RequestFacts
  DEF commit_password_change, AtStep, RequestOK, Identified, Authenticated, SessionOK, Before
<1>2. PICK u \in Users : u = request[r].user
  BY <1>1
<1>3. UNCHANGED <<sessions, idlePolicy, trail, now, used>> /\ users[u].version < MaxVersion
      /\ users[u] \in UserRow
  BY <1>2 DEF commit_password_change, AuthInv, TypesKept, AuthTypeOK
<1>4. CASE Renewable(r)
  <2>. DEFINE q == [request[r] EXCEPT !.pc = "revoke"]
              row == [users[u] EXCEPT !.change = FALSE, !.password = users[u].version + 1]
  <2>1. row \in UserRow /\ row.version = users[u].version
    BY AccountRow DEF UserRow
  <2>2. Changed(u, row) /\ request' = [request EXCEPT ![r] = q]
    BY <1>2, <1>4 DEF commit_password_change, ToStep
  <2>3. Leaves(r, q)
    BY <1>1 DEF Leaves, Request
  <2>4. request[r].token \notin dead
    BY <1>1, <1>2, <1>3, <1>4, Constants DEF Renewable, Before, UserRow
  <2>. HIDE DEF q, row
  <2>. QED
    BY <1>3, <2>1, <2>2, <2>3, <2>4, ChangedTypes, ChangeStaysBefore, NoneEnd, AccountsWritten
<1>5. CASE ~Renewable(r)
  BY <1>3, <1>5, NoneEnd, AnswerKeeps DEF commit_password_change
<1>. QED
  BY <1>4, <1>5

LEMMA CreateUserStep ==
  ASSUME AuthInv, NEW r \in Requests, NEW u \in Users, create_user(r, u)
  PROVE  Kept
<1>1. users \in [Users -> UserRow] /\ dead \subseteq Tokens
  BY DEF AuthInv, TypesKept, AuthTypeOK
<1>2. PICK required \in BOOLEAN :
         users' = [users EXCEPT ![u].exists = TRUE, ![u].change = required]
  BY DEF create_user
<1>3. users' \in [Users -> UserRow] /\ \A v \in Users : users'[v].version = users[v].version
  BY <1>1, <1>2 DEF UserRow
<1>4. /\ request' = [request EXCEPT ![r] = Waiting]
      /\ UNCHANGED <<sessions, idlePolicy, trail, now, dead, used>>
  BY DEF create_user, Answer
<1>5. Leaves(r, Waiting) /\ Waiting.pc # "revoke"
  BY EmptyRows DEF Leaves
<1>. QED
  BY <1>1, <1>3, <1>4, <1>5, VersionsStay, NoneEnd, AccountsWritten

LEMMA ProvisionStep ==
  ASSUME AuthInv, NEW r \in Requests, NEW u \in Users, provision(r, u)
  PROVE  Kept
<1>. DEFINE q == [Waiting EXCEPT !.pc = "revoke", !.op = "provision", !.user = u]
<1>1. users \in [Users -> UserRow] /\ dead \subseteq Tokens
  BY DEF AuthInv, TypesKept, AuthTypeOK
<1>2. /\ request' = [request EXCEPT ![r] = q] /\ request[r].pc = "idle"
      /\ UNCHANGED <<idlePolicy, trail, now, used>> /\ users[u].version < MaxVersion
  BY DEF provision, AtStep
<1>3. Leaves(r, q)
  BY EmptyRows DEF Leaves, Request
<1>. HIDE DEF q
<1>4. PICK role \in {"user", "admin"}, active \in BOOLEAN :
         IF users[u].exists
         THEN /\ Changed(u, [users[u] EXCEPT !.role = role, !.active = active,
                                             !.password = users[u].version + 1])
              /\ sessions' = [s \in Tokens |-> IF sessions[s].user = u THEN NoSession
                                                                       ELSE sessions[s]]
         ELSE /\ users' = [users EXCEPT ![u].exists = TRUE, ![u].role = role,
                                        ![u].active = active]
              /\ UNCHANGED <<sessions, dead>>
  BY DEF provision
<1>5. CASE users[u].exists
  <2>. DEFINE row == [users[u] EXCEPT !.role = role, !.active = active,
                                      !.password = users[u].version + 1]
  <2>1. row \in UserRow /\ row.version = users[u].version
    BY AccountRow DEF UserRow
  <2>2. Changed(u, row)
    BY <1>4, <1>5
  <2>3. SessionsMayEnd
    BY <1>4, <1>5, AccountsEnd
  <2>. HIDE DEF row
  <2>. QED
    BY <1>2, <1>3, <2>1, <2>2, <2>3, ChangedTypes, ChangeStaysBefore, AccountsWritten
<1>6. CASE ~users[u].exists
  <2>1. users' \in [Users -> UserRow] /\ \A v \in Users : users'[v].version = users[v].version
    <3>1. users' = [users EXCEPT ![u] = [users[u] EXCEPT !.exists = TRUE, !.role = role,
                                                         !.active = active]]
      BY <1>1, <1>4, <1>6
    <3>2. [users[u] EXCEPT !.exists = TRUE, !.role = role, !.active = active] \in UserRow
      BY AccountRow DEF UserRow
    <3>. QED
      BY <1>1, <3>1, <3>2 DEF UserRow
  <2>. QED
    BY <1>1, <1>2, <1>3, <1>4, <1>6, <2>1, VersionsStay, NoneEnd, AccountsWritten
<1>. QED
  BY <1>5, <1>6

----------------------------------------------------------------------------
(* The idle policy, and time.                                              *)

LEMMA PolicyStep ==
  ASSUME AuthInv, NEW r \in Requests, ReplacePolicy(r)
  PROVE  Kept
<1>1. /\ request' = [request EXCEPT ![r] = Waiting] /\ request[r].pc = "replace"
      /\ request[r] \in Request /\ request \in [Requests -> Request]
      /\ UNCHANGED <<users, sessions, now, dead, used>>
      /\ trail \in Seq(AuditRow) /\ idlePolicy \in [minutes : Nat, revision : 0 .. MaxRevision]
  BY RequestFacts DEF ReplacePolicy, Answer, AtStep, AuthInv, TypesKept, AuthTypeOK
<1>2. CASE idlePolicy.revision # request[r].revision
  BY <1>1, <1>2, NoneEnd, AnswerKeeps DEF ReplacePolicy
<1>3. CASE idlePolicy.revision = request[r].revision
  <2>1. PICK entry \in AuditRow :
           /\ trail' = Append(trail, entry) /\ entry.old = idlePolicy.minutes
           /\ entry.new = request[r].minutes /\ entry.revision = idlePolicy.revision + 1
    <3>. DEFINE entry == [old |-> idlePolicy.minutes, new |-> request[r].minutes,
                          revision |-> idlePolicy.revision + 1]
    <3>1. entry \in AuditRow /\ trail' = Append(trail, entry)
      BY <1>1, <1>3, Constants DEF ReplacePolicy, AuditRow, Request
    <3>. QED
      BY <3>1
  <2>2. /\ idlePolicy' \in [minutes : Nat, revision : 0 .. MaxRevision]
        /\ idlePolicy'.minutes = request[r].minutes
        /\ idlePolicy'.revision = idlePolicy.revision + 1
    BY <1>1, <1>3, Constants DEF ReplacePolicy, Request
  <2>3. /\ trail' \in Seq(AuditRow) /\ Len(trail') = Len(trail) + 1 /\ trail' # <<>>
        /\ \A i \in 1 .. Len(trail) : trail'[i] = trail[i]
        /\ trail'[Len(trail) + 1] = entry /\ Len(trail) \in Nat
    BY <1>1, <2>1, AppendProperties
  <2>4. PolicyKept'
    <3>1. Len(trail) = idlePolicy.revision /\ PolicyTrail
      BY DEF AuthInv, PolicyKept
    <3>2. \A i \in 1 .. Len(trail') : trail'[i].revision = i
      BY <2>1, <2>3, <3>1 DEF PolicyTrail
    <3>3. \A i \in 2 .. Len(trail') : trail'[i].old = trail'[i - 1].new
      <4>1. Len(trail) > 0 => trail[Len(trail)].new = idlePolicy.minutes
        BY <1>1, <3>1 DEF PolicyTrail
      <4>2. ASSUME NEW i \in 2 .. Len(trail)
            PROVE  trail'[i].old = trail'[i - 1].new
        <5>1. i \in 1 .. Len(trail) /\ i - 1 \in 1 .. Len(trail)
          BY <2>3, <4>2
        <5>. QED
          BY <2>3, <3>1, <4>2, <5>1 DEF PolicyTrail
      <4>3. Len(trail) > 0 => trail'[Len(trail) + 1].old = trail'[Len(trail)].new
        BY <2>1, <2>3, <4>1
      <4>. QED
        BY <2>3, <4>2, <4>3
    <3>. QED
      BY <2>1, <2>2, <2>3, <3>1, <3>2, <3>3 DEF PolicyKept, PolicyTrail
  <2>5. TypesKept'
    BY <1>1, <2>2, <2>3, EmptyRows DEF AuthInv, TypesKept, AuthTypeOK, Stored
  <2>6. /\ request'[r] = Waiting /\ \A t \in Requests \ {r} : request'[t] = request[t]
    BY <1>1
  <2>7. SessionsOK' /\ RequestsOK' /\ TokensOK'
    <3>1. \A s, row : SessionOK(s, row)' <=> SessionOK(s, row)
      BY <1>1 DEF SessionOK, Before
    <3>2. SessionsOK'
      BY <1>1, <3>1 DEF AuthInv, SessionsOK, Stored
    <3>3. ASSUME NEW p, RequestOK(p) PROVE RequestOK(p)'
      BY <1>1, <3>1, <3>3 DEF RequestOK, Before, Stored
    <3>4. ASSUME NEW p, TokenOK(p) PROVE TokenOK(p)'
      BY <1>1, <3>4 DEF TokenOK, Stored
    <3>5. MayBecome(r, Waiting)
      BY MayAnswer
    <3>. QED
      BY <2>6, <3>2, <3>3, <3>4, <3>5 DEF AuthInv, RequestsOK, TokensOK, MayBecome, Agree
  <2>8. HolderRenews /\ EndedStaysEnded /\ SessionsLapse
    BY <1>1, <2>6, EmptyRows DEF HolderRenews, EndedStaysEnded, SessionsLapse, AtStep, Stored
  <2>. QED
    BY <2>4, <2>5, <2>7, <2>8 DEF Kept, AuthInv
<1>. QED
  BY <1>2, <1>3

LEMMA TickStep ==
  ASSUME AuthInv, Tick \/ UNCHANGED authVars
  PROVE  Kept
<1>1. /\ UNCHANGED <<users, sessions, idlePolicy, trail, request, dead, used>>
      /\ now' \in 0 .. MaxTime /\ now <= now' /\ now \in Int
  BY Constants DEF Tick, authVars, AuthInv, TypesKept, AuthTypeOK
<1>2. TypesKept'
  BY <1>1 DEF AuthInv, TypesKept, AuthTypeOK, Stored
<1>3. PolicyKept' /\ SessionsOK' /\ RequestsOK' /\ TokensOK'
  BY <1>1 DEF AuthInv, PolicyKept, PolicyTrail, SessionsOK, SessionOK, Before, RequestsOK,
              RequestOK, TokensOK, TokenOK, Agree, Stored
<1>4. HolderRenews /\ EndedStaysEnded /\ SessionsLapse
  BY <1>1 DEF HolderRenews, EndedStaysEnded, SessionsLapse, AtStep, Stored
<1>. QED
  BY <1>2, <1>3, <1>4 DEF Kept, AuthInv

----------------------------------------------------------------------------
(* The theorems.                                                           *)

\* Every step of the accounts and sessions, and every step that leaves them.
LEMMA AuthNextKept ==
  ASSUME AuthInv, [AuthNext]_authVars
  PROVE  Kept
<1>1. CASE Tick \/ UNCHANGED authVars
  BY <1>1, TickStep
<1>2. CASE \E r \in Requests : AuthStep(r)
  <2>. PICK r \in Requests : AuthStep(r)
    BY <1>2
  <2>1. CASE \E u \in Users, s \in Tokens : login(r, u, s)
    BY <2>1, LoginStep
  <2>2. CASE CreateSession(r)
    BY <2>2, CreateStep
  <2>3. CASE \E s \in Tokens, op \in Asked \ {"provision"} : BeginRequest(r, s, op)
    BY <2>3, BeginStep
  <2>4. CASE GetSession(r)
    BY <2>4, GetSessionStep
  <2>5. CASE GetUser(r)
    BY <2>5, GetUserStep
  <2>6. CASE CheckIdle(r)
    BY <2>6, CheckStep
  <2>7. CASE save(r)
    BY <2>7, SaveStep
  <2>8. CASE \/ commit_verified_login(r) \/ validate_csrf(r)
             \/ \E m \in Minutes : update_idle_session_policy(r, m)
    BY <2>8, MoveStep
  <2>9. CASE \/ UseService(r) \/ logout(r) \/ revoke_user(r) \/ Abandon(r)
             \/ \E s \in Tokens : EndPrevious(r, s)
    BY <2>9, AnswerStep
  <2>10. CASE commit_password_change(r)
    BY <2>10, PasswordStep
  <2>11. CASE \E u \in Users : update_security(r, u) \/ create_user(r, u) \/ provision(r, u)
    BY <2>11, SecurityStep, CreateUserStep, ProvisionStep
  <2>12. CASE ReplacePolicy(r)
    BY <2>12, PolicyStep
  <2>. QED
    BY <2>1, <2>2, <2>3, <2>4, <2>5, <2>6, <2>7, <2>8, <2>9, <2>10, <2>11, <2>12 DEF AuthStep
<1>. QED
  BY <1>1, <1>2 DEF AuthNext

\* AuthInv is inductive.
LEMMA AuthInvariant == AuthSpec => []AuthInv
<1>1. AuthInv /\ [AuthNext]_authVars => AuthInv'
  BY AuthNextKept DEF Kept
<1>. QED
  BY <1>1, InitKept, PTL DEF AuthSpec

\* The rows and requests keep to their types, and no session is kept past its
\* absolute end (SqlUserRepository, SqlSessionRepository).
THEOREM AccountsStayTyped == AuthSpec => []AuthTypeOK
<1>1. AuthInv => AuthTypeOK
  BY DEF AuthInv, TypesKept
<1>. QED
  BY <1>1, AuthInvariant, PTL

\* A request that begins after a security change of its account is not let
\* through with a login from before, and the evidence of the idle policy is one
\* chain (AuthenticationService.authenticate, SqlIdleSessionPolicyRepository.update).
THEOREM NoAccessComesLate == AuthSpec => []NoLateAccess
<1>1. AuthInv => NoLateAccess
  <2>1. ASSUME AuthInv PROVE DOMAIN request = Requests
    BY <2>1 DEF AuthInv, TypesKept, AuthTypeOK
  <2>. QED
    BY <2>1 DEF AuthInv, RequestsOK, RequestOK, PolicyKept, NoLateAccess, NoStaleAccess
<1>. QED
  BY <1>1, AuthInvariant, PTL

\* What a request read before does not undo what was written since: no reset is
\* undone by an earlier login, no ended session comes back, and no request is
\* accepted past the idle time in force (commit_password_change, save,
\* authenticate).
THEOREM ChangesStayFenced == AuthSpec => ChangesFenced
<1>1. AuthInv /\ [AuthNext]_authVars => [HolderRenews /\ EndedStaysEnded /\ SessionsLapse]_authVars
  BY AuthNextKept DEF Kept
<1>. QED
  BY <1>1, AuthInvariant, PTL DEF AuthSpec, ChangesFenced
=============================================================================
