--------------------------- MODULE PortalBackend ---------------------------
(***************************************************************************)
(* portal_backend/src/main.rs: LoginStart and LocalSession records in the  *)
(* memory of one process behind one mutex, the handlers that use them, the *)
(* browsers' cookies, and a restart that loses all of it.                  *)
(*                                                                         *)
(* Each request runs its handler once; an action is the code between two   *)
(* awaits.  random_reference draws 256 bits, so the state, the browser     *)
(* context and the PKCE verifier of a LoginStart are all named after the   *)
(* login request that made them, and a LocalSession reference and its CSRF *)
(* token after the callback request.  A response reaches the browser in a  *)
(* step of its own, or never: Set-Cookie headers of several tabs interleave.*)
(*                                                                         *)
(* The authentication foundation is external: it issues a code for a login *)
(* that was started, and an exchange succeeds at most once, with the       *)
(* verifier of that login (SsoContract.tla and AuthFoundation.tla show it).*)
(***************************************************************************)
EXTENDS Naturals, FiniteSets

CONSTANTS
    None,               \* no record, no cookie
    Browser, User,
    Login,              \* GET  /login
    Callback,           \* GET  /auth/callback
    Me,                 \* GET  /api/me
    Logout,             \* POST /logout
    LoginStartTTL,      \* LOGIN_START_TTL_SECONDS
    LocalSessionTTL,    \* LOCAL_SESSION_TTL_SECONDS
    LoginStartCapacity, \* login_start_capacity
    LocalSessionCapacity,
    MaxTime             \* bound: the last second that is explored

Request == Login \cup Callback \cup Me \cup Logout

ASSUME RequestAssumption ==
    /\ Login \cap (Callback \cup Me \cup Logout) = {}
    /\ Callback \cap (Me \cup Logout) = {}
    /\ Me \cap Logout = {}
    /\ None \notin Request \cup Browser \cup User
    /\ IsFiniteSet(Login) /\ IsFiniteSet(Callback)

ASSUME BoundAssumption ==
    /\ LoginStartTTL \in Nat \ {0} /\ LocalSessionTTL \in Nat \ {0}
    /\ LoginStartCapacity \in Nat \ {0} /\ LocalSessionCapacity \in Nat \ {0}
    /\ MaxTime \in Nat

VARIABLES
    now,            \* unix_epoch_seconds()
    login_starts,   \* login request -> expires_at, or None
    local_sessions, \* callback request -> [user, expires], or None
    grant,          \* external: login -> [user, used], the code issued for it
    jar,            \* browser -> [ctx, session], the cookies it holds
    pc,             \* the await each request is at
    inp,            \* what the request presented
    loc,            \* the handler's local variables
    resp            \* status of the response

vars == <<now, login_starts, local_sessions, grant, jar, pc, inp, loc, resp>>

LocalSession == [user : User, expires : Nat]
Grant == [user : User, used : BOOLEAN]
Jar == [ctx : Login \cup {None}, session : Callback \cup {None}]

\* The session cookie and the CSRF cookie are always set and deleted by the
\* same responses, so one field stands for both.
Input == [browser : Browser \cup {None}, state : Login \cup {None},
          code : Login \cup {None}, ctx : Login \cup {None},
          session : Callback \cup {None}]

Local == [now : Nat, claimed : Login \cup {None}, user : User \cup {None}]

Label == {"idle", "login_lock", "claim_lock", "exchange", "session_lock", "reply", "done"}

Status == {"none", "lost", "200", "204", "302", "400", "401", "403", "502", "503"}

ASSUME NoneAssumption == None \notin Grant

NoInput == [browser |-> None, state |-> None, code |-> None, ctx |-> None, session |-> None]
NoLocal == [now |-> 0, claimed |-> None, user |-> None]

Init ==
    /\ now = 0
    /\ login_starts = [l \in Login |-> None]
    /\ local_sessions = [c \in Callback |-> None]
    /\ grant = [l \in Login |-> None]
    /\ jar = [b \in Browser |-> [ctx |-> None, session |-> None]]
    /\ pc = [r \in Request |-> "idle"]
    /\ inp = [r \in Request |-> NoInput]
    /\ loc = [r \in Request |-> NoLocal]
    /\ resp = [r \in Request |-> "none"]

Goto(r, label) == pc' = [pc EXCEPT ![r] = label]
Respond(r, status) == Goto(r, "done") /\ resp' = [resp EXCEPT ![r] = status]
\* A response that carries Set-Cookie headers is still to reach the browser.
Send(r, status) == Goto(r, "reply") /\ resp' = [resp EXCEPT ![r] = status]

Records(table) == {k \in DOMAIN table : table[k] # None}

-----------------------------------------------------------------------------
(***************************************************************************)
(* PortalLocalState.                                                       *)
(***************************************************************************)

\* Mutant of RetainedStarts: records go a second early.
RetainedStartsEarly(time) ==
    [l \in Login |-> IF login_starts[l] # None /\ login_starts[l] > time + 1
                     THEN login_starts[l] ELSE None]

\* cleanup_expired
RetainedStarts(time) ==
    [l \in Login |-> IF login_starts[l] # None /\ login_starts[l] > time
                     THEN login_starts[l] ELSE None]

RetainedSessions(time) ==
    [c \in Callback |-> IF local_sessions[c] # None /\ local_sessions[c].expires > time
                        THEN local_sessions[c] ELSE None]

\* Mutant of ClaimReply: the browser context is not compared.
ClaimReplyAnyBrowser(l, ctx, time) ==
    IF login_starts[l] = None THEN "NotFound"
    ELSE IF login_starts[l] <= time THEN "Expired"
    ELSE "Ok"

\* claim_login_start: l is the state, ctx the browser context it is held against.
ClaimReply(l, ctx, time) ==
    IF login_starts[l] = None THEN "NotFound"
    ELSE IF login_starts[l] <= time THEN "Expired"
    ELSE IF ctx # l THEN "BrowserContextMismatch"
    ELSE "Ok"

\* Mutant of LiveSession: the session still works in the second it expires in.
LiveSessionOffByOne(c, time) ==
    c # None /\ local_sessions[c] # None /\ local_sessions[c].expires >= time

\* get_local_session: an expired record is removed on the way.
LiveSession(c, time) ==
    c # None /\ local_sessions[c] # None /\ local_sessions[c].expires > time

AfterGet(c, time) ==
    IF c # None /\ local_sessions[c] # None /\ local_sessions[c].expires <= time
    THEN [local_sessions EXCEPT ![c] = None] ELSE local_sessions

-----------------------------------------------------------------------------
(***************************************************************************)
(* GET /login.  The clock is read before the mutex is awaited.             *)
(***************************************************************************)
LoginArrive(r) ==
    /\ pc[r] = "idle"
    /\ \E b \in Browser : inp' = [inp EXCEPT ![r].browser = b]
    /\ loc' = [loc EXCEPT ![r].now = now]
    /\ Goto(r, "login_lock")
    /\ UNCHANGED <<now, login_starts, local_sessions, grant, jar, resp>>

\* Mutant of LoginLock: one record too many.
LoginLockOffByOne(r) ==
    /\ pc[r] = "login_lock"
    /\ LET kept == RetainedStarts(loc[r].now) IN
          /\ Cardinality(Records(kept)) <= LoginStartCapacity
          /\ login_starts' = [kept EXCEPT ![r] = loc[r].now + LoginStartTTL]
    /\ Send(r, "302")
    /\ local_sessions' = RetainedSessions(loc[r].now)
    /\ UNCHANGED <<now, grant, jar, inp, loc>>

\* create_login_start cleans both maps up before it looks at the capacity.
LoginLock(r) ==
    /\ pc[r] = "login_lock"
    /\ LET kept == RetainedStarts(loc[r].now) IN
          \/ /\ Cardinality(Records(kept)) >= LoginStartCapacity
             /\ login_starts' = kept
             /\ Respond(r, "503")
          \/ /\ Cardinality(Records(kept)) < LoginStartCapacity
             /\ login_starts' = [kept EXCEPT ![r] = loc[r].now + LoginStartTTL]
             /\ Send(r, "302")
    /\ local_sessions' = RetainedSessions(loc[r].now)
    /\ UNCHANGED <<now, grant, jar, inp, loc>>

(***************************************************************************)
(* GET /auth/callback.  The state and the code come from the link that was *)
(* followed, the browser context from the browser's cookie.                *)
(***************************************************************************)
Started == {l \in Login : pc[l] = "done" /\ resp[l] = "302"}
Issued == {l \in Login : grant[l] # None}

CallbackArrive(r) ==
    /\ pc[r] = "idle"
    /\ \E b \in Browser, l \in Started, g \in Issued :
          \/ /\ jar[b].ctx = None
             /\ Respond(r, "400")
             /\ UNCHANGED <<inp, loc>>
          \/ /\ jar[b].ctx # None
             /\ inp' = [inp EXCEPT ![r] = [NoInput EXCEPT !.browser = b, !.state = l,
                                                         !.code = g, !.ctx = jar[b].ctx]]
             /\ loc' = [loc EXCEPT ![r].now = now]
             /\ Goto(r, "claim_lock")
             /\ UNCHANGED resp
    /\ UNCHANGED <<now, login_starts, local_sessions, grant, jar>>

\* Mutant of ClaimLock: the LoginStart is read and not removed.
ClaimLockKeeps(r) ==
    /\ pc[r] = "claim_lock"
    /\ ClaimReply(inp[r].state, inp[r].ctx, loc[r].now) = "Ok"
    /\ loc' = [loc EXCEPT ![r].claimed = inp[r].state]
    /\ Goto(r, "exchange")
    /\ UNCHANGED <<now, login_starts, local_sessions, grant, jar, inp, resp>>

ClaimLock(r) ==
    /\ pc[r] = "claim_lock"
    /\ LET l == inp[r].state
           reply == ClaimReply(l, inp[r].ctx, loc[r].now) IN
          \/ /\ reply = "Ok"
             /\ login_starts' = [login_starts EXCEPT ![l] = None]
             /\ loc' = [loc EXCEPT ![r].claimed = l]
             /\ Goto(r, "exchange")
             /\ UNCHANGED resp
          \/ /\ reply = "Expired"
             /\ login_starts' = [login_starts EXCEPT ![l] = None]
             /\ Respond(r, "400")
             /\ UNCHANGED loc
          \/ /\ reply \in {"NotFound", "BrowserContextMismatch"}
             /\ Respond(r, "400")
             /\ UNCHANGED <<login_starts, loc>>
    /\ UNCHANGED <<now, local_sessions, grant, jar, inp>>

\* The one POST to /auth/handoffs/exchange, outside the mutex and never
\* retried.  Refused, timed out, or answered with something else: 502.
ExchangeAccepted(r) == grant[inp[r].code].used = FALSE /\ inp[r].code = loc[r].claimed

ExchangeHandoff(r) ==
    /\ pc[r] = "exchange"
    /\ \/ /\ ExchangeAccepted(r)
          /\ grant' = [grant EXCEPT ![inp[r].code].used = TRUE]
          /\ \/ /\ loc' = [loc EXCEPT ![r].user = grant[inp[r].code].user]
                /\ Goto(r, "session_lock")
                /\ UNCHANGED resp
             \/ /\ Send(r, "502")
                /\ UNCHANGED loc
       \/ /\ Send(r, "502")
          /\ UNCHANGED <<grant, loc>>
    /\ UNCHANGED <<now, login_starts, local_sessions, jar, inp>>

\* create_local_session, with the clock read under the mutex.
SessionLock(r) ==
    /\ pc[r] = "session_lock"
    /\ LET kept == RetainedSessions(now) IN
          \/ /\ Cardinality(Records(kept)) >= LocalSessionCapacity
             /\ local_sessions' = kept
             /\ Send(r, "503")
          \/ /\ Cardinality(Records(kept)) < LocalSessionCapacity
             /\ local_sessions' = [kept EXCEPT ![r] = [user |-> loc[r].user,
                                                      expires |-> now + LocalSessionTTL]]
             /\ Send(r, "302")
    /\ login_starts' = RetainedStarts(now)
    /\ loc' = [loc EXCEPT ![r].now = now]
    /\ UNCHANGED <<now, grant, jar, inp>>

(***************************************************************************)
(* GET /api/me and POST /logout, each one critical section.                *)
(***************************************************************************)
GetMe(r) ==
    /\ pc[r] = "idle"
    /\ \E b \in Browser :
          LET c == jar[b].session IN
          /\ local_sessions' = AfterGet(c, now)
          /\ \/ /\ LiveSession(c, now)
                /\ inp' = [inp EXCEPT ![r].browser = b, ![r].session = c]
                /\ loc' = [loc EXCEPT ![r].now = now, ![r].user = local_sessions[c].user]
                /\ Respond(r, "200")
             \/ /\ ~LiveSession(c, now)
                /\ Respond(r, "401")
                /\ UNCHANGED <<inp, loc>>
    /\ UNCHANGED <<now, login_starts, grant, jar>>

\* Mutant of LogoutLock: the cookies are deleted and the record is kept.
LogoutLockKeeps(r) ==
    /\ pc[r] = "idle"
    /\ \E b \in Browser :
          /\ LiveSession(jar[b].session, now)
          /\ inp' = [inp EXCEPT ![r].browser = b, ![r].session = jar[b].session]
    /\ Send(r, "204")
    /\ UNCHANGED <<now, login_starts, local_sessions, grant, jar, loc>>

\* The page that reads the CSRF cookie sends it as a header too.  A request
\* from elsewhere carries the cookies only, or some other token with them.
LogoutLock(r) ==
    /\ pc[r] = "idle"
    /\ \E b \in Browser, header \in {"absent", "other", "own"} :
          LET c == jar[b].session IN
          \/ /\ LiveSession(c, now)
             /\ header = "own"
             /\ local_sessions' = [local_sessions EXCEPT ![c] = None]
             /\ inp' = [inp EXCEPT ![r].browser = b, ![r].session = c]
             /\ Send(r, "204")
          \/ /\ ~LiveSession(c, now) \/ header # "own"
             /\ local_sessions' = IF header = "absent" THEN local_sessions ELSE AfterGet(c, now)
             /\ Respond(r, "403")
             /\ UNCHANGED inp
    /\ UNCHANGED <<now, login_starts, grant, jar, loc>>

-----------------------------------------------------------------------------

\* Mutant of SetCookies: the session reference goes into the context cookie.
SetCookiesMixedUp(r) ==
    IF r \in Login THEN [jar[inp[r].browser] EXCEPT !.ctx = r]
    ELSE [ctx |-> r, session |-> None]

(***************************************************************************)
(* Responses, the cleanup task, restarts, and the outside world.           *)
(***************************************************************************)
SetCookies(r) ==
    IF r \in Login THEN [jar[inp[r].browser] EXCEPT !.ctx = r]
    ELSE IF r \in Logout THEN [jar[inp[r].browser] EXCEPT !.session = None]
    ELSE IF resp[r] = "302" THEN [ctx |-> None, session |-> r]
    ELSE [jar[inp[r].browser] EXCEPT !.ctx = None]

Deliver(r) ==
    /\ pc[r] = "reply"
    /\ jar' = [jar EXCEPT ![inp[r].browser] = SetCookies(r)]
    /\ Goto(r, "done")
    /\ UNCHANGED <<now, login_starts, local_sessions, grant, inp, loc, resp>>

\* The browser goes away: the handler's future is dropped at the await it is
\* in, or the response is lost on its way.
Lose(r) ==
    /\ pc[r] \notin {"idle", "done"}
    /\ Respond(r, "lost")
    /\ UNCHANGED <<now, login_starts, local_sessions, grant, jar, inp, loc>>

\* Mutant of CleanupExpired: sessions are left to those who ask for them.
CleanupStartsOnly ==
    /\ login_starts' = RetainedStarts(now)
    /\ UNCHANGED <<now, local_sessions, grant, jar, pc, inp, loc, resp>>

\* The task that main spawns.
CleanupExpired ==
    /\ login_starts' = RetainedStarts(now)
    /\ local_sessions' = RetainedSessions(now)
    /\ UNCHANGED <<now, grant, jar, pc, inp, loc, resp>>

\* The process is replaced: its memory and its open requests are gone.
Restart ==
    /\ login_starts' = [l \in Login |-> None]
    /\ local_sessions' = [c \in Callback |-> None]
    /\ pc' = [r \in Request |-> IF pc[r] = "idle" THEN "idle" ELSE "done"]
    /\ resp' = [r \in Request |-> IF pc[r] \in {"idle", "done"} THEN resp[r] ELSE "lost"]
    /\ UNCHANGED <<now, grant, jar, inp, loc>>

\* The foundation authenticates somebody for a login that was started.
IssueCode(l, u) ==
    /\ l \in Started
    /\ grant[l] = None
    /\ grant' = [grant EXCEPT ![l] = [user |-> u, used |-> FALSE]]
    /\ UNCHANGED <<now, login_starts, local_sessions, jar, pc, inp, loc, resp>>

Tick ==
    /\ now < MaxTime
    /\ now' = now + 1
    /\ UNCHANGED <<login_starts, local_sessions, grant, jar, pc, inp, loc, resp>>

CallbackStep(r) == ClaimLock(r) \/ ExchangeHandoff(r) \/ SessionLock(r)

Next ==
    \/ \E r \in Login : LoginArrive(r) \/ LoginLock(r)
    \/ \E r \in Callback : CallbackArrive(r) \/ CallbackStep(r)
    \/ \E r \in Me : GetMe(r)
    \/ \E r \in Logout : LogoutLock(r)
    \/ \E r \in Request : Deliver(r) \/ Lose(r)
    \/ \E l \in Login, u \in User : IssueCode(l, u)
    \/ CleanupExpired \/ Restart \/ Tick

Spec == Init /\ [][Next]_vars

\* Time passes and the cleanup task runs every LOCAL_STATE_CLEANUP_INTERVAL_SECONDS.
FairSpec == Spec /\ WF_vars(Tick) /\ WF_vars(CleanupExpired)

-----------------------------------------------------------------------------
\* Every variable holds values of the kind the code gives it.
TypeOK ==
    /\ now \in Nat
    /\ login_starts \in [Login -> Nat \cup {None}]
    /\ local_sessions \in [Callback -> LocalSession \cup {None}]
    /\ grant \in [Login -> Grant \cup {None}]
    /\ jar \in [Browser -> Jar]
    /\ pc \in [Request -> Label]
    /\ inp \in [Request -> Input]
    /\ loc \in [Request -> Local]
    /\ resp \in [Request -> Status]

\* A LoginStart is used for at most one exchange, whatever happens to that
\* exchange: no second callback, reload or restart gets to send another.
OneExchangePerLogin ==
    \A c, d \in Callback :
       loc[c].claimed # None /\ loc[c].claimed = loc[d].claimed => c = d

\* The session a browser holds belongs to a login that this browser started,
\* and to the person who was authenticated for that login; a callback link
\* followed in another browser does not log it in.  The same person is what
\* /api/me shows.
BrowserGetsItsOwnLogin ==
    /\ \A b \in Browser :
          LET c == jar[b].session
              l == loc[c].claimed IN
          c # None => /\ l # None
                      /\ inp[l].browser = b
                      /\ loc[c].user = grant[l].user
    /\ \A m \in Me :
          LET l == loc[inp[m].session].claimed IN
          resp[m] = "200" => /\ inp[l].browser = inp[m].browser
                             /\ loc[m].user = grant[l].user

\* The maps never hold more records than their capacity.
CapacityRespected ==
    /\ Cardinality(Records(login_starts)) <= LoginStartCapacity
    /\ Cardinality(Records(local_sessions)) <= LocalSessionCapacity

\* A session answers /api/me only within its lifetime, counted from its
\* creation: using it does not prolong it.
MeWithinLifetime ==
    \A m \in Me : resp[m] = "200" => loc[m].now < loc[inp[m].session].now + LocalSessionTTL

Claims(l) == \E c \in Callback : loc[c].claimed = None /\ loc'[c].claimed = l
LogsOut(c) == \E o \in Logout : inp[o].session = None /\ inp'[o].session = c

\* While the process lives, valid records are never dropped, neither to make
\* room nor by a cleanup with an old clock reading: a LoginStart goes only when
\* it is claimed or has expired, a LocalSession when it is logged out or has
\* expired.
ValidStateIsKept ==
    [][\/ Restart
       \/ /\ \A l \in Login :
               login_starts[l] # None /\ login_starts'[l] # login_starts[l] =>
                  login_starts[l] <= now \/ Claims(l)
          /\ \A c \in Callback :
               local_sessions[c] # None /\ local_sessions'[c] # local_sessions[c] =>
                  local_sessions[c].expires <= now \/ LogsOut(c)]_vars

\* Once a logout has removed a session it is logged out everywhere, also for
\* a browser that never received the answer and still sends its cookies.
LoggedOutStaysOut ==
    [][\A m \in Me : resp[m] = "none" /\ resp'[m] = "200" =>
          \A o \in Logout : inp[o].session # inp'[m].session]_vars

\* Records nobody asks for again are removed too (those that expire within
\* the time that is explored).
ExpiredStateIsRemoved ==
    /\ \A l \in Login :
          login_starts[l] # None /\ login_starts[l] <= MaxTime ~> login_starts[l] = None
    /\ \A c \in Callback :
          local_sessions[c] # None /\ local_sessions[c].expires <= MaxTime
             ~> local_sessions[c] = None

\* docs/auth-foundation-component-design.md:53 says that expired state is not
\* used for success.  callback compares expires_at with a clock reading from
\* before it waited for the mutex.
ExpiredLoginStartNotUsed ==
    [][\A l \in Login : login_starts[l] # None /\ Claims(l) => login_starts[l] > now]_vars
=============================================================================
