--------------------------- MODULE AuthFoundation ---------------------------
(***************************************************************************)
(* The HTTP handlers of rust-auth0-service/src/main.rs, running            *)
(* concurrently against one Redis and one PostgreSQL.                      *)
(*                                                                         *)
(* A request is one HTTP request.  It runs its handler once; each action   *)
(* is the code between two awaits, ending with the effect of the storage   *)
(* call that is awaited.  generate_reference_value draws 256 random bits,  *)
(* so a reference value (OAuth state, session cookie, handoff code, logout *)
(* reference, CSRF token) is named after the request that generated it: no *)
(* handler generates two values of one kind.  The outside world presents   *)
(* only reference values it was sent in a response, or forged ones.        *)
(* Input that fails validation is refused before anything is read, which   *)
(* leaves the state as it was and is not an action here.                   *)
(*                                                                         *)
(* There are two clocks: now is Redis TIME, and the services read their    *)
(* own clock, which is within Skew of it.                                  *)
(***************************************************************************)
EXTENDS RedisState

CONSTANTS
    Login,          \* GET  /auth/login
    Callback,       \* GET  /auth/google/callback
    Exchange,       \* POST /auth/handoffs/exchange
    LogoutGet,      \* GET  /auth/logout
    LogoutPost,     \* POST /auth/logout
    Forged,         \* well-formed reference values nobody generated
    Unregistered,   \* service ids that are not in registered_web_services
    Administered,   \* users and services switched on and off while requests run
    Skew,           \* largest difference between a service clock and Redis TIME
    MaxTime         \* bound: the last second of Redis TIME that is explored

Request == Login \cup Callback \cup Exchange \cup LogoutGet \cup LogoutPost
Ref == Request \cup Forged

ASSUME RequestAssumption ==
    /\ Login \cap Callback = {}
    /\ (Login \cup Callback) \cap (Exchange \cup LogoutGet \cup LogoutPost) = {}
    /\ Exchange \cap (LogoutGet \cup LogoutPost) = {}
    /\ LogoutGet \cap LogoutPost = {}
    /\ Request \cap Forged = {}
    /\ None \notin Ref

\* A missing key is told from every row, and a use that never happened from
\* every time.
ASSUME MissingAssumption ==
    /\ None \notin ExternalRow
    /\ None \notin SessionRow
    /\ None \notin HandoffRow(Ref)
    /\ None \notin LogoutRow(Ref)
    /\ None \notin Nat

ASSUME ServiceAssumption == Service \cap Unregistered = {}

\* User ids (UUIDs) and service ids (names) are told apart.
ASSUME AdministeredAssumption ==
    /\ User \cap Service = {}
    /\ Administered \subseteq User \cup Service

ASSUME ClockAssumption == Skew \in Nat /\ MaxTime \in Nat

VARIABLES
    now,        \* Redis TIME
    enabled,    \* internal_users.is_enabled
    active,     \* registered_web_services.is_enabled
    external,   \* auth:external:*
    session,    \* auth:session:*
    handoff,    \* auth:handoff:*
    logout,     \* auth:logout:*
    pc,         \* the await each request is at
    inp,        \* what the request presented, once its handler goes on with it
    loc,        \* the handler's local variables
    resp,       \* the response
    took        \* history: when the request's script took effect

registry == <<enabled, active>>
store == <<external, session, handoff, logout>>
vars == <<now, enabled, active, external, session, handoff, logout,
          pc, inp, loc, resp, took>>

Input ==
    [service : Service \cup {None}, state : ServiceState \cup {None},
     challenge : Challenge \cup {None}, cookie : Ref \cup {None},
     ref : Ref \cup {None}, csrf : Ref \cup {None}]

Who == [user : User, at : Nat]

Local ==
    [now : Nat, txn : ExternalRow \cup {None}, who : Who \cup {None},
     session : Ref \cup {None}]

Label ==
    {"idle", "read_session", "del_session", "check_user", "issue",
     "external_hset", "external_expireat", "callback_service", "google",
     "resolve", "create", "handoff_type", "handoff_hget", "exchange",
     "logout_hset", "logout_expireat", "done"}

(***************************************************************************)
(* Responses are named by what tells them apart: "callback" is the 302 to  *)
(* the service's callback URI with a handoff code, "google" the 302 to     *)
(* Google, "page" the logout form, "return" the redirect to the logout     *)
(* return URI.  "failed" is a storage failure or the death of the process: *)
(* the client sees a 503 or a broken connection.                           *)
(***************************************************************************)
Answer ==
    {"none", "failed", "400", "401", "403", "502", "503", "200",
     "callback", "google", "page", "return"}

NoInput == [service |-> None, state |-> None, challenge |-> None,
            cookie |-> None, ref |-> None, csrf |-> None]

NoLocal == [now |-> 0, txn |-> None, who |-> None, session |-> None]

Init ==
    /\ now = 0
    /\ enabled = [u \in User |-> TRUE]
    /\ active = [s \in Service |-> TRUE]
    /\ external = [k \in Ref |-> None]
    /\ session = [k \in Ref |-> None]
    /\ handoff = [k \in Ref |-> None]
    /\ logout = [k \in Ref |-> None]
    /\ pc = [r \in Request |-> "idle"]
    /\ inp = [r \in Request |-> NoInput]
    /\ loc = [r \in Request |-> NoLocal]
    /\ resp = [r \in Request |-> "none"]
    /\ took = [r \in Request |-> None]

(***************************************************************************)
(* Reference values the outside world has been sent.                       *)
(***************************************************************************)
Cookies == {None} \cup Forged \cup {c \in Callback : resp[c] = "callback"}
OauthStates == Forged \cup {l \in Login : resp[l] = "google"}
Codes == Forged \cup {h \in Login \cup Callback : resp[h] = "callback"}
LogoutForms == Forged \cup {g \in LogoutGet : resp[g] = "page"}

(***************************************************************************)
(* unix_seconds(SystemTime::now()) in a service process.                   *)
(***************************************************************************)
AppClock == {t \in 0 .. now + Skew : now <= t + Skew}

Goto(r, label) == pc' = [pc EXCEPT ![r] = label] /\ UNCHANGED resp

Respond(r, answer) ==
    /\ pc' = [pc EXCEPT ![r] = "done"]
    /\ resp' = [resp EXCEPT ![r] = answer]

\* The storage call took effect, and its reply or the response may be lost.
RespondOrLose(r, answer) == \E a \in {answer, "failed"} : Respond(r, a)

Present(r, fields) == inp' = [inp EXCEPT ![r] = fields]

TakesEffect(r) == took' = [took EXCEPT ![r] = now]

Put(table, key, row) == [table EXCEPT ![key] = row]

Del(table, key) == [table EXCEPT ![key] = None]

\* lookup_login_callback_uri, lookup_logout_return_uri
Registered(s) == s \in Service /\ active[s]

-----------------------------------------------------------------------------
(***************************************************************************)
(* GET /auth/login                                                         *)
(***************************************************************************)

\* Up to the first Redis call.  No cookie, or one that is not a reference
\* value, starts a Google login at once.
LoginStart(r) ==
    /\ pc[r] = "idle"
    /\ \E s \in Service \cup Unregistered, st \in ServiceState, ch \in Challenge, k \in Cookies :
          \/ /\ ~Registered(s)
             /\ Respond(r, "403")
             /\ UNCHANGED <<inp, loc>>
          \/ /\ Registered(s)
             /\ Present(r, [NoInput EXCEPT !.service = s, !.state = st,
                                           !.challenge = ch, !.cookie = k])
             /\ \E t \in AppClock : loc' = [loc EXCEPT ![r].now = t]
             /\ Goto(r, IF k = None THEN "external_hset" ELSE "read_session")
    /\ UNCHANGED <<now, registry, store, took>>

\* read_session: HGETALL, and the expiry test against the service's clock.
ReadSession(r) ==
    /\ pc[r] = "read_session"
    /\ LET row == session[inp[r].cookie] IN
          \/ /\ row = None
             /\ Goto(r, "external_hset")
             /\ UNCHANGED loc
          \/ /\ row # None
             /\ ~IsUnexpired(loc[r].now, row.expires)
             /\ Goto(r, "del_session")
             /\ UNCHANGED loc
          \/ /\ row # None
             /\ IsUnexpired(loc[r].now, row.expires)
             /\ loc' = [loc EXCEPT ![r].who = [user |-> row.user, at |-> row.at]]
             /\ Goto(r, "check_user")
    /\ UNCHANGED <<now, registry, store, inp, took>>

\* expire_if_needed: DEL of the session that was found expired.
DelSession(r) ==
    /\ pc[r] = "del_session"
    /\ session' = Del(session, inp[r].cookie)
    /\ Goto(r, "external_hset")
    /\ UNCHANGED <<now, registry, external, handoff, logout, inp, loc, took>>

\* Mutant of CheckUser: single sign-on does not ask whether the user is enabled.
CheckUserSkipped(r) ==
    /\ pc[r] = "check_user"
    /\ Goto(r, "issue")
    /\ UNCHANGED <<now, registry, store, inp, loc, took>>

\* read_internal_user_enabled
CheckUser(r) ==
    /\ pc[r] = "check_user"
    /\ \/ enabled[loc[r].who.user] /\ Goto(r, "issue")
       \/ ~enabled[loc[r].who.user] /\ Respond(r, "403")
    /\ UNCHANGED <<now, registry, store, inp, loc, took>>

\* Mutant of SsoHandoff: the script writes the handoff without EXPIREAT.
SsoHandoffWithoutTTL(r) ==
    [service |-> inp[r].service, user |-> loc[r].who.user, session |-> inp[r].cookie,
     challenge |-> inp[r].challenge, at |-> loc[r].who.at,
     expires |-> loc[r].now + HandoffTTL, status |-> "unused", ttl |-> FALSE]

SsoHandoff(r) ==
    [service |-> inp[r].service, user |-> loc[r].who.user, session |-> inp[r].cookie,
     challenge |-> inp[r].challenge, at |-> loc[r].who.at,
     expires |-> loc[r].now + HandoffTTL, status |-> "unused", ttl |-> TRUE]

\* issue_sso_handoff and how login acts on its answer.
IssueSso(r) ==
    /\ pc[r] = "issue"
    /\ LET k == inp[r].cookie
           reply == IssueSsoReply(session[k], handoff[r], k, SsoHandoff(r), now) IN
          \/ /\ reply = "Ok"
             /\ handoff' = Put(handoff, r, SsoHandoff(r))
             /\ TakesEffect(r)
             /\ RespondOrLose(r, "callback")
             /\ UNCHANGED session
          \/ /\ reply = "SessionExpired"
             /\ session' = Del(session, k)
             /\ Goto(r, "external_hset")
             /\ UNCHANGED <<handoff, took>>
          \/ /\ reply \notin {"Ok", "SessionExpired"}
             /\ IF reply \in {"NotFound", "Expired"}
                THEN Goto(r, "external_hset")
                ELSE Respond(r, "503")
             /\ UNCHANGED <<session, handoff, took>>
    /\ UNCHANGED <<now, registry, external, logout, inp, loc>>

NewExternal(r) ==
    [service |-> inp[r].service, state |-> inp[r].state, challenge |-> inp[r].challenge,
     expires |-> loc[r].now + ExternalTTL, status |-> "waiting", ttl |-> FALSE]

\* start_google_login, write_external: HSET, and then EXPIREAT.
ExternalHset(r) ==
    /\ pc[r] = "external_hset"
    /\ external' = Put(external, r, NewExternal(r))
    /\ Goto(r, "external_expireat")
    /\ UNCHANGED <<now, registry, session, handoff, logout, inp, loc, took>>

ExternalExpireat(r) ==
    /\ pc[r] = "external_expireat"
    /\ external' = Put(external, r, ExpireAt(external[r], now))
    /\ RespondOrLose(r, "google")
    /\ UNCHANGED <<now, registry, session, handoff, logout, inp, loc, took>>

-----------------------------------------------------------------------------
(***************************************************************************)
(* GET /auth/google/callback                                               *)
(***************************************************************************)

\* claim_external_callback
Claim(r) ==
    /\ pc[r] = "idle"
    /\ \E k \in OauthStates :
          LET row == [external[k] EXCEPT !.status = "processing"]
              reply == ClaimReply(external[k], now) IN
          \/ /\ reply = "Ok"
             /\ Present(r, [NoInput EXCEPT !.ref = k])
             /\ external' = Put(external, k, row)
             /\ loc' = [loc EXCEPT ![r].txn = row]
             /\ TakesEffect(r)
             /\ Goto(r, "callback_service")
          \/ /\ reply = "Expired"
             /\ external' = Del(external, k)
             /\ Respond(r, "400")
             /\ UNCHANGED <<inp, loc, took>>
          \/ /\ reply \in {"NotFound", "AlreadyClaimed"}
             /\ Respond(r, "400")
             /\ UNCHANGED <<external, inp, loc, took>>
    /\ UNCHANGED <<now, registry, session, handoff, logout>>

\* The service may have been disabled since the login began.
CallbackService(r) ==
    /\ pc[r] = "callback_service"
    /\ \/ Registered(loc[r].txn.service) /\ Goto(r, "google")
       \/ ~Registered(loc[r].txn.service) /\ Respond(r, "403")
    /\ UNCHANGED <<now, registry, store, inp, loc, took>>

\* Google's token and userinfo endpoints name the person who logged in, or
\* fail; then the service reads its clock.
GoogleIdentity(r) ==
    /\ pc[r] = "google"
    /\ \/ /\ \E u \in User, t \in AppClock :
                loc' = [loc EXCEPT ![r].now = t, ![r].who = [user |-> u, at |-> t]]
          /\ Goto(r, "resolve")
       \/ Respond(r, "502") /\ UNCHANGED loc
    /\ UNCHANGED <<now, registry, store, inp, took>>

\* resolve_external_identity; IdentityStore.tla has its steps.
ResolveIdentity(r) ==
    /\ pc[r] = "resolve"
    /\ \/ enabled[loc[r].who.user] /\ Goto(r, "create")
       \/ ~enabled[loc[r].who.user] /\ Respond(r, "403")
    /\ UNCHANGED <<now, registry, store, inp, loc, took>>

NewSession(r) ==
    [user |-> loc[r].who.user, at |-> loc[r].who.at,
     expires |-> loc[r].now + SessionTTL, ttl |-> TRUE]

NewHandoff(r) ==
    [service |-> loc[r].txn.service, user |-> loc[r].who.user, session |-> r,
     challenge |-> loc[r].txn.challenge, at |-> loc[r].who.at,
     expires |-> loc[r].now + HandoffTTL, status |-> "unused", ttl |-> TRUE]

\* create_session_and_handoff: every refusal is a 503.
CreateSession(r) ==
    /\ pc[r] = "create"
    /\ LET reply == CreateReply(session[r], handoff[r], r, NewSession(r), NewHandoff(r), now) IN
          \/ /\ reply = "Ok"
             /\ session' = Put(session, r, NewSession(r))
             /\ handoff' = Put(handoff, r, NewHandoff(r))
             /\ RespondOrLose(r, "callback")
          \/ /\ reply # "Ok"
             /\ Respond(r, "503")
             /\ UNCHANGED <<session, handoff>>
    /\ UNCHANGED <<now, registry, external, logout, inp, loc, took>>

-----------------------------------------------------------------------------
(***************************************************************************)
(* POST /auth/handoffs/exchange                                            *)
(***************************************************************************)

\* authenticate_service: a disabled service is refused before its secret is
\* compared.  ch is the S256 challenge of the verifier that was sent.
ExchangeStart(r) ==
    /\ pc[r] = "idle"
    /\ \E s \in Service \cup Unregistered, ch \in Challenge, h \in Codes, secretMatches \in BOOLEAN :
          \/ /\ \/ s \in Unregistered
                \/ Registered(s) /\ ~secretMatches
             /\ Respond(r, "401")
             /\ UNCHANGED inp
          \/ /\ s \in Service
             /\ ~Registered(s)
             /\ Respond(r, "403")
             /\ UNCHANGED inp
          \/ /\ Registered(s)
             /\ secretMatches
             /\ Present(r, [NoInput EXCEPT !.service = s, !.challenge = ch, !.ref = h])
             /\ Goto(r, "handoff_type")
    /\ UNCHANGED <<now, registry, store, loc, took>>

\* resolve_handoff_session_lookup is two commands, TYPE and HGET: the key
\* may expire between them, and then HGET answers nil.
HandoffType(r) ==
    /\ pc[r] = "handoff_type"
    /\ \/ handoff[inp[r].ref] = None /\ Respond(r, "400")
       \/ handoff[inp[r].ref] # None /\ Goto(r, "handoff_hget")
    /\ UNCHANGED <<now, registry, store, inp, loc, took>>

HandoffHget(r) ==
    /\ pc[r] = "handoff_hget"
    /\ LET row == handoff[inp[r].ref] IN
          \/ /\ row = None
             /\ Respond(r, "503")
             /\ UNCHANGED loc
          \/ /\ row # None
             /\ loc' = [loc EXCEPT ![r].session = row.session]
             /\ Goto(r, "exchange")
    /\ UNCHANGED <<now, registry, store, inp, took>>

\* EXCHANGE_HANDOFF_SCRIPT and the status each answer becomes.
ExchangeHandoff(r) ==
    /\ pc[r] = "exchange"
    /\ LET h == inp[r].ref
           k == loc[r].session
           row == handoff[h]
           reply == ExchangeReply(row, session[k], k, inp[r].service, inp[r].challenge, now) IN
          \/ /\ reply = "Ok"
             /\ handoff' = Put(handoff, h, [row EXCEPT !.status = "used"])
             /\ loc' = [loc EXCEPT ![r].who = [user |-> row.user, at |-> row.at]]
             /\ TakesEffect(r)
             /\ RespondOrLose(r, "200")
             /\ UNCHANGED session
          \/ /\ reply = "Expired"
             /\ handoff' = Del(handoff, h)
             /\ Respond(r, "400")
             /\ UNCHANGED <<session, loc, took>>
          \/ /\ reply = "SessionExpired"
             /\ session' = Del(session, k)
             /\ Respond(r, "400")
             /\ UNCHANGED <<handoff, loc, took>>
          \/ /\ reply \notin {"Ok", "Expired", "SessionExpired"}
             /\ Respond(r, IF reply = "InvalidStoredState" THEN "503" ELSE "400")
             /\ UNCHANGED <<session, handoff, loc, took>>
    /\ UNCHANGED <<now, registry, external, logout, inp>>

-----------------------------------------------------------------------------
(***************************************************************************)
(* GET and POST /auth/logout                                               *)
(***************************************************************************)
LogoutGetStart(r) ==
    /\ pc[r] = "idle"
    /\ \E s \in Service \cup Unregistered, k \in Cookies :
          \/ /\ ~Registered(s)
             /\ Respond(r, "403")
             /\ UNCHANGED <<inp, loc>>
          \/ /\ Registered(s)
             /\ k = None
             /\ Respond(r, "return")
             /\ UNCHANGED <<inp, loc>>
          \/ /\ Registered(s)
             /\ k # None
             /\ Present(r, [NoInput EXCEPT !.service = s, !.cookie = k])
             /\ \E t \in AppClock : loc' = [loc EXCEPT ![r].now = t]
             /\ Goto(r, "logout_hset")
    /\ UNCHANGED <<now, registry, store, took>>

\* Mutant of NewLogout: the form is stored without its CSRF token.
NewLogoutWithoutToken(r) ==
    [service |-> inp[r].service, csrf |-> None, expires |-> loc[r].now + LogoutTTL,
     status |-> "unused", ttl |-> FALSE]

NewLogout(r) ==
    [service |-> inp[r].service, csrf |-> r, expires |-> loc[r].now + LogoutTTL,
     status |-> "unused", ttl |-> FALSE]

\* write_logout: HSET, and then EXPIREAT.
LogoutHset(r) ==
    /\ pc[r] = "logout_hset"
    /\ logout' = Put(logout, r, NewLogout(r))
    /\ Goto(r, "logout_expireat")
    /\ UNCHANGED <<now, registry, external, session, handoff, inp, loc, took>>

LogoutExpireat(r) ==
    /\ pc[r] = "logout_expireat"
    /\ logout' = Put(logout, r, ExpireAt(logout[r], now))
    /\ RespondOrLose(r, "page")
    /\ UNCHANGED <<now, registry, external, session, handoff, inp, loc, took>>

\* complete_common_logout ends the session of the cookie that came with the
\* form; without a cookie the form is refused before Redis is asked.
CompleteLogout(r) ==
    /\ pc[r] = "idle"
    /\ \E g \in LogoutForms, f \in LogoutForms, k \in Cookies :
          LET reply == LogoutReply(logout[g], f, now) IN
          \/ /\ k # None
             /\ reply = "Ok"
             /\ Present(r, [NoInput EXCEPT !.ref = g, !.csrf = f, !.cookie = k])
             /\ logout' = Put(logout, g, [logout[g] EXCEPT !.status = "used"])
             /\ session' = Del(session, k)
             /\ TakesEffect(r)
             /\ RespondOrLose(r, "return")
          \/ /\ k # None
             /\ reply = "Expired"
             /\ logout' = Del(logout, g)
             /\ Respond(r, "400")
             /\ UNCHANGED <<session, inp, took>>
          \/ /\ k = None \/ reply \in {"NotFound", "AlreadyUsed"}
             /\ Respond(r, "400")
             /\ UNCHANGED <<logout, session, inp, took>>
          \/ /\ k # None
             /\ reply = "CsrfMismatch"
             /\ Respond(r, "403")
             /\ UNCHANGED <<logout, session, inp, took>>
    /\ UNCHANGED <<now, registry, external, handoff, loc>>

-----------------------------------------------------------------------------
(***************************************************************************)
(* Failures and the environment.                                           *)
(***************************************************************************)

\* A storage call fails without effect, or the process dies between two.
Fail(r) ==
    /\ pc[r] \notin {"idle", "done"}
    /\ Respond(r, "failed")
    /\ UNCHANGED <<now, registry, store, inp, loc, took>>

\* An operator enables or disables a user or a service.
SwitchUser(u) ==
    /\ enabled' = [enabled EXCEPT ![u] = ~@]
    /\ UNCHANGED <<now, active, store, pc, inp, loc, resp, took>>

SwitchService(s) ==
    /\ active' = [active EXCEPT ![s] = ~@]
    /\ UNCHANGED <<now, enabled, store, pc, inp, loc, resp, took>>

\* Redis drops a key in the second in which it expires.
Expire(k) ==
    /\ \/ MayExpire(external[k], now) \/ MayExpire(session[k], now)
       \/ MayExpire(handoff[k], now) \/ MayExpire(logout[k], now)
    /\ external' = IF MayExpire(external[k], now) THEN Del(external, k) ELSE external
    /\ session' = IF MayExpire(session[k], now) THEN Del(session, k) ELSE session
    /\ handoff' = IF MayExpire(handoff[k], now) THEN Del(handoff, k) ELSE handoff
    /\ logout' = IF MayExpire(logout[k], now) THEN Del(logout, k) ELSE logout
    /\ UNCHANGED <<now, registry, pc, inp, loc, resp, took>>

Tick ==
    /\ now < MaxTime
    /\ now' = now + 1
    /\ external' = [k \in Ref |-> Survive(external[k], now + 1)]
    /\ session' = [k \in Ref |-> Survive(session[k], now + 1)]
    /\ handoff' = [k \in Ref |-> Survive(handoff[k], now + 1)]
    /\ logout' = [k \in Ref |-> Survive(logout[k], now + 1)]
    /\ UNCHANGED <<registry, pc, inp, loc, resp, took>>

LoginHandler(r) ==
    \/ LoginStart(r) \/ ReadSession(r) \/ DelSession(r) \/ CheckUser(r) \/ IssueSso(r)
    \/ ExternalHset(r) \/ ExternalExpireat(r)

CallbackHandler(r) ==
    \/ Claim(r) \/ CallbackService(r) \/ GoogleIdentity(r) \/ ResolveIdentity(r)
    \/ CreateSession(r)

ExchangeHandler(r) ==
    ExchangeStart(r) \/ HandoffType(r) \/ HandoffHget(r) \/ ExchangeHandoff(r)

LogoutGetHandler(r) == LogoutGetStart(r) \/ LogoutHset(r) \/ LogoutExpireat(r)

Handler ==
    \/ \E r \in Login : LoginHandler(r)
    \/ \E r \in Callback : CallbackHandler(r)
    \/ \E r \in Exchange : ExchangeHandler(r)
    \/ \E r \in LogoutGet : LogoutGetHandler(r)
    \/ \E r \in LogoutPost : CompleteLogout(r)

Environment ==
    \/ \E r \in Request : Fail(r)
    \/ \E u \in User \cap Administered : SwitchUser(u)
    \/ \E s \in Service \cap Administered : SwitchService(s)
    \/ \E k \in Ref : Expire(k)
    \/ Tick

Next == Handler \/ Environment

Spec == Init /\ [][Next]_vars

\* Time passes.  Nothing obliges a request to be made or to go on, a person to
\* log out, or an operator to act.
FairSpec == Spec /\ WF_vars(Tick)

-----------------------------------------------------------------------------
(***************************************************************************)
(* Properties.                                                             *)
(***************************************************************************)

\* Every variable holds values of the kind the code gives it.
TypeOK ==
    /\ now \in Nat
    /\ enabled \in [User -> BOOLEAN]
    /\ active \in [Service -> BOOLEAN]
    /\ external \in [Ref -> ExternalRow \cup {None}]
    /\ session \in [Ref -> SessionRow \cup {None}]
    /\ handoff \in [Ref -> HandoffRow(Ref) \cup {None}]
    /\ logout \in [Ref -> LogoutRow(Ref) \cup {None}]
    /\ pc \in [Request -> Label]
    /\ inp \in [Request -> Input]
    /\ loc \in [Request -> Local]
    /\ resp \in [Request -> Answer]
    /\ took \in [Request -> Nat \cup {None}]

Effective(R) == {r \in R : took[r] # None}

\* However many exchange requests race for one handoff code, and whether or
\* not their replies arrive, at most one of them marks it used and is told
\* who logged in (exchange_auth_handoff, EXCHANGE_HANDOFF_SCRIPT).
ExchangeAtMostOnce ==
    \A x, y \in Effective(Exchange) : inp[x].ref = inp[y].ref => x = y

\* However often Google's redirect is delivered, one OAuth state is claimed
\* by at most one callback request (google_auth_callback).
ClaimAtMostOnce ==
    \A b, c \in Effective(Callback) : inp[b].ref = inp[c].ref => b = c

\* A logout form works once, and only with the CSRF token that was generated
\* with it (logout_get, logout_post).
LogoutFormUsedOnce ==
    /\ \A p \in Effective(LogoutPost) : inp[p].csrf = inp[p].ref
    /\ \A p, q \in Effective(LogoutPost) : inp[p].ref = inp[q].ref => p = q

(***************************************************************************)
(* The login that a handoff code stands for, and the callback in which     *)
(* Google named the person: a code made by a callback answers the login    *)
(* whose OAuth state it claimed, one made by a login answers that login.   *)
(***************************************************************************)
LoginOf(h) == IF h \in Callback THEN inp[h].ref ELSE h
AuthenticatedBy(h) == IF h \in Callback THEN h ELSE inp[h].cookie

\* End to end, through OAuth state, claim, session and handoff: what an
\* exchange returns is the identity and the time of a Google authentication,
\* for a login that the same service began with the same PKCE challenge; and
\* the state that came back with the code is that login's state.
ExchangeAnswersItsLogin ==
    \A x \in Effective(Exchange) :
       LET h == inp[x].ref
           l == LoginOf(h)
           c == AuthenticatedBy(h) IN
       /\ l \in Login
       /\ inp[l].service = inp[x].service
       /\ inp[l].challenge = inp[x].challenge
       /\ h \in Callback => loc[h].txn.state = inp[l].state
       /\ c \in Callback
       /\ loc[c].who = loc[x].who

\* No state is used past its lifetime, counted from the clock reading of the
\* request that made it to the Redis time of its use, whatever the skew and
\* even when EXPIREAT never ran: external transactions, handoffs, logout
\* forms, and sessions, which single sign-on does not prolong.
UsedWithinLifetime ==
    /\ \A c \in Effective(Callback) : took[c] < loc[inp[c].ref].now + ExternalTTL
    /\ \A x \in Effective(Exchange) : took[x] < loc[inp[x].ref].now + HandoffTTL
    /\ \A p \in Effective(LogoutPost) : took[p] < loc[inp[p].ref].now + LogoutTTL
    /\ \A r \in Effective(Login \cup Exchange) : took[r] < loc[r].who.at + SessionTTL

\* Sessions that a completed logout has ended.
Ended == {inp[p].cookie : p \in Effective(LogoutPost)}

TakesEffectNow(r) == took[r] = None /\ took'[r] # None

\* Common logout is final: once it has ended a session, no login that read
\* the session before gets a handoff from it, and no handoff issued from it
\* before can still be exchanged.
LogoutIsFinal ==
    [][/\ \A l \in Login : TakesEffectNow(l) => inp[l].cookie \notin Ended
       /\ \A x \in Exchange : TakesEffectNow(x) => loc[x].session \notin Ended]_vars

\* Sessions and handoffs, which the scripts write together with their TTL,
\* do not outlive it: each is eventually gone (those that expire within the
\* time that is explored).
ShortLivedStateEnds ==
    /\ \A k \in Callback :
          session[k] # None /\ session[k].expires < MaxTime ~> session[k] = None
    /\ \A k \in Login \cup Callback :
          handoff[k] # None /\ handoff[k].expires < MaxTime ~> handoff[k] = None

-----------------------------------------------------------------------------
(***************************************************************************)
(* What the documents say and the code does not do.                        *)
(***************************************************************************)

\* docs/auth-foundation-spec.md:441 has an expired code answered with 400 and
\* keeps 503 for failures of the foundation (here "failed").  A code whose key
\* expires between TYPE and HGET is answered with 503.
ExpiredCodeIsNotAFailure ==
    \A x \in Exchange : resp[x] # "503"

\* docs/auth-foundation-spec.md:585 has every short-lived state in Redis carry
\* a TTL.  write_state sets it in a second command, so a failure between the
\* two leaves a key without one after the request is over.
EveryKeyHasTTL ==
    /\ \A l \in Login : external[l] # None /\ pc[l] = "done" => external[l].ttl
    /\ \A g \in LogoutGet : logout[g] # None /\ pc[g] = "done" => logout[g].ttl

\* docs/auth-foundation-storage-design.md:53 says that a disabled user is not
\* used for a new authentication success.  The exchange does not look at
\* is_enabled, so a user disabled after the code was issued is authenticated.
DisabledUserNotAuthenticated ==
    [][\A x \in Exchange : TakesEffectNow(x) => enabled[loc'[x].who.user]]_vars
=============================================================================
