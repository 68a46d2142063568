------------------------------ MODULE DataPath ------------------------------
(***************************************************************************)
(* One browser's journey through both services with the values as they     *)
(* are formatted, parsed, stored and read back on the way: the services    *)
(* start from their environments, the portal sends the browser to the      *)
(* foundation, Google names the person, the code goes back through the     *)
(* browser, the portal exchanges it, and the browser logs out.             *)
(*                                                                         *)
(* A handler is one action: interleavings are the subject of               *)
(* AuthFoundation.tla and PortalBackend.tla.  What can go wrong here is a  *)
(* value: a message is altered on its way, a stored row is altered, time   *)
(* passes, or a configuration is not what the other side expects.  Failing *)
(* calls of PostgreSQL, Redis and Google are in those modules, too.        *)
(***************************************************************************)
EXTENDS FiniteSets, Boundary, StoredState, PortalInput, Startup
LOCAL INSTANCE SequencesExt

CONSTANTS
    Worlds,         \* what is given: environments, registration, Google's answers,
                    \* the time (negative: before the epoch), and max_faults, a bound
                    \* on the alterations and delays in a journey
    LoginStartTTL,  \* LOGIN_START_TTL_SECONDS
    LocalSessionTTL \* LOCAL_SESSION_TTL_SECONDS

\* Time is counted in whole seconds, the id of a user is an i32, and the query
\* of a URI is a sequence.
ASSUME WorldAssumption ==
    \A w \in Worlds :
       /\ w.clock \in Int
       /\ w.max_faults \in Nat
       /\ w.user \in (-I32Max - 1)..I32Max
       /\ \A u \in w.service.login_callback_uri.url :
             u.query \in Seq({u.query[i] : i \in DOMAIN u.query})

\* Nothing is stored for longer than a common session.
ASSUME LifetimeAssumption ==
    {LoginStartTTL, LocalSessionTTL, ExternalTTL, HandoffTTL, LogoutTTL} \subseteq 1..SessionTTL

VARIABLES
    world,          \* the world of this journey
    foundation,     \* "down", "serving", or why the process ended
    portal,         \* the same of the portal
    clock,          \* the clock of all hosts
    redis,          \* family -> [key, value, expireat] of its only key, or None
    starts,         \* the portal's login_starts
    sessions,       \* the portal's local_sessions
    jar,            \* cookie name -> its value, if the browser has it
    mail,           \* the request or reply on its way, or None
    answer,         \* the last answer: which handler, which status
    authenticated,  \* history: when Google named the person
    faults          \* history: alterations and delays so far

hosts == <<world, foundation, portal>>
vars == <<world, foundation, portal, clock, redis, starts, sessions, jar, mail,
          answer, authenticated, faults>>

The(set) == CHOOSE x \in set : TRUE

AUTH_SESSION == "__Host-auth_session"
LOGIN_CTX == "__Host-portal_login_ctx"
PORTAL_SESSION == "__Host-portal_session"
PORTAL_CSRF == "__Host-portal_csrf"
CookieNames == {AUTH_SESSION, LOGIN_CTX, PORTAL_SESSION, PORTAL_CSRF}

NoAnswer == [at |-> "none", status |-> "none"]

\* An environment gives the portal one configuration, or none.
Config == The(portal_from_env(world.penv))

-----------------------------------------------------------------------------
(***************************************************************************)
(* Messages and the store.                                                 *)
(***************************************************************************)
Mail(at, pairs, cookies, headers) ==
    [at |-> at, pairs |-> pairs, cookies |-> cookies, headers |-> headers]

\* One Cookie header with the cookies that the browser has for a service, or
\* no header.
Cookie(theJar, name) == IF theJar[name] = {} THEN <<>> ELSE <<<<name, The(theJar[name])>>>>
CookieHeader(pairs) == IF pairs = <<>> THEN <<>> ELSE <<pairs>>

FoundationCookies(theJar) == CookieHeader(Cookie(theJar, AUTH_SESSION))
PortalCookies(theJar) ==
    CookieHeader(Cookie(theJar, LOGIN_CTX) \o Cookie(theJar, PORTAL_SESSION)
                 \o Cookie(theJar, PORTAL_CSRF))

\* actix: the first cookie of the name, if every pair parses.
request_cookie(headers, name) ==
    LET pairs == CookiePairs(headers) IN
    IF Occurs(pairs, "broken") # {} \/ Occurs(pairs, name) = {} THEN {} ELSE {Field(pairs, name)}

\* external_key, session_key, handoff_key, logout_key
At(family, reference) ==
    IF redis[family] # None /\ redis[family].key = reference THEN redis[family].value ELSE None

\* HSET and EXPIREAT of a new key.
NewKey(reference, state) ==
    [key |-> reference, value |-> Hash(Encode(state)), expireat |-> state.expires_at]

WithStatus(family, status) ==
    [redis EXCEPT ![family].value.fields.status = [word |-> status]]

NewSessionState ==
    [internal_user_id |-> world.user, authenticated_at |-> clock, created_at |-> clock,
     expires_at |-> clock + SessionTTL]

Answer(status) == answer' = [at |-> mail.at, status |-> status]

Init ==
    /\ world \in Worlds
    /\ clock = world.clock
    /\ foundation = "down"
    /\ portal = "down"
    /\ starts = {}
    /\ sessions = {}
    /\ mail = None
    /\ answer = NoAnswer
    /\ faults = 0
    /\ \E returning \in BOOLEAN :
          /\ returning => clock \in 0..(LuaMax - SessionTTL)
          /\ authenticated = IF returning THEN {clock} ELSE {}
          /\ jar = [n \in CookieNames |->
                      IF returning /\ n = AUTH_SESSION THEN {Reference(<<"session">>)} ELSE {}]
          /\ redis = [f \in Family |->
                        IF returning /\ f = "session"
                        THEN NewKey(Reference(<<"session">>), NewSessionState)
                        ELSE None]

-----------------------------------------------------------------------------
(***************************************************************************)
(* The processes start.                                                    *)
(***************************************************************************)
StartFoundation ==
    /\ foundation = "down"
    /\ \E reachable \in SUBSET {"postgres", "redis", "port"} :
          foundation' = foundation_main(world.fenv, reachable)
    /\ UNCHANGED <<world, portal, clock, redis, starts, sessions, jar, mail, answer,
                   authenticated, faults>>

StartPortal ==
    /\ portal = "down"
    /\ \E ports \in SUBSET (port_from_env(world.penv.PORT) \cup {3000}) :
          portal' = portal_main(world.penv, ports)
    /\ UNCHANGED <<world, foundation, clock, redis, starts, sessions, jar, mail, answer,
                   authenticated, faults>>

-----------------------------------------------------------------------------
(***************************************************************************)
(* GET /login at the portal.                                               *)
(***************************************************************************)
PostLoginPath == Text(<<"/">>, 1, <<"slash">>, {"slash"})

cleanup_expired(records) == {r \in records : r.expires > clock}

create_login_start_result ==
    IF ~validate_post_login_path(PostLoginPath) THEN "InvalidPostLoginPath"
    ELSE IF Cardinality(cleanup_expired(starts)) >= Config.login_start_capacity
         THEN "CapacityReached"
    ELSE IF clock + LoginStartTTL > U64Max THEN "ExpiryOverflow"
    ELSE "Ok"

\* How login and callback answer the LocalStateErrors of a new record.
LocalStateError(result) ==
    CASE result = "Ok" -> "302"
      [] result = "CapacityReached" -> "503"
      [] result \in {"InvalidPostLoginPath", "ExpiryOverflow"} -> "500"

\* What login is told of the LoginStart.
CreatedLoginStart(start) ==
    [state |-> start.state, browser_context_reference |-> start.ctx,
     code_challenge |-> sha256_base64url(start.verifier)]

\* unix_epoch_seconds panics on a clock before the epoch.
login_start_status ==
    IF clock < 0 THEN "panic" ELSE LocalStateError(create_login_start_result)

PortalLogin ==
    /\ portal = "serving"
    /\ foundation = "serving"
    /\ answer = NoAnswer
    /\ answer' = [at |-> "portal_login", status |-> login_start_status]
    /\ LET start == [state |-> random_reference(<<"state">>),
                     ctx |-> random_reference(<<"ctx">>),
                     verifier |-> random_reference(<<"verifier">>), path |-> PostLoginPath,
                     expires |-> clock + LoginStartTTL]
           created == CreatedLoginStart(start)
           url == [auth_foundation_endpoint(Config.base_url) EXCEPT !.query = @ \o
                     <<<<"service_id", Config.service_id>>, <<"state", created.state>>,
                       <<"code_challenge", created.code_challenge>>,
                       <<"code_challenge_method", S256>>>>] IN
       \/ /\ login_start_status = "302"
          /\ starts' = cleanup_expired(starts) \cup {start}
          /\ jar' = [jar EXCEPT ![LOGIN_CTX] = {created.browser_context_reference}]
          /\ mail' = Mail("login", url.query, FoundationCookies(jar), <<>>)
       \/ /\ login_start_status # "302"
          /\ starts' = IF clock < 0 THEN starts ELSE cleanup_expired(starts)
          /\ UNCHANGED <<jar, mail>>
    /\ UNCHANGED <<hosts, clock, redis, sessions, authenticated, faults>>

-----------------------------------------------------------------------------
(***************************************************************************)
(* GET /auth/login at the foundation.                                      *)
(***************************************************************************)
OauthState == Reference(<<"oauth_state">>)
HandoffCode == Reference(<<"handoff">>)

\* lookup_login_callback_uri, lookup_logout_return_uri
ServiceIsUsable(service_id) ==
    world.service.service_id = service_id /\ world.service.is_enabled

NewExternalState(q, expires) ==
    [service_id |-> Field(q, "service_id"), service_state |-> Field(q, "state"),
     handoff_code_challenge |-> Field(q, "code_challenge"), provider |-> Google,
     provider_verification_data |-> Empty, created_at |-> clock, expires_at |-> expires,
     status |-> "waiting"]

NewHandoffState(service_id, challenge, reference, who, expires) ==
    [service_id |-> service_id, internal_user_id |-> who.user,
     common_session_lookup |-> reference, code_challenge |-> challenge,
     authenticated_at |-> who.at, issued_at |-> clock, expires_at |-> expires,
     status |-> "unused"]

\* start_google_login
start_google_login(q) ==
    IF \E e \in checked_expires_at(clock, ExternalTTL) :
          WriteState(At("external", OauthState), NewExternalState(q, e), clock) # {}
    THEN "google" ELSE "503"

SsoHandoffState(q, reference) ==
    LET f == At("session", reference).fields IN
    NewHandoffState(Field(q, "service_id"), Field(q, "code_challenge"), reference,
                    [user |-> f.internal_user_id.num, at |-> f.authenticated_at.num],
                    clock + HandoffTTL)

\* The part of login that has a session reference.
sso_login(q, reference) ==
    LET value == At("session", reference)
        read == ReadState("session", value, clock) IN
    IF valid_callback_url(world.service.login_callback_uri) = {} THEN "503"
    ELSE IF read \in {"NotFound", "Expired"} THEN start_google_login(q)
    ELSE IF read # "Ok" THEN "503"
    ELSE IF value.fields.internal_user_id.num # world.user \/ ~world.user_enabled THEN "403"
    ELSE IF checked_expires_at(clock, HandoffTTL) = {} THEN "503"
    ELSE LET error == script_error(issue_script(value, At("handoff", HandoffCode), reference,
                                     Encode(SsoHandoffState(q, reference)), clock)) IN
         IF error = "Ok" THEN "sso"
         ELSE IF error \in {"NotFound", "Expired"} THEN start_google_login(q) ELSE "503"

\* The session row is read, and deleted if it has expired.
reads_session(q, cookie) ==
    /\ Deserializes(q, LoginQuery) /\ login_input_is_valid(q)
    /\ ServiceIsUsable(Field(q, "service_id"))
    /\ \E reference \in cookie : validate_fixed_reference_value(reference)
    /\ valid_callback_url(world.service.login_callback_uri) # {}

login_result(q, cookie) ==
    IF ~Deserializes(q, LoginQuery) THEN "400"
    ELSE IF ~login_input_is_valid(q) THEN "400"
    ELSE IF ~ServiceIsUsable(Field(q, "service_id")) THEN "403"
    ELSE IF unix_seconds(clock) = {} THEN "503"
    ELSE IF \E reference \in cookie : validate_fixed_reference_value(reference)
         THEN sso_login(q, The(cookie))
    ELSE start_google_login(q)

\* The query of the registered callback URI is dropped by the Google path
GoogleRedirect(url, code, state) == <<<<"code", code>>, <<"state", state>>>>

\* and kept by the single sign-on path.
SsoRedirect(url, code, state) == url.query \o <<<<"code", code>>, <<"state", state>>>>

FoundationLogin ==
    /\ mail # None
    /\ mail.at = "login"
    /\ LET q == mail.pairs
           cookie == request_cookie(mail.cookies, AUTH_SESSION)
           result == login_result(q, cookie)
           read == IF /\ reads_session(q, cookie)
                      /\ ReadState("session", At("session", The(cookie)), clock) = "Expired"
                   THEN [redis EXCEPT !["session"] = None] ELSE redis IN
       \/ /\ result = "google"
          /\ Answer("302")
          /\ redis' = [read EXCEPT
                !["external"] = NewKey(OauthState, NewExternalState(q, clock + ExternalTTL))]
          /\ mail' = Mail("google", <<<<"state", OauthState>>>>, <<>>, <<>>)
       \/ /\ result = "sso"
          /\ Answer("302")
          /\ redis' = [redis EXCEPT !["handoff"] = NewKey(HandoffCode, SsoHandoffState(q, The(cookie)))]
          /\ mail' = Mail("portal_callback",
                          SsoRedirect(The(world.service.login_callback_uri.url), HandoffCode,
                                      Field(q, "state")),
                          PortalCookies(jar), <<>>)
       \/ /\ result \notin {"google", "sso"}
          /\ Answer(result)
          /\ mail' = None
          /\ redis' = read
    /\ UNCHANGED <<hosts, clock, starts, sessions, jar, authenticated, faults>>

-----------------------------------------------------------------------------
(***************************************************************************)
(* Google (external), and GET /auth/google/callback.                       *)
(***************************************************************************)
GoogleConsent ==
    /\ mail # None
    /\ mail.at = "google"
    /\ Answer("302")
    /\ mail' = Mail("google_callback",
                    <<<<"code", world.google_code>>, <<"state", Field(mail.pairs, "state")>>>>, <<>>, <<>>)
    /\ UNCHANGED <<hosts, clock, redis, starts, sessions, jar, authenticated, faults>>

SessionReference == Reference(<<"new_session">>)

CallbackHandoff(txn) ==
    NewHandoffState(txn.service_id, txn.handoff_code_challenge, SessionReference,
                    [user |-> world.user, at |-> clock], clock + HandoffTTL)

\* What follows a claim that was decoded to the transaction txn.
claimed_result(txn) ==
    IF ~ServiceIsUsable(txn.service_id) THEN "403"
    ELSE IF valid_callback_url(world.service.login_callback_uri) = {} THEN "500"
    ELSE IF GoogleUserInfo(world.google_user_info) = {} THEN "502"
    ELSE IF normalize_google_user_info(world.google_user_info) = {} THEN "502"
    ELSE IF unix_seconds(clock) = {} THEN "500"
    ELSE IF ~world.user_enabled THEN "403"
    ELSE IF \/ checked_expires_at(clock, SessionTTL) = {}
            \/ checked_expires_at(clock, HandoffTTL) = {} THEN "500"
    ELSE IF create_script(At("session", SessionReference), At("handoff", HandoffCode),
                          SessionReference, Encode(NewSessionState), Encode(CallbackHandoff(txn)),
                          clock) # 0 THEN "503"
    ELSE "302"

\* The answer to a claim; a claim that cannot be decoded is still a claim.
claim_external_callback(code, decoded) ==
    IF script_error(code) \in {"NotFound", "Expired", "AlreadyClaimed"} THEN "400"
    ELSE IF code # 0 \/ decoded = {} THEN "503"
    ELSE claimed_result(The(decoded))

GoogleAuthCallback ==
    /\ mail # None
    /\ mail.at = "google_callback"
    /\ LET q == mail.pairs
           valid == Deserializes(q, CallbackQuery) /\ callback_input_is_valid(q)
           value == At("external", Field(q, "state"))
           code == claim_script(value, clock)
           decoded == IF code = 0 THEN decode_claim(claim_reply(value.fields)) ELSE {}
           status == IF valid THEN claim_external_callback(code, decoded) ELSE "400"
           claimed == IF code = 0 THEN WithStatus("external", "processing")
                      ELSE IF code = 2 THEN [redis EXCEPT !["external"] = None]
                      ELSE redis IN
       /\ Answer(status)
       /\ \/ /\ status = "302"
             /\ LET txn == The(decoded) IN
                /\ redis' = [claimed EXCEPT
                      !["session"] = NewKey(SessionReference, NewSessionState),
                      !["handoff"] = NewKey(HandoffCode, CallbackHandoff(txn))]
                /\ mail' = Mail("portal_callback",
                      GoogleRedirect(The(world.service.login_callback_uri.url), HandoffCode,
                                     txn.service_state),
                      PortalCookies(jar), <<>>)
             /\ jar' = [jar EXCEPT ![AUTH_SESSION] = {SessionReference}]
             /\ authenticated' = {clock}
          \/ /\ status # "302"
             /\ redis' = IF valid THEN claimed ELSE redis
             /\ mail' = None
             /\ UNCHANGED <<jar, authenticated>>
    /\ UNCHANGED <<hosts, clock, starts, sessions, faults>>

-----------------------------------------------------------------------------
(***************************************************************************)
(* GET /auth/callback at the portal, and the exchange it makes.            *)
(***************************************************************************)

\* claim_login_start; an expired record is removed on the way.
claim_login_start(query, ctx) ==
    {s \in starts : s.state = query.state /\ s.expires > clock /\ s.ctx = ctx}

PortalCallback ==
    /\ mail # None
    /\ mail.at = "portal_callback"
    /\ LET queries == parse_callback_query(mail.pairs)
           contexts == login_context_from_cookie_header(mail.cookies)
           claimed == IF queries = {} \/ contexts = {} THEN {}
                      ELSE claim_login_start(The(queries), The(contexts))
           expired == {s \in starts : queries # {} /\ contexts # {} /\ s.expires <= clock
                                      /\ s.state = The(queries).state} IN
       /\ starts' = starts \ (claimed \cup expired)
       /\ \/ /\ claimed # {}
             /\ mail' = Mail("exchange",
                   <<<<"code", The(queries).code>>, <<"code_verifier", The(claimed).verifier>>>>, <<>>,
                   <<Authorization("Basic", TRUE, Config.service_id, Config.service_secret)>>)
             /\ UNCHANGED answer
          \/ /\ claimed = {}
             /\ Answer("400")
             /\ mail' = None
    /\ UNCHANGED <<hosts, clock, redis, sessions, jar, authenticated, faults>>

\* exchange_handoff: the script's code, or 3 when the lookup could not be read.
exchange_handoff(value, service_id, challenge) ==
    IF resolve_handoff_session_lookup(value) = "NotFound" THEN 1
    ELSE IF resolve_handoff_session_lookup(value) # "Ok" THEN 3
    ELSE LET lookup == value.fields.common_session_lookup.lookup IN
         exchange_script(value, At("session", lookup), lookup, service_id, challenge, clock)

exchange_status(code) ==
    IF code = 0 THEN "200"
    ELSE IF script_error(code) \in {"NotFound", "Expired", "AlreadyUsed", "ServiceMismatch",
                                    "ChallengeMismatch"} THEN "400"
    ELSE "503"

\* exchange_auth_handoff up to the call of exchange_handoff.
exchange_refusal(body, authorization) ==
    LET credentials == basic_credentials(authorization) IN
    IF ~Deserializes(body, HandoffExchangeRequest) THEN "400"
    ELSE IF ~exchange_input_is_valid(body) THEN "400"
    ELSE IF credentials = {} THEN "401"
    ELSE IF ~validate_service_id(The(credentials).id) THEN "401"
    ELSE LET error == authenticate_service(world.service, The(credentials).id,
                                           The(credentials).secret) IN
         IF error = "Ok" THEN "none"
         ELSE IF error \in {"ServiceNotFound", "ServiceSecretMismatch"} THEN "401"
         ELSE IF error = "ServiceDisabled" THEN "403"
         ELSE "503"

ExchangeAuthHandoff ==
    /\ mail # None
    /\ mail.at = "exchange"
    /\ LET body == mail.pairs
           refusal == exchange_refusal(body, mail.headers)
           reference == Field(body, "code")
           value == At("handoff", reference)
           code == exchange_handoff(value, The(basic_credentials(mail.headers)).id,
                                    The(pkce_s256_challenge(Field(body, "code_verifier")))) IN
       \/ /\ refusal # "none"
          /\ Answer(refusal)
          /\ mail' = Mail("exchanged", <<>>, <<>>, <<>>)
          /\ UNCHANGED redis
       \/ /\ refusal = "none"
          /\ Answer(exchange_status(code))
          /\ mail' = Mail("exchanged",
                IF code = 0
                THEN LET result == exchange_reply(value.fields) IN
                     <<<<"internal_user_id", Number(result.user)>>, <<"authenticated_at", Number(result.at)>>>>
                ELSE <<>>, <<>>, <<>>)
          /\ redis' = IF code = 0 THEN WithStatus("handoff", "used")
                      ELSE IF code = 2 THEN [redis EXCEPT !["handoff"] = None]
                      ELSE IF code = 12 THEN [redis EXCEPT !["session"] = None]
                      ELSE redis
    /\ UNCHANGED <<hosts, clock, starts, sessions, jar, authenticated, faults>>

PortalReference == random_reference(<<"portal">>)
PortalCsrf == random_reference(<<"csrf">>)

\* The exchange was answered with 200 and a body that parses.
handoff_is_received ==
    /\ answer.status = "200"
    /\ Deserializes(mail.pairs, HandoffExchangeResponse)
    /\ \E n \in Field(mail.pairs, "internal_user_id").num : parse_i32([num |-> n])
    /\ \E n \in Field(mail.pairs, "authenticated_at").num : parse_u64([num |-> n])

create_local_session_result ==
    IF Cardinality(cleanup_expired(sessions)) >= Config.local_session_capacity
    THEN "CapacityReached"
    ELSE IF clock + LocalSessionTTL > U64Max THEN "ExpiryOverflow"
    ELSE "Ok"

\* The rest of callback: anything but a 200 with the expected body is a 502.
session_status ==
    IF handoff_is_received THEN LocalStateError(create_local_session_result) ELSE "502"

PortalSession ==
    /\ mail # None
    /\ mail.at = "exchanged"
    /\ Answer(session_status)
    /\ mail' = None
    /\ \/ /\ session_status = "302"
          /\ sessions' = cleanup_expired(sessions) \cup
                {[reference |-> PortalReference, csrf |-> sha256_base64url(PortalCsrf),
                  user |-> The(Field(mail.pairs, "internal_user_id").num),
                  at |-> The(Field(mail.pairs, "authenticated_at").num),
                  expires |-> clock + LocalSessionTTL]}
          /\ jar' = [jar EXCEPT ![LOGIN_CTX] = {}, ![PORTAL_SESSION] = {PortalReference},
                                ![PORTAL_CSRF] = {PortalCsrf}]
       \/ /\ session_status # "302"
          /\ jar' = [jar EXCEPT ![LOGIN_CTX] = {}]
          /\ sessions' = IF handoff_is_received THEN cleanup_expired(sessions) ELSE sessions
    /\ UNCHANGED <<hosts, clock, redis, starts, authenticated, faults>>

-----------------------------------------------------------------------------
(***************************************************************************)
(* The browser goes on: GET /api/me, POST /logout, GET /auth/logout.       *)
(***************************************************************************)
NextVisit == [exchanged |-> "me", me |-> "portal_logout", portal_logout |-> "logout_get"]

Browse ==
    /\ mail = None
    /\ answer.at \in DOMAIN NextVisit
    /\ LET at == NextVisit[answer.at] IN
       mail' = Mail(at,
                    IF at = "logout_get" THEN <<<<"service_id", Config.service_id>>>> ELSE <<>>,
                    IF at = "logout_get" THEN FoundationCookies(jar) ELSE PortalCookies(jar),
                    IF at = "portal_logout" /\ jar[PORTAL_CSRF] # {}
                    THEN <<The(jar[PORTAL_CSRF])>> ELSE <<>>)
    /\ UNCHANGED <<hosts, clock, redis, starts, sessions, jar, answer, authenticated, faults>>

\* get_local_session removes an expired session on the way.
LocalSessionOf(references) ==
    {s \in sessions : s.reference \in references /\ s.expires > clock}

ExpiredLocalSession(references) ==
    {s \in sessions : s.reference \in references /\ s.expires <= clock}

GetMe ==
    /\ mail # None
    /\ mail.at = "me"
    /\ LET references == fixed_reference_cookie_from_headers(mail.cookies, PORTAL_SESSION) IN
       /\ Answer(IF LocalSessionOf(references) = {} THEN "401" ELSE "200")
       /\ sessions' = sessions \ ExpiredLocalSession(references)
    /\ mail' = None
    /\ UNCHANGED <<hosts, clock, redis, starts, jar, authenticated, faults>>

remove_local_session(records) == sessions \ records

PortalLogout ==
    /\ mail # None
    /\ mail.at = "portal_logout"
    /\ LET references == fixed_reference_cookie_from_headers(mail.cookies, PORTAL_SESSION)
           cookies == fixed_reference_cookie_from_headers(mail.cookies, PORTAL_CSRF)
           headers == csrf_header_from_headers(mail.headers)
           wellFormed == references # {} /\ cookies # {} /\ headers # {}
           removed == {s \in LocalSessionOf(references) :
                         wellFormed /\ cookies = headers /\ s.csrf = sha256_base64url(The(cookies))} IN
       /\ sessions' = remove_local_session(removed) \ (IF wellFormed THEN ExpiredLocalSession(references) ELSE {})
       /\ Answer(IF removed = {} THEN "403" ELSE "204")
       /\ jar' = IF removed = {} THEN jar ELSE [jar EXCEPT ![PORTAL_SESSION] = {}, ![PORTAL_CSRF] = {}]
    /\ mail' = None
    /\ UNCHANGED <<hosts, clock, redis, starts, authenticated, faults>>

LogoutReference == Reference(<<"logout">>)
CsrfToken == Reference(<<"logout_csrf">>)

NewLogoutState(service_id) ==
    [service_id |-> service_id, logout_return_uri |-> world.service.logout_return_uri,
     csrf_lookup |-> CsrfToken, created_at |-> clock, expires_at |-> clock + LogoutTTL,
     status |-> "unused"]

logout_get_result(q, cookie) ==
    IF ~Deserializes(q, LogoutQuery) THEN "400"
    ELSE IF ~validate_service_id(Field(q, "service_id")) THEN "400"
    ELSE IF ~ServiceIsUsable(Field(q, "service_id")) THEN "403"
    ELSE IF valid_callback_url(world.service.logout_return_uri) = {} THEN "500"
    ELSE IF ~\E c \in cookie : validate_fixed_reference_value(c) THEN "302"
    ELSE IF unix_seconds(clock) = {} \/ checked_expires_at(clock, LogoutTTL) = {} THEN "500"
    ELSE IF WriteState(None, NewLogoutState(Field(q, "service_id")), clock) = {} THEN "503"
    ELSE "200"

LogoutGet ==
    /\ mail # None
    /\ mail.at = "logout_get"
    /\ LET q == mail.pairs
           status == logout_get_result(q, request_cookie(mail.cookies, AUTH_SESSION)) IN
       /\ Answer(status)
       /\ \/ /\ status = "200"
             /\ redis' = [redis EXCEPT !["logout"] =
                            NewKey(LogoutReference, NewLogoutState(Field(q, "service_id")))]
             /\ mail' = Mail("logout_post",
                             <<<<"logout_reference", LogoutReference>>, <<"csrf_token", CsrfToken>>>>,
                             FoundationCookies(jar), <<>>)
          \/ /\ status # "200"
             /\ mail' = None
             /\ UNCHANGED redis
    /\ UNCHANGED <<hosts, clock, starts, sessions, jar, authenticated, faults>>

build_deleted_common_auth_cookie(theJar) == [theJar EXCEPT ![AUTH_SESSION] = {}]

logout_post_input_is_valid(form, cookie) ==
    /\ Deserializes(form, LogoutForm)
    /\ validate_fixed_reference_value(Field(form, "logout_reference"))
    /\ validate_fixed_reference_value(Field(form, "csrf_token"))
    /\ \E c \in cookie : validate_fixed_reference_value(c)

\* A return URI that is not UTF-8 is found out after the logout took effect.
logout_post_status(code, value) ==
    IF code = 0 THEN IF DOMAIN value.fields.logout_return_uri = {"binary"} THEN "503" ELSE "303"
    ELSE IF script_error(code) \in {"NotFound", "Expired", "AlreadyUsed"} THEN "400"
    ELSE IF script_error(code) = "CsrfMismatch" THEN "403"
    ELSE "503"

LogoutPost ==
    /\ mail # None
    /\ mail.at = "logout_post"
    /\ LET form == mail.pairs
           cookie == request_cookie(mail.cookies, AUTH_SESSION)
           reference == Field(form, "logout_reference")
           value == At("logout", reference)
           code == logout_script(value, Field(form, "csrf_token"), clock) IN
       \/ /\ ~logout_post_input_is_valid(form, cookie)
          /\ Answer("400")
          /\ UNCHANGED <<redis, jar>>
       \/ /\ logout_post_input_is_valid(form, cookie)
          /\ Answer(logout_post_status(code, value))
          /\ redis' = IF code = 0
                      THEN [WithStatus("logout", "used") EXCEPT
                              !["session"] = IF At("session", The(cookie)) # None THEN None ELSE @]
                      ELSE IF code = 2 THEN [redis EXCEPT !["logout"] = None]
                      ELSE redis
          /\ jar' = IF logout_post_status(code, value) = "303"
                    THEN build_deleted_common_auth_cookie(jar) ELSE jar
    /\ mail' = None
    /\ UNCHANGED <<hosts, clock, starts, sessions, authenticated, faults>>

-----------------------------------------------------------------------------
(***************************************************************************)
(* Faults.                                                                 *)
(***************************************************************************)
Garbled == Text(<<"garbled">>, 43, <<"other", "other">>, Base64url \cup {"other"})
Longer == Text(<<"longer">>, 44, <<"upper", "upper">>, Base64url)
Forged == Reference(<<"forged">>)

Without(pairs, i) == [j \in 1..(Len(pairs) - 1) |-> pairs[IF j < i THEN j ELSE j + 1]]

\* A parameter is repeated, dropped, replaced or added.
AlteredPairs(pairs) ==
    {Append(pairs, <<"extra", Empty>>)}
    \cup {Append(pairs, pairs[i]) : i \in DOMAIN pairs}
    \cup {Without(pairs, i) : i \in DOMAIN pairs}
    \cup {[pairs EXCEPT ![i][2] = t] : i \in DOMAIN pairs, t \in {Garbled, Longer, Forged}}

\* Cookies come in several headers, one of them twice, or one does not parse.
AlteredCookies(headers) ==
    {h \in {<<>>, [i \in DOMAIN CookiePairs(headers) |-> <<CookiePairs(headers)[i]>>]} : headers # <<>>}
    \cup UNION {{<<Append(header, pair)>> : pair \in Range(header)} : header \in Range(headers)}
    \cup {<<Append(header, <<"broken", Empty>>)>> : header \in Range(headers)}

Alter ==
    /\ mail # None
    /\ mail.at \notin {"google", "exchanged"}
    /\ faults < world.max_faults
    /\ faults' = faults + 1
    /\ \/ \E p \in AlteredPairs(mail.pairs) : mail' = [mail EXCEPT !.pairs = p]
       \/ \E c \in AlteredCookies(mail.cookies) : mail' = [mail EXCEPT !.cookies = c]
       \/ /\ mail.headers # <<>>
          /\ mail' = [mail EXCEPT !.headers = @ \o @]
    /\ UNCHANGED <<hosts, clock, redis, starts, sessions, jar, answer, authenticated>>

\* Stored strings that the field cannot have.
Junk(f) ==
    {[binary |-> 0]} \cup
    (IF f \in Times \cup {"internal_user_id"}
     THEN {[word |-> "junk"], [num |-> -I32Max - 2], [num |-> LuaMax + 1], [num |-> U64Max + 1]}
     ELSE IF f \in Lookups \cup {"status"} THEN {[word |-> "junk"]} ELSE {})

Corrupted(value) ==
    {NotAHash,
     Hash([g \in DOMAIN value.fields \cup {"extra"} |->
             IF g = "extra" THEN [word |-> "junk"] ELSE value.fields[g]])}
    \cup {Hash([g \in DOMAIN value.fields \ {f} |-> value.fields[g]]) : f \in DOMAIN value.fields}
    \cup UNION {{[value EXCEPT !.fields[f] = v] : v \in Junk(f)} : f \in DOMAIN value.fields}

Corrupt(family) ==
    /\ redis[family] # None
    /\ faults < world.max_faults
    /\ faults' = faults + 1
    /\ redis[family].value.type = "hash"
    /\ \E v \in Corrupted(redis[family].value) : redis' = [redis EXCEPT ![family].value = v]
    /\ UNCHANGED <<hosts, clock, starts, sessions, jar, mail, answer, authenticated>>

\* The browser waits for as long as one of the lifetimes; Redis may already
\* have dropped what has expired.
Wait ==
    /\ mail # None
    /\ faults < world.max_faults
    /\ faults' = faults + 1
    /\ clock' \in {clock + HandoffTTL, clock + ExternalTTL, clock + SessionTTL}
    /\ \E gone \in SUBSET {f \in Family : redis[f] # None} :
          /\ \A f \in gone : redis[f].expireat <= clock'
          /\ redis' = [f \in Family |-> IF f \in gone THEN None ELSE redis[f]]
    /\ UNCHANGED <<hosts, starts, sessions, jar, mail, answer, authenticated>>

Next ==
    \/ StartFoundation \/ StartPortal
    \/ PortalLogin \/ FoundationLogin \/ GoogleConsent \/ GoogleAuthCallback
    \/ PortalCallback \/ ExchangeAuthHandoff \/ PortalSession
    \/ Browse \/ GetMe \/ PortalLogout \/ LogoutGet \/ LogoutPost
    \/ Alter \/ Wait
    \/ \E family \in Family : Corrupt(family)

Spec == Init /\ [][Next]_vars

-----------------------------------------------------------------------------
(***************************************************************************)
(* Properties.                                                             *)
(***************************************************************************)
Succeeded == answer.status \in {"none", "200", "204", "302", "303"}

\* What has to fit for a login to work, said without the services' checks:
\* the registration names the portal's id and the digest of its secret, the
\* credentials fit into an Authorization header, the registered URIs are web
\* addresses, Google names a person by an id of at most 255 bytes, and the
\* clock is in the range in which the scripts calculate.
Fits ==
    /\ world.service.service_id = Config.service_id
    /\ world.service.is_enabled /\ world.user_enabled
    /\ world.service.service_secret_sha256 = Digest(Config.service_secret)
    /\ world.service.secret_bytes = 32
    /\ 6 + Base64Padded(Config.service_id.bytes + 1 + Config.service_secret.bytes) <= 8192
    /\ \A uri \in {world.service.login_callback_uri, world.service.logout_return_uri} :
          \E u \in uri.url : u.scheme \in {"http", "https"} /\ u.host
    /\ \E id \in world.google_user_info.id : id.bytes \in 1..255
    /\ world.google_code.bytes # 0 /\ world.google_code.bytes <= 4096
    /\ clock \in 0..(LuaMax - SessionTTL)

\* Single sign-on is not used with a callback URI that has a query of its own.
NoQuery == \A u \in world.service.login_callback_uri.url : u.query = <<>>
Compatible ==
    Fits /\ (SessionReference \in jar[AUTH_SESSION] \/ jar[AUTH_SESSION] = {} \/ NoQuery)

\* The two services and the store understand each other: once both have
\* accepted their configuration, a journey whose configurations fit and whose
\* messages and rows nobody alters is never refused, through every value that
\* is generated, formatted, sent, validated, stored and parsed on the way.
JourneyIsUnderstood ==
    portal = "serving" /\ faults = 0 /\ Compatible => Succeeded

\* The person the portal's session stands for, and the time of the login, are
\* the ones of the authentication at Google, however the values travelled:
\* through two Lua scripts and two JSON codecs, or through an older session.
ValuesArrive ==
    \A s \in sessions : s.user = world.user /\ {s.at} = authenticated

\* After a login the foundation sends the browser to the registered callback
\* URI with the code and the state and nothing else.  The code does not: on
\* the single sign-on path login appends both to the query that the registered
\* URI has of its own (main.rs:369-376), which google_auth_callback removes.
OnlyCodeAndState ==
    mail # None /\ mail.at = "portal_callback" /\ faults = 0 =>
       [i \in DOMAIN mail.pairs |-> mail.pairs[i][1]] = <<"code", "state">>

Handled == mail # None /\ mail' # mail /\ faults' = faults

\* Cookies of the portal that a handler reads, and the headers it reads them in.
ReadCookies(at) ==
    CASE at = "portal_callback" -> {LOGIN_CTX}
      [] at = "me" -> {PORTAL_SESSION}
      [] at = "portal_logout" -> {PORTAL_SESSION, PORTAL_CSRF}
      [] OTHER -> {}

ReadHeaders(m) ==
    IF m.at = "portal_callback" /\ m.cookies # <<>> THEN m.cookies[1] ELSE CookiePairs(m.cookies)

Ambiguous(m) ==
    \/ \E i \in DOMAIN m.pairs : m.pairs[i][1] # "extra" /\ Repeats(m.pairs, m.pairs[i][1])
    \/ Len(m.headers) > 1
    \/ \E n \in ReadCookies(m.at) : Repeats(ReadHeaders(m), n)

\* A request in which a parameter, the Authorization or CSRF header, or a
\* cookie of the portal occurs twice where the handler reads it is refused by
\* every handler before it changes anything (serde, parse_callback_query, basic_credentials,
\* csrf_header_from_headers, fixed_reference_cookie_from_headers).
AmbiguousIsRefused ==
    [][Handled /\ Ambiguous(mail) => ~Succeeded' /\ UNCHANGED <<redis, starts, sessions>>]_vars

Decodes(family) == redis[family] # None /\ Decode(family, redis[family].value.fields) # {}

\* A row that the scripts or the Rust side cannot read.
Rejected(family) ==
    redis[family] # None /\ ~(LuaAccepts(family, redis[family].value) /\ Decodes(family))

\* The two differences between the readers: a script takes any bytes for a
\* text, and a u64 can be larger than a Lua number is exact.
Utf8(value) == \A f \in DOMAIN value.fields : DOMAIN value.fields[f] # {"binary"}
InLuaRange(value) ==
    \A f \in DOMAIN value.fields : DOMAIN value.fields[f] = {"num"} => value.fields[f].num <= LuaMax
Exact(value) == Utf8(value) /\ InLuaRange(value)

\* The rows on whose contents a handler grants something (a logout does not).
RestsOn(at, next) ==
    CASE at = "login" /\ next = "portal_callback" -> {"session"}
      [] at = "google_callback" -> {"external"}
      [] at = "exchange" -> {"handoff", "session"}
      [] OTHER -> {}

\* A script marks a row before Rust reads what it replied, so that a row in
\* which only Rust finds bytes it cannot read is used up.  With a claim nothing
\* comes of it; a logout is done, and only a return URI that cannot be read
\* turns its answer into a refusal.
UsedUpUnread(family) ==
    /\ ~Utf8(redis[family].value)
    /\ \/ /\ family = "external"
          /\ redis[family].value.fields.status = [word |-> "waiting"]
          /\ redis'[family] = WithStatus(family, "processing")[family]
          /\ \A f \in Family \ {family} : redis'[f] = redis[f]
          /\ ~Succeeded'
       \/ /\ family = "logout"
          /\ redis[family].value.fields.status = [word |-> "unused"]
          /\ redis'[family] = WithStatus(family, "used")[family]
          /\ redis'["session"] \in {redis["session"], None}
          /\ \A f \in Family \ {family, "session"} : redis'[f] = redis[f]
          /\ Succeeded' <=> DOMAIN redis[family].value.fields.logout_return_uri # {"binary"}

\* A row with missing, additional or impossible fields, or of another type, is
\* never altered by a handler, only deleted, but for the transactions that are
\* used up unread; and nothing is granted on the ground of a row that the Rust
\* side cannot decode.
CorruptRowIsInert ==
    [][/\ \A f \in Family : Rejected(f) /\ faults' = faults =>
             \/ redis'[f] = redis[f] \/ redis'[f] = None \/ redis'[f].key # redis[f].key
             \/ UsedUpUnread(f)
       /\ Handled /\ Succeeded' /\ answer' # answer =>
             \A f \in RestsOn(mail.at, IF mail' = None THEN "none" ELSE mail'.at) : Decodes(f)]_vars

\* A script gets past its checks of the row (a session row is asked for with
\* a handoff key that is taken, a handoff row by a service without a name).
ScriptReads(family, value) ==
    CASE family = "external" -> claim_script(value, clock) \in {0, 4}
      [] family = "session" -> issue_script(value, NotAHash, Forged, <<>>, clock) = 9
      [] family = "handoff" ->
            exchange_script(value, None, Forged, Empty, Forged, clock) \in {5, 6}
      [] family = "logout" -> logout_script(value, CsrfToken, clock) \in {0, 5, 8}

\* Every row is read in two languages.  Whatever has happened to it, the Rust
\* functions and the Lua scripts give the same verdict on it, with exactly two
\* exceptions: of the rows that Rust reads, the scripts reject those with a
\* number beyond 2^53 - 1, and of those that the scripts read, Rust rejects the
\* ones with bytes that are not UTF-8.
ReadersAgree ==
    \A f \in Family : redis[f] # None =>
       LET value == redis[f].value
           rust == ReadState(f, value, clock) = "Ok"
           lua == ScriptReads(f, value) IN
       /\ rust => (lua <=> InLuaRange(value))
       /\ lua => (rust <=> Utf8(value))

\* States as RedisState.tla has them, and rows.
AbstractState(family, s) ==
    CASE family = "external" -> [expires |-> s.expires_at, status |-> s.status]
      [] family = "session" ->
            [user |-> s.internal_user_id, at |-> s.authenticated_at, expires |-> s.expires_at]
      [] family = "handoff" ->
            [service |-> s.service_id, user |-> s.internal_user_id,
             session |-> s.common_session_lookup, challenge |-> s.code_challenge,
             at |-> s.authenticated_at, expires |-> s.expires_at, status |-> s.status]
      [] family = "logout" ->
            [csrf |-> s.csrf_lookup, expires |-> s.expires_at, status |-> s.status]

Stored(family) == The(Decode(family, redis[family].value.fields))
Abstract(family) == IF redis[family] = None THEN None ELSE AbstractState(family, Stored(family))
Value(family) == IF redis[family] = None THEN None ELSE redis[family].value

\* The scripts that use up what is stored: claim, logout and exchange.
UsingScriptsAgree ==
    /\ script_error(claim_script(Value("external"), clock)) = ClaimReply(Abstract("external"), clock)
    /\ \A csrf \in {CsrfToken, Forged} :
          script_error(logout_script(Value("logout"), csrf, clock))
             = LogoutReply(Abstract("logout"), csrf, clock)
    /\ redis["handoff"] # None =>
          \A service \in {Config.service_id, Forged}, verifier \in {"verifier", "forged"},
             lookup \in {Stored("handoff").common_session_lookup, Forged} :
             LET challenge == Digest(Reference(<<verifier>>))
                 code == exchange_script(Value("handoff"), At("session", lookup), lookup,
                                         service, challenge, clock)
                 reply == ExchangeReply(Abstract("handoff"),
                             IF At("session", lookup) = None THEN None ELSE Abstract("session"),
                             lookup, service, challenge, clock) IN
             IF reply = "SessionExpired" THEN code = 12 ELSE script_error(code) = reply

\* A handoff for the session s under SessionReference, and one that is wrong in
\* each of the comparisons that the scripts make.
HandoffsFor(s) ==
    LET right == NewHandoffState(world.service.service_id, Forged, SessionReference,
                    [user |-> s.internal_user_id, at |-> s.authenticated_at], clock + HandoffTTL) IN
    {right, [right EXCEPT !.common_session_lookup = Forged], [right EXCEPT !.internal_user_id = 0],
     [right EXCEPT !.authenticated_at = 0], [right EXCEPT !.expires_at = clock]}

\* The scripts that store a handoff: issue, for the session that is stored, and
\* create, for a new one, which may have expired already.
StoringScriptsAgree ==
    \A oldHandoff \in {None, NotAHash} :
       /\ \A h \in HandoffsFor(IF redis["session"] = None THEN NewSessionState ELSE Stored("session")) :
             LET reply == IssueSsoReply(Abstract("session"), oldHandoff, SessionReference,
                                        AbstractState("handoff", h), clock) IN
             script_error(issue_script(Value("session"), oldHandoff, SessionReference, Encode(h), clock))
                = IF reply = "SessionExpired" THEN "Expired" ELSE reply
       /\ \A oldSession \in {None, NotAHash},
             s \in {NewSessionState, [NewSessionState EXCEPT !.expires_at = clock]} :
             \A h \in HandoffsFor(s) :
                script_error(create_script(oldSession, oldHandoff, SessionReference, Encode(s),
                                           Encode(h), clock))
                   = CreateReply(oldSession, oldHandoff, SessionReference,
                                 AbstractState("session", s), AbstractState("handoff", h), clock)

\* On rows that are well formed, and at times in which they calculate, the five
\* scripts with all their format checks answer what RedisState.tla says of them
\* without: the abstraction on which AuthFoundation.tla and its proofs rest.
ScriptsAsInRedisState ==
    (\A f \in Family : redis[f] # None => Decodes(f) /\ Exact(redis[f].value)) =>
       /\ UsingScriptsAgree
       /\ clock \in 0..(LuaMax - SessionTTL) => StoringScriptsAgree
=============================================================================
