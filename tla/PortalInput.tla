---------------------------- MODULE PortalInput ----------------------------
(***************************************************************************)
(* What the portal backend accepts: its configuration, the query and the   *)
(* cookies of /auth/callback, the cookies and the header of /api/me and    *)
(* /logout.  A Cookie header is a sequence of <<name, value>> pairs; the   *)
(* name "broken" stands for a pair that does not parse.                    *)
(***************************************************************************)
EXTENDS Texts
LOCAL INSTANCE SequencesExt

POST_LOGIN_PATH_MAX_BYTES == 2048

\* 32 random bytes, or a SHA-256 digest, in URL_SAFE_NO_PAD.
random_reference(is) == Text(is, Base64NoPad(32), <<"upper", "digit">>, Base64url)
sha256_base64url(value) == random_reference(<<"sha256">> \o value.is)

\* is_fixed_reference
is_fixed_reference(value) == value.bytes = 43 /\ value.chars \subseteq Base64url

\* validate_post_login_path
validate_post_login_path(value) ==
    /\ value.bytes \in 1..POST_LOGIN_PATH_MAX_BYTES
    /\ value.start[1] = "slash"
    /\ value.start # <<"slash", "slash">>
    /\ "backslash" \notin value.chars

\* Mutant of parse_callback_query: the last of several values counts.
parse_callback_query_last(query) ==
    LET last(name) == CHOOSE i \in Occurs(query, name) : \A j \in Occurs(query, name) : j <= i IN
    IF Occurs(query, "code") = {} \/ Occurs(query, "state") = {} THEN {}
    ELSE {[code |-> query[last("code")][2], state |-> query[last("state")][2]]}

\* parse_callback_query: code and state once each, and nothing else.
parse_callback_query(query) ==
    LET code == Field(query, "code")
        state == Field(query, "state") IN
    IF /\ Len(query) = 2 /\ Once(query, "code") /\ Once(query, "state")
       /\ is_fixed_reference(code) /\ is_fixed_reference(state)
    THEN {[code |-> code, state |-> state]} ELSE {}

\* The cookie of that name in a header in which every pair parses.
cookie_value(header, name) ==
    IF /\ Occurs(header, "broken") = {} /\ Once(header, name)
       /\ is_fixed_reference(Field(header, name))
    THEN {Field(header, name)} ELSE {}

\* The pairs of all Cookie headers, in their order; a browser sends none or one.
CookiePairs(headers) ==
    CASE headers = <<>> -> <<>>
      [] Len(headers) = 1 -> headers[1]
      [] OTHER -> FlattenSeq(headers)

\* fixed_reference_cookie_from_headers reads all Cookie headers together,
fixed_reference_cookie_from_headers(headers, name) ==
    cookie_value(CookiePairs(headers), name)

\* and login_context_from_cookie_header the first of them (the warp filter
\* header::optional("cookie") passes on no other).
login_context_from_cookie_header(headers) ==
    IF headers = <<>> THEN {} ELSE cookie_value(headers[1], "__Host-portal_login_ctx")

\* csrf_header_from_headers
csrf_header_from_headers(values) ==
    IF Len(values) = 1 /\ is_fixed_reference(values[1]) THEN {values[1]} ELSE {}

\* auth_foundation_endpoint: path, query and fragment are replaced.
auth_foundation_endpoint(base_url) == Url(base_url.scheme, base_url.host, <<>>)

-----------------------------------------------------------------------------
(***************************************************************************)
(* AppConfig::from_env.  An environment variable is absent, not Unicode,   *)
(* or a text.                                                              *)
(***************************************************************************)
validate_service_id_of_portal(value) ==
    /\ value.bytes \in 1..64
    /\ value.start[1] \in ServiceIdStart
    /\ value.chars \subseteq ServiceIdChar

validate_service_secret(value) == value.bytes # 0

parse_auth_foundation_base_url(value) ==
    {u \in value.url : u.scheme \in {"http", "https"} /\ u.host}

\* Mutant of capacity_from_env: a capacity of zero is accepted.
capacity_from_env_zero(variable, default) ==
    IF variable.set = "absent" THEN {default}
    ELSE {n \in variable.text.num : n \in 0..U64Max}

\* capacity_from_env, parse_capacity
capacity_from_env(variable, default) ==
    IF variable.set = "absent" THEN {default}
    ELSE IF variable.set = "not_unicode" THEN {}
    ELSE {n \in variable.text.num : n \in 1..U64Max}

PortalVariables ==
    {"PORTAL_SERVICE_ID", "PORTAL_SERVICE_SECRET", "PORTAL_AUTH_FOUNDATION_BASE_URL",
     "PORTAL_LOGIN_START_CAPACITY", "PORTAL_LOCAL_SESSION_CAPACITY", "PORT"}
RequiredByPortal == PortalVariables \
    {"PORTAL_LOGIN_START_CAPACITY", "PORTAL_LOCAL_SESSION_CAPACITY", "PORT"}

portal_from_env(env) ==
    IF /\ \A name \in RequiredByPortal : env[name].set = "text"
       /\ validate_service_id_of_portal(env.PORTAL_SERVICE_ID.text)
       /\ validate_service_secret(env.PORTAL_SERVICE_SECRET.text)
    THEN {[service_id |-> env.PORTAL_SERVICE_ID.text,
           service_secret |-> env.PORTAL_SERVICE_SECRET.text,
           base_url |-> u, login_start_capacity |-> n, local_session_capacity |-> k] :
             u \in parse_auth_foundation_base_url(env.PORTAL_AUTH_FOUNDATION_BASE_URL.text),
             n \in capacity_from_env(env.PORTAL_LOGIN_START_CAPACITY, 10000),
             k \in capacity_from_env(env.PORTAL_LOCAL_SESSION_CAPACITY, 50000)}
    ELSE {}

\* What the process says when it does not start.  A required variable that is
\* not Unicode counts as missing; they are looked at in this order.
ConfigError(env) ==
    LET missing(name) == env[name].set # "text" IN
    IF missing("PORTAL_SERVICE_ID") THEN "MissingEnvironment"
    ELSE IF ~validate_service_id_of_portal(env.PORTAL_SERVICE_ID.text) THEN "InvalidEnvironment"
    ELSE IF missing("PORTAL_SERVICE_SECRET") THEN "MissingEnvironment"
    ELSE IF ~validate_service_secret(env.PORTAL_SERVICE_SECRET.text) THEN "InvalidEnvironment"
    ELSE IF missing("PORTAL_AUTH_FOUNDATION_BASE_URL") THEN "MissingEnvironment"
    ELSE "InvalidEnvironment"

\* The port to listen on; what is not a u16 counts as absent.
port_from_env(variable) ==
    IF variable.set = "text" /\ variable.text.num \cap 0..65535 # {}
    THEN variable.text.num ELSE {3000}

\* main; ports are the ones that can be bound.
portal_main(env, ports) ==
    IF portal_from_env(env) = {} THEN ConfigError(env)
    ELSE IF port_from_env(env.PORT) \cap ports = {} THEN "AddressInUse"
    ELSE "serving"
=============================================================================
