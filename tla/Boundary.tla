------------------------------ MODULE Boundary ------------------------------
(***************************************************************************)
(* What the authentication foundation accepts: the boundary functions of   *)
(* auth_foundation.rs, the input checks of main.rs and the service         *)
(* authentication of postgres.rs.  The callers only ask whether a check    *)
(* succeeds, so the two InputBoundaryErrors are not told apart.            *)
(***************************************************************************)
EXTENDS Texts

SERVICE_ID_MAX_BYTES == 64
SERVICE_STATE_MAX_BYTES == 256
OAUTH_STATE_BYTES == 43
OAUTH_CODE_MAX_BYTES == 4096
PKCE_VERIFIER_MIN_BYTES == 43
PKCE_VERIFIER_MAX_BYTES == 128
PROVIDER_MAX_BYTES == 16
SUBJECT_MAX_BYTES == 255
AUTHORIZATION_HEADER_MAX_BYTES == 8192

validate_max_bytes(value, max) == value.bytes <= max

validate_nonempty_max_bytes(value, max) == value.bytes # 0 /\ value.bytes <= max

validate_ascii_byte_range(value, min, max) ==
    value.bytes \in min..max /\ value.chars \subseteq Ascii

validate_fixed_reference_value(value) ==
    value.bytes = OAUTH_STATE_BYTES /\ value.chars \subseteq Base64url

validate_service_id(value) ==
    /\ validate_nonempty_max_bytes(value, SERVICE_ID_MAX_BYTES)
    /\ value.start[1] \in ServiceIdStart
    /\ value.chars \subseteq ServiceIdChar

pkce_s256_challenge(verifier) ==
    IF validate_ascii_byte_range(verifier, PKCE_VERIFIER_MIN_BYTES, PKCE_VERIFIER_MAX_BYTES)
    THEN {Digest(verifier)} ELSE {}

\* A clock before the Unix epoch is a negative time.
unix_seconds(time) == {s \in {time} : s >= 0}

checked_expires_at(now, ttl_seconds) == {e \in {now + ttl_seconds} : e <= U64Max}

-----------------------------------------------------------------------------
LoginQuery == {"service_id", "state", "code_challenge", "code_challenge_method"}
CallbackQuery == {"code", "state"}
HandoffExchangeRequest == {"code", "code_verifier"}
HandoffExchangeResponse == {"internal_user_id", "authenticated_at"}
LogoutQuery == {"service_id"}
LogoutForm == {"logout_reference", "csrf_token"}

S256 == Text(<<"S256">>, 4, <<"upper", "digit">>, {"upper", "digit"})

login_input_is_valid(query) ==
    /\ validate_service_id(Field(query, "service_id"))
    /\ validate_nonempty_max_bytes(Field(query, "state"), SERVICE_STATE_MAX_BYTES)
    /\ validate_fixed_reference_value(Field(query, "code_challenge"))
    /\ Field(query, "code_challenge_method") = S256

callback_input_is_valid(query) ==
    /\ validate_nonempty_max_bytes(Field(query, "code"), OAUTH_CODE_MAX_BYTES)
    /\ validate_fixed_reference_value(Field(query, "state"))

exchange_input_is_valid(body) ==
    /\ validate_fixed_reference_value(Field(body, "code"))
    /\ pkce_s256_challenge(Field(body, "code_verifier")) # {}

valid_callback_url(uri) == {u \in uri.url : u.scheme \in {"http", "https"} /\ u.host}

(***************************************************************************)
(* An Authorization header: its scheme, whether the rest is Base64 of      *)
(* UTF-8, and what that decodes to, split at the first colon (id is empty  *)
(* when there is none).                                                    *)
(***************************************************************************)
Authorization(scheme, decodes, id, secret) ==
    [scheme |-> scheme, decodes |-> decodes, id |-> id, secret |-> secret,
     bytes |-> 6 + Base64Padded(id.bytes + 1 + secret.bytes)]

basic_credentials(values) ==
    {v \in {values[i] : i \in DOMAIN values} :
        /\ Len(values) = 1
        /\ v.bytes <= AUTHORIZATION_HEADER_MAX_BYTES
        /\ v.scheme = "Basic" /\ v.decodes /\ v.id.bytes # 0}

\* The only row of registered_web_services, if it is the one asked for.
read_registered_service(row, service_id) == {r \in {row} : r.service_id = service_id}

\* service_secret_sha256 is bytea of any length.
stored_secret_digest(row) == {d \in {row.service_secret_sha256} : row.secret_bytes = 32}

authenticate_service(row, service_id, presented_service_secret) ==
    IF read_registered_service(row, service_id) = {} THEN "ServiceNotFound"
    ELSE IF ~row.is_enabled THEN "ServiceDisabled"
    ELSE IF stored_secret_digest(row) = {} THEN "StoredSecretInvalidLength"
    ELSE IF Digest(presented_service_secret) \notin stored_secret_digest(row)
         THEN "ServiceSecretMismatch"
    ELSE "Ok"

-----------------------------------------------------------------------------
NonEmpty(option) == {t \in option : t.bytes # 0}
NonBlank(option) == {t \in option : ~(t.chars \subseteq {"space"})}

Google == Plain(<<"google">>, 6)

\* Google's answer as JSON: everything but the id may be missing.
GoogleUserInfo(body) == {info \in {body} : info.id # {}}

EmailVerification(verified_email) ==
    IF verified_email = {} THEN "Unknown"
    ELSE IF TRUE \in verified_email THEN "Verified" ELSE "Unverified"

\* NormalizedExternalIdentity::validate
identity_is_valid(identity) ==
    /\ validate_nonempty_max_bytes(identity.provider, PROVIDER_MAX_BYTES)
    /\ validate_nonempty_max_bytes(identity.subject, SUBJECT_MAX_BYTES)

normalize_google_user_info(info) ==
    LET identities ==
          {[provider |-> Google, subject |-> id, email |-> NonEmpty(info.email),
            email_verification |-> EmailVerification(info.verified_email),
            display_name |-> NonBlank(info.name), picture_url |-> NonEmpty(info.picture)] :
              id \in info.id} IN
    {i \in identities : identity_is_valid(i)}
=============================================================================
