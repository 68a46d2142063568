---------------------------- MODULE StoredState ----------------------------
(***************************************************************************)
(* What redis_state.rs stores byte for byte: hashes whose fields are       *)
(* strings, written and read by Rust code and by five Lua scripts, each    *)
(* with its own idea of a well-formed row.  RedisState.tla takes the rows  *)
(* for well formed; here they may be anything.                             *)
(*                                                                         *)
(* A stored string is [num |-> n] for a decimal number, [lookup |-> r] for *)
(* the SHA-256 of a reference value in hexadecimal, [word |-> w] for a     *)
(* literal of the code, [text |-> t] for a text from outside, and          *)
(* [binary |-> ...] for bytes that are not UTF-8.                          *)
(***************************************************************************)
EXTENDS RedisState, Texts, TLC

CONSTANTS
    I32Max,     \* largest i32
    LuaMax      \* largest integer the scripts accept, 2^53 - 1

ASSUME WidthAssumption ==
    I32Max \in Nat /\ LuaMax \in Nat /\ U64Max \in Nat /\ I32Max < LuaMax /\ LuaMax < U64Max

\* What is absent is told from a key, its value, a row and a message by the
\* fields that these have.
ASSUME AbsentAssumption == DOMAIN None \cap {"key", "type", "expires", "at"} = {}

EXTERNAL_FIELDS ==
    {"service_id", "service_state", "handoff_code_challenge", "provider",
     "provider_verification_data", "created_at", "expires_at", "status"}
SESSION_FIELDS == {"internal_user_id", "authenticated_at", "created_at", "expires_at"}
HANDOFF_FIELDS ==
    {"service_id", "internal_user_id", "common_session_lookup", "code_challenge",
     "authenticated_at", "issued_at", "expires_at", "status"}
LOGOUT_FIELDS ==
    {"service_id", "logout_return_uri", "csrf_lookup", "created_at", "expires_at", "status"}

Fields == [external |-> EXTERNAL_FIELDS, session |-> SESSION_FIELDS,
           handoff |-> HANDOFF_FIELDS, logout |-> LOGOUT_FIELDS]
Family == DOMAIN Fields

Times == {"created_at", "expires_at", "authenticated_at", "issued_at"}
Lookups == {"common_session_lookup", "csrf_lookup"}

\* A key that is absent is None; one of another type has no fields.
Hash(f) == [type |-> "hash", fields |-> f]
NotAHash == [type |-> "string", fields |-> [f \in {} |-> None]]

-----------------------------------------------------------------------------
(***************************************************************************)
(* The Rust side.  A state is a record with the fields of its struct.      *)
(***************************************************************************)
is_lookup(v) == DOMAIN v = {"lookup"}
parse_u64(v) == DOMAIN v = {"num"} /\ v.num \in 0..U64Max
parse_i32(v) == DOMAIN v = {"num"} /\ v.num \in (-I32Max - 1)..I32Max

external_status == {"waiting", "processing"}
usage_status == {"unused", "used"}
Statuses(family) == IF family = "external" THEN external_status ELSE usage_status

\* encode_external, encode_session, encode_handoff, encode_logout
Encode(state) ==
    [f \in DOMAIN state |->
        CASE f \in Times \cup {"internal_user_id"} -> [num |-> state[f]]
          [] f \in Lookups -> [lookup |-> state[f]]
          [] f = "status" -> [word |-> state[f]]
          [] OTHER -> [text |-> state[f]]]

Parses(family, f, v) ==
    CASE f \in Times -> parse_u64(v)
      [] f = "internal_user_id" -> parse_i32(v)
      [] f \in Lookups -> is_lookup(v)
      [] f = "status" -> DOMAIN v = {"word"} /\ v.word \in Statuses(family)
      [] OTHER -> DOMAIN v # {"binary"}

validate_field_names(fields, expected) == DOMAIN fields = expected

\* decode_external, decode_session, decode_handoff, decode_logout
Decode(family, fields) ==
    IF /\ validate_field_names(fields, Fields[family])
       /\ \A f \in DOMAIN fields : Parses(family, f, fields[f])
    THEN {[f \in DOMAIN fields |-> LET v == fields[f] IN v[CHOOSE kind \in DOMAIN v : TRUE]]}
    ELSE {}

\* write_state: HSET merges the fields into what is there, and fails on a key
\* of another type; every failure is RedisFailure.
write_state(old, fields, expires_at, now) ==
    IF ~IsUnexpired(now, expires_at) \/ (old # None /\ old.type # "hash") THEN {}
    ELSE {Hash(IF old = None THEN fields ELSE fields @@ old.fields)}

\* write_external, write_session, write_handoff, write_logout
WriteState(old, state, now) == write_state(old, Encode(state), state.expires_at, now)

\* HGETALL fails on a key of another type; it cannot be decoded to strings
\* when a value is not UTF-8.
read_fields(value) ==
    IF value = None THEN "NotFound"
    ELSE IF value.type # "hash" \/ \E f \in DOMAIN value.fields : DOMAIN value.fields[f] = {"binary"}
         THEN "RedisFailure"
    ELSE "Ok"

\* read_external, read_session, read_handoff, read_logout
ReadState(family, value, now) ==
    IF read_fields(value) # "Ok" THEN read_fields(value)
    ELSE IF Decode(family, value.fields) = {} THEN "InvalidStoredState"
    ELSE IF ~IsUnexpired(now, value.fields.expires_at.num) THEN "Expired"
    ELSE "Ok"

-----------------------------------------------------------------------------
(***************************************************************************)
(* The Lua side.  A script answers a code; 0 is success.                   *)
(***************************************************************************)
LuaUint(v) == DOMAIN v = {"num"} /\ v.num \in 0..LuaMax

\* Mutant of LuaFormat: lookups are not checked.
LuaFormatWithoutLookups(f, v) ==
    CASE f \in Times -> LuaUint(v)
      [] f = "internal_user_id" -> parse_i32(v)
      [] OTHER -> TRUE

LuaFormat(f, v) ==
    CASE f \in Times -> LuaUint(v)
      [] f = "internal_user_id" -> parse_i32(v)
      [] f \in Lookups -> is_lookup(v)
      [] OTHER -> TRUE

\* TYPE, HLEN and the checks of the single fields.
LuaAccepts(family, value) ==
    /\ value.type = "hash"
    /\ DOMAIN value.fields = Fields[family]
    /\ \A f \in Fields[family] : LuaFormat(f, value.fields[f])

\* The checks of a handoff that is passed in ARGV.
LuaArguments(handoff) ==
    handoff.status = [word |-> "unused"] /\ \A f \in DOMAIN handoff : LuaFormat(f, handoff[f])

claim_script(value, now) ==
    IF value = None THEN 1
    ELSE IF ~LuaAccepts("external", value) THEN 3
    ELSE IF now >= value.fields.expires_at.num THEN 2
    ELSE IF value.fields.status = [word |-> "processing"] THEN 4
    ELSE IF value.fields.status # [word |-> "waiting"] THEN 3
    ELSE 0

SameLogin(a, b) ==
    /\ a.internal_user_id.num = b.internal_user_id.num
    /\ a.authenticated_at.num = b.authenticated_at.num

issue_script(sessionValue, oldHandoff, reference, handoff, now) ==
    IF sessionValue = None THEN 1
    ELSE IF ~LuaAccepts("session", sessionValue) THEN 3
    ELSE IF now >= sessionValue.fields.expires_at.num THEN 2
    ELSE IF oldHandoff # None THEN 9
    ELSE IF ~LuaArguments(handoff) THEN 3
    ELSE IF \/ handoff.common_session_lookup # [lookup |-> reference]
            \/ ~SameLogin(handoff, sessionValue.fields) THEN 3
    ELSE IF handoff.expires_at.num <= now THEN 2
    ELSE 0

create_script(oldSession, oldHandoff, reference, session, handoff, now) ==
    IF oldSession # None \/ oldHandoff # None THEN 9
    ELSE IF ~LuaAccepts("session", Hash(session)) \/ ~LuaArguments(handoff) THEN 3
    ELSE IF \/ handoff.common_session_lookup # [lookup |-> reference]
            \/ ~SameLogin(handoff, session) THEN 3
    ELSE IF session.expires_at.num <= now \/ handoff.expires_at.num <= now THEN 2
    ELSE 0

\* Mutant of exchange_script: the session is read without a look at created_at.
exchange_script_unchecked(value, sessionValue, lookup, service_id, challenge, now) ==
    LET created == [num |-> 0]
        session == IF sessionValue = None \/ "created_at" \notin DOMAIN sessionValue.fields
                   THEN sessionValue ELSE [sessionValue EXCEPT !.fields.created_at = created] IN
    IF value = None THEN 1
    ELSE IF ~LuaAccepts("handoff", value) THEN 3
    ELSE IF now >= value.fields.expires_at.num THEN 2
    ELSE IF value.fields.status = [word |-> "used"] THEN 5
    ELSE IF value.fields.status # [word |-> "unused"] THEN 3
    ELSE IF value.fields.service_id # [text |-> service_id] THEN 6
    ELSE IF value.fields.code_challenge # [text |-> challenge] THEN 7
    ELSE IF value.fields.common_session_lookup # [lookup |-> lookup] THEN 3
    ELSE IF session = None THEN 1
    ELSE IF ~LuaAccepts("session", session) THEN 3
    ELSE IF now >= session.fields.expires_at.num THEN 12
    ELSE IF ~SameLogin(value.fields, session.fields) THEN 3
    ELSE 0

\* lookup is common_session_lookup as it was read before the script.
exchange_script(value, sessionValue, lookup, service_id, challenge, now) ==
    IF value = None THEN 1
    ELSE IF ~LuaAccepts("handoff", value) THEN 3
    ELSE IF now >= value.fields.expires_at.num THEN 2
    ELSE IF value.fields.status = [word |-> "used"] THEN 5
    ELSE IF value.fields.status # [word |-> "unused"] THEN 3
    ELSE IF value.fields.service_id # [text |-> service_id] THEN 6
    ELSE IF value.fields.code_challenge # [text |-> challenge] THEN 7
    ELSE IF value.fields.common_session_lookup # [lookup |-> lookup] THEN 3
    ELSE IF sessionValue = None THEN 1
    ELSE IF ~LuaAccepts("session", sessionValue) THEN 3
    ELSE IF now >= sessionValue.fields.expires_at.num THEN 12
    ELSE IF ~SameLogin(value.fields, sessionValue.fields) THEN 3
    ELSE 0

\* Mutant of logout_script: the token is not compared.
logout_script_any_token(value, csrf, now) ==
    IF value = None THEN 1
    ELSE IF ~LuaAccepts("logout", value) THEN 3
    ELSE IF now >= value.fields.expires_at.num THEN 2
    ELSE IF value.fields.status = [word |-> "used"] THEN 5
    ELSE IF value.fields.status # [word |-> "unused"] THEN 3
    ELSE 0

logout_script(value, csrf, now) ==
    IF value = None THEN 1
    ELSE IF ~LuaAccepts("logout", value) THEN 3
    ELSE IF now >= value.fields.expires_at.num THEN 2
    ELSE IF value.fields.status = [word |-> "used"] THEN 5
    ELSE IF value.fields.status # [word |-> "unused"] THEN 3
    ELSE IF value.fields.csrf_lookup # [lookup |-> csrf] THEN 8
    ELSE 0

\* 12 is the {2} of EXCHANGE_HANDOFF_SCRIPT that deletes the session instead
\* of the handoff.
script_error(code) ==
    CASE code = 0 -> "Ok" [] code = 1 -> "NotFound" [] code \in {2, 12} -> "Expired"
      [] code = 3 -> "InvalidStoredState" [] code = 4 -> "AlreadyClaimed"
      [] code = 5 -> "AlreadyUsed" [] code = 6 -> "ServiceMismatch"
      [] code = 7 -> "ChallengeMismatch" [] code = 8 -> "CsrfMismatch"
      [] code = 9 -> "KeyConflict"

\* What CALLBACK_CLAIM_SCRIPT answers after its code, by position,
claim_reply(f) ==
    <<f.service_id, f.service_state, f.handoff_code_challenge, f.provider,
      f.provider_verification_data, f.created_at, f.expires_at, [word |-> "processing"]>>

\* and what claim_external_callback makes of it (reply_string wants UTF-8).
decode_claim(reply) ==
    Decode("external",
           [service_id |-> reply[1], service_state |-> reply[2],
            handoff_code_challenge |-> reply[3], provider |-> reply[4],
            provider_verification_data |-> reply[5], created_at |-> reply[6],
            expires_at |-> reply[7], status |-> reply[8]])

\* Mutant of exchange_reply: the time the code was issued is returned.
exchange_reply_issued(f) == [user |-> f.internal_user_id.num, at |-> f.issued_at.num]

\* What EXCHANGE_HANDOFF_SCRIPT answers after its code.
exchange_reply(f) == [user |-> f.internal_user_id.num, at |-> f.authenticated_at.num]

\* resolve_handoff_session_lookup: TYPE and HGET.
resolve_handoff_session_lookup(value) ==
    IF value = None THEN "NotFound"
    ELSE IF value.type # "hash" \/ "common_session_lookup" \notin DOMAIN value.fields
         THEN "InvalidStoredState"
    ELSE IF ~is_lookup(value.fields.common_session_lookup)
         THEN IF DOMAIN value.fields.common_session_lookup = {"binary"}
              THEN "RedisFailure" ELSE "InvalidStoredState"
    ELSE "Ok"
=============================================================================
