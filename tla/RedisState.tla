----------------------------- MODULE RedisState -----------------------------
(***************************************************************************)
(* The short-lived state that redis_state.rs keeps in Redis: the rows of   *)
(* the four key families, and what each of the five Lua scripts answers.   *)
(*                                                                         *)
(* A script runs atomically, so it is an operator from the rows it reads,  *)
(* its arguments and Redis TIME to the RedisStateError it is decoded to    *)
(* ("Ok" for {0}); AuthFoundation.tla applies the writes that go with the  *)
(* answer.  Rows are only ever written by this code, so they are well      *)
(* formed: the HLEN/TYPE/format checks of the scripts are left out, their  *)
(* cross-row consistency checks are kept.  created_at and issued_at are    *)
(* stored and never compared, so they are left out.                        *)
(***************************************************************************)
EXTENDS Naturals

CONSTANTS
    None,           \* no row under a key, no cookie
    Service,        \* ids of the registered web services
    Challenge,      \* PKCE S256 code challenges
    ServiceState,   \* opaque state values the services send with a login
    User,           \* internal user ids
    ExternalTTL,    \* EXTERNAL_AUTH_TRANSACTION_TTL_SECONDS
    SessionTTL,     \* COMMON_SESSION_TTL_SECONDS
    HandoffTTL,     \* AUTHENTICATION_HANDOFF_TTL_SECONDS
    LogoutTTL       \* COMMON_LOGOUT_TRANSACTION_TTL_SECONDS

ASSUME TTLAssumption ==
    /\ ExternalTTL \in Nat \ {0}
    /\ SessionTTL \in Nat \ {0}
    /\ HandoffTTL \in Nat \ {0}
    /\ LogoutTTL \in Nat \ {0}

ASSUME NoneAssumption == None \notin Service

(***************************************************************************)
(* Rows.  "ttl" records whether EXPIREAT has been applied to the key: HSET *)
(* alone leaves a key that Redis never expires by itself.  A reference     *)
(* value and its SHA-256 lookup name the same key, so "session" below is   *)
(* common_session_lookup and "csrf" is csrf_lookup.                        *)
(***************************************************************************)
ExternalRow ==
    [service : Service, state : ServiceState, challenge : Challenge,
     expires : Nat, status : {"waiting", "processing"}, ttl : BOOLEAN]

SessionRow == [user : User, at : Nat, expires : Nat, ttl : {TRUE}]

HandoffRow(Ref) ==
    [service : Service, user : User, session : Ref, challenge : Challenge,
     at : Nat, expires : Nat, status : {"unused", "used"}, ttl : {TRUE}]

LogoutRow(Ref) ==
    [service : Service, csrf : Ref, expires : Nat,
     status : {"unused", "used"}, ttl : BOOLEAN]

IsUnexpired(time, expires) == time < expires

\* Mutant of ClaimReply: a transaction that is being processed is claimed again.
ClaimReplyForgetful(row, time) ==
    IF row = None THEN "NotFound"
    ELSE IF time >= row.expires THEN "Expired"
    ELSE "Ok"

\* Mutant of ClaimReply: the expiry is left to the TTL of the key.
ClaimReplyTrustsTTL(row, time) ==
    IF row = None THEN "NotFound"
    ELSE IF row.status = "processing" THEN "AlreadyClaimed"
    ELSE "Ok"

(***************************************************************************)
(* CALLBACK_CLAIM_SCRIPT.                                                  *)
(***************************************************************************)
ClaimReply(row, time) ==
    IF row = None THEN "NotFound"
    ELSE IF time >= row.expires THEN "Expired"
    ELSE IF row.status = "processing" THEN "AlreadyClaimed"
    ELSE "Ok"

\* Mutant of IssueSsoReply: the session is used in the second it expires in.
IssueSsoReplyOffByOne(sessionRow, oldRow, key, newRow, time) ==
    IF sessionRow = None THEN "NotFound"
    ELSE IF time > sessionRow.expires THEN "SessionExpired"
    ELSE IF newRow.expires <= time THEN "Expired"
    ELSE "Ok"

\* Mutant of IssueSsoReply: the session that was read before is not looked at again.
IssueSsoReplyTrustsRead(sessionRow, oldRow, key, newRow, time) ==
    IF oldRow # None THEN "KeyConflict"
    ELSE IF newRow.expires <= time THEN "Expired"
    ELSE "Ok"

(***************************************************************************)
(* ISSUE_SSO_HANDOFF_SCRIPT: "SessionExpired" is the branch that also      *)
(* deletes the session; both expiries are decoded to Expired.              *)
(***************************************************************************)
IssueSsoReply(sessionRow, oldRow, key, newRow, time) ==
    IF sessionRow = None THEN "NotFound"
    ELSE IF time >= sessionRow.expires THEN "SessionExpired"
    ELSE IF oldRow # None THEN "KeyConflict"
    ELSE IF \/ newRow.session # key
            \/ newRow.user # sessionRow.user
            \/ newRow.at # sessionRow.at THEN "InvalidStoredState"
    ELSE IF newRow.expires <= time THEN "Expired"
    ELSE "Ok"

(***************************************************************************)
(* CREATE_SESSION_AND_HANDOFF_SCRIPT.                                      *)
(***************************************************************************)
CreateReply(oldSession, oldHandoff, key, newSession, newHandoff, time) ==
    IF oldSession # None \/ oldHandoff # None THEN "KeyConflict"
    ELSE IF \/ newHandoff.session # key
            \/ newHandoff.user # newSession.user
            \/ newHandoff.at # newSession.at THEN "InvalidStoredState"
    ELSE IF newSession.expires <= time \/ newHandoff.expires <= time THEN "Expired"
    ELSE "Ok"

\* Mutant of ExchangeReply: the status of the handoff is not looked at.
ExchangeReplyReuses(row, sessionRow, lookup, service, challenge, time) ==
    IF row = None \/ sessionRow = None THEN "NotFound"
    ELSE IF time >= row.expires THEN "Expired"
    ELSE IF time >= sessionRow.expires THEN "SessionExpired"
    ELSE "Ok"

\* Mutant of ExchangeReply: the PKCE challenge is not compared.
ExchangeReplyWithoutPkce(row, sessionRow, lookup, service, challenge, time) ==
    IF row = None \/ sessionRow = None THEN "NotFound"
    ELSE IF time >= row.expires THEN "Expired"
    ELSE IF row.status = "used" THEN "AlreadyUsed"
    ELSE IF row.service # service THEN "ServiceMismatch"
    ELSE "Ok"

\* Mutant of ExchangeReply: the session behind the handoff is not looked at.
ExchangeReplyIgnoresSession(row, sessionRow, lookup, service, challenge, time) ==
    IF row = None THEN "NotFound"
    ELSE IF time >= row.expires THEN "Expired"
    ELSE IF row.status = "used" THEN "AlreadyUsed"
    ELSE "Ok"

(***************************************************************************)
(* EXCHANGE_HANDOFF_SCRIPT: lookup is the session that was read with HGET  *)
(* before the script ran, sessionRow the row under it.                     *)
(***************************************************************************)
ExchangeReply(row, sessionRow, lookup, service, challenge, time) ==
    IF row = None THEN "NotFound"
    ELSE IF time >= row.expires THEN "Expired"
    ELSE IF row.status = "used" THEN "AlreadyUsed"
    ELSE IF row.service # service THEN "ServiceMismatch"
    ELSE IF row.challenge # challenge THEN "ChallengeMismatch"
    ELSE IF row.session # lookup THEN "InvalidStoredState"
    ELSE IF sessionRow = None THEN "NotFound"
    ELSE IF time >= sessionRow.expires THEN "SessionExpired"
    ELSE IF row.user # sessionRow.user \/ row.at # sessionRow.at THEN "InvalidStoredState"
    ELSE "Ok"

\* Mutant of LogoutReply: any well-formed CSRF token is accepted.
LogoutReplyWithoutToken(row, csrf, time) ==
    IF row = None THEN "NotFound"
    ELSE IF time >= row.expires THEN "Expired"
    ELSE IF row.status = "used" THEN "AlreadyUsed"
    ELSE "Ok"

(***************************************************************************)
(* COMPLETE_COMMON_LOGOUT_SCRIPT.                                          *)
(***************************************************************************)
LogoutReply(row, csrf, time) ==
    IF row = None THEN "NotFound"
    ELSE IF time >= row.expires THEN "Expired"
    ELSE IF row.status = "used" THEN "AlreadyUsed"
    ELSE IF row.csrf # csrf THEN "CsrfMismatch"
    ELSE "Ok"

(***************************************************************************)
(* EXPIREAT on a key that is gone does nothing; with a moment that has     *)
(* already come it deletes the key.                                        *)
(***************************************************************************)
ExpireAt(row, time) ==
    IF row = None THEN None
    ELSE IF row.expires <= time THEN None
    ELSE [row EXCEPT !.ttl = TRUE]

(***************************************************************************)
(* Redis expiry of a key that has a TTL.  In the second of its expiry the  *)
(* key may or may not be gone yet (MayExpire); once the clock has passed   *)
(* that second it is never visible again (Survive).                        *)
(***************************************************************************)
MayExpire(row, time) == row # None /\ row.ttl /\ row.expires <= time

Survive(row, time) ==
    IF row # None /\ row.ttl /\ row.expires < time THEN None ELSE row
=============================================================================
