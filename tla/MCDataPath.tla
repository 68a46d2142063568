----------------------------- MODULE MCDataPath -----------------------------
(***************************************************************************)
(* Worlds for DataPath.tla: one in which everything fits, and one for each *)
(* way in which a single value differs from it, at the limits the code     *)
(* names and one beyond.                                                   *)
(***************************************************************************)
EXTENDS DataPath

MCNone == [absent |-> TRUE]

Given(t) == [set |-> "text", text |-> t]
Absent == [set |-> "absent", text |-> Empty]
NotUnicode == [set |-> "not_unicode", text |-> Empty]

Blank == Text(<<"blank">>, 3, <<"space", "space">>, {"space"})
Word == Plain(<<"word">>, 12)
WebLink(is, query) == Link(is, Url("https", TRUE, query))
NotRedis == WebLink(<<"not_redis">>, <<>>)
PortalId == Plain(<<"portal-dev">>, 10)
Secret == Plain(<<"secret">>, 32)

FoundationEnv ==
    [name \in RequiredByFoundation \cup {"PGSSLMODE"} |->
       CASE name = "PGPORT" -> Given(Number(5432))
         [] name = "PGSSLMODE" -> Absent
         [] name = "REDIS_URL" -> Given(Link(<<"redis">>, Url("redis", TRUE, <<>>)))
         [] name = "GOOGLE_REDIRECT_URI" -> Given(WebLink(<<"redirect">>, <<>>))
         [] OTHER -> Given(Word)]

PortalEnv ==
    [PORTAL_SERVICE_ID |-> Given(PortalId),
     PORTAL_SERVICE_SECRET |-> Given(Secret),
     PORTAL_AUTH_FOUNDATION_BASE_URL |-> Given(WebLink(<<"base">>, <<>>)),
     PORTAL_LOGIN_START_CAPACITY |-> Absent,
     PORTAL_LOCAL_SESSION_CAPACITY |-> Absent,
     PORT |-> Absent]

Standard ==
    [fenv |-> FoundationEnv, penv |-> PortalEnv,
     service |->
       [service_id |-> PortalId, is_enabled |-> TRUE, secret_bytes |-> 32,
        service_secret_sha256 |-> Digest(Secret),
        login_callback_uri |-> WebLink(<<"callback">>, <<>>),
        logout_return_uri |-> WebLink(<<"return">>, <<>>)],
     google_code |-> Plain(<<"google_code">>, 73),
     google_user_info |->
       [id |-> {Plain(<<"subject">>, 21)}, email |-> {Word}, verified_email |-> {TRUE},
        name |-> {Word}, picture |-> {}],
     user |-> 7, user_enabled |-> TRUE, clock |-> 1000, max_faults |-> 1]

WithVariable(env, name, values) == {[env EXCEPT ![name] = v] : v \in values}

FoundationEnvs ==
    UNION {WithVariable(FoundationEnv, name, {Absent, NotUnicode, Given(Blank)}) :
             name \in RequiredByFoundation}
    \cup WithVariable(FoundationEnv, "PGPORT",
            {Given(Word), Given(Number(-1)), Given(Number(0)), Given(Number(65535)), Given(Number(65536))})
    \cup WithVariable(FoundationEnv, "PGSSLMODE",
            {Given(Require), Given(Word), Given(Empty), NotUnicode})
    \cup WithVariable(FoundationEnv, "REDIS_URL", {Given(Word), Given(NotRedis)})
    \cup WithVariable(FoundationEnv, "GOOGLE_REDIRECT_URI", {Given(Word)})

PortalEnvs ==
    UNION {WithVariable(PortalEnv, name, {Absent, NotUnicode, Given(Empty)}) :
             name \in PortalVariables}
    \cup WithVariable(PortalEnv, "PORTAL_SERVICE_ID",
            {Given(Plain(<<"other">>, 5)), Given(Plain(<<"long">>, 65)),
             Given(Text(<<"-portal">>, 7, <<"dash", "lower">>, ServiceIdChar)),
             Given(Text(<<"Portal">>, 6, <<"upper", "lower">>, {"upper", "lower"}))})
    \cup WithVariable(PortalEnv, "PORTAL_AUTH_FOUNDATION_BASE_URL",
            {Given(Word), Given(Link(<<"ftp">>, Url("ftp", TRUE, <<>>))),
             Given(Link(<<"no_host">>, Url("https", FALSE, <<>>))),
             Given(WebLink(<<"base">>, <<<<"existing", Word>>>>))})
    \cup WithVariable(PortalEnv, "PORT", {Given(Word), Given(Number(8081)), Given(Number(65536))})
    \cup UNION {WithVariable(PortalEnv, name,
                   {Given(Word), Given(Number(0)), Given(Number(1)), Given(Number(U64Max + 1))}) :
                  name \in {"PORTAL_LOGIN_START_CAPACITY", "PORTAL_LOCAL_SESSION_CAPACITY"}}

\* The id or the secret that both sides agree on.
Agreed(id, secret) ==
    [Standard EXCEPT !.penv.PORTAL_SERVICE_ID = Given(id), !.penv.PORTAL_SERVICE_SECRET = Given(secret),
                     !.service.service_id = id, !.service.service_secret_sha256 = Digest(secret)]

Registrations ==
    {[Standard.service EXCEPT !.is_enabled = FALSE],
     [Standard.service EXCEPT !.secret_bytes = 31],
     [Standard.service EXCEPT !.service_secret_sha256 = Digest(Word)]}
    \cup {[Standard.service EXCEPT !.login_callback_uri = uri] :
            uri \in {Word, Link(<<"ftp">>, Url("ftp", TRUE, <<>>)),
                     WebLink(<<"callback">>, <<<<"existing", Word>>>>)}}
    \cup {[Standard.service EXCEPT !.logout_return_uri = uri] :
            uri \in {Word, WebLink(<<"return">>, <<<<"existing", Word>>>>)}}

\* Before the epoch, on both sides of the last second in which the scripts can
\* calculate the end of a session, and close to the last second of a u64.
OtherClocks ==
    {-1, LuaMax - SessionTTL, LuaMax - SessionTTL + 1, U64Max - SessionTTL + 1, U64Max - 100}

MCWorlds ==
    {[Standard EXCEPT !.max_faults = 2],
     [Standard EXCEPT !.user_enabled = FALSE], [Standard EXCEPT !.user = I32Max],
     Agreed(Plain(<<"id64">>, 64), Secret),
     Agreed(Text(<<"0_-">>, 3, <<"digit", "dash">>, {"digit", "dash"}), Secret),
     Agreed(PortalId, Plain(<<"secret6127">>, 6127)),
     Agreed(PortalId, Plain(<<"secret6128">>, 6128))}
    \cup {[Standard EXCEPT !.clock = c] : c \in OtherClocks}
    \cup {[Standard EXCEPT !.fenv = e, !.max_faults = 0] : e \in FoundationEnvs}
    \cup {[Standard EXCEPT !.penv = e, !.max_faults = 0] : e \in PortalEnvs}
    \cup {[Standard EXCEPT !.service = r] : r \in Registrations}
    \cup {[Standard EXCEPT !.google_code = c] :
            c \in {Empty, Plain(<<"code4096">>, 4096), Plain(<<"code4097">>, 4097)}}
    \cup {[Standard EXCEPT !.google_user_info.id = i] :
            i \in {{}, {Empty}, {Plain(<<"subject255">>, 255)}, {Plain(<<"subject256">>, 256)}}}
    \cup {[Standard EXCEPT !.google_user_info.email = {Empty}, !.google_user_info.name = {Blank},
                           !.google_user_info.verified_email = {}]}
=============================================================================
