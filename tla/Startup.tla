------------------------------ MODULE Startup ------------------------------
(***************************************************************************)
(* How the authentication foundation starts: AuthFoundationConfig and      *)
(* main.  The portal's configuration is in PortalInput.tla.                *)
(***************************************************************************)
EXTENDS Texts

RequiredByFoundation ==
    {"GOOGLE_CLIENT_ID", "GOOGLE_CLIENT_SECRET", "GOOGLE_REDIRECT_URI", "REDIS_URL",
     "PGHOST", "PGPORT", "PGDATABASE", "PGUSER", "PGPASSWORD"}

\* Set, Unicode, and not only white space.
required_nonempty_env(variable) ==
    {t \in {variable.text} : variable.set = "text" /\ ~(t.chars \subseteq {"space"})}

Require == Plain(<<"require">>, 7)

PgSslMode(variable) ==
    IF variable.set = "absent" THEN {"Prefer"}
    ELSE IF variable.set = "text" /\ variable.text = Require THEN {"Require"}
    ELSE {}

foundation_from_env(env) ==
    /\ \A name \in RequiredByFoundation : required_nonempty_env(env[name]) # {}
    /\ \E port \in env.PGPORT.text.num : port \in 0..65535
    /\ PgSslMode(env.PGSSLMODE) # {}

(***************************************************************************)
(* main up to bind.  reachable is what answers at start: PostgreSQL, Redis *)
(* and the port to listen on; every failure ends the process.              *)
(***************************************************************************)
foundation_main(env, reachable) ==
    IF ~foundation_from_env(env) THEN "InvalidConfiguration"
    ELSE IF "postgres" \notin reachable THEN "PostgresUnreachable"
    ELSE IF ~\E u \in env.REDIS_URL.text.url : u.scheme = "redis" THEN "InvalidRedisUrl"
    ELSE IF "redis" \notin reachable THEN "RedisUnreachable"
    ELSE IF env.GOOGLE_REDIRECT_URI.text.url = {} THEN "InvalidRedirectUrl"
    ELSE IF "port" \notin reachable THEN "AddressInUse"
    ELSE "serving"
=============================================================================
