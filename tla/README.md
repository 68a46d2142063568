# TLA+ models of the common authentication foundation and the portal

This directory is a verification development of this repository: TLA+ modules
for its stateful parts, TLC configurations that check them on small instances,
and TLAPS proofs that hold for every instance. `PROJECT.json` lists the runs,
the correspondence of definitions to source lines, the hazards and the theorems.

## 1. Inventory

| Component | State | Operations | Talks to |
|---|---|---|---|
| Auth foundation handlers (`rust-auth0-service/src/main.rs`) | none of their own; locals of each request between awaits | `GET /auth/login`, `GET /auth/google/callback`, `POST /auth/handoffs/exchange`, `GET`/`POST /auth/logout` | Redis, PostgreSQL, Google, browsers, services |
| Short-lived state (`redis_state.rs`) | hashes `auth:external:*`, `auth:session:*`, `auth:handoff:*`, `auth:logout:*`, each with `expires_at` and, once `EXPIREAT` has run, a TTL | five Lua scripts, `write_state` (HSET, then EXPIREAT), `read_session`, `resolve_handoff_session_lookup` (TYPE, then HGET) | Redis |
| Service registry (`postgres.rs`) | `registered_web_services` | lookups, `authenticate_service` | PostgreSQL |
| Identity resolution (`postgres.rs`) | `internal_users`, `external_identities` | `resolve_external_identity`, `create_external_identity` | PostgreSQL |
| Boundary functions (`auth_foundation.rs`) | none | reference values, PKCE, expiry arithmetic, input limits | – |
| Configuration and start of both services | – | `AuthFoundationConfig::from_env`, `AppConfig::from_env`, the two `main`s | environment, PostgreSQL, Redis |
| Redis deployment (`redis/create_redis.yaml`) | a master, replicas, Sentinel | replication without acknowledgement, failover | – |
| Portal backend (`portal_backend/src/main.rs`) | two maps in memory behind one mutex: `LoginStart`, `LocalSession`; three cookies in the browser | `GET /login`, `GET /auth/callback`, `GET /api/me`, `POST /logout`, a cleanup task | auth foundation, browsers |
| Portal frontend, migrations, cutover scripts, manifests | – | – | – |

A login goes: portal `/login` (LoginStart, context cookie) → foundation
`/auth/login` → Google → foundation callback (session, handoff code) → portal
`/auth/callback` (claims the LoginStart, exchanges the code server to server,
creates a LocalSession). A later login finds the foundation's session cookie and
gets a code without Google (single sign-on). Logout exists twice: the portal
drops its LocalSession, the foundation its common session.

What is hard: requests interleave at every await; Redis scripts are atomic but
what surrounds them is not; keys expire between two commands; there are two
clocks; replies are lost after they took effect; processes die between two
storage calls; first logins race in a unique index; the portal forgets
everything on a restart while browsers keep their cookies; a failover loses
acknowledged writes; one row is read by Rust and by Lua, and one value is
formatted and checked on both sides of an interface. Section `hazards` of
`PROJECT.json` lists each at its line with the properties that cover it.

What makes the parts correct:

- foundation: each OAuth state, code and logout form works once; a code stands
  for a real Google authentication, for the service and PKCE challenge of the
  login it answers; nothing is used past its lifetime; logout is final;
- identities: one user per external identity, for good, whoever wins the race;
- portal: one exchange per LoginStart; a browser gets the session of its own
  login; capacities and lifetimes hold and valid records are not dropped;
- together: services whose configurations fit never refuse each other's values,
  what is ambiguous or corrupt grants nothing, and user and time of
  authentication arrive at the portal as Google's answer gave them.

## 2. Modules

| Module | Models |
|---|---|
| `RedisState` | rows, and the answer of each Lua script as an operator of the rows it reads, its arguments and Redis `TIME` |
| `AuthFoundation` | the five handlers as concurrent requests over Redis, the registry and the users; EXTENDS `RedisState` |
| `MCAuthFoundation` | `AuthFoundation` with the symmetry of requests of one kind, for safety runs |
| `SsoContract` | abstract: sessions open once and close for good, codes are issued once and redeemed at most once while their session is open |
| `SsoContractRefinement` | the mapping under which `AuthFoundation` implements `SsoContract` |
| `AuthFoundationProofs` | inductive invariant of `AuthFoundation`; one-shot values and logout |
| `AuthFoundationOriginProofs` | where rows and local values come from; what an exchange answers, and lifetimes |
| `SsoContractProofs` | that `AuthFoundation` implements `SsoContract`, step by step |
| `IdentityStore` | concurrent `resolve_external_identity` calls, one action per query |
| `IdentityStoreProofs` | inductive invariant and theorems of `IdentityStore` |
| `PortalBackend` | portal requests, the two maps, browsers' cookies, cleanup, restart |
| `PortalBackendProofs` | inductive invariant and theorems of `PortalBackend` |
| `AuthFoundationMixes` | several small workloads of `AuthFoundation` in one state space; what disabling promises |
| `AuthFoundationMixesProofs` | that the workloads are behaviours of `AuthFoundation`; that the disabled get nothing |
| `RedisFailover` | `AuthFoundation` on a Redis whose promoted replica has lost writes |
| `RedisFailoverProofs` | inductive invariant of `RedisFailover`; what a failover can and cannot cost |
| `MCRedisFailover` | `RedisFailover` under such workloads, with symmetry |
| `Texts` | strings by length, kinds of characters and what they parse to; queries, forms and cookies |
| `Boundary` | the input checks of the foundation, service authentication, Google's answer |
| `PortalInput` | the portal's configuration and its checks of queries, cookies and headers |
| `Startup` | the foundation's configuration and `main` |
| `StoredState` | rows field by field, their Rust encoders and decoders, the Lua scripts with every format check |
| `DataPath` | one journey through both services with the values of the five modules above |
| `MCDataPath` | the worlds in which the journey takes place |
| `DataPathProofs` | inductive invariant of `DataPath`; both readers of a row, corrupt rows, ambiguous requests, what arrives; the stages of an undisturbed journey, in which nothing is refused |

Operators whose comment begins "Mutant of" are not part of any specification.
They are plausible mistakes in the definition they precede; each property of a
passing run is violated when the mutant takes that definition's place.

### AuthFoundation and RedisState

A request runs its handler once. `pc[r]` is the await it stands at, `inp[r]`
what it presented, `loc[r]` the locals that survive an await (the clock reading,
the claimed transaction, the user and authentication time, the session lookup),
`resp[r]` its response. One action is the code from one await to the next and
ends with the effect of the awaited call; `LoginStart`, for instance, is `login`
up to its first Redis command: it has the registry lookup and the clock reading
that follows in one step. A service switched off between the two is in the model
switched off just after them; `DisabledGetNothing` is about requests begun later
still, and no lifetime depends on the registry. `took[r]` is a history variable: the Redis time
at which the request's script took effect.

Random values are 256 bits, so each is named after the request that drew it; a
reference value and its SHA-256 lookup name the same key. A PKCE verifier is
named by its S256 challenge. The outside world presents any value it was sent,
to any request, any number of times, or a forged one (`Forged`): duplicated
redirects, several browsers, stale cookies and mixed-up forms are all included.

`Fail` ends a request at any await (the storage call failed without effect, or
the process died); `RespondOrLose` covers a call that took effect and whose
reply was lost. `Expire` and `Tick` are Redis: a key with a TTL may disappear
during the second of its expiry and is gone after it. `AppClock` lets a service
read any time within `Skew` of Redis `TIME`.

Left out here: `created_at`/`issued_at`, field formats and the HLEN/TYPE checks
on rows, URL and cookie syntax, ill-formed registered URIs and the overflow of
`now + ttl`. They are in `DataPath`, whose invariant `ScriptsAsInRedisState`
says that on well-formed rows, at times in which Lua calculates exactly, the five
scripts with all their checks answer what `RedisState` says of them.

### RedisFailover

`FallBehind` is the moment from which the replica that will be promoted misses
writes, `Promote` the failover: its rows, less what has expired, become the rows
of the service, and requests go on where they were. The configuration uses
neither WAIT nor `min-replicas-to-write`, so an acknowledged mark may be lost.
The at-most-once properties then fail by as many uses as there were failovers,
and no more (`OneMoreUsePerFailover`).

### DataPath, Texts, Boundary, PortalInput, Startup, StoredState

These modules take the other cut: a handler is one action, and the values are
modelled. A text is a record: which value it is (`is`), its length in bytes, its
first two characters and the set of its characters by kind, and what it parses
to as a number or URL. Base64 and SHA-256 results have their real lengths, so
that a check of length 43 on one side and an encoder on the other meet. A query,
form, JSON object or Cookie header is a sequence of pairs, so that repeated and
missing names exist. A `Result` or `Option` is a set with at most one element.

A stored row is a function from field names to stored strings, or a key of
another type. `Decode` and `LuaAccepts` are the two readers. A script answers
its code; `script_error` turns it into the Rust error.

`mail` is the one message on its way, so the journey is sequential; `answer` is
the last handler's status. A journey starts with a browser that is new or has a
common session. Faults are `Alter` (a parameter is repeated, dropped, added or
replaced, cookies are split, repeated or broken, a header is repeated),
`Corrupt` (one field of a row is removed, added or impossible, or the key has
another type) and `Wait` (one of the lifetimes passes). Widths keep their order
but are scaled to TLC's integers: `I32Max` < `LuaMax` (2^53 − 1) < `U64Max`.

### IdentityStore

The tables hold committed rows; a worker's uncommitted rows are `newUser` and
`holdsKey`. `InsertIdentity` waits while another open transaction holds the same
key and fails with 23505 if the key is committed, as PostgreSQL's unique index
does. The sequence does not roll back and has an end (`MaxUserId`; 2^31 − 1 in
PostgreSQL). `Commit` may succeed and be reported as a failure. A call that fails
leaves its transaction `abandoned` until the server notices (`Abort`).

### PortalBackend

Clock readings are where the code has them: before the mutex in `login` and
`callback`, under it elsewhere. Responses that set cookies reach the browser in
a step of their own (`Deliver`) or never (`Lose`); `Lose` also drops a handler
at the await it is in, as the server does when the connection closes. A callback
may carry the state and code of any logins, from any browser. `Restart` empties
both maps and kills open requests. The foundation is external here: `IssueCode`
and `ExchangeAccepted` say what `AuthFoundation` shows of it (a code is redeemed
at most once, with the verifier of the login it answers).

## 3. Runs

TTLs of one or two seconds and clocks of zero to four make every expiry, at the
boundary second and after it, happen within the explored time. `MaxTime` is the
only artificial bound on behaviour; the number of requests bounds the others.

| Run | Instance | Shows |
|---|---|---|
| `AuthFoundation_races` | mixes of up to 2 logins, callbacks, exchanges, logout forms and posts; a user and a service that are switched; time 0–2 | duplicates of every one-shot request race: each state, code and form is used once, in time even when EXPIREAT never ran, a form only with its own token; logout is final; disabled users and services get nothing; the SSO contract is implemented |
| `RedisFailover_losses` | 1 failover; mixes with 3 callbacks of one state, 3 exchanges of one code, 3 posts of one form, and with 2 services, challenges, states or users and a forged value | a failover costs one more use at most; what an exchange returns still belongs to a login of its service and challenge |
| `AuthFoundation_lifetimes` | skew 1, time 0–4, 2 logins, so that the second can be SSO; fair | nothing is used past its lifetime, SSO does not prolong a session, sessions and handoffs end |
| `IdentityStore_resolution` | 3 workers, 2 identities, 3 ids; fair | one user per identity through races, crashes, an exhausted sequence; no call waits for ever |
| `PortalBackend_login` | 2 browsers, users, logins and callbacks, 1 `/api/me` | one exchange per login; each browser its own login |
| `PortalBackend_state` | capacities 1, 2 logins and callbacks, `/api/me`, logout, time 0–1; fair | capacity, lifetimes, logout, removal of expired records |
| `DataPath_journey` | 102 worlds, each with a new and, where its clock allows, a returning browser; 2 faults in the standard world, 1 or none in the others | fitting services understand each other at every limit; user and time arrive; Rust and Lua agree on every row, with the two exceptions below; ambiguous requests and corrupt rows grant nothing; `RedisState` abstracts the five scripts rightly |

A mix names the requests, and the users, services and values, that occur in a
behaviour; every mix is explored completely. Together they contain each pair of
requests that compete for a key, and for each kind of value two that differ. A
world of `MCDataPath` differs from the standard one in one value, at a limit the
code names or one beyond it: each environment variable absent, not Unicode,
empty or out of range, ids of 64 and 65 bytes, secrets that just fit into an
Authorization header and that do not, Google codes of 4096 and 4097 bytes,
clocks before the epoch and at both numeric limits. Checks look at one value
each, so single deviations reach every branch; two faults are needed for an
altered row to meet a delay or an altered request.

Two requests of a kind are enough for the one-shot properties, which relate two
requests; the theorems remove the bound. Deadlock is not checked where requests
are finite in number: the system stops when all are answered and time is up.
`IdentityStore_resolution` checks it, since a worker can always start another
call. In `PortalBackend_state` records made at second 0 expire at second 1, so both
sides of the boundary are explored; requests that read the clock at 0 and get the
mutex at 1 are the old readings.

Five runs are expected to fail. Each states a sentence of `docs/` that the code
does not keep, and the trace shows how:

| Run | Document | Code |
|---|---|---|
| `AuthFoundation_expired_code` | `auth-foundation-spec.md:441`: an expired code is a 400 | the key expires between TYPE and HGET: 503 (`redis_state.rs:640`) |
| `AuthFoundation_missing_ttl` | `auth-foundation-spec.md:585`: all short-lived state has a TTL | a failure between HSET and EXPIREAT leaves none (`redis_state.rs:695`) |
| `AuthFoundation_disabled_user` | `auth-foundation-storage-design.md:53`: a disabled user is not used for a new authentication success | the exchange does not look at `is_enabled` (`main.rs:629`) |
| `PortalBackend_stale_clock` | `auth-foundation-component-design.md:53`: expired state is not used for success | `callback` compares with a clock read before the mutex (`portal_backend/src/main.rs:563`) |
| `DataPath_sso_redirect` | `auth-foundation-spec.md:356`: only code and state are returned to the callback URI | `login` keeps the query of the registered URI, which `google_auth_callback` removes (`main.rs:369`, `main.rs:560`); the portal refuses such a callback |

### Fairness

- `AuthFoundation!FairSpec`: time passes, and nothing else: nobody is obliged to
  send a request, and a handler may stop at any await. Sessions and handoffs end
  because their scripts set the TTL together with the row.
- `IdentityStore!FairSpec`: weak fairness of each worker's steps. A step that
  waits in the unique index is enabled for good once the holder ends; holders
  end because they run the same code, or because PostgreSQL aborts the
  transaction of a broken connection.
- `PortalBackend!FairSpec`: time passes and the task spawned by `main` runs.

## 4. Proofs

tlapm checks the eight proof modules without a bound on requests, keys, services,
users, browsers, TTLs, capacities, skew, failovers, faults or time. They use only the
named `ASSUME`s, which TLC evaluates in the runs:

- `RequestAssumption`: the kinds of requests are disjoint and, in
  `AuthFoundation`, differ from forged values (the portal's logins and callbacks
  are finitely many);
- `NoneAssumption`, `MissingAssumption`: "no row", "no value" and "not yet" differ
  from every row, value and time, as nil and `Option::None` do;
- `TTLAssumption`, `BoundAssumption`, `ClockAssumption`: lifetimes and capacities
  are positive, as the constants and the portal's start-up check make them;
- `AbsentAssumption`: in `DataPath`, an absent key, row or message has none of the
  fields by which a present one is recognised;
- `WidthAssumption`: an i32 fits into a Lua number, and a Lua number into a u64;
- `WorldAssumption`: the clock of a world is an integer, its number of faults a
  natural number, its user id an i32 (`internal_user_id` is an INTEGER), and the
  query of its registered callback URI a sequence;
- `LifetimeAssumption`: no lifetime is longer than that of the common session. The
  constants of the code are 600, 120 and 600 seconds and twice 28800;
- `AdministeredAssumption`: a user id is not a service id;
- `MaxUserId` is positive, and `MaxFailovers` a natural number.

Each inductive invariant was first checked by TLC as an invariant of the run
whose specification it is about.

### AuthFoundationProofs

That a code is exchanged once does not follow from the script alone: it needs
that a used row is never written back to unused, which holds because only the
request the key is named after writes it fresh, once, and before its value is
known to anybody. `IInv` says this in parts. The first four, `Base`, are inductive
without the others and hold even when Redis forgets writes:

- `TypeOK`;
- `Phase`: what `inp`, `loc` and `took` hold at each `pc`, and that only a request
  that is done has sent a response, and with it reference values;
- `Written`: a row exists only under the reference of a request that has
  reached the step that writes it;
- `OwnToken`: a form row holds the token generated with it;
- `Spent`: the row of a state, code or form that took effect is marked or gone,
  and the request that would write it is done;
- `EndedForGood`: a session that logout ended is gone and its creator is done;
- and the three at-most-once properties themselves.

One lemma per action shows `Preserved` (`Base'`, and `IInv'` if `IInv`); actions that
only move `pc` or delete rows share `QuietPreserves`. From it follow `TypeCorrect`,
`CodesAreUsedOnce`, `StatesAreClaimedOnce`, `FormsAreUsedOnce`, and, with
`EffectNeedsSession` (a login or exchange takes effect only while its session is
stored), the action property `LogoutEndsTheSession`.

### AuthFoundationOriginProofs

`ExchangeAnswersItsLogin` spans a chain: login → OAuth state row → claim →
session row → handoff row → exchange. `Origins` has one part per link: what each
row says of the requests it was made by and for (`ExternalRows`, `SessionRows`,
`HandoffRows`, `LogoutRows`), what handlers know between two awaits
(`HandlersKnow`), and what every use that took effect used (`UsesRight`). It is
inductive together with `Base`, because what a row refers to does not change any
more (`Settled`: a request that has begun keeps its input, one that is over keeps
its local values). The expiry of a row is a clock reading plus a TTL, and the
scripts compare it with Redis `TIME`, so the same invariant gives
`NothingUsedPastItsLifetime` with no condition on the skew.

### SsoContractProofs

`ContractIsKept` is the refinement `Spec => KeepsContract`. The initial states map
to initial states; a step in which a script answers Ok to a creation, a single
sign-on or an exchange maps to `OpenAndIssue`, `IssueAgain` or `Redeem`; every
other step maps to `Lapse`, of which a step that changes nothing is a case. It
needs `Base` only: that a row exists only once the request that names it is over.

### AuthFoundationMixesProofs

`MixesAreBehaviours` connects the runs with the theorems: a workload is a
behaviour of `Spec`. `DisabledAreServedNothing` rests on `KeptOut`, which says for
each handler how far a request gets whose service or user has been disabled since
it began: not past the check it has not yet made.

### RedisFailoverProofs

`FailoverInv` is `Base` and `Origins`, the same of the rows of the replica that has
fallen behind (`Sound`), and `Budgets`: a state, code or form has at most one use
more than there were failovers, and no more uses than failovers while another is
possible. A promotion may make anything usable again, and adds one to both sides.
`FailoversCostOneUseEach` is the bound; `FailoversMixNothingUp` and
`FailoversProlongNothing` are the two theorems of the origins, which lost writes do
not touch. At most once and finality of logout are not among them: they fail.

### PortalBackendProofs

`IInv` says where each handler can be and what it has read (`Phase`); that a
browser context and a session cookie are held only by the browser they were made
for (`ContextStaysHome`, `CookieWasSent`); that a claimed LoginStart and a logged
out session are gone for good, because the request that wrote them is past
writing (`ClaimedForGood`, `GoneForGood`); and which person and clock reading a
callback, a LocalSession and an answer of `/api/me` have (`Authenticated`,
`OwnRecord`, `MeAnswered`). It yields `LoginsAreExchangedOnce`,
`BrowsersGetTheirOwnLogin`, `MeAnswersWithinLifetime` and `LogoutIsForGood`.
`CapacityIsRespected` is an induction of its own over the sizes of the two maps;
`ValidStateStays` looks at each action that removes a record.

### IdentityStoreProofs

`IInv` adds to the checked properties that ids in the tables and in open
transactions are below the sequence and used once (`IdsAreFresh`), that a key has
one holder and a held key is not committed (`KeyHasOneHolder`), and what is known
at each query (`Progress`, in particular that a worker in `rollback` or `reread`
has seen a committed identity, which is why the second read always succeeds). It
yields `AnswersAreStoredUsers`, `OneUserPerIdentity`, `ConsistentResolution`,
`TypeCorrect`, `LinksArePermanent`.

### DataPathProofs

The worlds are a constant, so the theorems hold for any registered service, any
person, any configuration and any number of `Alter`, `Corrupt` and `Wait` steps
(`JourneysAreUnderstood`, below, is about journeys without such a step).
Every handler has first a lemma of its effect (`LoginEffect`, `CallbackEffect`, ...):
what it answers, sends and stores when it grants and when it refuses. The proofs
use these lemmas and not the handlers. `JourneyInv`, the invariant, has four
parts:

- `StoreInv`: a key holds a hash of strings, each of one kind, or a string. It
  suffices for `ReadersAlwaysAgree`, which compares the decoders of
  `redis_state.rs` with the checks of its scripts field by field, on handlers' rows
  and corrupted ones. There are exactly two kinds of row on which they differ, and
  the property names them: a number beyond 2^53 - 1 is a u64 and no `uint`, so
  that a session with one answers 503 until it is deleted, and bytes that are not
  UTF-8 are a Lua string and no Rust `String`. One comparison is not about formats:
  a script of the handoff refuses an empty service_id and the decoder does not, so
  `StoreInv` also says that none is stored, which `validate_service_id` sees to.
- `FlowInv`: the order of the journey. Without it a second callback could set a new
  time of login beside an earlier local session, and a login or a logout page could
  put a new transaction in the place of a corrupt one.
- `MailInv`: a request carries the parameters its handler asks for, or `extra`.
- `TruthInv`: whatever a script would take for a user or a time of login, in a row
  or in a reply, is the person whom Google named and the time of the callback.

`ValuesAlwaysArrive` needs all four: the numbers pass through the session, the
handoff, a script's reply and JSON, and a corruption of any of these rows must be
something that no reader takes for a number: the values of `Corrupt` are such, and
one valid number in the place of another is outside the theorem.

`CorruptRowsAreInert` shows for each handler that a row which the script or Rust
rejects is left as it is or deleted, and that a grant rests on rows that decode. It
has one exception, which `UsedUpUnread` states exactly: claim and logout mark their
transaction before Rust decodes the reply or the row, so one with bytes that are
not UTF-8 is used up. Nothing comes of such a claim; such a logout has deleted the
session, and is answered as a success unless it is the return URI that cannot be
read.

`ScriptsAlwaysAsInRedisState` is what the other modules rest on when they use
`RedisState`. It holds for all five scripts: claim, logout and exchange on every row
that decodes, issue and create for the handoff that the handler would pass and for
one that is wrong in each of the comparisons they make. It rests on `StoreInv` and
the lemmas of what the handlers' rows decode to.

`AmbiguousRequestsAreRefused` shows that serde, the
portal's parser and its cookie reader each find a repetition, wherever it is, before
anything is stored.

`JourneysAreUnderstood` is the converse: when nothing is altered and the
configurations fit, nothing is refused. That a request was accepted says too little
about the next one, which is accepted because of what all earlier steps left in
Redis, in the portal's maps and in the cookies. `StageInv` therefore says for each
of the ten messages of the journey what exactly is on its way and what is held where
(`LoginSent`, `ConsentAsked`, ..., `LogoutFormSent`), both for a new browser and for one
with a common session. Each handler has a lemma that takes its stage to the next
(`LoginStage`, `CallbackStage`, ...), after lemmas that what was generated and encoded
on one side passes the checks of the other: reference values, PKCE, cookies and
their headers, each of the four rows under its script and its decoder, Basic
credentials up to 8192 bytes, the redirect with the registered URI. The only
journey that stops is the one of `DataPath_sso_redirect`: in the stage before its end the
portal refuses the callback of a returning browser whose registered URI has a query,
which `Compatible` leaves out. `CookiePairs` joins Cookie headers and has a case of
its own for none and for one, which is all that a browser sends: what `FlattenSeq`
computes is recursive and opaque to the provers.

### Only model-checked

- Liveness (`ShortLivedStateEnds`, `ExpiredStateIsRemoved` and the termination of
  `IdentityStore`): fairness is outside the prover's reach.
- The five expected violations, which are traces.

## 5. Not modelled

- Attributes of cookies (Path, Secure, HttpOnly, SameSite, Max-Age), security
  headers, limits of HTTP bodies (413 before a handler runs), the health route,
  log messages and their redaction: they touch no state of the services.
- Failing storage calls in `DataPath`: they are in `AuthFoundation`,
  `IdentityStore` and `PortalBackend`, where they interleave.
- How Sentinel elects a replica, and PostgreSQL's own failover.
- The portal frontend (no state of its own), migrations, cutover scripts and the
  other Kubernetes manifests.

## 6. Plan

1. Done: `RedisState`, `AuthFoundation`, `SsoContract` and its refinement,
   `IdentityStore`, `PortalBackend`, with the proofs above.
2. Done: failover, mixes of workloads, and the composition of both services in
   `DataPath` with input checks, configuration and stored formats.
3. Done: proofs of provenance and lifetimes, of the refinement of `SsoContract`,
   of `PortalBackend`, of `RedisFailover` and of what disabling promises.
4. Done: proofs of `DataPath`, for any world and any number of faults: of its two
   readers of a row, of what arrives, of corrupt rows and of ambiguous requests; and
   of the undisturbed journey, in which every request is understood.
