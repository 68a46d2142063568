--------------------- MODULE AuthFoundationOriginProofs ---------------------
(***************************************************************************)
(* Where the rows in Redis and the handlers' local variables come from,    *)
(* proved for any constants: every row carries the service, state,         *)
(* challenge, person and clock reading of the requests it was made by and  *)
(* for.  From this follow what an exchange answers (end to end, through    *)
(* OAuth state, claim, session and handoff) and that nothing is used past  *)
(* its lifetime.                                                           *)
(***************************************************************************)
EXTENDS AuthFoundationProofs

ClaimedLabel == {"callback_service", "google", "resolve", "create"}
KnownLabel == {"resolve", "create"}
SsoLabel == {"check_user", "issue"}

\* The transaction that callback c claimed is the one its login wrote.
TxnOf(c) ==
    LET l == inp[c].ref
        txn == loc[c].txn IN
    /\ l \in Login
    /\ pc[l] = "done"
    /\ txn.service = inp[l].service
    /\ txn.state = inp[l].state
    /\ txn.challenge = inp[l].challenge

\* The person a login has read is the one of the callback its cookie names.
WhoOf(l) ==
    LET k == inp[l].cookie IN
    /\ k \in Callback
    /\ pc[k] = "done"
    /\ loc[k].who \in Who
    /\ loc[l].who = loc[k].who

\* What the handlers know in the middle of their work.
HandlersKnow ==
    /\ \A c \in Callback : pc[c] \in ClaimedLabel => TxnOf(c)
    /\ \A c \in Callback : pc[c] \in KnownLabel => loc[c].now = loc[c].who.at
    /\ \A l \in Login : pc[l] \in SsoLabel => WhoOf(l)

ExternalRows(table) ==
    \A l \in Login :
       table[l] # None =>
          /\ table[l].service = inp[l].service
          /\ table[l].state = inp[l].state
          /\ table[l].challenge = inp[l].challenge
          /\ table[l].expires = loc[l].now + ExternalTTL

SessionRows(table) ==
    \A c \in Callback :
       table[c] # None =>
          /\ loc[c].who \in Who
          /\ table[c].user = loc[c].who.user
          /\ table[c].at = loc[c].who.at
          /\ table[c].expires = table[c].at + SessionTTL

\* The handoff row of h answers the login of h with who was authenticated, where.
HandoffOf(h, row) ==
    LET l == LoginOf(h)
        c == AuthenticatedBy(h) IN
    /\ row.expires = loc[h].now + HandoffTTL
    /\ h \in Callback => TxnOf(h)
    /\ row.service = inp[l].service
    /\ row.challenge = inp[l].challenge
    /\ c \in Callback
    /\ pc[c] = "done"
    /\ loc[c].who \in Who
    /\ row.user = loc[c].who.user
    /\ row.at = loc[c].who.at

HandoffRows(table) ==
    \A h \in Login \cup Callback : table[h] # None => HandoffOf(h, table[h])

LogoutRows(table) ==
    \A g \in LogoutGet : table[g] # None => table[g].expires = loc[g].now + LogoutTTL

\* An exchange that took effect, and all there is to say about it.
ExchangeRight(x) ==
    LET h == inp[x].ref
        l == LoginOf(h)
        c == AuthenticatedBy(h) IN
    /\ h \in Login \cup Callback
    /\ pc[h] = "done" /\ pc[l] = "done" /\ pc[c] = "done"
    /\ l \in Login
    /\ inp[l].service = inp[x].service
    /\ inp[l].challenge = inp[x].challenge
    /\ h \in Callback => loc[h].txn.state = inp[l].state
    /\ c \in Callback
    /\ loc[c].who = loc[x].who
    /\ took[x] < loc[h].now + HandoffTTL
    /\ took[x] < loc[x].who.at + SessionTTL

CallbackRight(c) ==
    /\ inp[c].ref \in Login
    /\ pc[inp[c].ref] = "done"
    /\ took[c] < loc[inp[c].ref].now + ExternalTTL

LogoutRight(p) ==
    /\ inp[p].ref \in LogoutGet
    /\ pc[inp[p].ref] = "done"
    /\ took[p] < loc[inp[p].ref].now + LogoutTTL

LoginRight(l) == took[l] < loc[l].who.at + SessionTTL

UsesRight ==
    /\ \A c \in Effective(Callback) : CallbackRight(c)
    /\ \A x \in Effective(Exchange) : ExchangeRight(x)
    /\ \A p \in Effective(LogoutPost) : LogoutRight(p)
    /\ \A l \in Effective(Login) : LoginRight(l)

Origins ==
    /\ HandlersKnow
    /\ ExternalRows(external)
    /\ SessionRows(session)
    /\ HandoffRows(handoff)
    /\ LogoutRows(logout)
    /\ UsesRight
-----------------------------------------------------------------------------
\* A request that has begun keeps its input, one that is over keeps its local
\* variables too, and the clock that dates a row is read once.
Settled ==
    \A q \in Request :
       /\ pc[q] # "idle" => pc'[q] # "idle" /\ inp'[q] = inp[q]
       /\ pc[q] \in {"external_expireat", "logout_expireat"} => pc'[q] \in {pc[q], "done"}
       /\ pc[q] = "done" => pc'[q] = "done" /\ loc'[q] = loc[q] /\ took'[q] = took[q]
       /\ q \in Login \cup LogoutGet /\ pc[q] # "idle" => loc'[q].now = loc[q].now
       /\ took[q] # None => took'[q] = took[q]

\* No row is new: rows go, or change their status or TTL.
ExternalFrom ==
    \A l \in Login : external'[l] # None =>
       /\ external[l] # None
       /\ external'[l].service = external[l].service
       /\ external'[l].state = external[l].state
       /\ external'[l].challenge = external[l].challenge
       /\ external'[l].expires = external[l].expires

SessionFrom == \A c \in Callback : session'[c] # None => session'[c] = session[c]

\* At most the status of a handoff changes.
SameHandoff(h) ==
    /\ handoff[h] # None
    /\ handoff'[h].service = handoff[h].service
    /\ handoff'[h].challenge = handoff[h].challenge
    /\ handoff'[h].user = handoff[h].user
    /\ handoff'[h].at = handoff[h].at
    /\ handoff'[h].expires = handoff[h].expires

HandoffFrom == \A h \in Login \cup Callback : handoff'[h] # None => SameHandoff(h)

LogoutFrom ==
    \A g \in LogoutGet : logout'[g] # None =>
       logout[g] # None /\ logout'[g].expires = logout[g].expires

RowsFrom == ExternalFrom /\ SessionFrom /\ HandoffFrom /\ LogoutFrom

\* No handler learns anything.
LearnsNothing ==
    /\ \A c \in Callback :
          /\ pc'[c] \in ClaimedLabel => pc[c] \in ClaimedLabel /\ loc'[c].txn = loc[c].txn
          /\ pc'[c] \in KnownLabel => pc[c] \in KnownLabel /\ loc'[c] = loc[c]
    /\ \A l \in Login : pc'[l] \in SsoLabel => pc[l] \in SsoLabel /\ loc'[l] = loc[l]

\* Transactions that were there keep saying which login they were made by.
LEMMA ExternalKept ==
    ASSUME Base, ExternalRows(external), Settled, ExternalFrom
    PROVE  ExternalRows(external)'
  BY Kinds DEF Base, Written, ExternalRows, Settled, ExternalFrom

\* Sessions keep saying which callback they were made by.
LEMMA SessionKept ==
    ASSUME Base, SessionRows(session), Settled, SessionFrom
    PROVE  SessionRows(session)'
  BY Kinds DEF Base, Written, SessionRows, Settled, SessionFrom

\* What a handoff row was made from stays as it is.
LEMMA SourceStays ==
    ASSUME Settled, NEW h \in Login \cup Callback, pc[h] = "done", NEW row, HandoffOf(h, row)
    PROVE  /\ LoginOf(h)' = LoginOf(h) /\ AuthenticatedBy(h)' = AuthenticatedBy(h)
           /\ loc'[h] = loc[h]
           /\ inp'[LoginOf(h)] = inp[LoginOf(h)]
           /\ pc'[AuthenticatedBy(h)] = "done"
           /\ loc'[AuthenticatedBy(h)] = loc[AuthenticatedBy(h)]
           /\ h \in Callback => TxnOf(h)'
  <1>1. h \in Request
    BY Kinds
  <1>2. pc'[h] = "done" /\ inp'[h] = inp[h] /\ loc'[h] = loc[h]
    BY <1>1 DEF Settled
  <1>3. LoginOf(h)' = LoginOf(h) /\ AuthenticatedBy(h)' = AuthenticatedBy(h)
    BY <1>2 DEF LoginOf, AuthenticatedBy
  <1>4. LoginOf(h) \in Login /\ pc[LoginOf(h)] = "done"
    BY <1>1 DEF HandoffOf, TxnOf, LoginOf
  <1>5. inp'[LoginOf(h)] = inp[LoginOf(h)] /\ pc'[LoginOf(h)] = "done"
    BY <1>4, Kinds DEF Settled
  <1>6. AuthenticatedBy(h) \in Callback /\ pc[AuthenticatedBy(h)] = "done"
    BY <1>1 DEF HandoffOf
  <1>7. loc'[AuthenticatedBy(h)] = loc[AuthenticatedBy(h)] /\ pc'[AuthenticatedBy(h)] = "done"
    BY <1>6, Kinds DEF Settled
  <1>8. h \in Callback => TxnOf(h)'
    BY <1>1, <1>2, <1>5 DEF HandoffOf, TxnOf, LoginOf
  <1>. QED
    BY <1>2, <1>3, <1>5, <1>7, <1>8

\* So a handoff keeps saying which login it answers and who was authenticated, where.
LEMMA HandoffStays ==
    ASSUME Base, Settled, NEW h \in Login \cup Callback, HandoffOf(h, handoff[h]), SameHandoff(h)
    PROVE  HandoffOf(h, handoff[h])'
  <1>1. pc[h] = "done"
    BY Kinds DEF SameHandoff, Base, Written
  <1>. QED  BY <1>1, SourceStays DEF HandoffOf, SameHandoff

\* So do all handoffs when none is new.
LEMMA HandoffKept ==
    ASSUME Base, HandoffRows(handoff), Settled, HandoffFrom
    PROVE  HandoffRows(handoff)'
  <1>. SUFFICES ASSUME NEW h \in Login \cup Callback, handoff'[h] # None
                PROVE  HandoffOf(h, handoff[h])'
    BY DEF HandoffRows
  <1>. QED  BY HandoffStays DEF HandoffRows, HandoffFrom, SameHandoff

\* One handoff is new.
LEMMA OneHandoff ==
    ASSUME Base, HandoffRows(handoff), Settled, NEW r,
           \A h \in Login \cup Callback : h # r => handoff'[h] = handoff[h],
           HandoffOf(r, handoff[r])'
    PROVE  HandoffRows(handoff)'
  <1>. SUFFICES ASSUME NEW h \in Login \cup Callback, handoff'[h] # None, h # r
                PROVE  HandoffOf(h, handoff[h])'
    BY DEF HandoffRows
  <1>. QED  BY HandoffStays DEF HandoffRows, SameHandoff

\* Logout forms keep the expiry they were made with.
LEMMA LogoutKept ==
    ASSUME Base, LogoutRows(logout), Settled, LogoutFrom
    PROVE  LogoutRows(logout)'
  BY Kinds DEF Base, Written, LogoutRows, Settled, LogoutFrom

\* What a callback has claimed stays true while others go on.
LEMMA TxnStays ==
    ASSUME Base, Settled, NEW c \in Callback, TxnOf(c), pc[c] # "idle",
           loc'[c].txn = loc[c].txn
    PROVE  TxnOf(c)'
  BY Kinds DEF TxnOf, Settled

\* The same for a login that has read a session.
LEMMA WhoStays ==
    ASSUME Base, Settled, NEW l \in Login, WhoOf(l), pc[l] # "idle", loc'[l].who = loc[l].who
    PROVE  WhoOf(l)'
  BY Kinds DEF WhoOf, Settled

\* So a step in which no handler learns anything keeps what they know.
LEMMA KnowledgeKept ==
    ASSUME Base, HandlersKnow, Settled, LearnsNothing
    PROVE  HandlersKnow'
  <1>1. \A c \in Callback : pc'[c] \in ClaimedLabel => TxnOf(c)'
    BY TxnStays DEF HandlersKnow, LearnsNothing, ClaimedLabel
  <1>2. \A c \in Callback : pc'[c] \in KnownLabel => loc'[c].now = loc'[c].who.at
    BY DEF HandlersKnow, LearnsNothing
  <1>3. \A l \in Login : pc'[l] \in SsoLabel => WhoOf(l)'
    BY WhoStays DEF HandlersKnow, LearnsNothing, SsoLabel
  <1>. QED  BY <1>1, <1>2, <1>3 DEF HandlersKnow

\* What was right when it was used stays right.
LEMMA UsesKept ==
    ASSUME Base, Settled
    PROVE  /\ \A c \in Effective(Callback) : CallbackRight(c) => CallbackRight(c)'
           /\ \A x \in Effective(Exchange) : ExchangeRight(x) => ExchangeRight(x)'
           /\ \A p \in Effective(LogoutPost) : LogoutRight(p) => LogoutRight(p)'
           /\ \A l \in Effective(Login) : LoginRight(l) => LoginRight(l)'
  <1>1. \A c \in Effective(Callback) : CallbackRight(c) => CallbackRight(c)'
    <2>. SUFFICES ASSUME NEW c \in Callback, took[c] # None, CallbackRight(c)
                  PROVE  CallbackRight(c)'
      BY DEF Effective
    <2>1. inp'[c] = inp[c] /\ took'[c] = took[c]
      BY Kinds DEF Base, Phase, Settled
    <2>. QED  BY <2>1, Kinds DEF CallbackRight, Settled
  <1>2. \A x \in Effective(Exchange) : ExchangeRight(x) => ExchangeRight(x)'
    <2>. SUFFICES ASSUME NEW x \in Exchange, took[x] # None, ExchangeRight(x)
                  PROVE  ExchangeRight(x)'
      BY DEF Effective
    <2>. DEFINE h == inp[x].ref
    <2>1. pc[x] = "done" /\ x \in Request
      BY Kinds DEF Base, Phase
    <2>2. inp'[x] = inp[x] /\ took'[x] = took[x] /\ loc'[x] = loc[x]
      BY <2>1 DEF Settled
    <2>3. /\ h \in Request /\ pc[h] = "done" /\ LoginOf(h) \in Request /\ pc[LoginOf(h)] = "done"
          /\ AuthenticatedBy(h) \in Request /\ pc[AuthenticatedBy(h)] = "done"
      BY Kinds DEF ExchangeRight
    <2>4. /\ pc'[h] = "done" /\ inp'[h] = inp[h] /\ loc'[h] = loc[h]
          /\ pc'[LoginOf(h)] = "done" /\ inp'[LoginOf(h)] = inp[LoginOf(h)]
          /\ pc'[AuthenticatedBy(h)] = "done" /\ loc'[AuthenticatedBy(h)] = loc[AuthenticatedBy(h)]
      BY <2>3 DEF Settled
    <2>5. h' = h /\ LoginOf(h)' = LoginOf(h) /\ AuthenticatedBy(h)' = AuthenticatedBy(h)
      BY <2>2, <2>4 DEF LoginOf, AuthenticatedBy
    <2>. QED  BY <2>2, <2>4, <2>5 DEF ExchangeRight
  <1>3. \A p \in Effective(LogoutPost) : LogoutRight(p) => LogoutRight(p)'
    BY Kinds DEF Base, Phase, Effective, LogoutRight, Settled, LogoutPostLabel
  <1>4. \A l \in Effective(Login) : LoginRight(l) => LoginRight(l)'
    BY Kinds DEF Base, Phase, Effective, LoginRight, Settled
  <1>. QED  BY <1>1, <1>2, <1>3, <1>4

\* Steps that make no row, use nothing and teach no handler anything.
LEMMA PlainPreserves ==
    ASSUME Base, Origins, Settled, RowsFrom, LearnsNothing, took' = took
    PROVE  Origins'
  <1>1. HandlersKnow'
    BY KnowledgeKept DEF Origins
  <1>2. ExternalRows(external)' /\ SessionRows(session)' /\ HandoffRows(handoff)'
        /\ LogoutRows(logout)'
    BY ExternalKept, SessionKept, HandoffKept, LogoutKept DEF Origins, RowsFrom
  <1>3. UsesRight'
    BY UsesKept DEF Origins, UsesRight, Effective
  <1>. QED  BY <1>1, <1>2, <1>3 DEF Origins
-----------------------------------------------------------------------------
\* Only request r goes on.
Alone(r) ==
    \A q \in Request : q # r =>
       pc'[q] = pc[q] /\ inp'[q] = inp[q] /\ loc'[q] = loc[q] /\ took'[q] = took[q]

\* A handler step keeps Settled when it does for the request itself.
LEMMA AloneSettled ==
    ASSUME NEW r \in Request, Alone(r),
           pc[r] \notin {"idle", "done"} => inp'[r] = inp[r] /\ pc'[r] # "idle",
           pc[r] # "done",
           pc[r] \in {"external_expireat", "logout_expireat"} => pc'[r] = "done",
           pc[r] # "idle" /\ r \in Login \cup LogoutGet => loc'[r].now = loc[r].now,
           took[r] # None => took'[r] = took[r]
    PROVE  Settled
  BY DEF Alone, Settled

\* A login that begins has no row and knows nothing.
LEMMA LoginStartOrigins ==
    ASSUME Base, Origins, NEW r \in Login, LoginStart(r)
    PROVE  Settled /\ Origins'
  <1>1. r \in Request /\ pc[r] = "idle" /\ UNCHANGED <<external, session, handoff, logout, took>>
    BY Kinds DEF LoginStart, store
  <1>2. Alone(r) /\ pc'[r] \in {"done", "external_hset", "read_session"}
    BY <1>1 DEF LoginStart, Base, TypeOK, Alone, Goto, Respond, Present
  <1>3. Settled
    BY <1>1, <1>2, AloneSettled
  <1>4. RowsFrom /\ LearnsNothing
    BY <1>1, <1>2, Kinds
       DEF RowsFrom, ExternalFrom, SessionFrom, HandoffFrom, SameHandoff, LogoutFrom,
           LearnsNothing, Alone, SsoLabel
  <1>. QED  BY <1>1, <1>3, <1>4, PlainPreserves

\* The same for an exchange.
LEMMA ExchangeStartOrigins ==
    ASSUME Base, Origins, NEW r \in Exchange, ExchangeStart(r)
    PROVE  Settled /\ Origins'
  <1>1. r \in Request /\ pc[r] = "idle"
        /\ UNCHANGED <<external, session, handoff, logout, loc, took>>
    BY Kinds DEF ExchangeStart, store
  <1>2. Alone(r)
    BY <1>1 DEF ExchangeStart, Base, TypeOK, Alone, Goto, Respond, Present
  <1>3. Settled
    BY <1>1, <1>2, AloneSettled
  <1>4. RowsFrom /\ LearnsNothing
    BY <1>1, <1>2, Kinds
       DEF RowsFrom, ExternalFrom, SessionFrom, HandoffFrom, SameHandoff, LogoutFrom,
           LearnsNothing, Alone
  <1>. QED  BY <1>1, <1>3, <1>4, PlainPreserves

\* The same for GET /auth/logout.
LEMMA LogoutGetStartOrigins ==
    ASSUME Base, Origins, NEW r \in LogoutGet, LogoutGetStart(r)
    PROVE  Settled /\ Origins'
  <1>1. r \in Request /\ pc[r] = "idle" /\ UNCHANGED <<external, session, handoff, logout, took>>
    BY Kinds DEF LogoutGetStart, store
  <1>2. Alone(r)
    BY <1>1 DEF LogoutGetStart, Base, TypeOK, Alone, Goto, Respond, Present
  <1>3. Settled
    BY <1>1, <1>2, AloneSettled
  <1>4. RowsFrom /\ LearnsNothing
    BY <1>1, <1>2, Kinds
       DEF RowsFrom, ExternalFrom, SessionFrom, HandoffFrom, SameHandoff, LogoutFrom,
           LearnsNothing, Alone
  <1>. QED  BY <1>1, <1>3, <1>4, PlainPreserves

\* Checks that only let a request go on or end it, and failures.
LEMMA CheckOrigins ==
    ASSUME Base, Origins, NEW r \in Request,
           \/ r \in Login /\ CheckUser(r)
           \/ r \in Callback /\ (CallbackService(r) \/ ResolveIdentity(r))
           \/ r \in Exchange /\ HandoffType(r)
           \/ Fail(r)
    PROVE  Settled /\ Origins'
  <1>1. /\ pc[r] \notin {"idle", "done"}
        /\ UNCHANGED <<external, session, handoff, logout, inp, loc, took>>
    BY DEF CheckUser, CallbackService, ResolveIdentity, HandoffType, Fail, store
  <1>2. /\ Alone(r) /\ pc'[r] # "idle"
        /\ pc[r] \in {"external_expireat", "logout_expireat"} => pc'[r] = "done"
    BY <1>1 DEF CheckUser, CallbackService, ResolveIdentity, HandoffType, Fail, Base, TypeOK, Alone,
                Goto, Respond
  <1>3. Settled
    BY <1>1, <1>2, AloneSettled
  <1>4. RowsFrom
    BY <1>1 DEF RowsFrom, ExternalFrom, SessionFrom, HandoffFrom, SameHandoff, LogoutFrom
  <1>5. r \in Callback => /\ pc'[r] \in ClaimedLabel => pc[r] \in ClaimedLabel
                          /\ pc'[r] \in KnownLabel => pc[r] \in KnownLabel
    BY <1>1, Kinds
       DEF CheckUser, CallbackService, ResolveIdentity, HandoffType, Fail, Base, TypeOK,
           Goto, Respond, ClaimedLabel, KnownLabel
  <1>6. r \in Login => (pc'[r] \in SsoLabel => pc[r] \in SsoLabel)
    BY <1>1, Kinds
       DEF CheckUser, CallbackService, ResolveIdentity, HandoffType, Fail, Base, TypeOK,
           Goto, Respond, SsoLabel
  <1>7. LearnsNothing
    BY <1>1, <1>2, <1>5, <1>6, Kinds DEF LearnsNothing, Alone
  <1>. QED  BY <1>1, <1>3, <1>4, <1>7, PlainPreserves

\* The environment touches no handler, and removes rows at most.
LEMMA EnvironmentOrigins ==
    ASSUME Base, Origins,
           \/ \E u \in User : SwitchUser(u)
           \/ \E s \in Service : SwitchService(s)
           \/ \E k \in Ref : Expire(k)
           \/ Tick
    PROVE  Settled /\ Origins'
  <1>1. UNCHANGED <<pc, inp, loc, took>>
    BY DEF SwitchUser, SwitchService, Expire, Tick
  <1>2. Settled /\ LearnsNothing
    BY <1>1 DEF Settled, LearnsNothing
  <1>3. \A k \in Ref :
           /\ external'[k] = external[k] \/ external'[k] = None
           /\ session'[k] = session[k] \/ session'[k] = None
           /\ handoff'[k] = handoff[k] \/ handoff'[k] = None
           /\ logout'[k] = logout[k] \/ logout'[k] = None
    BY DEF SwitchUser, SwitchService, Expire, Tick, store, Del, Survive, Base, TypeOK
  <1>4. RowsFrom
    BY <1>3, Kinds DEF RowsFrom, ExternalFrom, SessionFrom, HandoffFrom, SameHandoff, LogoutFrom
  <1>. QED  BY <1>1, <1>2, <1>4, PlainPreserves

\* DEL removes a session.
LEMMA DelSessionOrigins ==
    ASSUME Base, Origins, NEW r \in Login, DelSession(r)
    PROVE  Settled /\ Origins'
  <1>1. r \in Request /\ pc[r] = "del_session"
        /\ UNCHANGED <<external, handoff, logout, inp, loc, took>>
    BY Kinds DEF DelSession
  <1>2. Alone(r) /\ pc'[r] = "external_hset"
    BY <1>1 DEF DelSession, Base, TypeOK, Alone, Goto
  <1>3. Settled
    BY <1>1, <1>2, AloneSettled
  <1>4. RowsFrom
    BY <1>1 DEF DelSession, Base, TypeOK, Del, RowsFrom, ExternalFrom, SessionFrom, HandoffFrom,
                SameHandoff, LogoutFrom
  <1>5. LearnsNothing
    BY <1>1, <1>2, Kinds DEF LearnsNothing, Alone, SsoLabel
  <1>. QED  BY <1>1, <1>3, <1>4, <1>5, PlainPreserves

\* EXPIREAT sets the TTL of a row or deletes it.
LEMMA ExpireatOrigins ==
    ASSUME Base, Origins, NEW r \in Request,
           \/ r \in Login /\ ExternalExpireat(r)
           \/ r \in LogoutGet /\ LogoutExpireat(r)
    PROVE  Settled /\ Origins'
  <1>1. /\ pc[r] \notin {"idle", "done"}
        /\ UNCHANGED <<session, handoff, inp, loc, took>>
    BY DEF ExternalExpireat, LogoutExpireat
  <1>2. Alone(r) /\ pc'[r] = "done"
    BY <1>1 DEF ExternalExpireat, LogoutExpireat, Base, TypeOK, Alone, RespondOrLose, Respond
  <1>3. Settled
    BY <1>1, <1>2, AloneSettled
  <1>4. LearnsNothing
    BY <1>1, <1>2, Kinds DEF LearnsNothing, Alone, SsoLabel, ClaimedLabel, KnownLabel
  <1>5. ExternalFrom
    <2>1. external[r] \in ExternalRow \cup {None}
      BY Kinds DEF Base, TypeOK
    <2>2. ExpireAt(external[r], now) # None =>
             /\ external[r] # None
             /\ ExpireAt(external[r], now).service = external[r].service
             /\ ExpireAt(external[r], now).state = external[r].state
             /\ ExpireAt(external[r], now).challenge = external[r].challenge
             /\ ExpireAt(external[r], now).expires = external[r].expires
      BY <2>1 DEF ExpireAt, ExternalRow
    <2>3. UNCHANGED external \/ external' = [external EXCEPT ![r] = ExpireAt(external[r], now)]
      BY DEF ExternalExpireat, LogoutExpireat, Put
    <2>. QED  BY <2>2, <2>3, Kinds DEF Base, TypeOK, ExternalFrom
  <1>6. LogoutFrom
    <2>1. logout[r] \in LogoutRow(Ref) \cup {None}
      BY Kinds DEF Base, TypeOK
    <2>2. ExpireAt(logout[r], now) # None =>
             logout[r] # None /\ ExpireAt(logout[r], now).expires = logout[r].expires
      BY <2>1 DEF ExpireAt, LogoutRow
    <2>3. UNCHANGED logout \/ logout' = [logout EXCEPT ![r] = ExpireAt(logout[r], now)]
      BY DEF ExternalExpireat, LogoutExpireat, Put
    <2>. QED  BY <2>2, <2>3, Kinds DEF Base, TypeOK, LogoutFrom
  <1>7. RowsFrom
    BY <1>1, <1>5, <1>6 DEF RowsFrom, SessionFrom, HandoffFrom, SameHandoff
  <1>. QED  BY <1>1, <1>3, <1>4, <1>7, PlainPreserves

\* HGET tells an exchange which session to name to the script.
LEMMA HandoffHgetOrigins ==
    ASSUME Base, Origins, NEW r \in Exchange, HandoffHget(r)
    PROVE  Settled /\ Origins'
  <1>1. r \in Request /\ pc[r] = "handoff_hget"
        /\ UNCHANGED <<external, session, handoff, logout, inp, took>>
    BY Kinds DEF HandoffHget, store
  <1>2. Alone(r) /\ pc'[r] # "idle"
    BY <1>1 DEF HandoffHget, Base, TypeOK, Alone, Goto, Respond
  <1>3. Settled
    BY <1>1, <1>2, AloneSettled, Kinds
  <1>4. RowsFrom /\ LearnsNothing
    BY <1>1, <1>2, Kinds
       DEF RowsFrom, ExternalFrom, SessionFrom, HandoffFrom, SameHandoff, LogoutFrom,
           LearnsNothing, Alone
  <1>. QED  BY <1>1, <1>3, <1>4, PlainPreserves

\* A step that makes no row and uses nothing, but may teach a handler something.
LEMMA LearningPreserves ==
    ASSUME Base, Origins, Settled, RowsFrom, took' = took, HandlersKnow'
    PROVE  Origins'
  <1>1. ExternalRows(external)' /\ SessionRows(session)' /\ HandoffRows(handoff)'
        /\ LogoutRows(logout)'
    BY ExternalKept, SessionKept, HandoffKept, LogoutKept DEF Origins, RowsFrom
  <1>2. UsesRight'
    BY UsesKept DEF Origins, UsesRight, Effective
  <1>. QED  BY <1>1, <1>2 DEF Origins

\* What a login reads of a session is what its callback learned from Google.
LEMMA ReadSessionOrigins ==
    ASSUME Base, Origins, NEW r \in Login, ReadSession(r)
    PROVE  Settled /\ Origins'
  <1>. DEFINE k == inp[r].cookie
              row == session[k]
  <1>1. /\ r \in Request /\ pc[r] = "read_session" /\ loc[r] \in Local /\ k \in Ref
        /\ UNCHANGED <<external, session, handoff, logout, inp, took>>
    BY Kinds DEF ReadSession, store, Base, TypeOK, Phase
  <1>2. Alone(r) /\ pc'[r] # "idle" /\ pc'[r] \in Label
    BY <1>1 DEF ReadSession, Base, TypeOK, Alone, Goto, Label
  <1>3. loc'[r].now = loc[r].now
    BY <1>1 DEF ReadSession, Base, TypeOK, Local
  <1>4. Settled
    BY <1>1, <1>2, <1>3, AloneSettled
  <1>5. RowsFrom
    BY <1>1 DEF RowsFrom, ExternalFrom, SessionFrom, HandoffFrom, SameHandoff, LogoutFrom
  <1>6. CASE Goto(r, "external_hset") \/ Goto(r, "del_session")
    <2>1. pc'[r] \in {"external_hset", "del_session"}
      BY <1>1, <1>6 DEF Goto, Base, TypeOK
    <2>2. LearnsNothing
      BY <1>1, <1>2, <2>1, Kinds DEF LearnsNothing, Alone, SsoLabel
    <2>. QED  BY <1>1, <1>4, <1>5, <2>2, PlainPreserves
  <1>7. CASE /\ row # None
             /\ loc' = [loc EXCEPT ![r].who = [user |-> row.user, at |-> row.at]]
             /\ Goto(r, "check_user")
    <2>1. k \in Callback /\ pc[k] = "done"
      BY <1>1, <1>7 DEF Base, Written
    <2>2. loc[k].who \in Who /\ row.user = loc[k].who.user /\ row.at = loc[k].who.at
      BY <1>7, <2>1 DEF Origins, SessionRows
    <2>3. [user |-> row.user, at |-> row.at] = loc[k].who
      BY <2>2 DEF Who
    <2>4. loc'[r].who = loc[k].who
      BY <1>1, <1>7, <2>3 DEF Base, TypeOK, Local
    <2>5. k \in Request /\ k # r /\ k = inp'[r].cookie
      BY <1>1, <2>1, Kinds
    <2>6. WhoOf(r)'
      BY <1>2, <2>1, <2>2, <2>4, <2>5 DEF WhoOf, Alone
    <2>7. \A l \in Login : pc'[l] \in SsoLabel => WhoOf(l)'
      <3>. SUFFICES ASSUME NEW l \in Login, pc'[l] \in SsoLabel, l # r
                    PROVE  WhoOf(l)'
        BY <2>6
      <3>1. pc[l] \in SsoLabel /\ loc'[l] = loc[l]
        BY <1>2, Kinds DEF Alone
      <3>. QED  BY <1>4, <3>1, WhoStays DEF Origins, HandlersKnow, SsoLabel
    <2>8. \A c \in Callback : pc'[c] = pc[c] /\ loc'[c] = loc[c]
      BY <1>2, Kinds DEF Alone
    <2>9. HandlersKnow'
      BY <1>4, <2>7, <2>8, TxnStays DEF Origins, HandlersKnow, ClaimedLabel
    <2>. QED  BY <1>1, <1>4, <1>5, <2>9, LearningPreserves
  <1>. QED  BY <1>4, <1>6, <1>7 DEF ReadSession

\* Google names the person; the clock reading that dates the session is the
\* time of the authentication.
LEMMA GoogleIdentityOrigins ==
    ASSUME Base, Origins, NEW r \in Callback, GoogleIdentity(r)
    PROVE  Settled /\ Origins'
  <1>1. /\ r \in Request /\ pc[r] = "google" /\ loc[r] \in Local
        /\ UNCHANGED <<external, session, handoff, logout, inp, took>>
    BY Kinds DEF GoogleIdentity, store, Base, TypeOK
  <1>2. Alone(r) /\ pc'[r] # "idle"
    BY <1>1 DEF GoogleIdentity, Base, TypeOK, Alone, Goto, Respond
  <1>3. Settled
    BY <1>1, <1>2, AloneSettled, Kinds
  <1>4. RowsFrom
    BY <1>1 DEF RowsFrom, ExternalFrom, SessionFrom, HandoffFrom, SameHandoff, LogoutFrom
  <1>5. CASE Respond(r, "502") /\ UNCHANGED loc
    <2>1. pc'[r] = "done"
      BY <1>1, <1>5 DEF Respond, Base, TypeOK
    <2>2. LearnsNothing
      BY <1>1, <1>2, <2>1, Kinds DEF LearnsNothing, Alone, ClaimedLabel, KnownLabel
    <2>. QED  BY <1>1, <1>3, <1>4, <2>2, PlainPreserves
  <1>6. ASSUME NEW u \in User, NEW t \in AppClock,
               loc' = [loc EXCEPT ![r].now = t, ![r].who = [user |-> u, at |-> t]]
        PROVE  Origins'
    <2>1. loc'[r].now = t /\ loc'[r].who.at = t /\ loc'[r].txn = loc[r].txn
      BY <1>1, <1>6 DEF Base, TypeOK, Local
    <2>2. TxnOf(r)'
      BY <1>1, <1>3, <2>1, TxnStays DEF Origins, HandlersKnow, ClaimedLabel
    <2>3. \A c \in Callback : c # r => pc'[c] = pc[c] /\ loc'[c] = loc[c]
      BY <1>2, Kinds DEF Alone
    <2>4. \A c \in Callback : pc'[c] \in ClaimedLabel => TxnOf(c)'
      BY <1>3, <2>2, <2>3, TxnStays DEF Origins, HandlersKnow, ClaimedLabel
    <2>5. \A c \in Callback : pc'[c] \in KnownLabel => loc'[c].now = loc'[c].who.at
      BY <2>1, <2>3 DEF Origins, HandlersKnow
    <2>6. \A l \in Login : pc'[l] = pc[l] /\ loc'[l] = loc[l]
      BY <1>2, Kinds DEF Alone
    <2>7. \A l \in Login : pc'[l] \in SsoLabel => WhoOf(l)'
      BY <1>3, <2>6, WhoStays DEF Origins, HandlersKnow, SsoLabel
    <2>8. HandlersKnow'
      BY <2>4, <2>5, <2>7 DEF HandlersKnow
    <2>. QED  BY <1>1, <1>3, <1>4, <2>8, LearningPreserves
  <1>. QED  BY <1>3, <1>5, <1>6 DEF GoogleIdentity

\* A login writes its own service, state and challenge into the transaction.
LEMMA ExternalHsetOrigins ==
    ASSUME Base, Origins, NEW r \in Login, ExternalHset(r)
    PROVE  Settled /\ Origins'
  <1>1. /\ r \in Request /\ r \in Ref /\ pc[r] = "external_hset"
        /\ UNCHANGED <<session, handoff, logout, inp, loc, took>>
    BY Kinds DEF ExternalHset
  <1>2. Alone(r) /\ pc'[r] = "external_expireat"
    BY <1>1 DEF ExternalHset, Base, TypeOK, Alone, Goto
  <1>3. Settled
    BY <1>1, <1>2, AloneSettled
  <1>4. LearnsNothing
    BY <1>1, <1>2, Kinds DEF LearnsNothing, Alone, SsoLabel
  <1>5. HandlersKnow'
    BY <1>3, <1>4, KnowledgeKept DEF Origins
  <1>6. ExternalRows(external)'
    <2>. DEFINE row == NewExternal(r)
    <2>1. /\ row.service = inp[r].service /\ row.state = inp[r].state
          /\ row.challenge = inp[r].challenge /\ row.expires = loc[r].now + ExternalTTL
      BY DEF NewExternal
    <2>2. external' = [external EXCEPT ![r] = row]
      BY DEF ExternalHset, Put
    <2>. HIDE DEF row
    <2>3. external'[r] = row /\ \A l \in Login : l # r => external'[l] = external[l]
      BY <1>1, <2>2, Kinds DEF Base, TypeOK
    <2>. QED  BY <1>1, <2>1, <2>3 DEF Origins, ExternalRows
  <1>7. SessionRows(session)' /\ HandoffRows(handoff)' /\ LogoutRows(logout)'
    BY <1>1, <1>3, SessionKept, HandoffKept, LogoutKept
       DEF Origins, SessionFrom, HandoffFrom, SameHandoff, LogoutFrom
  <1>8. UsesRight'
    BY <1>1, <1>3, UsesKept DEF Origins, UsesRight, Effective
  <1>. QED  BY <1>3, <1>5, <1>6, <1>7, <1>8 DEF Origins

\* A logout form is dated by the clock reading of the request that made it.
LEMMA LogoutHsetOrigins ==
    ASSUME Base, Origins, NEW r \in LogoutGet, LogoutHset(r)
    PROVE  Settled /\ Origins'
  <1>1. /\ r \in Request /\ r \in Ref /\ pc[r] = "logout_hset"
        /\ UNCHANGED <<external, session, handoff, inp, loc, took>>
    BY Kinds DEF LogoutHset
  <1>2. Alone(r) /\ pc'[r] = "logout_expireat"
    BY <1>1 DEF LogoutHset, Base, TypeOK, Alone, Goto
  <1>3. Settled
    BY <1>1, <1>2, AloneSettled
  <1>4. LearnsNothing
    BY <1>1, <1>2, Kinds DEF LearnsNothing, Alone
  <1>5. HandlersKnow'
    BY <1>3, <1>4, KnowledgeKept DEF Origins
  <1>6. LogoutRows(logout)'
    <2>. DEFINE row == NewLogout(r)
    <2>1. row.expires = loc[r].now + LogoutTTL
      BY DEF NewLogout
    <2>2. logout' = [logout EXCEPT ![r] = row]
      BY DEF LogoutHset, Put
    <2>. HIDE DEF row
    <2>3. logout'[r] = row /\ \A g \in LogoutGet : g # r => logout'[g] = logout[g]
      BY <1>1, <2>2, Kinds DEF Base, TypeOK
    <2>. QED  BY <1>1, <2>1, <2>3 DEF Origins, LogoutRows
  <1>7. ExternalRows(external)' /\ SessionRows(session)' /\ HandoffRows(handoff)'
    BY <1>1, <1>3, ExternalKept, SessionKept, HandoffKept
       DEF Origins, ExternalFrom, SessionFrom, HandoffFrom, SameHandoff
  <1>8. UsesRight'
    BY <1>1, <1>3, UsesKept DEF Origins, UsesRight, Effective
  <1>. QED  BY <1>3, <1>5, <1>6, <1>7, <1>8 DEF Origins

\* A use by request r: for all others nothing changes.
LEMMA OneUse ==
    ASSUME Base, Origins, Settled, NEW r \in Request, Alone(r),
           r \in Callback /\ took'[r] # None => CallbackRight(r)',
           r \in Exchange /\ took'[r] # None => ExchangeRight(r)',
           r \in LogoutPost /\ took'[r] # None => LogoutRight(r)',
           r \in Login /\ took'[r] # None => LoginRight(r)'
    PROVE  UsesRight'
  <1>1. \A q \in Request : q # r => took'[q] = took[q]
    BY DEF Alone
  <1>2. \A c \in Callback : took'[c] # None => CallbackRight(c)'
    BY <1>1, UsesKept, Kinds DEF Origins, UsesRight, Effective
  <1>3. \A x \in Exchange : took'[x] # None => ExchangeRight(x)'
    BY <1>1, UsesKept, Kinds DEF Origins, UsesRight, Effective
  <1>4. \A p \in LogoutPost : took'[p] # None => LogoutRight(p)'
    BY <1>1, UsesKept, Kinds DEF Origins, UsesRight, Effective
  <1>5. \A l \in Login : took'[l] # None => LoginRight(l)'
    BY <1>1, UsesKept, Kinds DEF Origins, UsesRight, Effective
  <1>. QED  BY <1>2, <1>3, <1>4, <1>5 DEF UsesRight, Effective

\* A callback takes over what its login wrote into the transaction, before the
\* transaction expires.
LEMMA ClaimOrigins ==
    ASSUME Base, Origins, NEW r \in Callback, Claim(r)
    PROVE  Settled /\ Origins'
  <1>1. /\ r \in Request /\ pc[r] = "idle" /\ took[r] = None /\ loc[r] \in Local
        /\ UNCHANGED <<session, handoff, logout>>
    BY Kinds DEF Claim, Base, TypeOK, Phase
  <1>2. Alone(r)
    BY <1>1 DEF Claim, Base, TypeOK, Alone, Goto, Respond, Present, TakesEffect
  <1>3. Settled
    BY <1>1, <1>2, AloneSettled
  <1>4. PICK k \in OauthStates :
           \/ /\ ClaimReply(external[k], now) = "Ok"
              /\ Present(r, [NoInput EXCEPT !.ref = k])
              /\ external' = Put(external, k, [external[k] EXCEPT !.status = "processing"])
              /\ loc' = [loc EXCEPT ![r].txn = [external[k] EXCEPT !.status = "processing"]]
              /\ TakesEffect(r)
              /\ Goto(r, "callback_service")
           \/ /\ external' = Del(external, k) \/ external' = external
              /\ Respond(r, "400")
              /\ UNCHANGED <<inp, loc, took>>
    BY DEF Claim
  <1>5. k \in Ref
    BY Kinds DEF OauthStates
  <1>6. CASE /\ external' = Del(external, k) \/ external' = external
             /\ Respond(r, "400")
             /\ UNCHANGED <<inp, loc, took>>
    <2>1. pc'[r] = "done"
      BY <1>1, <1>6 DEF Respond, Base, TypeOK
    <2>2. LearnsNothing
      BY <1>1, <1>2, <2>1, Kinds DEF LearnsNothing, Alone, ClaimedLabel, KnownLabel
    <2>3. RowsFrom
      BY <1>1, <1>5, <1>6, Kinds
         DEF Del, Base, TypeOK, RowsFrom, ExternalFrom, SessionFrom, HandoffFrom,
             SameHandoff, LogoutFrom
    <2>. QED  BY <1>3, <1>6, <2>2, <2>3, PlainPreserves
  <1>7. ASSUME ClaimReply(external[k], now) = "Ok",
               Present(r, [NoInput EXCEPT !.ref = k]),
               external' = Put(external, k, [external[k] EXCEPT !.status = "processing"]),
               loc' = [loc EXCEPT ![r].txn = [external[k] EXCEPT !.status = "processing"]],
               TakesEffect(r), Goto(r, "callback_service")
        PROVE  Origins'
    <2>. DEFINE row == [external[k] EXCEPT !.status = "processing"]
    <2>1. external[k] \in ExternalRow /\ external[k] # None /\ now < external[k].expires
      BY <1>5, <1>7 DEF ClaimReply, ExternalRow, Base, TypeOK
    <2>2. k \in Login /\ pc[k] = "done" /\ k # r /\ k \in Request
      <3>1. k \in Login /\ resp[k] = "google"
        BY <1>5, <2>1, Kinds DEF OauthStates, Base, Written
      <3>. QED  BY <3>1, Kinds DEF Base, Phase
    <2>3. /\ row.service = external[k].service /\ row.state = external[k].state
          /\ row.challenge = external[k].challenge /\ row.expires = external[k].expires
      BY <2>1 DEF ExternalRow
    <2>4. /\ external' = [external EXCEPT ![k] = row]
          /\ inp'[r].ref = k
          /\ loc'[r].txn = row
          /\ took'[r] = now
          /\ pc'[r] = "callback_service"
      BY <1>1, <1>7 DEF Put, Present, TakesEffect, Goto, Base, TypeOK, Local, NoInput
    <2>. HIDE DEF row
    <2>5. /\ external[k].service = inp[k].service /\ external[k].state = inp[k].state
          /\ external[k].challenge = inp[k].challenge
          /\ external[k].expires = loc[k].now + ExternalTTL
      BY <2>1, <2>2 DEF Origins, ExternalRows
    <2>6. pc'[k] = "done" /\ inp'[k] = inp[k] /\ loc'[k] = loc[k]
      BY <1>2, <2>2 DEF Alone
    <2>7. TxnOf(r)'
      BY <2>2, <2>3, <2>4, <2>5, <2>6 DEF TxnOf
    <2>8. HandlersKnow'
      <3>1. \A c \in Callback : c # r => pc'[c] = pc[c] /\ loc'[c] = loc[c]
        BY <1>2, Kinds DEF Alone
      <3>2. \A c \in Callback : pc'[c] \in ClaimedLabel => TxnOf(c)'
        BY <1>3, <2>7, <3>1, TxnStays DEF Origins, HandlersKnow, ClaimedLabel
      <3>3. \A c \in Callback : pc'[c] \in KnownLabel => loc'[c].now = loc'[c].who.at
        BY <2>4, <3>1 DEF Origins, HandlersKnow, KnownLabel
      <3>4. \A l \in Login : pc'[l] = pc[l] /\ loc'[l] = loc[l]
        BY <1>2, Kinds DEF Alone
      <3>5. \A l \in Login : pc'[l] \in SsoLabel => WhoOf(l)'
        BY <1>3, <3>4, WhoStays DEF Origins, HandlersKnow, SsoLabel
      <3>. QED  BY <3>2, <3>3, <3>5 DEF HandlersKnow
    <2>9. ExternalFrom
      BY <1>5, <2>1, <2>3, <2>4, Kinds DEF Base, TypeOK, ExternalFrom
    <2>10. SessionFrom /\ HandoffFrom /\ LogoutFrom
      BY <1>1 DEF SessionFrom, HandoffFrom, SameHandoff, LogoutFrom
    <2>11. ExternalRows(external)' /\ SessionRows(session)' /\ HandoffRows(handoff)'
           /\ LogoutRows(logout)'
      BY <1>3, <2>9, <2>10, ExternalKept, SessionKept, HandoffKept, LogoutKept DEF Origins
    <2>12. CallbackRight(r)'
      BY <2>1, <2>2, <2>4, <2>5, <2>6 DEF CallbackRight
    <2>13. UsesRight'
      BY <1>1, <1>2, <1>3, <2>12, OneUse, Kinds
    <2>. QED  BY <2>8, <2>11, <2>13 DEF Origins
  <1>. QED  BY <1>3, <1>4, <1>6, <1>7

\* A callback dates its session with the authentication, and its handoff
\* answers the login whose transaction it claimed.
LEMMA CreateSessionOrigins ==
    ASSUME Base, Origins, NEW r \in Callback, CreateSession(r)
    PROVE  Settled /\ Origins'
  <1>1. /\ r \in Request /\ r \in Ref /\ pc[r] = "create" /\ loc[r].who \in Who
        /\ UNCHANGED <<external, logout, inp, loc, took>>
    BY Kinds DEF CreateSession, Base, TypeOK, Phase
  <1>2. Alone(r) /\ pc'[r] = "done"
    BY <1>1 DEF CreateSession, Base, TypeOK, Alone, RespondOrLose, Respond
  <1>3. Settled
    BY <1>1, <1>2, AloneSettled
  <1>4. LearnsNothing
    BY <1>1, <1>2, Kinds DEF LearnsNothing, Alone, ClaimedLabel, KnownLabel
  <1>5. CASE UNCHANGED <<session, handoff>>
    <2>1. RowsFrom
      BY <1>1, <1>5 DEF RowsFrom, ExternalFrom, SessionFrom, HandoffFrom, SameHandoff, LogoutFrom
    <2>. QED  BY <1>1, <1>3, <1>4, <2>1, PlainPreserves
  <1>6. CASE /\ session' = Put(session, r, NewSession(r))
             /\ handoff' = Put(handoff, r, NewHandoff(r))
    <2>. DEFINE row == NewSession(r)
                code == NewHandoff(r)
    <2>1. /\ row.user = loc[r].who.user /\ row.at = loc[r].who.at
          /\ row.expires = loc[r].now + SessionTTL
      BY DEF NewSession
    <2>2. /\ code.service = loc[r].txn.service /\ code.user = loc[r].who.user
          /\ code.challenge = loc[r].txn.challenge /\ code.at = loc[r].who.at
          /\ code.expires = loc[r].now + HandoffTTL
      BY DEF NewHandoff
    <2>3. session' = [session EXCEPT ![r] = row] /\ handoff' = [handoff EXCEPT ![r] = code]
      BY <1>6 DEF Put
    <2>. HIDE DEF row, code
    <2>4. session'[r] = row /\ \A c \in Callback : c # r => session'[c] = session[c]
      BY <1>1, <2>3, Kinds DEF Base, TypeOK
    <2>5. /\ handoff'[r] = code
          /\ \A h \in Login \cup Callback : h # r => handoff'[h] = handoff[h]
      BY <1>1, <2>3, Kinds DEF Base, TypeOK
    <2>6. TxnOf(r) /\ loc[r].now = loc[r].who.at
      BY <1>1 DEF Origins, HandlersKnow, ClaimedLabel, KnownLabel
    <2>7. SessionRows(session)'
      BY <1>1, <2>1, <2>4, <2>6 DEF Origins, SessionRows
    <2>8. TxnOf(r)'
      BY <1>1, <1>3, <2>6, TxnStays
    <2>9. HandoffOf(r, handoff[r])'
      BY <1>1, <1>2, <2>2, <2>5, <2>8 DEF HandoffOf, LoginOf, AuthenticatedBy, TxnOf
    <2>10. HandoffRows(handoff)'
      BY <1>3, <2>5, <2>9, OneHandoff DEF Origins
    <2>11. ExternalRows(external)' /\ LogoutRows(logout)'
      BY <1>1, <1>3, ExternalKept, LogoutKept DEF Origins, ExternalFrom, LogoutFrom
    <2>12. HandlersKnow'
      BY <1>3, <1>4, KnowledgeKept DEF Origins
    <2>13. UsesRight'
      BY <1>1, <1>3, UsesKept DEF Origins, UsesRight, Effective
    <2>. QED  BY <1>3, <2>7, <2>10, <2>11, <2>12, <2>13 DEF Origins
  <1>. QED  BY <1>5, <1>6 DEF CreateSession

\* What ISSUE_SSO_HANDOFF_SCRIPT has checked when it answers Ok.
LEMMA IssueSsoOk ==
    ASSUME NEW srow \in SessionRow \cup {None}, NEW old, NEW key, NEW code, NEW time \in Nat,
           IssueSsoReply(srow, old, key, code, time) = "Ok"
    PROVE  srow \in SessionRow /\ srow # None /\ time < srow.expires
  <1>1. srow # None /\ ~(time >= srow.expires)
    BY DEF IssueSsoReply
  <1>2. srow \in SessionRow /\ srow.expires \in Nat
    BY <1>1 DEF SessionRow
  <1>. QED  BY <1>1, <1>2

\* The same for EXCHANGE_HANDOFF_SCRIPT.
LEMMA ExchangeOk ==
    ASSUME NEW row \in HandoffRow(Ref) \cup {None}, NEW srow \in SessionRow \cup {None},
           NEW lookup, NEW service, NEW challenge, NEW time \in Nat,
           ExchangeReply(row, srow, lookup, service, challenge, time) = "Ok"
    PROVE  /\ row \in HandoffRow(Ref) /\ row # None /\ time < row.expires
           /\ row.status # "used" /\ row.service = service /\ row.challenge = challenge
           /\ row.session = lookup
           /\ srow \in SessionRow /\ srow # None /\ time < srow.expires
           /\ row.user = srow.user /\ row.at = srow.at
  <1>1. /\ row # None /\ ~(time >= row.expires) /\ row.status # "used"
        /\ row.service = service /\ row.challenge = challenge /\ row.session = lookup
        /\ srow # None /\ ~(time >= srow.expires)
        /\ row.user = srow.user /\ row.at = srow.at
    BY DEF ExchangeReply
  <1>2. row \in HandoffRow(Ref) /\ row.expires \in Nat
    BY <1>1 DEF HandoffRow
  <1>3. srow \in SessionRow /\ srow.expires \in Nat
    BY <1>1 DEF SessionRow
  <1>. QED  BY <1>1, <1>2, <1>3

\* Single sign-on answers the login itself, with the person and the time of the
\* session of its cookie, before the session expires.
LEMMA IssueSsoOrigins ==
    ASSUME Base, Origins, NEW r \in Login, IssueSso(r)
    PROVE  Settled /\ Origins'
  <1>. DEFINE k == inp[r].cookie
              code == SsoHandoff(r)
              reply == IssueSsoReply(session[k], handoff[r], k, code, now)
  <1>1. /\ r \in Request /\ r \in Ref /\ pc[r] = "issue" /\ took[r] = None /\ k \in Ref
        /\ loc[r].who \in Who /\ loc[r] \in Local /\ now \in Nat
        /\ UNCHANGED <<external, logout, inp, loc>>
    BY Kinds DEF IssueSso, Base, TypeOK, Phase
  <1>2. Alone(r) /\ pc'[r] \in {"done", "external_hset"}
    BY <1>1 DEF IssueSso, Base, TypeOK, Alone, RespondOrLose, Respond, Goto, TakesEffect
  <1>3. Settled
    BY <1>1, <1>2, AloneSettled
  <1>4. LearnsNothing
    BY <1>1, <1>2, Kinds DEF LearnsNothing, Alone, SsoLabel
  <1>5. CASE /\ session' = Del(session, k) \/ session' = session
             /\ UNCHANGED <<handoff, took>>
    <2>. HIDE DEF k
    <2>1. RowsFrom
      BY <1>1, <1>5, Kinds
         DEF Del, Base, TypeOK, RowsFrom, ExternalFrom, SessionFrom, HandoffFrom,
             SameHandoff, LogoutFrom
    <2>. QED  BY <1>3, <1>4, <1>5, <2>1, PlainPreserves
  <1>6. ASSUME reply = "Ok", handoff' = Put(handoff, r, code), TakesEffect(r), session' = session,
               RespondOrLose(r, "callback")
        PROVE  Origins'
    <2>1. session[k] \in SessionRow /\ session[k] # None /\ now < session[k].expires
      BY <1>1, <1>6, IssueSsoOk DEF Base, TypeOK
    <2>2. /\ code.service = inp[r].service /\ code.user = loc[r].who.user
          /\ code.challenge = inp[r].challenge /\ code.at = loc[r].who.at
          /\ code.expires = loc[r].now + HandoffTTL
      BY DEF SsoHandoff
    <2>3. handoff' = [handoff EXCEPT ![r] = code] /\ took'[r] = now /\ pc'[r] = "done"
      BY <1>1, <1>6 DEF Put, TakesEffect, RespondOrLose, Respond, Base, TypeOK
    <2>. HIDE DEF code, reply
    <2>4. /\ handoff'[r] = code
          /\ \A h \in Login \cup Callback : h # r => handoff'[h] = handoff[h]
      BY <1>1, <2>3, Kinds DEF Base, TypeOK
    <2>5. WhoOf(r)
      BY <1>1 DEF Origins, HandlersKnow, SsoLabel
    <2>6. WhoOf(r)'
      BY <1>1, <1>3, <2>5, WhoStays
    <2>7. HandoffOf(r, handoff[r])'
      BY <1>1, <2>2, <2>3, <2>4, <2>6, Kinds DEF HandoffOf, LoginOf, AuthenticatedBy, WhoOf
    <2>8. HandoffRows(handoff)'
      BY <1>3, <2>4, <2>7, OneHandoff DEF Origins
    <2>9. ExternalRows(external)' /\ SessionRows(session)' /\ LogoutRows(logout)'
      BY <1>1, <1>3, <1>6, ExternalKept, SessionKept, LogoutKept
         DEF Origins, ExternalFrom, SessionFrom, LogoutFrom
    <2>10. HandlersKnow'
      BY <1>3, <1>4, KnowledgeKept DEF Origins
    <2>11. session[k].expires = loc[k].who.at + SessionTTL /\ loc[k].who = loc[r].who
      BY <2>1, <2>5 DEF Origins, SessionRows, WhoOf
    <2>12. LoginRight(r)'
      BY <1>1, <2>1, <2>3, <2>11 DEF LoginRight
    <2>13. UsesRight'
      BY <1>1, <1>2, <1>3, <2>12, OneUse, Kinds
    <2>. QED  BY <2>8, <2>9, <2>10, <2>13 DEF Origins
  <1>. QED  BY <1>3, <1>5, <1>6 DEF IssueSso

\* What an exchange answers is in the row of the handoff and was checked against
\* the row of the session.
LEMMA ExchangeHandoffOrigins ==
    ASSUME Base, Origins, NEW r \in Exchange, ExchangeHandoff(r)
    PROVE  Settled /\ Origins'
  <1>. DEFINE h == inp[r].ref
              k == loc[r].session
              row == handoff[h]
              reply == ExchangeReply(row, session[k], k, inp[r].service, inp[r].challenge, now)
  <1>1. /\ r \in Request /\ pc[r] = "exchange" /\ took[r] = None /\ h \in Ref /\ k \in Ref
        /\ loc[r] \in Local /\ now \in Nat
        /\ UNCHANGED <<external, logout, inp>>
    BY Kinds DEF ExchangeHandoff, Base, TypeOK, Phase
  <1>2. Alone(r) /\ pc'[r] = "done"
    BY <1>1 DEF ExchangeHandoff, Base, TypeOK, Alone, RespondOrLose, Respond, TakesEffect
  <1>3. Settled
    BY <1>1, <1>2, AloneSettled, Kinds
  <1>4. LearnsNothing
    BY <1>1, <1>2, Kinds DEF LearnsNothing, Alone
  <1>5. CASE /\ handoff' = Del(handoff, h) \/ handoff' = handoff
             /\ session' = Del(session, k) \/ session' = session
             /\ took' = took
    <2>. HIDE DEF h, k
    <2>1. RowsFrom
      BY <1>1, <1>5, Kinds
         DEF Del, Base, TypeOK, RowsFrom, ExternalFrom, SessionFrom, HandoffFrom,
             SameHandoff, LogoutFrom
    <2>. QED  BY <1>3, <1>4, <1>5, <2>1, PlainPreserves
  <1>6. ASSUME reply = "Ok",
               handoff' = Put(handoff, h, [row EXCEPT !.status = "used"]),
               loc' = [loc EXCEPT ![r].who = [user |-> row.user, at |-> row.at]],
               TakesEffect(r), session' = session
        PROVE  Origins'
    <2>1. /\ row \in HandoffRow(Ref) /\ row # None /\ now < row.expires
          /\ row.service = inp[r].service /\ row.challenge = inp[r].challenge
          /\ session[k] \in SessionRow /\ session[k] # None /\ now < session[k].expires
          /\ row.user = session[k].user /\ row.at = session[k].at
      BY <1>1, <1>6, ExchangeOk DEF Base, TypeOK
    <2>2. took'[r] = now /\ loc'[r].who = [user |-> row.user, at |-> row.at]
      BY <1>1, <1>6 DEF TakesEffect, Base, TypeOK, Local
    <2>3. HandoffFrom
      <3>. DEFINE new == [row EXCEPT !.status = "used"]
      <3>1. /\ new.service = row.service /\ new.challenge = row.challenge
            /\ new.user = row.user /\ new.at = row.at /\ new.expires = row.expires
        BY <2>1 DEF HandoffRow
      <3>2. handoff' = [handoff EXCEPT ![h] = new]
        BY <1>6 DEF Put
      <3>. HIDE DEF new
      <3>3. \A q \in Ref : handoff'[q] = IF q = h THEN new ELSE handoff[q]
        BY <1>1, <3>2 DEF Base, TypeOK
      <3>. QED  BY <2>1, <3>1, <3>3, Kinds DEF HandoffFrom, SameHandoff
    <2>. HIDE DEF reply
    <2>4. ExternalRows(external)' /\ SessionRows(session)' /\ HandoffRows(handoff)'
          /\ LogoutRows(logout)'
      BY <1>1, <1>3, <1>6, <2>3, ExternalKept, SessionKept, HandoffKept, LogoutKept
         DEF Origins, ExternalFrom, SessionFrom, LogoutFrom
    <2>5. HandlersKnow'
      BY <1>3, <1>4, KnowledgeKept DEF Origins
    <2>6. h \in Login \cup Callback /\ pc[h] = "done" /\ h \in Request
      BY <1>1, <2>1, Kinds DEF Base, Written
    <2>7. HandoffOf(h, row)
      BY <2>1, <2>6 DEF Origins, HandoffRows
    <2>8. session[k].expires = row.at + SessionTTL
      <3>1. k \in Callback
        BY <1>1, <2>1 DEF Base, Written
      <3>. QED  BY <2>1, <3>1 DEF Origins, SessionRows
    <2>9. ExchangeRight(r)'
      <3>. DEFINE l == LoginOf(h)
                  c == AuthenticatedBy(h)
      <3>1. /\ l \in Login /\ pc[l] = "done" /\ c \in Callback /\ pc[c] = "done"
            /\ h # r /\ l # r /\ c # r /\ l \in Request /\ c \in Request
            /\ (h \in Callback => loc[h].txn.state = inp[l].state)
        BY <2>6, <2>7, Kinds DEF HandoffOf, TxnOf, LoginOf
      <3>2. /\ pc'[h] = "done" /\ inp'[h] = inp[h] /\ loc'[h] = loc[h]
            /\ pc'[l] = "done" /\ inp'[l] = inp[l]
            /\ pc'[c] = "done" /\ loc'[c] = loc[c]
        BY <1>2, <2>6, <3>1 DEF Alone
      <3>3. h' = h /\ l' = l /\ c' = c
        BY <1>1, <3>2 DEF LoginOf, AuthenticatedBy
      <3>4. loc[c].who = [user |-> row.user, at |-> row.at]
        BY <2>7 DEF HandoffOf, Who
      <3>5. /\ now < loc[h].now + HandoffTTL
            /\ inp[l].service = inp[r].service /\ inp[l].challenge = inp[r].challenge
        BY <2>1, <2>7 DEF HandoffOf
      <3>6. now < row.at + SessionTTL
        BY <2>1, <2>8
      <3>. HIDE DEF row
      <3>7. loc'[r].who.at = row.at
        BY <2>2
      <3>8. inp'[r] = inp[r]
        BY <1>1
      <3>. HIDE DEF l, c, h
      <3>9. /\ h' \in Login \cup Callback
            /\ pc'[h'] = "done" /\ pc'[l'] = "done" /\ pc'[c'] = "done"
            /\ l' \in Login
            /\ inp'[l'].service = inp'[r].service
            /\ inp'[l'].challenge = inp'[r].challenge
            /\ h' \in Callback => loc'[h'].txn.state = inp'[l'].state
            /\ c' \in Callback
            /\ loc'[c'].who = loc'[r].who
            /\ took'[r] < loc'[h'].now + HandoffTTL
            /\ took'[r] < loc'[r].who.at + SessionTTL
        BY <2>2, <2>6, <3>1, <3>2, <3>3, <3>4, <3>5, <3>6, <3>7, <3>8
      <3>. QED  BY <3>9 DEF ExchangeRight, l, c, h
    <2>10. UsesRight'
      BY <1>1, <1>2, <1>3, <2>9, OneUse, Kinds
    <2>. QED  BY <2>4, <2>5, <2>10 DEF Origins
  <1>. QED  BY <1>3, <1>5, <1>6 DEF ExchangeHandoff

\* A logout form is used before it expires.
LEMMA CompleteLogoutOrigins ==
    ASSUME Base, Origins, NEW r \in LogoutPost, CompleteLogout(r)
    PROVE  Settled /\ Origins'
  <1>1. /\ r \in Request /\ pc[r] = "idle" /\ took[r] = None /\ now \in Nat
        /\ UNCHANGED <<external, handoff, loc>>
    BY Kinds DEF CompleteLogout, Base, TypeOK, Phase
  <1>2. Alone(r)
    BY <1>1 DEF CompleteLogout, Base, TypeOK, Alone, Respond, RespondOrLose, Present, TakesEffect
  <1>3. Settled
    BY <1>1, <1>2, AloneSettled
  <1>4. LearnsNothing
    BY <1>1, <1>2, Kinds DEF LearnsNothing, Alone
  <1>5. PICK g \in LogoutForms, f \in LogoutForms, k \in Cookies :
           \/ /\ k # None
              /\ LogoutReply(logout[g], f, now) = "Ok"
              /\ Present(r, [NoInput EXCEPT !.ref = g, !.csrf = f, !.cookie = k])
              /\ logout' = Put(logout, g, [logout[g] EXCEPT !.status = "used"])
              /\ session' = Del(session, k)
              /\ TakesEffect(r)
           \/ /\ logout' = Del(logout, g) \/ logout' = logout
              /\ UNCHANGED <<session, inp, took>>
    BY DEF CompleteLogout
  <1>6. g \in Ref /\ k \in Ref \cup {None}
    BY Kinds DEF LogoutForms, Cookies
  <1>7. CASE /\ logout' = Del(logout, g) \/ logout' = logout
             /\ UNCHANGED <<session, inp, took>>
    <2>1. RowsFrom
      BY <1>1, <1>6, <1>7, Kinds
         DEF Del, Base, TypeOK, RowsFrom, ExternalFrom, SessionFrom, HandoffFrom,
             SameHandoff, LogoutFrom
    <2>. QED  BY <1>3, <1>4, <1>7, <2>1, PlainPreserves
  <1>8. ASSUME k # None,
               LogoutReply(logout[g], f, now) = "Ok",
               Present(r, [NoInput EXCEPT !.ref = g, !.csrf = f, !.cookie = k]),
               logout' = Put(logout, g, [logout[g] EXCEPT !.status = "used"]),
               session' = Del(session, k),
               TakesEffect(r)
        PROVE  Origins'
    <2>. DEFINE row == [logout[g] EXCEPT !.status = "used"]
    <2>1. logout[g] \in LogoutRow(Ref) /\ logout[g] # None /\ now < logout[g].expires
      BY <1>1, <1>6, <1>8 DEF LogoutReply, LogoutRow, Base, TypeOK
    <2>2. g \in LogoutGet /\ pc[g] = "done" /\ g # r /\ g \in Request
      <3>1. g \in LogoutGet /\ resp[g] = "page"
        BY <1>6, <2>1, Kinds DEF LogoutForms, Base, Written
      <3>. QED  BY <3>1, Kinds DEF Base, Phase
    <2>3. row.expires = logout[g].expires
      BY <2>1 DEF LogoutRow
    <2>4. /\ logout' = [logout EXCEPT ![g] = row]
          /\ inp'[r].ref = g
          /\ took'[r] = now
      BY <1>1, <1>8 DEF Put, Present, TakesEffect, Base, TypeOK, NoInput
    <2>. HIDE DEF row
    <2>5. LogoutFrom
      BY <1>6, <2>1, <2>3, <2>4, Kinds DEF Base, TypeOK, LogoutFrom
    <2>6. SessionFrom
      BY <1>8, Kinds DEF Del, Base, TypeOK, SessionFrom
    <2>7. ExternalFrom /\ HandoffFrom
      BY <1>1 DEF ExternalFrom, HandoffFrom, SameHandoff
    <2>8. ExternalRows(external)' /\ SessionRows(session)' /\ HandoffRows(handoff)'
          /\ LogoutRows(logout)'
      BY <1>3, <2>5, <2>6, <2>7, ExternalKept, SessionKept, HandoffKept, LogoutKept DEF Origins
    <2>9. HandlersKnow'
      BY <1>3, <1>4, KnowledgeKept DEF Origins
    <2>10. logout[g].expires = loc[g].now + LogoutTTL
      BY <2>1, <2>2 DEF Origins, LogoutRows
    <2>11. LogoutRight(r)'
      BY <1>1, <1>2, <2>1, <2>2, <2>4, <2>10 DEF LogoutRight, Alone
    <2>12. UsesRight'
      BY <1>1, <1>2, <1>3, <2>11, OneUse, Kinds
    <2>. QED  BY <2>8, <2>9, <2>12 DEF Origins
  <1>. QED  BY <1>3, <1>5, <1>7, <1>8
-----------------------------------------------------------------------------
\* At first there are no rows, and nobody knows or has used anything.
LEMMA InitOrigins == ASSUME Init PROVE Origins
  <1>1. /\ \A k \in Ref : external[k] = None /\ session[k] = None /\ handoff[k] = None
                          /\ logout[k] = None
        /\ \A r \in Request : pc[r] = "idle" /\ took[r] = None
    BY DEF Init
  <1>2. HandlersKnow
    BY <1>1, Kinds DEF HandlersKnow, ClaimedLabel, KnownLabel, SsoLabel
  <1>3. ExternalRows(external) /\ SessionRows(session) /\ HandoffRows(handoff) /\ LogoutRows(logout)
    BY <1>1, Kinds DEF ExternalRows, SessionRows, HandoffRows, LogoutRows
  <1>4. UsesRight
    BY <1>1, Kinds DEF UsesRight, Effective
  <1>. QED  BY <1>2, <1>3, <1>4 DEF Origins

\* Every step of the handlers and of the environment keeps the origins.
LEMMA StepOrigins ==
    ASSUME Base, Origins, [Next]_vars
    PROVE  Settled /\ Origins'
  <1>1. ASSUME NEW r \in Login, LoginHandler(r) PROVE Settled /\ Origins'
    <2>. r \in Request
      BY Kinds
    <2>1. CASE CheckUser(r)
      BY <2>1, CheckOrigins
    <2>2. CASE ExternalExpireat(r)
      BY <2>2, ExpireatOrigins
    <2>. QED
      BY <1>1, <2>1, <2>2, LoginStartOrigins, ReadSessionOrigins, DelSessionOrigins,
         IssueSsoOrigins, ExternalHsetOrigins DEF LoginHandler
  <1>2. ASSUME NEW r \in Callback, CallbackHandler(r) PROVE Settled /\ Origins'
    <2>. r \in Request
      BY Kinds
    <2>1. CASE CallbackService(r) \/ ResolveIdentity(r)
      BY <2>1, CheckOrigins
    <2>. QED
      BY <1>2, <2>1, ClaimOrigins, GoogleIdentityOrigins, CreateSessionOrigins DEF CallbackHandler
  <1>3. ASSUME NEW r \in Exchange, ExchangeHandler(r) PROVE Settled /\ Origins'
    <2>. r \in Request
      BY Kinds
    <2>1. CASE HandoffType(r)
      BY <2>1, CheckOrigins
    <2>. QED
      BY <1>3, <2>1, ExchangeStartOrigins, HandoffHgetOrigins, ExchangeHandoffOrigins
         DEF ExchangeHandler
  <1>4. ASSUME NEW r \in LogoutGet, LogoutGetHandler(r) PROVE Settled /\ Origins'
    <2>. r \in Request
      BY Kinds
    <2>1. CASE LogoutExpireat(r)
      BY <2>1, ExpireatOrigins
    <2>. QED
      BY <1>4, <2>1, LogoutGetStartOrigins, LogoutHsetOrigins DEF LogoutGetHandler
  <1>5. ASSUME NEW r \in LogoutPost, CompleteLogout(r) PROVE Settled /\ Origins'
    BY <1>5, CompleteLogoutOrigins
  <1>6. CASE Environment
    <2>1. ASSUME NEW r \in Request, Fail(r) PROVE Settled /\ Origins'
      BY <2>1, CheckOrigins
    <2>. QED  BY <1>6, <2>1, EnvironmentOrigins DEF Environment
  <1>7. CASE UNCHANGED vars
    <2>1. Settled /\ RowsFrom /\ LearnsNothing /\ took' = took
      BY <1>7
         DEF vars, Settled, LearnsNothing, RowsFrom, ExternalFrom, SessionFrom, HandoffFrom,
             SameHandoff, LogoutFrom
    <2>. QED  BY <2>1, PlainPreserves
  <1>. QED  BY <1>1, <1>2, <1>3, <1>4, <1>5, <1>6, <1>7 DEF Next, Handler

\* In every behaviour, every row and every value a handler goes on with can be
\* traced to the requests it was made by and for.
THEOREM OriginsHold == Spec => []Origins
  <1>1. Init => Origins
    BY InitOrigins
  <1>2. IInv /\ Origins /\ [Next]_vars => Origins'
    BY StepOrigins DEF IInv
  <1>. QED  BY <1>1, <1>2, Invariance, PTL DEF Spec

\* What an exchange returns is the person and the time of one Google
\* authentication, for a login the same service began with the same challenge,
\* whatever was interleaved, lost, expired or logged out on the way.
THEOREM ExchangesAnswerTheirLogin == Spec => []ExchangeAnswersItsLogin
  <1>1. Origins => ExchangeAnswersItsLogin
    BY DEF Origins, UsesRight, ExchangeRight, ExchangeAnswersItsLogin
  <1>. QED  BY <1>1, OriginsHold, PTL

\* OAuth states, handoff codes, logout forms and sessions are used strictly
\* within their lifetime, for any lifetimes, any skew between the clocks, and
\* whether or not EXPIREAT ran.
THEOREM NothingUsedPastItsLifetime == Spec => []UsedWithinLifetime
  <1>1. Origins => UsedWithinLifetime
    <2>. SUFFICES ASSUME Origins PROVE UsedWithinLifetime
      OBVIOUS
    <2>1. \A c \in Effective(Callback) : took[c] < loc[inp[c].ref].now + ExternalTTL
      BY DEF Origins, UsesRight, CallbackRight
    <2>2. \A x \in Effective(Exchange) : took[x] < loc[inp[x].ref].now + HandoffTTL
      BY DEF Origins, UsesRight, ExchangeRight
    <2>3. \A p \in Effective(LogoutPost) : took[p] < loc[inp[p].ref].now + LogoutTTL
      BY DEF Origins, UsesRight, LogoutRight
    <2>4. \A r \in Effective(Login \cup Exchange) : took[r] < loc[r].who.at + SessionTTL
      BY DEF Origins, UsesRight, ExchangeRight, LoginRight, Effective
    <2>. QED  BY <2>1, <2>2, <2>3, <2>4 DEF UsedWithinLifetime
  <1>. QED  BY <1>1, OriginsHold, PTL
=============================================================================
