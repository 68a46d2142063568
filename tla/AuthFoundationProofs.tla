------------------------ MODULE AuthFoundationProofs ------------------------
(***************************************************************************)
(* Proofs about AuthFoundation for any number of requests, services and    *)
(* users, any skew and any lifetimes.  That a code, an OAuth state and a   *)
(* logout form are used at most once rests on three further facts: which   *)
(* handler can be where (Phase), that a key exists only if its request has *)
(* written it (Written), and that the row of a used reference value is     *)
(* either gone for good or marked (Spent).                                 *)
(***************************************************************************)
EXTENDS AuthFoundation, TLAPS

LoginLabel == {"idle", "read_session", "del_session", "check_user", "issue",
               "external_hset", "external_expireat", "done"}
CallbackLabel == {"idle", "callback_service", "google", "resolve", "create", "done"}
ExchangeLabel == {"idle", "handoff_type", "handoff_hget", "exchange", "done"}
LogoutGetLabel == {"idle", "logout_hset", "logout_expireat", "done"}
LogoutPostLabel == {"idle", "done"}

\* What a request has read and been given when its handler is at a label.
Phase ==
    /\ \A r \in Request : resp[r] # "none" => pc[r] = "done"
    /\ \A r \in Request : pc[r] = "idle" => took[r] = None
    /\ \A r \in Login :
          /\ pc[r] \in LoginLabel
          /\ pc[r] \notin {"idle", "done"} =>
                /\ inp[r].service \in Service
                /\ inp[r].state \in ServiceState
                /\ inp[r].challenge \in Challenge
                /\ took[r] = None
          /\ pc[r] \in {"read_session", "del_session", "check_user", "issue"} =>
                inp[r].cookie \in Ref
          /\ pc[r] \in {"check_user", "issue"} => loc[r].who \in Who
    /\ \A r \in Callback :
          /\ pc[r] \in CallbackLabel
          /\ pc[r] \notin {"idle", "done"} => loc[r].txn \in ExternalRow
          /\ pc[r] \in {"resolve", "create"} => loc[r].who \in Who
    /\ \A r \in Exchange :
          /\ pc[r] \in ExchangeLabel
          /\ pc[r] \notin {"idle", "done"} => inp[r].ref \in Ref /\ took[r] = None
          /\ pc[r] = "exchange" => loc[r].session \in Ref
    /\ \A r \in LogoutGet :
          /\ pc[r] \in LogoutGetLabel
          /\ pc[r] \notin {"idle", "done"} => inp[r].service \in Service
    /\ \A r \in LogoutPost : pc[r] \in LogoutPostLabel

\* A key exists only if the request it is named after has written it.
Written ==
    \A k \in Ref :
       /\ external[k] # None => k \in Login /\ pc[k] \in {"external_expireat", "done"}
       /\ session[k] # None => k \in Callback /\ pc[k] = "done"
       /\ handoff[k] # None => k \in Login \cup Callback /\ pc[k] = "done"
       /\ logout[k] # None => k \in LogoutGet /\ pc[k] \in {"logout_expireat", "done"}

\* A reference value that was used is spent: the request that would write its
\* key is over, and the row is gone or marked.
Spent ==
    /\ \A c \in Effective(Callback) :
          LET l == inp[c].ref IN
          /\ l \in Login
          /\ pc[l] = "done"
          /\ external[l] = None \/ external[l].status = "processing"
    /\ \A x \in Effective(Exchange) :
          LET h == inp[x].ref IN
          /\ h \in Login \cup Callback
          /\ pc[h] = "done"
          /\ handoff[h] = None \/ handoff[h].status = "used"
    /\ \A p \in Effective(LogoutPost) :
          LET g == inp[p].ref IN
          /\ g \in LogoutGet
          /\ pc[g] = "done"
          /\ logout[g] = None \/ logout[g].status = "used"

\* A session that a logout has ended does not exist and will not be written.
EndedForGood ==
    \A p \in Effective(LogoutPost) :
       LET k == inp[p].cookie IN
       /\ k \in Ref
       /\ session[k] = None
       /\ k \in Callback => pc[k] = "done"

\* A logout form row holds the CSRF token that was generated with it.
OwnToken == \A k \in Ref : logout[k] # None => logout[k].csrf = k

\* The part that says nothing of what was used.  It is inductive by itself, and
\* stays so when Redis forgets what was written (RedisFailoverProofs.tla).
Base == TypeOK /\ Phase /\ Written /\ OwnToken

IInv ==
    /\ Base
    /\ Spent
    /\ EndedForGood
    /\ ExchangeAtMostOnce
    /\ ClaimAtMostOnce
    /\ LogoutFormUsedOnce

\* What every step is shown to do.
Preserved == Base' /\ (IInv => IInv')
-----------------------------------------------------------------------------
\* Requests of different kinds are different, and a forged value is no request.
LEMMA Kinds ==
    /\ Login \subseteq Request /\ Callback \subseteq Request /\ Exchange \subseteq Request
    /\ LogoutGet \subseteq Request /\ LogoutPost \subseteq Request
    /\ Request \subseteq Ref /\ Forged \subseteq Ref
    /\ Request = Login \cup Callback \cup Exchange \cup LogoutGet \cup LogoutPost
    /\ Ref = Request \cup Forged
    /\ \A r \in Login :
          r \notin Callback \cup Exchange \cup LogoutGet \cup LogoutPost \cup Forged
    /\ \A r \in Callback :
          r \notin Login \cup Exchange \cup LogoutGet \cup LogoutPost \cup Forged
    /\ \A r \in Exchange :
          r \notin Login \cup Callback \cup LogoutGet \cup LogoutPost \cup Forged
    /\ \A r \in LogoutGet :
          r \notin Login \cup Callback \cup Exchange \cup LogoutPost \cup Forged
    /\ \A r \in LogoutPost :
          r \notin Login \cup Callback \cup Exchange \cup LogoutGet \cup Forged
    /\ None \notin Ref
    /\ None \notin Service
  BY RequestAssumption, NoneAssumption DEF Request, Ref

\* The input of an exchange that goes on.
LEMMA ExchangeInput ==
    ASSUME NEW s \in Service, NEW ch \in Challenge, NEW h \in Ref
    PROVE  LET i == [NoInput EXCEPT !.service = s, !.challenge = ch, !.ref = h] IN
           i \in Input /\ i.ref = h
  BY DEF Input, NoInput

\* The same for GET /auth/logout.
LEMMA LogoutGetInput ==
    ASSUME NEW s \in Service, NEW k \in Ref
    PROVE  LET i == [NoInput EXCEPT !.service = s, !.cookie = k] IN
           i \in Input /\ i.service = s
  BY DEF Input, NoInput

\* The handler has read its clock.
LEMMA LocalNow ==
    ASSUME NEW l \in Local, NEW t \in Nat
    PROVE  [l EXCEPT !.now = t] \in Local
  BY DEF Local

\* The handler learns who authenticated, and when.
LEMMA LocalWho ==
    ASSUME NEW l \in Local, NEW u \in User, NEW t \in Nat
    PROVE  LET m == [l EXCEPT !.who = [user |-> u, at |-> t]] IN
           m \in Local /\ m.who \in Who /\ m.txn = l.txn /\ m.session = l.session
  BY DEF Local, Who

\* The same together with a reading of the clock.
LEMMA LocalNowWho ==
    ASSUME NEW l \in Local, NEW u \in User, NEW t \in Nat
    PROVE  LET m == [[l EXCEPT !.now = t] EXCEPT !.who = [user |-> u, at |-> t]] IN
           m \in Local /\ m.who \in Who /\ m.txn = l.txn
  BY DEF Local, Who

\* The handler looks up the session of a handoff.
LEMMA LocalSession ==
    ASSUME NEW l \in Local, NEW k \in Ref
    PROVE  LET m == [l EXCEPT !.session = k] IN m \in Local /\ m.session = k
  BY DEF Local

\* A service clock shows a natural number of seconds.
LEMMA ClockReading == ASSUME TypeOK PROVE AppClock \subseteq Nat
  BY ClockAssumption DEF TypeOK, AppClock

\* A step of request q that is not the use of a reference value, or no step.
QuietStep(q) ==
    /\ took'[q] = took[q]
    /\ inp'[q] = inp[q] \/ took[q] = None
    /\ \/ pc'[q] = pc[q]
       \/ pc'[q] = "done"
       \/ pc[q] \notin {"external_expireat", "logout_expireat", "done"}

\* Rows stay as they are or are deleted.
RowsKeptOrGone ==
    \A k \in Ref :
       /\ external'[k] = external[k] \/ external'[k] = None
       /\ session'[k] = session[k] \/ session'[k] = None
       /\ handoff'[k] = handoff[k] \/ handoff'[k] = None
       /\ logout'[k] = logout[k] \/ logout'[k] = None

\* Steps that write no row and use no reference value keep what the proof
\* says about rows and uses.
LEMMA QuietPreserves ==
    ASSUME Base, TypeOK', Phase', RowsKeptOrGone, \A q \in Request : QuietStep(q)
    PROVE  Preserved
  <1>1. Written'
    BY Kinds DEF Base, Written, RowsKeptOrGone, QuietStep
  <1>2. \A q \in Request : took'[q] # None =>
           took[q] # None /\ inp'[q] = inp[q]
    BY DEF QuietStep
  <1>3. \A q \in Request : pc[q] = "done" => pc'[q] = "done"
    BY DEF QuietStep
  <1>4. IInv => Spent'
    BY <1>2, <1>3, Kinds DEF IInv, Base, Spent, Effective, RowsKeptOrGone
  <1>5. IInv => EndedForGood'
    BY <1>2, <1>3, Kinds DEF IInv, Base, EndedForGood, Effective, RowsKeptOrGone
  <1>6. OwnToken'
    BY DEF Base, OwnToken, RowsKeptOrGone
  <1>7. IInv => ExchangeAtMostOnce'
    BY <1>2, Kinds DEF IInv, Base, ExchangeAtMostOnce, Effective
  <1>8. IInv => ClaimAtMostOnce'
    BY <1>2, Kinds DEF IInv, Base, ClaimAtMostOnce, Effective
  <1>9. IInv => LogoutFormUsedOnce'
    BY <1>2, Kinds DEF IInv, Base, LogoutFormUsedOnce, Effective
  <1>. QED
    BY <1>1, <1>4, <1>5, <1>6, <1>7, <1>8, <1>9 DEF Preserved, Base, IInv

\* A login that goes on has a registered service, a state and a challenge.
LEMMA LoginStartPreserves ==
    ASSUME Base, NEW r \in Login, LoginStart(r)
    PROVE  Preserved
  <1>1. /\ r \in Request /\ loc[r] \in Local /\ pc[r] = "idle" /\ took[r] = None
        /\ pc \in [Request -> Label] /\ resp \in [Request -> Answer]
        /\ inp \in [Request -> Input] /\ loc \in [Request -> Local]
    BY Kinds DEF Base, TypeOK, Phase, LoginStart
  <1>2. /\ UNCHANGED <<now, enabled, active, external, session, handoff, logout, took>>
        /\ \/ Respond(r, "403") /\ UNCHANGED <<inp, loc>>
           \/ \E i \in Input, m \in Local, label \in {"external_hset", "read_session"} :
                 /\ i.service \in Service /\ i.state \in ServiceState
                 /\ i.challenge \in Challenge
                 /\ label = "read_session" => i.cookie \in Ref
                 /\ inp' = [inp EXCEPT ![r] = i]
                 /\ loc' = [loc EXCEPT ![r] = m]
                 /\ Goto(r, label)
    <2>1. UNCHANGED <<now, enabled, active, external, session, handoff, logout, took>>
      BY DEF LoginStart, registry, store
    <2>2. PICK s \in Service \cup Unregistered, st \in ServiceState, ch \in Challenge, k \in Cookies :
             \/ ~Registered(s) /\ Respond(r, "403") /\ UNCHANGED <<inp, loc>>
             \/ /\ Registered(s)
                /\ Present(r, [NoInput EXCEPT !.service = s, !.state = st,
                                              !.challenge = ch, !.cookie = k])
                /\ \E t \in AppClock : loc' = [loc EXCEPT ![r].now = t]
                /\ Goto(r, IF k = None THEN "external_hset" ELSE "read_session")
      BY DEF LoginStart
    <2>3. CASE ~Registered(s) /\ Respond(r, "403") /\ UNCHANGED <<inp, loc>>
      BY <2>1, <2>3
    <2>4. ASSUME Registered(s), NEW t \in AppClock,
                 loc' = [loc EXCEPT ![r].now = t],
                 Present(r, [NoInput EXCEPT !.service = s, !.state = st,
                                            !.challenge = ch, !.cookie = k]),
                 Goto(r, IF k = None THEN "external_hset" ELSE "read_session")
          PROVE  \E i \in Input, m \in Local, label \in {"external_hset", "read_session"} :
                    /\ i.service \in Service /\ i.state \in ServiceState
                    /\ i.challenge \in Challenge
                    /\ label = "read_session" => i.cookie \in Ref
                    /\ inp' = [inp EXCEPT ![r] = i]
                    /\ loc' = [loc EXCEPT ![r] = m]
                    /\ Goto(r, label)
      <3>. DEFINE i == [NoInput EXCEPT !.service = s, !.state = st,
                                       !.challenge = ch, !.cookie = k]
                  m == [loc[r] EXCEPT !.now = t]
                  label == IF k = None THEN "external_hset" ELSE "read_session"
      <3>1. s \in Service /\ k \in Ref \cup {None}
        BY <2>4, Kinds DEF Registered, Cookies
      <3>2. /\ i \in Input
            /\ i.service = s /\ i.state = st /\ i.challenge = ch /\ i.cookie = k
        BY <3>1 DEF Input, NoInput
      <3>3. m \in Local
        <4>1. t \in Nat
          BY <2>4, ClockReading DEF Base
        <4>. QED  BY <1>1, <4>1, LocalNow
      <3>4. loc' = [loc EXCEPT ![r] = m] /\ inp' = [inp EXCEPT ![r] = i] /\ Goto(r, label)
        BY <2>4 DEF Present
      <3>5. label \in {"external_hset", "read_session"} /\ (label = "read_session" => k \in Ref)
        BY <3>1
      <3>. HIDE DEF i, m, label
      <3>. QED  BY <3>1, <3>2, <3>3, <3>4, <3>5
    <2>. QED  BY <2>1, <2>2, <2>3, <2>4
  <1>3. TypeOK'
    <2>1. pc' \in [Request -> Label] /\ resp' \in [Request -> Answer]
      BY <1>1, <1>2 DEF Label, Answer, Goto, Respond
    <2>2. inp' \in [Request -> Input] /\ loc' \in [Request -> Local]
      BY <1>1, <1>2
    <2>. QED  BY <1>2, <2>1, <2>2 DEF Base, TypeOK
  <1>4. Phase'
    BY <1>1, <1>2, Kinds
       DEF Base, Phase, LoginLabel, Goto, Respond
  <1>5. RowsKeptOrGone /\ \A q \in Request : QuietStep(q)
    BY <1>1, <1>2 DEF RowsKeptOrGone, QuietStep, Goto, Respond
  <1>. QED  BY <1>3, <1>4, <1>5, QuietPreserves

\* What a login reads of a session is who authenticated and when.
LEMMA ReadSessionPreserves ==
    ASSUME Base, NEW r \in Login, ReadSession(r)
    PROVE  Preserved
  <1>1. /\ r \in Request /\ loc[r] \in Local /\ pc[r] = "read_session"
        /\ pc \in [Request -> Label] /\ resp \in [Request -> Answer]
        /\ loc \in [Request -> Local] /\ inp[r].cookie \in Ref
    BY Kinds DEF Base, TypeOK, Phase, ReadSession
  <1>2. /\ UNCHANGED <<now, enabled, active, external, session, handoff, logout, inp, took>>
        /\ \/ \E label \in {"external_hset", "del_session"} : Goto(r, label) /\ UNCHANGED loc
           \/ \E m \in Local :
                 m.who \in Who /\ loc' = [loc EXCEPT ![r] = m] /\ Goto(r, "check_user")
    <2>. DEFINE row == session[inp[r].cookie]
    <2>1. CASE row # None /\ Goto(r, "check_user")
               /\ loc' = [loc EXCEPT ![r].who = [user |-> row.user, at |-> row.at]]
      <3>1. row.user \in User /\ row.at \in Nat
        BY <1>1, <2>1 DEF Base, TypeOK, SessionRow
      <3>. DEFINE m == [loc[r] EXCEPT !.who = [user |-> row.user, at |-> row.at]]
      <3>2. m \in Local /\ m.who \in Who
        BY <1>1, <3>1, LocalWho
      <3>3. loc' = [loc EXCEPT ![r] = m]
        BY <2>1
      <3>4. UNCHANGED <<now, enabled, active, external, session, handoff, logout, inp, took>>
        BY DEF ReadSession, registry, store
      <3>. HIDE DEF m
      <3>. QED  BY <2>1, <3>2, <3>3, <3>4
    <2>. QED  BY <2>1 DEF ReadSession, registry, store
  <1>3. TypeOK'
    <2>1. pc' \in [Request -> Label] /\ resp' \in [Request -> Answer]
      BY <1>1, <1>2 DEF Label, Goto
    <2>2. loc' \in [Request -> Local]
      BY <1>1, <1>2
    <2>. QED  BY <1>2, <2>1, <2>2 DEF Base, TypeOK
  <1>4. Phase'
    BY <1>1, <1>2, Kinds DEF Base, Phase, LoginLabel, Goto
  <1>5. RowsKeptOrGone /\ \A q \in Request : QuietStep(q)
    BY <1>1, <1>2 DEF RowsKeptOrGone, QuietStep, Goto
  <1>. QED  BY <1>3, <1>4, <1>5, QuietPreserves

\* Deleting a session that was read as expired.
LEMMA DelSessionPreserves ==
    ASSUME Base, NEW r \in Login, DelSession(r)
    PROVE  Preserved
  <1>1. TypeOK'
    <2>1. pc' \in [Request -> Label] /\ resp' \in [Request -> Answer]
      BY Kinds DEF Base, TypeOK, Label, Answer, DelSession, Goto
    <2>. QED  BY <2>1 DEF Base, TypeOK, DelSession, Del, registry, store
  <1>2. Phase'
    BY Kinds DEF Base, TypeOK, Phase, LoginLabel, DelSession, Goto, Del
  <1>3. RowsKeptOrGone /\ \A q \in Request : QuietStep(q)
    BY Kinds
       DEF Base, TypeOK, Phase, RowsKeptOrGone, QuietStep, DelSession, Goto, Del,
           registry, store
  <1>. QED  BY <1>1, <1>2, <1>3, QuietPreserves

\* A login whose user is disabled is refused.
LEMMA CheckUserPreserves ==
    ASSUME Base, NEW r \in Login, CheckUser(r)
    PROVE  Preserved
  <1>1. TypeOK'
    <2>1. pc' \in [Request -> Label] /\ resp' \in [Request -> Answer]
      BY Kinds DEF Base, TypeOK, Label, Answer, CheckUser, Goto, Respond
    <2>. QED  BY <2>1 DEF Base, TypeOK, CheckUser, registry, store
  <1>2. Phase'
    BY Kinds DEF Base, TypeOK, Phase, LoginLabel, CheckUser, Goto, Respond
  <1>3. RowsKeptOrGone /\ \A q \in Request : QuietStep(q)
    BY Kinds
       DEF Base, TypeOK, Phase, RowsKeptOrGone, QuietStep, CheckUser, Goto, Respond,
           registry, store
  <1>. QED  BY <1>1, <1>2, <1>3, QuietPreserves

\* A callback whose service is disabled is refused.
LEMMA CallbackServicePreserves ==
    ASSUME Base, NEW r \in Callback, CallbackService(r)
    PROVE  Preserved
  <1>1. TypeOK'
    <2>1. pc' \in [Request -> Label] /\ resp' \in [Request -> Answer]
      BY Kinds DEF Base, TypeOK, Label, Answer, CallbackService, Goto, Respond
    <2>. QED  BY <2>1 DEF Base, TypeOK, CallbackService, registry, store
  <1>2. Phase'
    BY Kinds DEF Base, TypeOK, Phase, CallbackLabel, CallbackService, Goto, Respond
  <1>3. RowsKeptOrGone /\ \A q \in Request : QuietStep(q)
    BY Kinds
       DEF Base, TypeOK, Phase, RowsKeptOrGone, QuietStep, CallbackService, Goto,
           Respond, registry, store
  <1>. QED  BY <1>1, <1>2, <1>3, QuietPreserves

\* Google names a person and leaves the claimed transaction as it is.
LEMMA GoogleIdentityPreserves ==
    ASSUME Base, NEW r \in Callback, GoogleIdentity(r)
    PROVE  Preserved
  <1>1. /\ r \in Request /\ loc[r] \in Local /\ pc[r] = "google"
        /\ pc \in [Request -> Label] /\ resp \in [Request -> Answer]
        /\ loc \in [Request -> Local]
    BY Kinds DEF Base, TypeOK, GoogleIdentity
  <1>2. /\ UNCHANGED <<now, enabled, active, external, session, handoff, logout, inp, took>>
        /\ \/ Respond(r, "502") /\ UNCHANGED loc
           \/ \E m \in Local :
                 /\ m.who \in Who /\ m.txn = loc[r].txn
                 /\ loc' = [loc EXCEPT ![r] = m]
                 /\ Goto(r, "resolve")
    <2>1. UNCHANGED <<now, enabled, active, external, session, handoff, logout, inp, took>>
      BY DEF GoogleIdentity, registry, store
    <2>2. ASSUME NEW u \in User, NEW t \in AppClock,
                 loc' = [loc EXCEPT ![r].now = t, ![r].who = [user |-> u, at |-> t]]
          PROVE  \E m \in Local :
                    m.who \in Who /\ m.txn = loc[r].txn /\ loc' = [loc EXCEPT ![r] = m]
      <3>. DEFINE m == [[loc[r] EXCEPT !.now = t] EXCEPT !.who = [user |-> u, at |-> t]]
      <3>1. t \in Nat
        BY ClockReading DEF Base
      <3>2. m \in Local /\ m.who \in Who /\ m.txn = loc[r].txn
        BY <1>1, <3>1, LocalNowWho
      <3>3. loc' = [loc EXCEPT ![r] = m]
        BY <1>1, <2>2
      <3>. HIDE DEF m
      <3>. QED  BY <3>2, <3>3
    <2>. QED  BY <2>1, <2>2 DEF GoogleIdentity
  <1>3. TypeOK'
    <2>1. pc' \in [Request -> Label] /\ resp' \in [Request -> Answer]
      BY <1>1, <1>2 DEF Label, Answer, Goto, Respond
    <2>2. loc' \in [Request -> Local]
      BY <1>1, <1>2
    <2>. QED  BY <1>2, <2>1, <2>2 DEF Base, TypeOK
  <1>4. Phase'
    BY <1>1, <1>2, Kinds DEF Base, Phase, CallbackLabel, Goto, Respond
  <1>5. RowsKeptOrGone /\ \A q \in Request : QuietStep(q)
    BY <1>1, <1>2 DEF RowsKeptOrGone, QuietStep, Goto, Respond
  <1>. QED  BY <1>3, <1>4, <1>5, QuietPreserves

\* A callback whose user is disabled is refused.
LEMMA ResolveIdentityPreserves ==
    ASSUME Base, NEW r \in Callback, ResolveIdentity(r)
    PROVE  Preserved
  <1>1. TypeOK'
    <2>1. pc' \in [Request -> Label] /\ resp' \in [Request -> Answer]
      BY Kinds DEF Base, TypeOK, Label, Answer, ResolveIdentity, Goto, Respond
    <2>. QED  BY <2>1 DEF Base, TypeOK, ResolveIdentity, registry, store
  <1>2. Phase'
    BY Kinds DEF Base, TypeOK, Phase, CallbackLabel, ResolveIdentity, Goto, Respond
  <1>3. RowsKeptOrGone /\ \A q \in Request : QuietStep(q)
    BY Kinds
       DEF Base, TypeOK, Phase, RowsKeptOrGone, QuietStep, ResolveIdentity, Goto,
           Respond, registry, store
  <1>. QED  BY <1>1, <1>2, <1>3, QuietPreserves

\* An exchange that goes on presents a reference value.
LEMMA ExchangeStartPreserves ==
    ASSUME Base, NEW r \in Exchange, ExchangeStart(r)
    PROVE  Preserved
  <1>1. /\ r \in Request /\ pc[r] = "idle" /\ took[r] = None
        /\ pc \in [Request -> Label] /\ resp \in [Request -> Answer]
        /\ inp \in [Request -> Input]
    BY Kinds DEF Base, TypeOK, Phase, ExchangeStart
  <1>2. /\ UNCHANGED <<now, enabled, active, external, session, handoff, logout, loc, took>>
        /\ \/ \E answer \in {"401", "403"} : Respond(r, answer) /\ UNCHANGED inp
           \/ \E i \in Input :
                 i.ref \in Ref /\ inp' = [inp EXCEPT ![r] = i] /\ Goto(r, "handoff_type")
    <2>1. UNCHANGED <<now, enabled, active, external, session, handoff, logout, loc, took>>
      BY DEF ExchangeStart, registry, store
    <2>2. ASSUME NEW s \in Service, NEW ch \in Challenge, NEW h \in Codes,
                 Present(r, [NoInput EXCEPT !.service = s, !.challenge = ch, !.ref = h])
          PROVE  \E i \in Input : i.ref \in Ref /\ inp' = [inp EXCEPT ![r] = i]
      <3>1. h \in Ref
        BY Kinds DEF Codes
      <3>2. LET i == [NoInput EXCEPT !.service = s, !.challenge = ch, !.ref = h] IN
            i \in Input /\ i.ref = h
        BY <3>1, ExchangeInput
      <3>. QED  BY <2>2, <3>1, <3>2 DEF Present
    <2>. QED  BY <2>1, <2>2 DEF ExchangeStart, Registered
  <1>3. TypeOK'
    <2>1. pc' \in [Request -> Label] /\ resp' \in [Request -> Answer]
      BY <1>1, <1>2 DEF Label, Answer, Goto, Respond
    <2>2. inp' \in [Request -> Input]
      BY <1>1, <1>2
    <2>. QED  BY <1>2, <2>1, <2>2 DEF Base, TypeOK
  <1>4. Phase'
    BY <1>1, <1>2, Kinds DEF Base, Phase, ExchangeLabel, Goto, Respond
  <1>5. RowsKeptOrGone /\ \A q \in Request : QuietStep(q)
    BY <1>1, <1>2 DEF RowsKeptOrGone, QuietStep, Goto, Respond
  <1>. QED  BY <1>3, <1>4, <1>5, QuietPreserves

\* TYPE only reads.
LEMMA HandoffTypePreserves ==
    ASSUME Base, NEW r \in Exchange, HandoffType(r)
    PROVE  Preserved
  <1>1. TypeOK'
    <2>1. pc' \in [Request -> Label] /\ resp' \in [Request -> Answer]
      BY Kinds DEF Base, TypeOK, Label, Answer, HandoffType, Goto, Respond
    <2>. QED  BY <2>1 DEF Base, TypeOK, HandoffType, registry, store
  <1>2. Phase'
    BY Kinds DEF Base, TypeOK, Phase, ExchangeLabel, HandoffType, Goto, Respond
  <1>3. RowsKeptOrGone /\ \A q \in Request : QuietStep(q)
    BY Kinds
       DEF Base, TypeOK, Phase, RowsKeptOrGone, QuietStep, HandoffType, Goto, Respond,
           registry, store
  <1>. QED  BY <1>1, <1>2, <1>3, QuietPreserves

\* The session that HGET finds in a handoff is a reference value.
LEMMA HandoffHgetPreserves ==
    ASSUME Base, NEW r \in Exchange, HandoffHget(r)
    PROVE  Preserved
  <1>1. /\ r \in Request /\ loc[r] \in Local /\ pc[r] = "handoff_hget"
        /\ pc \in [Request -> Label] /\ resp \in [Request -> Answer]
        /\ loc \in [Request -> Local] /\ inp[r].ref \in Ref
    BY Kinds DEF Base, TypeOK, Phase, HandoffHget
  <1>2. /\ UNCHANGED <<now, enabled, active, external, session, handoff, logout, inp, took>>
        /\ \/ Respond(r, "503") /\ UNCHANGED loc
           \/ \E m \in Local :
                 m.session \in Ref /\ loc' = [loc EXCEPT ![r] = m] /\ Goto(r, "exchange")
    <2>. DEFINE k == handoff[inp[r].ref].session
    <2>1. UNCHANGED <<now, enabled, active, external, session, handoff, logout, inp, took>>
      BY DEF HandoffHget, registry, store
    <2>2. CASE handoff[inp[r].ref] # None /\ loc' = [loc EXCEPT ![r].session = k]
      <3>1. k \in Ref
        BY <1>1, <2>2 DEF Base, TypeOK, HandoffRow
      <3>. DEFINE m == [loc[r] EXCEPT !.session = k]
      <3>2. m \in Local /\ m.session = k
        BY <1>1, <3>1, LocalSession
      <3>3. loc' = [loc EXCEPT ![r] = m]
        BY <2>2
      <3>. HIDE DEF m
      <3>4. \E n \in Local : n.session \in Ref /\ loc' = [loc EXCEPT ![r] = n]
        BY <3>1, <3>2, <3>3
      <3>. QED  BY <2>1, <2>2, <3>4 DEF HandoffHget
    <2>. QED  BY <2>1, <2>2 DEF HandoffHget
  <1>3. TypeOK'
    <2>1. pc' \in [Request -> Label] /\ resp' \in [Request -> Answer]
      BY <1>1, <1>2 DEF Label, Answer, Goto, Respond
    <2>2. loc' \in [Request -> Local]
      BY <1>1, <1>2
    <2>. QED  BY <1>2, <2>1, <2>2 DEF Base, TypeOK
  <1>4. Phase'
    BY <1>1, <1>2, Kinds DEF Base, Phase, ExchangeLabel, Goto, Respond
  <1>5. RowsKeptOrGone /\ \A q \in Request : QuietStep(q)
    BY <1>1, <1>2 DEF RowsKeptOrGone, QuietStep, Goto, Respond
  <1>. QED  BY <1>3, <1>4, <1>5, QuietPreserves

\* A logout that goes on has a registered service.
LEMMA LogoutGetStartPreserves ==
    ASSUME Base, NEW r \in LogoutGet, LogoutGetStart(r)
    PROVE  Preserved
  <1>1. /\ r \in Request /\ loc[r] \in Local /\ pc[r] = "idle" /\ took[r] = None
        /\ pc \in [Request -> Label] /\ resp \in [Request -> Answer]
        /\ inp \in [Request -> Input] /\ loc \in [Request -> Local]
    BY Kinds DEF Base, TypeOK, Phase, LogoutGetStart
  <1>2. /\ UNCHANGED <<now, enabled, active, external, session, handoff, logout, took>>
        /\ \/ \E answer \in {"403", "return"} : Respond(r, answer) /\ UNCHANGED <<inp, loc>>
           \/ \E i \in Input, m \in Local :
                 /\ i.service \in Service
                 /\ inp' = [inp EXCEPT ![r] = i]
                 /\ loc' = [loc EXCEPT ![r] = m]
                 /\ Goto(r, "logout_hset")
    <2>1. UNCHANGED <<now, enabled, active, external, session, handoff, logout, took>>
      BY DEF LogoutGetStart, registry, store
    <2>2. ASSUME NEW s \in Service, NEW k \in Cookies, k # None,
                 Present(r, [NoInput EXCEPT !.service = s, !.cookie = k])
          PROVE  \E i \in Input : i.service \in Service /\ inp' = [inp EXCEPT ![r] = i]
      <3>1. k \in Ref
        BY <2>2, Kinds DEF Cookies
      <3>2. LET i == [NoInput EXCEPT !.service = s, !.cookie = k] IN
            i \in Input /\ i.service = s
        BY <3>1, LogoutGetInput
      <3>. QED  BY <2>2, <3>2 DEF Present
    <2>3. ASSUME NEW t \in AppClock, loc' = [loc EXCEPT ![r].now = t]
          PROVE  \E m \in Local : loc' = [loc EXCEPT ![r] = m]
      <3>1. t \in Nat
        BY ClockReading DEF Base
      <3>2. [loc[r] EXCEPT !.now = t] \in Local
        BY <1>1, <3>1, LocalNow
      <3>. QED  BY <2>3, <3>2
    <2>. QED  BY <2>1, <2>2, <2>3 DEF LogoutGetStart, Registered
  <1>3. TypeOK'
    <2>1. pc' \in [Request -> Label] /\ resp' \in [Request -> Answer]
      BY <1>1, <1>2 DEF Label, Answer, Goto, Respond
    <2>2. inp' \in [Request -> Input] /\ loc' \in [Request -> Local]
      BY <1>1, <1>2
    <2>. QED  BY <1>2, <2>1, <2>2 DEF Base, TypeOK
  <1>4. Phase'
    BY <1>1, <1>2, Kinds DEF Base, Phase, LogoutGetLabel, Goto, Respond
  <1>5. RowsKeptOrGone /\ \A q \in Request : QuietStep(q)
    BY <1>1, <1>2 DEF RowsKeptOrGone, QuietStep, Goto, Respond
  <1>. QED  BY <1>3, <1>4, <1>5, QuietPreserves

\* A failure ends the request and nothing else.
LEMMA FailPreserves ==
    ASSUME Base, NEW r \in Request, Fail(r)
    PROVE  Preserved
  <1>1. TypeOK'
    <2>1. pc' \in [Request -> Label] /\ resp' \in [Request -> Answer]
      BY Kinds DEF Base, TypeOK, Label, Answer, Fail, Respond
    <2>. QED  BY <2>1 DEF Base, TypeOK, Fail, registry, store
  <1>2. Phase'
    BY Kinds DEF Base, TypeOK, Phase, LoginLabel, CallbackLabel, ExchangeLabel,
           LogoutGetLabel, LogoutPostLabel, Fail, Respond
  <1>3. RowsKeptOrGone /\ \A q \in Request : QuietStep(q)
    BY Kinds
       DEF Base, TypeOK, Phase, RowsKeptOrGone, QuietStep, Fail, Respond, registry,
           store
  <1>. QED  BY <1>1, <1>2, <1>3, QuietPreserves

\* Single sign-on writes a handoff under the login's own key.
LEMMA IssueSsoPreserves ==
    ASSUME Base, NEW r \in Login, IssueSso(r)
    PROVE  Preserved
  <1>1. TypeOK'
    <2>1. pc' \in [Request -> Label] /\ resp' \in [Request -> Answer]
      BY Kinds DEF Base, TypeOK, Label, Answer, IssueSso, Goto, Respond, RespondOrLose
    <2>2. session' \in [Ref -> SessionRow \cup {None}]
      BY DEF Base, TypeOK, IssueSso, Del
    <2>3. handoff' \in [Ref -> HandoffRow(Ref) \cup {None}]
      <3>1. /\ inp[r].service \in Service /\ inp[r].challenge \in Challenge
            /\ inp[r].cookie \in Ref /\ loc[r].who \in Who
        BY Kinds DEF Base, Phase, IssueSso
      <3>2. loc[r].now \in Nat
        BY Kinds DEF Base, TypeOK, Local
      <3>3. SsoHandoff(r) \in HandoffRow(Ref)
        BY <3>1, <3>2, TTLAssumption DEF SsoHandoff, HandoffRow, Who
      <3>4. handoff' = handoff \/ handoff' = [handoff EXCEPT ![r] = SsoHandoff(r)]
        BY DEF IssueSso, Put
      <3>5. r \in Ref /\ handoff \in [Ref -> HandoffRow(Ref) \cup {None}]
        BY Kinds DEF Base, TypeOK
      <3>. QED  BY <3>3, <3>4, <3>5
    <2>4. took' \in [Request -> Nat \cup {None}]
      BY Kinds DEF Base, TypeOK, IssueSso, TakesEffect
    <2>. QED  BY <2>1, <2>2, <2>3, <2>4 DEF Base, TypeOK, IssueSso, registry, store
  <1>2. Phase'
    BY Kinds
       DEF Base, TypeOK, Phase, LoginLabel, IssueSso, TakesEffect, Goto, RespondOrLose,
           Respond
  <1>3. Written'
    BY Kinds
       DEF Base, TypeOK, Phase, Written, IssueSso, Put, Del, Goto, RespondOrLose,
           Respond
  <1>4. IInv => Spent'
    BY Kinds
       DEF IInv, Base, TypeOK, Phase, Written, Spent, Effective, IssueSso, TakesEffect, Put,
           Del, Goto, RespondOrLose, Respond
  <1>5. IInv => EndedForGood'
    BY Kinds
       DEF IInv, Base, TypeOK, Phase, EndedForGood, Effective, IssueSso, TakesEffect, Put,
           Del, Goto, RespondOrLose, Respond
  <1>6. OwnToken'
    BY Kinds DEF Base, OwnToken, IssueSso
  <1>7. IInv => ExchangeAtMostOnce' /\ ClaimAtMostOnce' /\ LogoutFormUsedOnce'
    BY Kinds
       DEF IInv, Base, TypeOK, ExchangeAtMostOnce, ClaimAtMostOnce, LogoutFormUsedOnce,
           Effective, IssueSso, TakesEffect
  <1>. QED  BY <1>1, <1>2, <1>3, <1>4, <1>5, <1>6, <1>7 DEF Preserved, Base, IInv

\* A login writes the transaction under its own key.
LEMMA ExternalHsetPreserves ==
    ASSUME Base, NEW r \in Login, ExternalHset(r)
    PROVE  Preserved
  <1>1. TypeOK'
    <2>1. pc' \in [Request -> Label] /\ resp' \in [Request -> Answer]
      BY Kinds DEF Base, TypeOK, Label, Answer, ExternalHset, Goto
    <2>2. external' \in [Ref -> ExternalRow \cup {None}]
      BY Kinds, TTLAssumption
         DEF Base, TypeOK, Phase, Local, ExternalRow, ExternalHset, Put, NewExternal
    <2>. QED  BY <2>1, <2>2 DEF Base, TypeOK, ExternalHset, registry, store
  <1>2. Phase'
    BY Kinds DEF Base, TypeOK, Phase, LoginLabel, ExternalHset, Goto
  <1>3. Written'
    BY Kinds DEF Base, TypeOK, Phase, Written, ExternalHset, Put, Goto
  <1>4. IInv => Spent'
    BY Kinds DEF IInv, Base, TypeOK, Phase, Written, Spent, Effective, ExternalHset, Put, Goto
  <1>5. IInv => EndedForGood'
    BY Kinds DEF IInv, Base, TypeOK, Phase, EndedForGood, Effective, ExternalHset, Put, Goto
  <1>6. OwnToken'
    BY Kinds DEF Base, OwnToken, ExternalHset
  <1>7. IInv => ExchangeAtMostOnce' /\ ClaimAtMostOnce' /\ LogoutFormUsedOnce'
    BY Kinds
       DEF IInv, Base, TypeOK, ExchangeAtMostOnce, ClaimAtMostOnce, LogoutFormUsedOnce,
           Effective, ExternalHset
  <1>. QED  BY <1>1, <1>2, <1>3, <1>4, <1>5, <1>6, <1>7 DEF Preserved, Base, IInv

\* EXPIREAT sets the TTL of the transaction or deletes it.
LEMMA ExternalExpireatPreserves ==
    ASSUME Base, NEW r \in Login, ExternalExpireat(r)
    PROVE  Preserved
  <1>1. TypeOK'
    <2>1. pc' \in [Request -> Label] /\ resp' \in [Request -> Answer]
      BY Kinds DEF Base, TypeOK, Label, Answer, ExternalExpireat, Respond, RespondOrLose
    <2>2. external' \in [Ref -> ExternalRow \cup {None}]
      <3>1. external[r] \in ExternalRow \cup {None}
        BY Kinds DEF Base, TypeOK
      <3>2. external[r] \in ExternalRow => [external[r] EXCEPT !.ttl = TRUE] \in ExternalRow
        BY DEF ExternalRow
      <3>3. ExpireAt(external[r], now) \in ExternalRow \cup {None}
        BY <3>1, <3>2 DEF ExpireAt
      <3>. QED  BY <3>3, Kinds DEF Base, TypeOK, ExternalExpireat, Put
    <2>. QED  BY <2>1, <2>2 DEF Base, TypeOK, ExternalExpireat, registry, store
  <1>2. Phase'
    BY Kinds
       DEF Base, TypeOK, Phase, LoginLabel, ExternalExpireat, RespondOrLose, Respond
  <1>3. Written'
    BY Kinds
       DEF Base, TypeOK, Phase, Written, ExternalExpireat, Put, ExpireAt, RespondOrLose,
           Respond
  <1>4. IInv => Spent'
    BY Kinds
       DEF IInv, Base, TypeOK, Phase, Written, Spent, Effective, ExternalExpireat, Put,
           ExpireAt, RespondOrLose, Respond
  <1>5. IInv => EndedForGood'
    BY Kinds
       DEF IInv, Base, TypeOK, Phase, EndedForGood, Effective, ExternalExpireat, Put,
           ExpireAt, RespondOrLose, Respond
  <1>6. OwnToken'
    BY Kinds DEF Base, OwnToken, ExternalExpireat
  <1>7. IInv => ExchangeAtMostOnce' /\ ClaimAtMostOnce' /\ LogoutFormUsedOnce'
    BY Kinds
       DEF IInv, Base, TypeOK, ExchangeAtMostOnce, ClaimAtMostOnce, LogoutFormUsedOnce,
           Effective, ExternalExpireat
  <1>. QED  BY <1>1, <1>2, <1>3, <1>4, <1>5, <1>6, <1>7 DEF Preserved, Base, IInv

\* A claim marks a transaction that was waiting; any other answer leaves the
\* transaction or deletes it.
LEMMA ClaimPreserves ==
    ASSUME Base, NEW r \in Callback, Claim(r)
    PROVE  Preserved
  <1>1. /\ r \in Request /\ loc[r] \in Local /\ pc[r] = "idle" /\ took[r] = None
        /\ pc \in [Request -> Label] /\ resp \in [Request -> Answer]
        /\ inp \in [Request -> Input] /\ loc \in [Request -> Local]
        /\ took \in [Request -> Nat \cup {None}] /\ now \in Nat
        /\ external \in [Ref -> ExternalRow \cup {None}]
    BY Kinds DEF Base, TypeOK, Phase, Claim
  <1>2. UNCHANGED <<now, enabled, active, session, handoff, logout>>
    BY DEF Claim, registry
  <1>3. PICK k \in OauthStates :
           LET row == [external[k] EXCEPT !.status = "processing"]
               reply == ClaimReply(external[k], now) IN
           \/ /\ reply = "Ok"
              /\ Present(r, [NoInput EXCEPT !.ref = k])
              /\ external' = Put(external, k, row)
              /\ loc' = [loc EXCEPT ![r].txn = row]
              /\ TakesEffect(r)
              /\ Goto(r, "callback_service")
           \/ /\ reply = "Expired"
              /\ external' = Del(external, k)
              /\ Respond(r, "400")
              /\ UNCHANGED <<inp, loc, took>>
           \/ /\ reply \in {"NotFound", "AlreadyClaimed"}
              /\ Respond(r, "400")
              /\ UNCHANGED <<external, inp, loc, took>>
    BY DEF Claim
  <1>4. k \in Ref
    BY Kinds DEF OauthStates
  <1>5. CASE /\ external' = Del(external, k) \/ external' = external
             /\ Respond(r, "400") /\ UNCHANGED <<inp, loc, took>>
    <2>1. TypeOK'
      BY <1>1, <1>2, <1>5 DEF Base, TypeOK, Label, Answer, Respond, Del
    <2>2. Phase'
      BY <1>1, <1>5, Kinds DEF Base, Phase, CallbackLabel, Respond
    <2>3. RowsKeptOrGone /\ \A q \in Request : QuietStep(q)
      BY <1>1, <1>2, <1>5 DEF RowsKeptOrGone, QuietStep, Respond, Del
    <2>. QED  BY <2>1, <2>2, <2>3, QuietPreserves
  <1>6. ASSUME ClaimReply(external[k], now) = "Ok",
               Present(r, [NoInput EXCEPT !.ref = k]),
               external' = Put(external, k, [external[k] EXCEPT !.status = "processing"]),
               loc' = [loc EXCEPT ![r].txn = [external[k] EXCEPT !.status = "processing"]],
               TakesEffect(r), Goto(r, "callback_service")
        PROVE  Preserved
    <2>. DEFINE row == [external[k] EXCEPT !.status = "processing"]
                i == [NoInput EXCEPT !.ref = k]
                m == [loc[r] EXCEPT !.txn = row]
    <2>1. external[k] \in ExternalRow /\ external[k] # None /\ external[k].status = "waiting"
      BY <1>1, <1>4, <1>6 DEF ClaimReply, ExternalRow
    <2>2. k \in Login /\ pc[k] = "done"
      <3>1. k \in Login /\ resp[k] = "google"
        BY <1>3, <2>1, <1>4, Kinds DEF OauthStates, Base, Written
      <3>. QED  BY <3>1, Kinds DEF Base, Phase
    <2>3. row \in ExternalRow /\ row.status = "processing"
      BY <2>1 DEF ExternalRow
    <2>4. i \in Input /\ i.ref = k
      BY <1>4 DEF Input, NoInput
    <2>5. m \in Local /\ m.txn = row
      BY <1>1, <2>3 DEF Local
    <2>6. /\ external' = [external EXCEPT ![k] = row]
          /\ inp' = [inp EXCEPT ![r] = i]
          /\ loc' = [loc EXCEPT ![r] = m]
          /\ took' = [took EXCEPT ![r] = now]
          /\ pc' = [pc EXCEPT ![r] = "callback_service"]
          /\ resp' = resp
      BY <1>6 DEF Put, Present, TakesEffect, Goto
    <2>. HIDE DEF row, i, m
    <2>7. TypeOK'
      BY <1>1, <1>2, <1>4, <2>3, <2>4, <2>5, <2>6 DEF Base, TypeOK, Label
    <2>8. Phase'
      BY <1>1, <2>3, <2>5, <2>6, Kinds DEF Base, Phase, CallbackLabel
    <2>9. Written'
      BY <1>1, <1>2, <2>2, <2>6, Kinds DEF Base, Written
    <2>10. IInv => \A c \in Callback : took[c] # None => inp[c].ref # k
      BY <2>1 DEF IInv, Base, Spent, Effective
    <2>11. IInv => Spent'
      <3>. SUFFICES ASSUME IInv PROVE Spent'
        OBVIOUS
      <3>1. \A q \in Request : pc[q] = "done" => pc'[q] = "done"
        BY <1>1, <2>6
      <3>2. \A c \in Callback : took'[c] # None =>
               /\ inp'[c].ref \in Login
               /\ pc'[inp'[c].ref] = "done"
               /\ external'[inp'[c].ref] = None \/ external'[inp'[c].ref].status = "processing"
        <4>. SUFFICES ASSUME NEW c \in Callback, took'[c] # None
                      PROVE  /\ inp'[c].ref \in Login
                             /\ pc'[inp'[c].ref] = "done"
                             /\ \/ external'[inp'[c].ref] = None
                                \/ external'[inp'[c].ref].status = "processing"
          OBVIOUS
        <4>1. CASE c = r
          BY <1>1, <1>4, <2>2, <2>3, <2>4, <2>6, <3>1, <4>1, Kinds
        <4>2. CASE c # r
          BY <1>1, <2>6, <2>10, <3>1, <4>2, Kinds DEF IInv, Base, Spent, Effective
        <4>. QED  BY <4>1, <4>2
      <3>3. \A q \in Exchange \cup LogoutPost : took'[q] = took[q] /\ inp'[q] = inp[q]
        BY <1>1, <2>6, Kinds
      <3>. QED  BY <1>2, <3>1, <3>2, <3>3, Kinds DEF IInv, Base, Spent, Effective
    <2>12. IInv => EndedForGood'
      BY <1>1, <1>2, <2>6, Kinds DEF IInv, Base, EndedForGood, Effective
    <2>13. OwnToken'
      BY <1>2 DEF Base, OwnToken
    <2>14. IInv => ExchangeAtMostOnce' /\ LogoutFormUsedOnce'
      BY <1>1, <2>6, Kinds DEF IInv, Base, ExchangeAtMostOnce, LogoutFormUsedOnce, Effective
    <2>15. IInv => ClaimAtMostOnce'
      BY <1>1, <2>4, <2>6, <2>10, Kinds DEF IInv, Base, ClaimAtMostOnce, Effective
    <2>. QED
      BY <2>7, <2>8, <2>9, <2>11, <2>12, <2>13, <2>14, <2>15 DEF Preserved, Base, IInv
  <1>. QED  BY <1>3, <1>5, <1>6

\* A callback writes its session and its handoff under its own key.
LEMMA CreateSessionPreserves ==
    ASSUME Base, NEW r \in Callback, CreateSession(r)
    PROVE  Preserved
  <1>1. TypeOK'
    <2>1. pc' \in [Request -> Label] /\ resp' \in [Request -> Answer]
      BY Kinds DEF Base, TypeOK, Label, Answer, CreateSession, Respond, RespondOrLose
    <2>2. /\ loc[r].txn \in ExternalRow /\ loc[r].who \in Who /\ loc[r].now \in Nat /\ r \in Ref
      BY Kinds DEF Base, TypeOK, Phase, CreateSession, Local
    <2>3. session' \in [Ref -> SessionRow \cup {None}]
      <3>1. NewSession(r) \in SessionRow
        BY <2>2, TTLAssumption DEF NewSession, SessionRow, Who
      <3>. QED  BY <3>1, <2>2 DEF Base, TypeOK, CreateSession, Put
    <2>4. handoff' \in [Ref -> HandoffRow(Ref) \cup {None}]
      <3>1. NewHandoff(r) \in HandoffRow(Ref)
        BY <2>2, TTLAssumption DEF NewHandoff, HandoffRow, ExternalRow, Who
      <3>. QED  BY <3>1, <2>2 DEF Base, TypeOK, CreateSession, Put
    <2>. QED  BY <2>1, <2>3, <2>4 DEF Base, TypeOK, CreateSession, registry, store
  <1>2. Phase'
    BY Kinds
       DEF Base, TypeOK, Phase, CallbackLabel, CreateSession, RespondOrLose, Respond
  <1>3. Written'
    BY Kinds
       DEF Base, TypeOK, Phase, Written, CreateSession, Put, CreateReply, RespondOrLose,
           Respond
  <1>4. IInv => Spent'
    BY Kinds
       DEF IInv, Base, TypeOK, Phase, Written, Spent, Effective, CreateSession, Put,
           CreateReply, RespondOrLose, Respond
  <1>5. IInv => EndedForGood'
    BY Kinds
       DEF IInv, Base, TypeOK, Phase, EndedForGood, Effective, CreateSession, Put,
           CreateReply, RespondOrLose, Respond
  <1>6. OwnToken'
    BY Kinds DEF Base, OwnToken, CreateSession
  <1>7. IInv => ExchangeAtMostOnce' /\ ClaimAtMostOnce' /\ LogoutFormUsedOnce'
    BY Kinds
       DEF IInv, Base, TypeOK, ExchangeAtMostOnce, ClaimAtMostOnce, LogoutFormUsedOnce,
           Effective, CreateSession
  <1>. QED  BY <1>1, <1>2, <1>3, <1>4, <1>5, <1>6, <1>7 DEF Preserved, Base, IInv

\* An exchange that succeeds marks a handoff that was unused; any other
\* answer changes no row, or deletes one.
LEMMA ExchangeHandoffPreserves ==
    ASSUME Base, NEW r \in Exchange, ExchangeHandoff(r)
    PROVE  Preserved
  <1>. DEFINE h == inp[r].ref
              k == loc[r].session
              reply == ExchangeReply(handoff[h], session[k], k, inp[r].service,
                                     inp[r].challenge, now)
  <1>1. /\ r \in Request /\ loc[r] \in Local /\ pc[r] = "exchange" /\ took[r] = None
        /\ h \in Ref /\ k \in Ref
        /\ pc \in [Request -> Label] /\ resp \in [Request -> Answer]
        /\ loc \in [Request -> Local] /\ now \in Nat
        /\ took \in [Request -> Nat \cup {None}]
        /\ handoff \in [Ref -> HandoffRow(Ref) \cup {None}]
        /\ session \in [Ref -> SessionRow \cup {None}]
    BY Kinds DEF Base, TypeOK, Phase, ExchangeHandoff
  <1>2. UNCHANGED <<now, enabled, active, external, logout, inp>>
    BY DEF ExchangeHandoff, registry
  <1>3. CASE /\ handoff' = Del(handoff, h) \/ handoff' = handoff
             /\ session' = Del(session, k) \/ session' = session
             /\ \E answer \in {"400", "503"} : Respond(r, answer)
             /\ UNCHANGED <<loc, took>>
    <2>. HIDE DEF h, k, reply
    <2>1. TypeOK'
      BY <1>1, <1>2, <1>3 DEF Base, TypeOK, Label, Answer, Respond, Del
    <2>2. Phase'
      BY <1>1, <1>2, <1>3, Kinds DEF Base, Phase, ExchangeLabel, Respond
    <2>3. RowsKeptOrGone /\ \A q \in Request : QuietStep(q)
      BY <1>1, <1>2, <1>3 DEF RowsKeptOrGone, QuietStep, Respond, Del
    <2>. QED  BY <2>1, <2>2, <2>3, QuietPreserves
  <1>4. ASSUME reply = "Ok",
               handoff' = Put(handoff, h, [handoff[h] EXCEPT !.status = "used"]),
               loc' = [loc EXCEPT ![r].who = [user |-> handoff[h].user, at |-> handoff[h].at]],
               TakesEffect(r), RespondOrLose(r, "200"), session' = session
        PROVE  Preserved
    <2>. DEFINE row == [handoff[h] EXCEPT !.status = "used"]
                m == [loc[r] EXCEPT !.who = [user |-> handoff[h].user, at |-> handoff[h].at]]
    <2>1. handoff[h] \in HandoffRow(Ref) /\ handoff[h] # None /\ handoff[h].status = "unused"
      BY <1>1, <1>4 DEF ExchangeReply, HandoffRow
    <2>2. h \in Login \cup Callback /\ pc[h] = "done"
      BY <1>1, <2>1 DEF Base, Written
    <2>3. row \in HandoffRow(Ref) /\ row.status = "used"
      BY <2>1 DEF HandoffRow
    <2>4. m \in Local
      BY <1>1, <2>1 DEF Local, Who, HandoffRow
    <2>5. /\ handoff' = [handoff EXCEPT ![h] = row]
          /\ loc' = [loc EXCEPT ![r] = m]
          /\ took' = [took EXCEPT ![r] = now]
          /\ pc' = [pc EXCEPT ![r] = "done"]
          /\ \E answer \in {"200", "failed"} : resp' = [resp EXCEPT ![r] = answer]
      BY <1>4 DEF Put, TakesEffect, RespondOrLose, Respond
    <2>. HIDE DEF row, m, k, reply
    <2>6. TypeOK'
      <3>1. pc' \in [Request -> Label] /\ resp' \in [Request -> Answer]
        BY <1>1, <2>5 DEF Label, Answer
      <3>2. handoff' \in [Ref -> HandoffRow(Ref) \cup {None}]
        BY <1>1, <2>3, <2>5
      <3>3. loc' \in [Request -> Local] /\ took' \in [Request -> Nat \cup {None}]
        BY <1>1, <2>4, <2>5
      <3>. QED  BY <1>2, <1>4, <3>1, <3>2, <3>3 DEF Base, TypeOK
    <2>7. Phase'
      BY <1>1, <1>2, <2>5, Kinds DEF Base, Phase, ExchangeLabel
    <2>8. Written'
      <3>1. \A q \in Request : pc'[q] = IF q = r THEN "done" ELSE pc[q]
        BY <1>1, <2>5
      <3>2. \A q \in Ref : handoff'[q] # None => handoff[q] # None
        BY <1>1, <2>1, <2>5
      <3>3. UNCHANGED <<external, session, logout>>
        BY <1>2, <1>4
      <3>. QED  BY <3>1, <3>2, <3>3, Kinds DEF Base, Written
    <2>9. IInv => \A x \in Exchange : took[x] # None => inp[x].ref # h
      BY <2>1 DEF IInv, Base, Spent, Effective
    <2>10. IInv => Spent'
      <3>. SUFFICES ASSUME IInv PROVE Spent'
        OBVIOUS
      <3>1. \A q \in Request : pc[q] = "done" => pc'[q] = "done"
        BY <1>1, <2>5
      <3>2. ASSUME NEW x \in Exchange, took'[x] # None
            PROVE  /\ inp'[x].ref \in Login \cup Callback
                   /\ pc'[inp'[x].ref] = "done"
                   /\ handoff'[inp'[x].ref] = None \/ handoff'[inp'[x].ref].status = "used"
        <4>1. CASE x = r
          BY <1>1, <1>2, <2>2, <2>3, <2>5, <3>1, <4>1, Kinds
        <4>2. CASE x # r
          BY <1>1, <1>2, <2>5, <2>9, <3>1, <3>2, <4>2, Kinds DEF IInv, Base, Spent, Effective
        <4>. QED  BY <4>1, <4>2
      <3>3. \A q \in Callback \cup LogoutPost : took'[q] = took[q]
        BY <1>1, <2>5, Kinds
      <3>. QED  BY <1>2, <3>1, <3>2, <3>3, Kinds DEF IInv, Base, Spent, Effective
    <2>11. IInv => EndedForGood'
      <3>1. \A q \in Request : pc'[q] = IF q = r THEN "done" ELSE pc[q]
        BY <1>1, <2>5
      <3>2. \A p \in LogoutPost : took'[p] = took[p]
        BY <1>1, <2>5, Kinds
      <3>3. UNCHANGED <<inp, session>>
        BY <1>2, <1>4
      <3>. QED  BY <3>1, <3>2, <3>3, Kinds DEF IInv, EndedForGood, Effective
    <2>12. OwnToken'
      BY <1>2 DEF Base, OwnToken
    <2>13. IInv => ClaimAtMostOnce' /\ LogoutFormUsedOnce'
      BY <1>1, <1>2, <2>5, Kinds
         DEF IInv, Base, ClaimAtMostOnce, LogoutFormUsedOnce, Effective
    <2>14. IInv => ExchangeAtMostOnce'
      BY <1>1, <1>2, <2>5, <2>9, Kinds DEF IInv, Base, ExchangeAtMostOnce, Effective
    <2>. QED
      BY <2>6, <2>7, <2>8, <2>10, <2>11, <2>12, <2>13, <2>14 DEF Preserved, Base, IInv
  <1>. QED  BY <1>3, <1>4 DEF ExchangeHandoff

\* A logout form is written under the key of its request, with its own token.
LEMMA LogoutHsetPreserves ==
    ASSUME Base, NEW r \in LogoutGet, LogoutHset(r)
    PROVE  Preserved
  <1>1. TypeOK'
    <2>1. pc' \in [Request -> Label] /\ resp' \in [Request -> Answer]
      BY Kinds DEF Base, TypeOK, Label, Answer, LogoutHset, Goto
    <2>2. logout' \in [Ref -> LogoutRow(Ref) \cup {None}]
      BY Kinds, TTLAssumption
         DEF Base, TypeOK, Phase, Local, LogoutRow, LogoutHset, Put, NewLogout
    <2>. QED  BY <2>1, <2>2 DEF Base, TypeOK, LogoutHset, registry, store
  <1>2. Phase'
    BY Kinds DEF Base, TypeOK, Phase, LogoutGetLabel, LogoutHset, Goto
  <1>3. Written'
    BY Kinds DEF Base, TypeOK, Phase, Written, LogoutHset, Put, Goto
  <1>4. IInv => Spent'
    BY Kinds DEF IInv, Base, TypeOK, Phase, Written, Spent, Effective, LogoutHset, Put, Goto
  <1>5. IInv => EndedForGood'
    BY Kinds DEF IInv, Base, TypeOK, Phase, EndedForGood, Effective, LogoutHset, Put, Goto
  <1>6. OwnToken'
    BY Kinds DEF Base, TypeOK, OwnToken, LogoutHset, Put, NewLogout
  <1>7. IInv => ExchangeAtMostOnce' /\ ClaimAtMostOnce' /\ LogoutFormUsedOnce'
    BY Kinds
       DEF IInv, Base, TypeOK, ExchangeAtMostOnce, ClaimAtMostOnce, LogoutFormUsedOnce,
           Effective, LogoutHset
  <1>. QED  BY <1>1, <1>2, <1>3, <1>4, <1>5, <1>6, <1>7 DEF Preserved, Base, IInv

\* EXPIREAT sets the TTL of the form or deletes it.
LEMMA LogoutExpireatPreserves ==
    ASSUME Base, NEW r \in LogoutGet, LogoutExpireat(r)
    PROVE  Preserved
  <1>1. TypeOK'
    <2>1. pc' \in [Request -> Label] /\ resp' \in [Request -> Answer]
      BY Kinds DEF Base, TypeOK, Label, Answer, LogoutExpireat, Respond, RespondOrLose
    <2>2. logout' \in [Ref -> LogoutRow(Ref) \cup {None}]
      <3>1. logout[r] \in LogoutRow(Ref) \cup {None}
        BY Kinds DEF Base, TypeOK
      <3>2. logout[r] \in LogoutRow(Ref) => [logout[r] EXCEPT !.ttl = TRUE] \in LogoutRow(Ref)
        BY DEF LogoutRow
      <3>3. ExpireAt(logout[r], now) \in LogoutRow(Ref) \cup {None}
        BY <3>1, <3>2 DEF ExpireAt
      <3>. QED  BY <3>3, Kinds DEF Base, TypeOK, LogoutExpireat, Put
    <2>. QED  BY <2>1, <2>2 DEF Base, TypeOK, LogoutExpireat, registry, store
  <1>2. Phase'
    BY Kinds
       DEF Base, TypeOK, Phase, LogoutGetLabel, LogoutExpireat, RespondOrLose, Respond
  <1>3. Written'
    BY Kinds
       DEF Base, TypeOK, Phase, Written, LogoutExpireat, Put, ExpireAt, RespondOrLose,
           Respond
  <1>4. IInv => Spent'
    BY Kinds
       DEF IInv, Base, TypeOK, Phase, Written, Spent, Effective, LogoutExpireat, Put,
           ExpireAt, RespondOrLose, Respond
  <1>5. IInv => EndedForGood'
    BY Kinds
       DEF IInv, Base, TypeOK, Phase, EndedForGood, Effective, LogoutExpireat, Put, ExpireAt,
           RespondOrLose, Respond
  <1>6. OwnToken'
    BY Kinds DEF Base, TypeOK, OwnToken, LogoutExpireat, Put, ExpireAt
  <1>7. IInv => ExchangeAtMostOnce' /\ ClaimAtMostOnce' /\ LogoutFormUsedOnce'
    BY Kinds
       DEF IInv, Base, TypeOK, ExchangeAtMostOnce, ClaimAtMostOnce, LogoutFormUsedOnce,
           Effective, LogoutExpireat
  <1>. QED  BY <1>1, <1>2, <1>3, <1>4, <1>5, <1>6, <1>7 DEF Preserved, Base, IInv

\* A logout that succeeds marks an unused form and deletes the session of the
\* cookie; any other answer changes no row, or deletes the form.
LEMMA CompleteLogoutPreserves ==
    ASSUME Base, NEW r \in LogoutPost, CompleteLogout(r)
    PROVE  Preserved
  <1>1. /\ r \in Request /\ pc[r] = "idle" /\ took[r] = None
        /\ pc \in [Request -> Label] /\ resp \in [Request -> Answer]
        /\ inp \in [Request -> Input] /\ now \in Nat
        /\ took \in [Request -> Nat \cup {None}]
        /\ logout \in [Ref -> LogoutRow(Ref) \cup {None}]
        /\ session \in [Ref -> SessionRow \cup {None}]
    BY Kinds DEF Base, TypeOK, Phase, CompleteLogout
  <1>2. UNCHANGED <<now, enabled, active, external, handoff, loc>>
    BY DEF CompleteLogout, registry
  <1>3. PICK g \in LogoutForms, f \in LogoutForms, k \in Cookies :
           LET reply == LogoutReply(logout[g], f, now) IN
           \/ /\ k # None
              /\ reply = "Ok"
              /\ Present(r, [NoInput EXCEPT !.ref = g, !.csrf = f, !.cookie = k])
              /\ logout' = Put(logout, g, [logout[g] EXCEPT !.status = "used"])
              /\ session' = Del(session, k)
              /\ TakesEffect(r)
              /\ RespondOrLose(r, "return")
           \/ /\ logout' = Del(logout, g) \/ logout' = logout
              /\ \E answer \in {"400", "403"} : Respond(r, answer)
              /\ UNCHANGED <<session, inp, took>>
    BY DEF CompleteLogout
  <1>4. g \in Ref /\ f \in Ref /\ (k # None => k \in Ref)
    BY Kinds DEF LogoutForms, Cookies
  <1>5. CASE /\ logout' = Del(logout, g) \/ logout' = logout
             /\ \E answer \in {"400", "403"} : Respond(r, answer)
             /\ UNCHANGED <<session, inp, took>>
    <2>1. TypeOK'
      BY <1>1, <1>2, <1>5 DEF Base, TypeOK, Label, Answer, Respond, Del
    <2>2. Phase'
      BY <1>1, <1>2, <1>5, Kinds DEF Base, Phase, LogoutPostLabel, Respond
    <2>3. RowsKeptOrGone /\ \A q \in Request : QuietStep(q)
      BY <1>1, <1>2, <1>5 DEF RowsKeptOrGone, QuietStep, Respond, Del
    <2>. QED  BY <2>1, <2>2, <2>3, QuietPreserves
  <1>6. ASSUME k # None, LogoutReply(logout[g], f, now) = "Ok",
               Present(r, [NoInput EXCEPT !.ref = g, !.csrf = f, !.cookie = k]),
               logout' = Put(logout, g, [logout[g] EXCEPT !.status = "used"]),
               session' = Del(session, k), TakesEffect(r), RespondOrLose(r, "return")
        PROVE  Preserved
    <2>. DEFINE row == [logout[g] EXCEPT !.status = "used"]
                i == [NoInput EXCEPT !.ref = g, !.csrf = f, !.cookie = k]
    <2>1. /\ logout[g] \in LogoutRow(Ref) /\ logout[g] # None
          /\ logout[g].status = "unused" /\ logout[g].csrf = f
      BY <1>1, <1>4, <1>6 DEF LogoutReply, LogoutRow
    <2>2. f = g
      BY <1>4, <2>1 DEF Base, OwnToken
    <2>3. g \in LogoutGet /\ pc[g] = "done"
      <3>1. g \in LogoutGet /\ resp[g] = "page"
        BY <1>3, <1>4, <2>1, Kinds DEF LogoutForms, Base, Written
      <3>. QED  BY <3>1, Kinds DEF Base, Phase
    <2>4. k \in Callback => pc[k] = "done"
      <3>1. k \in Callback => resp[k] = "callback"
        BY <1>3, <1>6, Kinds DEF Cookies
      <3>. QED  BY <3>1, Kinds DEF Base, Phase
    <2>5. row \in LogoutRow(Ref) /\ row.status = "used" /\ row.csrf = g
      BY <2>1, <2>2 DEF LogoutRow
    <2>6. i \in Input /\ i.ref = g /\ i.csrf = f /\ i.cookie = k
      BY <1>4, <1>6 DEF Input, NoInput
    <2>7. /\ logout' = [logout EXCEPT ![g] = row]
          /\ session' = [session EXCEPT ![k] = None]
          /\ inp' = [inp EXCEPT ![r] = i]
          /\ took' = [took EXCEPT ![r] = now]
          /\ pc' = [pc EXCEPT ![r] = "done"]
          /\ \E answer \in {"return", "failed"} : resp' = [resp EXCEPT ![r] = answer]
      BY <1>6 DEF Put, Del, Present, TakesEffect, RespondOrLose, Respond
    <2>. HIDE DEF row, i
    <2>8. TypeOK'
      BY <1>1, <1>2, <1>4, <2>5, <2>6, <2>7 DEF Base, TypeOK, Label, Answer
    <2>9. Phase'
      BY <1>1, <1>2, <2>7, Kinds DEF Base, Phase, LogoutPostLabel
    <2>10. Written'
      BY <1>1, <1>2, <2>3, <2>7, Kinds DEF Base, Written
    <2>11. IInv => \A p \in LogoutPost : took[p] # None => inp[p].ref # g
      BY <2>1 DEF IInv, Base, Spent, Effective
    <2>12. \A q \in Request : pc[q] = "done" => pc'[q] = "done"
      BY <1>1, <2>7
    <2>13. IInv => Spent'
      <3>. SUFFICES ASSUME IInv PROVE Spent'
        OBVIOUS
      <3>1. ASSUME NEW p \in LogoutPost, took'[p] # None
            PROVE  /\ inp'[p].ref \in LogoutGet
                   /\ pc'[inp'[p].ref] = "done"
                   /\ logout'[inp'[p].ref] = None \/ logout'[inp'[p].ref].status = "used"
        <4>1. CASE p = r
          BY <1>1, <1>4, <2>3, <2>5, <2>6, <2>7, <2>12, <4>1, Kinds
        <4>2. CASE p # r
          BY <1>1, <2>7, <2>11, <2>12, <3>1, <4>2, Kinds DEF IInv, Base, Spent, Effective
        <4>. QED  BY <4>1, <4>2
      <3>2. \A q \in Callback \cup Exchange : took'[q] = took[q] /\ inp'[q] = inp[q]
        BY <1>1, <2>7, Kinds
      <3>. QED  BY <1>2, <2>12, <3>1, <3>2, Kinds DEF IInv, Base, Spent, Effective
    <2>14. IInv => EndedForGood'
      <3>. SUFFICES ASSUME IInv PROVE EndedForGood'
        OBVIOUS
      <3>1. ASSUME NEW p \in LogoutPost, took'[p] # None
            PROVE  /\ inp'[p].cookie \in Ref
                   /\ session'[inp'[p].cookie] = None
                   /\ inp'[p].cookie \in Callback => pc'[inp'[p].cookie] = "done"
        <4>1. CASE p = r
          BY <1>1, <1>4, <1>6, <2>4, <2>6, <2>7, <2>12, <4>1, Kinds
        <4>2. CASE p # r
          BY <1>1, <2>7, <2>12, <3>1, <4>2, Kinds DEF IInv, Base, EndedForGood, Effective
        <4>. QED  BY <4>1, <4>2
      <3>. QED  BY <3>1 DEF EndedForGood, Effective
    <2>15. OwnToken'
      BY <1>1, <1>4, <2>5, <2>7 DEF Base, OwnToken
    <2>16. IInv => ExchangeAtMostOnce' /\ ClaimAtMostOnce'
      BY <1>1, <2>7, Kinds DEF IInv, Base, ExchangeAtMostOnce, ClaimAtMostOnce, Effective
    <2>17. IInv => LogoutFormUsedOnce'
      BY <1>1, <2>2, <2>6, <2>7, <2>11, Kinds DEF IInv, Base, LogoutFormUsedOnce, Effective
    <2>. QED
      BY <2>8, <2>9, <2>10, <2>13, <2>14, <2>15, <2>16, <2>17 DEF Preserved, Base, IInv
  <1>. QED  BY <1>3, <1>5, <1>6

-----------------------------------------------------------------------------
\* Operators, Redis expiry and the clock only switch flags and delete rows.
LEMMA EnvironmentPreserves ==
    ASSUME Base, Environment
    PROVE  Preserved
  <1>1. ASSUME NEW r \in Request, Fail(r) PROVE Preserved
    BY <1>1, FailPreserves
  <1>2. ASSUME NEW u \in User, SwitchUser(u) PROVE Preserved
    <2>1. TypeOK'
      BY <1>2 DEF Base, TypeOK, SwitchUser, store
    <2>2. Phase' /\ RowsKeptOrGone /\ \A q \in Request : QuietStep(q)
      BY <1>2 DEF Base, Phase, RowsKeptOrGone, QuietStep, SwitchUser, store
    <2>. QED  BY <2>1, <2>2, QuietPreserves
  <1>3. ASSUME NEW s \in Service, SwitchService(s) PROVE Preserved
    <2>1. TypeOK'
      BY <1>3 DEF Base, TypeOK, SwitchService, store
    <2>2. Phase' /\ RowsKeptOrGone /\ \A q \in Request : QuietStep(q)
      BY <1>3 DEF Base, Phase, RowsKeptOrGone, QuietStep, SwitchService, store
    <2>. QED  BY <2>1, <2>2, QuietPreserves
  <1>4. ASSUME NEW k \in Ref, Expire(k) PROVE Preserved
    <2>1. TypeOK'
      BY <1>4 DEF Base, TypeOK, Expire, Del, registry
    <2>2. Phase'
      BY <1>4 DEF Base, Phase, Expire
    <2>3. RowsKeptOrGone /\ \A q \in Request : QuietStep(q)
      BY <1>4 DEF Base, TypeOK, RowsKeptOrGone, QuietStep, Expire, Del
    <2>. QED  BY <2>1, <2>2, <2>3, QuietPreserves
  <1>5. CASE Tick
    <2>1. TypeOK'
      BY <1>5 DEF Base, TypeOK, Tick, Survive, registry
    <2>2. Phase'
      BY <1>5 DEF Base, Phase, Tick
    <2>3. RowsKeptOrGone /\ \A q \in Request : QuietStep(q)
      BY <1>5 DEF RowsKeptOrGone, QuietStep, Tick, Survive
    <2>. QED  BY <2>1, <2>2, <2>3, QuietPreserves
  <1>. QED  BY <1>1, <1>2, <1>3, <1>4, <1>5 DEF Environment

\* At first nothing is stored and nobody has asked for anything.
LEMMA InitEstablishes == Init => IInv
  <1>. SUFFICES ASSUME Init PROVE IInv
    OBVIOUS
  <1>1. NoInput \in Input /\ NoLocal \in Local
    BY DEF NoInput, Input, NoLocal, Local
  <1>2. TypeOK
    BY <1>1 DEF Init, TypeOK, Label, Answer
  <1>3. Phase
    BY Kinds DEF Init, Phase, LoginLabel, CallbackLabel, ExchangeLabel,
                 LogoutGetLabel, LogoutPostLabel
  <1>4. Written /\ OwnToken
    BY DEF Init, Written, OwnToken
  <1>5. \A r \in Request : took[r] = None
    BY DEF Init
  <1>6. Spent /\ EndedForGood /\ ExchangeAtMostOnce /\ ClaimAtMostOnce /\ LogoutFormUsedOnce
    BY <1>5, Kinds DEF Spent, EndedForGood, ExchangeAtMostOnce, ClaimAtMostOnce,
                       LogoutFormUsedOnce, Effective
  <1>. QED  BY <1>2, <1>3, <1>4, <1>6 DEF IInv, Base

\* A step that changes nothing.
LEMMA StutterPreserves == ASSUME Base, UNCHANGED vars PROVE Preserved
  <1>1. TypeOK' /\ Phase'
    BY DEF Base, TypeOK, Phase, vars, AppClock
  <1>2. RowsKeptOrGone /\ \A q \in Request : QuietStep(q)
    BY DEF RowsKeptOrGone, QuietStep, vars
  <1>. QED  BY <1>1, <1>2, QuietPreserves

\* Every step keeps Base, and the whole invariant if it holds.
LEMMA StepPreserves == ASSUME Base, [Next]_vars PROVE Preserved
  <1>1. ASSUME NEW r \in Login, LoginHandler(r) PROVE Preserved
    BY <1>1, LoginStartPreserves, ReadSessionPreserves, DelSessionPreserves,
       CheckUserPreserves, IssueSsoPreserves, ExternalHsetPreserves,
       ExternalExpireatPreserves DEF LoginHandler
  <1>2. ASSUME NEW r \in Callback, CallbackHandler(r) PROVE Preserved
    BY <1>2, ClaimPreserves, CallbackServicePreserves, GoogleIdentityPreserves,
       ResolveIdentityPreserves, CreateSessionPreserves DEF CallbackHandler
  <1>3. ASSUME NEW r \in Exchange, ExchangeHandler(r) PROVE Preserved
    BY <1>3, ExchangeStartPreserves, HandoffTypePreserves, HandoffHgetPreserves,
       ExchangeHandoffPreserves DEF ExchangeHandler
  <1>4. ASSUME NEW r \in LogoutGet, LogoutGetHandler(r) PROVE Preserved
    BY <1>4, LogoutGetStartPreserves, LogoutHsetPreserves, LogoutExpireatPreserves
       DEF LogoutGetHandler
  <1>5. ASSUME NEW r \in LogoutPost, CompleteLogout(r) PROVE Preserved
    BY <1>5, CompleteLogoutPreserves
  <1>6. CASE Environment
    BY <1>6, EnvironmentPreserves
  <1>7. CASE UNCHANGED vars
    BY <1>7, StutterPreserves
  <1>. QED  BY <1>1, <1>2, <1>3, <1>4, <1>5, <1>6, <1>7 DEF Next, Handler

-----------------------------------------------------------------------------
\* The inductive invariant holds in every behaviour: whatever the number of
\* requests, their interleaving, their failures, the skew and the lifetimes.
THEOREM Invariance == Spec => []IInv
  <1>1. Init => IInv
    BY InitEstablishes
  <1>2. IInv /\ [Next]_vars => IInv'
    BY StepPreserves DEF IInv, Preserved
  <1>. QED  BY <1>1, <1>2, PTL DEF Spec

\* The variables keep their types.
THEOREM TypeCorrect == Spec => []TypeOK
  BY Invariance, PTL DEF IInv, Base

\* A handoff code is exchanged at most once, however many exchange requests
\* run at once and whatever fails around them.
THEOREM CodesAreUsedOnce == Spec => []ExchangeAtMostOnce
  BY Invariance, PTL DEF IInv

\* An OAuth state is claimed at most once.
THEOREM StatesAreClaimedOnce == Spec => []ClaimAtMostOnce
  BY Invariance, PTL DEF IInv

\* A logout form is used at most once, and only with its own CSRF token.
THEOREM FormsAreUsedOnce == Spec => []LogoutFormUsedOnce
  BY Invariance, PTL DEF IInv

\* Only the script of the request itself gives it its effect, and the scripts
\* of a login and of an exchange refuse a session that does not exist.
LEMMA EffectNeedsSession ==
    ASSUME IInv, Next
    PROVE  /\ \A l \in Login : TakesEffectNow(l) => session[inp[l].cookie] # None
           /\ \A x \in Exchange : TakesEffectNow(x) => session[loc[x].session] # None
  <1>. DEFINE Goal ==
          /\ \A l \in Login : TakesEffectNow(l) => session[inp[l].cookie] # None
          /\ \A x \in Exchange : TakesEffectNow(x) => session[loc[x].session] # None
  <1>1. ASSUME took' = took PROVE Goal
    BY <1>1 DEF TakesEffectNow
  <1>2. ASSUME NEW r \in Login, IssueSso(r) PROVE Goal
    <2>1. \A q \in Request : q # r => took'[q] = took[q]
      BY <1>2 DEF IInv, Base, TypeOK, IssueSso, TakesEffect
    <2>2. took'[r] # took[r] => session[inp[r].cookie] # None
      BY <1>2 DEF IssueSso, IssueSsoReply
    <2>. QED  BY <2>1, <2>2, Kinds DEF TakesEffectNow
  <1>3. ASSUME NEW r \in Exchange, ExchangeHandoff(r) PROVE Goal
    <2>1. \A q \in Request : q # r => took'[q] = took[q]
      BY <1>3 DEF IInv, Base, TypeOK, ExchangeHandoff, TakesEffect
    <2>2. took'[r] # took[r] => session[loc[r].session] # None
      BY <1>3 DEF ExchangeHandoff, ExchangeReply
    <2>. QED  BY <2>1, <2>2, Kinds DEF TakesEffectNow
  <1>4. ASSUME NEW r \in Callback, Claim(r) PROVE Goal
    BY <1>4, Kinds DEF IInv, Base, TypeOK, Claim, TakesEffect, TakesEffectNow
  <1>5. ASSUME NEW r \in LogoutPost, CompleteLogout(r) PROVE Goal
    BY <1>5, Kinds DEF IInv, Base, TypeOK, CompleteLogout, TakesEffect, TakesEffectNow
  <1>6. ASSUME NEW r \in Login, LoginHandler(r), ~IssueSso(r) PROVE took' = took
    BY <1>6 DEF LoginStart, LoginHandler, ReadSession, DelSession, CheckUser,
                ExternalHset, ExternalExpireat
  <1>7. ASSUME NEW r \in Callback, CallbackHandler(r), ~Claim(r) PROVE took' = took
    BY <1>7
       DEF CallbackHandler, CallbackService, GoogleIdentity, ResolveIdentity, CreateSession
  <1>8. ASSUME NEW r \in Exchange, ExchangeHandler(r), ~ExchangeHandoff(r)
        PROVE  took' = took
    BY <1>8 DEF ExchangeStart, ExchangeHandler, HandoffType, HandoffHget
  <1>9. ASSUME NEW r \in LogoutGet, LogoutGetHandler(r) PROVE took' = took
    BY <1>9 DEF LogoutGetStart, LogoutGetHandler, LogoutHset, LogoutExpireat
  <1>10. ASSUME Environment PROVE took' = took
    BY <1>10 DEF Environment, Fail, SwitchUser, SwitchService, Expire, Tick
  <1>11. CASE Environment
    BY <1>1, <1>10, <1>11
  <1>12. CASE Handler
    <2>1. CASE took' = took
      BY <1>1, <2>1
    <2>2. CASE took' # took
      <3>1. \/ \E r \in Login : IssueSso(r)
            \/ \E r \in Exchange : ExchangeHandoff(r)
            \/ \E r \in Callback : Claim(r)
            \/ \E r \in LogoutPost : CompleteLogout(r)
        BY <1>6, <1>7, <1>8, <1>9, <1>12, <2>2 DEF Handler
      <3>. QED  BY <1>2, <1>3, <1>4, <1>5, <3>1
    <2>. QED  BY <2>1, <2>2
  <1>. QED  BY <1>11, <1>12 DEF Next

\* Logout is final in every behaviour: a login that has already read the
\* session, and an exchange that has already looked its session up, get
\* nothing once a logout has ended it.
THEOREM LogoutEndsTheSession == Spec => LogoutIsFinal
  <1>. DEFINE Final ==
          /\ \A l \in Login : TakesEffectNow(l) => inp[l].cookie \notin Ended
          /\ \A x \in Exchange : TakesEffectNow(x) => loc[x].session \notin Ended
  <1>1. IInv /\ [Next]_vars => [Final]_vars
    <2>. SUFFICES ASSUME IInv, Next PROVE Final
      OBVIOUS
    <2>1. \A k \in Ended : session[k] = None
      BY DEF IInv, EndedForGood, Ended
    <2>2. /\ \A l \in Login : TakesEffectNow(l) => session[inp[l].cookie] # None
          /\ \A x \in Exchange : TakesEffectNow(x) => session[loc[x].session] # None
      BY EffectNeedsSession
    <2>. QED  BY <2>1, <2>2
  <1>. QED  BY <1>1, Invariance, PTL DEF Spec, LogoutIsFinal

=============================================================================
