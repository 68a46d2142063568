------------------------ MODULE RedisFailoverProofs ------------------------
(***************************************************************************)
(* What survives the loss of acknowledged writes, proved for any constants *)
(* and any number of failovers.  The rows of a replica that has fallen     *)
(* behind still say which requests they were made by and for (Sound), so   *)
(* every exchange answers its login and nothing is used past its lifetime, *)
(* failovers or not.  What a failover costs is one more use of a reference *)
(* value: the uses of a value are counted against the failovers so far     *)
(* (Budgets).                                                              *)
(***************************************************************************)
EXTENDS RedisFailover, AuthFoundationOriginProofs, FiniteSetTheorems

\* The rows of a server: their types, the requests that wrote them, and what
\* they say of these requests.
Sound(rows) ==
    /\ rows.external \in [Ref -> ExternalRow \cup {None}]
    /\ rows.session \in [Ref -> SessionRow \cup {None}]
    /\ rows.handoff \in [Ref -> HandoffRow(Ref) \cup {None}]
    /\ rows.logout \in [Ref -> LogoutRow(Ref) \cup {None}]
    /\ \A k \in Ref :
          /\ rows.external[k] # None => k \in Login /\ pc[k] \in {"external_expireat", "done"}
          /\ rows.session[k] # None => k \in Callback /\ pc[k] = "done"
          /\ rows.handoff[k] # None => k \in Login \cup Callback /\ pc[k] = "done"
          /\ rows.logout[k] # None =>
                k \in LogoutGet /\ pc[k] \in {"logout_expireat", "done"} /\ rows.logout[k].csrf = k
    /\ ExternalRows(rows.external)
    /\ SessionRows(rows.session)
    /\ HandoffRows(rows.handoff)
    /\ LogoutRows(rows.logout)

\* The requests of kind R that have used reference value k.
UseSet(R, k) == {r \in Effective(R) : inp[r].ref = k}

\* The next request that presents k would use it.
Waiting(k) == external[k] # None /\ external[k].status = "waiting"
Exchangeable(k) == handoff[k] # None /\ handoff[k].status = "unused"
OpenForm(k) == logout[k] # None /\ logout[k].status = "unused"

\* There are at most n uses.
AtMost(n, uses) == IsFiniteSet(uses) /\ Cardinality(uses) <= n

\* One use and one more per failover; less while another is possible.
Budgets ==
    \A k \in Ref :
       /\ AtMost(1 + failovers, UseSet(Callback, k))
       /\ Waiting(k) => AtMost(failovers, UseSet(Callback, k))
       /\ AtMost(1 + failovers, UseSet(Exchange, k))
       /\ Exchangeable(k) => AtMost(failovers, UseSet(Exchange, k))
       /\ AtMost(1 + failovers, UseSet(LogoutPost, k))
       /\ OpenForm(k) => AtMost(failovers, UseSet(LogoutPost, k))

FailoverInv ==
    /\ Base
    /\ Origins
    /\ replica # None => Sound(replica)
    /\ failovers \in Nat
    /\ Budgets
-----------------------------------------------------------------------------
\* The master's rows are sound.
LEMMA MasterIsSound ==
    ASSUME Base, Origins
    PROVE  Sound(MasterRows)
  BY DEF Sound, MasterRows, Base, TypeOK, Written, OwnToken, Origins

\* Handoffs the replica has stay sound while requests go on.
LEMMA ReplicaHandoffs ==
    ASSUME Settled, Sound(replica), replica' = replica
    PROVE  HandoffRows(replica.handoff)'
  <1>. SUFFICES ASSUME NEW h \in Login \cup Callback, replica.handoff[h] # None
                PROVE  HandoffOf(h, replica.handoff[h])'
    BY DEF HandoffRows
  <1>1. pc[h] = "done" /\ HandoffOf(h, replica.handoff[h])
    BY Kinds DEF Sound, HandoffRows
  <1>. QED  BY <1>1, SourceStays DEF HandoffOf

\* So do all its rows.
LEMMA ReplicaStaysSound ==
    ASSUME Settled, Sound(replica), replica' = replica
    PROVE  Sound(replica)'
  <1>1. \A k \in Request :
          /\ pc[k] # "idle" => inp'[k] = inp[k]
          /\ pc[k] = "done" => pc'[k] = "done" /\ loc'[k] = loc[k]
          /\ k \in Login \cup LogoutGet /\ pc[k] # "idle" => loc'[k].now = loc[k].now
          /\ pc[k] \in {"external_expireat", "logout_expireat"} => pc'[k] \in {pc[k], "done"}
    BY DEF Settled
  <1>2. ExternalRows(replica.external)'
    BY <1>1, Kinds DEF Sound, ExternalRows
  <1>3. SessionRows(replica.session)'
    BY <1>1, Kinds DEF Sound, SessionRows
  <1>4. LogoutRows(replica.logout)'
    BY <1>1, Kinds DEF Sound, LogoutRows
  <1>5. \A k \in Ref :
          /\ replica.external[k] # None => k \in Login /\ pc'[k] \in {"external_expireat", "done"}
          /\ replica.session[k] # None => k \in Callback /\ pc'[k] = "done"
          /\ replica.handoff[k] # None => k \in Login \cup Callback /\ pc'[k] = "done"
          /\ replica.logout[k] # None =>
                /\ k \in LogoutGet
                /\ pc'[k] \in {"logout_expireat", "done"}
                /\ replica.logout[k].csrf = k
    BY <1>1, Kinds DEF Sound
  <1>. QED  BY <1>2, <1>3, <1>4, <1>5, ReplicaHandoffs DEF Sound

\* The promoted replica's rows are sound, so the service goes on as before.
LEMMA PromoteKeeps ==
    ASSUME Base, Origins, Sound(replica), Promote
    PROVE  Base' /\ Origins'
  <1>1. /\ UNCHANGED <<now, enabled, active, pc, inp, loc, resp, took>>
        /\ now \in Nat
    BY DEF Promote, registry, Base, TypeOK
  <1>2. \A k \in Ref :
          /\ external'[k] \in {replica.external[k], None}
          /\ session'[k] \in {replica.session[k], None}
          /\ handoff'[k] \in {replica.handoff[k], None}
          /\ logout'[k] \in {replica.logout[k], None}
    BY DEF Promote, Kept, Survive
  <1>3. /\ external' \in [Ref -> ExternalRow \cup {None}]
        /\ session' \in [Ref -> SessionRow \cup {None}]
        /\ handoff' \in [Ref -> HandoffRow(Ref) \cup {None}]
        /\ logout' \in [Ref -> LogoutRow(Ref) \cup {None}]
    BY DEF Promote, Kept, Survive, Sound
  <1>4. TypeOK'
    BY <1>1, <1>3 DEF Base, TypeOK
  <1>5. Phase'
    BY <1>1 DEF Base, Phase
  <1>6. Written' /\ OwnToken'
    BY <1>1, <1>2 DEF Sound, Written, OwnToken
  <1>7. HandlersKnow' /\ UsesRight'
    BY <1>1
       DEF Origins, HandlersKnow, TxnOf, WhoOf, UsesRight, Effective, CallbackRight,
           ExchangeRight, LogoutRight, LoginRight, LoginOf, AuthenticatedBy
  <1>8. ExternalRows(external)' /\ SessionRows(session)' /\ LogoutRows(logout)'
    BY <1>1, <1>2, Kinds DEF Sound, ExternalRows, SessionRows, LogoutRows
  <1>9. HandoffRows(handoff)'
    BY <1>1, <1>2, Kinds DEF Sound, HandoffRows, HandoffOf, TxnOf, LoginOf, AuthenticatedBy
  <1>. QED  BY <1>4, <1>5, <1>6, <1>7, <1>8, <1>9 DEF Base, Origins
-----------------------------------------------------------------------------
\* No value becomes usable that was not, but one whose request is making it.
OnlyNew(k) ==
    /\ Waiting(k)' => Waiting(k) \/ (k \in Request /\ pc[k] # "done")
    /\ Exchangeable(k)' => Exchangeable(k) \/ (k \in Request /\ pc[k] # "done")
    /\ OpenForm(k)' => OpenForm(k) \/ (k \in Request /\ pc[k] # "done")

\* The request uses the value it presented, which marks it.
Spends(r) ==
    /\ took[r] = None
    /\ \A q \in Request : q # r => took'[q] = took[q]

ClaimSpends(r) ==
    Spends(r) /\ \E k \in Ref : inp'[r].ref = k /\ Waiting(k) /\ ~Waiting(k)'

ExchangeSpends(r) ==
    Spends(r) /\ \E k \in Ref : inp'[r].ref = k /\ Exchangeable(k) /\ ~Exchangeable(k)'

LogoutSpends(r) ==
    Spends(r) /\ \E k \in Ref : inp'[r].ref = k /\ OpenForm(k) /\ ~OpenForm(k)'

\* The steps that use nothing.
NoUse == took' = took /\ \A k \in Ref : OnlyNew(k)

\* The handler steps of logins.
LEMMA LoginStep ==
    ASSUME Base, NEW r \in Login, LoginHandler(r)
    PROVE  /\ \A k \in Ref : OnlyNew(k)
           /\ took' = took \/ Spends(r)
  <1>1. r \in Request /\ r \in Ref
    BY Kinds
  <1>2. CASE LoginStart(r) \/ ReadSession(r) \/ DelSession(r) \/ CheckUser(r)
    <2>1. UNCHANGED <<external, handoff, logout, took>>
      BY <1>2 DEF LoginStart, ReadSession, DelSession, CheckUser, store
    <2>. QED  BY <2>1 DEF OnlyNew, Waiting, Exchangeable, OpenForm
  <1>3. CASE ExternalHset(r)
    <2>1. /\ UNCHANGED <<handoff, logout, took>> /\ pc[r] # "done"
          /\ \A k \in Ref : k # r => external'[k] = external[k]
      BY <1>3 DEF ExternalHset, Put, Base, TypeOK
    <2>. QED  BY <1>1, <2>1 DEF OnlyNew, Waiting, Exchangeable, OpenForm
  <1>4. CASE ExternalExpireat(r)
    <2>1. /\ UNCHANGED <<handoff, logout, took>> /\ pc[r] # "done"
          /\ \A k \in Ref : k # r => external'[k] = external[k]
      BY <1>4 DEF ExternalExpireat, Put, Base, TypeOK
    <2>. QED  BY <1>1, <2>1 DEF OnlyNew, Waiting, Exchangeable, OpenForm
  <1>5. CASE IssueSso(r)
    <2>1. /\ UNCHANGED <<external, logout>> /\ pc[r] # "done" /\ took[r] = None
          /\ \A k \in Ref : k # r => handoff'[k] = handoff[k]
          /\ \A q \in Request : q # r => took'[q] = took[q]
      BY <1>1, <1>5 DEF IssueSso, Put, TakesEffect, Base, TypeOK, Phase
    <2>. QED  BY <1>1, <2>1 DEF OnlyNew, Waiting, Exchangeable, OpenForm, Spends
  <1>. QED  BY <1>2, <1>3, <1>4, <1>5 DEF LoginHandler

\* The handler steps of callbacks.
LEMMA CallbackStep ==
    ASSUME Base, NEW r \in Callback, CallbackHandler(r)
    PROVE  /\ \A k \in Ref : OnlyNew(k)
           /\ took' = took \/ ClaimSpends(r)
  <1>1. r \in Request /\ r \in Ref
    BY Kinds
  <1>2. CASE CallbackService(r) \/ GoogleIdentity(r) \/ ResolveIdentity(r)
    <2>1. UNCHANGED <<external, handoff, logout, took>>
      BY <1>2 DEF CallbackService, GoogleIdentity, ResolveIdentity, store
    <2>. QED  BY <2>1 DEF OnlyNew, Waiting, Exchangeable, OpenForm
  <1>3. CASE CreateSession(r)
    <2>1. /\ UNCHANGED <<external, logout, took>> /\ pc[r] # "done"
          /\ \A k \in Ref : k # r => handoff'[k] = handoff[k]
      BY <1>3 DEF CreateSession, Put, Base, TypeOK
    <2>. QED  BY <1>1, <2>1 DEF OnlyNew, Waiting, Exchangeable, OpenForm
  <1>4. CASE Claim(r)
    <2>1. UNCHANGED <<handoff, logout>> /\ pc[r] = "idle" /\ took[r] = None
      BY <1>1, <1>4 DEF Claim, Base, Phase
    <2>2. PICK k \in OauthStates :
             \/ /\ ClaimReply(external[k], now) = "Ok"
                /\ Present(r, [NoInput EXCEPT !.ref = k])
                /\ external' = Put(external, k, [external[k] EXCEPT !.status = "processing"])
                /\ TakesEffect(r)
             \/ /\ external' = Del(external, k) \/ external' = external
                /\ took' = took
      BY <1>4 DEF Claim
    <2>3. k \in Ref
      BY Kinds DEF OauthStates
    <2>4. CASE /\ external' = Del(external, k) \/ external' = external
               /\ took' = took
      BY <2>1, <2>3, <2>4 DEF Del, Base, TypeOK, OnlyNew, Waiting, Exchangeable, OpenForm
    <2>5. ASSUME ClaimReply(external[k], now) = "Ok",
                 Present(r, [NoInput EXCEPT !.ref = k]),
                 external' = Put(external, k, [external[k] EXCEPT !.status = "processing"]),
                 TakesEffect(r)
          PROVE  (\A q \in Ref : OnlyNew(q)) /\ ClaimSpends(r)
      <3>. DEFINE row == [external[k] EXCEPT !.status = "processing"]
      <3>1. external[k] \in ExternalRow /\ Waiting(k)
        BY <2>3, <2>5 DEF ClaimReply, ExternalRow, Base, TypeOK, Waiting
      <3>2. row.status = "processing"
        BY <3>1 DEF ExternalRow
      <3>3. external' = [external EXCEPT ![k] = row] /\ inp'[r].ref = k
        BY <1>1, <2>5 DEF Put, Present, NoInput, Base, TypeOK
      <3>4. \A q \in Request : q # r => took'[q] = took[q]
        BY <2>5 DEF TakesEffect, Base, TypeOK
      <3>. HIDE DEF row
      <3>5. external'[k] = row /\ \A q \in Ref : q # k => external'[q] = external[q]
        BY <2>3, <3>3 DEF Base, TypeOK
      <3>6. ~Waiting(k)' /\ \A q \in Ref : Waiting(q)' => Waiting(q)
        BY <2>3, <3>2, <3>5 DEF Waiting
      <3>. QED
        BY <2>1, <2>3, <3>1, <3>3, <3>4, <3>6
           DEF OnlyNew, ClaimSpends, Spends, Waiting, Exchangeable, OpenForm
    <2>. QED  BY <2>2, <2>4, <2>5
  <1>. QED  BY <1>2, <1>3, <1>4 DEF CallbackHandler

\* The handler steps of exchanges.
LEMMA ExchangeStep ==
    ASSUME Base, NEW r \in Exchange, ExchangeHandler(r)
    PROVE  /\ \A k \in Ref : OnlyNew(k)
           /\ took' = took \/ ExchangeSpends(r)
  <1>1. r \in Request /\ r \in Ref
    BY Kinds
  <1>2. CASE ExchangeStart(r) \/ HandoffType(r) \/ HandoffHget(r)
    <2>1. UNCHANGED <<external, handoff, logout, took>>
      BY <1>2 DEF ExchangeStart, HandoffType, HandoffHget, store
    <2>. QED  BY <2>1 DEF OnlyNew, Waiting, Exchangeable, OpenForm
  <1>3. CASE ExchangeHandoff(r)
    <2>0. PICK h \in Ref : inp[r].ref = h
      BY <1>1, <1>3 DEF ExchangeHandoff, Base, Phase
    <2>. DEFINE k == loc[r].session
                row == [handoff[h] EXCEPT !.status = "used"]
                reply == ExchangeReply(handoff[h], session[k], k, inp[r].service,
                                       inp[r].challenge, now)
    <2>1. UNCHANGED <<external, logout, inp>> /\ took[r] = None
      BY <1>1, <1>3 DEF ExchangeHandoff, Base, Phase
    <2>2. CASE /\ handoff' = Del(handoff, h) \/ handoff' = handoff
               /\ took' = took
      BY <2>1, <2>2 DEF Del, Base, TypeOK, OnlyNew, Waiting, Exchangeable, OpenForm
    <2>3. ASSUME reply = "Ok", handoff' = Put(handoff, h, row), TakesEffect(r)
          PROVE  (\A q \in Ref : OnlyNew(q)) /\ ExchangeSpends(r)
      <3>1. handoff[h] \in HandoffRow(Ref) /\ Exchangeable(h)
        BY <2>1, <2>3 DEF ExchangeReply, HandoffRow, Base, TypeOK, Exchangeable
      <3>2. row.status = "used"
        BY <3>1 DEF HandoffRow
      <3>3. handoff' = [handoff EXCEPT ![h] = row]
        BY <2>3 DEF Put
      <3>4. \A q \in Request : q # r => took'[q] = took[q]
        BY <2>3 DEF TakesEffect, Base, TypeOK
      <3>5. inp'[r].ref = h
        BY <2>0, <2>1
      <3>. HIDE DEF row, reply
      <3>6. handoff'[h] = row /\ \A q \in Ref : q # h => handoff'[q] = handoff[q]
        BY <2>1, <3>3 DEF Base, TypeOK
      <3>7. ~Exchangeable(h)' /\ \A q \in Ref : Exchangeable(q)' => Exchangeable(q)
        BY <2>1, <3>2, <3>6 DEF Exchangeable
      <3>. QED
        BY <2>1, <3>1, <3>4, <3>5, <3>7
           DEF OnlyNew, ExchangeSpends, Spends, Waiting, Exchangeable, OpenForm
    <2>. QED  BY <1>3, <2>0, <2>2, <2>3 DEF ExchangeHandoff
  <1>. QED  BY <1>2, <1>3 DEF ExchangeHandler

\* The handler steps of logouts.
LEMMA LogoutGetStep ==
    ASSUME Base, NEW r \in LogoutGet, LogoutGetHandler(r)
    PROVE  NoUse
  <1>1. r \in Request /\ r \in Ref
    BY Kinds
  <1>2. CASE LogoutGetStart(r)
    BY <1>2 DEF LogoutGetStart, store, NoUse, OnlyNew, Waiting, Exchangeable, OpenForm
  <1>3. CASE LogoutHset(r)
    <2>1. /\ UNCHANGED <<external, handoff, took>> /\ pc[r] # "done"
          /\ \A k \in Ref : k # r => logout'[k] = logout[k]
      BY <1>3 DEF LogoutHset, Put, Base, TypeOK
    <2>. QED  BY <1>1, <2>1 DEF NoUse, OnlyNew, Waiting, Exchangeable, OpenForm
  <1>4. CASE LogoutExpireat(r)
    <2>1. /\ UNCHANGED <<external, handoff, took>> /\ pc[r] # "done"
          /\ \A k \in Ref : k # r => logout'[k] = logout[k]
      BY <1>4 DEF LogoutExpireat, Put, Base, TypeOK
    <2>. QED  BY <1>1, <2>1 DEF NoUse, OnlyNew, Waiting, Exchangeable, OpenForm
  <1>. QED  BY <1>2, <1>3, <1>4 DEF LogoutGetHandler

\* The step of POST /auth/logout.
LEMMA LogoutPostStep ==
    ASSUME Base, NEW r \in LogoutPost, CompleteLogout(r)
    PROVE  /\ \A k \in Ref : OnlyNew(k)
           /\ took' = took \/ LogoutSpends(r)
  <1>1. r \in Request /\ UNCHANGED <<external, handoff>> /\ pc[r] = "idle" /\ took[r] = None
    BY Kinds DEF CompleteLogout, Base, Phase
  <1>2. PICK g \in LogoutForms, f \in LogoutForms, k \in Cookies :
           \/ /\ LogoutReply(logout[g], f, now) = "Ok"
              /\ Present(r, [NoInput EXCEPT !.ref = g, !.csrf = f, !.cookie = k])
              /\ logout' = Put(logout, g, [logout[g] EXCEPT !.status = "used"])
              /\ TakesEffect(r)
           \/ /\ logout' = Del(logout, g) \/ logout' = logout
              /\ took' = took
    BY DEF CompleteLogout
  <1>3. g \in Ref
    BY Kinds DEF LogoutForms
  <1>4. CASE /\ logout' = Del(logout, g) \/ logout' = logout
             /\ took' = took
    BY <1>1, <1>3, <1>4 DEF Del, Base, TypeOK, OnlyNew, Waiting, Exchangeable, OpenForm
  <1>5. ASSUME LogoutReply(logout[g], f, now) = "Ok",
               Present(r, [NoInput EXCEPT !.ref = g, !.csrf = f, !.cookie = k]),
               logout' = Put(logout, g, [logout[g] EXCEPT !.status = "used"]),
               TakesEffect(r)
        PROVE  (\A q \in Ref : OnlyNew(q)) /\ LogoutSpends(r)
    <2>. DEFINE row == [logout[g] EXCEPT !.status = "used"]
    <2>1. logout[g] \in LogoutRow(Ref) /\ OpenForm(g)
      BY <1>3, <1>5 DEF LogoutReply, LogoutRow, Base, TypeOK, OpenForm
    <2>2. row.status = "used"
      BY <2>1 DEF LogoutRow
    <2>3. logout' = [logout EXCEPT ![g] = row] /\ inp'[r].ref = g
      BY <1>1, <1>5 DEF Put, Present, NoInput, Base, TypeOK
    <2>4. \A q \in Request : q # r => took'[q] = took[q]
      BY <1>5 DEF TakesEffect, Base, TypeOK
    <2>. HIDE DEF row
    <2>5. logout'[g] = row /\ \A q \in Ref : q # g => logout'[q] = logout[q]
      BY <1>3, <2>3 DEF Base, TypeOK
    <2>6. ~OpenForm(g)' /\ \A q \in Ref : OpenForm(q)' => OpenForm(q)
      BY <1>3, <2>2, <2>5 DEF OpenForm
    <2>. QED
      BY <1>1, <1>3, <2>1, <2>3, <2>4, <2>6
         DEF OnlyNew, LogoutSpends, Spends, Waiting, Exchangeable, OpenForm
  <1>. QED  BY <1>2, <1>4, <1>5

\* Failures, operators and the clock use nothing and make nothing usable.
LEMMA EnvironmentStep ==
    ASSUME Base, Environment
    PROVE  NoUse
  <1>1. ASSUME NEW r \in Request, Fail(r) PROVE NoUse
    BY <1>1 DEF Fail, store, NoUse, OnlyNew, Waiting, Exchangeable, OpenForm
  <1>2. ASSUME NEW u, SwitchUser(u) \/ SwitchService(u) PROVE NoUse
    BY <1>2
       DEF SwitchUser, SwitchService, store, NoUse, OnlyNew, Waiting, Exchangeable, OpenForm
  <1>3. ASSUME took' = took,
               \A k \in Ref : /\ external'[k] \in {external[k], None}
                              /\ handoff'[k] \in {handoff[k], None}
                              /\ logout'[k] \in {logout[k], None}
        PROVE  NoUse
    BY <1>3 DEF NoUse, OnlyNew, Waiting, Exchangeable, OpenForm
  <1>4. ASSUME NEW k \in Ref, Expire(k) PROVE NoUse
    BY <1>3, <1>4 DEF Expire, Del, Base, TypeOK
  <1>5. CASE Tick
    BY <1>3, <1>5 DEF Tick, Survive
  <1>. QED  BY <1>1, <1>2, <1>4, <1>5 DEF Environment

\* Every step of the service uses at most one value, which it could use before
\* and cannot use after.
LEMMA ServiceStep ==
    ASSUME Base, [Next]_vars
    PROVE  /\ \A k \in Ref : OnlyNew(k)
           /\ \/ took' = took
              \/ \E r \in Login : Spends(r)
              \/ \E r \in Callback : ClaimSpends(r)
              \/ \E r \in Exchange : ExchangeSpends(r)
              \/ \E r \in LogoutPost : LogoutSpends(r)
  <1>1. CASE UNCHANGED vars
    BY <1>1 DEF vars, OnlyNew, Waiting, Exchangeable, OpenForm
  <1>2. CASE Environment
    BY <1>2, EnvironmentStep DEF NoUse
  <1>3. CASE Handler
    BY <1>3, LoginStep, CallbackStep, ExchangeStep, LogoutGetStep, LogoutPostStep
       DEF Handler, NoUse
  <1>. QED  BY <1>1, <1>2, <1>3 DEF Next
-----------------------------------------------------------------------------
\* What no request has used is within every budget.
LEMMA NoUses == ASSUME NEW n \in Nat PROVE AtMost(n, {})
  BY FS_EmptySet DEF AtMost

\* One more use is within a budget of one more.
LEMMA OneMore ==
    ASSUME NEW n \in Nat, NEW uses, AtMost(n, uses), NEW r
    PROVE  AtMost(1 + n, uses \cup {r})
  <1>1. IsFiniteSet(uses) /\ Cardinality(uses) \in Nat
    BY FS_CardinalityType DEF AtMost
  <1>2. IsFiniteSet(uses \cup {r}) /\ Cardinality(uses \cup {r}) <= Cardinality(uses) + 1
    <2>1. CASE r \in uses
      <3>1. uses \cup {r} = uses
        BY <2>1
      <3>. QED  BY <1>1, <3>1
    <2>2. CASE r \notin uses
      BY <1>1, <2>2, FS_AddElement
    <2>. QED  BY <2>1, <2>2
  <1>3. Cardinality(uses \cup {r}) \in Nat
    BY <1>2, FS_CardinalityType
  <1>. QED  BY <1>1, <1>2, <1>3 DEF AtMost

\* A failover makes room for one more.
LEMMA Extended ==
    ASSUME NEW n \in Nat, NEW uses, AtMost(1 + n, uses)
    PROVE  AtMost(n + 1, uses) /\ AtMost(1 + (n + 1), uses)
  <1>1. IsFiniteSet(uses) /\ Cardinality(uses) <= 1 + n
    BY DEF AtMost
  <1>2. Cardinality(uses) \in Nat
    BY <1>1, FS_CardinalityType
  <1>. QED  BY <1>1, <1>2 DEF AtMost

\* A request that has used a value has done so for good.
LEMMA UsesStay ==
    ASSUME Base, Settled, NEW r \in Request, took[r] # None
    PROVE  took'[r] = took[r] /\ inp'[r] = inp[r]
  BY DEF Base, Phase, Settled

\* The requests that have used k stay the same when no request of the kind takes
\* effect.
LEMMA SameUses ==
    ASSUME Base, Settled, NEW R \in SUBSET Request, NEW k,
           \A q \in R : took'[q] = took[q]
    PROVE  UseSet(R, k)' = UseSet(R, k)
  BY UsesStay DEF UseSet, Effective

\* They gain at most the one request that takes effect, if it presents k.
LEMMA OneMoreUse ==
    ASSUME Base, Settled, NEW R \in SUBSET Request, NEW k, NEW r \in R, Spends(r)
    PROVE  \/ UseSet(R, k)' = UseSet(R, k)
           \/ UseSet(R, k)' = UseSet(R, k) \cup {r} /\ inp'[r].ref = k
  <1>1. \A q \in R : q # r => (q \in UseSet(R, k)' <=> q \in UseSet(R, k))
    BY UsesStay DEF UseSet, Effective, Spends
  <1>2. r \notin UseSet(R, k)
    BY DEF UseSet, Effective, Spends
  <1>3. UseSet(R, k) \subseteq R /\ UseSet(R, k)' \subseteq R
    BY DEF UseSet, Effective
  <1>4. r \in UseSet(R, k)' => inp'[r].ref = k
    BY DEF UseSet, Effective
  <1>. QED  BY <1>1, <1>2, <1>3, <1>4

\* A value whose request is not over has not been used.
LEMMA UnfinishedIsUnused ==
    ASSUME Origins, NEW k, pc[k] # "done"
    PROVE  UseSet(Callback, k) = {} /\ UseSet(Exchange, k) = {} /\ UseSet(LogoutPost, k) = {}
  BY DEF Origins, UsesRight, CallbackRight, ExchangeRight, LogoutRight, UseSet

\* A step of the service keeps the budgets.
LEMMA ServiceKeepsBudgets ==
    ASSUME Base, Origins, Budgets, failovers \in Nat, [Next]_vars, failovers' = failovers
    PROVE  Budgets'
  <1>1. Settled
    BY StepOrigins
  <1>2. /\ \A k \in Ref : OnlyNew(k)
        /\ \/ took' = took
           \/ \E r \in Login : Spends(r)
           \/ \E r \in Callback : ClaimSpends(r)
           \/ \E r \in Exchange : ExchangeSpends(r)
           \/ \E r \in LogoutPost : LogoutSpends(r)
    BY ServiceStep
  <1>. SUFFICES ASSUME NEW k \in Ref
                PROVE  /\ AtMost(1 + failovers, UseSet(Callback, k)')
                       /\ Waiting(k)' => AtMost(failovers, UseSet(Callback, k)')
                       /\ AtMost(1 + failovers, UseSet(Exchange, k)')
                       /\ Exchangeable(k)' => AtMost(failovers, UseSet(Exchange, k)')
                       /\ AtMost(1 + failovers, UseSet(LogoutPost, k)')
                       /\ OpenForm(k)' => AtMost(failovers, UseSet(LogoutPost, k)')
    BY DEF Budgets, AtMost
  <1>3. /\ AtMost(1 + failovers, UseSet(Callback, k))
        /\ Waiting(k) => AtMost(failovers, UseSet(Callback, k))
        /\ AtMost(1 + failovers, UseSet(Exchange, k))
        /\ Exchangeable(k) => AtMost(failovers, UseSet(Exchange, k))
        /\ AtMost(1 + failovers, UseSet(LogoutPost, k))
        /\ OpenForm(k) => AtMost(failovers, UseSet(LogoutPost, k))
    BY DEF Budgets
  <1>4. /\ Waiting(k)' => Waiting(k) \/ UseSet(Callback, k) = {}
        /\ Exchangeable(k)' => Exchangeable(k) \/ UseSet(Exchange, k) = {}
        /\ OpenForm(k)' => OpenForm(k) \/ UseSet(LogoutPost, k) = {}
    BY <1>2, UnfinishedIsUnused DEF OnlyNew
  <1>5. \/ UseSet(Callback, k)' = UseSet(Callback, k)
        \/ /\ Waiting(k) /\ ~Waiting(k)'
           /\ \E r : UseSet(Callback, k)' = UseSet(Callback, k) \cup {r}
    <2>. Callback \in SUBSET Request
      BY Kinds
    <2>1. ASSUME NEW r \in Callback, ClaimSpends(r)
          PROVE  \/ UseSet(Callback, k)' = UseSet(Callback, k)
                 \/ /\ Waiting(k) /\ ~Waiting(k)'
                    /\ UseSet(Callback, k)' = UseSet(Callback, k) \cup {r}
      <3>1. Spends(r)
        BY <2>1 DEF ClaimSpends
      <3>2. \/ UseSet(Callback, k)' = UseSet(Callback, k)
            \/ UseSet(Callback, k)' = UseSet(Callback, k) \cup {r} /\ inp'[r].ref = k
        BY <1>1, <3>1, OneMoreUse
      <3>3. inp'[r].ref = k => Waiting(k) /\ ~Waiting(k)'
        BY <2>1 DEF ClaimSpends
      <3>. QED  BY <3>2, <3>3
    <2>2. ASSUME \A r \in Callback : took'[r] = took[r]
          PROVE  UseSet(Callback, k)' = UseSet(Callback, k)
      BY <1>1, <2>2, SameUses
    <2>3. (\E r \in Callback : ClaimSpends(r)) \/ \A r \in Callback : took'[r] = took[r]
      BY <1>2, Kinds DEF Spends, ExchangeSpends, LogoutSpends
    <2>. QED  BY <2>1, <2>2, <2>3
  <1>6. \/ UseSet(Exchange, k)' = UseSet(Exchange, k)
        \/ /\ Exchangeable(k) /\ ~Exchangeable(k)'
           /\ \E r : UseSet(Exchange, k)' = UseSet(Exchange, k) \cup {r}
    <2>. Exchange \in SUBSET Request
      BY Kinds
    <2>1. ASSUME NEW r \in Exchange, ExchangeSpends(r)
          PROVE  \/ UseSet(Exchange, k)' = UseSet(Exchange, k)
                 \/ /\ Exchangeable(k) /\ ~Exchangeable(k)'
                    /\ UseSet(Exchange, k)' = UseSet(Exchange, k) \cup {r}
      <3>1. Spends(r)
        BY <2>1 DEF ExchangeSpends
      <3>2. \/ UseSet(Exchange, k)' = UseSet(Exchange, k)
            \/ UseSet(Exchange, k)' = UseSet(Exchange, k) \cup {r} /\ inp'[r].ref = k
        BY <1>1, <3>1, OneMoreUse
      <3>3. inp'[r].ref = k => Exchangeable(k) /\ ~Exchangeable(k)'
        BY <2>1 DEF ExchangeSpends
      <3>. QED  BY <3>2, <3>3
    <2>2. ASSUME \A r \in Exchange : took'[r] = took[r]
          PROVE  UseSet(Exchange, k)' = UseSet(Exchange, k)
      BY <1>1, <2>2, SameUses
    <2>3. (\E r \in Exchange : ExchangeSpends(r)) \/ \A r \in Exchange : took'[r] = took[r]
      BY <1>2, Kinds DEF Spends, ClaimSpends, LogoutSpends
    <2>. QED  BY <2>1, <2>2, <2>3
  <1>7. \/ UseSet(LogoutPost, k)' = UseSet(LogoutPost, k)
        \/ /\ OpenForm(k) /\ ~OpenForm(k)'
           /\ \E r : UseSet(LogoutPost, k)' = UseSet(LogoutPost, k) \cup {r}
    <2>. LogoutPost \in SUBSET Request
      BY Kinds
    <2>1. ASSUME NEW r \in LogoutPost, LogoutSpends(r)
          PROVE  \/ UseSet(LogoutPost, k)' = UseSet(LogoutPost, k)
                 \/ /\ OpenForm(k) /\ ~OpenForm(k)'
                    /\ UseSet(LogoutPost, k)' = UseSet(LogoutPost, k) \cup {r}
      <3>1. Spends(r)
        BY <2>1 DEF LogoutSpends
      <3>2. \/ UseSet(LogoutPost, k)' = UseSet(LogoutPost, k)
            \/ UseSet(LogoutPost, k)' = UseSet(LogoutPost, k) \cup {r} /\ inp'[r].ref = k
        BY <1>1, <3>1, OneMoreUse
      <3>3. inp'[r].ref = k => OpenForm(k) /\ ~OpenForm(k)'
        BY <2>1 DEF LogoutSpends
      <3>. QED  BY <3>2, <3>3
    <2>2. ASSUME \A r \in LogoutPost : took'[r] = took[r]
          PROVE  UseSet(LogoutPost, k)' = UseSet(LogoutPost, k)
      BY <1>1, <2>2, SameUses
    <2>3. (\E r \in LogoutPost : LogoutSpends(r)) \/ \A r \in LogoutPost : took'[r] = took[r]
      BY <1>2, Kinds DEF Spends, ClaimSpends, ExchangeSpends
    <2>. QED  BY <2>1, <2>2, <2>3
  <1>8. /\ AtMost(1 + failovers, UseSet(Callback, k)')
        /\ Waiting(k)' => AtMost(failovers, UseSet(Callback, k)')
    <2>1. CASE UseSet(Callback, k)' = UseSet(Callback, k)
      BY <1>3, <1>4, <2>1, NoUses
    <2>2. CASE /\ Waiting(k) /\ ~Waiting(k)'
               /\ \E r : UseSet(Callback, k)' = UseSet(Callback, k) \cup {r}
      <3>1. PICK r : UseSet(Callback, k)' = UseSet(Callback, k) \cup {r}
        BY <2>2
      <3>2. AtMost(1 + failovers, UseSet(Callback, k) \cup {r})
        BY <1>3, <2>2, OneMore
      <3>. QED  BY <2>2, <3>1, <3>2
    <2>. QED  BY <1>5, <2>1, <2>2
  <1>9. /\ AtMost(1 + failovers, UseSet(Exchange, k)')
        /\ Exchangeable(k)' => AtMost(failovers, UseSet(Exchange, k)')
    <2>1. CASE UseSet(Exchange, k)' = UseSet(Exchange, k)
      BY <1>3, <1>4, <2>1, NoUses
    <2>2. CASE /\ Exchangeable(k) /\ ~Exchangeable(k)'
               /\ \E r : UseSet(Exchange, k)' = UseSet(Exchange, k) \cup {r}
      <3>1. PICK r : UseSet(Exchange, k)' = UseSet(Exchange, k) \cup {r}
        BY <2>2
      <3>2. AtMost(1 + failovers, UseSet(Exchange, k) \cup {r})
        BY <1>3, <2>2, OneMore
      <3>. QED  BY <2>2, <3>1, <3>2
    <2>. QED  BY <1>6, <2>1, <2>2
  <1>10. /\ AtMost(1 + failovers, UseSet(LogoutPost, k)')
         /\ OpenForm(k)' => AtMost(failovers, UseSet(LogoutPost, k)')
    <2>1. CASE UseSet(LogoutPost, k)' = UseSet(LogoutPost, k)
      BY <1>3, <1>4, <2>1, NoUses
    <2>2. CASE /\ OpenForm(k) /\ ~OpenForm(k)'
               /\ \E r : UseSet(LogoutPost, k)' = UseSet(LogoutPost, k) \cup {r}
      <3>1. PICK r : UseSet(LogoutPost, k)' = UseSet(LogoutPost, k) \cup {r}
        BY <2>2
      <3>2. AtMost(1 + failovers, UseSet(LogoutPost, k) \cup {r})
        BY <1>3, <2>2, OneMore
      <3>. QED  BY <2>2, <3>1, <3>2
    <2>. QED  BY <1>7, <2>1, <2>2
  <1>. QED  BY <1>8, <1>9, <1>10

\* So does a failover, whatever is usable again after it.
LEMMA PromoteKeepsBudgets ==
    ASSUME Budgets, failovers \in Nat, Promote
    PROVE  Budgets'
  <1>1. /\ failovers' = failovers + 1
        /\ \A R, k : UseSet(R, k)' = UseSet(R, k)
    BY DEF Promote, UseSet, Effective
  <1>. SUFFICES ASSUME NEW k \in Ref, NEW R \in {Callback, Exchange, LogoutPost}
                PROVE  AtMost(failovers', UseSet(R, k)') /\ AtMost(1 + failovers', UseSet(R, k)')
    BY DEF Budgets, AtMost
  <1>2. AtMost(1 + failovers, UseSet(R, k))
    BY DEF Budgets
  <1>. QED  BY <1>1, <1>2, Extended
-----------------------------------------------------------------------------
\* At first the replica has all of nothing, and nothing has been used.
LEMMA FailoverInitially == ASSUME FailoverInit PROVE FailoverInv
  <1>1. Base /\ Origins
    BY InitEstablishes, InitOrigins DEF FailoverInit, IInv
  <1>2. \A r \in Request : took[r] = None
    BY DEF FailoverInit, Init
  <1>3. \A k \in Ref :
           UseSet(Callback, k) = {} /\ UseSet(Exchange, k) = {} /\ UseSet(LogoutPost, k) = {}
    BY <1>2, Kinds DEF UseSet, Effective
  <1>4. AtMost(0, {}) /\ AtMost(1 + 0, {})
    BY NoUses
  <1>5. Budgets
    BY <1>3, <1>4 DEF FailoverInit, Budgets
  <1>. QED  BY <1>1, <1>5 DEF FailoverInit, FailoverInv

\* Every step of the service, the replica falling behind and its promotion keep
\* the invariant.
LEMMA FailoverStep ==
    ASSUME FailoverInv, [FailoverNext]_failoverVars
    PROVE  FailoverInv'
  <1>1. CASE [Next]_vars /\ UNCHANGED <<replica, failovers>>
    <2>1. Base' /\ Settled /\ Origins'
      BY <1>1, StepPreserves, StepOrigins DEF FailoverInv, Preserved
    <2>2. replica' # None => Sound(replica)'
      BY <1>1, <2>1, ReplicaStaysSound DEF FailoverInv
    <2>3. Budgets'
      BY <1>1, ServiceKeepsBudgets DEF FailoverInv
    <2>. QED  BY <1>1, <2>1, <2>2, <2>3 DEF FailoverInv
  <1>2. CASE FallBehind
    <2>1. /\ UNCHANGED vars /\ failovers' = failovers
          /\ replica' = MasterRows
      BY <1>2 DEF FallBehind
    <2>2. Base' /\ Origins'
      BY <2>1, StepPreserves, StepOrigins DEF FailoverInv, Preserved
    <2>3. MasterRows' = MasterRows
      BY <2>1 DEF vars, MasterRows
    <2>4. Sound(MasterRows)'
      BY <2>2, MasterIsSound, PTL
    <2>5. Sound(replica)'
      BY <2>1, <2>3, <2>4 DEF Sound
    <2>6. Budgets'
      BY <2>1, ServiceKeepsBudgets DEF FailoverInv
    <2>. QED  BY <2>1, <2>2, <2>5, <2>6 DEF FailoverInv
  <1>3. CASE Promote
    <2>1. Base' /\ Origins'
      BY <1>3, PromoteKeeps DEF FailoverInv, Promote
    <2>2. Budgets'
      BY <1>3, PromoteKeepsBudgets DEF FailoverInv
    <2>. QED  BY <1>3, <2>1, <2>2 DEF FailoverInv, Promote
  <1>. QED  BY <1>1, <1>2, <1>3 DEF FailoverNext, failoverVars

\* The invariant holds however often a replica that misses writes is promoted.
THEOREM FailoverInvariance == FailoverSpec => []FailoverInv
  <1>. QED  BY FailoverInitially, FailoverStep, PTL DEF FailoverSpec

\* Every promotion of a replica gives an OAuth state, a handoff code or a logout
\* form at most one more use, for any number of failovers and of requests that
\* repeat it.
THEOREM FailoversCostOneUseEach == FailoverSpec => []OneMoreUsePerFailover
  <1>1. FailoverInv => OneMoreUsePerFailover
    BY DEF FailoverInv, Budgets, AtMost, OneMoreUsePerFailover, Uses, UseSet
  <1>. QED  BY <1>1, FailoverInvariance, PTL

\* A failover makes no exchange answer with another login, another service's
\* login or another person, even if the login, its claim or its session is lost.
THEOREM FailoversMixNothingUp == FailoverSpec => []ExchangeAnswersItsLogin
  <1>1. FailoverInv => ExchangeAnswersItsLogin
    BY DEF FailoverInv, Origins, UsesRight, ExchangeRight, ExchangeAnswersItsLogin
  <1>. QED  BY <1>1, FailoverInvariance, PTL

\* Nor does it prolong the life of anything.
THEOREM FailoversProlongNothing == FailoverSpec => []UsedWithinLifetime
  <1>1. FailoverInv => UsedWithinLifetime
    BY DEF FailoverInv, Origins, UsesRight, CallbackRight, ExchangeRight, LogoutRight, LoginRight,
           Effective, UsedWithinLifetime
  <1>. QED  BY <1>1, FailoverInvariance, PTL
=============================================================================
