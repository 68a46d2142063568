--------------------- MODULE AuthFoundationMixesProofs ---------------------
(***************************************************************************)
(* The workloads of AuthFoundationMixes are behaviours of AuthFoundation,  *)
(* so the theorems about all behaviours hold of them.  And whoever an      *)
(* operator has disabled gets nothing from requests that begin afterwards: *)
(* a handler that such a request runs never goes past its check.           *)
(***************************************************************************)
EXTENDS AuthFoundationMixes, AuthFoundationProofs

\* Only logins and callbacks are answered with a code, only exchanges with 200.
AnswersFit ==
    \A r \in Request :
       /\ resp[r] = "callback" => r \in Login \cup Callback
       /\ resp[r] = "200" => r \in Exchange

\* How far request r gets with user or service e disabled since it began.
KeptOut(e, r) ==
    /\ r \in Login =>
          /\ pc[r] \notin {"idle", "done"} \/ resp[r] = "callback" => inp[r].service # e
          /\ pc[r] = "issue" \/ resp[r] = "callback" => loc[r].who.user # e
    /\ r \in Callback =>
          /\ pc[r] \in {"google", "resolve", "create"} \/ resp[r] = "callback" =>
                loc[r].txn.service # e
          /\ pc[r] = "create" \/ resp[r] = "callback" => loc[r].who.user # e
    /\ r \in Exchange =>
          (pc[r] \notin {"idle", "done"} \/ resp[r] = "200" => inp[r].service # e)

Barred ==
    /\ barred \in [Administered -> SUBSET Request]
    /\ \A e \in Administered : \A r \in barred[e] : ~Enabled(e) /\ KeptOut(e, r)

MixInv == Base /\ AnswersFit /\ Barred
-----------------------------------------------------------------------------
\* A registered service that is enabled is not the one that is disabled.
LEMMA ServiceIsAnother ==
    ASSUME NEW e \in Administered, ~Enabled(e), NEW s \in Service, active[s]
    PROVE  s # e
  BY AdministeredAssumption DEF Enabled

\* Nor is an enabled user.
LEMMA UserIsAnother ==
    ASSUME NEW e \in Administered, ~Enabled(e), NEW u \in User, enabled[u]
    PROVE  u # e
  BY AdministeredAssumption DEF Enabled

\* What other requests do leaves request q as it is.
Untouched(q) ==
    pc'[q] = pc[q] /\ inp'[q] = inp[q] /\ loc'[q] = loc[q] /\ resp'[q] = resp[q]

\* A step of request r's handler gives r nothing while its service or its user
\* is disabled.
Refuses(r) ==
    /\ \A q \in Request : q # r => Untouched(q)
    /\ \A e \in Administered : ~Enabled(e) /\ KeptOut(e, r) => KeptOut(e, r)'
    /\ resp'[r] = "callback" => r \in Login \cup Callback
    /\ resp'[r] = "200" => r \in Exchange

\* Only r's own state changes in a step that goes on or answers.
LEMMA OthersUntouched ==
    ASSUME TypeOK, NEW r \in Request,
           (\E label : Goto(r, label)) \/ (\E answer : Respond(r, answer)),
           inp' = inp \/ \E fields : Present(r, fields),
           \/ loc' = loc
           \/ \E t : loc' = [loc EXCEPT ![r].now = t]
           \/ \E who : loc' = [loc EXCEPT ![r].who = who]
           \/ \E t, who : loc' = [loc EXCEPT ![r].now = t, ![r].who = who]
           \/ \E txn : loc' = [loc EXCEPT ![r].txn = txn]
           \/ \E k : loc' = [loc EXCEPT ![r].session = k]
    PROVE  \A q \in Request : q # r => Untouched(q)
  BY DEF TypeOK, Goto, Respond, Present, Untouched

\* GET /auth/login.
LEMMA LoginRefuses ==
    ASSUME Base, NEW r \in Login, LoginHandler(r)
    PROVE  Refuses(r)
  <1>1. r \in Request /\ r \notin Callback /\ r \notin Exchange
    BY Kinds
  <1>2. (resp[r] # "none" => pc[r] = "done") /\ TypeOK
    BY <1>1 DEF Base, Phase
  <1>3. CASE LoginStart(r)
    <2>1. PICK s \in Service \cup Unregistered, st \in ServiceState, ch \in Challenge,
               k \in Cookies :
             \/ Respond(r, "403") /\ UNCHANGED <<inp, loc>>
             \/ /\ Registered(s)
                /\ Present(r, [NoInput EXCEPT !.service = s, !.state = st,
                                              !.challenge = ch, !.cookie = k])
                /\ \E t \in AppClock : loc' = [loc EXCEPT ![r].now = t]
                /\ Goto(r, IF k = None THEN "external_hset" ELSE "read_session")
      BY <1>3 DEF LoginStart
    <2>2. \A q \in Request : q # r => Untouched(q)
      BY <1>1, <1>2, <2>1, OthersUntouched
    <2>3. CASE Respond(r, "403")
      <3>1. pc'[r] = "done" /\ resp'[r] = "403"
        BY <1>1, <1>2, <2>3 DEF Respond, TypeOK
      <3>. QED  BY <1>1, <2>2, <3>1 DEF Refuses, KeptOut
    <2>4. CASE /\ Registered(s)
               /\ Present(r, [NoInput EXCEPT !.service = s, !.state = st,
                                             !.challenge = ch, !.cookie = k])
               /\ Goto(r, IF k = None THEN "external_hset" ELSE "read_session")
      <3>1. inp'[r].service = s /\ s \in Service /\ active[s]
        BY <1>1, <1>2, <2>4 DEF Present, NoInput, TypeOK, Registered
      <3>2. pc'[r] # "issue" /\ resp'[r] = "none"
        BY <1>1, <1>2, <1>3, <2>4 DEF LoginStart, Goto, TypeOK
      <3>. QED  BY <1>1, <2>2, <3>1, <3>2, ServiceIsAnother DEF Refuses, KeptOut
    <2>. QED  BY <2>1, <2>3, <2>4
  <1>4. CASE ReadSession(r)
    <2>1. \A q \in Request : q # r => Untouched(q)
      BY <1>1, <1>2, <1>4, OthersUntouched DEF ReadSession
    <2>2. /\ pc[r] = "read_session" /\ inp' = inp
          /\ pc'[r] # "issue" /\ resp'[r] = "none"
      BY <1>1, <1>2, <1>4 DEF ReadSession, Goto, TypeOK
    <2>. QED  BY <1>1, <2>1, <2>2 DEF Refuses, KeptOut
  <1>5. CASE DelSession(r) \/ ExternalHset(r)
    <2>1. \A q \in Request : q # r => Untouched(q)
      BY <1>1, <1>2, <1>5, OthersUntouched DEF DelSession, ExternalHset
    <2>2. /\ pc[r] \in {"del_session", "external_hset"} /\ inp' = inp
          /\ pc'[r] # "issue" /\ resp'[r] = "none"
      BY <1>1, <1>2, <1>5 DEF DelSession, ExternalHset, Goto, TypeOK
    <2>. QED  BY <1>1, <2>1, <2>2 DEF Refuses, KeptOut
  <1>6. CASE ExternalExpireat(r)
    <2>1. \A q \in Request : q # r => Untouched(q)
      BY <1>1, <1>2, <1>6, OthersUntouched DEF ExternalExpireat, RespondOrLose
    <2>2. pc'[r] = "done" /\ resp'[r] \in {"google", "failed"}
      BY <1>1, <1>2, <1>6 DEF ExternalExpireat, RespondOrLose, Respond, TypeOK
    <2>. QED  BY <1>1, <2>1, <2>2 DEF Refuses, KeptOut
  <1>7. CASE CheckUser(r)
    <2>1. \A q \in Request : q # r => Untouched(q)
      BY <1>1, <1>2, <1>7, OthersUntouched DEF CheckUser
    <2>2. /\ pc[r] = "check_user" /\ UNCHANGED <<inp, loc>>
          /\ \/ pc'[r] = "done" /\ resp'[r] = "403"
             \/ pc'[r] = "issue" /\ resp'[r] = "none" /\ enabled[loc[r].who.user]
      BY <1>1, <1>2, <1>7 DEF CheckUser, Goto, Respond, TypeOK
    <2>3. loc[r].who.user \in User
      BY <2>2 DEF Base, Phase, Who
    <2>. QED  BY <1>1, <2>1, <2>2, <2>3, UserIsAnother DEF Refuses, KeptOut
  <1>8. CASE IssueSso(r)
    <2>1. \A q \in Request : q # r => Untouched(q)
      BY <1>1, <1>2, <1>8, OthersUntouched DEF IssueSso, RespondOrLose
    <2>2. /\ pc[r] = "issue" /\ UNCHANGED <<inp, loc>>
          /\ \/ pc'[r] = "done" /\ resp'[r] \in {"callback", "failed", "503"}
             \/ pc'[r] = "external_hset" /\ resp'[r] = "none"
      BY <1>1, <1>2, <1>8 DEF IssueSso, Goto, RespondOrLose, Respond, TypeOK
    <2>. QED  BY <1>1, <2>1, <2>2 DEF Refuses, KeptOut
  <1>. QED  BY <1>3, <1>4, <1>5, <1>6, <1>7, <1>8 DEF LoginHandler

\* GET /auth/google/callback.
LEMMA CallbackRefuses ==
    ASSUME Base, NEW r \in Callback, CallbackHandler(r)
    PROVE  Refuses(r)
  <1>1. r \in Request /\ r \notin Login /\ r \notin Exchange
    BY Kinds
  <1>2. (resp[r] # "none" => pc[r] = "done") /\ TypeOK
    BY <1>1 DEF Base, Phase
  <1>3. CASE Claim(r)
    <2>1. \A q \in Request : q # r => Untouched(q)
      BY <1>1, <1>2, <1>3, OthersUntouched DEF Claim
    <2>2. \/ pc'[r] = "done" /\ resp'[r] = "400"
          \/ pc'[r] = "callback_service" /\ resp'[r] = "none"
      BY <1>1, <1>2, <1>3 DEF Claim, Goto, Respond, TypeOK
    <2>. QED  BY <1>1, <2>1, <2>2 DEF Refuses, KeptOut
  <1>4. CASE CallbackService(r)
    <2>1. \A q \in Request : q # r => Untouched(q)
      BY <1>1, <1>2, <1>4, OthersUntouched DEF CallbackService
    <2>2. /\ UNCHANGED <<inp, loc>>
          /\ \/ pc'[r] = "done" /\ resp'[r] = "403"
             \/ /\ pc'[r] = "google" /\ resp'[r] = "none"
                /\ loc[r].txn.service \in Service /\ active[loc[r].txn.service]
      BY <1>1, <1>2, <1>4 DEF CallbackService, Goto, Respond, TypeOK, Registered
    <2>. QED  BY <1>1, <2>1, <2>2, ServiceIsAnother DEF Refuses, KeptOut
  <1>5. CASE GoogleIdentity(r)
    <2>1. \A q \in Request : q # r => Untouched(q)
      BY <1>1, <1>2, <1>5, OthersUntouched DEF GoogleIdentity
    <2>2. /\ pc[r] = "google"
          /\ \/ pc'[r] = "done" /\ resp'[r] = "502"
             \/ pc'[r] = "resolve" /\ resp'[r] = "none" /\ loc'[r].txn = loc[r].txn
      <3>1. CASE Respond(r, "502")
        BY <1>1, <1>2, <1>5, <3>1 DEF GoogleIdentity, Respond, TypeOK
      <3>2. ASSUME NEW u \in User, NEW t \in AppClock,
                   loc' = [loc EXCEPT ![r].now = t, ![r].who = [user |-> u, at |-> t]],
                   Goto(r, "resolve")
            PROVE  pc'[r] = "resolve" /\ resp'[r] = "none" /\ loc'[r].txn = loc[r].txn
        <4>1. pc'[r] = "resolve" /\ resp'[r] = "none"
          BY <1>1, <1>2, <1>5, <3>2 DEF GoogleIdentity, Goto, TypeOK
        <4>2. t \in Nat /\ loc[r] \in Local
          BY <1>1, <1>2, ClockReading DEF TypeOK
        <4>. DEFINE m == [[loc[r] EXCEPT !.now = t] EXCEPT !.who = [user |-> u, at |-> t]]
        <4>3. loc'[r] = m
          BY <1>1, <1>2, <3>2 DEF TypeOK
        <4>4. m.txn = loc[r].txn
          BY <4>2, LocalNowWho
        <4>. HIDE DEF m
        <4>. QED  BY <4>1, <4>3, <4>4
      <3>. QED  BY <1>5, <3>1, <3>2 DEF GoogleIdentity
    <2>. QED  BY <1>1, <2>1, <2>2 DEF Refuses, KeptOut
  <1>6. CASE ResolveIdentity(r)
    <2>1. \A q \in Request : q # r => Untouched(q)
      BY <1>1, <1>2, <1>6, OthersUntouched DEF ResolveIdentity
    <2>2. /\ pc[r] = "resolve" /\ UNCHANGED <<inp, loc>>
          /\ \/ pc'[r] = "done" /\ resp'[r] = "403"
             \/ pc'[r] = "create" /\ resp'[r] = "none" /\ enabled[loc[r].who.user]
      BY <1>1, <1>2, <1>6 DEF ResolveIdentity, Goto, Respond, TypeOK
    <2>3. loc[r].who.user \in User
      BY <2>2 DEF Base, Phase, Who
    <2>. QED  BY <1>1, <2>1, <2>2, <2>3, UserIsAnother DEF Refuses, KeptOut
  <1>7. CASE CreateSession(r)
    <2>1. \A q \in Request : q # r => Untouched(q)
      BY <1>1, <1>2, <1>7, OthersUntouched DEF CreateSession, RespondOrLose
    <2>2. /\ pc[r] = "create" /\ UNCHANGED <<inp, loc>>
          /\ pc'[r] = "done" /\ resp'[r] \in {"callback", "failed", "503"}
      BY <1>1, <1>2, <1>7 DEF CreateSession, RespondOrLose, Respond, TypeOK
    <2>. QED  BY <1>1, <2>1, <2>2 DEF Refuses, KeptOut
  <1>. QED  BY <1>3, <1>4, <1>5, <1>6, <1>7 DEF CallbackHandler

\* POST /auth/handoffs/exchange.
LEMMA ExchangeRefuses ==
    ASSUME Base, NEW r \in Exchange, ExchangeHandler(r)
    PROVE  Refuses(r)
  <1>1. r \in Request /\ r \notin Login /\ r \notin Callback
    BY Kinds
  <1>2. (resp[r] # "none" => pc[r] = "done") /\ TypeOK
    BY <1>1 DEF Base, Phase
  <1>3. CASE ExchangeStart(r)
    <2>1. PICK s \in Service \cup Unregistered, ch \in Challenge, h \in Codes :
             \/ /\ \E a \in {"401", "403"} : Respond(r, a)
                /\ UNCHANGED inp
             \/ /\ Registered(s)
                /\ Present(r, [NoInput EXCEPT !.service = s, !.challenge = ch, !.ref = h])
                /\ Goto(r, "handoff_type")
      BY <1>3 DEF ExchangeStart
    <2>2. \A q \in Request : q # r => Untouched(q)
      BY <1>1, <1>2, <1>3, <2>1, OthersUntouched DEF ExchangeStart
    <2>3. CASE \E a \in {"401", "403"} : Respond(r, a)
      <3>1. pc'[r] = "done" /\ resp'[r] \in {"401", "403"}
        BY <1>1, <1>2, <2>3 DEF Respond, TypeOK
      <3>. QED  BY <1>1, <2>2, <3>1 DEF Refuses, KeptOut
    <2>4. CASE /\ Registered(s)
               /\ Present(r, [NoInput EXCEPT !.service = s, !.challenge = ch, !.ref = h])
               /\ Goto(r, "handoff_type")
      <3>1. inp'[r].service = s /\ s \in Service /\ active[s]
        BY <1>1, <1>2, <2>4 DEF Present, NoInput, TypeOK, Registered
      <3>2. resp'[r] = "none"
        BY <1>1, <1>2, <1>3, <2>4 DEF ExchangeStart, Goto, TypeOK
      <3>. QED  BY <1>1, <2>2, <3>1, <3>2, ServiceIsAnother DEF Refuses, KeptOut
    <2>. QED  BY <2>1, <2>3, <2>4
  <1>4. CASE HandoffType(r) \/ HandoffHget(r)
    <2>1. \A q \in Request : q # r => Untouched(q)
      BY <1>1, <1>2, <1>4, OthersUntouched DEF HandoffType, HandoffHget
    <2>2. /\ pc[r] \in {"handoff_type", "handoff_hget"} /\ inp' = inp
          /\ \/ pc'[r] = "done" /\ resp'[r] \in {"400", "503"}
             \/ resp'[r] = "none"
      BY <1>1, <1>2, <1>4 DEF HandoffType, HandoffHget, Goto, Respond, TypeOK
    <2>. QED  BY <1>1, <2>1, <2>2 DEF Refuses, KeptOut
  <1>5. CASE ExchangeHandoff(r)
    <2>1. \A q \in Request : q # r => Untouched(q)
      BY <1>1, <1>2, <1>5, OthersUntouched DEF ExchangeHandoff, RespondOrLose
    <2>2. /\ pc[r] = "exchange" /\ inp' = inp
          /\ pc'[r] = "done" /\ resp'[r] # "callback"
      BY <1>1, <1>2, <1>5 DEF ExchangeHandoff, RespondOrLose, Respond, TypeOK
    <2>. QED  BY <1>1, <2>1, <2>2 DEF Refuses, KeptOut
  <1>. QED  BY <1>3, <1>4, <1>5 DEF ExchangeHandler

\* GET and POST /auth/logout, and requests that fail, give nothing to anyone.
LEMMA LogoutAndFailure ==
    ASSUME Base, NEW r \in Request,
           \/ r \in LogoutGet /\ LogoutGetHandler(r)
           \/ r \in LogoutPost /\ CompleteLogout(r)
           \/ Fail(r)
    PROVE  Refuses(r)
  <1>1. TypeOK
    BY DEF Base
  <1>2. resp'[r] \notin {"callback", "200"} /\ (Fail(r) => pc'[r] = "done")
    BY DEF Base, Phase, LogoutGetHandler, LogoutGetStart, LogoutHset, LogoutExpireat,
           CompleteLogout, Fail, Goto, RespondOrLose, Respond, TypeOK
  <1>3. \A q \in Request : q # r => Untouched(q)
    <2>1. CASE LogoutGetHandler(r)
      BY <1>1, <2>1, OthersUntouched
         DEF LogoutGetHandler, LogoutGetStart, LogoutHset, LogoutExpireat, RespondOrLose
    <2>2. CASE CompleteLogout(r)
      BY <1>1, <2>2, OthersUntouched DEF CompleteLogout, RespondOrLose
    <2>3. CASE Fail(r)
      BY <1>1, <2>3, OthersUntouched DEF Fail
    <2>. QED  BY <2>1, <2>2, <2>3
  <1>. QED  BY <1>2, <1>3, Kinds DEF Refuses, KeptOut

\* A step of the service touches no request, or refuses the one it touches.
LEMMA StepRefuses ==
    ASSUME Base, [Next]_vars
    PROVE  (\A q \in Request : Untouched(q)) \/ \E r \in Request : Refuses(r)
  <1>1. CASE Handler
    <2>. Login \cup Callback \cup Exchange \cup LogoutGet \cup LogoutPost \subseteq Request
      BY Kinds
    <2>. QED
      BY <1>1, LoginRefuses, CallbackRefuses, ExchangeRefuses, LogoutAndFailure DEF Handler
  <1>2. ASSUME NEW r \in Request, Fail(r) PROVE Refuses(r)
    BY <1>2, LogoutAndFailure
  <1>3. CASE Environment /\ ~\E r \in Request : Fail(r)
    BY <1>3 DEF Environment, SwitchUser, SwitchService, Expire, Tick, Untouched
  <1>4. CASE UNCHANGED vars
    BY <1>4 DEF vars, Untouched
  <1>. QED  BY <1>1, <1>2, <1>3, <1>4 DEF Next

\* A step of a mix is a step of AuthFoundation.
LEMMA MixStepIsStep == MixNext => Next
  <1>1. MixHandler => Handler
    BY DEF MixHandler, Handler
  <1>2. MixEnvironment => Environment
    BY DEF MixEnvironment, Environment
  <1>. QED  BY <1>1, <1>2 DEF MixNext, Next

\* Every step keeps the answers fitting and the barred requests out.
LEMMA MixStep ==
    ASSUME MixInv, [MixNext]_mixVars
    PROVE  MixInv'
  <1>1. [Next]_vars
    BY MixStepIsStep DEF mixVars
  <1>2. Base'
    BY <1>1, StepPreserves DEF MixInv, Preserved
  <1>3. (\A q \in Request : Untouched(q)) \/ \E r \in Request : Refuses(r)
    BY <1>1, StepRefuses DEF MixInv
  <1>4. AnswersFit'
    BY <1>3 DEF MixInv, AnswersFit, Untouched, Refuses
  <1>5. \A e \in Administered, r \in Request : ~Enabled(e) /\ KeptOut(e, r) => KeptOut(e, r)'
    <2>1. \A e \in Administered, r \in Request : Untouched(r) /\ KeptOut(e, r) => KeptOut(e, r)'
      BY DEF Untouched, KeptOut
    <2>. QED  BY <1>3, <2>1 DEF Refuses
  <1>6. CASE MixNext
    <2>1. barred' = [e \in Administered |->
                       IF Enabled(e)' THEN {} ELSE barred[e] \cup NotBegun']
      BY <1>6 DEF MixNext
    <2>2. barred' \in [Administered -> SUBSET Request]
      BY <2>1 DEF MixInv, Barred, NotBegun
    <2>3. ASSUME NEW e \in Administered, NEW r \in barred'[e]
          PROVE  ~Enabled(e)' /\ KeptOut(e, r)'
      <3>1. ~Enabled(e)' /\ r \in barred[e] \cup NotBegun'
        BY <2>1, <2>3
      <3>2. CASE r \in barred[e]
        BY <1>5, <3>1, <3>2 DEF MixInv, Barred
      <3>3. CASE r \in NotBegun'
        <4>1. r \in Request /\ pc'[r] = "idle"
          BY <3>3 DEF NotBegun
        <4>2. resp'[r] = "none"
          BY <1>2, <4>1 DEF Base, Phase
        <4>. QED  BY <3>1, <4>1, <4>2 DEF KeptOut
      <3>. QED  BY <3>1, <3>2, <3>3
    <2>. QED  BY <1>2, <1>4, <2>2, <2>3 DEF MixInv, Barred
  <1>7. CASE UNCHANGED mixVars
    <2>1. UNCHANGED <<barred, enabled, active, pc, inp, loc, resp>>
      BY <1>7 DEF mixVars, vars
    <2>2. Barred'
      BY <2>1 DEF MixInv, Barred, Enabled, KeptOut
    <2>. QED  BY <1>2, <1>4, <2>2 DEF MixInv
  <1>. QED  BY <1>6, <1>7

-----------------------------------------------------------------------------
\* The workloads are behaviours of AuthFoundation: what is proved of all its
\* behaviours is true of them.
THEOREM MixesAreBehaviours == MixSpec => Spec
  <1>1. MixInit => Init
    BY DEF MixInit
  <1>2. [MixNext]_mixVars => [Next]_vars
    BY MixStepIsStep DEF mixVars
  <1>. QED  BY <1>1, <1>2, PTL DEF MixSpec, Spec

\* A request that begins after its service or its user was disabled gets no code
\* and, for a disabled service, no exchange, as long as neither is enabled again:
\* for any number of requests, users and services, and however they interleave
\* with the operator's switching.
THEOREM DisabledAreServedNothing == MixSpec => []DisabledGetNothing
  <1>1. MixInit => MixInv
    <2>. SUFFICES ASSUME MixInit PROVE MixInv
      OBVIOUS
    <2>1. Base
      BY InitEstablishes DEF MixInit, IInv
    <2>2. AnswersFit
      BY DEF MixInit, Init, AnswersFit
    <2>3. Barred
      BY DEF MixInit, Barred
    <2>. QED  BY <2>1, <2>2, <2>3 DEF MixInv
  <1>2. MixInv /\ [MixNext]_mixVars => MixInv'
    BY MixStep
  <1>3. MixInv => DisabledGetNothing
    <2>. SUFFICES ASSUME MixInv, NEW e \in Administered, NEW r \in barred[e]
                  PROVE  /\ resp[r] \in {"callback", "200"} => ServedService(r) # e
                         /\ resp[r] = "callback" => ServedUser(r) # e
      BY DEF DisabledGetNothing
    <2>1. r \in Request /\ KeptOut(e, r)
      BY DEF MixInv, Barred
    <2>2. /\ resp[r] = "callback" => r \in Login \cup Callback
          /\ resp[r] = "200" => r \in Exchange
      BY <2>1 DEF MixInv, AnswersFit
    <2>. QED  BY <2>1, <2>2, Kinds DEF KeptOut, ServedService, ServedUser
  <1>. QED  BY <1>1, <1>2, <1>3, PTL DEF MixSpec
=============================================================================
