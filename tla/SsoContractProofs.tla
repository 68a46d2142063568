------------------------- MODULE SsoContractProofs -------------------------
(***************************************************************************)
(* AuthFoundation implements SsoContract, proved for any constants.  Three *)
(* answers of the scripts are contract steps of their own: creating a      *)
(* session opens it and issues its first code, single sign-on issues       *)
(* another, and an exchange redeems one.  All other steps, with logout,    *)
(* expiry and every failure, at most let sessions and codes lapse.         *)
(***************************************************************************)
EXTENDS SsoContractRefinement, AuthFoundationProofs

\* Nothing is opened, issued or redeemed.
OnlyLapses ==
    /\ \A k \in Issuer :
          /\ session'[k] = session[k] \/ session'[k] = None
          /\ handoff'[k] = handoff[k] \/ handoff'[k] = None
          /\ Over(k) => pc'[k] = "done"
    /\ \A x \in Exchange :
          /\ took'[x] = took[x]
          /\ took[x] # None => inp'[x] = inp[x]

\* Sessions and codes are named after logins and callbacks, and the row of a
\* request exists only once the request is over.
LEMMA IssuersWrite ==
    ASSUME Base
    PROVE  /\ Issuer \subseteq Request /\ Issuer \subseteq Ref
           /\ \A k \in Ref : session[k] # None => k \in Issuer /\ Over(k)
           /\ \A k \in Ref : handoff[k] # None => k \in Issuer /\ Over(k)
  BY Kinds DEF Base, Written, Issuer, Over

\* A step in which nothing is opened, issued or redeemed is a lapse.
LEMMA LapseStep ==
    ASSUME Base, OnlyLapses
    PROVE  Contract!Lapse
  <1>1. MappedSession' = [k \in Issuer |-> MappedSession'[k]]
    BY DEF MappedSession
  <1>2. MappedCode' = [k \in Issuer |-> MappedCode'[k]]
    BY DEF MappedCode
  <1>3. \A k \in Issuer : MappedSession'[k] \in {MappedSession[k], "closed"}
    BY IssuersWrite DEF OnlyLapses, MappedSession, Over
  <1>4. \A k \in Issuer : MappedCode'[k] \in {MappedCode[k], [is |-> "gone", of |-> None]}
    BY IssuersWrite DEF OnlyLapses, MappedCode, Over
  <1>5. MappedRedeemed' = MappedRedeemed
    BY DEF OnlyLapses, MappedRedeemed
  <1>. QED  BY <1>1, <1>2, <1>3, <1>4, <1>5 DEF Contract!Lapse, Contract!GoneCode
-----------------------------------------------------------------------------
\* A handler step before "done" by a request that takes no effect, and that
\* writes no session and no handoff.
LEMMA QuietHandler ==
    ASSUME Base, NEW r \in Request, pc[r] # "done",
           \A q \in Request : q # r => pc'[q] = pc[q] /\ inp'[q] = inp[q],
           \A x \in Exchange : took'[x] = took[x],
           r \in Exchange => took[r] = None,
           \A k \in Issuer : /\ session'[k] = session[k] \/ session'[k] = None
                             /\ handoff'[k] = handoff[k] \/ handoff'[k] = None
    PROVE  Contract!Lapse
  BY LapseStep, IssuersWrite, Kinds DEF OnlyLapses, Over

\* Logins lapse at most, until ISSUE_SSO_HANDOFF_SCRIPT answers Ok.
LEMMA LoginLapses ==
    ASSUME Base, NEW r \in Login,
           \/ LoginStart(r) \/ ReadSession(r) \/ DelSession(r) \/ CheckUser(r)
           \/ ExternalHset(r) \/ ExternalExpireat(r)
    PROVE  Contract!Lapse
  <1>1. r \in Request /\ pc[r] # "done" /\ r \notin Exchange
    BY Kinds DEF LoginStart, ReadSession, DelSession, CheckUser, ExternalHset, ExternalExpireat
  <1>2. \A q \in Request : q # r => pc'[q] = pc[q] /\ inp'[q] = inp[q]
    BY DEF LoginStart, ReadSession, DelSession, CheckUser, ExternalHset, ExternalExpireat,
           Base, TypeOK, Goto, Respond, RespondOrLose, Present
  <1>3. UNCHANGED <<handoff, took>>
    BY DEF LoginStart, ReadSession, DelSession, CheckUser, ExternalHset, ExternalExpireat, store
  <1>4. \A k \in Ref : session'[k] = session[k] \/ session'[k] = None
    BY DEF LoginStart, ReadSession, DelSession, CheckUser, ExternalHset, ExternalExpireat, store,
           Base, TypeOK, Del
  <1>. QED  BY <1>1, <1>2, <1>3, <1>4, QuietHandler, IssuersWrite

\* Callbacks lapse at most, until CREATE_SESSION_AND_HANDOFF_SCRIPT answers Ok.
LEMMA CallbackLapses ==
    ASSUME Base, NEW r \in Callback,
           Claim(r) \/ CallbackService(r) \/ GoogleIdentity(r) \/ ResolveIdentity(r)
    PROVE  Contract!Lapse
  <1>1. r \in Request /\ pc[r] # "done" /\ r \notin Exchange
    BY Kinds DEF Claim, CallbackService, GoogleIdentity, ResolveIdentity
  <1>2. \A q \in Request : q # r => pc'[q] = pc[q] /\ inp'[q] = inp[q] /\ took'[q] = took[q]
    BY DEF Claim, CallbackService, GoogleIdentity, ResolveIdentity,
           Base, TypeOK, Goto, Respond, Present, TakesEffect
  <1>3. UNCHANGED <<session, handoff>>
    BY DEF Claim, CallbackService, GoogleIdentity, ResolveIdentity, store
  <1>. QED  BY <1>1, <1>2, <1>3, QuietHandler, Kinds

\* Exchanges lapse at most, until EXCHANGE_HANDOFF_SCRIPT answers Ok.
LEMMA ExchangeLapses ==
    ASSUME Base, NEW r \in Exchange,
           ExchangeStart(r) \/ HandoffType(r) \/ HandoffHget(r)
    PROVE  Contract!Lapse
  <1>1. r \in Request /\ pc[r] \notin {"done"} /\ took[r] = None
    BY Kinds DEF ExchangeStart, HandoffType, HandoffHget, Base, Phase
  <1>2. \A q \in Request : q # r => pc'[q] = pc[q] /\ inp'[q] = inp[q]
    BY DEF ExchangeStart, HandoffType, HandoffHget, Base, TypeOK, Goto, Respond, Present
  <1>3. UNCHANGED <<session, handoff, took>>
    BY DEF ExchangeStart, HandoffType, HandoffHget, store
  <1>. QED  BY <1>1, <1>2, <1>3, QuietHandler

\* Logout closes sessions.
LEMMA LogoutLapses ==
    ASSUME Base, NEW r \in Request,
           \/ r \in LogoutGet /\ (LogoutGetStart(r) \/ LogoutHset(r) \/ LogoutExpireat(r))
           \/ r \in LogoutPost /\ CompleteLogout(r)
    PROVE  Contract!Lapse
  <1>1. pc[r] # "done" /\ r \notin Exchange
    BY Kinds DEF LogoutGetStart, LogoutHset, LogoutExpireat, CompleteLogout
  <1>2. \A q \in Request : q # r => pc'[q] = pc[q] /\ inp'[q] = inp[q] /\ took'[q] = took[q]
    <2>1. CASE LogoutGetStart(r) \/ LogoutHset(r) \/ LogoutExpireat(r)
      BY <2>1 DEF LogoutGetStart, LogoutHset, LogoutExpireat,
                  Base, TypeOK, Goto, Respond, RespondOrLose, Present
    <2>2. CASE CompleteLogout(r)
      <3>1. /\ \E answer : Respond(r, answer)
            /\ inp' = inp \/ \E fields : Present(r, fields)
            /\ took' = took \/ TakesEffect(r)
        BY <2>2 DEF CompleteLogout, RespondOrLose
      <3>. QED  BY <3>1 DEF Base, TypeOK, Respond, Present, TakesEffect
    <2>. QED  BY <2>1, <2>2
  <1>3. UNCHANGED handoff
    BY DEF LogoutGetStart, LogoutHset, LogoutExpireat, CompleteLogout, store
  <1>4. \A k \in Ref : session'[k] = session[k] \/ session'[k] = None
    BY DEF LogoutGetStart, LogoutHset, LogoutExpireat, CompleteLogout, store, Base, TypeOK, Del
  <1>. QED  BY <1>1, <1>2, <1>3, <1>4, QuietHandler, IssuersWrite, Kinds

\* Failures, operators, Redis expiry and the clock.
LEMMA EnvironmentLapses ==
    ASSUME Base, Environment
    PROVE  Contract!Lapse
  <1>1. ASSUME NEW r \in Request, Fail(r) PROVE Contract!Lapse
    <2>1. pc[r] \notin {"idle", "done"} /\ UNCHANGED <<session, handoff, inp, took>>
      BY <1>1 DEF Fail, store
    <2>2. \A q \in Request : q # r => pc'[q] = pc[q]
      BY <1>1 DEF Fail, Respond, Base, TypeOK
    <2>3. r \in Exchange => took[r] = None
      BY <2>1 DEF Base, Phase
    <2>. QED  BY <2>1, <2>2, <2>3, QuietHandler
  <1>2. CASE \/ \E u \in User : SwitchUser(u)
             \/ \E s \in Service : SwitchService(s)
             \/ \E k \in Ref : Expire(k)
             \/ Tick
    <2>1. UNCHANGED <<pc, inp, took>>
      BY <1>2 DEF SwitchUser, SwitchService, Expire, Tick
    <2>2. \A k \in Ref : /\ session'[k] = session[k] \/ session'[k] = None
                         /\ handoff'[k] = handoff[k] \/ handoff'[k] = None
      BY <1>2 DEF SwitchUser, SwitchService, Expire, Tick, store, Del, Survive, Base, TypeOK
    <2>. QED  BY <2>1, <2>2, LapseStep, IssuersWrite DEF OnlyLapses, Over
  <1>. QED  BY <1>1, <1>2 DEF Environment
-----------------------------------------------------------------------------
\* A callback that creates its session opens it and issues its first code.
LEMMA CreateSessionOpens ==
    ASSUME Base, NEW r \in Callback, CreateSession(r)
    PROVE  Contract!OpenAndIssue(r) \/ Contract!Lapse
  <1>1. /\ r \in Request /\ r \in Ref /\ r \in Issuer /\ pc[r] = "create" /\ r \notin Exchange
        /\ UNCHANGED <<inp, took>>
    BY Kinds DEF CreateSession, Issuer
  <1>2. pc'[r] = "done" /\ \A q \in Request : q # r => pc'[q] = pc[q]
    BY <1>1 DEF CreateSession, Respond, RespondOrLose, Base, TypeOK
  <1>3. CASE UNCHANGED <<session, handoff>>
    BY <1>1, <1>2, <1>3, QuietHandler
  <1>4. ASSUME CreateReply(session[r], handoff[r], r, NewSession(r), NewHandoff(r), now) = "Ok",
               session' = Put(session, r, NewSession(r)),
               handoff' = Put(handoff, r, NewHandoff(r))
        PROVE  Contract!OpenAndIssue(r)
    <2>. DEFINE row == NewSession(r)
                new == NewHandoff(r)
    <2>1. session[r] = None /\ handoff[r] = None
      BY <1>4 DEF CreateReply
    <2>2. row # None /\ new # None /\ new.session = r /\ new.status = "unused"
      <3>1. row \in SessionRow /\ new \in HandoffRow(Ref)
        BY <1>1, TTLAssumption
           DEF NewSession, NewHandoff, SessionRow, HandoffRow, ExternalRow, Who, Local, Base,
               TypeOK, Phase
      <3>. QED  BY MissingAssumption, <3>1 DEF NewHandoff
    <2>3. session' = [session EXCEPT ![r] = row] /\ handoff' = [handoff EXCEPT ![r] = new]
      BY <1>4 DEF Put
    <2>. HIDE DEF row, new
    <2>4. \A k \in Issuer : k # r =>
             session'[k] = session[k] /\ handoff'[k] = handoff[k] /\ pc'[k] = pc[k]
      BY <1>2, <2>3, IssuersWrite DEF Base, TypeOK
    <2>5. session'[r] = row /\ handoff'[r] = new
      BY <1>1, <2>3 DEF Base, TypeOK
    <2>6. MappedSession[r] = "new" /\ MappedCode[r] = [is |-> "new", of |-> None]
      BY <1>1, <2>1 DEF MappedSession, MappedCode, Over
    <2>7. MappedSession' = [MappedSession EXCEPT ![r] = "open"]
      BY <1>1, <2>2, <2>4, <2>5 DEF MappedSession, Over
    <2>8. MappedCode' = [MappedCode EXCEPT ![r] = [is |-> "live", of |-> r]]
      BY <1>1, <2>2, <2>4, <2>5 DEF MappedCode, Over
    <2>9. MappedRedeemed' = MappedRedeemed
      BY <1>1 DEF MappedRedeemed
    <2>. QED
      BY <2>6, <2>7, <2>8, <2>9 DEF Contract!OpenAndIssue, Contract!NewCode, Contract!LiveCode
  <1>. QED  BY <1>3, <1>4 DEF CreateSession

\* A login by single sign-on issues a further code for the session of its cookie.
LEMMA IssueSsoIssues ==
    ASSUME Base, NEW r \in Login, IssueSso(r)
    PROVE  (\E k \in Issuer : Contract!IssueAgain(r, k)) \/ Contract!Lapse
  <1>. DEFINE k == inp[r].cookie
              new == SsoHandoff(r)
  <1>1. /\ r \in Request /\ r \in Ref /\ r \in Issuer /\ pc[r] = "issue" /\ k \in Ref
        /\ r \notin Callback /\ r \notin Exchange /\ inp' = inp
    BY Kinds DEF IssueSso, Issuer, Base, Phase
  <1>2. \A q \in Request : q # r => pc'[q] = pc[q] /\ took'[q] = took[q]
    BY <1>1 DEF IssueSso, Goto, Respond, RespondOrLose, TakesEffect, Base, TypeOK
  <1>3. CASE handoff' = handoff /\ (session' = Del(session, k) \/ session' = session)
    <2>1. \A q \in Ref : session'[q] = session[q] \/ session'[q] = None
      BY <1>3 DEF Del, Base, TypeOK
    <2>. QED  BY <1>1, <1>2, <1>3, <2>1, QuietHandler, IssuersWrite, Kinds
  <1>4. ASSUME IssueSsoReply(session[k], handoff[r], k, new, now) = "Ok",
               handoff' = Put(handoff, r, new), session' = session, RespondOrLose(r, "callback")
        PROVE  Contract!IssueAgain(r, k) /\ k \in Issuer
    <2>1. session[k] # None /\ handoff[r] = None
      BY <1>4 DEF IssueSsoReply
    <2>2. k \in Issuer /\ MappedSession[k] = "open" /\ session[r] = None
      BY <1>1, <2>1, Kinds DEF MappedSession, Issuer, Base, Written
    <2>3. new # None /\ new.session = k /\ new.status = "unused"
      <3>1. new \in HandoffRow(Ref)
        BY <1>1, TTLAssumption DEF SsoHandoff, HandoffRow, Who, Local, Base, TypeOK, Phase
      <3>. QED  BY MissingAssumption, <3>1 DEF SsoHandoff
    <2>4. handoff' = [handoff EXCEPT ![r] = new] /\ pc'[r] = "done"
      BY <1>1, <1>4 DEF Put, RespondOrLose, Respond, Base, TypeOK
    <2>. HIDE DEF k, new
    <2>5. \A q \in Issuer : q # r => handoff'[q] = handoff[q] /\ pc'[q] = pc[q]
      BY <1>2, <2>4, IssuersWrite DEF Base, TypeOK
    <2>6. handoff'[r] = new
      BY <1>1, <2>4 DEF Base, TypeOK
    <2>7. MappedCode[r] = [is |-> "new", of |-> None]
      BY <1>1, <2>1 DEF MappedCode, Over
    <2>8. MappedSession' = [MappedSession EXCEPT ![r] = "closed"]
      BY <1>1, <1>4, <2>2, <2>4, <2>5 DEF MappedSession, Over
    <2>9. MappedCode' = [MappedCode EXCEPT ![r] = [is |-> "live", of |-> k]]
      BY <1>1, <2>3, <2>5, <2>6 DEF MappedCode, Over
    <2>10. MappedRedeemed' = MappedRedeemed
      BY <1>1, <1>2, Kinds DEF MappedRedeemed
    <2>. QED
      BY <2>2, <2>7, <2>8, <2>9, <2>10
         DEF Contract!IssueAgain, Contract!NewCode, Contract!LiveCode
  <1>. QED  BY <1>3, <1>4 DEF IssueSso

\* An exchange that succeeds redeems the code it presented, whose session is open.
LEMMA ExchangeRedeems ==
    ASSUME Base, NEW r \in Exchange, ExchangeHandoff(r)
    PROVE  (\E h \in Issuer : Contract!Redeem(r, h)) \/ Contract!Lapse
  <1>. DEFINE h == inp[r].ref
              k == loc[r].session
              row == handoff[h]
              new == [row EXCEPT !.status = "used"]
  <1>1. /\ r \in Request /\ pc[r] = "exchange" /\ took[r] = None /\ h \in Ref /\ k \in Ref
        /\ inp' = inp /\ r \notin Issuer /\ now \in Nat
    BY Kinds DEF ExchangeHandoff, Issuer, Base, TypeOK, Phase
  <1>2. \A q \in Request : q # r => pc'[q] = pc[q] /\ took'[q] = took[q]
    BY <1>1 DEF ExchangeHandoff, Respond, RespondOrLose, TakesEffect, Base, TypeOK
  <1>3. CASE /\ handoff' = Del(handoff, h) \/ handoff' = handoff
             /\ session' = Del(session, k) \/ session' = session
             /\ took' = took
    <2>. HIDE DEF h, k
    <2>1. \A q \in Ref : /\ session'[q] = session[q] \/ session'[q] = None
                         /\ handoff'[q] = handoff[q] \/ handoff'[q] = None
      BY <1>3 DEF Del, Base, TypeOK
    <2>. QED  BY <1>1, <1>2, <1>3, <2>1, QuietHandler, IssuersWrite
  <1>4. ASSUME ExchangeReply(row, session[k], k, inp[r].service, inp[r].challenge, now) = "Ok",
               handoff' = Put(handoff, h, new), TakesEffect(r), session' = session
        PROVE  Contract!Redeem(r, h) /\ h \in Issuer
    <2>1. row # None /\ row.status # "used" /\ row.session = k /\ session[k] # None
      BY <1>4 DEF ExchangeReply
    <2>2. row \in HandoffRow(Ref) /\ row.status = "unused"
      BY <1>1, <2>1 DEF Base, TypeOK, HandoffRow
    <2>3. new \in HandoffRow(Ref) /\ new.status = "used" /\ new.session = k
      BY <2>1, <2>2 DEF HandoffRow
    <2>4. new # None
      BY <2>3, MissingAssumption
    <2>5. handoff' = [handoff EXCEPT ![h] = new] /\ took'[r] = now /\ now # None
      BY <1>1, <1>4, MissingAssumption DEF Put, TakesEffect, Base, TypeOK
    <2>. HIDE DEF new, k, row
    <2>6. h \in Issuer /\ k \in Issuer
      BY <1>1, <2>1, IssuersWrite DEF row
    <2>7. \A q \in Issuer : pc'[q] = pc[q] /\ (q # h => handoff'[q] = handoff[q])
      BY <1>1, <1>2, <2>5, IssuersWrite DEF Base, TypeOK
    <2>8. handoff'[h] = new
      BY <1>1, <2>5 DEF Base, TypeOK
    <2>9. MappedCode[h] = [is |-> "live", of |-> k] /\ MappedSession[k] = "open"
      BY <2>1, <2>2, <2>6 DEF MappedCode, MappedSession, row
    <2>10. MappedSession' = MappedSession
      BY <1>4, <2>7 DEF MappedSession, Over
    <2>11. MappedCode' = [MappedCode EXCEPT ![h] = [is |-> "spent", of |-> k]]
      BY <2>3, <2>4, <2>6, <2>7, <2>8 DEF MappedCode, Over
    <2>12. MappedRedeemed[r] = None /\ MappedRedeemed' = [MappedRedeemed EXCEPT ![r] = h]
      BY <1>1, <1>2, <2>5, Kinds DEF MappedRedeemed
    <2>. HIDE DEF h
    <2>. QED
      BY <2>6, <2>9, <2>10, <2>11, <2>12 DEF Contract!Redeem, Contract!SpentCode
  <1>. QED  BY <1>3, <1>4 DEF ExchangeHandoff
-----------------------------------------------------------------------------
\* An initial state of the handlers is one of the contract.
LEMMA InitialState == Init => Contract!ContractInit
  <1>. SUFFICES ASSUME Init PROVE Contract!ContractInit
    OBVIOUS
  <1>1. \A k \in Issuer : session[k] = None /\ handoff[k] = None /\ pc[k] = "idle"
    BY Kinds DEF Init, Issuer
  <1>2. \A x \in Exchange : took[x] = None
    BY Kinds DEF Init
  <1>3. MappedSession = [k \in Issuer |-> "new"]
    BY <1>1 DEF MappedSession, Over
  <1>4. MappedCode = [k \in Issuer |-> [is |-> "new", of |-> None]]
    BY <1>1 DEF MappedCode, Over
  <1>5. MappedRedeemed = [x \in Exchange |-> None]
    BY <1>2 DEF MappedRedeemed
  <1>. QED  BY <1>3, <1>4, <1>5 DEF Contract!ContractInit, Contract!NewCode

\* Every step of the handlers or of the environment is a step of the contract.
LEMMA ContractStep ==
    ASSUME Base, Next
    PROVE  Contract!ContractNext
  <1>1. ASSUME NEW r \in Login, LoginHandler(r) PROVE Contract!ContractNext
    <2>. r \in Issuer
      BY DEF Issuer
    <2>1. CASE IssueSso(r)
      BY <2>1, IssueSsoIssues DEF Contract!ContractNext
    <2>. QED  BY <1>1, <2>1, LoginLapses DEF LoginHandler, Contract!ContractNext
  <1>2. ASSUME NEW r \in Callback, CallbackHandler(r) PROVE Contract!ContractNext
    <2>. r \in Issuer
      BY DEF Issuer
    <2>1. CASE CreateSession(r)
      BY <2>1, CreateSessionOpens DEF Contract!ContractNext
    <2>. QED  BY <1>2, <2>1, CallbackLapses DEF CallbackHandler, Contract!ContractNext
  <1>3. ASSUME NEW r \in Exchange, ExchangeHandler(r) PROVE Contract!ContractNext
    <2>1. CASE ExchangeHandoff(r)
      BY <2>1, ExchangeRedeems DEF Contract!ContractNext
    <2>. QED  BY <1>3, <2>1, ExchangeLapses DEF ExchangeHandler, Contract!ContractNext
  <1>4. ASSUME NEW r \in LogoutGet, LogoutGetHandler(r) PROVE Contract!ContractNext
    <2>. r \in Request
      BY Kinds
    <2>. QED  BY <1>4, LogoutLapses DEF LogoutGetHandler, Contract!ContractNext
  <1>5. ASSUME NEW r \in LogoutPost, CompleteLogout(r) PROVE Contract!ContractNext
    <2>. r \in Request
      BY Kinds
    <2>. QED  BY <1>5, LogoutLapses DEF Contract!ContractNext
  <1>6. CASE Environment
    BY <1>6, EnvironmentLapses DEF Contract!ContractNext
  <1>. QED  BY <1>1, <1>2, <1>3, <1>4, <1>5, <1>6 DEF Next, Handler

\* The foundation keeps its contract: for any number of requests, services and
\* users, any lifetimes and any skew, every behaviour of the handlers is one of
\* SsoContract.
THEOREM ContractIsKept == Spec => KeepsContract
  <1>1. Init => Contract!ContractInit
    BY InitialState
  <1>2. IInv /\ [Next]_vars => [Contract!ContractNext]_(Contract!contractVars)
    <2>1. CASE UNCHANGED vars
      BY <2>1
         DEF vars, Contract!contractVars, MappedSession, MappedCode, MappedRedeemed, Over
    <2>. QED  BY <2>1, ContractStep DEF IInv
  <1>. QED  BY <1>1, <1>2, Invariance, PTL DEF Spec, KeepsContract, Contract!ContractSpec
=============================================================================
