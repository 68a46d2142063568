------------------------ MODULE PortalBackendProofs ------------------------
(***************************************************************************)
(* Proofs about PortalBackend for any number of browsers, users and        *)
(* requests, any lifetimes and any capacities.                             *)
(***************************************************************************)
EXTENDS PortalBackend, FiniteSetTheorems, TLAPS

LoginLabel == {"idle", "login_lock", "reply", "done"}
CallbackLabel == {"idle", "claim_lock", "exchange", "session_lock", "reply", "done"}

\* What a handler has read and answered when it is at a label.
Phase ==
    /\ \A r \in Request :
          /\ pc[r] \notin {"reply", "done"} => resp[r] = "none"
          /\ pc[r] = "idle" => inp[r] = NoInput /\ loc[r] = NoLocal
          /\ pc[r] \notin {"idle", "done"} => inp[r].browser \in Browser
          /\ loc[r].now <= now
    /\ \A r \in Login : pc[r] \in LoginLabel
    /\ \A r \in Callback :
          /\ pc[r] \in CallbackLabel
          /\ pc[r] \notin {"idle", "done"} =>
                inp[r].state \in Login /\ inp[r].code \in Login /\ inp[r].ctx \in Login
          /\ pc[r] = "claim_lock" => loc[r].claimed = None
          /\ pc[r] \in {"exchange", "session_lock"} => loc[r].claimed \in Login
          /\ pc[r] = "session_lock" => loc[r].user \in User
          /\ resp[r] = "302" => loc[r].claimed \in Login /\ loc[r].user \in User
    /\ \A r \in Me : pc[r] \in {"idle", "done"}
    /\ \A r \in Logout : pc[r] \in {"idle", "reply", "done"}

\* A browser context is held, and presented, only by the browser whose login
\* it was made for; the login that made it is over.
ContextStaysHome ==
    /\ \A b \in Browser :
          jar[b].ctx # None => pc[jar[b].ctx] = "done" /\ inp[jar[b].ctx].browser = b
    /\ \A c \in Callback :
          /\ inp[c].state # None => pc[inp[c].state] = "done"
          /\ inp[c].ctx # None => /\ pc[inp[c].ctx] = "done"
                                  /\ inp[inp[c].ctx].browser = inp[c].browser

\* A LoginStart exists only once its login has gone through the mutex, and a
\* claimed one is gone for good: its login does not write it again.
ClaimedForGood ==
    /\ \A l \in Login : login_starts[l] # None => pc[l] \in {"reply", "done"}
    /\ \A c \in Callback :
          loc[c].claimed # None =>
             /\ loc[c].claimed = inp[c].state /\ loc[c].claimed = inp[c].ctx
             /\ login_starts[loc[c].claimed] = None

\* A code that was presented had been issued, and the person a callback was
\* told is the one authenticated for the login it claimed.
Authenticated ==
    \A c \in Callback :
       /\ inp[c].code # None => grant[inp[c].code] # None
       /\ loc[c].user # None => /\ loc[c].claimed # None
                                /\ grant[loc[c].claimed] # None
                                /\ loc[c].user = grant[loc[c].claimed].user

\* A LocalSession holds what its callback had, from the second it was made in.
OwnRecord ==
    \A c \in Callback :
       local_sessions[c] # None =>
          /\ pc[c] \in {"reply", "done"}
          /\ local_sessions[c].user = loc[c].user
          /\ local_sessions[c].expires = loc[c].now + LocalSessionTTL

\* A session cookie came with the answer of the callback it is named after.
CookieWasSent ==
    \A b \in Browser :
       LET c == jar[b].session IN
       c # None => pc[c] = "done" /\ resp[c] = "302" /\ inp[c].browser = b

\* What /api/me answered with.
MeAnswered ==
    \A m \in Me :
       LET c == inp[m].session IN
       resp[m] = "200" => /\ c \in Callback
                          /\ pc[c] = "done" /\ resp[c] = "302"
                          /\ inp[c].browser = inp[m].browser
                          /\ loc[m].user = loc[c].user
                          /\ loc[m].now < loc[c].now + LocalSessionTTL

\* A session that was logged out is gone, and its callback is over.
GoneForGood ==
    \A o \in Logout :
       LET c == inp[o].session IN
       c # None => pc[c] = "done" /\ local_sessions[c] = None

IInv ==
    /\ TypeOK
    /\ Phase
    /\ ContextStaysHome
    /\ ClaimedForGood
    /\ Authenticated
    /\ OwnRecord
    /\ CookieWasSent
    /\ MeAnswered
    /\ GoneForGood
    /\ OneExchangePerLogin
-----------------------------------------------------------------------------
\* Requests of different kinds are different.
LEMMA Kinds ==
    /\ Request = Login \cup Callback \cup Me \cup Logout
    /\ \A r \in Login : r \in Request /\ r \notin Callback \cup Me \cup Logout
    /\ \A r \in Callback : r \in Request /\ r \notin Login \cup Me \cup Logout
    /\ \A r \in Me : r \in Request /\ r \notin Login \cup Callback \cup Logout
    /\ \A r \in Logout : r \in Request /\ r \notin Login \cup Callback \cup Me
    /\ None \notin Request \cup Login \cup Callback \cup Browser \cup User
  BY RequestAssumption DEF Request

\* Request r goes to label p with status s, input i and local variables m.
Move(r, p, s, i, m) ==
    /\ pc' = [pc EXCEPT ![r] = p]
    /\ resp' = [resp EXCEPT ![r] = s]
    /\ inp' = [inp EXCEPT ![r] = i]
    /\ loc' = [loc EXCEPT ![r] = m]

\* What that means, request by request.
Moved(r, p, s, i, m) ==
    /\ pc' \in [Request -> Label] /\ resp' \in [Request -> Status]
    /\ inp' \in [Request -> Input] /\ loc' \in [Request -> Local]
    /\ pc'[r] = p /\ resp'[r] = s /\ inp'[r] = i /\ loc'[r] = m
    /\ \A q \in Request : q # r =>
          pc'[q] = pc[q] /\ resp'[q] = resp[q] /\ inp'[q] = inp[q] /\ loc'[q] = loc[q]

\* A move changes nothing of any other request.
LEMMA MoveFacts ==
    ASSUME TypeOK, NEW r \in Request, NEW p \in Label, NEW s \in Status,
           NEW i \in Input, NEW m \in Local, Move(r, p, s, i, m)
    PROVE  Moved(r, p, s, i, m)
  BY DEF TypeOK, Move, Moved

\* What the records of a request hold.
LEMMA RequestTypes ==
    ASSUME TypeOK, NEW r \in Request
    PROVE  /\ pc[r] \in Label /\ resp[r] \in Status /\ inp[r] \in Input /\ loc[r] \in Local
           /\ inp[r].browser \in Browser \cup {None}
           /\ inp[r].state \in Login \cup {None} /\ inp[r].code \in Login \cup {None}
           /\ inp[r].ctx \in Login \cup {None} /\ inp[r].session \in Callback \cup {None}
           /\ loc[r].now \in Nat /\ loc[r].claimed \in Login \cup {None}
           /\ loc[r].user \in User \cup {None}
  BY DEF TypeOK, Input, Local

\* Rows of both maps stay as they are or go.
MapsShrink ==
    /\ login_starts' \in [Login -> Nat \cup {None}]
    /\ local_sessions' \in [Callback -> LocalSession \cup {None}]
    /\ \A l \in Login : login_starts'[l] = login_starts[l] \/ login_starts'[l] = None
    /\ \A c \in Callback : local_sessions'[c] = local_sessions[c] \/ local_sessions'[c] = None

\* The cleanup is such a step.
LEMMA RetainedShrinks ==
    ASSUME TypeOK, NEW t, NEW u
    PROVE  /\ RetainedStarts(t) \in [Login -> Nat \cup {None}]
           /\ RetainedSessions(u) \in [Callback -> LocalSession \cup {None}]
           /\ \A l \in Login : RetainedStarts(t)[l] = login_starts[l] \/ RetainedStarts(t)[l] = None
           /\ \A c \in Callback :
                 RetainedSessions(u)[c] = local_sessions[c] \/ RetainedSessions(u)[c] = None
  BY DEF TypeOK, RetainedStarts, RetainedSessions

\* The same for every request at once, and for the browsers.
LEMMA StateTypes ==
    ASSUME TypeOK
    PROVE  /\ \A r \in Request :
                 /\ inp[r].browser \in Browser \cup {None}
                 /\ inp[r].state \in Login \cup {None} /\ inp[r].code \in Login \cup {None}
                 /\ inp[r].ctx \in Login \cup {None} /\ inp[r].session \in Callback \cup {None}
                 /\ loc[r].now \in Nat /\ loc[r].claimed \in Login \cup {None}
                 /\ loc[r].user \in User \cup {None}
           /\ \A b \in Browser :
                 jar[b].ctx \in Login \cup {None} /\ jar[b].session \in Callback \cup {None}
  BY RequestTypes DEF TypeOK, Jar

\* A code that was issued stays issued, for the same person.
GrantsKept ==
    \A l \in Login : grant[l] # None => grant'[l] # None /\ grant'[l].user = grant[l].user

\* A handler that has answered changes nothing any more.
OverStaysOver ==
    \A q \in Request :
       /\ pc[q] \in {"reply", "done"} => inp'[q] = inp[q] /\ loc'[q] = loc[q]
       /\ pc[q] = "reply" => pc'[q] \in {"reply", "done"}
       /\ pc[q] = "done" => pc'[q] = "done" /\ resp'[q] = resp[q]

\* A step in which no callback presents, claims or learns anything, no
\* /api/me succeeds and no session is logged out.
Quiet ==
    /\ \A c \in Callback :
          /\ inp'[c] = inp[c]
          /\ loc'[c].claimed = loc[c].claimed /\ loc'[c].user = loc[c].user
    /\ \A m \in Me : resp'[m] = "200" =>
          resp[m] = "200" /\ inp'[m] = inp[m] /\ loc'[m] = loc[m]
    /\ \A o \in Logout : inp'[o].session = inp[o].session

\* Such steps keep what the proof says about cookies, claims and sessions.
LEMMA QuietPreserves ==
    ASSUME IInv, TypeOK', Phase', MapsShrink, UNCHANGED jar, GrantsKept, OverStaysOver, Quiet
    PROVE  IInv'
  <1>1. TypeOK /\ Phase
    BY DEF IInv
  <1>2. ContextStaysHome'
    BY <1>1, Kinds, StateTypes DEF IInv, ContextStaysHome, OverStaysOver, Quiet
  <1>3. ClaimedForGood'
    BY <1>1, Kinds, StateTypes DEF IInv, ClaimedForGood, OverStaysOver, Quiet, MapsShrink
  <1>4. Authenticated' /\ OneExchangePerLogin'
    BY <1>1, Kinds, StateTypes DEF IInv, Authenticated, OneExchangePerLogin, Quiet, GrantsKept
  <1>5. OwnRecord'
    BY <1>1, Kinds DEF IInv, OwnRecord, OverStaysOver, MapsShrink
  <1>6. CookieWasSent' /\ GoneForGood'
    BY <1>1, Kinds, StateTypes
       DEF IInv, CookieWasSent, GoneForGood, OverStaysOver, Quiet, MapsShrink
  <1>7. MeAnswered'
    BY <1>1, Kinds, StateTypes DEF IInv, MeAnswered, OverStaysOver, Quiet
  <1>. QED  BY <1>2, <1>3, <1>4, <1>5, <1>6, <1>7 DEF IInv

\* A login arrives with nothing but its browser and a clock reading.
LEMMA LoginArrivePreserves ==
    ASSUME IInv, NEW r \in Login, LoginArrive(r)
    PROVE  IInv'
  <1>1. r \in Request /\ TypeOK /\ pc[r] = "idle" /\ resp[r] = "none"
        /\ inp[r] = NoInput /\ loc[r] = NoLocal /\ now \in Nat
    BY Kinds DEF LoginArrive, IInv, Phase, TypeOK
  <1>2. PICK b \in Browser : inp' = [inp EXCEPT ![r].browser = b]
    BY DEF LoginArrive
  <1>. DEFINE i == [inp[r] EXCEPT !.browser = b]
              m == [loc[r] EXCEPT !.now = now]
  <1>3. i \in Input /\ i.browser = b
    BY <1>1 DEF NoInput, Input
  <1>4. m \in Local /\ m.now = now
    BY <1>1 DEF NoLocal, Local
  <1>5. Move(r, "login_lock", "none", i, m)
        /\ UNCHANGED <<now, login_starts, local_sessions, grant, jar>>
    BY <1>1, <1>2 DEF LoginArrive, Goto, Move, TypeOK
  <1>. HIDE DEF i, m
  <1>6. Moved(r, "login_lock", "none", i, m)
    BY <1>1, <1>3, <1>4, <1>5, MoveFacts DEF Label, Status
  <1>7. TypeOK' /\ MapsShrink /\ GrantsKept
    BY <1>5, <1>6 DEF IInv, TypeOK, MapsShrink, GrantsKept, Moved
  <1>8. Phase'
    BY <1>1, <1>3, <1>4, <1>5, <1>6, Kinds DEF IInv, Phase, LoginLabel, Moved
  <1>9. OverStaysOver /\ Quiet
    BY <1>1, <1>6, Kinds DEF OverStaysOver, Quiet, Moved
  <1>. QED  BY <1>5, <1>7, <1>8, <1>9, QuietPreserves

\* The login's own LoginStart is new; everything else that goes has expired.
LEMMA LoginLockPreserves ==
    ASSUME IInv, NEW r \in Login, LoginLock(r)
    PROVE  IInv'
  <1>1. /\ r \in Request /\ TypeOK /\ pc[r] = "login_lock" /\ resp[r] = "none"
        /\ inp[r] \in Input /\ loc[r] \in Local /\ loc[r].now \in Nat
        /\ loc[r].now + LoginStartTTL \in Nat
    BY Kinds, RequestTypes, BoundAssumption DEF LoginLock, IInv, Phase, TypeOK
  <1>. DEFINE kept == RetainedStarts(loc[r].now)
  <1>2. /\ kept \in [Login -> Nat \cup {None}]
        /\ local_sessions' \in [Callback -> LocalSession \cup {None}]
        /\ \A l \in Login : kept[l] = login_starts[l] \/ kept[l] = None
        /\ \A c \in Callback : local_sessions'[c] = local_sessions[c] \/ local_sessions'[c] = None
    BY <1>1, RetainedShrinks DEF LoginLock
  <1>3. UNCHANGED <<now, grant, jar>>
    BY DEF LoginLock
  <1>4. CASE login_starts' = kept /\ Respond(r, "503")
    <2>1. Move(r, "done", "503", inp[r], loc[r])
      BY <1>1, <1>4 DEF LoginLock, Respond, Goto, Move, TypeOK
    <2>2. Moved(r, "done", "503", inp[r], loc[r])
      BY <1>1, <2>1, MoveFacts DEF Label, Status
    <2>. HIDE DEF kept
    <2>3. TypeOK' /\ MapsShrink /\ GrantsKept
      BY <1>1, <1>2, <1>3, <1>4, <2>2 DEF TypeOK, MapsShrink, GrantsKept, Moved
    <2>4. Phase'
      BY <1>1, <1>3, <2>2, Kinds DEF IInv, Phase, LoginLabel, Moved
    <2>5. OverStaysOver /\ Quiet
      BY <1>1, <2>2, Kinds DEF OverStaysOver, Quiet, Moved
    <2>. QED  BY <1>3, <2>3, <2>4, <2>5, QuietPreserves
  <1>5. CASE login_starts' = [kept EXCEPT ![r] = loc[r].now + LoginStartTTL] /\ Send(r, "302")
    <2>1. Move(r, "reply", "302", inp[r], loc[r])
      BY <1>1, <1>5 DEF LoginLock, Send, Goto, Move, TypeOK
    <2>2. Moved(r, "reply", "302", inp[r], loc[r])
      BY <1>1, <2>1, MoveFacts DEF Label, Status
    <2>. HIDE DEF kept
    <2>3. TypeOK'
      BY <1>1, <1>2, <1>3, <1>5, <2>2 DEF TypeOK, Moved
    <2>4. Phase'
      BY <1>1, <1>3, <2>2, Kinds DEF IInv, Phase, LoginLabel, Moved
    <2>5. \A l \in Login : l # r => login_starts'[l] = login_starts[l] \/ login_starts'[l] = None
      BY <1>2, <1>5
    <2>6. ContextStaysHome' /\ Authenticated' /\ OneExchangePerLogin'
      BY <1>1, <1>3, <2>2, Kinds, StateTypes
         DEF IInv, ContextStaysHome, Authenticated, OneExchangePerLogin, Moved
    <2>7. ClaimedForGood'
      <3>1. \A c \in Callback : loc[c].claimed # r
        BY <1>1, Kinds, StateTypes DEF IInv, ClaimedForGood, ContextStaysHome
      <3>. QED  BY <1>1, <2>2, <2>5, <3>1, Kinds, StateTypes DEF IInv, ClaimedForGood, Moved
    <2>8. OwnRecord' /\ GoneForGood'
      BY <1>1, <1>2, <2>2, Kinds, StateTypes DEF IInv, OwnRecord, GoneForGood, Moved
    <2>9. CookieWasSent' /\ MeAnswered'
      BY <1>1, <1>3, <2>2, Kinds, StateTypes DEF IInv, CookieWasSent, MeAnswered, Moved
    <2>. QED  BY <2>3, <2>4, <2>6, <2>7, <2>8, <2>9 DEF IInv
  <1>. QED  BY <1>4, <1>5 DEF LoginLock

\* The context a callback presents comes out of its browser's cookies.
LEMMA CallbackArrivePreserves ==
    ASSUME IInv, NEW r \in Callback, CallbackArrive(r)
    PROVE  IInv'
  <1>1. r \in Request /\ TypeOK /\ pc[r] = "idle" /\ resp[r] = "none"
        /\ inp[r] = NoInput /\ loc[r] = NoLocal /\ now \in Nat
        /\ inp[r] \in Input /\ loc[r] \in Local
    BY Kinds DEF CallbackArrive, IInv, Phase, TypeOK
  <1>2. UNCHANGED <<now, login_starts, local_sessions, grant, jar>>
    BY DEF CallbackArrive
  <1>3. PICK b \in Browser, l \in Started, g \in Issued :
          \/ /\ Respond(r, "400")
             /\ UNCHANGED <<inp, loc>>
          \/ /\ jar[b].ctx # None
             /\ inp' = [inp EXCEPT ![r] = [NoInput EXCEPT !.browser = b, !.state = l,
                                                         !.code = g, !.ctx = jar[b].ctx]]
             /\ loc' = [loc EXCEPT ![r].now = now]
             /\ Goto(r, "claim_lock")
             /\ UNCHANGED resp
    BY DEF CallbackArrive
  <1>4. l \in Login /\ g \in Login /\ pc[l] = "done" /\ grant[g] # None
    BY DEF Started, Issued
  <1>5. CASE Respond(r, "400") /\ UNCHANGED <<inp, loc>>
    <2>1. Move(r, "done", "400", inp[r], loc[r])
      BY <1>1, <1>5 DEF Respond, Goto, Move, TypeOK
    <2>2. Moved(r, "done", "400", inp[r], loc[r])
      BY <1>1, <2>1, MoveFacts DEF Label, Status
    <2>3. TypeOK' /\ MapsShrink /\ GrantsKept
      BY <1>1, <1>2, <2>2 DEF TypeOK, MapsShrink, GrantsKept, Moved
    <2>4. Phase'
      BY <1>1, <1>2, <2>2, Kinds DEF IInv, Phase, CallbackLabel, Moved
    <2>5. OverStaysOver /\ Quiet
      BY <1>1, <2>2, Kinds DEF OverStaysOver, Quiet, Moved
    <2>. QED  BY <1>2, <2>3, <2>4, <2>5, QuietPreserves
  <1>6. CASE /\ jar[b].ctx # None
             /\ inp' = [inp EXCEPT ![r] = [NoInput EXCEPT !.browser = b, !.state = l,
                                                         !.code = g, !.ctx = jar[b].ctx]]
             /\ loc' = [loc EXCEPT ![r].now = now]
             /\ Goto(r, "claim_lock")
             /\ UNCHANGED resp
    <2>. DEFINE i == [NoInput EXCEPT !.browser = b, !.state = l, !.code = g, !.ctx = jar[b].ctx]
                m == [loc[r] EXCEPT !.now = now]
    <2>1. jar[b].ctx \in Login
      BY <1>1, <1>6, StateTypes
    <2>2. i \in Input /\ i.browser = b /\ i.state = l /\ i.code = g /\ i.ctx = jar[b].ctx
          /\ i.session = None
      BY <1>4, <2>1 DEF NoInput, Input
    <2>3. m \in Local /\ m.now = now /\ m.claimed = None /\ m.user = None
      BY <1>1 DEF NoLocal, Local
    <2>4. Move(r, "claim_lock", "none", i, m)
      BY <1>1, <1>6 DEF Goto, Move, TypeOK
    <2>. HIDE DEF i, m
    <2>5. Moved(r, "claim_lock", "none", i, m)
      BY <1>1, <2>2, <2>3, <2>4, MoveFacts DEF Label, Status
    <2>6. TypeOK'
      BY <1>1, <1>2, <2>5 DEF TypeOK, Moved
    <2>7. Phase'
      BY <1>1, <1>2, <1>4, <2>1, <2>2, <2>3, <2>5, Kinds DEF IInv, Phase, CallbackLabel, Moved
    <2>8. ContextStaysHome'
      BY <1>1, <1>2, <1>4, <2>1, <2>2, <2>5, Kinds, StateTypes DEF IInv, ContextStaysHome, Moved
    <2>9. ClaimedForGood' /\ Authenticated' /\ OneExchangePerLogin'
      BY <1>1, <1>2, <1>4, <2>2, <2>3, <2>5, Kinds, StateTypes
         DEF IInv, ClaimedForGood, Authenticated, OneExchangePerLogin, Moved
    <2>10. OwnRecord' /\ GoneForGood'
      BY <1>1, <1>2, <2>5, Kinds, StateTypes DEF IInv, OwnRecord, GoneForGood, Moved
    <2>11. CookieWasSent' /\ MeAnswered'
      BY <1>1, <1>2, <2>5, Kinds, StateTypes DEF IInv, CookieWasSent, MeAnswered, Moved
    <2>. QED  BY <2>6, <2>7, <2>8, <2>9, <2>10, <2>11 DEF IInv
  <1>. QED  BY <1>3, <1>5, <1>6

\* A claim takes the LoginStart that was held against the browser's context.
LEMMA ClaimLockPreserves ==
    ASSUME IInv, NEW r \in Callback, ClaimLock(r)
    PROVE  IInv'
  <1>. DEFINE l == inp[r].state
  <1>1. /\ r \in Request /\ TypeOK /\ pc[r] = "claim_lock" /\ resp[r] = "none"
        /\ inp[r] \in Input /\ loc[r] \in Local /\ loc[r].claimed = None
        /\ l \in Login /\ pc[l] = "done"
    BY Kinds, RequestTypes DEF ClaimLock, IInv, Phase, ContextStaysHome, TypeOK
  <1>2. UNCHANGED <<now, local_sessions, grant, jar>>
    BY DEF ClaimLock
  <1>3. CASE Respond(r, "400") /\ UNCHANGED loc
             /\ login_starts' \in {login_starts, [login_starts EXCEPT ![l] = None]}
    <2>1. Move(r, "done", "400", inp[r], loc[r])
      BY <1>1, <1>3 DEF ClaimLock, Respond, Goto, Move, TypeOK
    <2>2. Moved(r, "done", "400", inp[r], loc[r])
      BY <1>1, <2>1, MoveFacts DEF Label, Status
    <2>3. TypeOK' /\ MapsShrink /\ GrantsKept
      BY <1>1, <1>2, <1>3, <2>2 DEF TypeOK, MapsShrink, GrantsKept, Moved
    <2>4. Phase'
      BY <1>1, <1>2, <2>2, Kinds DEF IInv, Phase, CallbackLabel, Moved
    <2>5. OverStaysOver /\ Quiet
      BY <1>1, <2>2, Kinds DEF OverStaysOver, Quiet, Moved
    <2>. QED  BY <1>2, <2>3, <2>4, <2>5, QuietPreserves
  <1>4. CASE /\ ClaimReply(l, inp[r].ctx, loc[r].now) = "Ok"
             /\ login_starts' = [login_starts EXCEPT ![l] = None]
             /\ loc' = [loc EXCEPT ![r].claimed = l]
             /\ Goto(r, "exchange")
             /\ UNCHANGED resp
    <2>. DEFINE m == [loc[r] EXCEPT !.claimed = l]
    <2>1. m \in Local /\ m.now = loc[r].now /\ m.claimed = l /\ m.user = loc[r].user
      BY <1>1 DEF Local
    <2>2. Move(r, "exchange", "none", inp[r], m)
      BY <1>1, <1>4 DEF ClaimLock, Goto, Move, TypeOK
    <2>3. login_starts[l] # None /\ l = inp[r].ctx
      BY <1>4 DEF ClaimReply
    <2>4. login_starts' \in [Login -> Nat \cup {None}] /\ login_starts'[l] = None
          /\ \A k \in Login : k # l => login_starts'[k] = login_starts[k]
      BY <1>1, <1>4 DEF TypeOK
    <2>. HIDE DEF l, m
    <2>5. Moved(r, "exchange", "none", inp[r], m)
      BY <1>1, <2>1, <2>2, MoveFacts DEF Label, Status
    <2>6. TypeOK'
      BY <1>1, <1>2, <2>4, <2>5 DEF TypeOK, Moved
    <2>7. Phase'
      BY <1>1, <1>2, <2>1, <2>5, Kinds DEF IInv, Phase, CallbackLabel, Moved
    <2>8. ContextStaysHome'
      BY <1>1, <1>2, <2>5, Kinds, StateTypes DEF IInv, ContextStaysHome, Moved
    <2>9. ClaimedForGood'
      BY <1>1, <1>2, <2>1, <2>3, <2>4, <2>5, Kinds, StateTypes DEF IInv, ClaimedForGood, Moved, l
    <2>10. Authenticated'
      BY <1>1, <1>2, <2>1, <2>5, Kinds, StateTypes DEF IInv, Authenticated, Moved
    <2>11. OneExchangePerLogin'
      BY <1>1, <2>1, <2>3, <2>5, Kinds, StateTypes
         DEF IInv, ClaimedForGood, OneExchangePerLogin, Moved
    <2>12. OwnRecord' /\ GoneForGood'
      BY <1>1, <1>2, <2>5, Kinds, StateTypes DEF IInv, OwnRecord, GoneForGood, Moved
    <2>13. CookieWasSent' /\ MeAnswered'
      BY <1>1, <1>2, <2>5, Kinds, StateTypes DEF IInv, CookieWasSent, MeAnswered, Moved
    <2>. QED  BY <2>6, <2>7, <2>8, <2>9, <2>10, <2>11, <2>12, <2>13 DEF IInv
  <1>. QED  BY <1>3, <1>4 DEF ClaimLock

\* The exchange tells the callback who was authenticated for the login it
\* claimed, or leaves it with nothing.
LEMMA ExchangeHandoffPreserves ==
    ASSUME IInv, NEW r \in Callback, ExchangeHandoff(r)
    PROVE  IInv'
  <1>. DEFINE g == inp[r].code
  <1>1. /\ r \in Request /\ TypeOK /\ pc[r] = "exchange" /\ resp[r] = "none"
        /\ inp[r] \in Input /\ loc[r] \in Local
        /\ g \in Login /\ grant[g] # None /\ grant[g] \in Grant /\ grant[g].user \in User
    BY Kinds, RequestTypes DEF ExchangeHandoff, IInv, Phase, Authenticated, TypeOK, Grant
  <1>2. UNCHANGED <<now, login_starts, local_sessions, jar, inp>>
    BY DEF ExchangeHandoff
  <1>3. /\ grant' \in [Login -> Grant \cup {None}]
        /\ GrantsKept
    <2>1. CASE UNCHANGED grant
      BY <1>1, <2>1 DEF TypeOK, GrantsKept
    <2>2. CASE grant' = [grant EXCEPT ![g].used = TRUE]
      <3>. DEFINE h == [grant[g] EXCEPT !.used = TRUE]
      <3>1. h \in Grant /\ h # None /\ h.user = grant[g].user
        BY <1>1, NoneAssumption DEF Grant
      <3>2. grant' = [grant EXCEPT ![g] = h]
        BY <2>2
      <3>. HIDE DEF h
      <3>. QED  BY <1>1, <3>1, <3>2 DEF TypeOK, GrantsKept
    <2>. QED  BY <2>1, <2>2 DEF ExchangeHandoff
  <1>4. CASE Send(r, "502") /\ UNCHANGED loc
    <2>1. Move(r, "reply", "502", inp[r], loc[r])
      BY <1>1, <1>2, <1>4 DEF Send, Goto, Move, TypeOK
    <2>2. Moved(r, "reply", "502", inp[r], loc[r])
      BY <1>1, <2>1, MoveFacts DEF Label, Status
    <2>3. TypeOK' /\ MapsShrink
      BY <1>1, <1>2, <1>3, <2>2 DEF TypeOK, MapsShrink, Moved
    <2>4. Phase'
      BY <1>1, <1>2, <2>2, Kinds DEF IInv, Phase, CallbackLabel, Moved
    <2>5. OverStaysOver /\ Quiet
      BY <1>1, <2>2, Kinds DEF OverStaysOver, Quiet, Moved
    <2>. QED  BY <1>2, <1>3, <2>3, <2>4, <2>5, QuietPreserves
  <1>5. CASE /\ ExchangeAccepted(r)
             /\ loc' = [loc EXCEPT ![r].user = grant[g].user]
             /\ Goto(r, "session_lock")
             /\ UNCHANGED resp
    <2>. DEFINE m == [loc[r] EXCEPT !.user = grant[g].user]
    <2>1. m \in Local /\ m.now = loc[r].now /\ m.claimed = loc[r].claimed /\ m.user = grant[g].user
      BY <1>1 DEF Local
    <2>2. Move(r, "session_lock", "none", inp[r], m)
      BY <1>1, <1>2, <1>5 DEF Goto, Move, TypeOK
    <2>3. g = loc[r].claimed
      BY <1>5 DEF ExchangeAccepted
    <2>. HIDE DEF m
    <2>4. Moved(r, "session_lock", "none", inp[r], m)
      BY <1>1, <2>1, <2>2, MoveFacts DEF Label, Status
    <2>5. TypeOK'
      BY <1>1, <1>2, <1>3, <2>4 DEF TypeOK, Moved
    <2>6. Phase'
      BY <1>1, <1>2, <2>1, <2>4, Kinds DEF IInv, Phase, CallbackLabel, Moved
    <2>7. ContextStaysHome'
      BY <1>1, <1>2, <2>4, Kinds, StateTypes DEF IInv, ContextStaysHome, Moved
    <2>8. ClaimedForGood' /\ OneExchangePerLogin'
      BY <1>1, <1>2, <2>1, <2>4, Kinds, StateTypes
         DEF IInv, ClaimedForGood, OneExchangePerLogin, Moved
    <2>9. Authenticated'
      BY <1>1, <1>3, <2>1, <2>3, <2>4, Kinds, StateTypes
         DEF IInv, Authenticated, Moved, GrantsKept
    <2>10. OwnRecord' /\ GoneForGood'
      BY <1>1, <1>2, <2>4, Kinds, StateTypes DEF IInv, OwnRecord, GoneForGood, Moved
    <2>11. CookieWasSent' /\ MeAnswered'
      BY <1>1, <1>2, <2>4, Kinds, StateTypes DEF IInv, CookieWasSent, MeAnswered, Moved
    <2>. QED  BY <2>5, <2>6, <2>7, <2>8, <2>9, <2>10, <2>11 DEF IInv
  <1>. QED  BY <1>4, <1>5 DEF ExchangeHandoff

\* A session is made for the person the callback was told about, and counts
\* from the clock reading taken under the mutex.
LEMMA SessionLockPreserves ==
    ASSUME IInv, NEW r \in Callback, SessionLock(r)
    PROVE  IInv'
  <1>1. /\ r \in Request /\ TypeOK /\ pc[r] = "session_lock" /\ resp[r] = "none"
        /\ inp[r] \in Input /\ loc[r] \in Local /\ now \in Nat
        /\ loc[r].user \in User /\ loc[r].claimed \in Login
        /\ now + LocalSessionTTL \in Nat
    BY Kinds, RequestTypes, BoundAssumption DEF SessionLock, IInv, Phase, TypeOK
  <1>. DEFINE kept == RetainedSessions(now)
              m == [loc[r] EXCEPT !.now = now]
  <1>2. /\ kept \in [Callback -> LocalSession \cup {None}]
        /\ login_starts' \in [Login -> Nat \cup {None}]
        /\ \A c \in Callback : kept[c] = local_sessions[c] \/ kept[c] = None
        /\ \A l \in Login : login_starts'[l] = login_starts[l] \/ login_starts'[l] = None
    BY <1>1, RetainedShrinks DEF SessionLock
  <1>3. UNCHANGED <<now, grant, jar, inp>> /\ loc' = [loc EXCEPT ![r] = m]
    BY DEF SessionLock
  <1>4. m \in Local /\ m.now = now /\ m.claimed = loc[r].claimed /\ m.user = loc[r].user
    BY <1>1 DEF Local
  <1>. HIDE DEF m
  <1>5. CASE local_sessions' = kept /\ Send(r, "503")
    <2>1. Move(r, "reply", "503", inp[r], m)
      BY <1>1, <1>3, <1>5 DEF Send, Goto, Move, TypeOK
    <2>2. Moved(r, "reply", "503", inp[r], m)
      BY <1>1, <1>4, <2>1, MoveFacts DEF Label, Status
    <2>. HIDE DEF kept
    <2>3. TypeOK' /\ MapsShrink /\ GrantsKept
      BY <1>1, <1>2, <1>3, <1>5, <2>2 DEF TypeOK, MapsShrink, GrantsKept, Moved
    <2>4. Phase'
      BY <1>1, <1>3, <1>4, <2>2, Kinds DEF IInv, Phase, CallbackLabel, Moved
    <2>5. OverStaysOver /\ Quiet
      BY <1>1, <1>4, <2>2, Kinds DEF OverStaysOver, Quiet, Moved
    <2>. QED  BY <1>3, <2>3, <2>4, <2>5, QuietPreserves
  <1>6. CASE /\ local_sessions' = [kept EXCEPT ![r] = [user |-> loc[r].user,
                                                      expires |-> now + LocalSessionTTL]]
             /\ Send(r, "302")
    <2>. DEFINE record == [user |-> loc[r].user, expires |-> now + LocalSessionTTL]
    <2>1. Move(r, "reply", "302", inp[r], m)
      BY <1>1, <1>3, <1>6 DEF Send, Goto, Move, TypeOK
    <2>2. Moved(r, "reply", "302", inp[r], m)
      BY <1>1, <1>4, <2>1, MoveFacts DEF Label, Status
    <2>3. record \in LocalSession /\ record.user = m.user
          /\ record.expires = m.now + LocalSessionTTL
      BY <1>1, <1>4 DEF LocalSession
    <2>. HIDE DEF kept, record
    <2>4. /\ local_sessions' \in [Callback -> LocalSession \cup {None}]
          /\ local_sessions'[r] = record
          /\ \A c \in Callback : c # r =>
                local_sessions'[c] = local_sessions[c] \/ local_sessions'[c] = None
      BY <1>2, <1>6, <2>3 DEF record
    <2>5. TypeOK'
      BY <1>1, <1>2, <1>3, <2>2, <2>4 DEF TypeOK, Moved
    <2>6. Phase'
      BY <1>1, <1>3, <1>4, <2>2, Kinds DEF IInv, Phase, CallbackLabel, Moved
    <2>7. ContextStaysHome'
      BY <1>1, <1>3, <2>2, Kinds, StateTypes DEF IInv, ContextStaysHome, Moved
    <2>8. ClaimedForGood' /\ OneExchangePerLogin' /\ Authenticated'
      BY <1>1, <1>2, <1>3, <1>4, <2>2, Kinds, StateTypes
         DEF IInv, ClaimedForGood, OneExchangePerLogin, Authenticated, Moved
    <2>9. OwnRecord'
      BY <1>1, <2>2, <2>3, <2>4, Kinds, StateTypes DEF IInv, OwnRecord, Moved
    <2>10. GoneForGood'
      BY <1>1, <2>2, <2>4, Kinds, StateTypes DEF IInv, GoneForGood, Moved
    <2>11. CookieWasSent' /\ MeAnswered'
      BY <1>1, <1>3, <2>2, Kinds, StateTypes DEF IInv, CookieWasSent, MeAnswered, Moved
    <2>. QED  BY <2>5, <2>6, <2>7, <2>8, <2>9, <2>10, <2>11 DEF IInv
  <1>. QED  BY <1>5, <1>6 DEF SessionLock

\* Looking a session up removes it at most.
LEMMA AfterGetShrinks ==
    ASSUME TypeOK, NEW c \in Callback \cup {None}, NEW t
    PROVE  /\ AfterGet(c, t) \in [Callback -> LocalSession \cup {None}]
           /\ \A d \in Callback :
                 AfterGet(c, t)[d] = local_sessions[d] \/ AfterGet(c, t)[d] = None
  BY Kinds DEF TypeOK, AfterGet

\* A session that answers /api/me has the browser's cookie for it and a
\* record that is alive now.
LEMMA GetMePreserves ==
    ASSUME IInv, NEW r \in Me, GetMe(r)
    PROVE  IInv'
  <1>1. r \in Request /\ TypeOK /\ pc[r] = "idle" /\ resp[r] = "none"
        /\ inp[r] = NoInput /\ loc[r] = NoLocal /\ now \in Nat
        /\ inp[r] \in Input /\ loc[r] \in Local
    BY Kinds DEF GetMe, IInv, Phase, TypeOK
  <1>2. UNCHANGED <<now, login_starts, grant, jar>>
    BY DEF GetMe
  <1>3. PICK b \in Browser :
          LET c == jar[b].session IN
          /\ local_sessions' = AfterGet(c, now)
          /\ \/ /\ LiveSession(c, now)
                /\ inp' = [inp EXCEPT ![r].browser = b, ![r].session = c]
                /\ loc' = [loc EXCEPT ![r].now = now, ![r].user = local_sessions[c].user]
                /\ Respond(r, "200")
             \/ /\ Respond(r, "401")
                /\ UNCHANGED <<inp, loc>>
    BY DEF GetMe
  <1>. DEFINE c == jar[b].session
  <1>4. c \in Callback \cup {None}
    BY <1>1, StateTypes
  <1>5. MapsShrink /\ GrantsKept
    BY <1>1, <1>2, <1>3, <1>4, AfterGetShrinks DEF MapsShrink, GrantsKept, TypeOK
  <1>6. CASE Respond(r, "401") /\ UNCHANGED <<inp, loc>>
    <2>1. Move(r, "done", "401", inp[r], loc[r])
      BY <1>1, <1>6 DEF Respond, Goto, Move, TypeOK
    <2>2. Moved(r, "done", "401", inp[r], loc[r])
      BY <1>1, <2>1, MoveFacts DEF Label, Status
    <2>3. TypeOK'
      BY <1>1, <1>2, <1>5, <2>2 DEF TypeOK, MapsShrink, Moved
    <2>4. Phase'
      BY <1>1, <1>2, <2>2, Kinds DEF IInv, Phase, Moved
    <2>5. OverStaysOver /\ Quiet
      BY <1>1, <2>2, Kinds DEF OverStaysOver, Quiet, Moved
    <2>. QED  BY <1>2, <1>5, <2>3, <2>4, <2>5, QuietPreserves
  <1>7. CASE /\ LiveSession(c, now)
             /\ inp' = [inp EXCEPT ![r].browser = b, ![r].session = c]
             /\ loc' = [loc EXCEPT ![r].now = now, ![r].user = local_sessions[c].user]
             /\ Respond(r, "200")
    <2>. DEFINE i == [[inp[r] EXCEPT !.browser = b] EXCEPT !.session = c]
                m == [[loc[r] EXCEPT !.now = now] EXCEPT !.user = local_sessions[c].user]
    <2>1. /\ c \in Callback /\ local_sessions[c] # None
          /\ local_sessions[c].expires > now /\ local_sessions[c].user \in User
      BY <1>1, <1>4, <1>7 DEF LiveSession, TypeOK, LocalSession
    <2>2. i \in Input /\ i.browser = b /\ i.session = c
      BY <1>1, <2>1 DEF Input, NoInput
    <2>3. m \in Local /\ m.now = now /\ m.user = local_sessions[c].user
      BY <1>1, <2>1 DEF Local, NoLocal
    <2>4. Move(r, "done", "200", i, m)
      BY <1>1, <1>7 DEF Respond, Goto, Move, TypeOK
    <2>. HIDE DEF i, m, c
    <2>5. Moved(r, "done", "200", i, m)
      BY <1>1, <2>2, <2>3, <2>4, MoveFacts DEF Label, Status
    <2>6. TypeOK'
      BY <1>1, <1>2, <1>5, <2>5 DEF TypeOK, MapsShrink, Moved
    <2>7. Phase'
      BY <1>1, <1>2, <2>3, <2>5, Kinds DEF IInv, Phase, Moved
    <2>8. ContextStaysHome' /\ CookieWasSent'
      BY <1>1, <1>2, <2>5, Kinds, StateTypes DEF IInv, ContextStaysHome, CookieWasSent, Moved
    <2>9. ClaimedForGood' /\ OneExchangePerLogin' /\ Authenticated'
      BY <1>1, <1>2, <2>5, Kinds, StateTypes
         DEF IInv, ClaimedForGood, OneExchangePerLogin, Authenticated, Moved
    <2>10. OwnRecord' /\ GoneForGood'
      BY <1>1, <1>5, <2>5, Kinds, StateTypes DEF IInv, OwnRecord, GoneForGood, Moved, MapsShrink
    <2>11. MeAnswered'
      <3>1. pc[c] = "done" /\ resp[c] = "302" /\ inp[c].browser = b
        BY <2>1, Kinds DEF IInv, CookieWasSent, c
      <3>2. m.user = loc[c].user /\ m.now < loc[c].now + LocalSessionTTL
        BY <2>1, <2>3 DEF IInv, OwnRecord
      <3>. QED  BY <1>1, <2>1, <2>2, <2>5, <3>1, <3>2, Kinds DEF IInv, MeAnswered, Moved
    <2>. QED  BY <2>6, <2>7, <2>8, <2>9, <2>10, <2>11 DEF IInv
  <1>. QED  BY <1>3, <1>6, <1>7

\* A logout takes a session that its browser holds the cookie of.
LEMMA LogoutLockPreserves ==
    ASSUME IInv, NEW r \in Logout, LogoutLock(r)
    PROVE  IInv'
  <1>1. r \in Request /\ TypeOK /\ pc[r] = "idle" /\ resp[r] = "none"
        /\ inp[r] = NoInput /\ inp[r] \in Input /\ loc[r] \in Local
    BY Kinds DEF LogoutLock, IInv, Phase, TypeOK
  <1>2. UNCHANGED <<now, login_starts, grant, jar, loc>>
    BY DEF LogoutLock
  <1>3. PICK b \in Browser, header \in {"absent", "other", "own"} :
          LET c == jar[b].session IN
          \/ /\ LiveSession(c, now)
             /\ local_sessions' = [local_sessions EXCEPT ![c] = None]
             /\ inp' = [inp EXCEPT ![r].browser = b, ![r].session = c]
             /\ Send(r, "204")
          \/ /\ local_sessions' = IF header = "absent" THEN local_sessions ELSE AfterGet(c, now)
             /\ Respond(r, "403")
             /\ UNCHANGED inp
    BY DEF LogoutLock
  <1>. DEFINE c == jar[b].session
  <1>4. c \in Callback \cup {None}
    BY <1>1, StateTypes
  <1>5. CASE /\ local_sessions' = IF header = "absent" THEN local_sessions ELSE AfterGet(c, now)
             /\ Respond(r, "403")
             /\ UNCHANGED inp
    <2>1. Move(r, "done", "403", inp[r], loc[r])
      BY <1>1, <1>2, <1>5 DEF Respond, Goto, Move, TypeOK
    <2>2. Moved(r, "done", "403", inp[r], loc[r])
      BY <1>1, <2>1, MoveFacts DEF Label, Status
    <2>3. MapsShrink /\ GrantsKept
      BY <1>1, <1>2, <1>4, <1>5, AfterGetShrinks DEF MapsShrink, GrantsKept, TypeOK
    <2>4. TypeOK'
      BY <1>1, <1>2, <2>2, <2>3 DEF TypeOK, MapsShrink, Moved
    <2>5. Phase'
      BY <1>1, <1>2, <2>2, Kinds DEF IInv, Phase, Moved
    <2>6. OverStaysOver /\ Quiet
      BY <1>1, <2>2, Kinds DEF OverStaysOver, Quiet, Moved
    <2>. QED  BY <1>2, <2>3, <2>4, <2>5, <2>6, QuietPreserves
  <1>6. CASE /\ LiveSession(c, now)
             /\ local_sessions' = [local_sessions EXCEPT ![c] = None]
             /\ inp' = [inp EXCEPT ![r].browser = b, ![r].session = c]
             /\ Send(r, "204")
    <2>. DEFINE i == [[inp[r] EXCEPT !.browser = b] EXCEPT !.session = c]
    <2>1. c \in Callback
      BY <1>4, <1>6 DEF LiveSession
    <2>2. i \in Input /\ i.browser = b /\ i.session = c
      BY <1>1, <2>1 DEF Input, NoInput
    <2>3. Move(r, "reply", "204", i, loc[r])
      BY <1>1, <1>2, <1>6 DEF Send, Goto, Move, TypeOK
    <2>4. /\ local_sessions' \in [Callback -> LocalSession \cup {None}]
          /\ local_sessions'[c] = None
          /\ \A d \in Callback : local_sessions'[d] = local_sessions[d] \/ local_sessions'[d] = None
      BY <1>1, <1>6, <2>1 DEF TypeOK
    <2>. HIDE DEF i, c
    <2>5. Moved(r, "reply", "204", i, loc[r])
      BY <1>1, <2>2, <2>3, MoveFacts DEF Label, Status
    <2>6. TypeOK'
      BY <1>1, <1>2, <2>4, <2>5 DEF TypeOK, Moved
    <2>7. Phase'
      BY <1>1, <1>2, <2>2, <2>5, Kinds DEF IInv, Phase, Moved
    <2>8. ContextStaysHome' /\ CookieWasSent'
      BY <1>1, <1>2, <2>5, Kinds, StateTypes DEF IInv, ContextStaysHome, CookieWasSent, Moved
    <2>9. ClaimedForGood' /\ OneExchangePerLogin' /\ Authenticated'
      BY <1>1, <1>2, <2>5, Kinds, StateTypes
         DEF IInv, ClaimedForGood, OneExchangePerLogin, Authenticated, Moved
    <2>10. OwnRecord' /\ MeAnswered'
      BY <1>1, <2>4, <2>5, Kinds, StateTypes DEF IInv, OwnRecord, MeAnswered, Moved
    <2>11. GoneForGood'
      <3>1. pc[c] = "done"
        BY <2>1, Kinds DEF IInv, CookieWasSent, c
      <3>. QED  BY <1>1, <2>1, <2>2, <2>4, <2>5, <3>1, Kinds, StateTypes
                DEF IInv, GoneForGood, Moved
    <2>. QED  BY <2>6, <2>7, <2>8, <2>9, <2>10, <2>11 DEF IInv
  <1>. QED  BY <1>3, <1>5, <1>6

\* A response sets the cookies of the browser that sent the request.
LEMMA DeliverPreserves ==
    ASSUME IInv, NEW r \in Request, Deliver(r)
    PROVE  IInv'
  <1>. DEFINE b == inp[r].browser
              new == SetCookies(r)
  <1>1. /\ TypeOK /\ pc[r] = "reply" /\ resp[r] \in Status
        /\ inp[r] \in Input /\ loc[r] \in Local /\ b \in Browser
    BY RequestTypes DEF Deliver, IInv, Phase
  <1>2. UNCHANGED <<now, login_starts, local_sessions, grant, inp, loc, resp>>
    BY DEF Deliver
  <1>3. jar[b] \in Jar
    BY <1>1 DEF TypeOK
  <1>4. /\ new \in Jar
        /\ \/ new.ctx \in {None, jar[b].ctx}
           \/ new.ctx = r /\ r \in Login
        /\ \/ new.session \in {None, jar[b].session}
           \/ new.session = r /\ r \in Callback /\ resp[r] = "302"
    <2>1. CASE r \in Login
      BY <1>3, <2>1 DEF SetCookies, Jar
    <2>2. CASE r \in Logout
      BY <1>3, <2>2, Kinds DEF SetCookies, Jar
    <2>3. CASE r \in Callback
      BY <1>3, <2>3, Kinds DEF SetCookies, Jar
    <2>4. CASE r \in Me
      BY <1>1, <2>4 DEF IInv, Phase
    <2>. QED  BY <2>1, <2>2, <2>3, <2>4, Kinds
  <1>5. jar' = [jar EXCEPT ![b] = new] /\ pc' = [pc EXCEPT ![r] = "done"]
    BY DEF Deliver, Goto
  <1>. HIDE DEF b, new
  <1>6. /\ jar' \in [Browser -> Jar] /\ jar'[b] = new
        /\ \A a \in Browser : a # b => jar'[a] = jar[a]
        /\ pc' \in [Request -> Label] /\ pc'[r] = "done"
        /\ \A q \in Request : q # r => pc'[q] = pc[q]
    BY <1>1, <1>4, <1>5 DEF TypeOK, Label
  <1>7. TypeOK'
    BY <1>1, <1>2, <1>6 DEF TypeOK
  <1>8. Phase'
    BY <1>1, <1>2, <1>6, Kinds DEF IInv, Phase, LoginLabel, CallbackLabel
  <1>9. ContextStaysHome'
    BY <1>1, <1>2, <1>4, <1>6, Kinds, StateTypes DEF IInv, ContextStaysHome, b
  <1>10. CookieWasSent'
    BY <1>1, <1>2, <1>4, <1>6, Kinds, StateTypes DEF IInv, CookieWasSent, b
  <1>11. ClaimedForGood' /\ OneExchangePerLogin' /\ Authenticated'
    BY <1>1, <1>2, <1>6, Kinds, StateTypes
       DEF IInv, ClaimedForGood, OneExchangePerLogin, Authenticated
  <1>12. OwnRecord' /\ MeAnswered' /\ GoneForGood'
    BY <1>1, <1>2, <1>6, Kinds, StateTypes DEF IInv, OwnRecord, MeAnswered, GoneForGood
  <1>. QED  BY <1>7, <1>8, <1>9, <1>10, <1>11, <1>12 DEF IInv

\* A lost request or response leaves everything else as it is.
LEMMA LosePreserves ==
    ASSUME IInv, NEW r \in Request, Lose(r)
    PROVE  IInv'
  <1>1. TypeOK /\ pc[r] \notin {"idle", "done"} /\ inp[r] \in Input /\ loc[r] \in Local
    BY RequestTypes DEF Lose, IInv
  <1>2. UNCHANGED <<now, login_starts, local_sessions, grant, jar, inp, loc>>
    BY DEF Lose
  <1>3. Move(r, "done", "lost", inp[r], loc[r])
    BY <1>1, <1>2 DEF Lose, Respond, Goto, Move, TypeOK
  <1>4. Moved(r, "done", "lost", inp[r], loc[r])
    BY <1>1, <1>3, MoveFacts DEF Label, Status
  <1>5. TypeOK' /\ MapsShrink /\ GrantsKept
    BY <1>1, <1>2, <1>4 DEF TypeOK, MapsShrink, GrantsKept, Moved
  <1>6. Phase'
    BY <1>1, <1>2, <1>4, Kinds DEF IInv, Phase, LoginLabel, CallbackLabel, Moved
  <1>7. OverStaysOver /\ Quiet
    BY <1>1, <1>4, Kinds DEF OverStaysOver, Quiet, Moved
  <1>. QED  BY <1>2, <1>5, <1>6, <1>7, QuietPreserves

\* Neither the cleanup task, nor a restart, nor the outside world.
LEMMA EnvironmentPreserves ==
    ASSUME IInv,
           \/ CleanupExpired \/ Restart \/ Tick
           \/ \E l \in Login, u \in User : IssueCode(l, u)
    PROVE  IInv'
  <1>. TypeOK /\ Phase
    BY DEF IInv
  <1>1. CASE CleanupExpired
    <2>1. TypeOK' /\ MapsShrink
      BY <1>1, RetainedShrinks DEF CleanupExpired, TypeOK, MapsShrink
    <2>2. Phase' /\ GrantsKept /\ OverStaysOver /\ Quiet
      BY <1>1, Kinds DEF CleanupExpired, Phase, GrantsKept, OverStaysOver, Quiet
    <2>. QED  BY <1>1, <2>1, <2>2, QuietPreserves DEF CleanupExpired
  <1>2. CASE Restart
    <2>1. TypeOK' /\ MapsShrink
      BY <1>2 DEF Restart, TypeOK, MapsShrink, Label, Status
    <2>2. Phase'
      BY <1>2, Kinds DEF Restart, Phase, LoginLabel, CallbackLabel, TypeOK
    <2>3. GrantsKept /\ OverStaysOver /\ Quiet
      BY <1>2, Kinds DEF Restart, GrantsKept, OverStaysOver, Quiet, TypeOK
    <2>. QED  BY <1>2, <2>1, <2>2, <2>3, QuietPreserves DEF Restart
  <1>3. CASE Tick
    <2>1. TypeOK' /\ MapsShrink
      BY <1>3, BoundAssumption DEF Tick, TypeOK, MapsShrink
    <2>2. Phase'
      BY <1>3, Kinds, StateTypes DEF Tick, Phase, TypeOK
    <2>3. GrantsKept /\ OverStaysOver /\ Quiet
      BY <1>3, Kinds DEF Tick, GrantsKept, OverStaysOver, Quiet
    <2>. QED  BY <1>3, <2>1, <2>2, <2>3, QuietPreserves DEF Tick
  <1>4. ASSUME NEW l \in Login, NEW u \in User, IssueCode(l, u)
        PROVE  IInv'
    <2>. DEFINE new == [user |-> u, used |-> FALSE]
    <2>1. new \in Grant
      BY DEF Grant
    <2>2. grant' = [grant EXCEPT ![l] = new] /\ grant[l] = None
      BY <1>4 DEF IssueCode
    <2>. HIDE DEF new
    <2>3. TypeOK' /\ MapsShrink
      BY <1>4, <2>1, <2>2 DEF IssueCode, TypeOK, MapsShrink
    <2>4. Phase' /\ OverStaysOver /\ Quiet
      BY <1>4, Kinds DEF IssueCode, Phase, OverStaysOver, Quiet
    <2>5. GrantsKept
      BY <2>2 DEF GrantsKept, TypeOK
    <2>. QED  BY <1>4, <2>3, <2>4, <2>5, QuietPreserves DEF IssueCode
  <1>. QED  BY <1>1, <1>2, <1>3, <1>4
-----------------------------------------------------------------------------
\* IInv holds in every reachable state of the portal backend: every await of
\* every handler, every response on its way and every restart included.
THEOREM Invariance == Spec => []IInv
  <1>1. Init => IInv
    <2>. SUFFICES ASSUME Init PROVE IInv
      OBVIOUS
    <2>1. NoInput \in Input /\ NoLocal \in Local
      BY DEF NoInput, Input, NoLocal, Local
    <2>2. /\ NoInput.state = None /\ NoInput.ctx = None /\ NoInput.code = None
          /\ NoInput.session = None
          /\ NoLocal.claimed = None /\ NoLocal.user = None /\ NoLocal.now = 0
      BY DEF NoInput, NoLocal
    <2>3. TypeOK
      BY <2>1 DEF Init, TypeOK, Jar, Label, Status
    <2>4. Phase
      BY <2>2, Kinds DEF Init, Phase, LoginLabel, CallbackLabel
    <2>5. ContextStaysHome /\ ClaimedForGood /\ Authenticated /\ OneExchangePerLogin
      BY <2>2, Kinds
         DEF Init, ContextStaysHome, ClaimedForGood, Authenticated, OneExchangePerLogin
    <2>6. OwnRecord /\ CookieWasSent /\ MeAnswered /\ GoneForGood
      BY <2>2, Kinds DEF Init, OwnRecord, CookieWasSent, MeAnswered, GoneForGood
    <2>. QED  BY <2>3, <2>4, <2>5, <2>6 DEF IInv
  <1>2. IInv /\ [Next]_vars => IInv'
    <2>. SUFFICES ASSUME IInv, [Next]_vars PROVE IInv'
      OBVIOUS
    <2>1. CASE \E r \in Login : LoginArrive(r) \/ LoginLock(r)
      BY <2>1, LoginArrivePreserves, LoginLockPreserves
    <2>2. CASE \E r \in Callback : CallbackArrive(r) \/ CallbackStep(r)
      BY <2>2, CallbackArrivePreserves, ClaimLockPreserves, ExchangeHandoffPreserves,
         SessionLockPreserves DEF CallbackStep
    <2>3. CASE \E r \in Me : GetMe(r)
      BY <2>3, GetMePreserves
    <2>4. CASE \E r \in Logout : LogoutLock(r)
      BY <2>4, LogoutLockPreserves
    <2>5. CASE \E r \in Request : Deliver(r) \/ Lose(r)
      BY <2>5, DeliverPreserves, LosePreserves
    <2>6. CASE \/ CleanupExpired \/ Restart \/ Tick
               \/ \E l \in Login, u \in User : IssueCode(l, u)
      BY <2>6, EnvironmentPreserves
    <2>7. CASE UNCHANGED vars
      BY <2>7 DEF vars, IInv, TypeOK, Phase, ContextStaysHome, ClaimedForGood, Authenticated,
                  OwnRecord, CookieWasSent, MeAnswered, GoneForGood, OneExchangePerLogin
    <2>. QED  BY <2>1, <2>2, <2>3, <2>4, <2>5, <2>6, <2>7 DEF Next
  <1>. QED  BY <1>1, <1>2, PTL DEF Spec

\* Every variable keeps its type, for any constants.
THEOREM TypeCorrect == Spec => []TypeOK
  BY Invariance, PTL DEF IInv

\* However many callbacks race for a LoginStart, one of them at most gets to
\* send the exchange for it.
THEOREM LoginsAreExchangedOnce == Spec => []OneExchangePerLogin
  BY Invariance, PTL DEF IInv

\* Whatever links are followed in whatever browser, and however the cookies of
\* several tabs interleave, a browser holds and uses only sessions of logins
\* it started itself, for the person authenticated there.
THEOREM BrowsersGetTheirOwnLogin == Spec => []BrowserGetsItsOwnLogin
  <1>1. IInv => BrowserGetsItsOwnLogin
    <2>. SUFFICES ASSUME IInv PROVE BrowserGetsItsOwnLogin
      OBVIOUS
    <2>1. TypeOK
      BY DEF IInv
    <2>2. \A c \in Callback : resp[c] = "302" =>
             /\ loc[c].claimed \in Login
             /\ inp[loc[c].claimed].browser = inp[c].browser
             /\ loc[c].user = grant[loc[c].claimed].user
      <3>. SUFFICES ASSUME NEW c \in Callback, resp[c] = "302"
                    PROVE  /\ loc[c].claimed \in Login
                           /\ inp[loc[c].claimed].browser = inp[c].browser
                           /\ loc[c].user = grant[loc[c].claimed].user
        OBVIOUS
      <3>1. loc[c].claimed \in Login /\ loc[c].user \in User
        BY DEF IInv, Phase
      <3>2. loc[c].claimed = inp[c].ctx
        BY <3>1, Kinds DEF IInv, ClaimedForGood
      <3>3. inp[loc[c].claimed].browser = inp[c].browser
        BY <3>1, <3>2, Kinds DEF IInv, ContextStaysHome
      <3>. QED  BY <3>1, <3>3, Kinds DEF IInv, Authenticated
    <2>3. \A b \in Browser : jar[b].session # None =>
             /\ jar[b].session \in Callback
             /\ resp[jar[b].session] = "302" /\ inp[jar[b].session].browser = b
      BY <2>1, StateTypes DEF IInv, CookieWasSent
    <2>4. \A m \in Me : resp[m] = "200" =>
             /\ inp[m].session \in Callback
             /\ resp[inp[m].session] = "302"
             /\ inp[inp[m].session].browser = inp[m].browser
             /\ loc[m].user = loc[inp[m].session].user
      BY DEF IInv, MeAnswered
    <2>. QED  BY <2>2, <2>3, <2>4, Kinds DEF BrowserGetsItsOwnLogin
  <1>. QED  BY <1>1, Invariance, PTL

\* /api/me answers only within LocalSessionTTL of the callback's own reading
\* of the clock, however often it is asked.
THEOREM MeAnswersWithinLifetime == Spec => []MeWithinLifetime
  <1>1. IInv => MeWithinLifetime
    BY DEF IInv, MeAnswered, MeWithinLifetime
  <1>. QED  BY <1>1, Invariance, PTL
-----------------------------------------------------------------------------
\* A map that only lost records has no more of them.
LEMMA FewerRecords ==
    ASSUME NEW D, IsFiniteSet(D), NEW V, NEW f \in [D -> V], NEW g \in [D -> V],
           \A k \in D : f[k] = g[k] \/ f[k] = None
    PROVE  /\ Cardinality(Records(f)) \in Nat /\ Cardinality(Records(g)) \in Nat
           /\ Cardinality(Records(f)) <= Cardinality(Records(g))
  <1>1. Records(g) \in SUBSET D /\ Records(f) \in SUBSET Records(g)
    BY DEF Records
  <1>2. IsFiniteSet(Records(g))
    BY <1>1, FS_Subset
  <1>3. IsFiniteSet(Records(f)) /\ Cardinality(Records(f)) <= Cardinality(Records(g))
    BY <1>1, <1>2, FS_Subset
  <1>. QED  BY <1>2, <1>3, FS_CardinalityType

\* An insertion adds one record at most.
LEMMA OneMoreRecord ==
    ASSUME NEW D, IsFiniteSet(D), NEW V, NEW g \in [D -> V], NEW k \in D, NEW v \in V
    PROVE  Cardinality(Records([g EXCEPT ![k] = v])) <= Cardinality(Records(g)) + 1
  <1>. DEFINE S == Records(g)
              T == Records([g EXCEPT ![k] = v])
  <1>1. S \in SUBSET D /\ T \in SUBSET (S \cup {k})
    BY DEF Records
  <1>2. IsFiniteSet(S)
    BY <1>1, FS_Subset
  <1>. HIDE DEF S, T
  <1>3. IsFiniteSet(S \cup {k}) /\ Cardinality(S \cup {k}) <= Cardinality(S) + 1
    <2>1. Cardinality(S) \in Nat
      BY <1>2, FS_CardinalityType
    <2>2. /\ IsFiniteSet(S \cup {k})
          /\ Cardinality(S \cup {k}) = IF k \in S THEN Cardinality(S) ELSE Cardinality(S) + 1
      BY <1>2, FS_AddElement
    <2>. QED  BY <2>1, <2>2
  <1>4. IsFiniteSet(T) /\ Cardinality(T) <= Cardinality(S \cup {k})
    BY <1>1, <1>3, FS_Subset
  <1>5. Cardinality(S) \in Nat /\ Cardinality(T) \in Nat /\ Cardinality(S \cup {k}) \in Nat
    BY <1>2, <1>3, <1>4, FS_CardinalityType
  <1>6. Cardinality(T) <= Cardinality(S) + 1
    BY <1>3, <1>4, <1>5
  <1>. QED  BY <1>6 DEF S, T

\* Outside LoginLock and SessionLock the maps only lose records.
LEMMA OnlyLocksInsert ==
    ASSUME IInv, Next
    PROVE  \/ MapsShrink
           \/ \E r \in Login : LoginLock(r)
           \/ \E r \in Callback : SessionLock(r)
  <1>1. TypeOK
    BY DEF IInv
  <1>2. ASSUME UNCHANGED <<login_starts, local_sessions>> PROVE MapsShrink
    BY <1>1, <1>2 DEF TypeOK, MapsShrink
  <1>3. ASSUME NEW r \in Login, LoginArrive(r) PROVE MapsShrink
    BY <1>2, <1>3 DEF LoginArrive
  <1>4. ASSUME NEW r \in Callback, CallbackArrive(r) \/ ExchangeHandoff(r) PROVE MapsShrink
    BY <1>2, <1>4 DEF CallbackArrive, ExchangeHandoff
  <1>5. ASSUME NEW r \in Callback, ClaimLock(r) PROVE MapsShrink
    BY <1>1, <1>5 DEF ClaimLock, TypeOK, MapsShrink
  <1>6. ASSUME NEW r \in Me, GetMe(r) PROVE MapsShrink
    <2>1. PICK b \in Browser : local_sessions' = AfterGet(jar[b].session, now)
      BY <1>6 DEF GetMe
    <2>. QED  BY <1>1, <1>6, <2>1, AfterGetShrinks, StateTypes DEF GetMe, TypeOK, MapsShrink
  <1>7. ASSUME NEW r \in Logout, LogoutLock(r) PROVE MapsShrink
    <2>1. PICK b \in Browser :
             local_sessions' \in {local_sessions, AfterGet(jar[b].session, now),
                                  [local_sessions EXCEPT ![jar[b].session] = None]}
      BY <1>7 DEF LogoutLock
    <2>2. UNCHANGED login_starts
      BY <1>7 DEF LogoutLock
    <2>3. jar[b].session \in Callback \cup {None}
      BY <1>1, StateTypes
    <2>. QED  BY <1>1, <2>1, <2>2, <2>3, AfterGetShrinks DEF TypeOK, MapsShrink
  <1>8. ASSUME NEW r \in Request, Deliver(r) \/ Lose(r) PROVE MapsShrink
    BY <1>2, <1>8 DEF Deliver, Lose
  <1>9. ASSUME NEW l \in Login, NEW u \in User, IssueCode(l, u) PROVE MapsShrink
    BY <1>2, <1>9 DEF IssueCode
  <1>10. ASSUME CleanupExpired PROVE MapsShrink
    BY <1>1, <1>10, RetainedShrinks DEF CleanupExpired, MapsShrink
  <1>11. ASSUME Restart PROVE MapsShrink
    BY <1>11 DEF Restart, MapsShrink
  <1>12. ASSUME Tick PROVE MapsShrink
    BY <1>2, <1>12 DEF Tick
  <1>. QED  BY <1>3, <1>4, <1>5, <1>6, <1>7, <1>8, <1>9, <1>10, <1>11, <1>12
            DEF Next, CallbackStep

\* The maps stay within their capacities, for any capacity and any load.
THEOREM CapacityIsRespected == Spec => []CapacityRespected
  <1>1. Init => CapacityRespected
    <2>. SUFFICES ASSUME Init PROVE CapacityRespected
      OBVIOUS
    <2>1. Records(login_starts) = {} /\ Records(local_sessions) = {}
      BY DEF Init, Records
    <2>. QED  BY <2>1, FS_EmptySet, BoundAssumption DEF CapacityRespected
  <1>2. IInv /\ CapacityRespected /\ [Next]_vars => CapacityRespected'
    <2>. SUFFICES ASSUME IInv, CapacityRespected, [Next]_vars PROVE CapacityRespected'
      OBVIOUS
    <2>1. TypeOK /\ IsFiniteSet(Login) /\ IsFiniteSet(Callback)
      BY RequestAssumption DEF IInv
    <2>2. ASSUME login_starts' \in [Login -> Nat \cup {None}],
                 \A l \in Login : login_starts'[l] = login_starts[l] \/ login_starts'[l] = None
          PROVE  Cardinality(Records(login_starts')) <= LoginStartCapacity
      <3>1. login_starts \in [Login -> Nat \cup {None}]
        BY <2>1 DEF TypeOK
      <3>2. /\ Cardinality(Records(login_starts')) \in Nat
            /\ Cardinality(Records(login_starts)) \in Nat
            /\ Cardinality(Records(login_starts')) <= Cardinality(Records(login_starts))
        BY <2>1, <2>2, <3>1, FewerRecords
      <3>. QED  BY <3>2, BoundAssumption DEF CapacityRespected
    <2>3. ASSUME local_sessions' \in [Callback -> LocalSession \cup {None}],
                 \A c \in Callback :
                    local_sessions'[c] = local_sessions[c] \/ local_sessions'[c] = None
          PROVE  Cardinality(Records(local_sessions')) <= LocalSessionCapacity
      <3>1. local_sessions \in [Callback -> LocalSession \cup {None}]
        BY <2>1 DEF TypeOK
      <3>2. /\ Cardinality(Records(local_sessions')) \in Nat
            /\ Cardinality(Records(local_sessions)) \in Nat
            /\ Cardinality(Records(local_sessions')) <= Cardinality(Records(local_sessions))
        BY <2>1, <2>3, <3>1, FewerRecords
      <3>. QED  BY <3>2, BoundAssumption DEF CapacityRespected
    <2>4. CASE MapsShrink
      BY <2>2, <2>3, <2>4 DEF MapsShrink, CapacityRespected
    <2>5. ASSUME NEW r \in Login, LoginLock(r) PROVE CapacityRespected'
      <3>. DEFINE kept == RetainedStarts(loc[r].now)
                  until == loc[r].now + LoginStartTTL
      <3>1. kept \in [Login -> Nat \cup {None}]
            /\ \A l \in Login : kept[l] = login_starts[l] \/ kept[l] = None
        BY <2>1, RetainedShrinks
      <3>2. Cardinality(Records(local_sessions')) <= LocalSessionCapacity
        BY <2>1, <2>3, <2>5, RetainedShrinks DEF LoginLock
      <3>3. until \in Nat \cup {None}
        BY <2>1, StateTypes, BoundAssumption, Kinds
      <3>4. CASE login_starts' = kept
        BY <2>2, <3>1, <3>2, <3>4 DEF CapacityRespected
      <3>5. CASE /\ Cardinality(Records(kept)) < LoginStartCapacity
                 /\ login_starts' = [kept EXCEPT ![r] = until]
        <4>. HIDE DEF kept, until
        <4>1. Cardinality(Records(kept)) \in Nat
          BY <2>1, <3>1, FewerRecords
        <4>2. Cardinality(Records([kept EXCEPT ![r] = until])) <= Cardinality(Records(kept)) + 1
          BY <2>1, <3>1, <3>3, OneMoreRecord
        <4>3. [kept EXCEPT ![r] = until] \in [Login -> Nat \cup {None}]
          BY <3>1, <3>3
        <4>4. Cardinality(Records([kept EXCEPT ![r] = until])) \in Nat
          BY <2>1, <4>3, FewerRecords
        <4>5. Cardinality(Records(login_starts')) <= LoginStartCapacity
          BY <3>5, <4>1, <4>2, <4>4, BoundAssumption
        <4>. QED  BY <3>2, <4>5 DEF CapacityRespected
      <3>. QED  BY <2>5, <3>4, <3>5 DEF LoginLock
    <2>6. ASSUME NEW r \in Callback, SessionLock(r) PROVE CapacityRespected'
      <3>. DEFINE kept == RetainedSessions(now)
                  record == [user |-> loc[r].user, expires |-> now + LocalSessionTTL]
      <3>1. kept \in [Callback -> LocalSession \cup {None}]
            /\ \A c \in Callback : kept[c] = local_sessions[c] \/ kept[c] = None
        BY <2>1, RetainedShrinks
      <3>2. Cardinality(Records(login_starts')) <= LoginStartCapacity
        BY <2>1, <2>2, <2>6, RetainedShrinks DEF SessionLock
      <3>3. record \in LocalSession \cup {None}
        BY <2>1, <2>6, BoundAssumption DEF SessionLock, IInv, Phase, TypeOK, LocalSession
      <3>4. CASE local_sessions' = kept
        BY <2>3, <3>1, <3>2, <3>4 DEF CapacityRespected
      <3>5. CASE /\ Cardinality(Records(kept)) < LocalSessionCapacity
                 /\ local_sessions' = [kept EXCEPT ![r] = record]
        <4>. HIDE DEF kept, record
        <4>1. Cardinality(Records(kept)) \in Nat
          BY <2>1, <3>1, FewerRecords
        <4>2. Cardinality(Records([kept EXCEPT ![r] = record])) <= Cardinality(Records(kept)) + 1
          BY <2>1, <3>1, <3>3, OneMoreRecord
        <4>3. [kept EXCEPT ![r] = record] \in [Callback -> LocalSession \cup {None}]
          BY <3>1, <3>3
        <4>4. Cardinality(Records([kept EXCEPT ![r] = record])) \in Nat
          BY <2>1, <4>3, FewerRecords
        <4>5. Cardinality(Records(local_sessions')) <= LocalSessionCapacity
          BY <3>5, <4>1, <4>2, <4>4, BoundAssumption
        <4>. QED  BY <3>2, <4>5 DEF CapacityRespected
      <3>. QED  BY <2>6, <3>4, <3>5 DEF SessionLock
    <2>7. CASE UNCHANGED vars
      BY <2>1, <2>2, <2>3, <2>7 DEF vars, TypeOK, CapacityRespected
    <2>. QED  BY <2>4, <2>5, <2>6, <2>7, OnlyLocksInsert
  <1>. QED  BY <1>1, <1>2, Invariance, PTL DEF Spec
-----------------------------------------------------------------------------
\* A cleanup, with whatever clock reading a handler took earlier, drops only
\* what has expired by now.
LEMMA CleanupDropsExpired ==
    ASSUME TypeOK, NEW t \in Nat, t <= now
    PROVE  /\ \A l \in Login : RetainedStarts(t)[l] # login_starts[l] => login_starts[l] <= now
           /\ \A c \in Callback :
                 RetainedSessions(t)[c] # local_sessions[c] => local_sessions[c].expires <= now
  BY DEF TypeOK, RetainedStarts, RetainedSessions, LocalSession

\* The same for a lookup.
LEMMA LookupDropsExpired ==
    ASSUME TypeOK, NEW d \in Callback \cup {None}
    PROVE  \A c \in Callback :
              AfterGet(d, now)[c] # local_sessions[c] => local_sessions[c].expires <= now
  BY DEF TypeOK, AfterGet

\* A step that is not a restart drops a LoginStart only when a callback claims
\* it or it has expired.
StartsKept ==
    \A l \in Login :
       login_starts[l] # None /\ login_starts'[l] # login_starts[l] =>
          login_starts[l] <= now \/ Claims(l)

\* And a LocalSession only when it is logged out or has expired.
SessionsKept ==
    \A c \in Callback :
       local_sessions[c] # None /\ local_sessions'[c] # local_sessions[c] =>
          local_sessions[c].expires <= now \/ LogsOut(c)

\* Every step but a restart is such a step.
LEMMA StepKeepsValidState ==
    ASSUME IInv, Next, ~Restart
    PROVE  StartsKept /\ SessionsKept
  <1>1. TypeOK /\ Phase
    BY DEF IInv
  <1>2. ASSUME UNCHANGED <<login_starts, local_sessions>> PROVE StartsKept /\ SessionsKept
    BY <1>2 DEF StartsKept, SessionsKept
  <1>3. ASSUME NEW r \in Login, LoginLock(r) PROVE StartsKept /\ SessionsKept
    <2>1. r \in Request /\ loc[r].now \in Nat /\ loc[r].now <= now /\ login_starts[r] = None
      BY <1>1, <1>3, Kinds, StateTypes DEF Phase, LoginLock, IInv, ClaimedForGood
    <2>2. \A l \in Login : l # r => login_starts'[l] = RetainedStarts(loc[r].now)[l]
      BY <1>1, <1>3, <2>1, RetainedShrinks DEF LoginLock
    <2>3. local_sessions' = RetainedSessions(loc[r].now)
      BY <1>3 DEF LoginLock
    <2>. QED  BY <1>1, <2>1, <2>2, <2>3, CleanupDropsExpired DEF StartsKept, SessionsKept
  <1>4. ASSUME NEW r \in Callback, ClaimLock(r) PROVE StartsKept /\ SessionsKept
    <2>. DEFINE l == inp[r].state
    <2>1. /\ r \in Request /\ l \in Login /\ loc[r].now \in Nat /\ loc[r].now <= now
          /\ loc[r].claimed = None /\ loc[r] \in Local /\ now \in Nat
      BY <1>1, <1>4, Kinds, StateTypes, RequestTypes DEF Phase, ClaimLock, TypeOK
    <2>2. UNCHANGED local_sessions
      BY <1>4 DEF ClaimLock
    <2>3. CASE UNCHANGED login_starts
      BY <1>2, <2>2, <2>3
    <2>4. CASE /\ ClaimReply(l, inp[r].ctx, loc[r].now) = "Expired"
               /\ login_starts' = [login_starts EXCEPT ![l] = None]
      <3>1. login_starts[l] <= loc[r].now /\ login_starts[l] # None
        BY <2>4 DEF ClaimReply
      <3>2. login_starts[l] <= now
        BY <1>1, <2>1, <3>1 DEF TypeOK
      <3>. HIDE DEF l
      <3>. QED  BY <1>1, <2>1, <2>2, <2>4, <3>2 DEF StartsKept, SessionsKept, TypeOK
    <2>5. CASE /\ login_starts' = [login_starts EXCEPT ![l] = None]
               /\ loc' = [loc EXCEPT ![r].claimed = l]
      <3>1. loc'[r].claimed = l
        BY <1>1, <2>1, <2>5 DEF TypeOK, Local
      <3>2. Claims(l)
        BY <2>1, <3>1 DEF Claims
      <3>. HIDE DEF l
      <3>. QED  BY <1>1, <2>1, <2>2, <2>5, <3>2 DEF StartsKept, SessionsKept, TypeOK
    <2>. QED  BY <1>4, <2>3, <2>4, <2>5 DEF ClaimLock
  <1>5. ASSUME NEW r \in Callback, SessionLock(r) PROVE StartsKept /\ SessionsKept
    <2>1. local_sessions[r] = None /\ now \in Nat
      BY <1>1, <1>5 DEF IInv, OwnRecord, SessionLock, TypeOK
    <2>2. \A c \in Callback : c # r => local_sessions'[c] = RetainedSessions(now)[c]
      BY <1>1, <1>5, RetainedShrinks DEF SessionLock
    <2>3. login_starts' = RetainedStarts(now)
      BY <1>5 DEF SessionLock
    <2>. QED  BY <1>1, <2>1, <2>2, <2>3, CleanupDropsExpired DEF StartsKept, SessionsKept
  <1>6. ASSUME NEW r \in Me, GetMe(r) PROVE StartsKept /\ SessionsKept
    <2>1. PICK b \in Browser : local_sessions' = AfterGet(jar[b].session, now)
      BY <1>6 DEF GetMe
    <2>2. jar[b].session \in Callback \cup {None} /\ UNCHANGED login_starts
      BY <1>1, <1>6, StateTypes DEF GetMe
    <2>. QED  BY <1>1, <2>1, <2>2, LookupDropsExpired DEF StartsKept, SessionsKept
  <1>7. ASSUME NEW r \in Logout, LogoutLock(r) PROVE StartsKept /\ SessionsKept
    <2>1. /\ r \in Request /\ inp[r] = NoInput /\ inp[r].session = None
          /\ UNCHANGED login_starts
      BY <1>1, <1>7, Kinds DEF LogoutLock, Phase, NoInput
    <2>2. PICK b \in Browser :
             LET c == jar[b].session IN
             \/ local_sessions' \in {local_sessions, AfterGet(c, now)}
             \/ /\ LiveSession(c, now)
                /\ local_sessions' = [local_sessions EXCEPT ![c] = None]
                /\ inp' = [inp EXCEPT ![r].browser = b, ![r].session = c]
      BY <1>7 DEF LogoutLock
    <2>. DEFINE c == jar[b].session
    <2>3. c \in Callback \cup {None}
      BY <1>1, StateTypes
    <2>4. CASE local_sessions' \in {local_sessions, AfterGet(c, now)}
      BY <1>1, <1>2, <2>1, <2>3, <2>4, LookupDropsExpired DEF StartsKept, SessionsKept
    <2>5. CASE /\ LiveSession(c, now)
               /\ local_sessions' = [local_sessions EXCEPT ![c] = None]
               /\ inp' = [inp EXCEPT ![r].browser = b, ![r].session = c]
      <3>1. inp'[r].session = c
        BY <1>1, <2>1, <2>5 DEF TypeOK, Input
      <3>2. LogsOut(c) /\ c \in Callback
        BY <2>1, <2>3, <2>5, <3>1 DEF LogsOut, LiveSession
      <3>. HIDE DEF c
      <3>. QED  BY <1>1, <2>1, <2>5, <3>2 DEF StartsKept, SessionsKept, TypeOK
    <2>. QED  BY <2>2, <2>4, <2>5
  <1>8. ASSUME CleanupExpired PROVE StartsKept /\ SessionsKept
    <2>1. now \in Nat /\ now <= now
      BY <1>1 DEF TypeOK
    <2>. QED  BY <1>1, <1>8, <2>1, CleanupDropsExpired DEF CleanupExpired, StartsKept, SessionsKept
  <1>9. ASSUME \/ \E r \in Login : LoginArrive(r)
               \/ \E r \in Callback : CallbackArrive(r) \/ ExchangeHandoff(r)
               \/ \E r \in Request : Deliver(r) \/ Lose(r)
               \/ \E l \in Login, u \in User : IssueCode(l, u)
               \/ Tick
        PROVE  UNCHANGED <<login_starts, local_sessions>>
    BY <1>9 DEF LoginArrive, CallbackArrive, ExchangeHandoff, Deliver, Lose, IssueCode, Tick
  <1>. QED  BY <1>2, <1>3, <1>4, <1>5, <1>6, <1>7, <1>8, <1>9 DEF Next, CallbackStep

\* No capacity limit, no cleanup with a stale clock reading and no other
\* request takes a valid LoginStart or LocalSession away.
THEOREM ValidStateStays == Spec => ValidStateIsKept
  <1>. DEFINE Kept ==
          \/ Restart
          \/ /\ \A l \in Login :
                   login_starts[l] # None /\ login_starts'[l] # login_starts[l] =>
                      login_starts[l] <= now \/ Claims(l)
             /\ \A c \in Callback :
                   local_sessions[c] # None /\ local_sessions'[c] # local_sessions[c] =>
                      local_sessions[c].expires <= now \/ LogsOut(c)
  <1>1. IInv /\ [Next]_vars => [Kept]_vars
    <2>. SUFFICES ASSUME IInv, Next, ~Restart PROVE StartsKept /\ SessionsKept
      BY DEF StartsKept, SessionsKept
    <2>. QED  BY StepKeepsValidState
  <1>. QED  BY <1>1, Invariance, PTL DEF Spec, ValidStateIsKept

\* Only GetMe of the request itself answers it with 200, from a record that
\* exists.
LEMMA MeNeedsRecord ==
    ASSUME IInv, Next, NEW m \in Me, resp[m] = "none", resp'[m] = "200"
    PROVE  /\ inp'[m].session \in Callback
           /\ local_sessions[inp'[m].session] # None
  <1>. DEFINE Goal == /\ inp'[m].session \in Callback
                      /\ local_sessions[inp'[m].session] # None
  <1>1. TypeOK /\ m \in Request
    BY Kinds DEF IInv
  <1>2. ASSUME NEW r \in Request, r # m, NEW s \in Status, resp' = [resp EXCEPT ![r] = s]
        PROVE  FALSE
    BY <1>1, <1>2 DEF TypeOK
  <1>3. ASSUME UNCHANGED resp PROVE FALSE
    BY <1>3
  <1>4. ASSUME NEW r \in Login, LoginArrive(r) \/ LoginLock(r) PROVE FALSE
    BY <1>2, <1>3, <1>4, Kinds DEF LoginArrive, LoginLock, Respond, Send, Status
  <1>5. ASSUME NEW r \in Callback, CallbackArrive(r) \/ CallbackStep(r) PROVE FALSE
    BY <1>2, <1>3, <1>5, Kinds
       DEF CallbackArrive, CallbackStep, ClaimLock, ExchangeHandoff, SessionLock, Respond, Send,
           Status
  <1>6. ASSUME NEW r \in Logout, LogoutLock(r) PROVE FALSE
    BY <1>2, <1>6, Kinds DEF LogoutLock, Respond, Send, Status
  <1>7. ASSUME NEW r \in Request, Deliver(r) \/ Lose(r) PROVE FALSE
    BY <1>1, <1>3, <1>7 DEF Deliver, Lose, Respond, TypeOK
  <1>8. ASSUME Restart PROVE FALSE
    BY <1>1, <1>8 DEF Restart, TypeOK
  <1>9. ASSUME \/ CleanupExpired \/ Tick \/ \E l \in Login, u \in User : IssueCode(l, u)
        PROVE  FALSE
    BY <1>3, <1>9 DEF CleanupExpired, Tick, IssueCode
  <1>10. ASSUME NEW r \in Me, GetMe(r) PROVE Goal
    <2>1. r = m
      BY <1>2, <1>10, Kinds DEF GetMe, Respond, Status
    <2>2. PICK b \in Browser :
             LET c == jar[b].session IN
             \/ /\ LiveSession(c, now)
                /\ inp' = [inp EXCEPT ![r].browser = b, ![r].session = c]
             \/ Respond(r, "401")
      BY <1>10 DEF GetMe
    <2>. DEFINE c == jar[b].session
                i == [[inp[r] EXCEPT !.browser = b] EXCEPT !.session = c]
    <2>3. LiveSession(c, now) /\ inp' = [inp EXCEPT ![r] = i]
      BY <1>1, <2>1, <2>2 DEF Respond, TypeOK
    <2>4. c \in Callback /\ local_sessions[c] # None
      BY <1>1, <2>3, StateTypes DEF LiveSession
    <2>5. i.session = c
      BY <1>1, <2>1 DEF TypeOK, Input
    <2>. HIDE DEF i, c
    <2>. QED  BY <1>1, <2>1, <2>3, <2>4, <2>5, Kinds DEF TypeOK
  <1>. QED  BY <1>4, <1>5, <1>6, <1>7, <1>8, <1>9, <1>10 DEF Next

\* A session that was logged out answers no later /api/me, in any browser.
THEOREM LogoutIsForGood == Spec => LoggedOutStaysOut
  <1>. DEFINE Out ==
          \A m \in Me : resp[m] = "none" /\ resp'[m] = "200" =>
             \A o \in Logout : inp[o].session # inp'[m].session
  <1>1. IInv /\ [Next]_vars => [Out]_vars
    <2>. SUFFICES ASSUME IInv, Next, NEW m \in Me, resp[m] = "none", resp'[m] = "200",
                         NEW o \in Logout
                  PROVE  inp[o].session # inp'[m].session
      OBVIOUS
    <2>1. inp'[m].session \in Callback /\ local_sessions[inp'[m].session] # None
      BY MeNeedsRecord
    <2>. QED  BY <2>1, Kinds DEF IInv, GoneForGood
  <1>. QED  BY <1>1, Invariance, PTL DEF Spec, LoggedOutStaysOut
=============================================================================
