------------------------ MODULE AuthFoundationMixes ------------------------
(***************************************************************************)
(* AuthFoundation under several small workloads in one state space.  A mix *)
(* is the set of requests that are made in a behaviour, with the users and *)
(* services that an operator switches meanwhile and the values in Varied   *)
(* that occur; every mix is explored.                                      *)
(***************************************************************************)
EXTENDS SsoContractRefinement, MCAuthFoundation

CONSTANTS
    Mixes,      \* the workloads
    Varied      \* services, challenges, states, users and forged values that
                \* occur only in the mixes that name them

ASSUME MixesAssumption ==
    /\ Varied \subseteq Service \cup Challenge \cup ServiceState \cup User \cup Forged
    /\ Mixes \subseteq SUBSET (Request \cup Administered \cup Varied)

VARIABLES
    mix,    \* the workload of this behaviour
    barred  \* history: user or service -> requests begun while it was disabled,
            \* which it has been ever since

mixVars == <<vars, mix, barred>>

MixInit ==
    /\ Init
    /\ mix \in Mixes
    /\ barred = [e \in Administered |-> {}]

Enabled(e) == IF e \in User THEN enabled[e] ELSE active[e]
NotBegun == {r \in mix \cap Request : pc[r] = "idle"}

MixHandler ==
    \/ \E r \in Login \cap mix : LoginHandler(r)
    \/ \E r \in Callback \cap mix : CallbackHandler(r)
    \/ \E r \in Exchange \cap mix : ExchangeHandler(r)
    \/ \E r \in LogoutGet \cap mix : LogoutGetHandler(r)
    \/ \E r \in LogoutPost \cap mix : CompleteLogout(r)

MixEnvironment ==
    \/ \E r \in Request \cap mix : Fail(r)
    \/ \E u \in User \cap Administered \cap mix : SwitchUser(u)
    \/ \E s \in Service \cap Administered \cap mix : SwitchService(s)
    \/ \E k \in Ref : Expire(k)
    \/ Tick

Occurs(v) == v \notin Varied \ mix

MixNext ==
    /\ MixHandler \/ MixEnvironment
    /\ \A r \in Request : /\ \A f \in DOMAIN NoInput : Occurs(inp'[r][f])
                          /\ loc'[r].who # None => Occurs(loc'[r].who.user)
    /\ UNCHANGED mix
    /\ barred' = [e \in Administered |->
                    IF Enabled(e)' THEN {} ELSE barred[e] \cup NotBegun']

MixSpec == MixInit /\ [][MixNext]_mixVars

\* The service and the user that a request that got a code or an exchange
\* got it for.
ServedService(r) == IF r \in Callback THEN loc[r].txn.service ELSE inp[r].service
ServedUser(r) == loc[r].who.user

\* A login, callback or exchange that begins while its service or its user
\* is disabled, and ends before either is enabled again, gives nothing: no
\* code, and for a disabled service no exchange either (the checks of login,
\* google_auth_callback and authenticate_service).
DisabledGetNothing ==
    \A e \in Administered : \A r \in barred[e] :
       /\ resp[r] \in {"callback", "200"} => ServedService(r) # e
       /\ resp[r] = "callback" => ServedUser(r) # e
=============================================================================
