-------------------------- MODULE MCRedisFailover --------------------------
(***************************************************************************)
(* RedisFailover under the workloads of AuthFoundationMixes.               *)
(***************************************************************************)
EXTENDS RedisFailover, AuthFoundationMixes

MCInit == FailoverInit /\ MixInit

MCNext ==
    \/ MixNext /\ UNCHANGED <<replica, failovers>>
    \/ (FallBehind \/ Promote) /\ UNCHANGED <<mix, barred>>

MCSpec == MCInit /\ [][MCNext]_<<failoverVars, mixVars>>

InterchangeableLogins == Permutations(Login) \cup Permutations(Callback)
=============================================================================
