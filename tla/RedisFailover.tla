--------------------------- MODULE RedisFailover ---------------------------
(***************************************************************************)
(* AuthFoundation on the Redis of redis/create_redis.yaml: one master,     *)
(* replicas that follow it asynchronously, and Sentinel, which promotes a  *)
(* replica when the master does not answer.  The promoted replica has some *)
(* earlier contents of the master: writes that were acknowledged after it  *)
(* are lost, among them the marks that make states, codes and forms        *)
(* one-shot.  Neither WAIT nor min-replicas-to-write is used.              *)
(***************************************************************************)
EXTENDS AuthFoundation, FiniteSets

CONSTANT MaxFailovers   \* bound: failovers in one behaviour

ASSUME FailoverAssumption == MaxFailovers \in Nat

VARIABLES
    replica,    \* the rows of the replica that will be promoted, once it has
                \* fallen behind the master; None while it has all of them
    failovers   \* history: how often a replica was promoted

failoverVars == <<vars, replica, failovers>>

MasterRows == [external |-> external, session |-> session, handoff |-> handoff, logout |-> logout]

\* The rows of one family that a server that takes over now still has.
Kept(table) == [k \in Ref |-> Survive(table[k], now)]

FailoverInit == Init /\ replica = None /\ failovers = 0

\* From here on the replica misses what is written to the master.
FallBehind ==
    /\ failovers < MaxFailovers
    /\ replica = None
    /\ replica' = MasterRows
    /\ UNCHANGED <<vars, failovers>>

\* Sentinel promotes it: its rows are the ones the service goes on with.
Promote ==
    /\ replica # None
    /\ external' = Kept(replica.external)
    /\ session' = Kept(replica.session)
    /\ handoff' = Kept(replica.handoff)
    /\ logout' = Kept(replica.logout)
    /\ replica' = None
    /\ failovers' = failovers + 1
    /\ UNCHANGED <<now, registry, pc, inp, loc, resp, took>>

FailoverNext ==
    \/ Next /\ UNCHANGED <<replica, failovers>>
    \/ FallBehind
    \/ Promote

FailoverSpec == FailoverInit /\ [][FailoverNext]_failoverVars

-----------------------------------------------------------------------------
Uses(R, ref) == Cardinality({r \in Effective(R) : inp[r].ref = ref})

\* What a failover can cost: every promotion gives a state, code or form at
\* most one more use, however many requests repeat it (the at-most-once
\* properties of AuthFoundation are the case without a failover).
OneMoreUsePerFailover ==
    \A R \in {Callback, Exchange, LogoutPost}, ref \in Ref : Uses(R, ref) <= 1 + failovers
=============================================================================
