----------------------- MODULE SsoContractRefinement -----------------------
(***************************************************************************)
(* AuthFoundation implements SsoContract.  A key that Redis does not hold  *)
(* is new while the request that would write it is running, and closed or  *)
(* gone once that request is over.                                         *)
(***************************************************************************)
EXTENDS AuthFoundation

Issuer == Login \cup Callback

Over(k) == pc[k] = "done"

MappedSession ==
    [k \in Issuer |-> IF session[k] # None THEN "open"
                   ELSE IF Over(k) THEN "closed" ELSE "new"]

MappedCode ==
    [k \in Issuer |->
       IF handoff[k] = None
       THEN [is |-> IF Over(k) THEN "gone" ELSE "new", of |-> None]
       ELSE [is |-> IF handoff[k].status = "unused" THEN "live" ELSE "spent",
             of |-> handoff[k].session]]

MappedRedeemed == [x \in Exchange |-> IF took[x] = None THEN None ELSE inp[x].ref]

Contract == INSTANCE SsoContract WITH
    Key <- Issuer, Redeemer <- Exchange, Nobody <- None,
    sess <- MappedSession, code <- MappedCode, redeemed <- MappedRedeemed

\* Every behaviour of the handlers, with their races, crashes, lost replies,
\* clocks and expiries, is a behaviour of the contract: an initial state maps
\* to an initial state and every step to a contract step or a stutter.
KeepsContract == Contract!ContractSpec
=============================================================================
