---------------------------- MODULE SsoContract ----------------------------
(***************************************************************************)
(* What the authentication foundation promises the web services, without   *)
(* Redis, clocks, handlers or lost replies: sessions open once and close   *)
(* for good; a code is issued once, for one open session; and it is        *)
(* redeemed by at most one exchange, while its session is open.            *)
(* AuthFoundation.tla implements this (SsoContractRefinement.tla).         *)
(***************************************************************************)
CONSTANTS
    Key,        \* names of sessions and of codes
    Redeemer,   \* exchange requests
    Nobody      \* marks an exchange that redeemed nothing

VARIABLES
    sess,       \* key -> "new", "open" or "closed"
    code,       \* key -> [is, of]: its state, and the session it stands for
    redeemed    \* exchange request -> the code it redeemed

contractVars == <<sess, code, redeemed>>

NewCode == [is |-> "new", of |-> Nobody]
LiveCode(s) == [is |-> "live", of |-> s]
SpentCode(s) == [is |-> "spent", of |-> s]
GoneCode == [is |-> "gone", of |-> Nobody]

ContractInit ==
    /\ sess = [k \in Key |-> "new"]
    /\ code = [k \in Key |-> NewCode]
    /\ redeemed = [x \in Redeemer |-> Nobody]

\* A first login opens a session and issues the first code for it.
OpenAndIssue(k) ==
    /\ sess[k] = "new"
    /\ code[k] = NewCode
    /\ sess' = [sess EXCEPT ![k] = "open"]
    /\ code' = [code EXCEPT ![k] = LiveCode(k)]
    /\ UNCHANGED redeemed

\* Single sign-on issues a further code for an open session.  The same key
\* will never name a session.
IssueAgain(k, s) ==
    /\ code[k] = NewCode
    /\ sess[s] = "open"
    /\ code' = [code EXCEPT ![k] = LiveCode(s)]
    /\ sess' = [sess EXCEPT ![k] = "closed"]
    /\ UNCHANGED redeemed

Redeem(x, k) ==
    /\ redeemed[x] = Nobody
    /\ code[k].is = "live"
    /\ sess[code[k].of] = "open"
    /\ code' = [code EXCEPT ![k] = SpentCode(@.of)]
    /\ redeemed' = [redeemed EXCEPT ![x] = k]
    /\ UNCHANGED sess

\* Logout and expiry.  Any number of names may close or lapse in one step,
\* also names that were never used, but no closed name opens again.
Lapse ==
    /\ sess' = [k \in Key |-> sess'[k]]
    /\ code' = [k \in Key |-> code'[k]]
    /\ \A k \in Key : sess'[k] \in {sess[k], "closed"}
    /\ \A k \in Key : code'[k] \in {code[k], GoneCode}
    /\ UNCHANGED redeemed

ContractNext ==
    \/ \E k \in Key : OpenAndIssue(k)
    \/ \E k, s \in Key : IssueAgain(k, s)
    \/ \E x \in Redeemer, k \in Key : Redeem(x, k)
    \/ Lapse

ContractSpec == ContractInit /\ [][ContractNext]_contractVars
=============================================================================
