--------------------------- MODULE IdentityStore ---------------------------
(***************************************************************************)
(* resolve_external_identity of postgres.rs: requests that resolve the     *)
(* identities Google returned, concurrently, against the tables            *)
(* internal_users and external_identities.                                 *)
(*                                                                         *)
(* The tables hold committed rows.  The rows of an open transaction are    *)
(* kept with the worker that runs it: nobody else sees them, but its       *)
(* entry in the unique index external_identities_pkey makes an INSERT of   *)
(* the same key wait until the transaction ends.  PostgreSQL itself is     *)
(* external; what is modelled of it is READ COMMITTED visibility, the      *)
(* identity sequence, which does not roll back, and that unique index.     *)
(***************************************************************************)
EXTENDS Naturals

CONSTANTS
    Worker,     \* requests that may resolve an identity at the same time
    Subject,    \* (provider, subject) pairs
    MaxUserId   \* last value of the internal_user_id sequence

ASSUME MaxUserIdAssumption == MaxUserId \in Nat \ {0}

NoUser == 0
UserId == 1 .. MaxUserId

VARIABLES
    users,      \* internal_users: id -> "absent", "enabled" or "disabled"
    identities, \* external_identities: subject -> internal_user_id or NoUser
    sequence,   \* next value of the internal_user_id sequence
    pc,         \* the query each worker is at
    subject,    \* the identity each worker resolves
    newUser,    \* uncommitted internal_users row of the worker's transaction
    holdsKey,   \* whether it has an uncommitted external_identities row
    outcome,    \* how the call ended
    answer      \* the id it returned

vars == <<users, identities, sequence, pc, subject, newUser, holdsKey, outcome, answer>>
tables == <<users, identities>>
transaction == <<newUser, holdsKey>>

Label == {"idle", "read", "insert_user", "insert_identity", "commit",
          "rollback", "reread", "abandoned", "done"}

Outcome == {"none", "ok", "UserDisabled", "DatabaseFailure", "IdentityInconsistent"}

Init ==
    /\ users = [u \in UserId |-> "absent"]
    /\ identities = [s \in Subject |-> NoUser]
    /\ sequence = 1
    /\ pc = [w \in Worker |-> "idle"]
    /\ subject \in [Worker -> Subject]
    /\ newUser = [w \in Worker |-> NoUser]
    /\ holdsKey = [w \in Worker |-> FALSE]
    /\ outcome = [w \in Worker |-> "none"]
    /\ answer = [w \in Worker |-> NoUser]

Goto(w, label) == pc' = [pc EXCEPT ![w] = label]

Return(w, result, user) ==
    /\ Goto(w, "done")
    /\ outcome' = [outcome EXCEPT ![w] = result]
    /\ answer' = [answer EXCEPT ![w] = user]

\* Mutant of EndTransaction: the connection goes back to the pool with the
\* transaction open.
EndTransactionKeepsKey(w) ==
    /\ newUser' = [newUser EXCEPT ![w] = NoUser]
    /\ UNCHANGED holdsKey

EndTransaction(w) ==
    /\ newUser' = [newUser EXCEPT ![w] = NoUser]
    /\ holdsKey' = [holdsKey EXCEPT ![w] = FALSE]

\* A login calls resolve_external_identity; a worker serves many logins.
Resolve(w, s) ==
    /\ pc[w] \in {"idle", "done"}
    /\ Goto(w, "read")
    /\ subject' = [subject EXCEPT ![w] = s]
    /\ outcome' = [outcome EXCEPT ![w] = "none"]
    /\ answer' = [answer EXCEPT ![w] = NoUser]
    /\ UNCHANGED <<tables, sequence, transaction>>

\* What the row that read_external_identity_with_user finds is turned into.
\* The LEFT JOIN yields no is_enabled for an identity without a user.
RowOutcome(user) ==
    IF user = NoUser THEN "IdentityInconsistent"
    ELSE IF users[user] = "enabled" THEN "ok"
    ELSE IF users[user] = "disabled" THEN "UserDisabled"
    ELSE "IdentityInconsistent"

ReturnRow(w, user) ==
    Return(w, RowOutcome(user), IF RowOutcome(user) = "ok" THEN user ELSE NoUser)

\* First read: an identity that is not there is to be created.
Read(w) ==
    /\ pc[w] = "read"
    /\ LET user == identities[subject[w]] IN
          \/ user # NoUser /\ ReturnRow(w, user)
          \/ user = NoUser /\ Goto(w, "insert_user") /\ UNCHANGED <<outcome, answer>>
    /\ UNCHANGED <<tables, sequence, subject, transaction>>

\* Mutant of InsertUser: ids beyond the sequence.
InsertUserUnbounded(w) ==
    /\ pc[w] = "insert_user"
    /\ newUser' = [newUser EXCEPT ![w] = sequence]
    /\ sequence' = sequence + 1
    /\ Goto(w, "insert_identity")
    /\ UNCHANGED <<tables, subject, holdsKey, outcome, answer>>

\* BEGIN; INSERT INTO internal_users.  A sequence that is used up is an
\* error, and the transaction is rolled back.
InsertUser(w) ==
    /\ pc[w] = "insert_user"
    /\ \/ /\ sequence \in UserId
          /\ newUser' = [newUser EXCEPT ![w] = sequence]
          /\ sequence' = sequence + 1
          /\ Goto(w, "insert_identity")
          /\ UNCHANGED <<outcome, answer>>
       \/ /\ sequence \notin UserId
          /\ Return(w, "DatabaseFailure", NoUser)
          /\ UNCHANGED <<sequence, newUser>>
    /\ UNCHANGED <<tables, subject, holdsKey>>

\* Mutant of InsertIdentity: no unique index, an existing link is overwritten.
InsertIdentityOverwrites(w) ==
    /\ pc[w] = "insert_identity"
    /\ holdsKey' = [holdsKey EXCEPT ![w] = TRUE]
    /\ Goto(w, "commit")
    /\ UNCHANGED <<tables, sequence, subject, newUser, outcome, answer>>

\* Mutant of InsertIdentity: a key of an open transaction is a violation at
\* once, and the second read comes before the winner's commit.
InsertIdentityNoWait(w) ==
    /\ pc[w] = "insert_identity"
    /\ IF /\ identities[subject[w]] = NoUser
          /\ \A v \in Worker \ {w} : ~(holdsKey[v] /\ subject[v] = subject[w])
       THEN holdsKey' = [holdsKey EXCEPT ![w] = TRUE] /\ Goto(w, "commit")
       ELSE Goto(w, "rollback") /\ UNCHANGED holdsKey
    /\ UNCHANGED <<tables, sequence, subject, newUser, outcome, answer>>

\* 23505 of external_identities_pkey: the key is committed.
is_external_identity_unique_violation(w) == identities[subject[w]] # NoUser

\* INSERT INTO external_identities: waits for another open transaction that
\* inserted the key, and fails with 23505 if the key is committed.
InsertIdentity(w) ==
    /\ pc[w] = "insert_identity"
    /\ \A v \in Worker \ {w} : ~(holdsKey[v] /\ subject[v] = subject[w])
    /\ \/ /\ ~is_external_identity_unique_violation(w)
          /\ holdsKey' = [holdsKey EXCEPT ![w] = TRUE]
          /\ Goto(w, "commit")
       \/ /\ is_external_identity_unique_violation(w)
          /\ Goto(w, "rollback")
          /\ UNCHANGED holdsKey
    /\ UNCHANGED <<tables, sequence, subject, newUser, outcome, answer>>

\* COMMIT makes both rows visible.  Its acknowledgement may be lost.
Commit(w) ==
    /\ pc[w] = "commit"
    /\ users' = [users EXCEPT ![newUser[w]] = "enabled"]
    /\ identities' = [identities EXCEPT ![subject[w]] = newUser[w]]
    /\ \/ Return(w, "ok", newUser[w])
       \/ Return(w, "DatabaseFailure", NoUser)
    /\ EndTransaction(w)
    /\ UNCHANGED <<sequence, subject>>

\* Mutant of Rollback: the loser returns the id of the user it rolls back.
RollbackReturnsOwnId(w) ==
    /\ pc[w] = "rollback"
    /\ EndTransaction(w)
    /\ Return(w, "ok", newUser[w])
    /\ UNCHANGED <<tables, sequence, subject>>

\* Mutant of Rollback: the loser's user row is committed.
RollbackCommits(w) ==
    /\ pc[w] = "rollback"
    /\ users' = [users EXCEPT ![newUser[w]] = "enabled"]
    /\ EndTransaction(w)
    /\ Goto(w, "reread")
    /\ UNCHANGED <<identities, sequence, subject, outcome, answer>>

\* ROLLBACK after a unique violation, then a second read.
Rollback(w) ==
    /\ pc[w] = "rollback"
    /\ EndTransaction(w)
    /\ Goto(w, "reread")
    /\ UNCHANGED <<tables, sequence, subject, outcome, answer>>

Reread(w) ==
    /\ pc[w] = "reread"
    /\ ReturnRow(w, identities[subject[w]])
    /\ UNCHANGED <<tables, sequence, subject, transaction>>

\* A query fails, or the process dies.  The call is over, but the server may
\* notice the broken connection later and keeps the transaction open so long.
Fail(w) ==
    /\ pc[w] \notin {"idle", "abandoned", "done"}
    /\ Goto(w, "abandoned")
    /\ outcome' = [outcome EXCEPT ![w] = "DatabaseFailure"]
    /\ UNCHANGED <<tables, sequence, subject, transaction, answer>>

Abort(w) ==
    /\ pc[w] = "abandoned"
    /\ EndTransaction(w)
    /\ Goto(w, "done")
    /\ UNCHANGED <<tables, sequence, subject, outcome, answer>>

\* An operator disables or enables a user.
SwitchUser(u) ==
    /\ \/ users[u] = "enabled" /\ users' = [users EXCEPT ![u] = "disabled"]
       \/ users[u] = "disabled" /\ users' = [users EXCEPT ![u] = "enabled"]
    /\ UNCHANGED <<identities, sequence, pc, subject, transaction, outcome, answer>>

Step(w) ==
    \/ Read(w) \/ InsertUser(w) \/ InsertIdentity(w) \/ Commit(w)
    \/ Rollback(w) \/ Reread(w) \/ Abort(w)

Next ==
    \/ \E w \in Worker, s \in Subject : Resolve(w, s)
    \/ \E w \in Worker : Step(w) \/ Fail(w)
    \/ \E u \in UserId : SwitchUser(u)

Spec == Init /\ [][Next]_vars

\* Every query returns or fails, a wait for a lock ends when its holder does,
\* and PostgreSQL notices a broken connection in the end.
FairSpec == Spec /\ \A w \in Worker : WF_vars(Step(w))

-----------------------------------------------------------------------------
\* Every variable holds values of the kind the tables and the code give it.
TypeOK ==
    /\ users \in [UserId -> {"absent", "enabled", "disabled"}]
    /\ identities \in [Subject -> UserId \cup {NoUser}]
    /\ sequence \in 1 .. MaxUserId + 1
    /\ pc \in [Worker -> Label]
    /\ subject \in [Worker -> Subject]
    /\ newUser \in [Worker -> UserId \cup {NoUser}]
    /\ holdsKey \in [Worker -> BOOLEAN]
    /\ outcome \in [Worker -> Outcome]
    /\ answer \in [Worker -> UserId \cup {NoUser}]

\* Whoever wins the race of first logins, every call for one identity that
\* succeeds returns the one id stored for it, now and later, also when an
\* earlier call committed without learning so.
AnswerIsTheStoredUser ==
    \A w \in Worker : outcome[w] = "ok" =>
       answer[w] # NoUser /\ answer[w] = identities[subject[w]]

\* Committed users and identities stay one to one through lost races, crashes
\* and rollbacks: no user without an identity, none shared by two, and no
\* identity that points to a missing user.
UsersMatchIdentities ==
    /\ \A s \in Subject : identities[s] # NoUser => users[identities[s]] # "absent"
    /\ \A u \in UserId : users[u] # "absent" => \E s \in Subject : identities[s] = u
    /\ \A s, t \in Subject : identities[s] = identities[t] /\ identities[s] # NoUser => s = t

\* The second read after a unique violation always finds the winner's rows:
\* IdentityInconsistent, which google_auth_callback answers with a 500, is
\* never returned.
NeverInconsistent ==
    \A w \in Worker : outcome[w] # "IdentityInconsistent"

\* An identity, once linked, is linked to that user for good.
LinkIsPermanent ==
    [][\A s \in Subject : identities[s] # NoUser => identities'[s] = identities[s]]_vars

\* No resolution waits for ever: waits in the unique index end even when the
\* transaction that is waited for belongs to a process that died.
EveryResolutionEnds ==
    \A w \in Worker : pc[w] = "read" ~> pc[w] = "done"
=============================================================================
