------------------------ MODULE IdentityStoreProofs ------------------------
(***************************************************************************)
(* Proofs about IdentityStore for any number of workers, identities and    *)
(* ids.  The properties are not inductive: the uncommitted rows must be    *)
(* known to be fresh, the unique index to have one holder for each key,    *)
(* and a worker that met a unique violation to have seen a committed row.  *)
(***************************************************************************)
EXTENDS IdentityStore, TLAPS

\* Ids in use, committed or not, come from the sequence, and no two workers
\* have the same uncommitted one.
IdsAreFresh ==
    /\ \A u \in UserId : users[u] # "absent" => u < sequence
    /\ \A w \in Worker : newUser[w] # NoUser =>
          newUser[w] < sequence /\ users[newUser[w]] = "absent"
    /\ \A v, w \in Worker : newUser[v] = newUser[w] /\ newUser[v] # NoUser => v = w

\* A key in the unique index has one holder, and no committed row.
KeyHasOneHolder ==
    /\ \A w \in Worker : holdsKey[w] => identities[subject[w]] = NoUser
    /\ \A v, w \in Worker : holdsKey[v] /\ holdsKey[w] /\ subject[v] = subject[w] => v = w

\* What a worker has done when it is at a query.
Progress ==
    \A w \in Worker :
       /\ pc[w] \in {"insert_identity", "commit"} => newUser[w] # NoUser
       /\ pc[w] = "commit" => holdsKey[w]
       /\ pc[w] \in {"rollback", "reread"} => identities[subject[w]] # NoUser
       /\ pc[w] \notin {"commit", "abandoned"} => ~holdsKey[w]
       /\ pc[w] \in {"idle", "read", "insert_user", "reread", "done"} => newUser[w] = NoUser
       /\ outcome[w] = "ok" => pc[w] = "done"

IInv ==
    /\ TypeOK
    /\ IdsAreFresh
    /\ KeyHasOneHolder
    /\ Progress
    /\ UsersMatchIdentities
    /\ AnswerIsTheStoredUser
    /\ NeverInconsistent

-----------------------------------------------------------------------------
\* Ids are positive numbers, and the absent id is not one of them.
LEMMA Ids ==
    /\ MaxUserId \in Nat
    /\ UserId \subseteq Nat
    /\ NoUser \in Nat
    /\ NoUser \notin UserId
    /\ \A n \in 1 .. MaxUserId + 1 : n \in Nat /\ n + 1 \in Nat
    /\ \A n \in UserId : n + 1 \in 1 .. MaxUserId + 1
  BY MaxUserIdAssumption DEF UserId, NoUser

\* A linked identity has a user, so a found row is never inconsistent.
LEMMA FoundRow ==
    ASSUME TypeOK, UsersMatchIdentities, NEW s \in Subject, identities[s] # NoUser
    PROVE  RowOutcome(identities[s]) \in {"ok", "UserDisabled"}
  <1>1. identities[s] \in UserId /\ users[identities[s]] # "absent"
    BY DEF TypeOK, UsersMatchIdentities
  <1>2. users[identities[s]] \in {"enabled", "disabled"}
    BY <1>1 DEF TypeOK
  <1>. QED  BY <1>1, <1>2 DEF RowOutcome

\* A call begins with no open transaction.
LEMMA ResolvePreserves ==
    ASSUME IInv, NEW w \in Worker, NEW s \in Subject, Resolve(w, s)
    PROVE  IInv'
  <1>1. TypeOK'
    BY Ids DEF IInv, TypeOK, Resolve, Goto, tables, transaction, Label, Outcome
  <1>2. IdsAreFresh'
    BY Ids DEF IInv, TypeOK, IdsAreFresh, Progress, Resolve, Goto, tables, transaction
  <1>3. KeyHasOneHolder'
    BY Ids DEF IInv, TypeOK, KeyHasOneHolder, Progress, Resolve, Goto, tables, transaction
  <1>4. Progress'
    BY Ids DEF IInv, TypeOK, KeyHasOneHolder, Progress, Resolve, Goto, tables, transaction
  <1>5. UsersMatchIdentities'
    BY Ids
       DEF IInv, TypeOK, IdsAreFresh, KeyHasOneHolder, Progress, UsersMatchIdentities,
           Resolve, Goto, tables, transaction
  <1>6. AnswerIsTheStoredUser'
    BY Ids
       DEF IInv, TypeOK, KeyHasOneHolder, Progress, UsersMatchIdentities,
           AnswerIsTheStoredUser, Resolve, Goto, tables, transaction
  <1>7. NeverInconsistent'
    BY Ids
       DEF IInv, TypeOK, KeyHasOneHolder, Progress, UsersMatchIdentities,
           NeverInconsistent, Resolve, Goto, tables, transaction
  <1>. QED  BY <1>1, <1>2, <1>3, <1>4, <1>5, <1>6, <1>7 DEF IInv

\* The first read returns a committed row as it is.
LEMMA ReadPreserves ==
    ASSUME IInv, NEW w \in Worker, Read(w)
    PROVE  IInv'
  <1>1. TypeOK'
    BY Ids
       DEF IInv, TypeOK, Read, ReturnRow, RowOutcome, Return, Goto, tables, transaction,
           Label, Outcome
  <1>2. IdsAreFresh'
    BY Ids
       DEF IInv, TypeOK, IdsAreFresh, Progress, Read, ReturnRow, RowOutcome, Return,
           Goto, tables, transaction
  <1>3. KeyHasOneHolder'
    BY Ids
       DEF IInv, TypeOK, KeyHasOneHolder, Progress, Read, ReturnRow, RowOutcome, Return,
           Goto, tables, transaction
  <1>4. Progress'
    BY Ids
       DEF IInv, TypeOK, KeyHasOneHolder, Progress, Read, ReturnRow, RowOutcome, Return,
           Goto, tables, transaction
  <1>5. UsersMatchIdentities'
    BY Ids
       DEF IInv, TypeOK, IdsAreFresh, KeyHasOneHolder, Progress, UsersMatchIdentities,
           Read, ReturnRow, RowOutcome, Return, Goto, tables, transaction
  <1>6. AnswerIsTheStoredUser'
    BY Ids
       DEF IInv, TypeOK, KeyHasOneHolder, Progress, UsersMatchIdentities,
           AnswerIsTheStoredUser, Read, ReturnRow, RowOutcome, Return, Goto, tables,
           transaction
  <1>7. NeverInconsistent'
    <2>1. subject[w] \in Subject
      BY DEF IInv, TypeOK
    <2>2. CASE identities[subject[w]] = NoUser
      BY <2>2 DEF IInv, TypeOK, NeverInconsistent, Read
    <2>3. CASE identities[subject[w]] # NoUser
      BY <2>1, <2>3, FoundRow DEF IInv, TypeOK, NeverInconsistent, Read, ReturnRow, Return
    <2>. QED  BY <2>2, <2>3
  <1>. QED  BY <1>1, <1>2, <1>3, <1>4, <1>5, <1>6, <1>7 DEF IInv

\* The sequence hands out an id nobody has.
LEMMA InsertUserPreserves ==
    ASSUME IInv, NEW w \in Worker, InsertUser(w)
    PROVE  IInv'
  <1>1. TypeOK'
    BY Ids DEF IInv, TypeOK, InsertUser, Return, Goto, tables, Label, Outcome
  <1>2. IdsAreFresh'
    <2>1. CASE sequence \in UserId
      <3>1. /\ users' = users
            /\ newUser' = [newUser EXCEPT ![w] = sequence]
            /\ sequence' = sequence + 1
        BY <2>1 DEF InsertUser, tables
      <3>2. users[sequence] = "absent" /\ \A v \in Worker : newUser[v] # sequence
        BY <2>1, Ids DEF IInv, TypeOK, IdsAreFresh
      <3>3. \A v \in Worker : newUser'[v] = IF v = w THEN sequence ELSE newUser[v]
        BY <3>1 DEF IInv, TypeOK
      <3>4. sequence \in Nat /\ sequence < sequence' /\ sequence # NoUser
        BY <2>1, <3>1, Ids
      <3>5. \A u \in UserId : u < sequence => u < sequence'
        BY <3>1, <3>4, Ids
      <3>6. \A u \in UserId : users'[u] # "absent" => u < sequence'
        BY <3>1, <3>5 DEF IInv, IdsAreFresh
      <3>7. \A v \in Worker : newUser'[v] # NoUser =>
               newUser'[v] < sequence' /\ users'[newUser'[v]] = "absent"
        BY <3>1, <3>2, <3>3, <3>4, <3>5 DEF IInv, TypeOK, IdsAreFresh
      <3>8. \A u, v \in Worker : newUser'[u] = newUser'[v] /\ newUser'[u] # NoUser => u = v
        BY <3>2, <3>3 DEF IInv, IdsAreFresh
      <3>. QED  BY <3>6, <3>7, <3>8 DEF IdsAreFresh
    <2>2. CASE sequence \notin UserId
      BY <2>2 DEF IInv, IdsAreFresh, InsertUser, tables
    <2>. QED  BY <2>1, <2>2
  <1>3. KeyHasOneHolder'
    BY Ids DEF IInv, TypeOK, KeyHasOneHolder, Progress, InsertUser, Return, Goto, tables
  <1>4. Progress'
    BY Ids DEF IInv, TypeOK, KeyHasOneHolder, Progress, InsertUser, Return, Goto, tables
  <1>5. UsersMatchIdentities'
    BY Ids
       DEF IInv, TypeOK, IdsAreFresh, KeyHasOneHolder, Progress, UsersMatchIdentities,
           InsertUser, Return, Goto, tables
  <1>6. AnswerIsTheStoredUser'
    BY Ids
       DEF IInv, TypeOK, KeyHasOneHolder, Progress, UsersMatchIdentities,
           AnswerIsTheStoredUser, InsertUser, Return, Goto, tables
  <1>7. NeverInconsistent'
    BY Ids
       DEF IInv, TypeOK, KeyHasOneHolder, Progress, UsersMatchIdentities,
           NeverInconsistent, InsertUser, Return, Goto, tables
  <1>. QED  BY <1>1, <1>2, <1>3, <1>4, <1>5, <1>6, <1>7 DEF IInv

\* Only the holder of the key goes on to commit.
LEMMA InsertIdentityPreserves ==
    ASSUME IInv, NEW w \in Worker, InsertIdentity(w)
    PROVE  IInv'
  <1>1. TypeOK'
    BY Ids DEF IInv, TypeOK, InsertIdentity,
           is_external_identity_unique_violation, Goto, tables, Label, Outcome
  <1>2. IdsAreFresh'
    BY Ids DEF IInv, TypeOK, IdsAreFresh, Progress, InsertIdentity,
           is_external_identity_unique_violation, Goto, tables
  <1>3. KeyHasOneHolder'
    BY Ids DEF IInv, TypeOK, KeyHasOneHolder, Progress, InsertIdentity,
           is_external_identity_unique_violation, Goto, tables
  <1>4. Progress'
    BY Ids DEF IInv, TypeOK, KeyHasOneHolder, Progress, InsertIdentity,
           is_external_identity_unique_violation, Goto, tables
  <1>5. UsersMatchIdentities'
    BY Ids
       DEF IInv, TypeOK, IdsAreFresh, KeyHasOneHolder, Progress, UsersMatchIdentities,
           InsertIdentity, is_external_identity_unique_violation, Goto, tables
  <1>6. AnswerIsTheStoredUser'
    BY Ids
       DEF IInv, TypeOK, KeyHasOneHolder, Progress, UsersMatchIdentities,
           AnswerIsTheStoredUser, InsertIdentity,
           is_external_identity_unique_violation, Goto, tables
  <1>7. NeverInconsistent'
    BY Ids
       DEF IInv, TypeOK, KeyHasOneHolder, Progress, UsersMatchIdentities,
           NeverInconsistent, InsertIdentity,
           is_external_identity_unique_violation, Goto, tables
  <1>. QED  BY <1>1, <1>2, <1>3, <1>4, <1>5, <1>6, <1>7 DEF IInv

\* A commit links an identity that had no link to a user that did not exist.
LEMMA CommitPreserves ==
    ASSUME IInv, NEW w \in Worker, Commit(w)
    PROVE  IInv'
  <1>1. TypeOK'
    BY Ids DEF IInv, TypeOK, Commit, EndTransaction, Return, Goto, Label, Outcome
  <1>2. IdsAreFresh'
    BY Ids DEF IInv, TypeOK, IdsAreFresh, Progress, Commit, EndTransaction, Return, Goto
  <1>3. KeyHasOneHolder'
    BY Ids DEF IInv, TypeOK, KeyHasOneHolder, Progress, Commit, EndTransaction, Return, Goto
  <1>4. Progress'
    BY Ids DEF IInv, TypeOK, KeyHasOneHolder, Progress, Commit, EndTransaction, Return, Goto
  <1>5. UsersMatchIdentities'
    BY Ids
       DEF IInv, TypeOK, IdsAreFresh, KeyHasOneHolder, Progress, UsersMatchIdentities,
           Commit, EndTransaction, Return, Goto
  <1>6. AnswerIsTheStoredUser'
    BY Ids
       DEF IInv, TypeOK, KeyHasOneHolder, Progress, UsersMatchIdentities,
           AnswerIsTheStoredUser, Commit, EndTransaction, Return, Goto
  <1>7. NeverInconsistent'
    BY Ids
       DEF IInv, TypeOK, KeyHasOneHolder, Progress, UsersMatchIdentities,
           NeverInconsistent, Commit, EndTransaction, Return, Goto
  <1>. QED  BY <1>1, <1>2, <1>3, <1>4, <1>5, <1>6, <1>7 DEF IInv

\* A rollback leaves the tables alone.
LEMMA RollbackPreserves ==
    ASSUME IInv, NEW w \in Worker, Rollback(w)
    PROVE  IInv'
  <1>1. TypeOK'
    BY Ids DEF IInv, TypeOK, Rollback, EndTransaction, Goto, tables, Label, Outcome
  <1>2. IdsAreFresh'
    BY Ids DEF IInv, TypeOK, IdsAreFresh, Progress, Rollback, EndTransaction, Goto, tables
  <1>3. KeyHasOneHolder'
    BY Ids
       DEF IInv, TypeOK, KeyHasOneHolder, Progress, Rollback, EndTransaction, Goto,
           tables
  <1>4. Progress'
    BY Ids
       DEF IInv, TypeOK, KeyHasOneHolder, Progress, Rollback, EndTransaction, Goto,
           tables
  <1>5. UsersMatchIdentities'
    BY Ids
       DEF IInv, TypeOK, IdsAreFresh, KeyHasOneHolder, Progress, UsersMatchIdentities,
           Rollback, EndTransaction, Goto, tables
  <1>6. AnswerIsTheStoredUser'
    BY Ids
       DEF IInv, TypeOK, KeyHasOneHolder, Progress, UsersMatchIdentities,
           AnswerIsTheStoredUser, Rollback, EndTransaction, Goto, tables
  <1>7. NeverInconsistent'
    BY Ids
       DEF IInv, TypeOK, KeyHasOneHolder, Progress, UsersMatchIdentities,
           NeverInconsistent, Rollback, EndTransaction, Goto, tables
  <1>. QED  BY <1>1, <1>2, <1>3, <1>4, <1>5, <1>6, <1>7 DEF IInv

\* The second read finds the row that won.
LEMMA RereadPreserves ==
    ASSUME IInv, NEW w \in Worker, Reread(w)
    PROVE  IInv'
  <1>1. TypeOK'
    BY Ids
       DEF IInv, TypeOK, Reread, ReturnRow, RowOutcome, Return, Goto, tables,
           transaction, Label, Outcome
  <1>2. IdsAreFresh'
    BY Ids
       DEF IInv, TypeOK, IdsAreFresh, Progress, Reread, ReturnRow, RowOutcome, Return,
           Goto, tables, transaction
  <1>3. KeyHasOneHolder'
    BY Ids
       DEF IInv, TypeOK, KeyHasOneHolder, Progress, Reread, ReturnRow, RowOutcome,
           Return, Goto, tables, transaction
  <1>4. Progress'
    BY Ids
       DEF IInv, TypeOK, KeyHasOneHolder, Progress, Reread, ReturnRow, RowOutcome,
           Return, Goto, tables, transaction
  <1>5. UsersMatchIdentities'
    BY Ids
       DEF IInv, TypeOK, IdsAreFresh, KeyHasOneHolder, Progress, UsersMatchIdentities,
           Reread, ReturnRow, RowOutcome, Return, Goto, tables, transaction
  <1>6. AnswerIsTheStoredUser'
    BY Ids
       DEF IInv, TypeOK, KeyHasOneHolder, Progress, UsersMatchIdentities,
           AnswerIsTheStoredUser, Reread, ReturnRow, RowOutcome, Return, Goto, tables,
           transaction
  <1>7. NeverInconsistent'
    <2>1. subject[w] \in Subject /\ identities[subject[w]] # NoUser
      BY DEF IInv, TypeOK, Progress, Reread
    <2>. QED
      BY <2>1, FoundRow DEF IInv, TypeOK, NeverInconsistent, Reread, ReturnRow, Return
  <1>. QED  BY <1>1, <1>2, <1>3, <1>4, <1>5, <1>6, <1>7 DEF IInv

\* A failure leaves its transaction open.
LEMMA FailPreserves ==
    ASSUME IInv, NEW w \in Worker, Fail(w)
    PROVE  IInv'
  <1>1. TypeOK'
    BY Ids DEF IInv, TypeOK, Fail, Goto, tables, transaction, Label, Outcome
  <1>2. IdsAreFresh'
    BY Ids DEF IInv, TypeOK, IdsAreFresh, Progress, Fail, Goto, tables, transaction
  <1>3. KeyHasOneHolder'
    BY Ids DEF IInv, TypeOK, KeyHasOneHolder, Progress, Fail, Goto, tables, transaction
  <1>4. Progress'
    BY Ids DEF IInv, TypeOK, KeyHasOneHolder, Progress, Fail, Goto, tables, transaction
  <1>5. UsersMatchIdentities'
    BY Ids
       DEF IInv, TypeOK, IdsAreFresh, KeyHasOneHolder, Progress, UsersMatchIdentities,
           Fail, Goto, tables, transaction
  <1>6. AnswerIsTheStoredUser'
    BY Ids
       DEF IInv, TypeOK, KeyHasOneHolder, Progress, UsersMatchIdentities,
           AnswerIsTheStoredUser, Fail, Goto, tables, transaction
  <1>7. NeverInconsistent'
    BY Ids
       DEF IInv, TypeOK, KeyHasOneHolder, Progress, UsersMatchIdentities,
           NeverInconsistent, Fail, Goto, tables, transaction
  <1>. QED  BY <1>1, <1>2, <1>3, <1>4, <1>5, <1>6, <1>7 DEF IInv

\* The server ends an abandoned transaction.
LEMMA AbortPreserves ==
    ASSUME IInv, NEW w \in Worker, Abort(w)
    PROVE  IInv'
  <1>1. TypeOK'
    BY Ids DEF IInv, TypeOK, Abort, EndTransaction, Goto, tables, Label, Outcome
  <1>2. IdsAreFresh'
    BY Ids DEF IInv, TypeOK, IdsAreFresh, Progress, Abort, EndTransaction, Goto, tables
  <1>3. KeyHasOneHolder'
    BY Ids DEF IInv, TypeOK, KeyHasOneHolder, Progress, Abort, EndTransaction, Goto, tables
  <1>4. Progress'
    BY Ids DEF IInv, TypeOK, KeyHasOneHolder, Progress, Abort, EndTransaction, Goto, tables
  <1>5. UsersMatchIdentities'
    BY Ids
       DEF IInv, TypeOK, IdsAreFresh, KeyHasOneHolder, Progress, UsersMatchIdentities,
           Abort, EndTransaction, Goto, tables
  <1>6. AnswerIsTheStoredUser'
    BY Ids
       DEF IInv, TypeOK, KeyHasOneHolder, Progress, UsersMatchIdentities,
           AnswerIsTheStoredUser, Abort, EndTransaction, Goto, tables
  <1>7. NeverInconsistent'
    BY Ids
       DEF IInv, TypeOK, KeyHasOneHolder, Progress, UsersMatchIdentities,
           NeverInconsistent, Abort, EndTransaction, Goto, tables
  <1>. QED  BY <1>1, <1>2, <1>3, <1>4, <1>5, <1>6, <1>7 DEF IInv

\* Operators neither add nor remove users.
LEMMA SwitchUserPreserves ==
    ASSUME IInv, NEW u \in UserId, SwitchUser(u)
    PROVE  IInv'
  <1>1. TypeOK'
    BY Ids DEF IInv, TypeOK, SwitchUser, transaction, Label, Outcome
  <1>2. IdsAreFresh'
    BY Ids DEF IInv, TypeOK, IdsAreFresh, Progress, SwitchUser, transaction
  <1>3. KeyHasOneHolder'
    BY Ids DEF IInv, TypeOK, KeyHasOneHolder, Progress, SwitchUser, transaction
  <1>4. Progress'
    BY Ids DEF IInv, TypeOK, KeyHasOneHolder, Progress, SwitchUser, transaction
  <1>5. UsersMatchIdentities'
    <2>1. \A v \in UserId : users'[v] = "absent" <=> users[v] = "absent"
      BY DEF IInv, TypeOK, SwitchUser
    <2>. QED  BY <2>1 DEF IInv, TypeOK, UsersMatchIdentities, SwitchUser
  <1>6. AnswerIsTheStoredUser'
    BY Ids
       DEF IInv, TypeOK, KeyHasOneHolder, Progress, UsersMatchIdentities,
           AnswerIsTheStoredUser, SwitchUser, transaction
  <1>7. NeverInconsistent'
    BY Ids
       DEF IInv, TypeOK, KeyHasOneHolder, Progress, UsersMatchIdentities,
           NeverInconsistent, SwitchUser, transaction
  <1>. QED  BY <1>1, <1>2, <1>3, <1>4, <1>5, <1>6, <1>7 DEF IInv

\* A stuttering step changes nothing.
LEMMA StutterPreserves ==
    ASSUME IInv, UNCHANGED vars
    PROVE  IInv'
  BY DEF IInv, TypeOK, IdsAreFresh, KeyHasOneHolder, Progress, UsersMatchIdentities,
         AnswerIsTheStoredUser, NeverInconsistent, vars

\* The tables start empty.
LEMMA InitEstablishes ==
    ASSUME Init
    PROVE  IInv
  BY Ids, MaxUserIdAssumption
     DEF Init, IInv, TypeOK, IdsAreFresh, KeyHasOneHolder, Progress, UsersMatchIdentities,
         AnswerIsTheStoredUser, NeverInconsistent, Label, Outcome

\* The inductive invariant holds throughout.
THEOREM Invariance == Spec => []IInv
  <1>1. Init => IInv
    BY InitEstablishes
  <1>2. IInv /\ [Next]_vars => IInv'
    <2>. SUFFICES ASSUME IInv, [Next]_vars PROVE IInv'
      OBVIOUS
    <2>1. ASSUME NEW w \in Worker, NEW s \in Subject, Resolve(w, s) PROVE IInv'
      BY <2>1, ResolvePreserves
    <2>2. ASSUME NEW w \in Worker, Step(w) \/ Fail(w) PROVE IInv'
      BY <2>2, ReadPreserves, InsertUserPreserves, InsertIdentityPreserves, CommitPreserves,
         RollbackPreserves, RereadPreserves, AbortPreserves, FailPreserves DEF Step
    <2>3. ASSUME NEW u \in UserId, SwitchUser(u) PROVE IInv'
      BY <2>3, SwitchUserPreserves
    <2>4. CASE UNCHANGED vars
      BY <2>4, StutterPreserves
    <2>. QED  BY <2>1, <2>2, <2>3, <2>4 DEF Next
  <1>. QED  BY <1>1, <1>2, PTL DEF Spec

\* For every number of concurrent first logins, crashes and lost commits: the
\* id that resolve_external_identity returns is the stored one.
THEOREM AnswersAreStoredUsers == Spec => []AnswerIsTheStoredUser
  BY Invariance, PTL DEF IInv

\* Users and identities stay one to one.
THEOREM OneUserPerIdentity == Spec => []UsersMatchIdentities
  BY Invariance, PTL DEF IInv

\* resolve_external_identity never returns IdentityInconsistent.
THEOREM ConsistentResolution == Spec => []NeverInconsistent
  BY Invariance, PTL DEF IInv

\* The variables keep their types.
THEOREM TypeCorrect == Spec => []TypeOK
  BY Invariance, PTL DEF IInv

\* No step, of whatever worker, changes the link of an identity that has one.
THEOREM LinksArePermanent == Spec => LinkIsPermanent
  <1>. DEFINE Kept == \A s \in Subject : identities[s] # NoUser => identities'[s] = identities[s]
  <1>1. IInv /\ [Next]_vars => [Kept]_vars
    <2>. SUFFICES ASSUME IInv, Next PROVE Kept
      OBVIOUS
    <2>1. ASSUME NEW w \in Worker, Commit(w) PROVE Kept
      <3>1. identities[subject[w]] = NoUser
        BY <2>1 DEF IInv, Progress, KeyHasOneHolder, Commit
      <3>. QED  BY <2>1, <3>1 DEF IInv, TypeOK, Commit
    <2>2. ASSUME NEW w \in Worker, NEW s \in Subject, Resolve(w, s) PROVE Kept
      BY <2>2 DEF Resolve, tables
    <2>3. ASSUME NEW w \in Worker, Step(w) \/ Fail(w), ~Commit(w) PROVE Kept
      BY <2>3 DEF Step, Read, InsertUser, InsertIdentity,
           is_external_identity_unique_violation, Rollback, Reread, Abort, Fail, tables
    <2>4. ASSUME NEW u \in UserId, SwitchUser(u) PROVE Kept
      BY <2>4 DEF SwitchUser
    <2>. QED  BY <2>1, <2>2, <2>3, <2>4 DEF Next
  <1>. QED  BY <1>1, Invariance, PTL DEF Spec, LinkIsPermanent
=============================================================================
