CONSTANTS
  Worker = {w1, w2, w3}
  Subject = {alice, bob}
  MaxUserId = 3
SPECIFICATION FairSpec
INVARIANTS TypeOK AnswerIsTheStoredUser UsersMatchIdentities NeverInconsistent
PROPERTIES LinkIsPermanent EveryResolutionEnds
