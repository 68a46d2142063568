-------------------------- MODULE MCAuthFoundation --------------------------
(***************************************************************************)
(* AuthFoundation for safety runs with several requests of one kind.  The  *)
(* handlers do not tell requests of a kind apart, so states that differ by *)
(* a permutation of them are one state for an invariant.                   *)
(***************************************************************************)
EXTENDS AuthFoundation, TLC

Interchangeable ==
    Permutations(Login) \cup Permutations(Callback) \cup Permutations(Exchange)
    \cup Permutations(LogoutGet) \cup Permutations(LogoutPost)
=============================================================================
