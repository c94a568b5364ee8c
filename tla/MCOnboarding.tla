---------------------------- MODULE MCOnboarding ----------------------------
EXTENDS Onboarding, TLC

(* Accounts and calls are interchangeable; NoCall's account is arbitrary,  *)
(* so only the calls are permuted.                                         *)
Symmetry == Permutations(Request)
=============================================================================
