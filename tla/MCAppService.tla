---------------------------- MODULE MCAppService ----------------------------
EXTENDS AppService, TLC

(* Requests and names are interchangeable. *)
Symmetry == Permutations(Request) \cup Permutations(Name)
=============================================================================
