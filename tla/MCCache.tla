------------------------------ MODULE MCCache ------------------------------
(* Instances of Cache for TLC: two processes over one store. *)
EXTENDS Cache, TLC

ReqSymmetry == Permutations(Reqs)
=============================================================================
