-------------------------- MODULE MCIdempotency --------------------------
(* Three requests under one key; see the .cfg files for the bounds.         *)
EXTENDS Idempotency, TLC

CONSTANTS a1, a2, a3

AttemptSymmetry == Permutations({a1, a2, a3})
=============================================================================
