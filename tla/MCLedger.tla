------------------------------ MODULE MCLedger ------------------------------
(* Ledger on small instances.                                               *)
EXTENDS Ledger, TLC

CONSTANTS b1, b2, s1, s2

WorkerSymmetry == Permutations(BareWorkers) \cup Permutations(ScopedWorkers)

=============================================================================
