--------------------------- MODULE MCChangeControl ---------------------------
(* ChangeControl on small instances.  Which person, which diff and which   *)
(* transaction it is makes no difference.                                  *)
EXTENDS ChangeControl, TLC

Symmetry == Permutations(Persons) \cup Permutations(Diffs) \cup Permutations(Slots)

=============================================================================
