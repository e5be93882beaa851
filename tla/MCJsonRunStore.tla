--------------------------- MODULE MCJsonRunStore ---------------------------
(* JsonRunStore on two runs: one call's failed write, another's flush.     *)
EXTENDS JsonRunStore, TLC

RunSymmetry == Permutations(Runs)
=============================================================================
