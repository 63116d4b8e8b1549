----------------------------- MODULE MCMiningDay -----------------------------
(***************************************************************************)
(* MiningDay with the symmetry its safety runs use: users, runs of the job *)
(* and request slots are each interchangeable.                             *)
(***************************************************************************)
EXTENDS MiningDay, TLC

Symmetry == Permutations(Users) \cup Permutations(Jobs) \cup Permutations(Posts)
=============================================================================
