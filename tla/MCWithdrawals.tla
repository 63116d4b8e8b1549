---------------------------- MODULE MCWithdrawals ----------------------------
(***************************************************************************)
(* Withdrawals with the symmetry the safety runs use: users, handlers,     *)
(* client slots and documents are each interchangeable.                    *)
(***************************************************************************)
EXTENDS Withdrawals, TLC

Symmetry ==
  Permutations(Users) \cup Permutations(Handlers)
    \cup Permutations(Clients) \cup Permutations(Withdrawals)
=============================================================================
