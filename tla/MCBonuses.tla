------------------------------ MODULE MCBonuses ------------------------------
(* The instance of Bonuses that TLC checks. *)
EXTENDS Bonuses

\* One parent, who plays too.
OneParent == [c \in Children |-> CHOOSE p \in Players : TRUE]
=============================================================================
