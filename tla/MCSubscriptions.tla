--------------------------- MODULE MCSubscriptions ---------------------------
(* The instances of Subscriptions that TLC checks. *)
EXTENDS Subscriptions

\* One customer with one subscription, and two with one each.
OneSub  == [c \in Customers |-> CHOOSE s \in Subs : TRUE]
=============================================================================
