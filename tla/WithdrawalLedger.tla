--------------------------- MODULE WithdrawalLedger ---------------------------
(***************************************************************************)
(* What the withdrawal queue promises, without claims, notes, requests or  *)
(* provider calls: a user's money is either in the deposit or reserved for *)
(* one withdrawal; only reserved money is paid out; a withdrawal that is   *)
(* turned down gives its reservation back, once; a paid one never does.    *)
(***************************************************************************)
EXTENDS Integers

CONSTANTS Users, Withdrawals, Amounts, None, InitialDeposit

VARIABLES
  funds,      \* what each user can still ask for
  outcome,    \* what became of each withdrawal
  owner, size,
  reserved    \* the withdrawal's amount is out of its owner's funds

vars == <<funds, outcome, owner, size, reserved>>

Init ==
  /\ funds = [u \in Users |-> InitialDeposit]
  /\ outcome = [w \in Withdrawals |-> "none"]
  /\ owner = [w \in Withdrawals |-> None]
  /\ size = [w \in Withdrawals |-> 0]
  /\ reserved = [w \in Withdrawals |-> FALSE]

\* A user has at most one open withdrawal.  A new one may reserve its amount
\* at once.
Open(w, u, a, now) ==
  /\ outcome[w] = "none"
  /\ ~ \E v \in Withdrawals : outcome[v] = "open" /\ owner[v] = u
  /\ outcome' = [outcome EXCEPT ![w] = "open"]
  /\ owner' = [owner EXCEPT ![w] = u]
  /\ size' = [size EXCEPT ![w] = a]
  /\ reserved' = [reserved EXCEPT ![w] = now]
  /\ IF now THEN funds[u] >= a /\ funds' = [funds EXCEPT ![u] = @ - a]
            ELSE UNCHANGED funds

Reserve(w) ==
  /\ outcome[w] = "open"
  /\ ~reserved[w]
  /\ funds[owner[w]] >= size[w]
  /\ funds' = [funds EXCEPT ![owner[w]] = @ - size[w]]
  /\ reserved' = [reserved EXCEPT ![w] = TRUE]
  /\ UNCHANGED <<outcome, owner, size>>

Return(w) ==
  /\ outcome[w] # "paid"
  /\ reserved[w]
  /\ funds' = [funds EXCEPT ![owner[w]] = @ + size[w]]
  /\ reserved' = [reserved EXCEPT ![w] = FALSE]
  /\ UNCHANGED <<outcome, owner, size>>

Pay(w) ==
  /\ outcome[w] = "open"
  /\ reserved[w]
  /\ outcome' = [outcome EXCEPT ![w] = "paid"]
  /\ UNCHANGED <<funds, owner, size, reserved>>

TurnDown(w) ==
  /\ outcome[w] = "open"
  /\ outcome' = [outcome EXCEPT ![w] = "failed"]
  /\ UNCHANGED <<funds, owner, size, reserved>>

Next ==
  \E w \in Withdrawals :
    \/ \E u \in Users, a \in Amounts, now \in BOOLEAN : Open(w, u, a, now)
    \/ Reserve(w) \/ Return(w) \/ Pay(w) \/ TurnDown(w)

\* What was turned down is given back eventually.
Fairness ==
  \A w \in Withdrawals : WF_vars(outcome[w] = "failed" /\ Return(w))

Spec == Init /\ [][Next]_vars /\ Fairness
=============================================================================
