---------------------- MODULE WithdrawalsImplementLedger ----------------------
(***************************************************************************)
(* The routes implement the ledger.                                        *)
(***************************************************************************)
EXTENDS Withdrawals

\* A withdrawal is paid from the moment Speed pays it, recorded or not.
Outcome(w) ==
  IF paid[w] > 0 THEN "paid"
  ELSE IF status[w] = "NONE" THEN "none"
  ELSE IF status[w] = "FAILED" THEN "failed"
  ELSE "open"

Ledger == INSTANCE WithdrawalLedger WITH
  funds    <- BTC_DEPOSIT,
  outcome  <- [w \in Withdrawals |-> Outcome(w)],
  owner    <- userId,
  size     <- amount,
  reserved <- [w \in Withdrawals |-> held[w] > 0]

\* Every behaviour of the routes without crashes and failed writes, with an
\* admin who looks at Speed and a provider that answers before a claim is
\* stale, is a behaviour of the ledger; a rejection's refund does arrive.
ImplementsLedger == Ledger!Spec
=============================================================================
