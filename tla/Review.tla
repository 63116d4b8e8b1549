------------------------------- MODULE Review -------------------------------
(***************************************************************************)
(* The warning beside a withdrawal: does the history of an account explain *)
(* what it holds (src/helpers/withdrawalRisk.js), as the admin's page asks *)
(* it (src/routes/admin.js, GET /withdrawals) while the account goes on:   *)
(* days are settled, deposits arrive, power is bought and lost, requests   *)
(* are approved and rejected.                                              *)
(*                                                                         *)
(* One account.  Amounts are small numbers; FreeMost is what the longest   *)
(* day of a free account mines.  Referral rewards are an old fixed sum and *)
(* left out.                                                               *)
(***************************************************************************)
EXTENDS Integers, FiniteSets, FiniteSetsExt

CONSTANTS
    FreeMost,     \* dayCapBtc(0)
    Power,        \* what bought power adds to a day
    ForgedDay,    \* a day the old code let the app report
    Deposited,    \* the amount of the one deposit
    Asked,        \* the amount of a withdrawal
    Credits,    \* what support may have credited
    MaxSteps      \* bound: steps of the account

ASSUME ReviewAssumption ==
    /\ {FreeMost, Power, ForgedDay, Deposited, Asked} \subseteq Nat \ {0}
    /\ Credits \subseteq Nat /\ MaxSteps \in Nat
    /\ ForgedDay > FreeMost + Power

VARIABLES
    days,         \* BalanceHistory: how many days of each amount
    support,      \* what support credited (history)
    balance,      \* BTC_DEPOSIT
    power,        \* purchasedHashpower
    settling,     \* the amount of a day that is in the balance, and not yet recorded
    incoming,     \* the deposit: "none", "paid" (in the balance), "marked" (credited)
    request,      \* the withdrawal at work
    sentOut,      \* withdrawals that were paid
    review,       \* the page at work
    steps

accountVars ==
    <<days, support, balance, power, settling, incoming, request, sentOut, steps>>
revVars     == <<accountVars, review>>

Amounts == {FreeMost, FreeMost + Power, ForgedDay}
Sources == {"days", "deposit", "paid", "balance", "power"}
Unseen  == -1
NoPage  == [at |-> "none", unread |-> {}, mined |-> [d \in Amounts |-> 0], deposit |-> 0,
            paid |-> 0, balance |-> 0, power |-> 0, moved |-> FALSE, says |-> "none"]

RevTypeOK ==
    /\ days \in [Amounts -> Nat] /\ support \in Credits
    /\ balance \in Nat /\ power \in {0, Power}
    /\ settling \in Amounts \cup {0}
    /\ incoming \in {"none", "paid", "marked"}
    /\ request \in {"none", "asked", "deducted", "reserved", "restored", "rejected"}
    /\ sentOut \in Nat /\ steps \in 0..MaxSteps
    /\ review \in [at: {"none", "reads", "shown"}, unread: SUBSET Sources,
                   mined: [Amounts -> Nat], deposit: Nat, paid: Nat, balance: Nat,
                   power: {0, Power}, moved: BOOLEAN,
                   says: {"none", "clean", "unexplained"}]

RevInit ==
    /\ \E forged \in 0..1 :
           /\ days = [d \in Amounts |-> IF d = ForgedDay THEN forged ELSE 0]
           /\ support \in Credits
           /\ balance = forged * ForgedDay + support
    /\ power \in {0, Power}
    /\ settling = 0 /\ incoming = "none" /\ request = "none" /\ sentOut = 0
    /\ review = NoPage /\ steps = 0

----------------------------------------------------------------------------
(* The account.  A step while the page reads is noted.                      *)

Move ==
    /\ steps < MaxSteps /\ steps' = steps + 1
    /\ review' = IF review.at = "reads" THEN [review EXCEPT !.moved = TRUE] ELSE review

\* The settlement saves the balance, then writes the history row.
SettleDay ==
    /\ Move /\ settling = 0
    /\ settling' = FreeMost + power /\ balance' = balance + FreeMost + power
    /\ UNCHANGED <<days, support, power, incoming, request, sentOut>>

RecordDay ==
    /\ Move /\ settling # 0
    /\ days' = [days EXCEPT ![settling] = days[settling] + 1] /\ settling' = 0
    /\ UNCHANGED <<support, balance, power, incoming, request, sentOut>>

\* The watcher pays a deposit, then saves it as credited.
PayDeposit ==
    /\ Move /\ incoming = "none"
    /\ incoming' = "paid" /\ balance' = balance + Deposited
    /\ UNCHANGED <<days, support, power, settling, request, sentOut>>

MarkDeposit ==
    /\ Move /\ incoming = "paid" /\ incoming' = "marked"
    /\ UNCHANGED <<days, support, balance, power, settling, request, sentOut>>

ChangePower ==
    /\ Move /\ power' = Power - power
    /\ UNCHANGED <<days, support, balance, settling, incoming, request, sentOut>>

\* Mutation of AskReserving: the balance is not looked at.
AskReservingUnchecked ==
    /\ Move /\ request = "none"
    /\ request' = "reserved" /\ balance' = balance - Asked
    /\ UNCHANGED <<days, support, power, settling, incoming, sentOut>>

\* A request with nothing deducted, and one that reserves in a transaction.
AskPlain ==
    /\ Move /\ request = "none" /\ balance >= Asked /\ request' = "asked"
    /\ UNCHANGED <<days, support, balance, power, settling, incoming, sentOut>>

AskReserving ==
    /\ Move /\ request = "none" /\ balance >= Asked
    /\ request' = "reserved" /\ balance' = balance - Asked
    /\ UNCHANGED <<days, support, power, settling, incoming, sentOut>>

\* An approval deducts, saves balanceDeducted, and pays; a refused payment gives
\* back, then saves that; a rejection sets FAILED, then gives back.
Deduct ==
    /\ Move /\ request = "asked" /\ balance >= Asked
    /\ request' = "deducted" /\ balance' = balance - Asked
    /\ UNCHANGED <<days, support, power, settling, incoming, sentOut>>

Restore ==
    /\ Move /\ request \in {"reserved", "rejected"}
    /\ request' = IF request = "reserved" THEN "restored" ELSE "none"
    /\ balance' = balance + Asked
    /\ UNCHANGED <<days, support, power, settling, incoming, sentOut>>

SaveRequest ==
    /\ Move
    /\ \/ request = "deducted" /\ request' = "reserved"
       \/ request = "restored" /\ request' = "asked"
       \/ request = "reserved" /\ request' = "rejected"
       \/ request = "asked" /\ request' = "none"
    /\ UNCHANGED <<days, support, balance, power, settling, incoming, sentOut>>

Pay ==
    /\ Move /\ request = "reserved"
    /\ request' = "none" /\ sentOut' = sentOut + 1
    /\ UNCHANGED <<days, support, balance, power, settling, incoming>>

----------------------------------------------------------------------------
(* assessWithdrawals *)

\* A step of the account is half done: one of two writes is still to come.
HalfDone ==
    settling # 0 \/ incoming = "paid" \/ request \in {"deducted", "restored", "rejected"}

OpenPage ==
    /\ review.at # "reads"
    /\ review' = [NoPage EXCEPT !.at = "reads", !.unread = Sources, !.moved = HalfDone]
    /\ UNCHANGED accountVars

\* Mutation of PaidOut: what was sent is no longer held.
PaidOutReserved == IF request \in {"reserved", "restored"} THEN Asked ELSE 0

\* SENT, and PENDING with balanceDeducted.
PaidOut ==
    sentOut * Asked + IF request \in {"reserved", "restored"} THEN Asked ELSE 0

\* The finds are sent at once and answered in any order.
ReadSource(s) ==
    /\ s \in review.unread
    /\ LET seen == [review EXCEPT !.unread = review.unread \ {s}] IN
       review' = CASE s = "days"    -> [seen EXCEPT !.mined = days]
                   [] s = "deposit" -> [seen EXCEPT !.deposit =
                                           IF incoming = "marked" THEN Deposited ELSE 0]
                   [] s = "paid"    -> [seen EXCEPT !.paid = PaidOut]
                   [] s = "balance" -> [seen EXCEPT !.balance = balance]
                   [] s = "power"   -> [seen EXCEPT !.power = power]
    /\ UNCHANGED accountVars

\* Mutation of DayCap: bought power is not counted.
DayCapFree(p) == FreeMost

DayCap(p) == FreeMost + p

MinedWithin(p) == MapThenSumSet(LAMBDA d : review.mined[d] * Min({d, DayCap(p)}), Amounts)

\* unexplainedBalance.
Explained == MinedWithin(review.power) + review.deposit
Excess    == review.balance + review.paid - Explained

\* Mutation of Verdicts: a day of the power bought is tolerated.
VerdictsOfCap == IF Excess <= DayCap(review.power) THEN "clean" ELSE "unexplained"

Verdicts == IF Excess <= Max({Explained \div 100, DayCap(0)}) THEN "clean"
            ELSE "unexplained"

ShowPage ==
    /\ review.at = "reads" /\ review.unread = {}
    /\ review' = [review EXCEPT !.at = "shown", !.says = Verdicts]
    /\ UNCHANGED accountVars

\* A find fails: the page comes without checks.
ReviewFails ==
    /\ review.at = "reads"
    /\ review' = [NoPage EXCEPT !.at = "shown"]
    /\ UNCHANGED accountVars

RevNext ==
    \/ SettleDay \/ RecordDay \/ PayDeposit \/ MarkDeposit \/ ChangePower
    \/ AskPlain \/ AskReserving \/ Deduct \/ Restore \/ SaveRequest \/ Pay
    \/ OpenPage \/ \E s \in Sources : ReadSource(s)
    \/ ShowPage \/ ReviewFails

RevSpec == RevInit /\ [][RevNext]_revVars

----------------------------------------------------------------------------
(* Properties *)

\* Days as the page read them that bought power made, now that it is gone.
Lapsed == review.power = 0 /\ review.mined[FreeMost + Power] > 0

\* What was never earned, deposited or bought, as far as a day's cap shows it.
Unearned == support + review.mined[ForgedDay] * (ForgedDay - DayCap(review.power))

\* An account that earned all it holds is accused only when it moved during the
\* finds, was between two writes, or once had power it has no longer
\* (withdrawalRisk.js:18-19 names the causes known: support and old plans).
OnlyCauseAccused ==
    review.says = "unexplained" => review.moved \/ Lapsed \/ Unearned > 0

\* An account at rest that is shown clean has no more unearned than one free day,
\* wherever the money went since (the paid statuses, :29).
ForgedIsSeen ==
    review.says = "clean" /\ ~review.moved =>
        Unearned <= Max({Explained \div 100, FreeMost})

\* Together they say: at rest the page's excess is what was never earned, no
\* matter how far requests have come, plus what lapsed power explains no more.
ExcessIsUnearned ==
    review.at = "shown" /\ review.says # "none" /\ ~review.moved =>
        Excess = Unearned + IF Lapsed THEN Power * review.mined[FreeMost + Power] ELSE 0

\* The page accuses whom it should and nobody else.
ReviewIsFair == OnlyCauseAccused /\ ForgedIsSeen /\ ExcessIsUnearned
=============================================================================
