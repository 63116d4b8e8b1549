------------------------------ MODULE Repairs ------------------------------
(***************************************************************************)
(* The operator's scripts that pay or correct a user's money: stuck        *)
(* sessions (src/helpers/stuckSessionCompensation.js), the shortfall of    *)
(* old settlements, sessions that start in the future, days without a      *)
(* history, the reset of forged balances and the recalculation of          *)
(* BTC_DEPOSIT (src/scripts).                                              *)
(*                                                                         *)
(* One user, whose days are worth one unit each.  The server goes on while *)
(* a script runs; of it there is only what it does to the wallet: a day    *)
(* settled, a withdrawal asked for, refused or sent.                       *)
(***************************************************************************)
EXTENDS Integers, FiniteSets, FiniteSetsExt

CONSTANTS
    LiveDays,      \* days the server settles
    Underpaid,     \* days settled below their worth, as the log says
    StuckDays,     \* days inside a stuck session on which the app was opened
    FutureDays,    \* days of sessions whose local start reads as a later day
    Forged,        \* BTC the wallet holds that was never mined
    Operators,     \* script runs at work at a time
    MaxMoves,      \* bound: withdrawals
    MaxMishaps     \* bound: failed calls and stopped scripts

ASSUME RepairsAssumption ==
    /\ LiveDays \cap Underpaid = {} /\ (LiveDays \cup Underpaid) \cap StuckDays = {}
    /\ FutureDays \cap (LiveDays \cup Underpaid \cup StuckDays) = {}
    /\ IsFiniteSet(LiveDays \cup Underpaid \cup StuckDays \cup FutureDays)
    /\ 0 \notin LiveDays \cup Underpaid \cup StuckDays \cup FutureDays
    /\ Forged \in Nat /\ MaxMoves \in Nat /\ MaxMishaps \in Nat

VARIABLES
    wallet,       \* BTC_DEPOSIT
    row,          \* days with a BalanceHistory row
    recorded,     \* BTC in the row of a day
    dayCredit,    \* history: units the wallet was given for a day
    waiting,      \* withdrawals taken from the wallet and not sent
    sent,         \* withdrawals sent
    mark,         \* settlementcompensations rows
    compensated,  \* StuckSessionRecovery.compensatedDays
    ended,        \* days whose session was ended by repair-future-dates
    filled,       \* days whose row was made by the backfill
    run,          \* the scripts
    half,         \* history: days whose payment was cut short
    moves, mishaps

walletVars == <<wallet, waiting, sent>>
dayVars    == <<row, recorded, dayCredit>>
logVars    == <<mark, compensated, ended, filled>>
repVars    == <<walletVars, dayVars, logVars, run, half, moves, mishaps>>

RepDays == LiveDays \cup Underpaid \cup StuckDays \cup FutureDays

NoRun == [at |-> "none", todo |-> {}, day |-> 0, seen |-> 0, sum |-> 0, out |-> 0,
          paid |-> {}, moved |-> 0]

\* The types of the variables; money is never negative.
RepTypeOK ==
    /\ wallet \in Nat /\ waiting \in Nat /\ sent \in Nat
    /\ row \subseteq RepDays
    /\ recorded \in [RepDays -> Nat] /\ dayCredit \in [RepDays -> Nat]
    /\ mark \in [Underpaid -> {"none", "pending", "credited", "failed"}]
    /\ compensated \subseteq StuckDays
    /\ ended \subseteq FutureDays /\ filled \subseteq row
    /\ run \in [Operators ->
           [at: {"none", "mark", "inc", "find", "write", "done", "stuck", "history",
                 "payouts", "reset", "subtract", "load", "save", "future", "create", "end"},
            todo: SUBSET RepDays, day: RepDays \cup {0}, seen: Nat, sum: Nat,
            out: Nat, paid: SUBSET StuckDays, moved: 0..2]]
    /\ half \subseteq RepDays
    /\ moves \in 0..MaxMoves /\ mishaps \in 0..MaxMishaps

RepInit ==
    /\ wallet = Forged /\ waiting = 0 /\ sent = 0
    /\ row = Underpaid
    /\ recorded = [d \in RepDays |-> 0] /\ dayCredit = [d \in RepDays |-> 0]
    /\ mark = [d \in Underpaid |-> "none"]
    /\ compensated = {} /\ ended = {} /\ filled = {}
    /\ run = [o \in Operators |-> NoRun]
    /\ half = {}
    /\ moves = 0 /\ mishaps = 0

----------------------------------------------------------------------------
(* The server, seen from the wallet. moved counts its steps, up to two, while *)
(* a script assesses the wallet it will overwrite.                            *)

Assesses(r) == r.at \in {"history", "payouts", "reset", "subtract", "load", "save"}

Moved == run' = [o \in Operators |->
             IF Assesses(run[o]) /\ run[o].moved < 2
             THEN [run[o] EXCEPT !.moved = run[o].moved + 1] ELSE run[o]]

\* A settlement replaces a row that the backfill made.
SettleLiveDay(d) ==
    /\ d \notin row \/ d \in filled
    /\ wallet' = wallet + 1
    /\ row' = row \cup {d} /\ filled' = filled \ {d}
    /\ recorded' = [recorded EXCEPT ![d] = 1]
    /\ dayCredit' = [dayCredit EXCEPT ![d] = @ + 1]
    /\ Moved
    /\ UNCHANGED <<waiting, sent, mark, compensated, ended, half, moves, mishaps>>

AskWithdrawal ==
    /\ wallet > 0 /\ moves < MaxMoves
    /\ moves' = moves + 1
    /\ wallet' = wallet - 1 /\ waiting' = waiting + 1
    /\ Moved
    /\ UNCHANGED <<sent, dayVars, logVars, half, mishaps>>

RefuseWithdrawal ==
    /\ waiting > 0
    /\ wallet' = wallet + 1 /\ waiting' = waiting - 1
    /\ Moved
    /\ UNCHANGED <<sent, dayVars, logVars, half, moves, mishaps>>

SendWithdrawal ==
    /\ waiting > 0
    /\ waiting' = waiting - 1 /\ sent' = sent + 1
    /\ Moved
    /\ UNCHANGED <<wallet, dayVars, logVars, half, moves, mishaps>>

----------------------------------------------------------------------------
RunGoes(o, r) == run' = [run EXCEPT ![o] = r]

At(o, step) == run[o].at = step

\* Bound: a reset, a recalculation or a repair of dates has no other script
\* beside it.
Alone == \A p \in Operators : At(p, "none")

NoneAlone ==
    \A p \in Operators :
        run[p].at \notin {"history", "payouts", "reset", "subtract", "load", "save",
                          "future", "create", "end"}

----------------------------------------------------------------------------
(* compensate-settlement-shortfall.js *)

\* The days that have a mark are read once.
StartShortfall(o) ==
    /\ At(o, "none") /\ NoneAlone
    /\ \E d \in Underpaid : mark[d] = "none"
    /\ RunGoes(o, [NoRun EXCEPT !.at = "mark",
                                !.todo = {d \in Underpaid : mark[d] = "none"}])
    /\ UNCHANGED <<walletVars, dayVars, logVars, half, moves, mishaps>>

NextShortfall(r) ==
    IF r.todo = {} THEN NoRun
    ELSE [NoRun EXCEPT !.at = "mark", !.todo = r.todo]

IsMarked(d) == mark[d] # "none"

\* insertOne comes first. Refused by the index, the catch writes "failed" over
\* whatever the other run has there.
MarkDay(o, d) ==
    LET r == run[o]  rest == [r EXCEPT !.todo = r.todo \ {d}] IN
    /\ At(o, "mark") /\ d \in r.todo
    /\ IF IsMarked(d)
       THEN mark' = [mark EXCEPT ![d] = "failed"] /\ RunGoes(o, NextShortfall(rest))
       ELSE /\ mark' = [mark EXCEPT ![d] = "pending"]
            /\ RunGoes(o, [rest EXCEPT !.at = "inc", !.day = d])
    /\ UNCHANGED <<walletVars, dayVars, compensated, ended, filled, half, moves, mishaps>>

PayShortfall(o) ==
    /\ At(o, "inc")
    /\ wallet' = wallet + 1
    /\ dayCredit' = [dayCredit EXCEPT ![run[o].day] = @ + 1]
    /\ RunGoes(o, [run[o] EXCEPT !.at = "find"])
    /\ UNCHANGED <<waiting, sent, row, recorded, logVars, half, moves, mishaps>>

FindHistory(o) ==
    /\ At(o, "find")
    /\ RunGoes(o, [run[o] EXCEPT !.at = "write", !.seen = recorded[run[o].day]])
    /\ UNCHANGED <<walletVars, dayVars, logVars, half, moves, mishaps>>

\* The row that was found, or a new one.
WriteHistory(o) ==
    /\ At(o, "write")
    /\ row' = row \cup {run[o].day}
    /\ recorded' = [recorded EXCEPT ![run[o].day] = run[o].seen + 1]
    /\ RunGoes(o, [run[o] EXCEPT !.at = "done", !.seen = 0])
    /\ UNCHANGED <<walletVars, dayCredit, logVars, half, moves, mishaps>>

MarkCredited(o) ==
    /\ At(o, "done")
    /\ mark' = [mark EXCEPT ![run[o].day] = "credited"]
    /\ RunGoes(o, NextShortfall(run[o]))
    /\ UNCHANGED <<walletVars, dayVars, compensated, ended, filled, half, moves, mishaps>>

----------------------------------------------------------------------------
(* planCompensation and applyCompensation *)

\* The plan is made from the records and the access logs; what was paid is
\* only looked at when a day is paid. Two records of one stuck session
\* (a snapshot and the log's) give two such plans.
StartStuck(o) ==
    /\ At(o, "none") /\ NoneAlone
    /\ StuckDays # {}
    /\ RunGoes(o, [NoRun EXCEPT !.at = "stuck", !.todo = StuckDays])
    /\ UNCHANGED <<walletVars, dayVars, logVars, half, moves, mishaps>>

\* Mutation of IsSettled: the plan is trusted, the history is not asked again.
IsSettledNever(d) == FALSE

IsSettled(d) == d \in row

\* One transaction: the day's row and the credit, unless the row is there.
PayStuckDay(o, d) ==
    LET rest == [run[o] EXCEPT !.todo = run[o].todo \ {d}] IN
    /\ At(o, "stuck") /\ d \in run[o].todo
    /\ IF IsSettled(d) THEN RunGoes(o, rest) /\ UNCHANGED <<wallet, dayVars>>
       ELSE /\ wallet' = wallet + 1
            /\ row' = row \cup {d}
            /\ recorded' = [recorded EXCEPT ![d] = 1]
            /\ dayCredit' = [dayCredit EXCEPT ![d] = @ + 1]
            /\ RunGoes(o, [rest EXCEPT !.paid = run[o].paid \cup {d}])
    /\ UNCHANGED <<waiting, sent, logVars, half, moves, mishaps>>

\* An error in the transaction is noted and the next day is tried.
StuckDayFails(o, d) ==
    /\ At(o, "stuck") /\ d \in run[o].todo
    /\ mishaps < MaxMishaps /\ mishaps' = mishaps + 1
    /\ RunGoes(o, [run[o] EXCEPT !.todo = run[o].todo \ {d}])
    /\ UNCHANGED <<walletVars, dayVars, logVars, half, moves>>

\* Mutation of DaysDone: every day of the plan.
DaysPlanned(r) == StuckDays

DaysDone(r) == r.paid

RecordCompensation(o) ==
    /\ At(o, "stuck") /\ run[o].todo = {}
    /\ compensated' = compensated \cup DaysDone(run[o])
    /\ RunGoes(o, NoRun)
    /\ UNCHANGED <<walletVars, dayVars, mark, ended, filled, half, moves, mishaps>>

----------------------------------------------------------------------------
(* reset-fake-balances.js: assess and reset. *)

Sum(f, S) == MapThenSumSet(LAMBDA d : f[d], S)

StartReset(o) ==
    /\ Alone
    /\ RunGoes(o, [NoRun EXCEPT !.at = "history", !.seen = wallet])
    /\ UNCHANGED <<walletVars, dayVars, logVars, half, moves, mishaps>>

AssessHistory(o) ==
    /\ At(o, "history")
    /\ RunGoes(o, [run[o] EXCEPT !.at = "payouts", !.sum = Sum(recorded, RepDays)])
    /\ UNCHANGED <<walletVars, dayVars, logVars, half, moves, mishaps>>

AssessPayouts(o) ==
    /\ At(o, "payouts")
    /\ RunGoes(o, [run[o] EXCEPT !.at = "reset", !.out = waiting + sent])
    /\ UNCHANGED <<walletVars, dayVars, logVars, half, moves, mishaps>>

\* Mutation of Supported: without the floor.
SupportedUnfloored(r) == r.sum - r.out

Supported(r) == IF r.sum > r.out THEN r.sum - r.out ELSE 0

\* Mutation of StillHolds: the update selects the wallet by its user alone.
StillHoldsAnything(r) == TRUE

StillHolds(r) == wallet = r.seen

\* The wallet is lowered to what is supported if it holds what was read.
ResetWallet(o) ==
    /\ At(o, "reset")
    /\ wallet' = IF StillHolds(run[o]) /\ Supported(run[o]) < run[o].seen
                 THEN Supported(run[o]) ELSE wallet
    /\ RunGoes(o, NoRun)
    /\ UNCHANGED <<waiting, sent, dayVars, logVars, half, moves, mishaps>>

----------------------------------------------------------------------------
(* recalculate-btc-deposit.js *)

StartRecalculation(o) ==
    /\ Alone
    /\ RunGoes(o, [NoRun EXCEPT !.at = "subtract", !.sum = Sum(recorded, RepDays)])
    /\ UNCHANGED <<walletVars, dayVars, logVars, half, moves, mishaps>>

\* Mutation of Deducted: refused and failed withdrawals count too.
DeductedEver == moves

\* Withdrawals that were sent; those that wait have been taken already but are
\* not counted.
Deducted == sent

SumWithdrawals(o) ==
    /\ At(o, "subtract")
    /\ RunGoes(o, [run[o] EXCEPT !.at = "load", !.out = Deducted])
    /\ UNCHANGED <<walletVars, dayVars, logVars, half, moves, mishaps>>

LoadBalance(o) ==
    /\ At(o, "load")
    /\ RunGoes(o, [run[o] EXCEPT !.at = "save", !.seen = wallet])
    /\ UNCHANGED <<walletVars, dayVars, logVars, half, moves, mishaps>>

\* What was computed replaces what is there, unless it was the same.
SaveBalance(o) ==
    /\ At(o, "save")
    /\ wallet' = IF Supported(run[o]) = run[o].seen THEN wallet ELSE Supported(run[o])
    /\ RunGoes(o, NoRun)
    /\ UNCHANGED <<waiting, sent, dayVars, logVars, half, moves, mishaps>>

----------------------------------------------------------------------------
(* repair-future-dates.js *)

\* The sessions are read once; what is on at the time is asked for each.
StartFuture(o) ==
    /\ Alone /\ FutureDays \ ended # {}
    /\ RunGoes(o, [NoRun EXCEPT !.at = "future", !.todo = FutureDays \ ended])
    /\ UNCHANGED <<walletVars, dayVars, logVars, half, moves, mishaps>>

\* A day that is in the history is not paid, its session is ended all the same.
PayFutureDay(o, d) ==
    /\ At(o, "future") /\ d \in run[o].todo
    /\ IF IsSettled(d) THEN RunGoes(o, [run[o] EXCEPT !.at = "end", !.day = d])
                            /\ UNCHANGED <<wallet, dayCredit>>
       ELSE /\ wallet' = wallet + 1
            /\ dayCredit' = [dayCredit EXCEPT ![d] = @ + 1]
            /\ RunGoes(o, [run[o] EXCEPT !.at = "create", !.day = d])
    /\ UNCHANGED <<waiting, sent, row, recorded, logVars, half, moves,
                   mishaps>>

CreateFutureDay(o) ==
    /\ At(o, "create")
    /\ row' = row \cup {run[o].day}
    /\ recorded' = [recorded EXCEPT ![run[o].day] = @ + 1]
    /\ RunGoes(o, [run[o] EXCEPT !.at = "end"])
    /\ UNCHANGED <<walletVars, dayCredit, logVars, half, moves, mishaps>>

EndSession(o) ==
    LET d == run[o].day  rest == run[o].todo \ {d} IN
    /\ At(o, "end")
    /\ ended' = ended \cup {d}
    /\ RunGoes(o, IF rest = {} THEN NoRun
                  ELSE [run[o] EXCEPT !.at = "future", !.todo = rest, !.day = 0])
    /\ UNCHANGED <<walletVars, dayVars, mark, compensated, filled, half, moves, mishaps>>

----------------------------------------------------------------------------
(* backfill-balance-history-date-range.js *)

\* One upsert of the bulk, which only makes rows; the wallet is left as it is.
\* Bound: one day that the server has not settled.
FillDay(d) ==
    /\ filled = {} /\ d \notin row
    /\ row' = row \cup {d}
    /\ recorded' = [recorded EXCEPT ![d] = 1]
    /\ filled' = {d}
    /\ Moved
    /\ UNCHANGED <<walletVars, dayCredit, mark, compensated, ended, half, moves, mishaps>>

----------------------------------------------------------------------------
(* Faults. *)

\* A call of the shortfall script fails: the day is marked failed.
ShortfallFails(o) ==
    LET d == run[o].day IN
    /\ run[o].at \in {"inc", "find", "write", "done"}
    /\ mishaps < MaxMishaps /\ mishaps' = mishaps + 1
    /\ mark' = [mark EXCEPT ![d] = "failed"]
    /\ half' = half \cup {d}
    /\ RunGoes(o, NextShortfall(run[o]))
    /\ UNCHANGED <<walletVars, dayVars, compensated, ended, filled, moves>>

ScriptStopped(o) ==
    /\ ~At(o, "none")
    /\ mishaps < MaxMishaps /\ mishaps' = mishaps + 1
    /\ half' = half \cup ({run[o].day} \ {0})
    /\ RunGoes(o, NoRun)
    /\ UNCHANGED <<walletVars, dayVars, mark, compensated, ended, filled, moves>>

----------------------------------------------------------------------------
RepNext ==
    \/ \E d \in LiveDays : SettleLiveDay(d)
    \/ \E d \in LiveDays : FillDay(d)
    \/ AskWithdrawal \/ RefuseWithdrawal \/ SendWithdrawal
    \/ \E o \in Operators :
           \/ StartShortfall(o) \/ PayShortfall(o) \/ FindHistory(o) \/ WriteHistory(o)
           \/ MarkCredited(o) \/ ShortfallFails(o)
           \/ StartStuck(o) \/ RecordCompensation(o)
           \/ StartReset(o) \/ AssessHistory(o) \/ AssessPayouts(o) \/ ResetWallet(o)
           \/ StartRecalculation(o) \/ SumWithdrawals(o) \/ LoadBalance(o) \/ SaveBalance(o)
           \/ StartFuture(o) \/ CreateFutureDay(o) \/ EndSession(o)
           \/ ScriptStopped(o)
           \/ \E d \in RepDays :
                  \/ MarkDay(o, d) \/ PayStuckDay(o, d) \/ StuckDayFails(o, d)
                  \/ PayFutureDay(o, d)

RepSpec == RepInit /\ [][RepNext]_repVars

----------------------------------------------------------------------------
(* Properties *)

\* A day is paid once, whichever scripts run, overlap, stop and are run again:
\* "running the script again never pays a day twice"
\* (compensate-settlement-shortfall.js:13-15), "pays each day once"
\* (stuckSessionCompensation.js:261). The repair of dates pays before it
\* records: stopped in between it pays again.
DayPaidOnce ==
    \A d \in RepDays : dayCredit[d] <= 1 \/ (d \in FutureDays \cap half)

\* A day's history is what the wallet was given for it, except while a script
\* is between the two or was cut short there, and for a day the backfill made
\* up, which only a recalculation pays until the server settles it; a day
\* recorded as compensated was paid.
HistoryIsPaid ==
    /\ \A d \in RepDays :
           \/ recorded[d] = dayCredit[d]
           \/ d \in half
           \/ \E o \in Operators : run[o].day = d
           \/ d \in filled /\ recorded[d] = dayCredit[d] + 1
    /\ \A d \in compensated : dayCredit[d] = 1

Earned == Sum(dayCredit, RepDays) - waiting - sent

\* A reset takes nothing that was earned, even if the wallet changed once while
\* it ran: it is then left alone. Changes that cancel out are not noticed
\* (reset-fake-balances.js:85-92).
ResetSparesEarned ==
    \A o \in Operators :
        ResetWallet(o) /\ half = {} /\ run[o].moved < 2 /\ wallet >= Earned
            => wallet' >= Earned

\* A recalculation during which nothing happens, with no withdrawal waiting,
\* leaves exactly what was earned and the days the backfill made up
\* (recalculate-btc-deposit.js:4-11).
RecalculationIsExact ==
    \A o \in Operators :
        /\ SaveBalance(o) /\ half = {} /\ run[o].moved = 0 /\ waiting = 0
        /\ Earned >= 0
        => wallet' = Earned + Cardinality(filled)

\* Days are paid once and as recorded, and the two scripts that overwrite a
\* wallet take nothing that was earned.
RepairsAreExact ==
    [][DayPaidOnce' /\ HistoryIsPaid' /\ ResetSparesEarned /\ RecalculationIsExact]_repVars
=============================================================================
