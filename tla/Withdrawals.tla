----------------------------- MODULE Withdrawals -----------------------------
(***************************************************************************)
(* The withdrawal queue of routes/api_routes/withdrawal_routes.js.         *)
(*                                                                         *)
(* Every handler is an async function of one Node process: it runs         *)
(* undisturbed from one await to the next, and any other handler may run   *)
(* in between.  An action below is therefore what a handler does from one  *)
(* await up to and including the next database operation or provider call. *)
(* A MongoDB update of one document is atomic, and so is a transaction.    *)
(*                                                                         *)
(* Amounts are whole units, a clock tick is one minute, and the payment    *)
(* provider (Speed) is modelled by the answers the routes tell apart.      *)
(***************************************************************************)
EXTENDS Integers, FiniteSets

CONSTANTS
  Users,          \* owners of a balance row
  Withdrawals,    \* the withdrawal documents that can be created
  Amounts,        \* the BTC amounts a user can ask for
  Handlers,       \* admin requests the server works on at the same time
  Clients,        \* create requests the server works on at the same time
  None,           \* "no user" and "no withdrawal"
  InitialDeposit, \* BTC_DEPOSIT of every user at the start
  MinedBtc,       \* Balance.BTC of every user: read here, never written
  UsdtFallback,   \* SPEED_USDT_FALLBACK is not "off"
  SendMinutes,    \* the longest a /send call may take (axios timeout)
  SwapMinutes,    \* the longest topUpSatsFromUsdt may take
  StaleMinutes,   \* the age beyond which a claim may be rejected
  AdminChecks,    \* the admin looks at Speed before touching a claimed one
  MaxCrashes,     \* bound: process restarts
  MaxDbErrors     \* bound: writes of a running handler that fail

ASSUME UnitsAssumption ==
  /\ Amounts \subseteq Nat \ {0}
  /\ InitialDeposit \in Nat
  /\ MinedBtc \in Nat

ASSUME TimeAssumption ==
  /\ SendMinutes \in Nat
  /\ SwapMinutes \in Nat
  /\ StaleMinutes \in Nat

ASSUME SwitchAssumption ==
  /\ UsdtFallback \in BOOLEAN
  /\ AdminChecks \in BOOLEAN
  /\ MaxCrashes \in Nat
  /\ MaxDbErrors \in Nat

ASSUME NoneAssumption == None \notin Users \cup Withdrawals

VARIABLES
  BTC_DEPOSIT,     \* Balance.BTC_DEPOSIT of each user
  status,          \* Withdrawal.status, "NONE" before the document exists
  userId,          \* Withdrawal.userId
  amount,          \* Withdrawal.defaultAmountNumeric
  balanceDeducted, \* Withdrawal.balanceDeducted
  claimAge,        \* minutes since approvalStartedAt, Unclaimed for null
  approvalNote,    \* Withdrawal.approvalNote is set
  pc,              \* where each admin request stands
  on,              \* the withdrawal each admin request works on
  inMemory,        \* balanceDeducted as that request loaded it
  left,            \* minutes left before the request's provider call times out
  creating,        \* the create request each client slot works on
  paid,            \* history: how often Speed has paid each withdrawal
  held,            \* history: deductions minus refunds made for each withdrawal
  crashes, dbErrors

docVars   == <<status, userId, amount, balanceDeducted, claimAge, approvalNote>>
adminVars == <<pc, on, inMemory, left>>
moneyVars == <<BTC_DEPOSIT, paid, held>>
faultVars == <<crashes, dbErrors>>
vars == <<docVars, adminVars, moneyVars, creating, faultVars>>

-----------------------------------------------------------------------------
(* Types.                                                                  *)

Statuses == {"NONE", "PENDING", "SENT", "CONFIRMED", "FAILED"}

Unclaimed == -1

\* Points of PATCH /:id/approve at which the request holds the claim.
ApprovePcs == {"claimed", "deducted", "sending", "swapping", "resending",
               "paid", "restoring", "restored", "releasing", "locking"}

\* Points of PATCH /:id/reject after the withdrawal was taken out of PENDING.
RejectPcs == {"refunding", "refunded", "reverting"}

\* Waiting for Speed: the only awaits that let time pass.
ProviderPcs == {"sending", "swapping", "resending"}

Routes == {"plain", "reserved"}

\* A create request: how many of its checks it has passed, and for what.
Creates == [step : 1..3, user : Users, amount : Amounts, route : Routes]
NoCreate == [step |-> 0]

TypeOK ==
  /\ BTC_DEPOSIT \in [Users -> Nat]
  /\ status \in [Withdrawals -> Statuses]
  /\ userId \in [Withdrawals -> Users \cup {None}]
  /\ amount \in [Withdrawals -> Nat]
  /\ balanceDeducted \in [Withdrawals -> BOOLEAN]
  /\ claimAge \in [Withdrawals -> Unclaimed .. (StaleMinutes + 1)]
  /\ approvalNote \in [Withdrawals -> BOOLEAN]
  /\ pc \in [Handlers -> {"idle"} \cup ApprovePcs \cup RejectPcs]
  /\ on \in [Handlers -> Withdrawals \cup {None}]
  /\ \A h \in Handlers : pc[h] # "idle" => on[h] \in Withdrawals
  /\ inMemory \in [Handlers -> BOOLEAN]
  /\ left \in [Handlers -> Nat]
  /\ creating \in [Clients -> Creates \cup {NoCreate}]
  /\ paid \in [Withdrawals -> Nat]
  /\ held \in [Withdrawals -> Int]
  /\ crashes \in Nat
  /\ dbErrors \in Nat

Init ==
  /\ BTC_DEPOSIT = [u \in Users |-> InitialDeposit]
  /\ status = [w \in Withdrawals |-> "NONE"]
  /\ userId = [w \in Withdrawals |-> None]
  /\ amount = [w \in Withdrawals |-> 0]
  /\ balanceDeducted = [w \in Withdrawals |-> FALSE]
  /\ claimAge = [w \in Withdrawals |-> Unclaimed]
  /\ approvalNote = [w \in Withdrawals |-> FALSE]
  /\ pc = [h \in Handlers |-> "idle"]
  /\ on = [h \in Handlers |-> None]
  /\ inMemory = [h \in Handlers |-> FALSE]
  /\ left = [h \in Handlers |-> 0]
  /\ creating = [c \in Clients |-> NoCreate]
  /\ paid = [w \in Withdrawals |-> 0]
  /\ held = [w \in Withdrawals |-> 0]
  /\ crashes = 0
  /\ dbErrors = 0

-----------------------------------------------------------------------------
(* Balance helpers.                                                        *)

HasPending(u) == \E w \in Withdrawals : status[w] = "PENDING" /\ userId[w] = u

\* Mutation of TakeDeposit: a $inc that does not look at the balance.
TakeUnguarded(u, a) == BTC_DEPOSIT' = [BTC_DEPOSIT EXCEPT ![u] = @ - a]

\* deductBTCDepositBalance: one findOneAndUpdate that takes the amount only
\* where the balance covers it.
TakeDeposit(u, a) ==
  /\ BTC_DEPOSIT[u] >= a
  /\ BTC_DEPOSIT' = [BTC_DEPOSIT EXCEPT ![u] = @ - a]

\* restoreBTCDepositBalance for withdrawal w: one $inc.
ReturnDeposit(w) ==
  /\ BTC_DEPOSIT' = [BTC_DEPOSIT EXCEPT ![userId[w]] = @ + amount[w]]
  /\ held' = [held EXCEPT ![w] = @ - 1]

-----------------------------------------------------------------------------
(* Creating a request: POST / ("plain") and POST /create-speed-payment     *)
(* ("reserved").  The checks are separate reads; nothing they saw is held  *)
(* until the insert.                                                       *)

BalanceSuffices(u, a) == MinedBtc > 0 /\ BTC_DEPOSIT[u] + MinedBtc >= a

\* Which check a route makes first: POST / reads the balance, then looks for
\* a pending request; create-speed-payment does it the other way round.
Passes(r) ==
  LET balanceFirst == r.route = "plain"
  IN  IF (r.step = 1) = balanceFirst
      THEN BalanceSuffices(r.user, r.amount)
      ELSE ~HasPending(r.user)

StartCreate(c, u, a, route) ==
  /\ creating[c] = NoCreate
  /\ creating' = [creating EXCEPT ![c] =
       [step |-> 1, user |-> u, amount |-> a, route |-> route]]
  /\ UNCHANGED <<docVars, adminVars, moneyVars, faultVars>>

PassCheck(c) ==
  /\ creating[c] # NoCreate
  /\ creating[c].step \in {1, 2}
  /\ Passes(creating[c])
  /\ creating' = [creating EXCEPT ![c].step = @ + 1]
  /\ UNCHANGED <<docVars, adminVars, moneyVars, faultVars>>

\* A check fails, or the insert would break one_pending_per_user (answered
\* 409), or the reserving transaction finds too little and aborts.
RefuseCreate(c) ==
  /\ creating[c] # NoCreate
  /\ LET r == creating[c] IN
       \/ r.step \in {1, 2} /\ ~Passes(r)
       \/ r.step = 3 /\ HasPending(r.user)
       \/ r.step = 3 /\ r.route = "reserved" /\ BTC_DEPOSIT[r.user] < r.amount
  /\ creating' = [creating EXCEPT ![c] = NoCreate]
  /\ UNCHANGED <<docVars, adminVars, moneyVars, faultVars>>

\* Mutation of IndexAdmits: the index was never built.
NoIndex(u) == TRUE

\* The one_pending_per_user partial unique index of models/Withdrawal.js.
IndexAdmits(u) == ~HasPending(u)

\* Withdrawal.create; the fields not named here get the schema's defaults,
\* which are the values of Init.
InsertPending(w, r, reserved) ==
  /\ status[w] = "NONE"
  /\ IndexAdmits(r.user)
  /\ status' = [status EXCEPT ![w] = "PENDING"]
  /\ userId' = [userId EXCEPT ![w] = r.user]
  /\ amount' = [amount EXCEPT ![w] = r.amount]
  /\ balanceDeducted' = [balanceDeducted EXCEPT ![w] = reserved]
  /\ UNCHANGED <<claimAge, approvalNote>>

CreatePlain(c, w) ==
  /\ creating[c] # NoCreate
  /\ creating[c].step = 3
  /\ creating[c].route = "plain"
  /\ InsertPending(w, creating[c], FALSE)
  /\ creating' = [creating EXCEPT ![c] = NoCreate]
  /\ UNCHANGED <<adminVars, moneyVars, faultVars>>

\* The transaction deducts and inserts together.
CreateReserved(c, w) ==
  /\ creating[c] # NoCreate
  /\ creating[c].step = 3
  /\ creating[c].route = "reserved"
  /\ TakeDeposit(creating[c].user, creating[c].amount)
  /\ held' = [held EXCEPT ![w] = @ + 1]
  /\ InsertPending(w, creating[c], TRUE)
  /\ creating' = [creating EXCEPT ![c] = NoCreate]
  /\ UNCHANGED <<paid, adminVars, faultVars>>

-----------------------------------------------------------------------------
(* Moves of an admin request.                                              *)

Goto(h, label) ==
  /\ pc' = [pc EXCEPT ![h] = label]
  /\ UNCHANGED <<on, inMemory>>
  /\ left' = [left EXCEPT ![h] = 0]

CallProvider(h, label, minutes) ==
  /\ pc' = [pc EXCEPT ![h] = label]
  /\ UNCHANGED <<on, inMemory>>
  /\ left' = [left EXCEPT ![h] = minutes]

Answer(h) ==
  /\ pc' = [pc EXCEPT ![h] = "idle"]
  /\ on' = [on EXCEPT ![h] = None]
  /\ inMemory' = [inMemory EXCEPT ![h] = FALSE]
  /\ left' = [left EXCEPT ![h] = 0]

-----------------------------------------------------------------------------
(* PATCH /:id/approve.                                                     *)

\* Mutation of Claimable: the filter forgets approvalStartedAt.
ClaimableTwice(w) == status[w] = "PENDING"

Claimable(w) == status[w] = "PENDING" /\ claimAge[w] = Unclaimed

\* Step 1: the atomic claim.  The request keeps the document it got back.
Claim(h, w) ==
  /\ pc[h] = "idle"
  /\ Claimable(w)
  /\ claimAge' = [claimAge EXCEPT ![w] = 0]
  /\ approvalNote' = [approvalNote EXCEPT ![w] = FALSE]
  /\ pc' = [pc EXCEPT ![h] = "claimed"]
  /\ on' = [on EXCEPT ![h] = w]
  /\ inMemory' = [inMemory EXCEPT ![h] = balanceDeducted[w]]
  /\ UNCHANGED <<status, userId, amount, balanceDeducted, left, moneyVars,
                 creating, faultVars>>

\* The stored amount or destination cannot be paid (an expired invoice, less
\* than one sat), or, when nothing is reserved, the deposit does not cover it.
RefuseApproval(h) ==
  /\ pc[h] = "claimed"
  /\ Goto(h, "releasing")
  /\ UNCHANGED <<docVars, moneyVars, creating, faultVars>>

\* Step 3: the deduction, and then the save that records it.
Deduct(h) ==
  /\ pc[h] = "claimed"
  /\ ~inMemory[h]
  /\ TakeDeposit(userId[on[h]], amount[on[h]])
  /\ held' = [held EXCEPT ![on[h]] = @ + 1]
  /\ Goto(h, "deducted")
  /\ UNCHANGED <<docVars, paid, creating, faultVars>>

\* Mutation of RecordDeducted: the flag is set in memory and never saved.
DeductedUnsaved(h) ==
  /\ pc[h] = "deducted"
  /\ CallProvider(h, "sending", SendMinutes)
  /\ UNCHANGED <<docVars, moneyVars, creating, faultVars>>

RecordDeducted(h) ==
  /\ pc[h] = "deducted"
  /\ balanceDeducted' = [balanceDeducted EXCEPT ![on[h]] = TRUE]
  /\ CallProvider(h, "sending", SendMinutes)
  /\ UNCHANGED <<status, userId, amount, claimAge, approvalNote, moneyVars,
                 creating, faultVars>>

SkipDeduction(h) ==
  /\ pc[h] = "claimed"
  /\ inMemory[h]
  /\ CallProvider(h, "sending", SendMinutes)
  /\ UNCHANGED <<docVars, moneyVars, creating, faultVars>>

\* Mutation of SpeedPays: a lost answer is taken for a refusal.
LostAnswerIsRefusal(h) ==
  /\ pc[h] \in {"sending", "resending"}
  /\ paid' = [paid EXCEPT ![on[h]] = @ + 1]
  /\ \E next \in {"paid", "restoring"} : Goto(h, next)
  /\ UNCHANGED <<docVars, BTC_DEPOSIT, held, creating, faultVars>>

\* Step 4: Speed pays.  The request sees a payment id ("paid"), or no answer
\* within the timeout, or an answer without an id (both "locking").
SpeedPays(h) ==
  /\ pc[h] \in {"sending", "resending"}
  /\ paid' = [paid EXCEPT ![on[h]] = @ + 1]
  /\ \E next \in {"paid", "locking"} : Goto(h, next)
  /\ UNCHANGED <<docVars, BTC_DEPOSIT, held, creating, faultVars>>

\* Speed does not pay and the request cannot tell.
SpeedSilent(h) ==
  /\ pc[h] \in {"sending", "resending"}
  /\ Goto(h, "locking")
  /\ UNCHANGED <<docVars, moneyVars, creating, faultVars>>

\* Speed answers with an error: nothing was paid.
SpeedRefuses(h) ==
  /\ pc[h] \in {"sending", "resending"}
  /\ Goto(h, "restoring")
  /\ UNCHANGED <<docVars, moneyVars, creating, faultVars>>

\* The first send is refused for want of sats: swap USDT into sats.
SpeedInsufficient(h) ==
  /\ pc[h] = "sending"
  /\ UsdtFallback
  /\ CallProvider(h, "swapping", SwapMinutes)
  /\ UNCHANGED <<docVars, moneyVars, creating, faultVars>>

\* topUpSatsFromUsdt returns, and the same payment is sent once more ...
SwapDone(h) ==
  /\ pc[h] = "swapping"
  /\ CallProvider(h, "resending", SendMinutes)
  /\ UNCHANGED <<docVars, moneyVars, creating, faultVars>>

\* ... or it throws, and the first refusal stands.
SwapFails(h) ==
  /\ pc[h] = "swapping"
  /\ Goto(h, "restoring")
  /\ UNCHANGED <<docVars, moneyVars, creating, faultVars>>

\* Step 5: the save that records the payment.  It selects by _id alone.
RecordSent(h) ==
  /\ pc[h] = "paid"
  /\ status' = [status EXCEPT ![on[h]] = "SENT"]
  /\ Answer(h)
  /\ UNCHANGED <<userId, amount, balanceDeducted, claimAge, approvalNote,
                 moneyVars, creating, faultVars>>

\* After a refusal: the refund, and then the save that records it.
Restore(h) ==
  /\ pc[h] = "restoring"
  /\ ReturnDeposit(on[h])
  /\ Goto(h, "restored")
  /\ UNCHANGED <<docVars, paid, creating, faultVars>>

\* Mutation of RecordRestored: the refund is never recorded.
RestoredUnsaved(h) ==
  /\ pc[h] = "restored"
  /\ Goto(h, "releasing")
  /\ UNCHANGED <<docVars, moneyVars, creating, faultVars>>

RecordRestored(h) ==
  /\ pc[h] = "restored"
  /\ balanceDeducted' = [balanceDeducted EXCEPT ![on[h]] = FALSE]
  /\ Goto(h, "releasing")
  /\ UNCHANGED <<status, userId, amount, claimAge, approvalNote, moneyVars,
                 creating, faultVars>>

\* releaseClaim
Release(h) ==
  /\ pc[h] = "releasing"
  /\ claimAge' = IF status[on[h]] = "PENDING"
                 THEN [claimAge EXCEPT ![on[h]] = Unclaimed]
                 ELSE claimAge
  /\ Answer(h)
  /\ UNCHANGED <<status, userId, amount, balanceDeducted, approvalNote,
                 moneyVars, creating, faultVars>>

\* Mutation of Lock: a withdrawal whose payment is unknown is released.
LockByReleasing(h) ==
  /\ pc[h] = "locking"
  /\ claimAge' = IF status[on[h]] = "PENDING"
                 THEN [claimAge EXCEPT ![on[h]] = Unclaimed]
                 ELSE claimAge
  /\ Answer(h)
  /\ UNCHANGED <<status, userId, amount, balanceDeducted, approvalNote,
                 moneyVars, creating, faultVars>>

\* lockAsUnknown
Lock(h) ==
  /\ pc[h] = "locking"
  /\ approvalNote' = IF status[on[h]] = "PENDING"
                     THEN [approvalNote EXCEPT ![on[h]] = TRUE]
                     ELSE approvalNote
  /\ Answer(h)
  /\ UNCHANGED <<status, userId, amount, balanceDeducted, claimAge,
                 moneyVars, creating, faultVars>>

-----------------------------------------------------------------------------
(* PATCH /:id/reject, /:id/sent and /:id/confirm.                          *)

Stale(w) == claimAge[w] > StaleMinutes

\* Mutations of Rejectable: the filter forgets the claim ...
RejectableAnyTime(w) == status[w] = "PENDING"

\* ... or has no way out of a claim whose request died.
RejectableUnlessClaimed(w) ==
  /\ status[w] = "PENDING"
  /\ claimAge[w] = Unclaimed \/ approvalNote[w]

\* The filter of the atomic reject.
Rejectable(w) ==
  /\ status[w] = "PENDING"
  /\ claimAge[w] = Unclaimed \/ approvalNote[w] \/ Stale(w)

\* What the admin page shows at Speed for a withdrawal someone has claimed.
CheckedUnpaid(w) == AdminChecks => claimAge[w] = Unclaimed \/ paid[w] = 0
CheckedPaid(w)   == AdminChecks => paid[w] > 0

\* Mutation of Reject: it relies on the approval having refunded.
RejectUnrefunded(h, w) ==
  /\ pc[h] = "idle"
  /\ Rejectable(w)
  /\ CheckedUnpaid(w)
  /\ status' = [status EXCEPT ![w] = "FAILED"]
  /\ UNCHANGED <<userId, amount, balanceDeducted, claimAge, approvalNote,
                 adminVars, moneyVars, creating, faultVars>>

Reject(h, w) ==
  /\ pc[h] = "idle"
  /\ Rejectable(w)
  /\ CheckedUnpaid(w)
  /\ status' = [status EXCEPT ![w] = "FAILED"]
  /\ IF balanceDeducted[w]
     THEN /\ pc' = [pc EXCEPT ![h] = "refunding"]
          /\ on' = [on EXCEPT ![h] = w]
     ELSE UNCHANGED <<pc, on>>
  /\ UNCHANGED <<userId, amount, balanceDeducted, claimAge, approvalNote,
                 inMemory, left, moneyVars, creating, faultVars>>

Refund(h) ==
  /\ pc[h] = "refunding"
  /\ ReturnDeposit(on[h])
  /\ Goto(h, "refunded")
  /\ UNCHANGED <<docVars, paid, creating, faultVars>>

RecordRefunded(h) ==
  /\ pc[h] = "refunded"
  /\ balanceDeducted' = [balanceDeducted EXCEPT ![on[h]] = FALSE]
  /\ Answer(h)
  /\ UNCHANGED <<status, userId, amount, claimAge, approvalNote, moneyVars,
                 creating, faultVars>>

\* The refund failed: put the withdrawal back to PENDING, unless it is no
\* longer FAILED or the unique index refuses (the error is only logged).
PutBack(h) ==
  /\ pc[h] = "reverting"
  /\ status' = IF status[on[h]] = "FAILED" /\ IndexAdmits(userId[on[h]])
               THEN [status EXCEPT ![on[h]] = "PENDING"]
               ELSE status
  /\ Answer(h)
  /\ UNCHANGED <<userId, amount, balanceDeducted, claimAge, approvalNote,
                 moneyVars, creating, faultVars>>

\* Both select by _id alone.
MarkSent(w) ==
  /\ status[w] # "NONE"
  /\ CheckedPaid(w)
  /\ status' = [status EXCEPT ![w] = "SENT"]
  /\ UNCHANGED <<userId, amount, balanceDeducted, claimAge, approvalNote,
                 adminVars, moneyVars, creating, faultVars>>

Confirm(w) ==
  /\ status[w] # "NONE"
  /\ AdminChecks => status[w] = "SENT"
  /\ status' = [status EXCEPT ![w] = "CONFIRMED"]
  /\ UNCHANGED <<userId, amount, balanceDeducted, claimAge, approvalNote,
                 adminVars, moneyVars, creating, faultVars>>

-----------------------------------------------------------------------------
(* Time and failures.                                                      *)

\* A minute passes.  Database calls take no time, so it passes only when every
\* running request waits for Speed and has not reached its timeout.
Tick ==
  /\ \A h \in Handlers :
       pc[h] = "idle" \/ (pc[h] \in ProviderPcs /\ left[h] > 0)
  /\ \E w \in Withdrawals : claimAge[w] \in 0 .. StaleMinutes
  /\ claimAge' = [w \in Withdrawals |->
       IF claimAge[w] \in 0 .. StaleMinutes THEN claimAge[w] + 1
                                            ELSE claimAge[w]]
  /\ left' = [h \in Handlers |-> IF left[h] > 0 THEN left[h] - 1 ELSE 0]
  /\ UNCHANGED <<status, userId, amount, balanceDeducted, approvalNote,
                 pc, on, inMemory, moneyVars, creating, faultVars>>

\* Mutation of AfterDbError: a payment that cannot be recorded is released.
UnrecordedIsReleased ==
  [deducted |-> "releasing", restoring |-> "releasing", restored |-> "releasing",
   paid |-> "releasing", refunding |-> "reverting", releasing |-> "idle",
   locking |-> "idle", refunded |-> "idle", reverting |-> "idle"]

\* Where a request continues when the write it is waiting for fails.
\*   deducted  -> the catch of the deduction answers 400 and releases
\*   restoring, restored -> logged, then released
\*   paid      -> the outer catch, after a payment attempt: lock
\*   refunding -> put back; a failed release, lock or put-back is only logged
AfterDbError ==
  [deducted |-> "releasing", restoring |-> "releasing", restored |-> "releasing",
   paid |-> "locking", refunding |-> "reverting", releasing |-> "idle",
   locking |-> "idle", refunded |-> "idle", reverting |-> "idle"]

DbError(h) ==
  /\ pc[h] \in DOMAIN AfterDbError
  /\ dbErrors < MaxDbErrors
  /\ dbErrors' = dbErrors + 1
  /\ IF AfterDbError[pc[h]] = "idle" THEN Answer(h)
                                     ELSE Goto(h, AfterDbError[pc[h]])
  /\ UNCHANGED <<docVars, moneyVars, creating, crashes>>

\* The process restarts: every request is lost.  A payment already handed to
\* Speed may still be made.
Crash ==
  /\ crashes < MaxCrashes
  /\ crashes' = crashes + 1
  /\ \E late \in SUBSET {h \in Handlers : pc[h] \in {"sending", "resending"}} :
       paid' = [w \in Withdrawals |->
         IF \E h \in late : on[h] = w THEN paid[w] + 1 ELSE paid[w]]
  /\ pc' = [h \in Handlers |-> "idle"]
  /\ on' = [h \in Handlers |-> None]
  /\ inMemory' = [h \in Handlers |-> FALSE]
  /\ left' = [h \in Handlers |-> 0]
  /\ creating' = [c \in Clients |-> NoCreate]
  /\ UNCHANGED <<docVars, BTC_DEPOSIT, held, dbErrors>>

-----------------------------------------------------------------------------
(* The specification.                                                      *)

\* What a running admin request does next when nothing fails.
AdminStep(h) ==
  \/ RefuseApproval(h) \/ Deduct(h) \/ RecordDeducted(h) \/ SkipDeduction(h)
  \/ SpeedPays(h) \/ SpeedSilent(h) \/ SpeedRefuses(h) \/ SpeedInsufficient(h)
  \/ SwapDone(h) \/ SwapFails(h) \/ RecordSent(h)
  \/ Restore(h) \/ RecordRestored(h) \/ Release(h) \/ Lock(h)
  \/ Refund(h) \/ RecordRefunded(h) \/ PutBack(h)

CreateStep(c) ==
  \/ PassCheck(c) \/ RefuseCreate(c)
  \/ \E w \in Withdrawals : CreatePlain(c, w) \/ CreateReserved(c, w)

Next ==
  \/ \E c \in Clients, u \in Users, a \in Amounts, route \in Routes :
       StartCreate(c, u, a, route)
  \/ \E c \in Clients : CreateStep(c)
  \/ \E h \in Handlers, w \in Withdrawals : Claim(h, w) \/ Reject(h, w)
  \/ \E h \in Handlers : AdminStep(h) \/ DbError(h)
  \/ \E w \in Withdrawals : MarkSent(w) \/ Confirm(w)
  \/ Tick
  \/ Crash

Spec == Init /\ [][Next]_vars

\* The event loop resumes every handler whose awaited call is settled, every
\* provider call has a timeout, and clocks run.
Fairness ==
  /\ \A h \in Handlers : WF_vars(AdminStep(h))
  /\ WF_vars(Tick)

FairSpec == Spec /\ Fairness

-----------------------------------------------------------------------------
(* Properties.                                                             *)

\* At most one PENDING withdrawal per user (models/Withdrawal.js:98-102),
\* although the routes check and insert in separate steps and a failed
\* rejection puts a withdrawal back.
OnePendingPerUser ==
  \A v, w \in Withdrawals :
    status[v] = "PENDING" /\ status[w] = "PENDING" /\ userId[v] = userId[w]
      => v = w

\* Two approvals never work on the same withdrawal, whatever happened to the
\* claim in between (withdrawal_routes.js:649-652).
OneApprovalAtATime ==
  \A g, h \in Handlers :
    pc[g] \in ApprovePcs /\ pc[h] \in ApprovePcs /\ on[g] = on[h] => g = h

\* Speed is never asked to pay the same withdrawal after it has paid it:
\* through double approvals, retries after a refusal, lost answers, failed
\* writes and restarts.
PaidAtMostOnce == \A w \in Withdrawals : paid[w] <= 1

\* Why that is so: an approval holds the claim for as long as it runs, and a
\* withdrawal that was paid stays claimed for ever, with no request working on
\* it that could still send or release it.
ClaimGuardsPayment ==
  /\ \A h \in Handlers : pc[h] \in ApprovePcs => claimAge[on[h]] # Unclaimed
  /\ \A w \in Withdrawals : paid[w] > 0 =>
       /\ claimAge[w] # Unclaimed
       /\ \A h \in Handlers :
            on[h] = w /\ pc[h] \in ApprovePcs => pc[h] \in {"paid", "locking"}

\* So a claim excludes a second approval and, once it has paid, a second payment.
ClaimExcludes == OneApprovalAtATime /\ ClaimGuardsPayment

\* What was paid was taken from the balance and stays taken: it is neither
\* paid for free nor refunded later by a rejection.
PaidOnlyIfCharged == \A w \in Withdrawals : paid[w] > 0 => held[w] >= 1

\* No withdrawal is charged twice or refunded more than it was charged.
ChargedAtMostOnce == \A w \in Withdrawals : held[w] \in {0, 1}

AtRest(w) == \A h \in Handlers : on[h] # w

\* balanceDeducted tells whether a refund is owed whenever no request is in
\* the middle of changing it (models/Withdrawal.js:63-71).
FlagTellsTruth ==
  \A w \in Withdrawals :
    AtRest(w) => held[w] = (IF balanceDeducted[w] THEN 1 ELSE 0)

\* A rejected withdrawal leaves the user with the money.
RejectedIsRefunded ==
  \A w \in Withdrawals : status[w] = "FAILED" /\ AtRest(w) => held[w] = 0

\* What was taken from a user for a withdrawal, what its flag says and what its
\* status says agree: taken once, flagged when taken, given back when rejected.
ChargeIsAccounted == ChargedAtMostOnce /\ FlagTellsTruth /\ RejectedIsRefunded

\* A pending withdrawal always gets back to where an admin can act on it:
\* no claim, however its approval ended, wedges it for ever.
AlwaysResolvable ==
  \A w \in Withdrawals :
    status[w] = "PENDING" ~>
      (status[w] # "PENDING" \/ Claimable(w) \/ Rejectable(w))
=============================================================================
