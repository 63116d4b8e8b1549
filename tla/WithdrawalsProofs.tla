-------------------------- MODULE WithdrawalsProofs --------------------------
(***************************************************************************)
(* What holds of the withdrawal routes for every number of users,          *)
(* documents and simultaneous requests.  First, with any number of crashes *)
(* and failed writes, however slow Speed is and whatever the admin checks; *)
(* then what a withdrawal costs its user, and that the routes implement    *)
(* the ledger, while nothing fails, the admin looks before he touches a    *)
(* claimed withdrawal, and a claim grows old only after every call has     *)
(* timed out.                                                              *)
(***************************************************************************)
EXTENDS WithdrawalsImplementLedger, TLAPS

-----------------------------------------------------------------------------
(* Type correctness.                                                       *)

LEMMA InitTypeOK == Init => TypeOK
<1> SUFFICES ASSUME Init PROVE TypeOK
  OBVIOUS
<1> QED
  BY UnitsAssumption, TimeAssumption
  DEF Init, TypeOK, Statuses, Unclaimed, NoCreate

LEMMA CreateTypeOK ==
  ASSUME TypeOK, NEW c \in Clients,
         CreateStep(c) \/ (\E u \in Users, a \in Amounts, route \in Routes :
                             StartCreate(c, u, a, route))
  PROVE  TypeOK'
<1> USE UnitsAssumption DEF TypeOK, adminVars, docVars, moneyVars, faultVars
<1>1. ASSUME NEW u \in Users, NEW a \in Amounts, NEW route \in Routes,
             StartCreate(c, u, a, route)
      PROVE  TypeOK'
  BY <1>1 DEF StartCreate, Creates
<1>2. CASE PassCheck(c)
  <2>1. creating[c] \in Creates
    BY <1>2 DEF PassCheck
  <2>2. [creating[c] EXCEPT !.step = @ + 1] \in Creates
    BY <2>1, <1>2 DEF PassCheck, Creates
  <2> QED
    BY <1>2, <2>2 DEF PassCheck
<1>3. CASE RefuseCreate(c)
  BY <1>3 DEF RefuseCreate
<1>4. ASSUME NEW w \in Withdrawals, CreatePlain(c, w)
      PROVE  TypeOK'
  <2>1. creating[c] \in Creates
    BY <1>4 DEF CreatePlain
  <2>2. creating[c].user \in Users /\ creating[c].amount \in Nat
    BY <2>1 DEF Creates
  <2> QED
    BY <1>4, <2>2 DEF CreatePlain, InsertPending, Statuses
<1>5. ASSUME NEW w \in Withdrawals, CreateReserved(c, w)
      PROVE  TypeOK'
  <2>1. creating[c] \in Creates
    BY <1>5 DEF CreateReserved
  <2>2. creating[c].user \in Users /\ creating[c].amount \in Nat
    BY <2>1 DEF Creates
  <2> QED
    BY <1>5, <2>2 DEF CreateReserved, InsertPending, TakeDeposit, Statuses
<1> QED
  BY <1>1, <1>2, <1>3, <1>4, <1>5 DEF CreateStep

\* How a request moves on keeps the types of the request variables.
LEMMA MoveTypes ==
  ASSUME TypeOK, NEW h \in Handlers, pc[h] # "idle",
         \/ Answer(h)
         \/ \E label \in ApprovePcs \cup RejectPcs :
              \/ Goto(h, label)
              \/ \E m \in Nat : CallProvider(h, label, m)
  PROVE  /\ pc' \in [Handlers -> {"idle"} \cup ApprovePcs \cup RejectPcs]
         /\ on' \in [Handlers -> Withdrawals \cup {None}]
         /\ \A g \in Handlers : pc'[g] # "idle" => on'[g] \in Withdrawals
         /\ inMemory' \in [Handlers -> BOOLEAN]
         /\ left' \in [Handlers -> Nat]
<1>1. CASE Answer(h)
  BY <1>1 DEF Answer, TypeOK
<1>2. ASSUME NEW label \in ApprovePcs \cup RejectPcs, Goto(h, label)
      PROVE  /\ pc' \in [Handlers -> {"idle"} \cup ApprovePcs \cup RejectPcs]
             /\ \A g \in Handlers : pc'[g] # "idle" => on[g] \in Withdrawals
             /\ left' \in [Handlers -> Nat]
  BY <1>2 DEF Goto, TypeOK
<1>3. ASSUME NEW label \in ApprovePcs \cup RejectPcs, NEW m \in Nat,
             CallProvider(h, label, m)
      PROVE  /\ pc' \in [Handlers -> {"idle"} \cup ApprovePcs \cup RejectPcs]
             /\ \A g \in Handlers : pc'[g] # "idle" => on[g] \in Withdrawals
             /\ left' \in [Handlers -> Nat]
  BY <1>3 DEF CallProvider, TypeOK
<1> QED
  BY <1>1, <1>2, <1>3 DEF Goto, CallProvider, TypeOK

LEMMA AdminTypeOK ==
  ASSUME TypeOK, NEW h \in Handlers, AdminStep(h) \/ DbError(h)
  PROVE  TypeOK'
<1> USE DEF docVars, moneyVars, faultVars
<1> DEFINE Pcs == ApprovePcs \cup RejectPcs
           Moved == \/ Answer(h)
                    \/ \E label \in Pcs :
                         \/ Goto(h, label)
                         \/ \E m \in Nat : CallProvider(h, label, m)
<1>b. pc[h] # "idle"
  BY DEF AdminStep, DbError, AfterDbError, RefuseApproval, Deduct, RecordDeducted,
         SkipDeduction, SpeedPays, SpeedSilent, SpeedRefuses, SpeedInsufficient,
         SwapDone, SwapFails, RecordSent, Restore, RecordRestored, Release, Lock,
         Refund, RecordRefunded, PutBack
<1>0. Moved
  <2> USE DEF ApprovePcs, RejectPcs
  <2>1. CASE RefuseApproval(h) \/ Deduct(h) \/ SpeedPays(h) \/ SpeedSilent(h)
               \/ SpeedRefuses(h) \/ SwapFails(h)
    BY <2>1 DEF RefuseApproval, Deduct, SpeedPays, SpeedSilent, SpeedRefuses,
                SwapFails
  <2>2. CASE RecordDeducted(h) \/ SkipDeduction(h) \/ SpeedInsufficient(h)
               \/ SwapDone(h)
    BY <2>2, TimeAssumption
    DEF RecordDeducted, SkipDeduction, SpeedInsufficient, SwapDone
  <2>3. CASE RecordSent(h) \/ Release(h) \/ Lock(h) \/ RecordRefunded(h)
               \/ PutBack(h)
    BY <2>3 DEF RecordSent, Release, Lock, RecordRefunded, PutBack
  <2>4. CASE Restore(h) \/ RecordRestored(h) \/ Refund(h)
    BY <2>4 DEF Restore, RecordRestored, Refund
  <2>5. CASE DbError(h)
    <3>1. AfterDbError[pc[h]] = "idle" \/ AfterDbError[pc[h]] \in Pcs
      BY <2>5 DEF DbError, AfterDbError
    <3> QED
      BY <2>5, <3>1 DEF DbError
  <2> QED
    BY <2>1, <2>2, <2>3, <2>4, <2>5 DEF AdminStep
<1>m. /\ pc' \in [Handlers -> {"idle"} \cup ApprovePcs \cup RejectPcs]
      /\ on' \in [Handlers -> Withdrawals \cup {None}]
      /\ \A g \in Handlers : pc'[g] # "idle" => on'[g] \in Withdrawals
      /\ inMemory' \in [Handlers -> BOOLEAN]
      /\ left' \in [Handlers -> Nat]
  BY <1>0, <1>b, MoveTypes
<1>w. on[h] \in Withdrawals
  BY <1>b DEF TypeOK
<1> USE <1>m, <1>w DEF TypeOK
<1>1. CASE RefuseApproval(h) \/ SkipDeduction(h) \/ SpeedSilent(h)
             \/ SpeedRefuses(h) \/ SpeedInsufficient(h) \/ SwapDone(h)
             \/ SwapFails(h)
  BY <1>1 DEF RefuseApproval, SkipDeduction, SpeedSilent, SpeedRefuses,
              SpeedInsufficient, SwapDone, SwapFails
<1>2. CASE Deduct(h)
  <2>1. amount[on[h]] \in Nat /\ userId[on[h]] \in Users \cup {None}
    OBVIOUS
  <2>2. BTC_DEPOSIT' \in [Users -> Nat]
    <3> DEFINE u == userId[on[h]]
               a == amount[on[h]]
    <3>1. BTC_DEPOSIT[u] >= a /\ BTC_DEPOSIT' = [BTC_DEPOSIT EXCEPT ![u] = @ - a]
      BY <1>2 DEF Deduct, TakeDeposit
    <3>2. CASE u \in Users
      <4>1. BTC_DEPOSIT[u] - a \in Nat
        BY <3>1, <3>2, <2>1
      <4> HIDE DEF u, a
      <4> QED
        BY <3>1, <4>1
    <3>3. CASE u \notin Users
      <4> HIDE DEF u, a
      <4> QED
        BY <3>1, <3>3
    <3> QED
      BY <3>2, <3>3
  <2> QED
    BY <1>2, <2>2 DEF Deduct
<1>3. CASE RecordDeducted(h) \/ RecordRestored(h) \/ RecordRefunded(h)
  BY <1>3 DEF RecordDeducted, RecordRestored, RecordRefunded
<1>4. CASE SpeedPays(h)
  <2>1. paid[on[h]] \in Nat
    OBVIOUS
  <2>2. paid' \in [Withdrawals -> Nat]
    BY <1>4, <2>1 DEF SpeedPays
  <2> QED
    BY <1>4, <2>2 DEF SpeedPays
<1>5. CASE RecordSent(h) \/ PutBack(h)
  BY <1>5 DEF RecordSent, PutBack, Statuses
<1>6. CASE Restore(h) \/ Refund(h)
  BY <1>6, NoneAssumption DEF Restore, Refund, ReturnDeposit
<1>7. CASE Release(h)
  BY <1>7, TimeAssumption DEF Release, Unclaimed
<1>8. CASE Lock(h)
  BY <1>8 DEF Lock
<1>9. CASE DbError(h)
  BY <1>9 DEF DbError
<1> QED
  BY <1>1, <1>2, <1>3, <1>4, <1>5, <1>6, <1>7, <1>8, <1>9 DEF AdminStep

LEMMA OtherTypeOK ==
  ASSUME TypeOK,
         \/ \E h \in Handlers, w \in Withdrawals : Claim(h, w) \/ Reject(h, w)
         \/ \E w \in Withdrawals : MarkSent(w) \/ Confirm(w)
         \/ Tick \/ Crash \/ UNCHANGED vars
  PROVE  TypeOK'
<1> USE TimeAssumption
    DEF TypeOK, adminVars, docVars, moneyVars, faultVars, ApprovePcs, RejectPcs,
        Statuses
<1>1. ASSUME NEW h \in Handlers, NEW w \in Withdrawals, Claim(h, w)
      PROVE  TypeOK'
  BY <1>1 DEF Claim, Unclaimed
<1>2. ASSUME NEW h \in Handlers, NEW w \in Withdrawals, Reject(h, w)
      PROVE  TypeOK'
  BY <1>2 DEF Reject
<1>3. ASSUME NEW w \in Withdrawals, MarkSent(w) \/ Confirm(w)
      PROVE  TypeOK'
  BY <1>3 DEF MarkSent, Confirm
<1>4. CASE Tick
  BY <1>4 DEF Tick, Unclaimed
<1>5. CASE Crash
  BY <1>5 DEF Crash
<1>6. CASE UNCHANGED vars
  BY <1>6 DEF vars
<1> QED
  BY <1>1, <1>2, <1>3, <1>4, <1>5, <1>6

LEMMA NextTypeOK == TypeOK /\ [Next]_vars => TypeOK'
<1> SUFFICES ASSUME TypeOK, [Next]_vars PROVE TypeOK'
  OBVIOUS
<1> QED
  BY CreateTypeOK, AdminTypeOK, OtherTypeOK DEF Next

\* Every value the routes compute has the type the schemas give it; in
\* particular no interleaving takes BTC_DEPOSIT below zero.
THEOREM TypeCorrect == Spec => []TypeOK
  BY InitTypeOK, NextTypeOK, PTL DEF Spec

-----------------------------------------------------------------------------
(* One PENDING withdrawal per user.                                        *)

\* Only an insert and a put-back make a withdrawal PENDING, and the unique
\* index stands in the way of both.
LEMMA NextOnePending ==
  TypeOK /\ OnePendingPerUser /\ [Next]_vars => OnePendingPerUser'
<1> SUFFICES ASSUME TypeOK, OnePendingPerUser, [Next]_vars
             PROVE  OnePendingPerUser'
  OBVIOUS
<1> DEFINE NoNewPending ==
      /\ userId' = userId
      /\ \A w \in Withdrawals : status'[w] = "PENDING" => status[w] = "PENDING"
<1>1. NoNewPending => OnePendingPerUser'
  BY DEF OnePendingPerUser
<1> USE DEF docVars
<1>2. ASSUME NEW c \in Clients, NEW w \in Withdrawals,
             CreatePlain(c, w) \/ CreateReserved(c, w)
      PROVE  OnePendingPerUser'
  <2>1. PICK r : \E reserved \in BOOLEAN : InsertPending(w, r, reserved)
    BY <1>2 DEF CreatePlain, CreateReserved
  <2> QED
    BY <2>1 DEF InsertPending, IndexAdmits, HasPending, OnePendingPerUser, TypeOK
<1>3. ASSUME NEW h \in Handlers, PutBack(h)
      PROVE  OnePendingPerUser'
  BY <1>3 DEF PutBack, IndexAdmits, HasPending, OnePendingPerUser, TypeOK
<1>4. ASSUME NEW h \in Handlers, RecordSent(h)
      PROVE  NoNewPending
  BY <1>4 DEF RecordSent, TypeOK
<1>5. ASSUME NEW h \in Handlers, AdminStep(h) \/ DbError(h), ~PutBack(h),
             ~RecordSent(h)
      PROVE  NoNewPending
  BY <1>5 DEF AdminStep, DbError, RefuseApproval, Deduct, RecordDeducted,
    SkipDeduction, SpeedPays, SpeedSilent, SpeedRefuses, SpeedInsufficient,
    SwapDone, SwapFails, Restore, RecordRestored, Release, Lock, Refund,
    RecordRefunded
<1>6. ASSUME NEW h \in Handlers, NEW w \in Withdrawals,
             Claim(h, w) \/ Reject(h, w)
      PROVE  NoNewPending
  BY <1>6 DEF Claim, Reject, TypeOK
<1>7. ASSUME NEW w \in Withdrawals, MarkSent(w) \/ Confirm(w)
      PROVE  NoNewPending
  BY <1>7 DEF MarkSent, Confirm, TypeOK
<1>8. ASSUME NEW c \in Clients,
             \/ PassCheck(c) \/ RefuseCreate(c)
             \/ \E u \in Users, a \in Amounts, route \in Routes :
                  StartCreate(c, u, a, route)
      PROVE  NoNewPending
  BY <1>8 DEF PassCheck, RefuseCreate, StartCreate
<1>9. CASE Tick \/ Crash \/ UNCHANGED vars
  <2>1. NoNewPending
    BY <1>9 DEF Tick, Crash, vars
  <2> QED
    BY <2>1, <1>1
<1> QED
  BY <1>1, <1>2, <1>3, <1>4, <1>5, <1>6, <1>7, <1>8, <1>9 DEF Next, CreateStep

\* A user never has two PENDING withdrawals, although the routes look and
\* insert in separate steps and failed rejections put withdrawals back.
THEOREM OnePending == Spec => []OnePendingPerUser
<1>1. Init => OnePendingPerUser
  BY DEF Init, OnePendingPerUser
<1> QED
  BY <1>1, NextOnePending, TypeCorrect, PTL DEF Spec

-----------------------------------------------------------------------------
(* Nothing is paid twice.                                                  *)

PaymentInv == OneApprovalAtATime /\ ClaimGuardsPayment /\ PaidAtMostOnce

\* A step by which requests only end or stay where they are (as far as the
\* invariant tells points apart), no claim is released and nothing is paid.
Harmless ==
  /\ \A h \in Handlers :
       pc'[h] \in ApprovePcs =>
         /\ pc[h] \in ApprovePcs
         /\ on'[h] = on[h]
         /\ pc[h] \in {"paid", "locking"} => pc'[h] \in {"paid", "locking"}
  /\ \A w \in Withdrawals : claimAge[w] # Unclaimed => claimAge'[w] # Unclaimed
  /\ paid' = paid

LEMMA HarmlessPaymentInv == TypeOK /\ PaymentInv /\ Harmless => PaymentInv'
<1> SUFFICES ASSUME TypeOK, PaymentInv, Harmless PROVE PaymentInv'
  OBVIOUS
<1>0. \A h \in Handlers : pc[h] \in ApprovePcs => on[h] \in Withdrawals
  BY DEF TypeOK, ApprovePcs
<1>1. OneApprovalAtATime'
  BY DEF PaymentInv, OneApprovalAtATime, Harmless
<1>2. ClaimGuardsPayment'
  BY <1>0 DEF PaymentInv, ClaimGuardsPayment, Harmless
<1>3. PaidAtMostOnce'
  BY DEF PaymentInv, PaidAtMostOnce, Harmless
<1> QED
  BY <1>1, <1>2, <1>3 DEF PaymentInv

\* Steps outside a running approval.
LEMMA OtherHarmless ==
  ASSUME TypeOK,
         \/ \E c \in Clients : CreateStep(c)
         \/ \E c \in Clients, u \in Users, a \in Amounts, route \in Routes :
              StartCreate(c, u, a, route)
         \/ \E h \in Handlers, w \in Withdrawals : Reject(h, w)
         \/ \E w \in Withdrawals : MarkSent(w) \/ Confirm(w)
         \/ Tick \/ UNCHANGED vars
  PROVE  Harmless
<1> USE DEF Harmless, docVars, adminVars, moneyVars
<1>1. CASE \E c \in Clients : CreateStep(c)
  BY <1>1 DEF CreateStep, PassCheck, RefuseCreate, CreatePlain, CreateReserved,
              InsertPending
<1>2. CASE \E c \in Clients, u \in Users, a \in Amounts, route \in Routes :
             StartCreate(c, u, a, route)
  BY <1>2 DEF StartCreate
<1>3. ASSUME NEW h \in Handlers, NEW w \in Withdrawals, Reject(h, w)
      PROVE  Harmless
  BY <1>3 DEF Reject, TypeOK, ApprovePcs
<1>4. CASE \E w \in Withdrawals : MarkSent(w) \/ Confirm(w)
  BY <1>4 DEF MarkSent, Confirm
<1>5. CASE Tick
  BY <1>5, TimeAssumption DEF Tick, TypeOK, Unclaimed
<1>6. CASE UNCHANGED vars
  BY <1>6 DEF vars
<1> QED
  BY <1>1, <1>2, <1>3, <1>4, <1>5, <1>6

\* Steps of a request, but for those that pay or release.
LEMMA AdminHarmless ==
  ASSUME TypeOK, NEW h \in Handlers, AdminStep(h) \/ DbError(h),
         ~SpeedPays(h), ~Release(h)
  PROVE  Harmless
<1> USE DEF Harmless, docVars, moneyVars, TypeOK, ApprovePcs
<1>1. CASE RefuseApproval(h) \/ Deduct(h) \/ SpeedSilent(h) \/ SpeedRefuses(h)
             \/ SwapFails(h)
  BY <1>1 DEF RefuseApproval, Deduct, SpeedSilent, SpeedRefuses, SwapFails, Goto
<1>2. CASE RecordDeducted(h) \/ SkipDeduction(h) \/ SpeedInsufficient(h)
             \/ SwapDone(h)
  BY <1>2 DEF RecordDeducted, SkipDeduction, SpeedInsufficient, SwapDone,
              CallProvider
<1>3. CASE RecordSent(h) \/ Lock(h) \/ RecordRefunded(h) \/ PutBack(h)
  BY <1>3 DEF RecordSent, Lock, RecordRefunded, PutBack, Answer
<1>4. CASE Restore(h) \/ RecordRestored(h) \/ Refund(h)
  BY <1>4 DEF Restore, RecordRestored, Refund, Goto
<1>5. CASE DbError(h)
  <2>1. CASE AfterDbError[pc[h]] = "idle"
    BY <1>5, <2>1 DEF DbError, Answer
  <2>2. CASE pc[h] \in {"deducted", "restoring", "restored", "paid", "refunding"}
    <3>1. /\ AfterDbError[pc[h]] \in ApprovePcs => pc[h] \in ApprovePcs
          /\ pc[h] = "paid" => AfterDbError[pc[h]] = "locking"
          /\ AfterDbError[pc[h]] # "idle"
          /\ pc[h] # "locking"
      BY <2>2 DEF AfterDbError
    <3>2. /\ pc' = [pc EXCEPT ![h] = AfterDbError[pc[h]]]
          /\ UNCHANGED <<on, claimAge, paid>>
      BY <1>5, <3>1 DEF DbError, Goto
    <3> QED
      BY <3>1, <3>2
  <2> QED
    BY <1>5, <2>1, <2>2 DEF DbError, AfterDbError
<1> QED
  BY <1>1, <1>2, <1>3, <1>4, <1>5 DEF AdminStep

\* A claim is taken only where there is none: nothing was paid there, and no
\* other approval is running.
LEMMA ClaimPaymentInv ==
  ASSUME TypeOK, PaymentInv, NEW h \in Handlers, NEW w \in Withdrawals,
         Claim(h, w)
  PROVE  PaymentInv'
<1> USE DEF TypeOK, PaymentInv, Claim, Claimable
<1>1. \A g \in Handlers : pc[g] \in ApprovePcs => on[g] # w
  BY DEF ClaimGuardsPayment
<1>2. ~(paid[w] > 0)
  BY DEF ClaimGuardsPayment
<1>3. /\ paid' = paid
      /\ claimAge' = [claimAge EXCEPT ![w] = 0]
      /\ pc' = [pc EXCEPT ![h] = "claimed"]
      /\ on' = [on EXCEPT ![h] = w]
  BY DEF moneyVars
<1>4. OneApprovalAtATime'
  BY <1>1, <1>3 DEF OneApprovalAtATime
<1>5. ClaimGuardsPayment'
  <2>1. ASSUME NEW g \in Handlers, pc'[g] \in ApprovePcs
        PROVE  claimAge'[on'[g]] # Unclaimed
    BY <2>1, <1>3 DEF ClaimGuardsPayment, Unclaimed, ApprovePcs
  <2>2. ASSUME NEW v \in Withdrawals, paid'[v] > 0
        PROVE  /\ claimAge'[v] # Unclaimed
               /\ \A g \in Handlers :
                    on'[g] = v /\ pc'[g] \in ApprovePcs
                      => pc'[g] \in {"paid", "locking"}
    BY <2>2, <1>2, <1>3 DEF ClaimGuardsPayment
  <2> QED
    BY <2>1, <2>2 DEF ClaimGuardsPayment
<1>6. PaidAtMostOnce'
  BY <1>3 DEF PaidAtMostOnce
<1> QED
  BY <1>4, <1>5, <1>6

\* Speed pays what was not paid before: the request that sends is the only one
\* on this withdrawal, and a paid withdrawal has no request that sends.
LEMMA PayPaymentInv ==
  ASSUME TypeOK, PaymentInv, NEW h \in Handlers, SpeedPays(h)
  PROVE  PaymentInv'
<1> DEFINE w == on[h]
<1>1. /\ pc[h] \in ApprovePcs /\ pc[h] \notin {"paid", "locking"}
      /\ w \in Withdrawals
  BY DEF SpeedPays, ApprovePcs, TypeOK
<1>2. paid[w] = 0 /\ claimAge[w] # Unclaimed
  BY <1>1 DEF PaymentInv, ClaimGuardsPayment, TypeOK
<1>3. PICK next \in {"paid", "locking"} : pc' = [pc EXCEPT ![h] = next]
  BY DEF SpeedPays, Goto
<1>4. on' = on /\ claimAge' = claimAge /\ paid' = [paid EXCEPT ![w] = 1]
  BY <1>2 DEF SpeedPays, Goto, docVars
<1>5. \A g \in Handlers : g # h /\ pc[g] \in ApprovePcs => on[g] # w
  BY <1>1 DEF PaymentInv, OneApprovalAtATime
<1>6. \A g \in Handlers : g # h => pc'[g] = pc[g]
  BY <1>3 DEF TypeOK
<1>7. pc'[h] = next
  BY <1>3 DEF TypeOK
<1>8. OneApprovalAtATime'
  BY <1>1, <1>4, <1>6 DEF PaymentInv, OneApprovalAtATime
<1>9. ClaimGuardsPayment'
  <2>1. ASSUME NEW g \in Handlers, pc'[g] \in ApprovePcs
        PROVE  claimAge'[on'[g]] # Unclaimed
    BY <2>1, <1>1, <1>4, <1>6 DEF PaymentInv, ClaimGuardsPayment
  <2>2. ASSUME NEW v \in Withdrawals, paid'[v] > 0, NEW g \in Handlers,
               on'[g] = v, pc'[g] \in ApprovePcs
        PROVE  pc'[g] \in {"paid", "locking"}
    <3>1. CASE g = h
      BY <3>1, <1>7
    <3>2. CASE g # h
      <4>1. v # w
        BY <2>2, <3>2, <1>4, <1>5, <1>6
      <4>2. paid[v] > 0
        BY <2>2, <4>1, <1>4 DEF TypeOK
      <4> QED
        BY <2>2, <3>2, <4>2, <1>4, <1>6 DEF PaymentInv, ClaimGuardsPayment
    <3> QED
      BY <3>1, <3>2
  <2>3. ASSUME NEW v \in Withdrawals, paid'[v] > 0
        PROVE  claimAge'[v] # Unclaimed
    <3>1. CASE v = w
      BY <3>1, <1>2, <1>4
    <3>2. CASE v # w
      BY <2>3, <3>2, <1>4 DEF TypeOK, PaymentInv, ClaimGuardsPayment
    <3> QED
      BY <3>1, <3>2
  <2> QED
    BY <2>1, <2>2, <2>3 DEF ClaimGuardsPayment
<1>10. PaidAtMostOnce'
  BY <1>4 DEF PaymentInv, PaidAtMostOnce, TypeOK
<1> QED
  BY <1>8, <1>9, <1>10 DEF PaymentInv

\* A request that releases has not paid, and it is the last one there.
LEMMA ReleasePaymentInv ==
  ASSUME TypeOK, PaymentInv, NEW h \in Handlers, Release(h)
  PROVE  PaymentInv'
<1> DEFINE w == on[h]
<1>1. pc[h] \in ApprovePcs /\ pc[h] = "releasing" /\ w \in Withdrawals
  BY DEF Release, ApprovePcs, TypeOK
<1>2. ~(paid[w] > 0)
  BY <1>1 DEF PaymentInv, ClaimGuardsPayment
<1>3. /\ paid' = paid
      /\ \A v \in Withdrawals : v # w => claimAge'[v] = claimAge[v]
  BY <1>1 DEF Release, moneyVars, TypeOK
<1>4. /\ pc'[h] = "idle"
      /\ \A g \in Handlers : g # h => pc'[g] = pc[g] /\ on'[g] = on[g]
  BY DEF Release, Answer, TypeOK
<1>5. "idle" \notin ApprovePcs
  BY DEF ApprovePcs
<1>6. \A g \in Handlers : pc'[g] \in ApprovePcs =>
        g # h /\ on[g] # w /\ on[g] \in Withdrawals
  BY <1>1, <1>4, <1>5 DEF PaymentInv, OneApprovalAtATime, TypeOK
<1>7. OneApprovalAtATime'
  BY <1>4, <1>6 DEF PaymentInv, OneApprovalAtATime
<1>8. ClaimGuardsPayment'
  BY <1>2, <1>3, <1>4, <1>6 DEF PaymentInv, ClaimGuardsPayment
<1>9. PaidAtMostOnce'
  BY <1>3 DEF PaymentInv, PaidAtMostOnce
<1> QED
  BY <1>7, <1>8, <1>9 DEF PaymentInv

\* A restart ends every request and releases nothing, and the sends it leaves
\* behind were not paid before.
LEMMA CrashPaymentInv ==
  ASSUME TypeOK, PaymentInv, Crash
  PROVE  PaymentInv'
<1>1. PICK late \in SUBSET {h \in Handlers : pc[h] \in {"sending", "resending"}} :
        paid' = [w \in Withdrawals |->
          IF \E h \in late : on[h] = w THEN paid[w] + 1 ELSE paid[w]]
  BY DEF Crash
<1>2. claimAge' = claimAge /\ \A h \in Handlers : pc'[h] = "idle"
  BY DEF Crash, docVars
<1>3. "idle" \notin ApprovePcs
  BY DEF ApprovePcs
<1>4. ASSUME NEW w \in Withdrawals, NEW h \in late, on[h] = w
      PROVE  paid[w] = 0 /\ claimAge[w] # Unclaimed
  <2>1. h \in Handlers /\ pc[h] \in ApprovePcs /\ pc[h] \notin {"paid", "locking"}
    BY <1>1 DEF ApprovePcs
  <2> QED
    BY <2>1, <1>4 DEF PaymentInv, ClaimGuardsPayment, TypeOK
<1>5. \A w \in Withdrawals :
        \/ paid'[w] = paid[w]
        \/ paid[w] = 0 /\ paid'[w] = 1 /\ claimAge[w] # Unclaimed
  BY <1>1, <1>4
<1> QED
  BY <1>2, <1>3, <1>5
  DEF PaymentInv, OneApprovalAtATime, ClaimGuardsPayment, PaidAtMostOnce, TypeOK

LEMMA NextPaymentInv == TypeOK /\ PaymentInv /\ [Next]_vars => PaymentInv'
<1> SUFFICES ASSUME TypeOK, PaymentInv, [Next]_vars PROVE PaymentInv'
  OBVIOUS
<1>1. CASE \E h \in Handlers : SpeedPays(h) \/ Release(h)
  BY <1>1, PayPaymentInv, ReleasePaymentInv
<1>2. CASE \E h \in Handlers, w \in Withdrawals : Claim(h, w)
  BY <1>2, ClaimPaymentInv
<1>3. CASE Crash
  BY <1>3, CrashPaymentInv
<1>4. CASE \E h \in Handlers :
             (AdminStep(h) \/ DbError(h)) /\ ~SpeedPays(h) /\ ~Release(h)
  BY <1>4, AdminHarmless, HarmlessPaymentInv
<1>5. ASSUME \/ \E c \in Clients : CreateStep(c)
             \/ \E c \in Clients, u \in Users, a \in Amounts, route \in Routes :
                  StartCreate(c, u, a, route)
             \/ \E h \in Handlers, w \in Withdrawals : Reject(h, w)
             \/ \E w \in Withdrawals : MarkSent(w) \/ Confirm(w)
             \/ Tick \/ UNCHANGED vars
      PROVE  PaymentInv'
  <2>1. Harmless
    BY <1>5, OtherHarmless
  <2> QED
    BY <2>1, HarmlessPaymentInv
<1> QED
  BY <1>1, <1>2, <1>3, <1>4, <1>5 DEF Next

LEMMA PaymentSafety == Spec => []PaymentInv
<1>1. Init => PaymentInv
  BY DEF Init, PaymentInv, OneApprovalAtATime, ClaimGuardsPayment,
         PaidAtMostOnce, ApprovePcs
<1> QED
  BY <1>1, NextPaymentInv, TypeCorrect, PTL DEF Spec

\* Two approvals never work on one withdrawal at the same time.
THEOREM OneApproval == Spec => []OneApprovalAtATime
  BY PaymentSafety, PTL DEF PaymentInv

\* A running approval holds its claim, and a paid withdrawal stays claimed.
THEOREM ClaimsGuard == Spec => []ClaimGuardsPayment
  BY PaymentSafety, PTL DEF PaymentInv

\* No withdrawal is paid twice: not through simultaneous approvals, retries,
\* lost answers, failed writes, restarts, stale claims or a careless admin.
THEOREM NeverPaidTwice == Spec => []PaidAtMostOnce
  BY PaymentSafety, PTL DEF PaymentInv

\* A claim excludes a second approval and, once it has paid, a second payment.
THEOREM ClaimsExclude == Spec => []ClaimExcludes
  BY OneApproval, ClaimsGuard, PTL DEF ClaimExcludes

-----------------------------------------------------------------------------
(* What a withdrawal costs its user.  Each hypothesis below is needed:     *)
(* without any one of them the model checker finds a withdrawal paid for   *)
(* free or refunded twice.                                                 *)

\* The hypotheses: no fault, an admin who checks, and StaleMinutes no shorter
\* than the two sends and the swap of the slowest approval.
Unfailing ==
  /\ AdminChecks
  /\ MaxCrashes = 0 /\ MaxDbErrors = 0
  /\ SendMinutes + SwapMinutes + SendMinutes <= StaleMinutes

-----------------------------------------------------------------------------
(* The inductive invariant.                                                *)

\* The age a claim has at most while its approval stands at p.
Deadline(p) ==
  IF p \in {"claimed", "deducted"} THEN 0
  ELSE IF p = "sending" THEN SendMinutes
  ELSE IF p = "swapping" THEN SendMinutes + SwapMinutes
  ELSE SendMinutes + SwapMinutes + SendMinutes

Flagged(w) == held[w] = (IF balanceDeducted[w] THEN 1 ELSE 0)

\* What is charged, and what is recorded of it, at each point of a request.
Accounted(h) ==
  /\ pc[h] \in {"claimed", "releasing"} => Flagged(on[h])
  /\ pc[h] = "claimed" => inMemory[h] = balanceDeducted[on[h]]
  /\ pc[h] = "deducted" => held[on[h]] = 1
  /\ pc[h] \in {"sending", "swapping", "resending", "paid", "locking", "restoring",
                "refunding"} =>
       held[on[h]] = 1 /\ balanceDeducted[on[h]]
  /\ pc[h] \in {"restored", "refunded"} =>
       held[on[h]] = 0

\* An approval works on a withdrawal nobody can reject, a rejection on one that
\* was not paid and that nobody can claim.
Guarded(h) ==
  /\ pc[h] = "idle" => on[h] = None /\ left[h] = 0
  /\ pc[h] \in ApprovePcs =>
       /\ status[on[h]] \notin {"NONE", "FAILED"}
       /\ ~approvalNote[on[h]]
       /\ claimAge[on[h]] + left[h] <= Deadline(pc[h])
  /\ pc[h] \in RejectPcs =>
       /\ pc[h] # "reverting"
       /\ status[on[h]] = "FAILED"
       /\ paid[on[h]] = 0

\* What a document says while nobody works on it, and whoever does.
Settled(w) ==
  /\ AtRest(w) => Flagged(w)
  /\ status[w] = "NONE" => ~balanceDeducted[w] /\ paid[w] = 0
  /\ paid[w] > 0 => balanceDeducted[w]
  /\ status[w] = "FAILED" /\ AtRest(w) => ~balanceDeducted[w]

Alone ==
  \A g, h \in Handlers : pc[g] # "idle" /\ pc[h] # "idle" /\ on[g] = on[h] => g = h

ChargeInv ==
  /\ \A h \in Handlers : Accounted(h) /\ Guarded(h)
  /\ \A w \in Withdrawals : Settled(w)
  /\ Alone

LEMMA BusyIsOn ==
  ASSUME TypeOK, ChargeInv, NEW h \in Handlers, NEW w \in Withdrawals, on[h] = w
  PROVE  pc[h] # "idle"
BY NoneAssumption DEF ChargeInv, Guarded

\* Nobody works on a document that does not exist yet.
LEMMA NoneAtRest ==
  ASSUME TypeOK, ChargeInv, NEW w \in Withdrawals, status[w] = "NONE"
  PROVE  AtRest(w)
<1> SUFFICES ASSUME NEW h \in Handlers, on[h] = w PROVE FALSE
  BY DEF AtRest
<1>1. pc[h] # "idle"
  BY BusyIsOn
<1>2. pc[h] \in ApprovePcs \/ pc[h] \in RejectPcs
  BY <1>1 DEF TypeOK
<1> QED
  BY <1>2 DEF ChargeInv, Guarded

\* A step of request h that touches no other request, and no document but w,
\* which no other request works on.
LEMMA RequestCharge ==
  ASSUME TypeOK, ChargeInv, NEW h \in Handlers, NEW w \in Withdrawals,
         on[h] \in {w, None},
         on'[h] \in {w, None}, pc'[h] # "idle" => on'[h] = w,
         \A g \in Handlers : g # h =>
            /\ on[g] # w
            /\ pc'[g] = pc[g] /\ on'[g] = on[g]
            /\ inMemory'[g] = inMemory[g] /\ left'[g] = left[g],
         \A v \in Withdrawals : v # w =>
            /\ status'[v] = status[v] /\ balanceDeducted'[v] = balanceDeducted[v]
            /\ claimAge'[v] = claimAge[v] /\ approvalNote'[v] = approvalNote[v]
            /\ held'[v] = held[v] /\ paid'[v] = paid[v],
         Accounted(h)', Guarded(h)', Settled(w)'
  PROVE  ChargeInv'
<1>1. ASSUME NEW g \in Handlers
      PROVE  Accounted(g)' /\ Guarded(g)'
  <2>1. CASE g = h
    BY <2>1
  <2>2. CASE g # h /\ pc[g] = "idle"
    <3>1. pc'[g] = "idle" /\ on'[g] = None /\ left'[g] = 0
      BY <2>2 DEF ChargeInv, Guarded
    <3> QED
      BY <3>1 DEF Accounted, Guarded, ApprovePcs, RejectPcs
  <2>3. CASE g # h /\ pc[g] # "idle"
    <3>1. on[g] \in Withdrawals /\ on[g] # w
      BY <2>3 DEF TypeOK
    <3>2. Accounted(g) /\ Guarded(g)
      BY DEF ChargeInv
    <3>3. Accounted(g)'
      BY <2>3, <3>1, <3>2 DEF Accounted, Flagged
    <3>4. Guarded(g)'
      BY <2>3, <3>1, <3>2 DEF Guarded
    <3> QED
      BY <3>3, <3>4
  <2> QED
    BY <2>1, <2>2, <2>3
<1>2. ASSUME NEW v \in Withdrawals
      PROVE  Settled(v)'
  <2>1. CASE v = w
    BY <2>1
  <2>2. CASE v # w
    <3>1. AtRest(v)' => AtRest(v)
      BY <2>2, NoneAssumption DEF AtRest
    <3>2. Settled(v)
      BY DEF ChargeInv
    <3> QED
      BY <2>2, <3>1, <3>2 DEF Settled, Flagged
  <2> QED
    BY <2>1, <2>2
<1>3. Alone'
  BY DEF ChargeInv, Alone
<1> QED
  BY <1>1, <1>2, <1>3 DEF ChargeInv

\* A step of no request that touches one document nobody works on.
LEMMA DocumentCharge ==
  ASSUME TypeOK, ChargeInv, NEW w \in Withdrawals, AtRest(w),
         UNCHANGED adminVars,
         \A v \in Withdrawals : v # w =>
            /\ status'[v] = status[v] /\ balanceDeducted'[v] = balanceDeducted[v]
            /\ claimAge'[v] = claimAge[v] /\ approvalNote'[v] = approvalNote[v]
            /\ held'[v] = held[v] /\ paid'[v] = paid[v],
         Settled(w)'
  PROVE  ChargeInv'
<1>0. pc' = pc /\ on' = on /\ inMemory' = inMemory /\ left' = left
  BY DEF adminVars
<1>1. ASSUME NEW g \in Handlers
      PROVE  Accounted(g)' /\ Guarded(g)'
  <2>1. Accounted(g) /\ Guarded(g)
    BY DEF ChargeInv
  <2>2. CASE pc[g] = "idle"
    BY <1>0, <2>1, <2>2 DEF Accounted, Guarded, ApprovePcs, RejectPcs
  <2>3. CASE pc[g] # "idle"
    <3>1. on[g] \in Withdrawals /\ on[g] # w
      BY <2>3 DEF TypeOK, AtRest
    <3>3. Accounted(g)'
      BY <1>0, <2>1, <3>1 DEF Accounted, Flagged
    <3>4. Guarded(g)'
      BY <1>0, <2>1, <3>1 DEF Guarded
    <3> QED
      BY <3>3, <3>4
  <2> QED
    BY <2>2, <2>3
<1>2. ASSUME NEW v \in Withdrawals, v # w
      PROVE  Settled(v)'
  <2>1. Settled(v)
    BY DEF ChargeInv
  <2> QED
    BY <1>0, <1>2, <2>1 DEF Settled, Flagged, AtRest
<1>3. Alone'
  BY <1>0 DEF ChargeInv, Alone
<1> QED
  BY <1>1, <1>2, <1>3 DEF ChargeInv

-----------------------------------------------------------------------------
(* The steps of a request.                                                 *)

\* Every action of a request at w touches no other document and no other request.
LEMMA StepIsLocal ==
  ASSUME TypeOK, NEW h \in Handlers, AdminStep(h), pc[h] # "reverting"
  PROVE  /\ \A g \in Handlers : g # h =>
              /\ pc'[g] = pc[g] /\ on'[g] = on[g]
              /\ inMemory'[g] = inMemory[g] /\ left'[g] = left[g]
         /\ \A v \in Withdrawals : v # on[h] =>
              /\ status'[v] = status[v] /\ balanceDeducted'[v] = balanceDeducted[v]
              /\ claimAge'[v] = claimAge[v] /\ approvalNote'[v] = approvalNote[v]
              /\ held'[v] = held[v] /\ paid'[v] = paid[v]
         /\ on'[h] \in {on[h], None}
         /\ pc'[h] # "idle" => on'[h] = on[h]
<1> USE DEF TypeOK, docVars, moneyVars
<1>1. CASE RefuseApproval(h) \/ SpeedSilent(h) \/ SpeedRefuses(h) \/ SwapFails(h)
  BY <1>1 DEF RefuseApproval, SpeedSilent, SpeedRefuses, SwapFails, Goto
<1>2. CASE SkipDeduction(h) \/ SpeedInsufficient(h) \/ SwapDone(h)
  BY <1>2 DEF SkipDeduction, SpeedInsufficient, SwapDone, CallProvider
<1>3. CASE Deduct(h) \/ SpeedPays(h) \/ RecordRestored(h)
  BY <1>3 DEF Deduct, SpeedPays, RecordRestored, Goto
<1>4. CASE RecordDeducted(h)
  BY <1>4 DEF RecordDeducted, CallProvider
<1>5. CASE RecordSent(h) \/ Release(h) \/ Lock(h) \/ RecordRefunded(h)
  BY <1>5 DEF RecordSent, Release, Lock, RecordRefunded, Answer
<1>6. CASE Restore(h) \/ Refund(h)
  BY <1>6 DEF Restore, Refund, ReturnDeposit, Goto
<1> QED
  BY <1>1, <1>2, <1>3, <1>4, <1>5, <1>6 DEF AdminStep, PutBack

LEMMA AdminCharge ==
  ASSUME Unfailing, TypeOK, ChargeInv, ClaimGuardsPayment,
         NEW h \in Handlers, AdminStep(h)
  PROVE  ChargeInv'
<1>1. pc[h] # "idle" /\ pc[h] # "reverting"
  <2>1. pc[h] # "reverting"
    BY DEF ChargeInv, Guarded, RejectPcs
  <2> QED
    BY <2>1 DEF AdminStep, RefuseApproval, Deduct, RecordDeducted, SkipDeduction,
      SpeedPays, SpeedSilent, SpeedRefuses, SpeedInsufficient, SwapDone, SwapFails,
      RecordSent, Restore, RecordRestored, Release, Lock, Refund, RecordRefunded,
      PutBack
<1>2. PICK w \in Withdrawals : w = on[h]
  BY <1>1 DEF TypeOK
<1>3. Accounted(h) /\ Guarded(h) /\ Settled(w)
  BY <1>2 DEF ChargeInv
<1>4. \A g \in Handlers : g # h => on[g] # w
  BY <1>1, <1>2, BusyIsOn DEF ChargeInv, Alone
<1>5. pc[h] \in ApprovePcs /\ pc[h] \notin {"paid", "locking"} => ~(paid[w] > 0)
  BY <1>2 DEF ClaimGuardsPayment
<1>6. ~AtRest(w)
  BY <1>2 DEF AtRest
<1>7. /\ \A g \in Handlers : g # h =>
           /\ pc'[g] = pc[g] /\ on'[g] = on[g]
           /\ inMemory'[g] = inMemory[g] /\ left'[g] = left[g]
      /\ \A v \in Withdrawals : v # w =>
           /\ status'[v] = status[v] /\ balanceDeducted'[v] = balanceDeducted[v]
           /\ claimAge'[v] = claimAge[v] /\ approvalNote'[v] = approvalNote[v]
           /\ held'[v] = held[v] /\ paid'[v] = paid[v]
      /\ on'[h] \in {w, None}
      /\ pc'[h] # "idle" => on'[h] = w
  BY <1>1, <1>2, StepIsLocal
<1>8. SUFFICES Accounted(h)' /\ Guarded(h)' /\ Settled(w)'
  BY <1>2, <1>4, <1>7, RequestCharge
<1> USE TimeAssumption, <1>2, <1>3 DEF docVars, moneyVars
<1>a. CASE RefuseApproval(h) \/ SpeedSilent(h) \/ SpeedRefuses(h) \/ SwapFails(h)
  BY <1>a, <1>6 DEF RefuseApproval, SpeedSilent, SpeedRefuses, SwapFails, Goto, TypeOK,
    Accounted, Guarded, Settled, Flagged, AtRest, Deadline, ApprovePcs, RejectPcs
<1>b. CASE SkipDeduction(h) \/ SpeedInsufficient(h) \/ SwapDone(h)
  BY <1>b, <1>6 DEF SkipDeduction, SpeedInsufficient, SwapDone, CallProvider, TypeOK,
    Accounted, Guarded, Settled, Flagged, AtRest, Deadline, ApprovePcs, RejectPcs
<1>c. CASE Deduct(h)
  BY <1>c, <1>6 DEF Deduct, Goto, TypeOK,
    Accounted, Guarded, Settled, Flagged, AtRest, Deadline, ApprovePcs, RejectPcs
<1>d. CASE RecordDeducted(h)
  BY <1>d, <1>6 DEF RecordDeducted, CallProvider, TypeOK,
    Accounted, Guarded, Settled, Flagged, AtRest, Deadline, ApprovePcs, RejectPcs
<1>e. CASE SpeedPays(h)
  BY <1>e, <1>6 DEF SpeedPays, Goto, TypeOK,
    Accounted, Guarded, Settled, Flagged, AtRest, Deadline, ApprovePcs, RejectPcs
<1>f. CASE RecordSent(h)
  <2>1. pc'[h] = "idle" /\ on'[h] = None /\ left'[h] = 0
    BY <1>f DEF RecordSent, Answer, TypeOK
  <2>2. Settled(w)'
    BY <1>f DEF RecordSent, TypeOK, Accounted, Guarded, Settled, Flagged,
      ApprovePcs, RejectPcs
  <2> QED
    BY <2>1, <2>2 DEF Accounted, Guarded, ApprovePcs, RejectPcs
<1>g. CASE Restore(h)
  BY <1>g, <1>6 DEF Restore, ReturnDeposit, Goto, TypeOK,
    Accounted, Guarded, Settled, Flagged, AtRest, Deadline, ApprovePcs, RejectPcs
<1>h. CASE RecordRestored(h)
  BY <1>h, <1>5, <1>6 DEF RecordRestored, Goto, TypeOK,
    Accounted, Guarded, Settled, Flagged, AtRest, Deadline, ApprovePcs, RejectPcs
<1>i. CASE Release(h)
  <2>1. pc'[h] = "idle" /\ on'[h] = None /\ left'[h] = 0
    BY <1>i DEF Release, Answer, TypeOK
  <2>2. Settled(w)'
    BY <1>i DEF Release, TypeOK, Accounted, Guarded, Settled, Flagged,
      ApprovePcs, RejectPcs
  <2> QED
    BY <2>1, <2>2 DEF Accounted, Guarded, ApprovePcs, RejectPcs
<1>j. CASE Lock(h)
  <2>1. pc'[h] = "idle" /\ on'[h] = None /\ left'[h] = 0
    BY <1>j DEF Lock, Answer, TypeOK
  <2>2. Settled(w)'
    BY <1>j DEF Lock, TypeOK, Accounted, Guarded, Settled, Flagged,
      ApprovePcs, RejectPcs
  <2> QED
    BY <2>1, <2>2 DEF Accounted, Guarded, ApprovePcs, RejectPcs
<1>k. CASE Refund(h)
  BY <1>k, <1>6 DEF Refund, ReturnDeposit, Goto, TypeOK,
    Accounted, Guarded, Settled, Flagged, AtRest, Deadline, ApprovePcs, RejectPcs
<1>l. CASE RecordRefunded(h)
  <2>1. pc'[h] = "idle" /\ on'[h] = None /\ left'[h] = 0
    BY <1>l DEF RecordRefunded, Answer, TypeOK
  <2>2. Settled(w)'
    BY <1>l DEF RecordRefunded, TypeOK, Accounted, Guarded, Settled, Flagged,
      ApprovePcs, RejectPcs
  <2> QED
    BY <2>1, <2>2 DEF Accounted, Guarded, ApprovePcs, RejectPcs
<1>m. ~PutBack(h)
  BY <1>1 DEF PutBack
<1> QED
  BY <1>a, <1>b, <1>c, <1>d, <1>e, <1>f, <1>g, <1>h, <1>i, <1>j, <1>k, <1>l, <1>m
  DEF AdminStep

\* A claim, or a rejection, takes hold of a withdrawal nobody works on.
LEMMA TakeCharge ==
  ASSUME Unfailing, TypeOK, ChargeInv, ClaimGuardsPayment,
         NEW h \in Handlers, NEW w \in Withdrawals, Claim(h, w) \/ Reject(h, w)
  PROVE  ChargeInv'
<1> USE DEF docVars, adminVars, moneyVars
<1>1. pc[h] = "idle" /\ on[h] = None /\ status[w] = "PENDING"
  <2>1. pc[h] = "idle" /\ status[w] = "PENDING"
    BY DEF Claim, Claimable, Reject, Rejectable
  <2> QED
    BY <2>1 DEF ChargeInv, Guarded
<1>2. ASSUME NEW g \in Handlers, on[g] = w
      PROVE  FALSE
  <2>1. pc[g] # "idle"
    BY <1>2, BusyIsOn
  <2>2. Guarded(g)
    BY DEF ChargeInv
  <2>3. pc[g] \in ApprovePcs
    BY <1>1, <1>2, <2>1, <2>2 DEF Guarded, TypeOK
  <2>4. claimAge[w] # Unclaimed
    BY <1>2, <2>3 DEF ClaimGuardsPayment
  <2>5. ~approvalNote[w] /\ claimAge[w] + left[g] <= Deadline(pc[g])
    BY <1>2, <2>2, <2>3 DEF Guarded
  <2>6. claimAge[w] <= StaleMinutes
    BY <2>5, TimeAssumption DEF Unfailing, Deadline, TypeOK, Unclaimed
  <2> QED
    BY <2>4, <2>5, <2>6, TimeAssumption
    DEF Claim, Claimable, Reject, Rejectable, Stale, TypeOK, Unclaimed
<1>3. Settled(w) /\ AtRest(w)
  BY <1>2 DEF ChargeInv, AtRest
<1>4. Flagged(w)
  BY <1>3 DEF Settled
<1>5. CASE Claim(h, w)
  <2>1. /\ pc'[h] = "claimed" /\ on'[h] = w /\ inMemory'[h] = balanceDeducted[w]
        /\ claimAge'[w] = 0 /\ ~approvalNote'[w] /\ left'[h] = left[h]
        /\ UNCHANGED <<status, balanceDeducted, held, paid>>
    BY <1>5 DEF Claim, TypeOK
  <2>2. left[h] = 0
    BY <1>1 DEF ChargeInv, Guarded
  <2>3. Accounted(h)'
    BY <1>4, <2>1 DEF Accounted, Flagged
  <2>4. Guarded(h)'
    BY <1>1, <2>1, <2>2, NoneAssumption DEF Guarded, Deadline, ApprovePcs, RejectPcs
  <2>5. Settled(w)'
    BY <1>3, <1>4, <2>1 DEF Settled, Flagged, AtRest
  <2>6. /\ \A g \in Handlers : g # h =>
             /\ pc'[g] = pc[g] /\ on'[g] = on[g]
             /\ inMemory'[g] = inMemory[g] /\ left'[g] = left[g]
        /\ \A v \in Withdrawals : v # w =>
             claimAge'[v] = claimAge[v] /\ approvalNote'[v] = approvalNote[v]
    BY <1>5 DEF Claim, TypeOK
  <2> QED
    BY <1>1, <1>2, <2>1, <2>3, <2>4, <2>5, <2>6, RequestCharge
<1>6. CASE Reject(h, w)
  <2>1. paid[w] = 0
    <3>1. claimAge[w] = Unclaimed \/ paid[w] = 0
      BY <1>6 DEF Reject, CheckedUnpaid, Unfailing
    <3>2. ~(paid[w] > 0) /\ paid[w] \in Nat
      BY <3>1 DEF ClaimGuardsPayment, TypeOK
    <3> QED
      BY <3>2
  <2>2. /\ status'[w] = "FAILED"
        /\ UNCHANGED <<balanceDeducted, claimAge, approvalNote, held, paid, inMemory,
                       left>>
        /\ \A v \in Withdrawals : v # w => status'[v] = status[v]
        /\ \A g \in Handlers : g # h => pc'[g] = pc[g] /\ on'[g] = on[g]
    BY <1>6 DEF Reject, TypeOK
  <2>3. CASE balanceDeducted[w]
    <3>1. pc'[h] = "refunding" /\ on'[h] = w
      BY <1>6, <2>3 DEF Reject, TypeOK
    <3>2. Accounted(h)'
      BY <1>4, <2>2, <2>3, <3>1 DEF Accounted, Flagged
    <3>3. Guarded(h)'
      BY <2>1, <2>2, <3>1 DEF Guarded, ApprovePcs, RejectPcs
    <3>4. Settled(w)'
      BY <1>3, <2>1, <2>2, <2>3, <3>1 DEF Settled, AtRest
    <3> QED
      BY <1>1, <1>2, <2>2, <3>1, <3>2, <3>3, <3>4, RequestCharge
  <2>4. CASE ~balanceDeducted[w]
    <3>1. pc'[h] = "idle" /\ on'[h] = None
      BY <1>1, <1>6, <2>4 DEF Reject, TypeOK
    <3>2. Accounted(h)' /\ Guarded(h)'
      BY <1>1, <2>2, <3>1 DEF Accounted, Guarded, ApprovePcs, RejectPcs, ChargeInv
    <3>3. Settled(w)'
      BY <1>4, <2>1, <2>2, <2>4 DEF Settled, Flagged
    <3> QED
      BY <1>1, <1>2, <2>2, <3>1, <3>2, <3>3, RequestCharge
  <2> QED
    BY <2>3, <2>4
<1> QED
  BY <1>5, <1>6

LEMMA CreateCharge ==
  ASSUME TypeOK, ChargeInv,
         \/ \E c \in Clients : CreateStep(c)
         \/ \E c \in Clients, u \in Users, a \in Amounts, route \in Routes :
              StartCreate(c, u, a, route)
  PROVE  ChargeInv'
<1> USE DEF docVars, moneyVars
<1>1. CASE UNCHANGED <<docVars, adminVars, moneyVars>>
  BY <1>1 DEF ChargeInv, Accounted, Guarded, Settled, Flagged, AtRest, Alone, adminVars
<1>2. ASSUME NEW c \in Clients, NEW w \in Withdrawals,
             CreatePlain(c, w) \/ CreateReserved(c, w)
      PROVE  ChargeInv'
  <2>0. held[w] \in Int /\ status[w] = "NONE"
    BY <1>2 DEF CreatePlain, CreateReserved, InsertPending, TypeOK
  <2>1. \/ InsertPending(w, creating[c], FALSE) /\ held' = held
        \/ InsertPending(w, creating[c], TRUE) /\ held' = [held EXCEPT ![w] = @ + 1]
    BY <1>2 DEF CreatePlain, CreateReserved
  <2>2. UNCHANGED <<adminVars, paid>>
    BY <1>2 DEF CreatePlain, CreateReserved
  <2>3. AtRest(w) /\ Settled(w) /\ status[w] = "NONE"
    BY <2>0, NoneAtRest DEF ChargeInv
  <2>4. held[w] = 0 /\ paid[w] = 0
    BY <2>3 DEF Settled, Flagged
  <2>5. /\ status'[w] = "PENDING" /\ balanceDeducted'[w] \in BOOLEAN
        /\ held'[w] = (IF balanceDeducted'[w] THEN 1 ELSE 0)
    <3>1. CASE InsertPending(w, creating[c], FALSE) /\ held' = held
      BY <3>1, <2>4 DEF InsertPending, TypeOK
    <3>2. CASE /\ InsertPending(w, creating[c], TRUE)
               /\ held' = [held EXCEPT ![w] = @ + 1]
      <4>1. held'[w] = 1
        BY <3>2, <2>0, <2>4 DEF TypeOK
      <4>2. balanceDeducted'[w] = TRUE /\ status'[w] = "PENDING"
        BY <3>2 DEF InsertPending, TypeOK
      <4> QED
        BY <4>1, <4>2
    <3> QED
      BY <2>1, <3>1, <3>2
  <2>6. Settled(w)'
    BY <2>2, <2>4, <2>5 DEF Settled, Flagged
  <2>7. \A v \in Withdrawals : v # w =>
          /\ status'[v] = status[v] /\ balanceDeducted'[v] = balanceDeducted[v]
          /\ claimAge'[v] = claimAge[v] /\ approvalNote'[v] = approvalNote[v]
          /\ held'[v] = held[v] /\ paid'[v] = paid[v]
    BY <2>1, <2>2 DEF InsertPending, TypeOK
  <2> QED
    BY <2>2, <2>3, <2>6, <2>7, DocumentCharge
<1> QED
  BY <1>1, <1>2 DEF CreateStep, PassCheck, RefuseCreate, StartCreate

\* The admin marks as sent what Speed shows as paid, and confirms what was sent:
\* neither is a withdrawal being rejected.
LEMMA MarkCharge ==
  ASSUME Unfailing, TypeOK, ChargeInv,
         NEW w \in Withdrawals, MarkSent(w) \/ Confirm(w)
  PROVE  ChargeInv'
<1> USE DEF docVars, adminVars, moneyVars
<1>1. /\ UNCHANGED <<pc, on, inMemory, left, balanceDeducted, claimAge, approvalNote,
                     held, paid>>
      /\ \A v \in Withdrawals : v # w => status'[v] = status[v]
      /\ status'[w] \in {"SENT", "CONFIRMED"}
      /\ status[w] = "FAILED" => paid[w] > 0
  BY DEF MarkSent, Confirm, CheckedPaid, Unfailing, TypeOK
<1>2. ASSUME NEW g \in Handlers
      PROVE  Accounted(g)' /\ Guarded(g)'
  <2>1. Accounted(g) /\ Guarded(g) /\ (pc[g] # "idle" => on[g] \in Withdrawals)
    BY DEF ChargeInv, TypeOK
  <2>2. Accounted(g)'
    BY <1>1, <2>1 DEF Accounted, Flagged
  <2>3. Guarded(g)'
    BY <1>1, <2>1 DEF Guarded, ApprovePcs, RejectPcs
  <2> QED
    BY <2>2, <2>3
<1>3. ASSUME NEW v \in Withdrawals
      PROVE  Settled(v)'
  BY <1>1 DEF ChargeInv, Settled, Flagged, AtRest
<1>4. Alone'
  BY <1>1 DEF ChargeInv, Alone
<1> QED
  BY <1>2, <1>3, <1>4 DEF ChargeInv

\* Time passes only while every approval waits for Speed, within its timeout.
LEMMA TickCharge ==
  ASSUME TypeOK, ChargeInv, Tick
  PROVE  ChargeInv'
<1> USE DEF moneyVars
<1>1. UNCHANGED <<pc, on, inMemory, status, balanceDeducted, approvalNote, held, paid>>
  BY DEF Tick
<1>2. ASSUME NEW g \in Handlers
      PROVE  Accounted(g)' /\ Guarded(g)'
  <2>1. Accounted(g) /\ Guarded(g) /\ (pc[g] # "idle" => on[g] \in Withdrawals)
    BY DEF ChargeInv, TypeOK
  <2>2. Accounted(g)'
    BY <1>1, <2>1 DEF Accounted, Flagged
  <2>3. CASE pc[g] \in ApprovePcs
    <3>1. pc[g] \in ProviderPcs /\ left[g] > 0
      BY <2>3 DEF Tick, ApprovePcs
    <3>2. left'[g] = left[g] - 1 /\ left[g] \in Nat
      BY <3>1 DEF Tick, TypeOK
    <3>3. claimAge'[on[g]] <= claimAge[on[g]] + 1 /\ claimAge[on[g]] \in Int
      BY <2>1, <3>1, TimeAssumption DEF Tick, TypeOK, Unclaimed, ProviderPcs
    <3>4. claimAge'[on[g]] \in Int
      BY <2>1, <3>1, <3>3, TimeAssumption DEF Tick, ProviderPcs
    <3>5. Deadline(pc[g]) \in Nat
      BY TimeAssumption DEF Deadline
    <3>6. claimAge'[on[g]] + left'[g] <= Deadline(pc[g])
      BY <2>1, <2>3, <3>2, <3>3, <3>4, <3>5 DEF Guarded
    <3>7. Deadline(pc[g])' = Deadline(pc[g])
      BY <1>1 DEF Deadline
    <3> QED
      BY <1>1, <2>1, <2>2, <2>3, <3>6, <3>7 DEF Guarded, ApprovePcs, RejectPcs
  <2>4. CASE pc[g] \notin ApprovePcs
    <3>1. pc[g] = "idle" => left[g] = 0
      BY DEF ChargeInv, Guarded
    <3>2. Guarded(g)'
      BY <1>1, <2>1, <2>4, <3>1 DEF Guarded, Tick, TypeOK
    <3> QED
      BY <2>2, <3>2
  <2> QED
    BY <2>3, <2>4
<1>3. ASSUME NEW v \in Withdrawals
      PROVE  Settled(v)'
  BY <1>1 DEF ChargeInv, Settled, Flagged, AtRest
<1>4. Alone'
  BY <1>1 DEF ChargeInv, Alone
<1> QED
  BY <1>2, <1>3, <1>4 DEF ChargeInv

LEMMA NextCharge ==
  ASSUME Unfailing
  PROVE  TypeOK /\ ClaimGuardsPayment /\ ChargeInv /\ [Next]_vars => ChargeInv'
<1> SUFFICES ASSUME TypeOK, ClaimGuardsPayment, ChargeInv, [Next]_vars
             PROVE  ChargeInv'
  OBVIOUS
<1>1. CASE \E h \in Handlers : AdminStep(h)
  BY <1>1, AdminCharge
<1>2. CASE \E h \in Handlers, w \in Withdrawals : Claim(h, w) \/ Reject(h, w)
  BY <1>2, TakeCharge
<1>3. ASSUME \/ \E c \in Clients : CreateStep(c)
             \/ \E c \in Clients, u \in Users, a \in Amounts, route \in Routes :
                  StartCreate(c, u, a, route)
      PROVE  ChargeInv'
  BY <1>3, CreateCharge
<1>4. CASE \E w \in Withdrawals : MarkSent(w) \/ Confirm(w)
  BY <1>4, MarkCharge
<1>5. CASE Tick
  BY <1>5, TickCharge
<1>6. ~Crash /\ \A h \in Handlers : ~DbError(h)
  BY DEF Unfailing, Crash, DbError, TypeOK
<1>7. CASE UNCHANGED vars
  BY <1>7 DEF vars, docVars, adminVars, moneyVars, ChargeInv, Accounted, Guarded,
              Settled, Flagged, AtRest, Alone
<1> QED
  BY <1>1, <1>2, <1>3, <1>4, <1>5, <1>6, <1>7 DEF Next

LEMMA InitCharge == Init => ChargeInv
  BY NoneAssumption
  DEF Init, ChargeInv, Accounted, Guarded, Settled, Flagged, Alone, ApprovePcs,
      RejectPcs

LEMMA ChargeSafety ==
  ASSUME Unfailing
  PROVE  Spec => []ChargeInv
<1>1. TypeOK /\ ClaimGuardsPayment /\ ChargeInv /\ [Next]_vars => ChargeInv'
  BY NextCharge
<1> QED
  BY <1>1, InitCharge, TypeCorrect, ClaimsGuard, PTL DEF Spec

-----------------------------------------------------------------------------
(* What it says of the money.                                              *)

LEMMA ChargeInvImplies ==
  TypeOK /\ ClaimGuardsPayment /\ ChargeInv =>
    /\ PaidOnlyIfCharged
    /\ ChargedAtMostOnce
    /\ FlagTellsTruth
    /\ RejectedIsRefunded
<1> SUFFICES ASSUME TypeOK, ClaimGuardsPayment, ChargeInv,
                    NEW w \in Withdrawals
             PROVE  /\ paid[w] > 0 => held[w] >= 1
                    /\ held[w] \in {0, 1}
                    /\ AtRest(w) => Flagged(w)
                    /\ status[w] = "FAILED" /\ AtRest(w) => held[w] = 0
  BY DEF PaidOnlyIfCharged, ChargedAtMostOnce, FlagTellsTruth, RejectedIsRefunded,
         Flagged
<1>1. Settled(w)
  BY DEF ChargeInv
<1>2. CASE AtRest(w)
  BY <1>1, <1>2 DEF Settled, Flagged
<1>3. CASE ~AtRest(w)
  <2>1. PICK h \in Handlers : on[h] = w
    BY <1>3 DEF AtRest
  <2>2. pc[h] # "idle"
    BY <2>1, BusyIsOn
  <2>3. Accounted(h) /\ Guarded(h)
    BY DEF ChargeInv
  <2>4. held[w] \in {0, 1}
    BY <2>1, <2>2, <2>3
    DEF Accounted, Guarded, Flagged, TypeOK, ApprovePcs, RejectPcs
  <2>5. ASSUME paid[w] > 0
        PROVE  held[w] = 1
    <3>1. pc[h] \in ApprovePcs
      BY <2>1, <2>2, <2>3, <2>5 DEF Guarded, TypeOK
    <3> QED
      BY <2>1, <2>3, <2>5, <3>1 DEF ClaimGuardsPayment, Accounted
  <2> QED
    BY <1>3, <2>4, <2>5
<1> QED
  BY <1>2, <1>3

\* No withdrawal is paid that was not charged, and none is refunded afterwards.
THEOREM PaidIsCharged ==
  ASSUME Unfailing
  PROVE  Spec => []PaidOnlyIfCharged
BY ChargeSafety, ChargeInvImplies, TypeCorrect, ClaimsGuard, PTL

\* No withdrawal is charged twice or refunded twice.
THEOREM NeverChargedTwice ==
  ASSUME Unfailing
  PROVE  Spec => []ChargedAtMostOnce
BY ChargeSafety, ChargeInvImplies, TypeCorrect, ClaimsGuard, PTL

\* balanceDeducted says whether a refund is owed.
THEOREM FlagIsTrue ==
  ASSUME Unfailing
  PROVE  Spec => []FlagTellsTruth
BY ChargeSafety, ChargeInvImplies, TypeCorrect, ClaimsGuard, PTL

\* A rejected withdrawal leaves its user with the money.
THEOREM RejectionRefunds ==
  ASSUME Unfailing
  PROVE  Spec => []RejectedIsRefunded
BY ChargeSafety, ChargeInvImplies, TypeCorrect, ClaimsGuard, PTL

\* What was taken for a withdrawal, its flag and its status agree.
THEOREM ChargesAgree ==
  ASSUME Unfailing
  PROVE  Spec => []ChargeIsAccounted
BY NeverChargedTwice, FlagIsTrue, RejectionRefunds, PTL DEF ChargeIsAccounted

-----------------------------------------------------------------------------
(* The routes implement the ledger, step by step.                          *)

\* What is recorded as sent, or about to be, has been paid.
SentIsPaid ==
  /\ \A w \in Withdrawals : status[w] \in {"SENT", "CONFIRMED"} => paid[w] > 0
  /\ \A h \in Handlers : pc[h] = "paid" => paid[on[h]] > 0

LEMMA SentStep ==
  ASSUME Unfailing, TypeOK, SentIsPaid, [Next]_vars
  PROVE  SentIsPaid'
<1> USE DEF docVars, adminVars, moneyVars
<1>1. ASSUME NEW h \in Handlers, AdminStep(h)
      PROVE  SentIsPaid'
  <2> USE DEF SentIsPaid, TypeOK
  <2>1. CASE RefuseApproval(h) \/ SpeedSilent(h) \/ SpeedRefuses(h) \/ SwapFails(h)
    BY <2>1 DEF RefuseApproval, SpeedSilent, SpeedRefuses, SwapFails, Goto
  <2>2. CASE SkipDeduction(h) \/ SpeedInsufficient(h) \/ SwapDone(h) \/ RecordDeducted(h)
    BY <2>2 DEF SkipDeduction, SpeedInsufficient, SwapDone, RecordDeducted, CallProvider
  <2>3. CASE Deduct(h) \/ RecordRestored(h)
    BY <2>3 DEF Deduct, RecordRestored, Goto
  <2>4. CASE SpeedPays(h)
    <3>1. on[h] \in Withdrawals /\ paid' = [paid EXCEPT ![on[h]] = @ + 1]
          /\ status' = status /\ on' = on
          /\ \A g \in Handlers : g # h => pc'[g] = pc[g]
      BY <2>4 DEF SpeedPays, Goto
    <3>2. /\ \A v \in Withdrawals : paid[v] > 0 => paid'[v] > 0
          /\ paid'[on[h]] > 0
      BY <3>1
    <3>3. \A g \in Handlers : pc[g] = "paid" => on[g] \in Withdrawals
      OBVIOUS
    <3> QED BY <3>1, <3>2, <3>3
  <2>5. CASE RecordSent(h)
    BY <2>5 DEF RecordSent, Answer
  <2>6. CASE Release(h) \/ Lock(h) \/ RecordRefunded(h)
    BY <2>6 DEF Release, Lock, RecordRefunded, Answer
  <2>7. CASE Restore(h) \/ Refund(h)
    BY <2>7 DEF Restore, Refund, ReturnDeposit, Goto
  <2>8. CASE PutBack(h)
    BY <2>8 DEF PutBack, Answer
  <2> QED BY <1>1, <2>1, <2>2, <2>3, <2>4, <2>5, <2>6, <2>7, <2>8 DEF AdminStep
<1>2. ASSUME NEW h \in Handlers, NEW w \in Withdrawals, Claim(h, w) \/ Reject(h, w)
      PROVE  SentIsPaid'
  BY <1>2 DEF SentIsPaid, TypeOK, Claim, Reject
<1>3. ASSUME NEW w \in Withdrawals, MarkSent(w) \/ Confirm(w)
      PROVE  SentIsPaid'
  BY <1>3 DEF SentIsPaid, TypeOK, MarkSent, Confirm, CheckedPaid, Unfailing
<1>4. ASSUME NEW c \in Clients, CreateStep(c)
      PROVE  SentIsPaid'
  BY <1>4 DEF SentIsPaid, TypeOK, CreateStep, PassCheck, RefuseCreate, CreatePlain,
    CreateReserved, InsertPending
<1>5. ASSUME NEW c \in Clients, NEW u \in Users, NEW a \in Amounts, NEW route \in Routes,
             StartCreate(c, u, a, route)
      PROVE  SentIsPaid'
  BY <1>5 DEF SentIsPaid, StartCreate
<1>6. CASE Tick
  BY <1>6 DEF SentIsPaid, Tick
<1>7. ~Crash /\ \A h \in Handlers : ~DbError(h)
  BY DEF Unfailing, Crash, DbError, TypeOK
<1>8. CASE UNCHANGED vars
  BY <1>8 DEF SentIsPaid, vars
<1> QED
  BY <1>1, <1>2, <1>3, <1>4, <1>5, <1>6, <1>7, <1>8 DEF Next

LEMMA SentSafety ==
  ASSUME Unfailing
  PROVE  Spec => []SentIsPaid
<1>1. Init => SentIsPaid
  BY DEF Init, SentIsPaid
<1>2. TypeOK /\ SentIsPaid /\ [Next]_vars => SentIsPaid'
  BY SentStep
<1> QED BY <1>1, <1>2, TypeCorrect, PTL DEF Spec

\* What the ledger sees of a document.
Reserved(w) == held[w] > 0

LEMMA OutcomeIs ==
  ASSUME TypeOK, ChargeInv, SentIsPaid, NEW w \in Withdrawals
  PROVE  /\ Outcome(w) = "paid" <=> paid[w] > 0
         /\ Outcome(w) = "none" <=> status[w] = "NONE"
         /\ Outcome(w) = "open" <=> status[w] = "PENDING" /\ paid[w] = 0
         /\ status[w] = "FAILED" /\ paid[w] = 0 => Outcome(w) = "failed"
         /\ status[w] = "NONE" => paid[w] = 0 /\ held[w] = 0
<1>1. paid[w] \in Nat /\ status[w] \in Statuses
  BY DEF TypeOK
<1>2. status[w] = "NONE" => paid[w] = 0 /\ held[w] = 0
  BY NoneAtRest DEF ChargeInv, Settled, Flagged
<1>3. status[w] \in {"SENT", "CONFIRMED"} => paid[w] > 0
  BY DEF SentIsPaid
<1>4. CASE paid[w] > 0
  <2>1. status[w] # "NONE" /\ ~(paid[w] = 0)
    BY <1>1, <1>2, <1>4
  <2>2. Outcome(w) = "paid"
    BY <1>4, <2>1 DEF Outcome
  <2> QED BY <1>2, <1>4, <2>1, <2>2
<1>5. CASE paid[w] = 0
  <2>1. ~(paid[w] > 0)
    BY <1>5
  <2>2. CASE status[w] = "NONE"
    <3>1. Outcome(w) = "none"
      BY <2>1, <2>2 DEF Outcome
    <3> QED BY <1>2, <1>5, <2>1, <2>2, <3>1
  <2>3. CASE status[w] = "FAILED"
    <3>1. Outcome(w) = "failed"
      BY <2>1, <2>3 DEF Outcome
    <3> QED BY <1>5, <2>1, <2>3, <3>1
  <2>4. CASE status[w] = "PENDING"
    <3>1. Outcome(w) = "open"
      BY <2>1, <2>4 DEF Outcome
    <3> QED BY <1>5, <2>1, <2>4, <3>1
  <2> QED BY <1>1, <1>3, <2>1, <2>2, <2>3, <2>4 DEF Statuses
<1> QED BY <1>1, <1>4, <1>5

\* A step that touches neither status, payments, reservations nor the deposit
\* is none of the ledger's.
LEMMA LedgerStands ==
  ASSUME UNCHANGED <<BTC_DEPOSIT, userId, amount, held>>,
         \A w \in Withdrawals : Outcome(w)' = Outcome(w)
  PROVE  UNCHANGED Ledger!vars
BY DEF Ledger!vars

LEMMA SameOutcomes ==
  ASSUME status' = status, paid' = paid, NEW w \in Withdrawals
  PROVE  Outcome(w)' = Outcome(w)
BY DEF Outcome

LEMMA CreateLedger ==
  ASSUME TypeOK, ChargeInv, SentIsPaid, NEW c \in Clients, NEW w \in Withdrawals,
         CreatePlain(c, w) \/ CreateReserved(c, w)
  PROVE  Ledger!Next
<1> DEFINE r == creating[c]
<1>1. r \in Creates
  BY DEF CreatePlain, CreateReserved, TypeOK, NoCreate
<1>2. PICK now \in BOOLEAN :
        /\ InsertPending(w, r, now) /\ paid' = paid
        /\ held' = IF now THEN [held EXCEPT ![w] = @ + 1] ELSE held
        /\ IF now THEN TakeDeposit(r.user, r.amount) ELSE BTC_DEPOSIT' = BTC_DEPOSIT
  BY DEF CreatePlain, CreateReserved, moneyVars
<1>3. r.user \in Users /\ r.amount \in Amounts
  BY <1>1 DEF Creates
<1> HIDE DEF r
<1>4. status[w] = "NONE" /\ paid[w] = 0 /\ held[w] = 0 /\ Outcome(w) = "none"
  BY <1>2, OutcomeIs DEF InsertPending
<1>5. \A v \in Withdrawals : Outcome(v) = "open" => userId[v] # r.user
  BY <1>2, OutcomeIs DEF InsertPending, IndexAdmits, HasPending
<1>6. /\ status' = [status EXCEPT ![w] = "PENDING"]
      /\ userId' = [userId EXCEPT ![w] = r.user]
      /\ amount' = [amount EXCEPT ![w] = r.amount]
  BY <1>2 DEF InsertPending
<1>7. Outcome(w)' = "open"
  BY <1>2, <1>4, <1>6 DEF Outcome, TypeOK
<1>8. \A v \in Withdrawals : v # w => Outcome(v)' = Outcome(v)
  BY <1>2, <1>6 DEF Outcome, TypeOK
<1>9. /\ \A v \in Withdrawals : v # w => (held'[v] > 0) = (held[v] > 0)
      /\ (held'[w] > 0) = now
  BY <1>2, <1>4 DEF TypeOK
<1>10. [v \in Withdrawals |-> Outcome(v)]'
          = [[v \in Withdrawals |-> Outcome(v)] EXCEPT ![w] = "open"]
  BY <1>7, <1>8
<1>11. [v \in Withdrawals |-> held[v] > 0]'
          = [[v \in Withdrawals |-> held[v] > 0] EXCEPT ![w] = now]
  BY <1>9
<1>12. IF now THEN /\ BTC_DEPOSIT[r.user] >= r.amount
                   /\ BTC_DEPOSIT' = [BTC_DEPOSIT EXCEPT ![r.user] = @ - r.amount]
              ELSE UNCHANGED BTC_DEPOSIT
  BY <1>2 DEF TakeDeposit
<1>13. Ledger!Open(w, r.user, r.amount, now)
  BY <1>4, <1>5, <1>6, <1>10, <1>11, <1>12 DEF Ledger!Open
<1> QED BY <1>3, <1>13 DEF Ledger!Next

LEMMA AdminLedger ==
  ASSUME TypeOK, ClaimGuardsPayment, ChargeInv, SentIsPaid, NEW h \in Handlers, AdminStep(h)
  PROVE  Ledger!Next \/ UNCHANGED Ledger!vars
<1> USE DEF docVars, moneyVars
<1>1. CASE RefuseApproval(h) \/ SpeedSilent(h) \/ SpeedRefuses(h) \/ SwapFails(h)
  BY <1>1, SameOutcomes, LedgerStands
  DEF RefuseApproval, SpeedSilent, SpeedRefuses, SwapFails, Goto
<1>2. CASE SkipDeduction(h) \/ SpeedInsufficient(h) \/ SwapDone(h) \/ RecordDeducted(h)
  BY <1>2, SameOutcomes, LedgerStands
  DEF SkipDeduction, SpeedInsufficient, SwapDone, RecordDeducted, CallProvider
<1>3. CASE Release(h) \/ Lock(h) \/ RecordRefunded(h) \/ RecordRestored(h)
  BY <1>3, SameOutcomes, LedgerStands DEF Release, Lock, RecordRefunded, RecordRestored
<1>4. ~PutBack(h)
  BY DEF PutBack, ChargeInv, Guarded, RejectPcs
<1>5. ASSUME Deduct(h) \/ SpeedPays(h) \/ Restore(h) \/ Refund(h) \/ RecordSent(h)
      PROVE  Ledger!Next \/ UNCHANGED Ledger!vars
  <2>1. pc[h] # "idle" /\ (pc[h] \in ApprovePcs \/ pc[h] \in RejectPcs)
    BY <1>5 DEF Deduct, SpeedPays, Restore, Refund, RecordSent, ApprovePcs, RejectPcs
  <2>2. PICK w \in Withdrawals : w = on[h]
    BY <2>1 DEF TypeOK
  <2>3. Accounted(h) /\ Guarded(h) /\ paid[w] \in Nat /\ held[w] \in Int
    BY DEF ChargeInv, TypeOK
  <2>4. pc[h] \in ApprovePcs /\ pc[h] \notin {"paid", "locking"} => paid[w] = 0
    BY <2>2, <2>3 DEF ClaimGuardsPayment
  <2>5. pc[h] \in ApprovePcs /\ pc[h] \notin {"paid", "locking"} => Outcome(w) = "open"
    BY <2>2, <2>3, <2>4, OutcomeIs DEF Guarded, Outcome, TypeOK
  <2>6. CASE Deduct(h)
    <3>1. /\ BTC_DEPOSIT[userId[w]] >= amount[w]
          /\ BTC_DEPOSIT' = [BTC_DEPOSIT EXCEPT ![userId[w]] = @ - amount[w]]
          /\ held' = [held EXCEPT ![w] = @ + 1] /\ paid' = paid
          /\ UNCHANGED <<status, userId, amount>>
          /\ pc[h] = "claimed" /\ ~inMemory[h]
      BY <2>2, <2>6 DEF Deduct, TakeDeposit
    <3>2. held[w] = 0
      BY <2>2, <2>3, <3>1 DEF Accounted, Flagged
    <3>3. /\ (held'[w] > 0) = TRUE
          /\ \A v \in Withdrawals : v # w => (held'[v] > 0) = (held[v] > 0)
      BY <3>1, <3>2 DEF TypeOK
    <3>4. [v \in Withdrawals |-> held[v] > 0]'
            = [[v \in Withdrawals |-> held[v] > 0] EXCEPT ![w] = TRUE]
      BY <3>3
    <3>5. [v \in Withdrawals |-> Outcome(v)]' = [v \in Withdrawals |-> Outcome(v)]
      BY <3>1, SameOutcomes
    <3>6. Outcome(w) = "open" /\ ~(held[w] > 0)
      BY <2>5, <3>1, <3>2 DEF ApprovePcs
    <3>7. Ledger!Reserve(w)
      BY <3>1, <3>4, <3>5, <3>6 DEF Ledger!Reserve
    <3> QED BY <3>7 DEF Ledger!Next
  <2>7. CASE Restore(h) \/ Refund(h)
    <3>1. /\ BTC_DEPOSIT' = [BTC_DEPOSIT EXCEPT ![userId[w]] = @ + amount[w]]
          /\ held' = [held EXCEPT ![w] = @ - 1] /\ paid' = paid
          /\ UNCHANGED <<status, userId, amount>>
          /\ pc[h] \in {"restoring", "refunding"}
      BY <2>2, <2>7 DEF Restore, Refund, ReturnDeposit
    <3>2. held[w] = 1 /\ paid[w] = 0
      BY <2>2, <2>3, <2>4, <3>1 DEF Accounted, Guarded, ApprovePcs, RejectPcs
    <3>3. /\ (held'[w] > 0) = FALSE
          /\ \A v \in Withdrawals : v # w => (held'[v] > 0) = (held[v] > 0)
      BY <3>1, <3>2 DEF TypeOK
    <3>4. [v \in Withdrawals |-> held[v] > 0]'
            = [[v \in Withdrawals |-> held[v] > 0] EXCEPT ![w] = FALSE]
      BY <3>3
    <3>5. [v \in Withdrawals |-> Outcome(v)]' = [v \in Withdrawals |-> Outcome(v)]
      BY <3>1, SameOutcomes
    <3>6. Outcome(w) # "paid" /\ held[w] > 0
      BY <3>2, OutcomeIs
    <3>7. Ledger!Return(w)
      BY <3>1, <3>4, <3>5, <3>6 DEF Ledger!Return
    <3> QED BY <3>7 DEF Ledger!Next
  <2>8. CASE SpeedPays(h)
    <3>1. /\ paid' = [paid EXCEPT ![w] = @ + 1]
          /\ UNCHANGED <<status, userId, amount, BTC_DEPOSIT, held>>
          /\ pc[h] \in {"sending", "resending"}
      BY <2>2, <2>8 DEF SpeedPays
    <3>2. Outcome(w) = "open" /\ held[w] > 0
      BY <2>2, <2>3, <2>5, <3>1 DEF Accounted, ApprovePcs
    <3>3. paid'[w] > 0 /\ \A v \in Withdrawals : v # w => paid'[v] = paid[v]
      BY <2>3, <3>1 DEF TypeOK
    <3>4. /\ Outcome(w)' = "paid"
          /\ \A v \in Withdrawals : v # w => Outcome(v)' = Outcome(v)
      <4>1. status[w] # "NONE"
        BY <3>2, OutcomeIs
      <4>2. Outcome(w)' = "paid"
        BY <3>1, <3>3, <4>1 DEF Outcome
      <4>3. \A v \in Withdrawals : v # w => Outcome(v)' = Outcome(v)
        BY <3>1, <3>3 DEF Outcome
      <4> QED BY <4>2, <4>3
    <3>5. [v \in Withdrawals |-> Outcome(v)]'
            = [[v \in Withdrawals |-> Outcome(v)] EXCEPT ![w] = "paid"]
      BY <3>4
    <3>6. Ledger!Pay(w)
      BY <3>1, <3>2, <3>5 DEF Ledger!Pay
    <3> QED BY <3>6 DEF Ledger!Next
  <2>9. CASE RecordSent(h)
    <3>1. /\ status' = [status EXCEPT ![w] = "SENT"]
          /\ UNCHANGED <<userId, amount, BTC_DEPOSIT, held, paid>> /\ pc[h] = "paid"
      BY <2>2, <2>9 DEF RecordSent
    <3>2. paid[w] > 0
      BY <2>2, <3>1 DEF SentIsPaid
    <3>3. \A v \in Withdrawals : Outcome(v)' = Outcome(v)
      BY <3>1, <3>2 DEF Outcome, TypeOK
    <3> QED BY <3>1, <3>3, LedgerStands
  <2> QED BY <1>5, <2>6, <2>7, <2>8, <2>9
<1> QED BY <1>1, <1>2, <1>3, <1>4, <1>5 DEF AdminStep

LEMMA StepLedger ==
  ASSUME Unfailing, TypeOK, ClaimGuardsPayment, ChargeInv, SentIsPaid, [Next]_vars
  PROVE  Ledger!Next \/ UNCHANGED Ledger!vars
<1> USE DEF docVars, moneyVars
<1>1. ASSUME NEW h \in Handlers, AdminStep(h)
      PROVE  Ledger!Next \/ UNCHANGED Ledger!vars
  BY <1>1, AdminLedger
<1>2. ASSUME NEW h \in Handlers, NEW w \in Withdrawals, Claim(h, w)
      PROVE  UNCHANGED Ledger!vars
  BY <1>2, SameOutcomes, LedgerStands DEF Claim
<1>3. ASSUME NEW h \in Handlers, NEW w \in Withdrawals, Reject(h, w)
      PROVE  Ledger!Next
  <2>1. /\ status' = [status EXCEPT ![w] = "FAILED"] /\ status[w] = "PENDING"
        /\ UNCHANGED <<userId, amount, BTC_DEPOSIT, held, paid>>
    BY <1>3 DEF Reject, Rejectable
  <2>2. paid[w] = 0
    <3>1. claimAge[w] = Unclaimed \/ paid[w] = 0
      BY <1>3 DEF Reject, CheckedUnpaid, Unfailing
    <3> QED BY <3>1 DEF ClaimGuardsPayment, TypeOK
  <2>3. Outcome(w) = "open"
    BY <2>1, <2>2, OutcomeIs
  <2>4. status'[w] = "FAILED" /\ paid'[w] = 0
    BY <2>1, <2>2 DEF TypeOK
  <2>5. Outcome(w)' = "failed"
    BY <2>4 DEF Outcome
  <2>6. \A v \in Withdrawals : v # w => Outcome(v)' = Outcome(v)
    BY <2>1 DEF Outcome, TypeOK
  <2>7. [v \in Withdrawals |-> Outcome(v)]'
          = [[v \in Withdrawals |-> Outcome(v)] EXCEPT ![w] = "failed"]
    BY <2>5, <2>6
  <2>8. Ledger!TurnDown(w)
    BY <2>1, <2>3, <2>7 DEF Ledger!TurnDown
  <2> QED BY <2>8 DEF Ledger!Next
<1>4. ASSUME NEW w \in Withdrawals, MarkSent(w) \/ Confirm(w)
      PROVE  UNCHANGED Ledger!vars
  <2>1. PICK s \in {"SENT", "CONFIRMED"} : status' = [status EXCEPT ![w] = s]
    BY <1>4 DEF MarkSent, Confirm
  <2>2. paid[w] > 0 /\ UNCHANGED <<userId, amount, BTC_DEPOSIT, held, paid>>
    BY <1>4 DEF MarkSent, Confirm, CheckedPaid, Unfailing, SentIsPaid
  <2>3. \A v \in Withdrawals : Outcome(v)' = Outcome(v)
    BY <2>1, <2>2 DEF Outcome, TypeOK
  <2> QED BY <2>2, <2>3, LedgerStands
<1>5. ASSUME NEW c \in Clients, CreateStep(c)
      PROVE  Ledger!Next \/ UNCHANGED Ledger!vars
  <2>1. CASE PassCheck(c) \/ RefuseCreate(c)
    BY <2>1, SameOutcomes, LedgerStands DEF PassCheck, RefuseCreate
  <2>2. CASE \E w \in Withdrawals : CreatePlain(c, w) \/ CreateReserved(c, w)
    BY <2>2, CreateLedger
  <2> QED BY <1>5, <2>1, <2>2 DEF CreateStep
<1>6. ASSUME NEW c \in Clients, NEW u \in Users, NEW a \in Amounts, NEW route \in Routes,
             StartCreate(c, u, a, route)
      PROVE  UNCHANGED Ledger!vars
  BY <1>6, SameOutcomes, LedgerStands DEF StartCreate
<1>7. CASE Tick
  BY <1>7, SameOutcomes, LedgerStands DEF Tick
<1>8. ~Crash /\ \A h \in Handlers : ~DbError(h)
  BY DEF Unfailing, Crash, DbError, TypeOK
<1>9. CASE UNCHANGED vars
  BY <1>9, SameOutcomes, LedgerStands DEF vars
<1> QED
  BY <1>1, <1>2, <1>3, <1>4, <1>5, <1>6, <1>7, <1>8, <1>9 DEF Next

LEMMA InitLedger == Init => Ledger!Init
<1> SUFFICES ASSUME Init PROVE Ledger!Init
  OBVIOUS
<1>1. \A w \in Withdrawals : Outcome(w) = "none" /\ (held[w] > 0) = FALSE
  BY DEF Init, Outcome
<1>2. /\ [w \in Withdrawals |-> Outcome(w)] = [w \in Withdrawals |-> "none"]
      /\ [w \in Withdrawals |-> held[w] > 0] = [w \in Withdrawals |-> FALSE]
  BY <1>1
<1> QED BY <1>2 DEF Init, Ledger!Init

\* Every behaviour of the routes is a behaviour of the ledger: a withdrawal is
\* paid out of what was reserved for it, and turned down ones give back once.
THEOREM RoutesFollowLedger ==
  ASSUME Unfailing
  PROVE  Spec => Ledger!Init /\ [][Ledger!Next]_Ledger!vars
<1>1. TypeOK /\ ClaimGuardsPayment /\ ChargeInv /\ SentIsPaid /\ [Next]_vars
        => [Ledger!Next]_Ledger!vars
  BY StepLedger
<1> QED
  BY <1>1, InitLedger, TypeCorrect, ClaimsGuard, ChargeSafety, SentSafety, PTL DEF Spec
=============================================================================
