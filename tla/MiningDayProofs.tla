--------------------------- MODULE MiningDayProofs ---------------------------
(***************************************************************************)
(* What holds of a mining day for every number of users, runs of the job   *)
(* and requests, with any number of crashes and failed writes.             *)
(***************************************************************************)
EXTENDS MiningDay, SumLemmas

-----------------------------------------------------------------------------
(* Numbers.                                                                *)

LEMMA MinOfTwo ==
  ASSUME NEW a \in Nat, NEW b \in Nat
  PROVE  Min({a, b}) \in Nat
<1>1. \E x \in {a, b} : \A y \in {a, b} : x =< y
  <2>1. CASE a =< b
    BY <2>1
  <2>2. CASE b =< a
    BY <2>2
  <2> QED
    BY <2>1, <2>2
<1> QED
  BY <1>1 DEF Min

LEMMA MaxWithZero ==
  ASSUME NEW n \in Int
  PROVE  /\ Max({0, n}) \in Nat
         /\ n >= 0 => Max({0, n}) = n
<1>1. \E x \in {0, n} : \A y \in {0, n} : x >= y
  <2>1. CASE n >= 0
    BY <2>1
  <2>2. CASE 0 >= n
    BY <2>2
  <2> QED
    BY <2>1, <2>2
<1>2. Max({0, n}) \in {0, n} /\ \A y \in {0, n} : Max({0, n}) >= y
  BY <1>1 DEF Max
<1> QED
  BY <1>2

-----------------------------------------------------------------------------
(* What the writes make of a row.                                          *)

LEMMA ResetRows ==
  ASSUME NEW r \in Rows, NEW purchased \in Nat
  PROVE  /\ Reset(r, purchased) \in Rows
         /\ Reset(r, purchased).purchased = r.purchased
         /\ ~Reset(r, purchased).active
<1>1. 0 \in MaybeDay
  BY BoundsAssumption DEF MaybeDay
<1> QED
  BY <1>1 DEF Reset, Rows

LEMMA AddRows ==
  ASSUME NEW r \in Rows, NEW delta \in Int
  PROVE  /\ AddHashpower(r, delta) \in Rows
         /\ r.purchased + delta >= 0 =>
              AddHashpower(r, delta).purchased = r.purchased + delta
         /\ AddHashpower(r, delta).active = r.active
         /\ AddHashpower(r, delta).start = r.start
         /\ AddHashpower(r, delta).local = r.local
<1>1. Max({0, r.purchased + delta}) \in Nat /\ Max({0, r.hashpower + delta}) \in Nat
  BY MaxWithZero DEF Rows
<1>2. r.purchased + delta >= 0 => Max({0, r.purchased + delta}) = r.purchased + delta
  BY MaxWithZero DEF Rows
<1> QED
  BY <1>1, <1>2 DEF AddHashpower, Rows

LEMMA CountedRows ==
  ASSUME today \in Days, NEW r \in Rows, NEW seen \in Rows, NEW b \in Bodies
  PROVE  /\ Counted(r, seen, b) \in Rows
         /\ Counted(r, seen, b).purchased = r.purchased
         /\ Counted(r, seen, b).active = r.active
         /\ Counted(r, seen, b).start = r.start
         /\ Counted(r, seen, b).local = r.local
<1>1. AdCounter(seen).day \in MaybeDay /\ AdCounter(seen).used \in Nat
  BY DEF AdCounter, Rows, Days, MaybeDay
<1>2. today \in MaybeDay
  BY DEF Days, MaybeDay
<1>3. AdCounter(seen).used + (IF GrantedAd(seen, b) THEN 1 ELSE 0) \in Nat
  BY <1>1
<1> DEFINE c == AdCounter(seen)
           counts == c.day # seen.adCountDay \/ b.reward = "ad"
           day == IF counts THEN c.day ELSE r.adCountDay
           ads == IF counts THEN c.used + (IF GrantedAd(seen, b) THEN 1 ELSE 0) ELSE r.ads
           start == IF GrantedStart(seen, b) THEN today ELSE r.startRewardDay
<1>4. day \in MaybeDay /\ ads \in Nat /\ start \in MaybeDay
  BY <1>1, <1>2, <1>3 DEF Rows
<1>5. Counted(r, seen, b) = [r EXCEPT !.adCountDay = day, !.ads = ads, !.startRewardDay = start]
  BY DEF Counted
<1> HIDE DEF day, ads, start
<1> QED
  BY <1>4, <1>5 DEF Rows

LEMMA PoweredRows ==
  ASSUME NEW r \in Rows, NEW seen \in Rows, NEW b
  PROVE  /\ Powered(r, seen, b) \in Rows
         /\ Powered(r, seen, b).purchased \in {r.purchased, seen.purchased}
         /\ Powered(r, seen, b).active = r.active
         /\ Powered(r, seen, b).start = r.start
         /\ Powered(r, seen, b).local = r.local
<1>1. Granted(seen, b) \in Nat
  BY AmountsAssumption DEF Granted
<1>2. CASE b.reward = "none"
  BY <1>2 DEF Powered
<1>3. CASE b.reward # "none"
  <2> DEFINE claimed == seen.claimed + Granted(seen, b)
             total == seen.claimed + Granted(seen, b) + seen.purchased
  <2>1. claimed \in Nat /\ total \in Nat /\ seen.purchased \in Nat
    BY <1>1 DEF Rows
  <2>2. Powered(r, seen, b) = [r EXCEPT !.claimed = claimed, !.purchased = seen.purchased,
                                        !.hashpower = total]
    BY <1>3 DEF Powered
  <2> HIDE DEF claimed, total
  <2> QED
    BY <2>1, <2>2 DEF Rows
<1> QED
  BY <1>2, <1>3

LEMMA BodyDays ==
  ASSUME today \in Days, NEW b \in Bodies
  PROVE  b.start \in MaybeDay /\ b.local \in MaybeDay
  BY BoundsAssumption DEF Bodies, Recent, Days, MaybeDay

LEMMA SessionedRows ==
  ASSUME today \in Days, NEW r \in Rows, NEW seen \in Rows, NEW b \in Bodies,
         NEW old \in BOOLEAN
  PROVE  /\ Sessioned(r, seen, b, old) \in Rows
         /\ Sessioned(r, seen, b, old).purchased = r.purchased
<1>1. SaysActive(seen, b) \in BOOLEAN
  BY DEF SaysActive, Bodies, Rows
<1>2. 0 \in MaybeDay /\ today \in MaybeDay
  BY BoundsAssumption DEF Days, MaybeDay
<1>3. StartTime(r, seen, b, old) \in MaybeDay
  <2>1. CASE b.start = 0
    BY <2>1 DEF StartTime, Rows
  <2>2. CASE b.start # 0 /\ seen.start = 0
    BY <2>2, BodyDays DEF StartTime
  <2>3. CASE b.start # 0 /\ seen.start # 0
    BY <2>3, <1>2 DEF StartTime, Rows
  <2> QED
    BY <2>1, <2>2, <2>3
<1>4. LocalStart(r, seen, b) \in MaybeDay
  <2>1. CASE ~SaysActive(seen, b)
    BY <2>1, <1>2 DEF LocalStart
  <2>2. CASE SaysActive(seen, b) /\ b.local # 0
    BY <2>2, BodyDays DEF LocalStart, Rows
  <2>3. CASE SaysActive(seen, b) /\ b.local = 0
    BY <2>3 DEF LocalStart, Rows
  <2> QED
    BY <2>1, <2>2, <2>3
<1> DEFINE starting == SaysActive(seen, b) /\ ~seen.active
           active == IF b.active = "absent" THEN r.active ELSE SaysActive(seen, b)
           start == IF starting /\ StartTime(seen, seen, b, old) # today
                    THEN today ELSE StartTime(r, seen, b, old)
           local == IF starting /\ b.local = 0 THEN today ELSE LocalStart(r, seen, b)
<1>5. active \in BOOLEAN /\ start \in MaybeDay /\ local \in MaybeDay
  BY <1>1, <1>2, <1>3, <1>4 DEF Rows
<1>6. Sessioned(r, seen, b, old) = [r EXCEPT !.active = active, !.start = start, !.local = local]
  BY DEF Sessioned
<1> HIDE DEF active, start, local
<1> QED
  BY <1>5, <1>6 DEF Rows

-----------------------------------------------------------------------------
(* The types.                                                              *)

LEMMA IdleIsRun == NewRow \in Rows /\ IdleJob \in Runs
<1>1. 0 \in MaybeDay
  BY BoundsAssumption DEF MaybeDay
<1>2. NewRow \in Rows
  BY <1>1 DEF NewRow, Rows
<1> QED
  BY <1>2 DEF IdleJob, Runs

LEMMA RowSeen ==
  ASSUME TypeOK, NEW j \in Jobs, job[j].at \in Writing
  PROVE  SeenRow(j) \in Rows /\ Settling(j) \in Users
BY DEF TypeOK, Runs, SeenRow, Settling

LEMMA MinedIsNat ==
  ASSUME NEW r \in Rows
  PROVE  Mined(r) \in Nat
BY MinOfTwo, AmountsAssumption DEF Mined, Rows

\* What the type invariant says of the runs of the job.
RunsOK ==
  /\ job \in [Jobs -> Runs]
  /\ \A j \in Jobs : job[j].at \in Writing => job[j].user \in Users

LEMMA RunsKept ==
  ASSUME RunsOK, NEW j \in Jobs, NEW r \in Runs,
         r.at \in Writing => r.user \in Users,
         job' = [job EXCEPT ![j] = r]
  PROVE  RunsOK'
BY DEF RunsOK

\* The next user, or the next write of this one, keeps a run a run.
LEMMA NextUserTypes ==
  ASSUME RunsOK, NEW j \in Jobs, job' = NextUser(j)
  PROVE  RunsOK'
<1> DEFINE r == [job[j] EXCEPT !.at = "loop", !.user = NoUser, !.deposit = 0]
<1>1. r \in Runs /\ r.at = "loop"
  BY DEF RunsOK, Runs
<1>2. job' = [job EXCEPT ![j] = r]
  BY DEF NextUser
<1> HIDE DEF r
<1> QED
  BY <1>1, <1>2, RunsKept DEF Writing

LEMMA NextWriteTypes ==
  ASSUME RunsOK, NEW j \in Jobs, job[j].at \in Writing, NEW at \in Writing,
         job' = [job EXCEPT ![j].at = at]
  PROVE  RunsOK'
<1> DEFINE r == [job[j] EXCEPT !.at = at]
<1>1. r \in Runs /\ r.user \in Users
  BY DEF RunsOK, Runs
<1>2. job' = [job EXCEPT ![j] = r]
  OBVIOUS
<1> HIDE DEF r
<1> QED
  BY <1>1, <1>2, RunsKept

\* A request's write, whatever row it read.
LEMMA WriteTypes ==
  ASSUME TypeOK, NEW u \in Users, NEW seen \in Rows,
         WritePost(u, seen) \/ WriteRepair(u, seen)
  PROVE  row' \in [Users -> Rows]
<1>1. row[u] \in Rows /\ today \in Days
  BY DEF TypeOK
<1>2. CASE WriteRepair(u, seen)
  <2> DEFINE total == seen.claimed + seen.purchased
             r == [row[u] EXCEPT !.hashpower = total]
  <2>1. total \in Nat
    BY DEF Rows
  <2>2. row' = [row EXCEPT ![u] = r]
    BY <1>2 DEF WriteRepair
  <2> HIDE DEF total
  <2>3. r \in Rows
    BY <1>1, <2>1 DEF Rows
  <2> HIDE DEF r
  <2> QED
    BY <2>2, <2>3 DEF TypeOK
<1>3. CASE WritePost(u, seen)
  <2>1. PICK b \in Bodies, old \in Old(seen) :
          row' = [row EXCEPT ![u] =
              Sessioned(Powered(Counted(row[u], seen, b), seen, b), seen, b, old)]
    BY <1>3 DEF WritePost
  <2>2. old \in BOOLEAN
    BY DEF Old
  <2>3. Counted(row[u], seen, b) \in Rows
    BY <1>1, CountedRows
  <2>4. Powered(Counted(row[u], seen, b), seen, b) \in Rows
    BY <2>3, PoweredRows
  <2>5. Sessioned(Powered(Counted(row[u], seen, b), seen, b), seen, b, old) \in Rows
    BY <1>1, <2>2, <2>4, SessionedRows
  <2> QED
    BY <2>1, <2>5 DEF TypeOK
<1> QED
  BY <1>2, <1>3

LEMMA InitTypes == Init => TypeOK
<1> SUFFICES ASSUME Init
             PROVE  TypeOK
  OBVIOUS
<1>1. RunsOK
  BY IdleIsRun DEF Init, RunsOK, IdleJob, Writing
<1>2. 0 \in MaybeDay /\ 1 \in Days /\ runsToday \in 0..RunsPerDay
  BY BoundsAssumption DEF Init, MaybeDay, Days
<1>3. row \in [Users -> Rows]
  BY IdleIsRun DEF Init
<1> QED
  BY <1>1, <1>2, <1>3 DEF Init, TypeOK, RunsOK

LEMMA JobTypes ==
  ASSUME TypeOK, NEW j \in Jobs, StartRun(j) \/ JobStep(j) \/ JobDbError(j)
  PROVE  TypeOK'
<1> USE DEF dayVars, rowVars, moneyVars, faultVars
<1>0. RunsOK /\ job[j] \in Runs
  BY DEF TypeOK, RunsOK
<1>1. CASE StartRun(j)
  <2> DEFINE found == {u \in Users : row[u].active /\ row[u].start > 0}
             r == [at |-> "loop", todo |-> found, seen |-> row,
                   user |-> NoUser, deposit |-> 0]
  <2>1. r \in Runs /\ r.at \notin Writing
    BY DEF TypeOK, Runs, Writing
  <2>2. job' = [job EXCEPT ![j] = r]
    BY <1>1 DEF StartRun
  <2> HIDE DEF r
  <2>3. RunsOK'
    BY <1>0, <2>1, <2>2, RunsKept
  <2>4. runsToday' \in 0..RunsPerDay
    BY <1>1, BoundsAssumption DEF StartRun, TypeOK
  <2> QED
    BY <1>1, <2>3, <2>4 DEF StartRun, TypeOK, RunsOK
<1>2. ASSUME NEW u \in Users, SkipUser(j, u)
      PROVE  TypeOK'
  <2> DEFINE r == [job[j] EXCEPT !.todo = @ \ {u}]
  <2>1. r \in Runs /\ r.at \notin Writing
    BY <1>0, <1>2 DEF Runs, RunsOK, SkipUser, Writing
  <2>2. job' = [job EXCEPT ![j] = r]
    BY <1>2 DEF SkipUser
  <2> HIDE DEF r
  <2>3. RunsOK'
    BY <1>0, <2>1, <2>2, RunsKept
  <2> QED
    BY <1>2, <2>3 DEF SkipUser, TypeOK, RunsOK
<1>3. ASSUME NEW u \in Users, ReadBalance(j, u)
      PROVE  TypeOK'
  <2> DEFINE r == [job[j] EXCEPT !.at = "saving", !.todo = @ \ {u}, !.user = u,
                                 !.deposit = BTC_DEPOSIT[u]]
  <2>1. BTC_DEPOSIT[u] \in Nat
    BY DEF TypeOK
  <2>2. r \in Runs /\ r.user \in Users
    BY <1>0, <2>1 DEF Runs, RunsOK, Writing
  <2>3. job' = [job EXCEPT ![j] = r]
    BY <1>3 DEF ReadBalance
  <2> HIDE DEF r
  <2>4. RunsOK'
    BY <1>0, <2>2, <2>3, RunsKept
  <2> QED
    BY <1>3, <2>4 DEF ReadBalance, TypeOK, RunsOK
<1>4. CASE SaveBalance(j)
  <2>1. job[j].at \in Writing
    BY <1>4 DEF SaveBalance, Writing
  <2>2. Mined(SeenRow(j)) \in Nat /\ Settling(j) \in Users /\ job[j].deposit \in Nat
    BY <1>0, <2>1, RowSeen, MinedIsNat DEF Runs
  <2>3. BTC_DEPOSIT' \in [Users -> Nat]
    BY <1>4, <2>2 DEF SaveBalance, TypeOK
  <2>4. RunsOK'
    <3> DEFINE at == IF Mined(SeenRow(j)) > 0 THEN "recording" ELSE "resetting"
    <3>1. at \in Writing
      BY DEF Writing
    <3>2. job' = [job EXCEPT ![j].at = at]
      BY <1>4 DEF SaveBalance
    <3> HIDE DEF at
    <3> QED
      BY <1>0, <2>1, <3>1, <3>2, NextWriteTypes
  <2> QED
    BY <1>4, <2>3, <2>4 DEF SaveBalance, TypeOK, RunsOK
<1>5. CASE RecordDay(j)
  <2>1. job[j].at \in Writing /\ "resetting" \in Writing
    BY <1>5 DEF RecordDay, Writing
  <2>2. Mined(SeenRow(j)) \in Nat
    BY <2>1, RowSeen, MinedIsNat
  <2>3. history' \in [Users -> [Days -> Nat]]
    BY <1>5, <2>2 DEF RecordDay, TypeOK
  <2>4. RunsOK'
    BY <1>0, <1>5, <2>1, NextWriteTypes DEF RecordDay
  <2> QED
    BY <1>5, <2>3, <2>4 DEF RecordDay, TypeOK, RunsOK
<1>6. CASE ResetRow(j)
  <2>1. job[j].at \in Writing
    BY <1>6 DEF ResetRow, Writing
  <2>2. Settling(j) \in Users /\ SeenRow(j).purchased \in Nat
    BY <2>1, RowSeen DEF Rows
  <2>3. Reset(row[Settling(j)], SeenRow(j).purchased) \in Rows
    BY <2>2, ResetRows DEF TypeOK
  <2>4. row' \in [Users -> Rows]
    BY <1>6, <2>3 DEF ResetRow, TypeOK
  <2>5. RunsOK'
    BY <1>0, <1>6, NextUserTypes DEF ResetRow
  <2> QED
    BY <1>6, <2>4, <2>5 DEF ResetRow, TypeOK, RunsOK
<1>7. CASE EndRun(j)
  <2>1. RunsOK'
    BY <1>0, <1>7, IdleIsRun, RunsKept DEF EndRun, IdleJob, Writing
  <2> QED
    BY <1>7, <2>1 DEF EndRun, TypeOK, RunsOK
<1>8. CASE JobDbError(j)
  <2>1. RunsOK' /\ dbErrors' \in Nat
    BY <1>0, <1>8, NextUserTypes DEF JobDbError, TypeOK
  <2> QED
    BY <1>8, <2>1 DEF JobDbError, TypeOK, RunsOK
<1> QED
  BY <1>1, <1>2, <1>3, <1>4, <1>5, <1>6, <1>7, <1>8 DEF JobStep

\* One step of anybody else.
LEMMA OthersTypes ==
  ASSUME TypeOK, UNCHANGED job,
         \/ \E u \in Users : RequestAtOnce(u) \/ PackOn(u) \/ PackOff(u)
         \/ \E p \in Posts, u \in Users : RequestRead(p, u)
         \/ \E p \in Posts : RequestWrite(p)
         \/ \E u \in Users, amount \in {-1, 1} : MoveMoney(u, amount)
         \/ NextDay
  PROVE  TypeOK'
<1> USE DEF dayVars, rowVars, moneyVars, faultVars
<1>1. ASSUME NEW u \in Users, RequestAtOnce(u)
      PROVE  TypeOK'
  <2>1. row[u] \in Rows
    BY DEF TypeOK
  <2>2. row' \in [Users -> Rows]
    BY <1>1, <2>1, WriteTypes DEF RequestAtOnce
  <2> QED
    BY <1>1, <2>2 DEF RequestAtOnce, TypeOK
<1>2. ASSUME NEW u \in Users, PackOn(u)
      PROVE  TypeOK'
  <2>1. row' \in [Users -> Rows]
    BY <1>2, AddRows, AmountsAssumption DEF PackOn, TypeOK
  <2>2. inForce' \in [Users -> Nat]
    BY <1>2 DEF PackOn, TypeOK
  <2> QED
    BY <1>2, <2>1, <2>2 DEF PackOn, TypeOK
<1>3. ASSUME NEW u \in Users, PackOff(u)
      PROVE  TypeOK'
  <2>1. row' \in [Users -> Rows]
    BY <1>3, AddRows, AmountsAssumption DEF PackOff, TypeOK
  <2>2. inForce' \in [Users -> Nat]
    BY <1>3 DEF PackOff, TypeOK
  <2> QED
    BY <1>3, <2>1, <2>2 DEF PackOff, TypeOK
<1>4. ASSUME NEW p \in Posts, NEW u \in Users, RequestRead(p, u)
      PROVE  TypeOK'
  <2>1. [user |-> u, seen |-> row[u]] \in Requests
    BY DEF Requests, TypeOK
  <2> QED
    BY <1>4, <2>1 DEF RequestRead, TypeOK
<1>5. ASSUME NEW p \in Posts, RequestWrite(p)
      PROVE  TypeOK'
  <2>1. post[p].user \in Users /\ post[p].seen \in Rows
    BY <1>5 DEF RequestWrite, Requests, TypeOK
  <2>2. row' \in [Users -> Rows]
    BY <1>5, <2>1, WriteTypes DEF RequestWrite
  <2> QED
    BY <1>5, <2>2 DEF RequestWrite, TypeOK
<1>6. ASSUME NEW u \in Users, NEW amount \in {-1, 1}, MoveMoney(u, amount)
      PROVE  TypeOK'
  <2>1. BTC_DEPOSIT' \in [Users -> Nat]
    BY <1>6 DEF MoveMoney, TypeOK
  <2>2. moved' \in [Users -> Int]
    BY <1>6 DEF MoveMoney, TypeOK
  <2> QED
    BY <1>6, <2>1, <2>2 DEF MoveMoney, TypeOK
<1>7. CASE NextDay
  BY <1>7, BoundsAssumption DEF NextDay, TypeOK, Days
<1> QED
  BY <1>1, <1>2, <1>3, <1>4, <1>5, <1>6, <1>7

LEMMA CrashTypes ==
  ASSUME TypeOK, Crash
  PROVE  TypeOK'
<1>1. job' \in [Jobs -> Runs]
  BY IdleIsRun DEF Crash
<1>2. \A j \in Jobs : job'[j].at \notin Writing
  BY DEF Crash, IdleJob, Writing
<1>3. post' \in [Posts -> Requests \cup {IdlePost}] /\ crashes' \in Nat
  BY DEF Crash, TypeOK
<1> QED
  BY <1>1, <1>2, <1>3 DEF Crash, TypeOK, dayVars, rowVars, moneyVars

\* Nothing but the job and a crash touches the runs of the job.
LEMMA NextSplit ==
  Next => \/ \E j \in Jobs : StartRun(j) \/ JobStep(j) \/ JobDbError(j)
          \/ /\ UNCHANGED job
             /\ \/ \E u \in Users : RequestAtOnce(u) \/ PackOn(u) \/ PackOff(u)
                \/ \E p \in Posts, u \in Users : RequestRead(p, u)
                \/ \E p \in Posts : RequestWrite(p)
                \/ \E u \in Users, amount \in {-1, 1} : MoveMoney(u, amount)
                \/ NextDay
          \/ Crash
BY DEF Next, RequestAtOnce, PackOn, PackOff, RequestRead, RequestWrite, MoveMoney, NextDay

LEMMA StutterTypes ==
  ASSUME TypeOK, UNCHANGED vars
  PROVE  TypeOK'
BY DEF TypeOK, vars, dayVars, rowVars, moneyVars, faultVars

\* The types of the variables, of the row of every user, of what a run of the
\* job holds while it awaits the database, and of what a request has read.
THEOREM TypeCorrect == Spec => []TypeOK
<1>1. Init => TypeOK
  BY InitTypes
<1>2. TypeOK /\ [Next]_vars => TypeOK'
  BY NextSplit, JobTypes, OthersTypes, CrashTypes, StutterTypes
<1> QED
  BY <1>1, <1>2, PTL DEF Spec

-----------------------------------------------------------------------------
(* Who changes a row when every request reads and writes at once.          *)

PostsIdle == \A p \in Posts : post[p] = IdlePost

LEMMA IdleFromInit == Init => PostsIdle
BY DEF Init, PostsIdle

LEMMA IdleKept ==
  ASSUME ~RacingPosts, PostsIdle, [Next]_vars
  PROVE  PostsIdle'
BY DEF PostsIdle, Next, JobStep, StartRun, SkipUser, ReadBalance, SaveBalance, RecordDay,
       ResetRow, EndRun, JobDbError, RequestAtOnce, RequestRead, RequestWrite,
       PackOn, PackOff, MoveMoney, NextDay, Crash, vars

LEMMA RowChanges ==
  ASSUME ~RacingPosts, TypeOK, PostsIdle, [Next]_vars, NEW u \in Users
  PROVE  \/ row'[u] = row[u] /\ inForce'[u] = inForce[u]
         \/ \E j \in Jobs : ResetRow(j) /\ Settling(j) = u
         \/ RequestAtOnce(u) \/ PackOn(u) \/ PackOff(u)
<1> USE DEF rowVars
<1>1. ASSUME NEW j \in Jobs, StartRun(j) \/ JobStep(j) \/ JobDbError(j)
      PROVE  \/ row'[u] = row[u] /\ inForce'[u] = inForce[u]
             \/ ResetRow(j) /\ Settling(j) = u
  <2>1. ResetRow(j) \/ UNCHANGED <<row, inForce>>
    BY <1>1 DEF JobStep, StartRun, SkipUser, ReadBalance, SaveBalance, RecordDay,
                EndRun, JobDbError
  <2>2. CASE ResetRow(j) /\ Settling(j) # u
    BY <2>2 DEF ResetRow, TypeOK
  <2> QED
    BY <2>1, <2>2
<1>2. ASSUME NEW v \in Users, RequestAtOnce(v), v # u
      PROVE  row'[u] = row[u] /\ inForce'[u] = inForce[u]
  <2>1. CASE WritePost(v, row[v])
    BY <1>2, <2>1 DEF RequestAtOnce, WritePost, TypeOK
  <2>2. CASE WriteRepair(v, row[v])
    BY <1>2, <2>2 DEF RequestAtOnce, WriteRepair, TypeOK
  <2> QED
    BY <1>2, <2>1, <2>2 DEF RequestAtOnce
<1>3. ASSUME NEW v \in Users, PackOn(v) \/ PackOff(v), v # u
      PROVE  row'[u] = row[u] /\ inForce'[u] = inForce[u]
  BY <1>3 DEF PackOn, PackOff, TypeOK
<1>4. ASSUME NEW p \in Posts
      PROVE  ~RequestWrite(p) /\ \A v \in Users : ~RequestRead(p, v)
  BY DEF PostsIdle, RequestWrite, RequestRead
<1>5. ASSUME \/ \E v \in Users, amount \in {-1, 1} : MoveMoney(v, amount)
             \/ NextDay \/ Crash \/ UNCHANGED vars
      PROVE  row'[u] = row[u] /\ inForce'[u] = inForce[u]
  BY <1>5 DEF MoveMoney, NextDay, Crash, vars
<1> QED
  BY <1>1, <1>2, <1>3, <1>4, <1>5 DEF Next

-----------------------------------------------------------------------------
(* Packs and bonuses.                                                      *)

\* A request writes the bought hashpower it read.
LEMMA WriteKeepsPurchased ==
  ASSUME TypeOK, NEW u \in Users,
         WritePost(u, row[u]) \/ WriteRepair(u, row[u])
  PROVE  row'[u].purchased = row[u].purchased
<1>1. row[u] \in Rows /\ today \in Days
  BY DEF TypeOK
<1>2. CASE WriteRepair(u, row[u])
  <2>1. row'[u] = [row[u] EXCEPT !.hashpower = row[u].claimed + row[u].purchased]
    BY <1>2 DEF WriteRepair, TypeOK
  <2> QED
    BY <1>1, <2>1 DEF Rows
<1>3. CASE WritePost(u, row[u])
  <2> DEFINE seen == row[u]
  <2>1. PICK b \in Bodies, old \in Old(seen) :
          row' = [row EXCEPT ![u] =
            Sessioned(Powered(Counted(seen, seen, b), seen, b), seen, b, old)]
    BY <1>3 DEF WritePost
  <2>2. old \in BOOLEAN
    BY DEF Old
  <2> DEFINE counted == Counted(seen, seen, b)
             powered == Powered(counted, seen, b)
  <2>3. counted \in Rows /\ counted.purchased = seen.purchased
    BY <1>1, CountedRows
  <2>4. powered \in Rows /\ powered.purchased = seen.purchased
    BY <1>1, <2>3, PoweredRows
  <2>5. Sessioned(powered, seen, b, old).purchased = seen.purchased
    BY <1>1, <2>2, <2>4, SessionedRows
  <2> HIDE DEF powered
  <2>6. row'[u] = Sessioned(powered, seen, b, old)
    BY <2>1 DEF TypeOK, powered
  <2> QED
    BY <2>5, <2>6
<1> QED
  BY <1>2, <1>3

LEMMA PacksStep ==
  ASSUME ~RacingPosts, TypeOK, PostsIdle, PurchasedIsInForce, [Next]_vars,
         NEW u \in Users
  PROVE  row'[u].purchased = PackGh * inForce'[u]
<1>1. /\ row[u] \in Rows /\ row[u].purchased = PackGh * inForce[u]
      /\ inForce[u] \in Nat /\ PackGh \in Nat
  BY AmountsAssumption DEF TypeOK, PurchasedIsInForce
<1>2. ASSUME NEW j \in Jobs, ResetRow(j), Settling(j) = u
      PROVE  row'[u].purchased = row[u].purchased /\ inForce'[u] = inForce[u]
  <2>1. SeenRow(j).purchased \in Nat
    BY <1>2, RowSeen DEF ResetRow, Writing, Rows
  <2>2. Reset(row[u], SeenRow(j).purchased).purchased = row[u].purchased
    BY <1>1, <2>1, ResetRows
  <2> QED
    BY <1>2, <2>2 DEF ResetRow, TypeOK
<1>3. CASE RequestAtOnce(u)
  BY <1>1, <1>3, WriteKeepsPurchased DEF RequestAtOnce
<1>4. CASE PackOn(u)
  <2>1. row'[u] = AddHashpower(row[u], PackGh) /\ inForce'[u] = inForce[u] + 1
    BY <1>4 DEF PackOn, TypeOK
  <2>2. row[u].purchased + PackGh = PackGh * (inForce[u] + 1)
    BY <1>1
  <2> QED
    BY <1>1, <2>1, <2>2, AddRows DEF Rows
<1>5. CASE PackOff(u)
  <2>1. row'[u] = AddHashpower(row[u], 0 - PackGh) /\ inForce'[u] = inForce[u] - 1
        /\ inForce[u] - 1 \in Nat
    BY <1>1, <1>5 DEF PackOff, TypeOK
  <2>2. row[u].purchased + (0 - PackGh) = PackGh * (inForce[u] - 1)
    BY <1>1
  <2>3. PackGh * (inForce[u] - 1) >= 0
    BY <1>1, <2>1
  <2>4. 0 - PackGh \in Int /\ row[u].purchased + (0 - PackGh) >= 0
    BY <1>1, <2>2, <2>3
  <2>5. AddHashpower(row[u], 0 - PackGh).purchased = row[u].purchased + (0 - PackGh)
    BY <1>1, <2>4, AddRows
  <2> QED
    BY <2>1, <2>2, <2>5
<1> QED
  BY <1>1, <1>2, <1>3, <1>4, <1>5, RowChanges

\* As long as no write falls between a request's read and its write, a user
\* has the bought hashpower of the packs and bonuses in force, however the
\* job, its crashes and its failed writes fall: the reset rewrites the total
\* but not what was bought.
THEOREM PacksInForce ==
  ASSUME ~RacingPosts
  PROVE  Spec => []PurchasedIsInForce
<1>1. Init => PurchasedIsInForce
  BY AmountsAssumption DEF Init, NewRow, PurchasedIsInForce
<1>2. TypeOK /\ PostsIdle /\ PurchasedIsInForce /\ [Next]_vars => PurchasedIsInForce'
  <2> SUFFICES ASSUME TypeOK, PostsIdle, PurchasedIsInForce, [Next]_vars, NEW u \in Users
               PROVE  row'[u].purchased = PackGh * inForce'[u]
    BY DEF PurchasedIsInForce
  <2> QED
    BY PacksStep
<1>3. PostsIdle /\ [Next]_vars => PostsIdle'
  BY IdleKept
<1> QED
  BY <1>1, <1>2, <1>3, TypeCorrect, IdleFromInit, PTL DEF Spec

-----------------------------------------------------------------------------
(* Sessions.                                                               *)

\* The session a request makes of the row it read.
LEMMA SessionWritten ==
  ASSUME TypeOK, NEW u \in Users, WritePost(u, row[u])
  PROVE  \E b \in Bodies, old \in BOOLEAN, r \in Rows :
           /\ CanSend(row[u], b)
           /\ row'[u] = Sessioned(r, row[u], b, old)
           /\ r.active = row[u].active /\ r.start = row[u].start /\ r.local = row[u].local
<1> DEFINE seen == row[u]
<1>1. seen \in Rows /\ today \in Days
  BY DEF TypeOK
<1>2. PICK b \in Bodies, old \in Old(seen) :
        /\ CanSend(seen, b)
        /\ row' = [row EXCEPT ![u] =
             Sessioned(Powered(Counted(seen, seen, b), seen, b), seen, b, old)]
  BY DEF WritePost
<1>3. old \in BOOLEAN
  BY DEF Old
<1> DEFINE counted == Counted(seen, seen, b)
           powered == Powered(counted, seen, b)
<1>4. /\ counted \in Rows /\ counted.active = seen.active
      /\ counted.start = seen.start /\ counted.local = seen.local
  BY <1>1, CountedRows
<1> HIDE DEF counted
<1>5. /\ powered \in Rows /\ powered.active = seen.active
      /\ powered.start = seen.start /\ powered.local = seen.local
  BY <1>1, <1>4, PoweredRows
<1> HIDE DEF powered
<1>6. row'[u] = Sessioned(powered, seen, b, old)
  BY <1>2 DEF TypeOK, powered, counted
<1> QED
  BY <1>2, <1>3, <1>5, <1>6

\* The rule for a new session: it starts now, or today.
LEMMA NewSession ==
  ASSUME today \in Days, NEW r \in Rows, NEW seen \in Rows, NEW b \in Bodies,
         NEW old \in BOOLEAN,
         r.active = seen.active, r.start = seen.start, ~seen.active,
         Sessioned(r, seen, b, old).active
  PROVE  LET new == Sessioned(r, seen, b, old) IN
         /\ new.start = today
         /\ b.local = 0 => new.local = today
         /\ b.local # 0 => new.local = b.local
<1> DEFINE new == Sessioned(r, seen, b, old)
<1>1. new.active = (IF b.active = "absent" THEN r.active ELSE SaysActive(seen, b))
  BY DEF Sessioned, Rows
<1>2. SaysActive(seen, b)
  BY <1>1
<1>3. new.start = IF SaysActive(seen, b) /\ ~seen.active /\ StartTime(seen, seen, b, old) # today
                  THEN today ELSE StartTime(r, seen, b, old)
  BY DEF Sessioned, Rows
<1>4. StartTime(r, seen, b, old) = StartTime(seen, seen, b, old)
  BY DEF StartTime
<1>5. new.local = IF SaysActive(seen, b) /\ ~seen.active /\ b.local = 0
                  THEN today ELSE LocalStart(r, seen, b)
  BY DEF Sessioned, Rows
<1>6. b.local # 0 => LocalStart(r, seen, b) = b.local
  BY <1>2 DEF LocalStart
<1> QED
  BY <1>2, <1>3, <1>4, <1>5, <1>6

\* Of the writers of a row only a request starts a session.
LEMMA OnlyRequestsStart ==
  ASSUME ~RacingPosts, TypeOK, PostsIdle, [Next]_vars, NEW u \in Users,
         ~row[u].active, row'[u].active
  PROVE  WritePost(u, row[u])
<1>1. row[u] \in Rows
  BY DEF TypeOK
<1>2. ASSUME NEW j \in Jobs, ResetRow(j), Settling(j) = u
      PROVE  FALSE
  <2>1. SeenRow(j).purchased \in Nat
    BY <1>2, RowSeen DEF ResetRow, Writing, Rows
  <2>2. ~Reset(row[u], SeenRow(j).purchased).active
    BY <1>1, <2>1, ResetRows
  <2> QED
    BY <1>2, <2>2 DEF ResetRow, TypeOK
<1>3. PackGh \in Int /\ 0 - PackGh \in Int
  BY AmountsAssumption
<1>4. ASSUME NEW delta \in {PackGh, 0 - PackGh}
      PROVE  AddHashpower(row[u], delta).active = row[u].active
  BY <1>1, <1>3, AddRows
<1>5. ~PackOn(u) /\ ~PackOff(u)
  <2>1. PackOn(u) => row'[u] = AddHashpower(row[u], PackGh)
    BY DEF PackOn, TypeOK
  <2>2. PackOff(u) => row'[u] = AddHashpower(row[u], 0 - PackGh)
    BY DEF PackOff, TypeOK
  <2> QED
    BY <1>4, <2>1, <2>2
<1>6. ~WriteRepair(u, row[u])
  BY <1>1 DEF WriteRepair, TypeOK, Rows
<1> QED
  BY <1>2, <1>5, <1>6, RowChanges DEF RequestAtOnce

\* Whatever start_time the app still holds, a session starts on the day it is
\* switched on, when the local time it reports is today's or absent: the last
\* rule of POST /api/user_mining, for requests that read and write at once.
THEOREM SessionsStartToday ==
  ASSUME ~RacingPosts, ~StaleLocalStart
  PROVE  Spec => [][NewSessionIsTodays]_vars
<1>1. TypeOK /\ PostsIdle /\ [Next]_vars => NewSessionIsTodays
  <2> SUFFICES ASSUME TypeOK, PostsIdle, [Next]_vars, NEW u \in Users,
                      ~row[u].active, row'[u].active
               PROVE  SessionDay(row'[u]) = today
    BY DEF NewSessionIsTodays
  <2>1. row[u] \in Rows /\ today \in Days
    BY DEF TypeOK
  <2>2. WritePost(u, row[u])
    BY OnlyRequestsStart
  <2>3. PICK b \in Bodies, old \in BOOLEAN, r \in Rows :
          /\ row'[u] = Sessioned(r, row[u], b, old)
          /\ r.active = row[u].active /\ r.start = row[u].start
    BY <2>2, SessionWritten
  <2>4. b.local \in {0, today}
    BY DEF Bodies
  <2>5. row'[u].local = today
    BY <2>1, <2>3, <2>4, NewSession
  <2> QED
    BY <2>1, <2>5 DEF SessionDay, Days
<1>2. PostsIdle /\ [Next]_vars => PostsIdle'
  BY IdleKept
<1>3. TypeOK /\ PostsIdle /\ [Next]_vars => [NewSessionIsTodays]_vars
  BY <1>1
<1> QED
  BY <1>2, <1>3, TypeCorrect, IdleFromInit, PTL DEF Spec

\* A session that runs on keeps its times, when they are not sent again.
LEMMA KeptSession ==
  ASSUME NEW r \in Rows, NEW seen \in Rows, NEW b \in Bodies, NEW old \in BOOLEAN,
         r.active = seen.active, r.start = seen.start, r.local = seen.local,
         seen.active, seen.start > 0, seen.local > 0, b.start = 0,
         Sessioned(r, seen, b, old).active
  PROVE  LET new == Sessioned(r, seen, b, old) IN
         new.start = seen.start /\ new.local = seen.local
<1> DEFINE new == Sessioned(r, seen, b, old)
<1>1. new.active = (IF b.active = "absent" THEN r.active ELSE SaysActive(seen, b))
  BY DEF Sessioned, Rows
<1>2. SaysActive(seen, b)
  BY <1>1 DEF SaysActive, Bodies
<1>3. new.start = StartTime(r, seen, b, old)
  BY DEF Sessioned, Rows
<1>4. StartTime(r, seen, b, old) = seen.start
  BY DEF StartTime
<1>5. new.local = LocalStart(r, seen, b)
  BY DEF Sessioned, Rows
<1>6. LocalStart(r, seen, b) = seen.local
  BY <1>2 DEF LocalStart, Rows, MaybeDay
<1> QED
  BY <1>3, <1>4, <1>5, <1>6

LEMMA HasDayStep ==
  ASSUME ~RacingPosts, ~ResendsStart, TypeOK, PostsIdle, ActiveHasDay, [Next]_vars,
         NEW u \in Users, row'[u].active
  PROVE  row'[u].start > 0 /\ row'[u].local > 0
<1>1. row[u] \in Rows /\ today \in Days
  BY DEF TypeOK
<1>2. CASE row'[u].start = row[u].start /\ row'[u].local = row[u].local /\ row[u].active
  BY <1>2 DEF ActiveHasDay
<1>3. CASE WritePost(u, row[u])
  <2>1. PICK b \in Bodies, old \in BOOLEAN, r \in Rows :
          /\ CanSend(row[u], b)
          /\ row'[u] = Sessioned(r, row[u], b, old)
          /\ r.active = row[u].active /\ r.start = row[u].start /\ r.local = row[u].local
    BY <1>3, SessionWritten
  <2>2. CASE ~row[u].active
    <3>1. /\ row'[u].start = today
          /\ b.local = 0 => row'[u].local = today
          /\ b.local # 0 => row'[u].local = b.local
      BY <1>1, <2>1, <2>2, NewSession
    <3>2. b.local \in MaybeDay
      BY <1>1, BodyDays
    <3> QED
      BY <1>1, <3>1, <3>2 DEF Days, MaybeDay
  <2>3. CASE row[u].active
    <3>1. b.start = 0
      BY <2>1, <2>3 DEF CanSend
    <3>2. row[u].start > 0 /\ row[u].local > 0
      BY <2>3 DEF ActiveHasDay
    <3> DEFINE seen == row[u]
               new == Sessioned(r, seen, b, old)
    <3>3. new.active
      BY <2>1
    <3>4. new.start = seen.start /\ new.local = seen.local
      <4> seen \in Rows /\ seen.active /\ seen.start > 0 /\ seen.local > 0
        BY <1>1, <2>3, <3>2
      <4> r.active = seen.active /\ r.start = seen.start /\ r.local = seen.local
        BY <2>1
      <4> HIDE DEF seen
      <4> QED
        BY <3>1, <3>3, KeptSession
    <3> QED
      BY <2>1, <3>2, <3>4
  <2> QED
    BY <2>2, <2>3
<1>4. CASE WriteRepair(u, row[u])
  <2>1. row'[u] = [row[u] EXCEPT !.hashpower = row[u].claimed + row[u].purchased]
    BY <1>4 DEF WriteRepair, TypeOK
  <2> QED
    BY <1>1, <1>2, <2>1 DEF Rows
<1>5. ASSUME NEW j \in Jobs, ResetRow(j), Settling(j) = u
      PROVE  FALSE
  <2>1. SeenRow(j).purchased \in Nat
    BY <1>5, RowSeen DEF ResetRow, Writing, Rows
  <2>2. ~Reset(row[u], SeenRow(j).purchased).active
    BY <1>1, <2>1, ResetRows
  <2> QED
    BY <1>5, <2>2 DEF ResetRow, TypeOK
<1>6. CASE PackOn(u) \/ PackOff(u)
  <2>1. PICK delta \in {PackGh, 0 - PackGh} : row'[u] = AddHashpower(row[u], delta)
    BY <1>6 DEF PackOn, PackOff, TypeOK
  <2>2. delta \in Int
    BY AmountsAssumption
  <2> DEFINE added == AddHashpower(row[u], delta)
  <2>3. /\ added.active = row[u].active
        /\ added.start = row[u].start
        /\ added.local = row[u].local
    BY <1>1, <2>2, AddRows
  <2> HIDE DEF added
  <2>4. row'[u] = added
    BY <2>1 DEF added
  <2> QED
    BY <1>2, <2>3, <2>4
<1>7. CASE row'[u] = row[u]
  BY <1>2, <1>7
<1> QED
  BY <1>3, <1>4, <1>5, <1>6, <1>7, RowChanges DEF RequestAtOnce

\* When the app sends no start_time for a session that runs already, an
\* active session always has the two days the job looks for, so the query
\* finds it and its local day can be told.
THEOREM ActiveSessionsHaveDay ==
  ASSUME ~RacingPosts, ~ResendsStart
  PROVE  Spec => []ActiveHasDay
<1>1. Init => ActiveHasDay
  BY DEF Init, NewRow, ActiveHasDay
<1>2. TypeOK /\ PostsIdle /\ ActiveHasDay /\ [Next]_vars => ActiveHasDay'
  <2> SUFFICES ASSUME TypeOK, PostsIdle, ActiveHasDay, [Next]_vars, NEW u \in Users,
                      row'[u].active
               PROVE  row'[u].start > 0 /\ row'[u].local > 0
    BY DEF ActiveHasDay
  <2> QED
    BY HasDayStep
<1>3. PostsIdle /\ [Next]_vars => PostsIdle'
  BY IdleKept
<1> QED
  BY <1>1, <1>2, <1>3, TypeCorrect, IdleFromInit, PTL DEF Spec

\* Sessions have the days the job looks for, and start on the day they start.
THEOREM SessionDaysAreTrue ==
  ASSUME ~RacingPosts, ~ResendsStart, ~StaleLocalStart
  PROVE  Spec => SessionsAreDated
<1>1. ActiveHasDay' /\ [NewSessionIsTodays]_vars
          => [ActiveHasDay' /\ NewSessionIsTodays]_vars
  OBVIOUS
<1>2. Spec => [][ActiveHasDay' /\ NewSessionIsTodays]_vars
  BY <1>1, ActiveSessionsHaveDay, SessionsStartToday, PTL
<1> QED
  BY <1>2 DEF SessionsAreDated

-----------------------------------------------------------------------------
(***************************************************************************)
(* The total of a row while no pack is switched, and every write of the    *)
(* job, of a request and of the repair falls as it may.  What a request or *)
(* the job has read is as stale as you like, and a write overwrites what   *)
(* was written since; the total stays true because each writes its parts   *)
(* and the total together, of rows whose totals were true.  So the         *)
(* invariant speaks of every copy of a row: the stored one, those the runs *)
(* of the job hold and those requests have read.                           *)
(***************************************************************************)

\* A row's total is true and nothing was bought.
Whole(r) == r.purchased = 0 /\ r.hashpower = r.claimed

EveryCopyIsWhole ==
  /\ \A u \in Users : inForce[u] = 0 /\ Whole(row[u])
  /\ \A j \in Jobs, u \in Users : Whole(job[j].seen[u])
  /\ \A p \in Posts : post[p] # IdlePost => Whole(post[p].seen)

-----------------------------------------------------------------------------
LEMMA NewRowIsWhole == Whole(NewRow)
BY DEF Whole, NewRow

LEMMA CountedIsWhole ==
  ASSUME NEW r \in Rows, NEW seen \in Rows, NEW b \in Bodies, Whole(r)
  PROVE  Whole(Counted(r, seen, b))
<1> DEFINE c == AdCounter(seen)
           counts == c.day # seen.adCountDay \/ b.reward = "ad"
           day == IF counts THEN c.day ELSE r.adCountDay
           ads == IF counts THEN c.used + (IF GrantedAd(seen, b) THEN 1 ELSE 0) ELSE r.ads
           start == IF GrantedStart(seen, b) THEN today ELSE r.startRewardDay
<1>1. Counted(r, seen, b) = [r EXCEPT !.adCountDay = day, !.ads = ads, !.startRewardDay = start]
  BY DEF Counted
<1> HIDE DEF day, ads, start
<1> QED
  BY <1>1 DEF Whole, Rows

LEMMA PoweredIsWhole ==
  ASSUME NEW r \in Rows, NEW seen \in Rows, NEW b, Whole(r), Whole(seen)
  PROVE  Whole(Powered(r, seen, b))
<1>1. Granted(seen, b) \in Nat
  BY AmountsAssumption DEF Granted
<1>2. CASE b.reward = "none"
  BY <1>2 DEF Powered
<1>3. CASE b.reward # "none"
  <2> DEFINE claimed == seen.claimed + Granted(seen, b)
             total == seen.claimed + Granted(seen, b) + seen.purchased
  <2>1. total = claimed /\ seen.purchased = 0
    BY <1>1 DEF Rows, Whole
  <2>2. Powered(r, seen, b) = [r EXCEPT !.claimed = claimed, !.purchased = seen.purchased,
                                        !.hashpower = total]
    BY <1>3 DEF Powered
  <2> HIDE DEF claimed, total
  <2> QED
    BY <2>1, <2>2 DEF Rows, Whole
<1> QED
  BY <1>2, <1>3

LEMMA SessionedIsWhole ==
  ASSUME NEW r \in Rows, NEW seen \in Rows, NEW b, NEW old, Whole(r)
  PROVE  Whole(Sessioned(r, seen, b, old))
<1> DEFINE starting == SaysActive(seen, b) /\ ~seen.active
           chosen == StartTime(seen, seen, b, old)
           active == IF b.active = "absent" THEN r.active ELSE SaysActive(seen, b)
           start == IF starting /\ chosen # today THEN today ELSE StartTime(r, seen, b, old)
           local == IF starting /\ b.local = 0 THEN today ELSE LocalStart(r, seen, b)
<1>1. Sessioned(r, seen, b, old) =
        [r EXCEPT !.active = active, !.start = start, !.local = local]
  BY DEF Sessioned
<1> HIDE DEF active, start, local
<1> QED
  BY <1>1 DEF Whole, Rows

\* A request that read a true total leaves one, whatever the row is by then.
LEMMA WriteKeepsWhole ==
  ASSUME TypeOK, NEW u \in Users, NEW seen \in Rows, Whole(seen),
         \A v \in Users : Whole(row[v]),
         WritePost(u, seen) \/ WriteRepair(u, seen)
  PROVE  \A v \in Users : Whole(row'[v])
<1>1. ~WriteRepair(u, seen)
  BY DEF WriteRepair, Whole, Rows
<1>2. PICK b \in Bodies, old \in Old(seen) :
        row' = [row EXCEPT ![u] =
          Sessioned(Powered(Counted(row[u], seen, b), seen, b), seen, b, old)]
  BY <1>1 DEF WritePost
<1> DEFINE counted == Counted(row[u], seen, b)
           powered == Powered(counted, seen, b)
<1>3. row[u] \in Rows /\ today \in Days
  BY DEF TypeOK
<1>4. counted \in Rows /\ Whole(counted)
  BY <1>3, CountedRows, CountedIsWhole
<1>5. powered \in Rows /\ Whole(powered)
  BY <1>4, PoweredRows, PoweredIsWhole
<1> HIDE DEF powered
<1>6. Whole(Sessioned(powered, seen, b, old))
  BY <1>5, SessionedIsWhole
<1>7. row' = [row EXCEPT ![u] = Sessioned(powered, seen, b, old)]
  BY <1>2 DEF powered
<1> QED
  BY <1>6, <1>7 DEF TypeOK

-----------------------------------------------------------------------------
\* The job holds copies, and resets a row to what a copy of it had bought.
LEMMA JobKeepsWhole ==
  ASSUME TypeOK, EveryCopyIsWhole, NEW j \in Jobs,
         StartRun(j) \/ JobStep(j) \/ JobDbError(j)
  PROVE  EveryCopyIsWhole'
<1> USE DEF rowVars
<1>1. CASE StartRun(j)
  <2>1. PICK found : job' = [job EXCEPT ![j] =
            [at |-> "loop", todo |-> found, seen |-> row, user |-> NoUser, deposit |-> 0]]
    BY <1>1 DEF StartRun
  <2>2. \A i \in Jobs, u \in Users : Whole(job'[i].seen[u])
    BY <2>1 DEF TypeOK, EveryCopyIsWhole
  <2> QED
    BY <1>1, <2>2 DEF StartRun, EveryCopyIsWhole
<1>2. CASE EndRun(j)
  <2>1. \A i \in Jobs, u \in Users : Whole(job'[i].seen[u])
    BY <1>2, NewRowIsWhole DEF EndRun, IdleJob, TypeOK, EveryCopyIsWhole
  <2> QED
    BY <1>2, <2>1 DEF EndRun, EveryCopyIsWhole
<1>3. CASE ~StartRun(j) /\ ~EndRun(j)
  <2>1. \A i \in Jobs : job'[i].seen = job[i].seen
    <3>1. \A u \in Users : SkipUser(j, u) =>
            job' = [job EXCEPT ![j] = [job[j] EXCEPT !.todo = @ \ {u}]]
      BY DEF SkipUser
    <3>2. \A u \in Users : ReadBalance(j, u) =>
            job' = [job EXCEPT ![j] = [job[j] EXCEPT
              !.at = "saving", !.todo = @ \ {u}, !.user = u, !.deposit = BTC_DEPOSIT[u]]]
      BY DEF ReadBalance
    <3>3. SaveBalance(j) \/ RecordDay(j) =>
            \E at \in Writing : job' = [job EXCEPT ![j] = [job[j] EXCEPT !.at = at]]
      BY DEF SaveBalance, RecordDay, Writing
    <3>4. ResetRow(j) \/ JobDbError(j) =>
            job' = [job EXCEPT ![j] =
              [job[j] EXCEPT !.at = "loop", !.user = NoUser, !.deposit = 0]]
      BY DEF ResetRow, JobDbError, NextUser
    <3>5. PICK r : r.seen = job[j].seen /\ job' = [job EXCEPT ![j] = r]
      <4>1. job[j] \in Runs
        BY DEF TypeOK
      <4> QED
        BY <1>3, <3>1, <3>2, <3>3, <3>4, <4>1 DEF JobStep, Runs
    <3> QED
      BY <3>5 DEF TypeOK
  <2>2. UNCHANGED <<inForce, post>>
    BY <1>3 DEF JobStep, SkipUser, ReadBalance, SaveBalance, RecordDay, ResetRow, JobDbError
  <2>3. \A u \in Users : Whole(row'[u])
    <3>1. CASE ResetRow(j)
      <4> DEFINE v == Settling(j)
                 bought == SeenRow(j).purchased
      <4>1. v \in Users /\ row[v] \in Rows /\ bought = 0
        BY <3>1 DEF ResetRow, TypeOK, Writing, Settling, SeenRow, EveryCopyIsWhole, Whole
      <4>2. row' = [row EXCEPT ![v] = Reset(row[v], bought)]
        BY <3>1 DEF ResetRow
      <4>3. Reset(row[v], bought).purchased = 0 /\ Reset(row[v], bought).hashpower = 0
            /\ Reset(row[v], bought).claimed = 0
        BY <4>1 DEF Reset, Rows, EveryCopyIsWhole, Whole
      <4> HIDE DEF v, bought
      <4> QED
        BY <4>1, <4>2, <4>3 DEF TypeOK, EveryCopyIsWhole, Whole
    <3>2. CASE ~ResetRow(j)
      BY <1>3, <3>2 DEF JobStep, SkipUser, ReadBalance, SaveBalance, RecordDay, JobDbError,
                        EveryCopyIsWhole
    <3> QED
      BY <3>1, <3>2
  <2> QED
    BY <2>1, <2>2, <2>3 DEF EveryCopyIsWhole
<1> QED
  BY <1>1, <1>2, <1>3

LEMMA LateWriteKeepsWhole ==
  ASSUME TypeOK, EveryCopyIsWhole, NEW p \in Posts, RequestWrite(p)
  PROVE  EveryCopyIsWhole'
<1>1. post[p] \in Requests /\ Whole(post[p].seen)
  BY DEF RequestWrite, TypeOK, EveryCopyIsWhole
<1>2. \A v \in Users : Whole(row'[v])
  BY <1>1, WriteKeepsWhole DEF RequestWrite, Requests, EveryCopyIsWhole
<1>3. \A q \in Posts : post'[q] # IdlePost => Whole(post'[q].seen)
  BY DEF RequestWrite, TypeOK, EveryCopyIsWhole
<1> QED
  BY <1>2, <1>3 DEF RequestWrite, EveryCopyIsWhole

LEMMA OthersKeepWhole ==
  ASSUME MaxPacks = 0, TypeOK, EveryCopyIsWhole, NEW u \in Users,
         \/ RequestAtOnce(u) \/ PackOn(u) \/ PackOff(u)
         \/ \E p \in Posts : RequestRead(p, u)
         \/ \E amount \in {-1, 1} : MoveMoney(u, amount)
  PROVE  EveryCopyIsWhole'
<1> USE DEF rowVars
<1>1. CASE RequestAtOnce(u)
  <2>1. row[u] \in Rows /\ Whole(row[u])
    BY DEF TypeOK, EveryCopyIsWhole
  <2>2. \A v \in Users : Whole(row'[v])
    BY <1>1, <2>1, WriteKeepsWhole DEF RequestAtOnce, EveryCopyIsWhole
  <2> QED
    BY <1>1, <2>2 DEF RequestAtOnce, EveryCopyIsWhole
<1>2. ~PackOn(u) /\ ~PackOff(u)
  BY DEF PackOn, PackOff, EveryCopyIsWhole
<1>3. ASSUME NEW p \in Posts, RequestRead(p, u)
      PROVE  EveryCopyIsWhole'
  <2>1. \A q \in Posts : post'[q] # IdlePost => Whole(post'[q].seen)
    BY <1>3 DEF RequestRead, TypeOK, EveryCopyIsWhole
  <2> QED
    BY <1>3, <2>1 DEF RequestRead, EveryCopyIsWhole
<1>4. ASSUME NEW amount \in {-1, 1}, MoveMoney(u, amount)
      PROVE  EveryCopyIsWhole'
  BY <1>4 DEF MoveMoney, EveryCopyIsWhole
<1> QED
  BY <1>1, <1>2, <1>3, <1>4

\* The total of a row is the sum of its parts as long as no pack is switched,
\* with any number of requests and runs of the job that read and write across
\* one another, restarts and failed writes (the relation GET /:userId repairs).
THEOREM TotalIsSum ==
  ASSUME MaxPacks = 0
  PROVE  Spec => []HashpowerIsSum
<1>1. Init => EveryCopyIsWhole
  BY NewRowIsWhole DEF Init, IdleJob, EveryCopyIsWhole
<1>2. TypeOK /\ EveryCopyIsWhole /\ [Next]_vars => EveryCopyIsWhole'
  <2> SUFFICES ASSUME TypeOK, EveryCopyIsWhole, [Next]_vars PROVE EveryCopyIsWhole'
    OBVIOUS
  <2>1. CASE UNCHANGED vars
    BY <2>1 DEF vars, rowVars, EveryCopyIsWhole
  <2>2. CASE NextDay \/ Crash
    <3>1. CASE NextDay
      BY <3>1 DEF NextDay, EveryCopyIsWhole
    <3>2. CASE Crash
      <4>1. \A i \in Jobs, v \in Users : Whole(job'[i].seen[v])
        BY <3>2, NewRowIsWhole DEF Crash, IdleJob
      <4> QED
        BY <3>2, <4>1 DEF Crash, rowVars, EveryCopyIsWhole
    <3> QED
      BY <2>2, <3>1, <3>2
  <2> QED
    BY <2>1, <2>2, JobKeepsWhole, LateWriteKeepsWhole, OthersKeepWhole DEF Next
<1>3. TypeOK /\ EveryCopyIsWhole => HashpowerIsSum
  BY DEF TypeOK, Rows, EveryCopyIsWhole, Whole, HashpowerIsSum
<1> QED
  BY <1>1, <1>2, <1>3, TypeCorrect, PTL DEF Spec

-----------------------------------------------------------------------------
(* The money: the deposit, the recorded days and what is under way.        *)

Recorded(u) == SumOf(history[u], Days)

\* What run j has credited to u and not recorded.
Pending(j, u) ==
  IF job[j].at = "recording" /\ job[j].user = u THEN Mined(SeenRow(j)) ELSE 0

\* Between the two, the job holds the deposit as it is.
HoldsDeposit ==
  \A j \in Jobs : job[j].at = "saving" => job[j].deposit = BTC_DEPOSIT[job[j].user]

Covered ==
  \A u \in Users, j \in Jobs : BTC_DEPOSIT[u] >= Recorded(u) + moved[u] + Pending(j, u)

Balanced ==
  \A u \in Users, j \in Jobs : BTC_DEPOSIT[u] = Recorded(u) + moved[u] + Pending(j, u)

LEMMA DaysFinite == IsFiniteSet(Days)
BY FS_Interval, BoundsAssumption DEF Days

LEMMA RecordedInt ==
  ASSUME TypeOK, NEW u \in Users
  PROVE  Recorded(u) \in Nat
<1>1. \A d \in Days : history[u][d] \in Int /\ history[u][d] >= 0
  BY DEF TypeOK
<1> QED
  BY <1>1, DaysFinite, SumType DEF Recorded

LEMMA PendingInt ==
  ASSUME TypeOK, NEW u \in Users, NEW j \in Jobs
  PROVE  Pending(j, u) \in Nat
<1>1. job[j].at = "recording" => Mined(SeenRow(j)) \in Nat
  BY RowSeen, MinedIsNat DEF Writing
<1> QED
  BY <1>1 DEF Pending

\* The sums of the two invariants, as the lemmas on sums have them.
LEMMA RecordedIs ==
  ASSUME NEW u
  PROVE  MapThenSumSet(LAMBDA d : history[u][d], Days) = Recorded(u)
BY DEF Recorded, SumOf

LEMMA UnrecordedIs ==
  ASSUME TypeOK, NEW J, Jobs = {J}, NEW u \in Users
  PROVE  Unrecorded(u) = Pending(J, u)
<1> DEFINE S == {j \in Jobs : job[j].at = "recording" /\ job[j].user = u}
           g == [s \in SUBSET S |-> IF s = {} THEN 0 ELSE Mined(SeenRow(J))]
<1>1. job[J].at = "recording" => Mined(SeenRow(J)) \in Nat
  BY RowSeen, MinedIsNat DEF Writing
<1>2. \A s \in SUBSET S : s # {} => s = {J} /\ (CHOOSE x \in s : TRUE) = J
                                   /\ job[J].at = "recording"
  OBVIOUS
<1>3. g = [s \in SUBSET S |->
             IF s = {} THEN 0
             ELSE Mined(SeenRow(CHOOSE x \in s : TRUE)) + g[s \ {CHOOSE x \in s : TRUE}]]
  <2>1. ASSUME NEW s \in SUBSET S, s # {}
        PROVE  g[s] = Mined(SeenRow(CHOOSE x \in s : TRUE)) + g[s \ {CHOOSE x \in s : TRUE}]
    BY <1>1, <1>2, <2>1
  <2> QED
    BY <2>1
<1>4. PICK h : /\ h = [s \in SUBSET S |->
                  IF s = {} THEN 0
                  ELSE Mined(SeenRow(CHOOSE x \in s : TRUE)) + h[s \ {CHOOSE x \in s : TRUE}]]
               /\ Unrecorded(u) = h[S]
  BY <1>3 DEF Unrecorded, MapThenSumSet, MapThenFoldSet
<1>5. h[{}] = 0
  BY <1>4
<1>6. CASE S = {}
  BY <1>4, <1>5, <1>6 DEF Pending
<1>7. CASE S # {}
  <2>1. S = {J} /\ S \ {CHOOSE x \in S : TRUE} = {} /\ (CHOOSE x \in S : TRUE) = J
    BY <1>2, <1>7
  <2>2. h[S] = Mined(SeenRow(J)) + h[{}]
    BY <1>4, <1>7, <2>1
  <2> QED
    BY <1>1, <1>4, <1>5, <1>7, <2>1, <2>2 DEF Pending
<1> QED
  BY <1>6, <1>7

\* Recording a day changes the sum by the new amount less the old.
LEMMA RecordSum ==
  ASSUME TypeOK, NEW j \in Jobs, RecordDay(j), NEW u \in Users
  PROVE  /\ u # Settling(j) => Recorded(u)' = Recorded(u)
         /\ Recorded(u)' \in Int
         /\ u = Settling(j) => Recorded(u)' <= Recorded(u) + Mined(SeenRow(j))
         /\ u = Settling(j) /\ SessionDay(SeenRow(j)) \in Days
            /\ history[u][SessionDay(SeenRow(j))] = 0
              => Recorded(u)' = Recorded(u) + Mined(SeenRow(j))
<1> DEFINE d == SessionDay(SeenRow(j))
           m == Mined(SeenRow(j))
           f == history[u]
           h == history'[u]
<1>1. m \in Nat /\ Settling(j) \in Users
  BY RowSeen, MinedIsNat DEF RecordDay, Writing
<1>2. history' = [history EXCEPT ![Settling(j)] = [history[Settling(j)] EXCEPT ![d] = m]]
  BY DEF RecordDay
<1>3. f \in [Days -> Nat] /\ Recorded(u) \in Nat
  BY RecordedInt DEF TypeOK
<1>4. Recorded(u)' = SumOf(h, Days) /\ Recorded(u) = SumOf(f, Days)
  BY DEF Recorded
<1>5. CASE u # Settling(j)
  BY <1>2, <1>3, <1>4, <1>5 DEF TypeOK
<1>6. CASE u = Settling(j) /\ d \notin Days
  <2>1. h = f
    BY <1>2, <1>3, <1>6 DEF TypeOK
  <2> QED
    BY <1>1, <1>3, <1>4, <1>6, <2>1
<1>7. CASE u = Settling(j) /\ d \in Days
  <2> HIDE DEF d, m
  <2>1. h = [f EXCEPT ![d] = m]
    BY <1>2, <1>7 DEF TypeOK
  <2> HIDE DEF f, h
  <2>2. /\ \A x \in Days : f[x] \in Int /\ h[x] \in Int
        /\ \A x \in Days \ {d} : h[x] = f[x]
        /\ h[d] = m /\ f[d] \in Nat
    BY <1>1, <1>3, <1>7, <2>1
  <2>3. SumOf(h, Days) = SumOf(f, Days) + m - f[d]
    BY <1>7, <2>2, DaysFinite, SumChange
  <2>4. Recorded(u)' = Recorded(u) + m - f[d]
    BY <1>4, <2>3
  <2>5. Recorded(u)' \in Int /\ Recorded(u)' <= Recorded(u) + m
    BY <1>1, <1>3, <2>2, <2>4
  <2>6. f[d] = 0 => Recorded(u)' = Recorded(u) + m
    BY <1>1, <1>3, <2>4
  <2> QED
    BY <1>7, <2>5, <2>6 DEF d, m, f
<1> QED
  BY <1>5, <1>6, <1>7
-----------------------------------------------------------------------------
\* Where each step leaves its run of the job, and whose it is then.
LEMMA JobWrites ==
  ASSUME TypeOK, NEW j \in Jobs
  PROVE  /\ StartRun(j) => job'[j].at = "loop"
         /\ EndRun(j) => job'[j].at = "idle"
         /\ ResetRow(j) \/ JobDbError(j) => job'[j].at = "loop"
         /\ RecordDay(j) => job'[j].at = "resetting"
         /\ SaveBalance(j) => /\ job'[j].at \in {"recording", "resetting"}
                              /\ job'[j].at = "recording" <=> Mined(SeenRow(j)) > 0
         /\ \A u \in Users : SkipUser(j, u) => job'[j].at = "loop"
         /\ \A u \in Users : ReadBalance(j, u) =>
              job'[j].at = "saving" /\ job'[j].deposit = BTC_DEPOSIT[u] /\ job'[j].user = u
<1>0. job[j] \in Runs /\ job \in [Jobs -> Runs]
  BY DEF TypeOK
<1>1. StartRun(j) => job'[j].at = "loop"
  BY <1>0 DEF StartRun
<1>2. EndRun(j) => job'[j].at = "idle"
  BY <1>0 DEF EndRun, IdleJob
<1>3. ASSUME ResetRow(j) \/ JobDbError(j) PROVE job'[j].at = "loop"
  <2>1. job' = NextUser(j)
    BY <1>3 DEF ResetRow, JobDbError
  <2> QED
    BY <1>0, <2>1 DEF NextUser, Runs
<1>4. RecordDay(j) => job'[j].at = "resetting"
  BY <1>0 DEF RecordDay, Runs
<1>5. SaveBalance(j) => /\ job'[j].at \in {"recording", "resetting"}
                        /\ job'[j].at = "recording" <=> Mined(SeenRow(j)) > 0
  BY <1>0 DEF SaveBalance, Runs
<1>6. ASSUME NEW u \in Users, SkipUser(j, u) PROVE job'[j].at = "loop"
  BY <1>0, <1>6 DEF SkipUser, Runs
<1>7. ASSUME NEW u \in Users, ReadBalance(j, u)
      PROVE  job'[j].at = "saving" /\ job'[j].deposit = BTC_DEPOSIT[u] /\ job'[j].user = u
  BY <1>0, <1>7 DEF ReadBalance, Runs
<1> QED
  BY <1>1, <1>2, <1>3, <1>4, <1>5, <1>6, <1>7

\* A step of the job other than a credit, a record or a failed write leaves
\* the money and what is pending alone.
LEMMA QuietJob ==
  ASSUME TypeOK, NEW j \in Jobs, NEW u \in Users,
         \/ StartRun(j) \/ ResetRow(j) \/ EndRun(j)
         \/ \E v \in Users : SkipUser(j, v) \/ ReadBalance(j, v)
  PROVE  UNCHANGED <<BTC_DEPOSIT, history, moved>> /\ Pending(j, u) = 0 /\ Pending(j, u)' = 0
<1>1. UNCHANGED <<BTC_DEPOSIT, history, moved>>
  BY DEF StartRun, ResetRow, EndRun, SkipUser, ReadBalance, moneyVars
<1>2. job[j].at # "recording"
  BY DEF StartRun, ResetRow, EndRun, SkipUser, ReadBalance
<1>3. job'[j].at # "recording"
  BY JobWrites
<1> QED
  BY <1>1, <1>2, <1>3 DEF Pending

\* A step of anybody but the job leaves what the job holds.
LEMMA OthersMoney ==
  ASSUME \/ \E u \in Users : RequestAtOnce(u) \/ PackOn(u) \/ PackOff(u)
         \/ \E p \in Posts, u \in Users : RequestRead(p, u)
         \/ \E p \in Posts : RequestWrite(p)
         \/ NextDay
         \/ UNCHANGED vars
  PROVE  UNCHANGED <<BTC_DEPOSIT, history, moved, job>>
BY DEF RequestAtOnce, PackOn, PackOff, RequestRead, RequestWrite, NextDay, vars, moneyVars

LEMMA PendingKept ==
  ASSUME UNCHANGED job, NEW j, NEW u
  PROVE  Pending(j, u)' = Pending(j, u)
BY DEF Pending, SeenRow, Settling, Mined

LEMMA HoldsStep ==
  ASSUME ~MoneyDuringSave, NEW J, Jobs = {J}, TypeOK, HoldsDeposit, [Next]_vars
  PROVE  HoldsDeposit'
<1>1. CASE \E v \in Users : ReadBalance(J, v)
  BY <1>1 DEF ReadBalance, HoldsDeposit, moneyVars, TypeOK, Runs
<1>2. CASE \/ StartRun(J) \/ ResetRow(J) \/ EndRun(J) \/ SaveBalance(J) \/ RecordDay(J)
           \/ JobDbError(J) \/ \E v \in Users : SkipUser(J, v)
  <2>1. job'[J].at # "saving"
    BY <1>2, JobWrites
  <2> QED
    BY <2>1 DEF HoldsDeposit
<1>3. ASSUME NEW v \in Users, NEW amount \in {-1, 1}, MoveMoney(v, amount)
      PROVE  HoldsDeposit'
  BY <1>3 DEF MoveMoney, NoSavePending, HoldsDeposit, TypeOK, Writing
<1>4. CASE Crash
  BY <1>4 DEF Crash, IdleJob, HoldsDeposit
<1>5. CASE UNCHANGED <<BTC_DEPOSIT, job>>
  BY <1>5 DEF HoldsDeposit
<1> QED
  BY <1>1, <1>2, <1>3, <1>4, <1>5, OthersMoney DEF Next, JobStep

\* What a step does to the deposit of a user.
LEMMA MoneyStep ==
  ASSUME NEW J, Jobs = {J}, TypeOK, HoldsDeposit, [Next]_vars, NEW u \in Users
  PROVE  \/ /\ BTC_DEPOSIT'[u] - moved'[u] - Pending(J, u)'
                 = BTC_DEPOSIT[u] - moved[u] - Pending(J, u)
            /\ Recorded(u)' = Recorded(u) /\ Pending(J, u)' \in Nat
         \/ /\ RecordDay(J) /\ UNCHANGED <<BTC_DEPOSIT, moved>>
            /\ Pending(J, u) = IF Settling(J) = u THEN Mined(SeenRow(J)) ELSE 0
            /\ Pending(J, u)' = 0
         \/ (JobDbError(J) \/ Crash) /\ UNCHANGED <<BTC_DEPOSIT, history, moved>>
            /\ Pending(J, u)' = 0
<1>0. BTC_DEPOSIT[u] \in Nat /\ moved[u] \in Int /\ Pending(J, u) \in Nat
  BY PendingInt DEF TypeOK
<1>1. history' = history => Recorded(u)' = Recorded(u)
  BY DEF Recorded
<1>2. CASE \/ StartRun(J) \/ ResetRow(J) \/ EndRun(J)
           \/ \E v \in Users : SkipUser(J, v) \/ ReadBalance(J, v)
  BY <1>0, <1>1, <1>2, QuietJob
<1>3. CASE SaveBalance(J)
  <2> DEFINE m == Mined(SeenRow(J))
             v == Settling(J)
  <2>1. v \in Users /\ m \in Nat /\ job[J].deposit = BTC_DEPOSIT[v]
    BY <1>3, RowSeen, MinedIsNat DEF SaveBalance, HoldsDeposit, Writing, Settling
  <2>2. Pending(J, u) = 0 /\ UNCHANGED <<history, moved>>
    BY <1>3 DEF SaveBalance, Pending
  <2>3. /\ job'[J].user = v /\ job'[J].at = IF m > 0 THEN "recording" ELSE "resetting"
        /\ job'[J].seen = job[J].seen
    BY <1>3 DEF SaveBalance, TypeOK, Settling, Runs
  <2>4. Mined(SeenRow(J))' = m
    BY <2>3 DEF Mined, SeenRow, Settling
  <2>5. Pending(J, u)' = IF m > 0 /\ u = v THEN m ELSE 0
    BY <2>3, <2>4 DEF Pending
  <2>6. BTC_DEPOSIT'[u] = IF m > 0 /\ u = v THEN BTC_DEPOSIT[u] + m ELSE BTC_DEPOSIT[u]
    BY <1>3, <2>1 DEF SaveBalance, TypeOK
  <2> HIDE DEF m
  <2> QED
    BY <1>0, <1>1, <2>1, <2>2, <2>5, <2>6
<1>4. CASE JobDbError(J)
  <2>1. job'[J].at = "loop"
    BY <1>4 DEF JobDbError, NextUser, TypeOK, Runs
  <2> QED
    BY <1>4, <2>1 DEF JobDbError, Pending, moneyVars
<1>5. ASSUME NEW v \in Users, NEW amount \in {-1, 1}, MoveMoney(v, amount)
      PROVE  /\ BTC_DEPOSIT'[u] - moved'[u] - Pending(J, u)'
                  = BTC_DEPOSIT[u] - moved[u] - Pending(J, u)
             /\ Recorded(u)' = Recorded(u) /\ Pending(J, u)' \in Nat
  <2>1. UNCHANGED <<job, history>>
    BY <1>5 DEF MoveMoney
  <2>2. Pending(J, u)' = Pending(J, u)
    BY <2>1, PendingKept
  <2>3. CASE u = v
    BY <1>0, <1>1, <1>5, <2>1, <2>2, <2>3 DEF MoveMoney, TypeOK
  <2>4. CASE u # v
    BY <1>0, <1>1, <1>5, <2>1, <2>2, <2>4 DEF MoveMoney, TypeOK
  <2> QED
    BY <2>3, <2>4
<1>6. CASE Crash
  BY <1>6 DEF Crash, IdleJob, Pending, moneyVars
<1>7. CASE UNCHANGED <<BTC_DEPOSIT, history, moved, job>>
  BY <1>0, <1>1, <1>7, PendingKept
<1>8. CASE RecordDay(J)
  BY <1>8, JobWrites DEF RecordDay, Pending, Settling
<1> QED
  BY <1>2, <1>3, <1>4, <1>5, <1>6, <1>7, <1>8, OthersMoney DEF Next, JobStep

LEMMA CoveredStep ==
  ASSUME NEW J, Jobs = {J}, TypeOK, TypeOK', HoldsDeposit, Covered, [Next]_vars,
         NEW u \in Users
  PROVE  BTC_DEPOSIT'[u] >= Recorded(u)' + moved'[u] + Pending(J, u)'
<1>1. /\ BTC_DEPOSIT[u] \in Nat /\ moved[u] \in Int /\ Pending(J, u) \in Nat
      /\ Recorded(u) \in Nat /\ BTC_DEPOSIT[u] >= Recorded(u) + moved[u] + Pending(J, u)
  BY PendingInt, RecordedInt DEF TypeOK, Covered
<1>2. BTC_DEPOSIT'[u] \in Nat /\ moved'[u] \in Int
  BY DEF TypeOK
<1>3. CASE /\ BTC_DEPOSIT'[u] - moved'[u] - Pending(J, u)'
                = BTC_DEPOSIT[u] - moved[u] - Pending(J, u)
           /\ Recorded(u)' = Recorded(u) /\ Pending(J, u)' \in Nat
  BY <1>1, <1>2, <1>3
<1>4. CASE /\ RecordDay(J) /\ UNCHANGED <<BTC_DEPOSIT, moved>>
           /\ Pending(J, u) = IF Settling(J) = u THEN Mined(SeenRow(J)) ELSE 0
           /\ Pending(J, u)' = 0
  <2>1. /\ u # Settling(J) => Recorded(u)' = Recorded(u)
        /\ Recorded(u)' \in Int
        /\ u = Settling(J) => Recorded(u)' <= Recorded(u) + Mined(SeenRow(J))
    BY <1>4, RecordSum
  <2> QED
    BY <1>1, <1>2, <1>4, <2>1
<1>5. CASE UNCHANGED <<BTC_DEPOSIT, history, moved>> /\ Pending(J, u)' = 0
  BY <1>1, <1>2, <1>5 DEF Recorded
<1> QED
  BY <1>3, <1>4, <1>5, MoneyStep

\* Whatever fails, restarts or races, a settled day is never credited short:
\* the credit comes before its record and the record replaces the day's row
\* (the order of the two writes in cronJobs.js), as long as one run of the job
\* is in progress at a time and nothing writes the deposit during its save.
THEOREM SettledDaysAreCovered ==
  ASSUME ~MoneyDuringSave, NEW J, Jobs = {J}
  PROVE  Spec => []NeverUnderpaid
<1>1. Init => HoldsDeposit /\ Covered
  <2> SUFFICES ASSUME Init PROVE HoldsDeposit /\ Covered
    OBVIOUS
  <2>1. \A u \in Users : Recorded(u) = 0
    BY DaysFinite, SumType DEF Init, Recorded
  <2>2. \A u \in Users : Pending(J, u) = 0
    BY DEF Init, IdleJob, Pending
  <2> QED
    BY <2>1, <2>2 DEF Init, IdleJob, HoldsDeposit, Covered
<1>2. TypeOK /\ TypeOK' /\ HoldsDeposit /\ Covered /\ [Next]_vars => (HoldsDeposit /\ Covered)'
  <2> SUFFICES ASSUME TypeOK, TypeOK', HoldsDeposit, Covered, [Next]_vars
               PROVE  (HoldsDeposit /\ Covered)'
    OBVIOUS
  <2>1. HoldsDeposit'
    BY HoldsStep
  <2>2. \A u \in Users : BTC_DEPOSIT'[u] >= Recorded(u)' + moved'[u] + Pending(J, u)'
    BY CoveredStep
  <2> QED
    BY <2>1, <2>2 DEF Covered
<1>3. TypeOK /\ Covered => NeverUnderpaid
  <2> SUFFICES ASSUME TypeOK, Covered, NEW u \in Users
               PROVE  BTC_DEPOSIT[u] >= MapThenSumSet(LAMBDA d : history[u][d], Days) + moved[u]
    BY DEF NeverUnderpaid
  <2>1. MapThenSumSet(LAMBDA d : history[u][d], Days) = Recorded(u)
    BY RecordedIs
  <2>2. /\ BTC_DEPOSIT[u] \in Nat /\ moved[u] \in Int /\ Pending(J, u) \in Nat
        /\ Recorded(u) \in Nat /\ BTC_DEPOSIT[u] >= Recorded(u) + moved[u] + Pending(J, u)
    BY PendingInt, RecordedInt DEF TypeOK, Covered
  <2>3. BTC_DEPOSIT[u] >= Recorded(u) + moved[u]
    BY <2>2
  <2> QED
    BY <2>1, <2>3
<1> QED
  BY <1>1, <1>2, <1>3, TypeCorrect, PTL DEF Spec
-----------------------------------------------------------------------------
(* That no day is credited twice takes what days are still to be paid:     *)
(* that of an active session, until it is recorded, and those of the       *)
(* sessions a run has read and not come to.                                *)

\* The day of the session in row r is over or runs, and is not recorded.
Unpaid(u, r) == r.local \in 1..today /\ history[u][r.local] = 0

\* A session that is active was not paid, unless its reset is what comes next.
ActiveIsUnpaid ==
  \A u \in Users : row[u].active =>
    /\ row[u].local \in 1..today
    /\ \/ history[u][row[u].local] = 0
       \/ \E j \in Jobs : job[j].at = "resetting" /\ job[j].user = u

NothingAhead == \A u \in Users, d \in Days : d >= today => history[u][d] = 0

\* Nor were those a run has still to settle; each is settled once.
RunsUnpaid ==
  \A j \in Jobs :
    /\ \A u \in job[j].todo : Unpaid(u, job[j].seen[u])
    /\ job[j].at \in Writing =>
         /\ job[j].user \notin job[j].todo
         /\ SeenRow(j).local \in 1..(today - 1)
         /\ job[j].at # "resetting" => Unpaid(job[j].user, SeenRow(j))

\* A run credits one user after another: no write of it has failed or was cut.
NoFaults == ~RacingPosts /\ ~StaleLocalStart /\ MaxCrashes = 0 /\ MaxDbErrors = 0

UnpaidInv == ActiveIsUnpaid /\ NothingAhead /\ RunsUnpaid

LEMMA NoFaultSteps ==
  ASSUME NoFaults, TypeOK, PostsIdle
  PROVE  /\ ~Crash /\ \A j \in Jobs : ~JobDbError(j)
         /\ \A p \in Posts : ~RequestWrite(p) /\ \A u \in Users : ~RequestRead(p, u)
BY DEF NoFaults, TypeOK, PostsIdle, Crash, JobDbError, RequestWrite, RequestRead

\* A session that runs on keeps its local day, though start_time be sent again.
LEMMA LocalKept ==
  ASSUME NEW r \in Rows, NEW seen \in Rows, NEW b \in Bodies, NEW old \in BOOLEAN,
         r.active = seen.active, r.local = seen.local, seen.active, seen.local > 0,
         Sessioned(r, seen, b, old).active
  PROVE  Sessioned(r, seen, b, old).local = seen.local
<1> DEFINE new == Sessioned(r, seen, b, old)
<1>1. new.active = (IF b.active = "absent" THEN r.active ELSE SaysActive(seen, b))
  BY DEF Sessioned, Rows
<1>2. SaysActive(seen, b)
  BY <1>1 DEF SaysActive, Bodies
<1>3. new.local = LocalStart(r, seen, b)
  BY DEF Sessioned, Rows
<1>4. LocalStart(r, seen, b) = seen.local
  BY <1>2 DEF LocalStart, Rows, MaybeDay
<1> QED
  BY <1>3, <1>4

\* The local day of a session that is active after a step on its row.
LEMMA RowStep ==
  ASSUME NoFaults, TypeOK, PostsIdle, ActiveIsUnpaid, [Next]_vars, NEW u \in Users,
         row'[u].active
  PROVE  /\ \A j \in Jobs : ResetRow(j) => Settling(j) # u
         /\ \/ row[u].active /\ row'[u].local = row[u].local
            \/ row'[u].local = today
<1>1. row[u] \in Rows /\ today \in Days
  BY DEF TypeOK
<1>2. ASSUME NEW j \in Jobs, ResetRow(j), Settling(j) = u
      PROVE  FALSE
  <2>1. SeenRow(j).purchased \in Nat
    BY <1>2, RowSeen DEF ResetRow, Writing, Rows
  <2>2. ~Reset(row[u], SeenRow(j).purchased).active
    BY <1>1, <2>1, ResetRows
  <2> QED
    BY <1>2, <2>2 DEF ResetRow, TypeOK
<1>3. CASE WritePost(u, row[u])
  <2>1. PICK b \in Bodies, old \in BOOLEAN, r \in Rows :
          /\ CanSend(row[u], b)
          /\ row'[u] = Sessioned(r, row[u], b, old)
          /\ r.active = row[u].active /\ r.start = row[u].start /\ r.local = row[u].local
    BY <1>3, SessionWritten
  <2>2. CASE ~row[u].active
    <3>1. /\ b.local = 0 => row'[u].local = today
          /\ b.local # 0 => row'[u].local = b.local
      BY <1>1, <2>1, <2>2, NewSession
    <3>2. b.local \in {0, today}
      BY DEF Bodies, NoFaults
    <3> QED
      BY <1>2, <3>1, <3>2
  <2>3. CASE row[u].active
    <3>1. row[u].local > 0
      BY <1>1, <2>3 DEF ActiveIsUnpaid, Days
    <3> DEFINE seen == row[u]
               new == Sessioned(r, seen, b, old)
    <3>2. new.active
      BY <2>1
    <3>3. new.local = seen.local
      <4> seen \in Rows /\ seen.active /\ seen.local > 0
        BY <1>1, <2>3, <3>1
      <4> r.active = seen.active /\ r.local = seen.local
        BY <2>1
      <4> HIDE DEF seen
      <4> QED
        BY <3>2, LocalKept
    <3> QED
      BY <1>2, <2>1, <2>3, <3>3
  <2> QED
    BY <2>2, <2>3
<1>4. CASE WriteRepair(u, row[u])
  <2>1. row'[u] = [row[u] EXCEPT !.hashpower = row[u].claimed + row[u].purchased]
    BY <1>4 DEF WriteRepair, TypeOK
  <2> QED
    BY <1>1, <1>2, <2>1 DEF Rows
<1>5. CASE PackOn(u) \/ PackOff(u)
  <2>1. PICK delta \in {PackGh, 0 - PackGh} : row'[u] = AddHashpower(row[u], delta)
    BY <1>5 DEF PackOn, PackOff, TypeOK
  <2>2. delta \in Int
    BY AmountsAssumption
  <2> DEFINE added == AddHashpower(row[u], delta)
  <2>3. added.active = row[u].active /\ added.local = row[u].local
    BY <1>1, <2>2, AddRows
  <2> HIDE DEF added
  <2>4. row'[u] = added
    BY <2>1 DEF added
  <2> QED
    BY <1>2, <2>3, <2>4
<1>6. CASE row'[u] = row[u]
  BY <1>2, <1>6
<1> QED
  BY <1>2, <1>3, <1>4, <1>5, <1>6, RowChanges DEF RequestAtOnce, NoFaults

\* What the job records is a day that is over.
LEMMA RecordUnpaid ==
  ASSUME TypeOK, RunsUnpaid, NEW j \in Jobs, RecordDay(j)
  PROVE  /\ \A u \in Users : u # Settling(j) => history'[u] = history[u]
         /\ \A d \in Days : d >= today =>
              history'[Settling(j)][d] = history[Settling(j)][d]
         /\ Settling(j) \notin job[j].todo
         /\ SessionDay(SeenRow(j)) = SeenRow(j).local
         /\ SeenRow(j).local \in Days /\ history[Settling(j)][SeenRow(j).local] = 0
<1> DEFINE d == SessionDay(SeenRow(j))
           m == Mined(SeenRow(j))
           u == Settling(j)
<1>1. u \in Users /\ job[j].at = "recording" /\ today \in Days
  BY RowSeen DEF RecordDay, Writing, TypeOK
<1>2. /\ u \notin job[j].todo /\ SeenRow(j).local \in 1..(today - 1)
      /\ history[u][SeenRow(j).local] = 0
  BY <1>1 DEF RunsUnpaid, Writing, Settling, Unpaid
<1>3. d = SeenRow(j).local /\ d < today /\ SeenRow(j).local \in Days
  BY <1>1, <1>2, BoundsAssumption DEF SessionDay, Days
<1>4. history' = [history EXCEPT ![u] = [history[u] EXCEPT ![d] = m]]
  BY DEF RecordDay
<1> HIDE DEF d, m, u
<1>5. \A v \in Users : v # u => history'[v] = history[v]
  BY <1>4 DEF TypeOK
<1>6. \A e \in Days : e >= today => history'[u][e] = history[u][e]
  BY <1>1, <1>3, <1>4 DEF TypeOK, Days
<1> QED
  BY <1>2, <1>3, <1>5, <1>6 DEF d, u

LEMMA AheadStep ==
  ASSUME NoFaults, TypeOK, PostsIdle, UnpaidInv, [Next]_vars
  PROVE  /\ today' \in Days /\ today' >= today
         /\ \A u \in Users, d \in Days : d >= today' => history'[u][d] = 0
<1>1. today' \in Days /\ today' >= today
  <2>1. CASE NextDay
    BY <2>1, BoundsAssumption DEF NextDay, TypeOK, Days
  <2>2. CASE ~NextDay
    <3>1. UNCHANGED today
      BY <2>2, NoFaultSteps DEF Next, JobStep, StartRun, SkipUser, ReadBalance, SaveBalance,
         RecordDay, ResetRow, EndRun, RequestAtOnce, PackOn, PackOff, MoveMoney, dayVars, vars
    <3> QED
      BY <3>1 DEF TypeOK, Days
  <2> QED
    BY <2>1, <2>2
<1>2. ASSUME NEW u \in Users, NEW d \in Days, d >= today'
      PROVE  history'[u][d] = 0
  <2>1. d >= today
    BY <1>1, <1>2 DEF TypeOK, Days
  <2>2. history[u][d] = 0
    BY <2>1 DEF UnpaidInv, NothingAhead
  <2>3. CASE \E j \in Jobs : RecordDay(j)
    BY <2>1, <2>2, <2>3, RecordUnpaid DEF UnpaidInv
  <2>4. CASE \A j \in Jobs : ~RecordDay(j)
    <3>1. UNCHANGED history
      BY <2>4, NoFaultSteps DEF Next, JobStep, StartRun, SkipUser, ReadBalance, SaveBalance,
         ResetRow, EndRun, RequestAtOnce, PackOn, PackOff, MoveMoney, NextDay, moneyVars, vars
    <3> QED
      BY <2>2, <3>1
  <2> QED
    BY <2>3, <2>4
<1> QED
  BY <1>1, <1>2

\* Recording a day makes its session's reset the next write.
LEMMA ActiveStep ==
  ASSUME NoFaults, NEW J, Jobs = {J}, TypeOK, PostsIdle, UnpaidInv, [Next]_vars,
         NEW u \in Users, row'[u].active
  PROVE  /\ row'[u].local \in 1..today'
         /\ \/ history'[u][row'[u].local] = 0
            \/ job'[J].at = "resetting" /\ job'[J].user = u
<1>0. today \in Days /\ today' \in Days /\ today' >= today
  BY AheadStep DEF TypeOK
<1> DEFINE d == row'[u].local
<1>1. \/ row[u].active /\ d = row[u].local
      \/ d = today
  BY RowStep DEF UnpaidInv
<1>2. d \in 1..today' /\ d \in 1..today
  BY <1>0, <1>1 DEF UnpaidInv, ActiveIsUnpaid, Days
<1>3. \/ history[u][d] = 0
      \/ job[J].at = "resetting" /\ job[J].user = u
  <2>1. CASE d = today
    BY <1>0, <2>1 DEF UnpaidInv, NothingAhead, Days
  <2>2. CASE row[u].active /\ d = row[u].local
    BY <2>2 DEF UnpaidInv, ActiveIsUnpaid
  <2> QED
    BY <1>1, <2>1, <2>2
<1>4. CASE RecordDay(J)
  <2>1. u # Settling(J) => history'[u] = history[u]
    BY <1>4, RecordUnpaid DEF UnpaidInv
  <2>2. job'[J].at = "resetting" /\ job'[J].user = Settling(J) /\ job[J].at = "recording"
    BY <1>4 DEF RecordDay, TypeOK, Runs, Settling
  <2> QED
    BY <1>2, <1>3, <2>1, <2>2
<1>5. CASE ResetRow(J)
  <2>1. Settling(J) # u /\ UNCHANGED history
    BY <1>5, RowStep DEF UnpaidInv, ResetRow, moneyVars
  <2> QED
    BY <1>2, <1>3, <2>1 DEF Settling
<1>6. CASE ~RecordDay(J) /\ ~ResetRow(J)
  <2>1. UNCHANGED history
    BY <1>6, NoFaultSteps DEF Next, JobStep, StartRun, SkipUser, ReadBalance, SaveBalance,
       ResetRow, EndRun, RequestAtOnce, PackOn, PackOff, MoveMoney, NextDay, moneyVars, vars
  <2>2. job[J].at = "resetting" => UNCHANGED job
    BY <1>6, NoFaultSteps DEF Next, JobStep, StartRun, SkipUser, ReadBalance, SaveBalance,
       EndRun, RequestAtOnce, PackOn, PackOff, MoveMoney, NextDay, vars
  <2> QED
    BY <1>2, <1>3, <2>1, <2>2
<1> QED
  BY <1>4, <1>5, <1>6

\* The runs' part, by the step of the job.
LEMMA RunsStep ==
  ASSUME NoFaults, NEW J, Jobs = {J}, TypeOK, PostsIdle, UnpaidInv, [Next]_vars
  PROVE  RunsUnpaid'
<1>0. /\ today \in Days /\ today' \in Days /\ today' >= today
      /\ job[J] \in Runs /\ job \in [Jobs -> Runs]
  BY AheadStep DEF TypeOK
<1>1. CASE StartRun(J)
  <2> DEFINE found == {u \in Users : row[u].active /\ row[u].start > 0}
  <2>1. /\ job'[J].at = "loop" /\ job'[J].todo = found /\ job'[J].seen = row
        /\ job[J].at = "idle" /\ UNCHANGED <<today, history>>
    BY <1>0, <1>1 DEF StartRun, moneyVars
  <2>2. \A u \in found : row[u].local \in 1..today /\ history[u][row[u].local] = 0
    BY <2>1 DEF UnpaidInv, ActiveIsUnpaid
  <2> QED
    BY <2>1, <2>2 DEF RunsUnpaid, Writing, Unpaid
<1>2. ASSUME NEW u \in Users, SkipUser(J, u)
      PROVE  RunsUnpaid'
  <2>1. /\ job'[J].at = "loop" /\ job'[J].todo \subseteq job[J].todo
        /\ job'[J].seen = job[J].seen /\ UNCHANGED <<today, history>>
    BY <1>0, <1>2 DEF SkipUser, Runs, dayVars, moneyVars
  <2> QED
    BY <2>1 DEF UnpaidInv, RunsUnpaid, Writing, Unpaid
<1>3. ASSUME NEW u \in Users, ReadBalance(J, u)
      PROVE  RunsUnpaid'
  <2>1. /\ job'[J].at = "saving" /\ job'[J].todo = job[J].todo \ {u} /\ job'[J].user = u
        /\ job'[J].seen = job[J].seen /\ UNCHANGED <<today, history>> /\ u \in job[J].todo
    BY <1>0, <1>3 DEF ReadBalance, Runs, dayVars, moneyVars
  <2>2. Unpaid(u, job[J].seen[u]) /\ today > SessionDay(job[J].seen[u])
    BY <1>3, <2>1 DEF ReadBalance, Rolled, UnpaidInv, RunsUnpaid
  <2>3. job[J].seen[u].local \in 1..(today - 1)
    BY <1>0, <2>2, BoundsAssumption DEF SessionDay, Unpaid, Days
  <2>4. SeenRow(J)' = job[J].seen[u]
    BY <2>1 DEF SeenRow, Settling
  <2> QED
    BY <2>1, <2>2, <2>3, <2>4 DEF UnpaidInv, RunsUnpaid, Unpaid
<1>4. CASE SaveBalance(J)
  <2>1. /\ job'[J].at \in {"recording", "resetting"} /\ job'[J].todo = job[J].todo
        /\ job'[J].user = job[J].user /\ job'[J].seen = job[J].seen
        /\ UNCHANGED <<today, history>> /\ job[J].at = "saving"
    BY <1>0, <1>4, JobWrites DEF SaveBalance, Runs, dayVars
  <2>2. SeenRow(J)' = SeenRow(J)
    BY <2>1 DEF SeenRow, Settling
  <2> QED
    BY <2>1, <2>2 DEF UnpaidInv, RunsUnpaid, Writing, Unpaid
<1>5. CASE RecordDay(J)
  <2>1. /\ job'[J].at = "resetting" /\ job'[J].todo = job[J].todo
        /\ job'[J].user = job[J].user /\ job'[J].seen = job[J].seen
        /\ UNCHANGED today /\ job[J].at = "recording"
    BY <1>0, <1>5 DEF RecordDay, Runs, dayVars
  <2>2. SeenRow(J)' = SeenRow(J)
    BY <2>1 DEF SeenRow, Settling
  <2>3. \A u \in job[J].todo : u \in Users /\ history'[u] = history[u]
    BY <1>0, <1>5, RecordUnpaid DEF UnpaidInv, Runs
  <2>4. /\ job[J].user \notin job[J].todo /\ SeenRow(J).local \in 1..(today - 1)
        /\ \A u \in job[J].todo : Unpaid(u, job[J].seen[u])
    BY <2>1 DEF UnpaidInv, RunsUnpaid, Writing
  <2> QED
    BY <2>1, <2>2, <2>3, <2>4 DEF RunsUnpaid, Unpaid
<1>6. CASE ResetRow(J)
  <2>1. /\ job'[J].at = "loop" /\ job'[J].todo = job[J].todo
        /\ job'[J].seen = job[J].seen /\ UNCHANGED <<today, history>>
    BY <1>0, <1>6 DEF ResetRow, NextUser, Runs, dayVars, moneyVars
  <2> QED
    BY <2>1 DEF UnpaidInv, RunsUnpaid, Writing, Unpaid
<1>7. CASE EndRun(J)
  <2>1. job'[J].at = "idle" /\ job'[J].todo = {}
    BY <1>0, <1>7 DEF EndRun, IdleJob
  <2> QED
    BY <2>1 DEF RunsUnpaid, Writing
<1>8. CASE UNCHANGED <<job, history>>
  <2>1. SeenRow(J)' = SeenRow(J)
    BY <1>8 DEF SeenRow, Settling
  <2>2. \A d : d \in 1..today => d \in 1..today'
    BY <1>0 DEF Days
  <2>3. 1..(today - 1) \subseteq 1..(today' - 1)
    <3>1. today \in Int /\ today' \in Int
      BY <1>0, BoundsAssumption DEF Days
    <3>2. \A a, b \in Int : a <= b => 1..(a - 1) \subseteq 1..(b - 1)
      OBVIOUS
    <3> QED
      BY <1>0, <3>1, <3>2
  <2> QED
    BY <1>8, <2>1, <2>2, <2>3 DEF UnpaidInv, RunsUnpaid, Unpaid
<1>9. \/ UNCHANGED <<job, history>>
      \/ StartRun(J) \/ JobStep(J)
  BY NoFaultSteps DEF Next, RequestAtOnce, PackOn, PackOff, MoveMoney, NextDay, moneyVars, vars
<1> QED
  BY <1>1, <1>2, <1>3, <1>4, <1>5, <1>6, <1>7, <1>8, <1>9 DEF JobStep

LEMMA UnpaidStep ==
  ASSUME NoFaults, NEW J, Jobs = {J}, TypeOK, PostsIdle, UnpaidInv, [Next]_vars
  PROVE  UnpaidInv'
<1>1. RunsUnpaid'
  BY RunsStep
<1>2. NothingAhead'
  BY AheadStep DEF NothingAhead
<1>3. \A u \in Users : row'[u].active =>
        /\ row'[u].local \in 1..today'
        /\ \/ history'[u][row'[u].local] = 0
           \/ job'[J].at = "resetting" /\ job'[J].user = u
  BY ActiveStep
<1>4. ActiveIsUnpaid'
  BY <1>3 DEF ActiveIsUnpaid
<1> QED
  BY <1>1, <1>2, <1>4 DEF UnpaidInv

\* The deposit stays what the recorded days paid, what was moved and what the
\* run has credited and not recorded.
LEMMA BalancedStep ==
  ASSUME NoFaults, NEW J, Jobs = {J}, TypeOK, TypeOK', PostsIdle, HoldsDeposit, UnpaidInv,
         Balanced, [Next]_vars, NEW u \in Users
  PROVE  BTC_DEPOSIT'[u] = Recorded(u)' + moved'[u] + Pending(J, u)'
<1>1. /\ BTC_DEPOSIT[u] \in Nat /\ moved[u] \in Int /\ Pending(J, u) \in Nat
      /\ Recorded(u) \in Nat /\ BTC_DEPOSIT[u] = Recorded(u) + moved[u] + Pending(J, u)
  BY PendingInt, RecordedInt DEF TypeOK, Balanced
<1>2. BTC_DEPOSIT'[u] \in Nat /\ moved'[u] \in Int
  BY DEF TypeOK
<1>3. CASE /\ BTC_DEPOSIT'[u] - moved'[u] - Pending(J, u)'
                = BTC_DEPOSIT[u] - moved[u] - Pending(J, u)
           /\ Recorded(u)' = Recorded(u) /\ Pending(J, u)' \in Nat
  BY <1>1, <1>2, <1>3
<1>4. CASE /\ RecordDay(J) /\ UNCHANGED <<BTC_DEPOSIT, moved>>
           /\ Pending(J, u) = IF Settling(J) = u THEN Mined(SeenRow(J)) ELSE 0
           /\ Pending(J, u)' = 0
  <2>1. /\ SessionDay(SeenRow(J)) \in Days
        /\ history[Settling(J)][SessionDay(SeenRow(J))] = 0
    BY <1>4, RecordUnpaid DEF UnpaidInv
  <2>2. /\ u # Settling(J) => Recorded(u)' = Recorded(u)
        /\ u = Settling(J) => Recorded(u)' = Recorded(u) + Mined(SeenRow(J))
    BY <1>4, <2>1, RecordSum
  <2> QED
    BY <1>1, <1>2, <1>4, <2>2
<1>5. ~JobDbError(J) /\ ~Crash
  BY NoFaultSteps
<1> QED
  BY <1>3, <1>4, <1>5, MoneyStep

\* The deposit is the sum of the recorded days, plus what was moved, plus what
\* the job has credited and is about to record: no day is credited twice and
\* nothing is overwritten, for any users, amounts and days, whether or not the
\* app sends start_time again.  One run of the job at a time, no failed write
\* or restart, and nothing else writes the deposit during its save: without
\* any of these the identity fails.
THEOREM DepositIsRecorded ==
  ASSUME ~MoneyDuringSave, ~RacingPosts, ~StaleLocalStart, MaxCrashes = 0, MaxDbErrors = 0,
         NEW J, Jobs = {J}
  PROVE  Spec => []DepositIsLedger
<1> DEFINE Inv == HoldsDeposit /\ UnpaidInv /\ Balanced
<1>0. NoFaults
  BY DEF NoFaults
<1>1. Init => Inv
  <2> SUFFICES ASSUME Init PROVE Inv
    OBVIOUS
  <2>1. \A u \in Users : Recorded(u) = 0
    BY DaysFinite, SumType DEF Init, Recorded
  <2>2. \A u \in Users : Pending(J, u) = 0
    BY DEF Init, IdleJob, Pending
  <2>3. HoldsDeposit /\ Balanced
    BY <2>1, <2>2 DEF Init, IdleJob, HoldsDeposit, Balanced
  <2>4. UnpaidInv
    BY DEF Init, IdleJob, NewRow, Writing, UnpaidInv, ActiveIsUnpaid, NothingAhead, RunsUnpaid
  <2> QED
    BY <2>3, <2>4
<1>2. TypeOK /\ TypeOK' /\ PostsIdle /\ Inv /\ [Next]_vars => Inv'
  <2> SUFFICES ASSUME TypeOK, TypeOK', PostsIdle, Inv, [Next]_vars PROVE Inv'
    OBVIOUS
  <2>1. HoldsDeposit'
    BY HoldsStep
  <2>2. UnpaidInv'
    BY <1>0, UnpaidStep
  <2>3. \A u \in Users : BTC_DEPOSIT'[u] = Recorded(u)' + moved'[u] + Pending(J, u)'
    BY <1>0, BalancedStep
  <2> QED
    BY <2>1, <2>2, <2>3 DEF Balanced
<1>3. PostsIdle /\ [Next]_vars => PostsIdle'
  BY IdleKept
<1>4. TypeOK /\ Inv => DepositIsLedger
  <2> SUFFICES ASSUME TypeOK, Balanced, NEW u \in Users
               PROVE  BTC_DEPOSIT[u] = MapThenSumSet(LAMBDA d : history[u][d], Days)
                                         + moved[u] + Unrecorded(u)
    BY DEF DepositIsLedger
  <2>1. MapThenSumSet(LAMBDA d : history[u][d], Days) = Recorded(u)
    BY RecordedIs
  <2>2. Unrecorded(u) = Pending(J, u)
    BY UnrecordedIs
  <2>3. BTC_DEPOSIT[u] = Recorded(u) + moved[u] + Pending(J, u)
    BY DEF Balanced
  <2> QED
    BY <2>1, <2>2, <2>3
<1> HIDE DEF Inv
<1> QED
  BY <1>1, <1>2, <1>3, <1>4, TypeCorrect, IdleFromInit, PTL DEF Spec
=============================================================================
