------------------------------ MODULE MiningDay ------------------------------
(***************************************************************************)
(* One mining day after another: the hourly settlement of cronJobs.js and  *)
(* the routes that write the same UserMining and Balance rows meanwhile    *)
(* (routes/api_routes/user-mining-handles.js, helpers/subscriptionGrants.js*)
(* and the balance updates of withdrawals and deposits).                   *)
(*                                                                         *)
(* The job reads every active session at once, then settles them one by    *)
(* one in four database operations each.  A POST reads the row and writes  *)
(* what it computed from it.  Days are numbered from 1; 0 stands for an    *)
(* absent time.  BTC are counted in what one GH/s earns in a day.          *)
(***************************************************************************)
EXTENDS Integers, FiniteSetsExt

CONSTANTS
  Users,
  Jobs,            \* runs of the hourly job that may be in progress together
  Posts,           \* slots for POST /api/user_mining requests in progress
  NoUser,
  LastDay,         \* bound: the days the model covers
  RunsPerDay,      \* bound: runs of the job that start in one day (24)
  PayCap,          \* maxSettlementBtcPerDay
  StartGh,         \* START_REWARD_GH
  AdGh,            \* BASE_AD_GH
  AdsPerDay,       \* MAX_REWARDED_ADS_PER_DAY
  PackGh,          \* hashpower of a bought pack or of a bonus
  MaxPacks,        \* bound: packs in force for one user at a time
  MaxMoves,        \* bound: net withdrawals or deposits of one user
  MoneyDuringSave, \* a $inc of BTC_DEPOSIT can fall between the job's read
                   \* of the balance and its save
  RacingPosts,     \* a write can fall between a POST's read and its write
  ResendsStart,    \* the app sends start_time again for a running session
  StaleLocalStart, \* the app can send yesterday's local_start_time
  MaxCrashes,      \* bound: process restarts
  MaxDbErrors      \* bound: database writes of the job that fail

ASSUME AmountsAssumption ==
  /\ PayCap \in Nat \ {0}
  /\ StartGh \in Nat
  /\ AdGh \in Nat
  /\ PackGh \in Nat
  /\ AdsPerDay \in Nat

ASSUME BoundsAssumption ==
  /\ LastDay \in Nat \ {0}
  /\ RunsPerDay \in Nat
  /\ MaxPacks \in Nat
  /\ MaxMoves \in Nat
  /\ MaxCrashes \in Nat
  /\ MaxDbErrors \in Nat

ASSUME SwitchesAssumption ==
  {MoneyDuringSave, RacingPosts, ResendsStart, StaleLocalStart} \subseteq BOOLEAN

ASSUME NoUserAssumption == NoUser \notin Users

VARIABLES
  today,       \* the users' local day
  row,         \* the UserMining document of each user
  inForce,     \* packs and bonuses each user has in force
  BTC_DEPOSIT, \* Balance.BTC_DEPOSIT
  history,     \* BalanceHistory: BTC recorded for each user and day
  job,         \* where each run of the settlement stands
  post,        \* each POST in progress: its user and the row it read
  moved,       \* history: deposits minus withdrawals of each user
  runsToday,   \* runs of the job started on this day
  crashes, dbErrors

dayVars   == <<today, runsToday>>
rowVars   == <<row, inForce>>
moneyVars == <<BTC_DEPOSIT, history, moved>>
faultVars == <<crashes, dbErrors>>
vars == <<dayVars, rowVars, moneyVars, job, post, faultVars>>

-----------------------------------------------------------------------------
(* Types.                                                                  *)

Days == 1..LastDay
MaybeDay == 0..LastDay

\* start and local are the local days of start_time and local_start_time.
Rows == [active : BOOLEAN, start : MaybeDay, local : MaybeDay,
         claimed : Nat, purchased : Nat, hashpower : Nat,
         startRewardDay : MaybeDay, adCountDay : MaybeDay, ads : Nat]

NewRow == [active |-> FALSE, start |-> 0, local |-> 0,
           claimed |-> 0, purchased |-> 0, hashpower |-> 0,
           startRewardDay |-> 0, adCountDay |-> 0, ads |-> 0]

\* A run of the job: the users it has not come to, the rows as they were at
\* its start, the user it is settling and that user's deposit as it read it.
\* saving, recording and resetting name the write that comes next.
Writing == {"saving", "recording", "resetting"}
Runs == [at : {"idle", "loop"} \cup Writing, todo : SUBSET Users,
         seen : [Users -> Rows], user : Users \cup {NoUser}, deposit : Nat]
IdleJob == [at |-> "idle", todo |-> {}, seen |-> [u \in Users |-> NewRow],
            user |-> NoUser, deposit |-> 0]

Requests == [user : Users, seen : Rows]
IdlePost == [user |-> NoUser]

TypeOK ==
  /\ today \in Days
  /\ runsToday \in 0..RunsPerDay
  /\ row \in [Users -> Rows]
  /\ inForce \in [Users -> Nat]
  /\ BTC_DEPOSIT \in [Users -> Nat]
  /\ history \in [Users -> [Days -> Nat]]
  /\ job \in [Jobs -> Runs]
  /\ \A j \in Jobs : job[j].at \in Writing => job[j].user \in Users
  /\ post \in [Posts -> Requests \cup {IdlePost}]
  /\ moved \in [Users -> Int]
  /\ crashes \in Nat
  /\ dbErrors \in Nat

Init ==
  /\ today = 1
  /\ runsToday = 0
  /\ row = [u \in Users |-> NewRow]
  /\ inForce = [u \in Users |-> 0]
  /\ BTC_DEPOSIT = [u \in Users |-> 0]
  /\ history = [u \in Users |-> [d \in Days |-> 0]]
  /\ job = [j \in Jobs |-> IdleJob]
  /\ post = [p \in Posts |-> IdlePost]
  /\ moved = [u \in Users |-> 0]
  /\ crashes = 0
  /\ dbErrors = 0

-----------------------------------------------------------------------------
(* Pure helpers.                                                           *)

\* resolveSessionStartDateStr: 0 where the code returns null.
SessionDay(r) == IF r.local # 0 THEN r.local ELSE r.start

\* settlementAmount.  The streak and stock bonuses and the session's length
\* scale the amount and are left out.
Mined(r) == Min({r.hashpower, PayCap})

\* adCounter: the day and count an ad at this moment counts against.
AdCounter(r) ==
  IF today > r.adCountDay THEN [day |-> today, used |-> 0]
  ELSE [day |-> r.adCountDay, used |-> r.ads]

-----------------------------------------------------------------------------
(* The hourly settlement.                                                  *)

\* The query: every active session with a start_time, read at once.
StartRun(j) ==
  /\ job[j].at = "idle"
  /\ runsToday < RunsPerDay
  /\ runsToday' = runsToday + 1
  /\ LET found == {u \in Users : row[u].active /\ row[u].start > 0} IN
       /\ found # {}
       /\ job' = [job EXCEPT ![j] =
            [at |-> "loop", todo |-> found, seen |-> row,
             user |-> NoUser, deposit |-> 0]]
  /\ UNCHANGED <<today, rowVars, moneyVars, post, faultVars>>

Rolled(r) == today > SessionDay(r)

\* The local day has not changed since the session started.
SkipUser(j, u) ==
  /\ job[j].at = "loop"
  /\ u \in job[j].todo
  /\ ~Rolled(job[j].seen[u])
  /\ job' = [job EXCEPT ![j].todo = @ \ {u}]
  /\ UNCHANGED <<dayVars, rowVars, moneyVars, post, faultVars>>

\* Balance.findOne.
ReadBalance(j, u) ==
  /\ job[j].at = "loop"
  /\ u \in job[j].todo
  /\ Rolled(job[j].seen[u])
  /\ job' = [job EXCEPT ![j] = [job[j] EXCEPT
       !.at = "saving", !.todo = @ \ {u}, !.user = u, !.deposit = BTC_DEPOSIT[u]]]
  /\ UNCHANGED <<dayVars, rowVars, moneyVars, post, faultVars>>

Settling(j) == job[j].user
SeenRow(j) == job[j].seen[Settling(j)]

\* Mutation of SaveBalance: a day that is recorded already is not paid again,
\* but still recorded anew.
PaysUnlessRecorded(j) ==
  /\ job[j].at = "saving"
  /\ LET pays == Mined(SeenRow(j)) > 0
         new == history[Settling(j)][SessionDay(SeenRow(j))] = 0
     IN  /\ BTC_DEPOSIT' = IF pays /\ new
              THEN [BTC_DEPOSIT EXCEPT ![Settling(j)] = job[j].deposit + Mined(SeenRow(j))]
              ELSE BTC_DEPOSIT
         /\ job' = [job EXCEPT ![j].at = IF pays THEN "recording" ELSE "resetting"]
  /\ UNCHANGED <<dayVars, rowVars, history, moved, post, faultVars>>

\* userBalance.save: the deposit it read plus the day's amount.  A day that
\* mined nothing leaves the deposit alone and has no record.
SaveBalance(j) ==
  /\ job[j].at = "saving"
  /\ LET mined == Mined(SeenRow(j)) IN
       /\ BTC_DEPOSIT' = IF mined > 0
            THEN [BTC_DEPOSIT EXCEPT ![Settling(j)] = job[j].deposit + mined]
            ELSE BTC_DEPOSIT
       /\ job' = [job EXCEPT ![j].at = IF mined > 0 THEN "recording" ELSE "resetting"]
  /\ UNCHANGED <<dayVars, rowVars, history, moved, post, faultVars>>

\* BalanceHistory.findOneAndUpdate with upsert: the day's row is replaced.
RecordDay(j) ==
  /\ job[j].at = "recording"
  /\ history' = [history EXCEPT ![Settling(j)][SessionDay(SeenRow(j))] = Mined(SeenRow(j))]
  /\ job' = [job EXCEPT ![j].at = "resetting"]
  /\ UNCHANGED <<dayVars, rowVars, BTC_DEPOSIT, moved, post, faultVars>>

NextUser(j) == [job EXCEPT ![j] = [@ EXCEPT !.at = "loop", !.user = NoUser, !.deposit = 0]]

\* Mutation of Reset: the session is left active.
ResetLeavesActive(r, purchased) ==
  [r EXCEPT !.claimed = 0, !.hashpower = purchased, !.ads = 0]

\* Mutation of Reset: the total is left as it was.
ResetKeepsTotal(r, purchased) ==
  [r EXCEPT !.active = FALSE, !.start = 0, !.local = 0, !.claimed = 0, !.ads = 0]

\* The day is over: what was claimed is gone, what was bought stays.
Reset(r, purchased) ==
  [r EXCEPT !.active = FALSE, !.start = 0, !.local = 0,
            !.claimed = 0, !.hashpower = purchased, !.ads = 0]

ResetRow(j) ==
  /\ job[j].at = "resetting"
  /\ row' = [row EXCEPT ![Settling(j)] = Reset(@, SeenRow(j).purchased)]
  /\ job' = NextUser(j)
  /\ UNCHANGED <<dayVars, inForce, moneyVars, post, faultVars>>

EndRun(j) ==
  /\ job[j].at = "loop"
  /\ job[j].todo = {}
  /\ job' = [job EXCEPT ![j] = IdleJob]
  /\ UNCHANGED <<dayVars, rowVars, moneyVars, post, faultVars>>

\* A write of the job fails: the loop goes on with the next user.
JobDbError(j) ==
  /\ dbErrors < MaxDbErrors
  /\ job[j].at \in Writing
  /\ job' = NextUser(j)
  /\ dbErrors' = dbErrors + 1
  /\ UNCHANGED <<dayVars, rowVars, moneyVars, post, crashes>>

-----------------------------------------------------------------------------
(* POST /api/user_mining.  b is the request as the app sends it: whether   *)
(* it says that mining is on, the days of start_time and local_start_time  *)
(* (0 when it leaves them out, or the server does not believe them), and   *)
(* the reward it asks for.                                                 *)

Recent == {d \in {today - 1, today} : d > 0}

Bodies ==
  [active : {"on", "off", "absent"},
   start  : {0} \cup Recent,
   local  : {0, today} \cup (IF StaleLocalStart THEN Recent ELSE {}),
   reward : {"none", "start_reward", "ad"}]

\* classifyGrant: a start reward is one that comes with mining on.  An app
\* that does not resend sends start_time only with a session that starts.
CanSend(seen, b) ==
  /\ b.reward = "start_reward" => b.active = "on"
  /\ ResendsStart \/ ~seen.active \/ b.start = 0

SaysActive(seen, b) ==
  CASE b.active = "on"     -> TRUE
    [] b.active = "off"    -> FALSE
    [] b.active = "absent" -> seen.active

\* decideGrant: GH/s granted, and what it stores besides.
GrantedAd(seen, b) == b.reward = "ad" /\ AdCounter(seen).used < AdsPerDay
GrantedStart(seen, b) == b.reward = "start_reward" /\ today > seen.startRewardDay

Granted(seen, b) ==
  IF GrantedAd(seen, b) THEN AdGh ELSE IF GrantedStart(seen, b) THEN StartGh ELSE 0

\* The counters; a new day starts the count again whatever is asked for.
Counted(r, seen, b) ==
  LET c == AdCounter(seen)
      counts == c.day # seen.adCountDay \/ b.reward = "ad"
  IN [r EXCEPT
       !.adCountDay = IF counts THEN c.day ELSE @,
       !.ads = IF counts THEN c.used + (IF GrantedAd(seen, b) THEN 1 ELSE 0) ELSE @,
       !.startRewardDay = IF GrantedStart(seen, b) THEN today ELSE @]

\* Mutation of Powered: what is granted is counted as bought.
PoweredPermanently(r, seen, b) ==
  [r EXCEPT !.purchased = seen.purchased + Granted(seen, b),
            !.hashpower = seen.claimed + seen.purchased + Granted(seen, b)]

\* claimedHashpower, purchasedHashpower and hashpower, from the row it read,
\* when the request names a hashpower.
Powered(r, seen, b) ==
  IF b.reward = "none" THEN r
  ELSE [r EXCEPT !.claimed = seen.claimed + Granted(seen, b),
                 !.purchased = seen.purchased,
                 !.hashpower = seen.claimed + Granted(seen, b) + seen.purchased]

\* local_start_time: kept while a session runs, cleared when it is off.
LocalStart(r, seen, b) ==
  CASE ~SaysActive(seen, b) -> 0
    [] SaysActive(seen, b) /\ b.local # 0 ->
         IF seen.local = 0 \/ ~seen.active THEN b.local ELSE seen.local
    [] OTHER -> r.local

\* start_time: kept for 24 hours (old: 24 hours have passed), then 0.
StartTime(r, seen, b, old) ==
  CASE b.start = 0                       -> r.start
    [] b.start # 0 /\ seen.start = 0     -> b.start
    [] b.start # 0 /\ seen.start # 0     -> IF old THEN 0 ELSE seen.start

\* A session that started yesterday may or may not be 24 hours old.
Old(seen) ==
  CASE today - seen.start = 0 -> {FALSE}
    [] today - seen.start = 1 -> BOOLEAN
    [] OTHER                  -> {TRUE}

\* Mutation of Sessioned: a new session keeps whatever start it comes with.
SessionedAsSent(r, seen, b, old) ==
  [r EXCEPT !.active = IF b.active = "absent" THEN @ ELSE SaysActive(seen, b),
            !.start = StartTime(r, seen, b, old),
            !.local = LocalStart(r, seen, b)]

\* Mutation of Sessioned: only a missing start is replaced, not an old one.
SessionedFromOldStart(r, seen, b, old) ==
  LET starting == SaysActive(seen, b) /\ ~seen.active
      chosen == StartTime(seen, seen, b, old)
      start == IF starting /\ chosen = 0 THEN today ELSE StartTime(r, seen, b, old)
  IN [r EXCEPT
       !.active = IF b.active = "absent" THEN @ ELSE SaysActive(seen, b),
       !.start = start,
       !.local = IF starting /\ b.local = 0 THEN start ELSE LocalStart(r, seen, b)]

\* mining_isactive and the two start times.  A new session whose start is not
\* of today starts now; its local start is derived where the request had none.
Sessioned(r, seen, b, old) ==
  LET starting == SaysActive(seen, b) /\ ~seen.active
      chosen == StartTime(seen, seen, b, old)
  IN [r EXCEPT
       !.active = IF b.active = "absent" THEN @ ELSE SaysActive(seen, b),
       !.start = IF starting /\ chosen # today THEN today ELSE StartTime(r, seen, b, old),
       !.local = IF starting /\ b.local = 0 THEN today ELSE LocalStart(r, seen, b)]

\* The $set of one request, computed from the row it read.
WritePost(u, seen) ==
  \E b \in Bodies, old \in Old(seen) :
    /\ CanSend(seen, b)
    /\ row' = [row EXCEPT ![u] =
         Sessioned(Powered(Counted(@, seen, b), seen, b), seen, b, old)]

\* GET /:userId puts the total right when it is not the sum of its parts.
WriteRepair(u, seen) ==
  /\ seen.hashpower # seen.claimed + seen.purchased
  /\ row' = [row EXCEPT ![u].hashpower = seen.claimed + seen.purchased]

\* A request that reads and writes with nothing in between.
RequestAtOnce(u) ==
  /\ ~RacingPosts
  /\ WritePost(u, row[u]) \/ WriteRepair(u, row[u])
  /\ UNCHANGED <<dayVars, inForce, moneyVars, job, post, faultVars>>

\* The same in two steps.
RequestRead(p, u) ==
  /\ RacingPosts
  /\ post[p] = IdlePost
  /\ post' = [post EXCEPT ![p] = [user |-> u, seen |-> row[u]]]
  /\ UNCHANGED <<dayVars, rowVars, moneyVars, job, faultVars>>

RequestWrite(p) ==
  /\ post[p] # IdlePost
  /\ \/ WritePost(post[p].user, post[p].seen)
     \/ WriteRepair(post[p].user, post[p].seen)
  /\ post' = [post EXCEPT ![p] = IdlePost]
  /\ UNCHANGED <<dayVars, inForce, moneyVars, job, faultVars>>

-----------------------------------------------------------------------------
(* Packs and bonuses, and the money that moves besides mining.             *)

\* Mutation of AddHashpower: a plain $inc.
AddHashpowerUnfloored(r, delta) ==
  [r EXCEPT !.purchased = @ + delta, !.hashpower = @ + delta]

\* addHashpower: one update, never below zero.
AddHashpower(r, delta) ==
  [r EXCEPT !.purchased = Max({0, @ + delta}), !.hashpower = Max({0, @ + delta})]

\* setActive and grantBonus run in a transaction with the grant's own row.
PackOn(u) ==
  /\ inForce[u] < MaxPacks
  /\ inForce' = [inForce EXCEPT ![u] = @ + 1]
  /\ row' = [row EXCEPT ![u] = AddHashpower(@, PackGh)]
  /\ UNCHANGED <<dayVars, moneyVars, job, post, faultVars>>

PackOff(u) ==
  /\ inForce[u] > 0
  /\ inForce' = [inForce EXCEPT ![u] = @ - 1]
  /\ row' = [row EXCEPT ![u] = AddHashpower(@, 0 - PackGh)]
  /\ UNCHANGED <<dayVars, moneyVars, job, post, faultVars>>

\* Nobody is between reading u's balance and saving it.
NoSavePending(u) == \A j \in Jobs : ~(job[j].at = "saving" /\ job[j].user = u)

\* deductBTCDepositBalance, restoreBTCDepositBalance, btcWatcher's credit.
MoveMoney(u, amount) ==
  /\ MoneyDuringSave \/ NoSavePending(u)
  /\ BTC_DEPOSIT[u] + amount >= 0
  /\ moved[u] + amount \in (0 - MaxMoves)..MaxMoves
  /\ BTC_DEPOSIT' = [BTC_DEPOSIT EXCEPT ![u] = @ + amount]
  /\ moved' = [moved EXCEPT ![u] = @ + amount]
  /\ UNCHANGED <<dayVars, rowVars, history, job, post, faultVars>>

-----------------------------------------------------------------------------
(* The clock and restarts.                                                 *)

\* Local midnight.  It falls outside a request, but anywhere in a run.
NextDay ==
  /\ today < LastDay
  /\ \A p \in Posts : post[p] = IdlePost
  /\ today' = today + 1
  /\ runsToday' = 0
  /\ UNCHANGED <<row, inForce, moneyVars, job, post, faultVars>>

Crash ==
  /\ crashes < MaxCrashes
  /\ job' = [j \in Jobs |-> IdleJob]
  /\ post' = [p \in Posts |-> IdlePost]
  /\ crashes' = crashes + 1
  /\ UNCHANGED <<dayVars, rowVars, moneyVars, dbErrors>>

JobStep(j) ==
  \/ \E u \in Users : SkipUser(j, u) \/ ReadBalance(j, u)
  \/ SaveBalance(j) \/ RecordDay(j) \/ ResetRow(j) \/ EndRun(j)

Next ==
  \/ \E j \in Jobs : StartRun(j) \/ JobStep(j) \/ JobDbError(j)
  \/ \E u \in Users : RequestAtOnce(u) \/ PackOn(u) \/ PackOff(u)
  \/ \E p \in Posts, u \in Users : RequestRead(p, u)
  \/ \E p \in Posts : RequestWrite(p)
  \/ \E u \in Users, amount \in {-1, 1} : MoveMoney(u, amount)
  \/ NextDay
  \/ Crash

Spec == Init /\ [][Next]_vars

\* The job is started every hour and its awaits come back.
FairSpec == Spec /\ \A j \in Jobs : WF_vars(StartRun(j)) /\ WF_vars(JobStep(j))

-----------------------------------------------------------------------------
(* Properties.                                                             *)

\* Credited but not yet recorded.
Unrecorded(u) ==
  MapThenSumSet(LAMBDA j : Mined(SeenRow(j)),
                {j \in Jobs : job[j].at = "recording" /\ job[j].user = u})

\* The deposit is what the recorded days paid plus what was moved: every day
\* is credited once, and neither the job nor a withdrawal overwrites the
\* other (the identity of scripts/recalculate-btc-deposit.js).
DepositIsLedger ==
  \A u \in Users :
    BTC_DEPOSIT[u] = MapThenSumSet(LAMBDA d : history[u][d], Days)
                       + moved[u] + Unrecorded(u)

\* Whatever fails or races, a settled day is never credited short: the credit
\* comes before its record, and doing it again only adds (the order of the two
\* writes in cronJobs.js).
NeverUnderpaid ==
  \A u \in Users :
    BTC_DEPOSIT[u] >= MapThenSumSet(LAMBDA d : history[u][d], Days) + moved[u]

\* purchasedHashpower is that of the packs and bonuses in force: no request
\* and no reset loses or keeps one (addHashpower against the absolute $set of
\* POST /api/user_mining).
PurchasedIsInForce ==
  \A u \in Users : row[u].purchased = PackGh * inForce[u]

\* hashpower is the sum of its parts, whatever requests and the job write in
\* between, as long as no pack is switched (the relation GET /:userId repairs).
HashpowerIsSum ==
  \A u \in Users : row[u].hashpower = row[u].claimed + row[u].purchased

\* A session that starts is today's, whatever times the app still holds (the
\* last rule of POST /api/user_mining).
NewSessionIsTodays ==
  \A u \in Users : ~row[u].active /\ row'[u].active => SessionDay(row'[u]) = today

\* An active session always has a day, so that the job can settle it.
ActiveHasDay == \A u \in Users : row[u].active => row[u].start > 0 /\ row[u].local > 0

\* A session whose day is over is settled in the end, unless the user stops it.
Due(u) == row[u].active /\ Rolled(row[u])
DueIsSettled == \A u \in Users : Due(u) ~> ~Due(u)

\* Sessions have days the job can find, and are not of an earlier day than the
\* one they start on.
SessionsAreDated == [][ActiveHasDay' /\ NewSessionIsTodays]_vars
=============================================================================
