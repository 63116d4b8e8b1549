------------------------------ MODULE Bonuses ------------------------------
(***************************************************************************)
(* Hashpower given for a day: src/helpers/bonusGrants.js, and the two      *)
(* services that give it, the referral rewards of src/services/            *)
(* referralRewardService.js and the game streak of src/helpers/            *)
(* gameEngagement.js.                                                      *)
(*                                                                         *)
(* A bonus has a unique key: <<"referral", child, day>> or                 *)
(* <<"streak", user, day>>.  Its row says whether its hashpower (one unit  *)
(* here) is counted for the user it went to.  A referral reward is a task  *)
(* that the settlement starts and nobody awaits; a game reward is part of  *)
(* a POST /api/user_mining.                                                *)
(***************************************************************************)
EXTENDS Integers, FiniteSets

CONSTANTS
    Children,      \* users who signed up with a referral code
    ParentOf,      \* the user the code belongs to
    Players,       \* users who play games
    Tasks,         \* referral tasks at work at a time
    Games,         \* game rewards at work at a time
    Expirers,      \* runs of the expiry job at work at a time
    Cycle,         \* days of a streak cycle (CYCLE = 7)
    Window,        \* days of logs that gameStreak reads (CYCLE * 5)
    BonusDays,     \* days of the cycle that pay (GAME_STREAK_BONUS)
    MaxDay,        \* bound: days
    MaxBusy,       \* bound: tasks and game rewards at work at a time
    MaxFaults      \* bound: failed database operations and restarts

ASSUME BonusAssumption ==
    /\ MaxDay \in Nat \ {0} /\ MaxBusy \in Nat /\ MaxFaults \in Nat
    /\ Cycle \in Nat \ {0} /\ Window \in Nat /\ BonusDays \subseteq 1..Cycle
    /\ DOMAIN ParentOf = Children

VARIABLES
    bonusDay,    \* the day
    settled,     \* days of children that have been settled: BalanceHistory
    bonus,       \* BonusGrant rows
    boost,       \* hashpower of bonuses counted in purchasedHashpower
    history,     \* ReferralRewardHistory rows
    task,        \* referral tasks
    log,         \* GameRewardLog: the days with a reward of each player
    game,        \* game rewards being recorded
    expiry,      \* runs of the expiry job: the keys they have yet to end
    failures,
    unseen,      \* history: was a parent not found because a read failed
    restarted    \* history: was the process restarted

bonusVars == <<bonusDay, settled, bonus, boost, history, task, log, game, expiry,
               failures, unseen, restarted>>

Days       == 1..MaxDay
Parents    == {ParentOf[c] : c \in Children}
Pairs      == Children \X Days
ReferralKey(p) == <<"referral", p[1], p[2]>>
StreakKey(u, d) == <<"streak", u, d>>
Keys       == {ReferralKey(p) : p \in Pairs}
                  \cup {StreakKey(u, d) : u \in Players, d \in Days}
UserOf(k)  == IF k[1] = "referral" THEN ParentOf[k[2]] ELSE k[2]
Users      == Parents \cup Players

TaskStates == [at: {"idle", "parent", "check", "recheck", "grant", "record", "fail"},
               child: Children, day: Days, batch: BOOLEAN]
GameStates == [at: {"idle", "create", "streak", "grant"}, user: Players,
               day: Days, first: BOOLEAN]

\* The types of the variables: hashpower is never negative, rows are of their
\* schema's states.
BonusTypeOK ==
    /\ bonusDay \in Days
    /\ settled \subseteq Pairs
    /\ bonus \in [Keys -> [state: {"none", "on", "off"}, expires: 0..(MaxDay + 1)]]
    /\ boost \in [Users -> Nat]
    /\ history \in [Pairs -> {"none", "processed", "failed"}]
    /\ \A t \in Tasks : task[t].at = "idle" \/ task[t] \in TaskStates
    /\ log \in [Players -> SUBSET Days]
    /\ \A g \in Games : game[g].at = "idle" \/ game[g] \in GameStates
    /\ expiry \in [Expirers -> SUBSET Keys]
    /\ failures \in 0..MaxFaults
    /\ unseen \in BOOLEAN /\ restarted \in BOOLEAN

FaultPossible == failures + (IF restarted THEN 1 ELSE 0) < MaxFaults

AtRest == [at |-> "idle"]

BonusInit ==
    /\ bonusDay = 1
    /\ settled = {}
    /\ bonus = [k \in Keys |-> [state |-> "none", expires |-> 0]]
    /\ boost = [u \in Users |-> 0]
    /\ history = [p \in Pairs |-> "none"]
    /\ task = [t \in Tasks |-> AtRest]
    /\ log = [u \in Players |-> {}]
    /\ game = [g \in Games |-> AtRest]
    /\ expiry = [e \in Expirers |-> {}]
    /\ failures = 0
    /\ unseen = FALSE
    /\ restarted = FALSE

\* Bound: a request ends on the day it began.
Midnight ==
    /\ bonusDay < MaxDay
    /\ \A g \in Games : game[g].at = "idle"
    /\ bonusDay' = bonusDay + 1
    /\ UNCHANGED <<settled, bonus, boost, history, task, log, game, expiry, failures,
                   unseen, restarted>>

----------------------------------------------------------------------------
(* bonusGrants.js *)

\* Mutation of GrantBonus: a key whose bonus is over may be used again, and the
\* hashpower is added whether or not the row is new.
GrantBonusAgain(k) ==
    /\ bonus' = [bonus EXCEPT ![k] = [state |-> "on", expires |-> bonusDay + 1]]
    /\ boost' = [boost EXCEPT ![UserOf(k)] = @ + 1]

\* grantBonus: the key's row and the hashpower in one transaction, or nothing
\* when the key exists.
GrantBonus(k) ==
    IF bonus[k].state # "none" THEN UNCHANGED <<bonus, boost>>
    ELSE /\ bonus' = [bonus EXCEPT ![k] = [state |-> "on", expires |-> bonusDay + 1]]
         /\ boost' = [boost EXCEPT ![UserOf(k)] = @ + 1]

\* Mutation of DueBonuses: the row's day must be over, not reached.
DueBonusesLate == {k \in Keys : bonus[k].state = "on" /\ bonus[k].expires + MaxDay < bonusDay}

DueBonuses == {k \in Keys : bonus[k].state = "on" /\ bonus[k].expires <= bonusDay}

StartExpiry(e) ==
    /\ expiry[e] = {}
    /\ DueBonuses # {}
    /\ expiry' = [expiry EXCEPT ![e] = DueBonuses]
    /\ UNCHANGED <<bonusDay, settled, bonus, boost, history, task, log, game, failures,
                   unseen, restarted>>

\* Mutation of EndBonus: twice the hashpower is taken, without the floor.
EndBonusDoubled(k) ==
    IF bonus[k].state # "on" THEN UNCHANGED <<bonus, boost>>
    ELSE /\ bonus' = [bonus EXCEPT ![k].state = "off"]
         /\ boost' = [boost EXCEPT ![UserOf(k)] = @ - 2]

\* One bonus of the list: the update asks for a row that is still active.
EndBonus(k) ==
    IF bonus[k].state # "on" THEN UNCHANGED <<bonus, boost>>
    ELSE /\ bonus' = [bonus EXCEPT ![k].state = "off"]
         /\ boost' = [boost EXCEPT ![UserOf(k)] = IF @ > 0 THEN @ - 1 ELSE 0]

ExpireOne(e, k) ==
    /\ k \in expiry[e]
    /\ EndBonus(k)
    /\ expiry' = [expiry EXCEPT ![e] = @ \ {k}]
    /\ UNCHANGED <<bonusDay, settled, history, task, log, game, failures, unseen,
                   restarted>>

\* A transaction that fails is logged and left to the next run.
ExpireFails(e, k) ==
    /\ k \in expiry[e]
    /\ FaultPossible
    /\ failures' = failures + 1
    /\ expiry' = [expiry EXCEPT ![e] = @ \ {k}]
    /\ UNCHANGED <<bonusDay, settled, bonus, boost, history, task, log, game, unseen,
                   restarted>>

----------------------------------------------------------------------------
(* referralRewardService.js *)

PairOf(t) == <<task[t].child, task[t].day>>

TaskGoes(t, at) == task' = [task EXCEPT ![t].at = at]
TaskEnds(t)     == task' = [task EXCEPT ![t] = AtRest]

SlotFree ==
    Cardinality({t \in Tasks : task[t].at # "idle"})
        + Cardinality({g \in Games : game[g].at # "idle"}) < MaxBusy

NewTask(c, d, batch) == [at |-> "parent", child |-> c, day |-> d, batch |-> batch]

\* cronJobs.js starts processReferralRewardForChild after it has credited a
\* day: once more when a restart or a second run credits the day again.
SettleDay(t, c, d) ==
    /\ task[t].at = "idle" /\ SlotFree
    /\ d = bonusDay - 1
    /\ settled' = settled \cup {<<c, d>>}
    /\ task' = [task EXCEPT ![t] = NewTask(c, d, FALSE)]
    /\ UNCHANGED <<bonusDay, bonus, boost, history, log, game, expiry, failures,
                   unseen, restarted>>

\* processReferralRewards, for one of the days calculateDailyReferralRewards
\* finds. No timer starts it.
StartBatch(t, p) ==
    /\ task[t].at = "idle" /\ SlotFree
    /\ p \in settled
    /\ task' = [task EXCEPT ![t] = NewTask(p[1], p[2], TRUE)]
    /\ UNCHANGED <<bonusDay, settled, bonus, boost, history, log, game, expiry,
                   failures, unseen, restarted>>

\* Reads of the child and of its parent.
FindParent(t) ==
    /\ task[t].at = "parent"
    /\ TaskGoes(t, "check")
    /\ UNCHANGED <<bonusDay, settled, bonus, boost, history, log, game, expiry,
                   failures, unseen, restarted>>

\* A row of any status means the day was dealt with. A batch checks twice.
CheckHistory(t) ==
    /\ task[t].at \in {"check", "recheck"}
    /\ IF history[PairOf(t)] # "none" THEN TaskEnds(t)
       ELSE TaskGoes(t, IF task[t].at = "check" /\ task[t].batch THEN "recheck" ELSE "grant")
    /\ UNCHANGED <<bonusDay, settled, bonus, boost, history, log, game, expiry,
                   failures, unseen, restarted>>

GrantReferral(t) ==
    /\ task[t].at = "grant"
    /\ GrantBonus(ReferralKey(PairOf(t)))
    /\ TaskGoes(t, "record")
    /\ UNCHANGED <<bonusDay, settled, history, log, game, expiry, failures, unseen,
                   restarted>>

\* Mutation of WithRow: the row of a failed reward says processed.
WithRowProcessed(p, status) ==
    IF history[p] = "none" THEN [history EXCEPT ![p] = "processed"] ELSE history

\* ReferralRewardHistory.create: the unique index keeps the row that is there.
WithRow(p, status) ==
    IF history[p] = "none" THEN [history EXCEPT ![p] = status] ELSE history

RecordReward(t) ==
    /\ task[t].at = "record"
    /\ history' = WithRow(PairOf(t), "processed")
    /\ TaskEnds(t)
    /\ UNCHANGED <<bonusDay, settled, bonus, boost, log, game, expiry, failures,
                   unseen, restarted>>

\* Mutation of OnError: the error is only logged.
OnErrorIdle == "idle"

\* Where an error goes: into the catch, which writes an audit row.
OnError == "fail"

\* The reads that calculateDailyReferralRewards and getParentUserId make have
\* catches of their own.
Caught(t) == task[t].at = "parent" \/ (task[t].batch /\ task[t].at = "check")

TaskFails(t) ==
    /\ task[t].at # "idle" /\ ~(task[t].batch /\ Caught(t))
    /\ FaultPossible
    /\ failures' = failures + 1
    /\ IF task[t].at = "fail" THEN TaskEnds(t) ELSE TaskGoes(t, OnError)
    /\ UNCHANGED <<bonusDay, settled, bonus, boost, history, log, game, expiry, unseen,
                   restarted>>

\* No parent is found because the read failed: the task ends as it does for a
\* child without one, and no row is left.
LookupFails(t) ==
    /\ task[t].at # "idle" /\ Caught(t)
    /\ FaultPossible
    /\ failures' = failures + 1
    /\ unseen' = TRUE
    /\ TaskEnds(t)
    /\ UNCHANGED <<bonusDay, settled, bonus, boost, history, log, game, expiry, restarted>>

\* The row of a failed reward; the parent is looked up again.
RecordFailed(t) ==
    /\ task[t].at = "fail"
    /\ history' = WithRow(PairOf(t), "failed")
    /\ TaskEnds(t)
    /\ UNCHANGED <<bonusDay, settled, bonus, boost, log, game, expiry, failures,
                   unseen, restarted>>

ReferralStep(t) ==
    FindParent(t) \/ CheckHistory(t) \/ GrantReferral(t) \/ RecordReward(t) \/ RecordFailed(t)

----------------------------------------------------------------------------
(* gameEngagement.js *)

\* Mutation of StreakFromDays: gaps are not seen.
StreakIgnoresGaps(played, today) == Cardinality(played)

\* Consecutive days that end today, or yesterday when today has none.
StreakFromDays(played, today) ==
    LET end == IF today \in played THEN today ELSE today - 1
    IN  Cardinality({k \in 1..end : (end - k + 1)..end \subseteq played})

CycleDay(n) == IF n = 0 THEN 0 ELSE ((n - 1) % Cycle) + 1

\* gameStreak: what the logs of the window say.
GameStreak(u, today) ==
    StreakFromDays({d \in log[u] : today - Window <= d /\ d <= today}, today)

GameGoes(g, at) == game' = [game EXCEPT ![g].at = at]
GameEnds(g)     == game' = [game EXCEPT ![g] = AtRest]

\* recordGameReward: is it the first of the day.
StartGame(g, u) ==
    /\ game[g].at = "idle" /\ SlotFree
    /\ game' = [game EXCEPT ![g] = [at |-> "create", user |-> u, day |-> bonusDay,
                                    first |-> bonusDay \notin log[u]]]
    /\ UNCHANGED <<bonusDay, settled, bonus, boost, history, task, log, expiry,
                   failures, unseen, restarted>>

LogGame(g) ==
    /\ game[g].at = "create"
    /\ log' = [log EXCEPT ![game[g].user] = @ \cup {game[g].day}]
    /\ IF game[g].first THEN GameGoes(g, "streak") ELSE GameEnds(g)
    /\ UNCHANGED <<bonusDay, settled, bonus, boost, history, task, expiry, failures,
                   unseen, restarted>>

CountStreak(g) ==
    /\ game[g].at = "streak"
    /\ IF CycleDay(GameStreak(game[g].user, game[g].day)) \in BonusDays
       THEN GameGoes(g, "grant") ELSE GameEnds(g)
    /\ UNCHANGED <<bonusDay, settled, bonus, boost, history, task, log, expiry,
                   failures, unseen, restarted>>

PayStreak(g) ==
    /\ game[g].at = "grant"
    /\ GrantBonus(StreakKey(game[g].user, game[g].day))
    /\ GameEnds(g)
    /\ UNCHANGED <<bonusDay, settled, history, task, log, expiry, failures, unseen,
                   restarted>>

\* The catch logs and returns: the reward stands, the bonus is lost.
GameFails(g) ==
    /\ game[g].at # "idle"
    /\ FaultPossible
    /\ failures' = failures + 1
    /\ GameEnds(g)
    /\ UNCHANGED <<bonusDay, settled, bonus, boost, history, task, log, expiry, unseen,
                   restarted>>

----------------------------------------------------------------------------
\* Bound: at most one restart.
BonusRestart ==
    /\ ~restarted /\ FaultPossible
    /\ restarted' = TRUE
    /\ task' = [t \in Tasks |-> AtRest]
    /\ game' = [g \in Games |-> AtRest]
    /\ expiry' = [e \in Expirers |-> {}]
    /\ UNCHANGED <<bonusDay, settled, bonus, boost, history, log, failures, unseen>>

BonusNext ==
    \/ Midnight \/ BonusRestart
    \/ \E e \in Expirers :
           StartExpiry(e) \/ \E k \in Keys : ExpireOne(e, k) \/ ExpireFails(e, k)
    \/ \E t \in Tasks :
           \/ \E c \in Children, d \in Days : SettleDay(t, c, d)
           \/ \E p \in Pairs : StartBatch(t, p)
           \/ ReferralStep(t) \/ TaskFails(t) \/ LookupFails(t)
    \/ \E g \in Games :
           \/ \E u \in Players : StartGame(g, u)
           \/ LogGame(g) \/ CountStreak(g) \/ PayStreak(g) \/ GameFails(g)

\* The hourly expiry job is started and its awaits come back. Nothing is
\* assumed of settlements, games and the batch.
BonusFairness ==
    \A e \in Expirers : WF_bonusVars(StartExpiry(e) \/ \E k \in Keys : ExpireOne(e, k))

BonusSpec == BonusInit /\ [][BonusNext]_bonusVars /\ BonusFairness

----------------------------------------------------------------------------
(* Properties *)

\* The hashpower counted for a user is that of the bonuses whose row is active,
\* whatever grants and expiry runs overlap (bonusGrants.js).
BoostIsBonusesOn ==
    \A u \in Users :
        boost[u] = Cardinality({k \in Keys : UserOf(k) = u /\ bonus[k].state = "on"})

\* A history row that says processed was preceded by the bonus: a failure
\* between the two leaves the bonus without the row, never the other way
\* (grantReferralReward).
ProcessedIsGranted ==
    \A p \in Pairs : history[p] = "processed" => bonus[ReferralKey(p)].state # "none"

\* A settled day with a parent ends with its reward, or, after one failure,
\* with an audit row; only a restart, or a read of the parent that fails, loses
\* it without a trace (processReferralRewardForChild).
RewardOrAudit ==
    \A p \in settled :
        (\A t \in Tasks : task[t].at # "idle" => PairOf(t) # p) =>
            \/ bonus[ReferralKey(p)].state # "none"
            \/ failures > 0 /\ (history[p] = "failed" \/ unseen)
            \/ failures > 1 \/ restarted

\* A reward is never recorded without being given, nor lost without a record.
ReferralIsAccounted == ProcessedIsGranted /\ RewardOrAudit

\* "Each streak day can pay once" and day 10 "pays like day 3"
\* (gameEngagement.js:8-11): when nothing failed, a player whose streak reached
\* a bonus day of the cycle that day has that day's bonus, and nobody has one
\* without the days.
StreakPaysItsDays ==
    \A u \in Players, d \in Days :
        LET earned == \E n \in 1..d : /\ CycleDay(n) \in BonusDays
                                    /\ (d - n + 1)..d \subseteq log[u]
                                    /\ (d - n) \notin log[u]
            paid   == bonus[StreakKey(u, d)].state # "none"
        IN  /\ paid => earned
            /\ earned => \/ paid \/ failures > 0 \/ restarted
                         \/ \E g \in Games : game[g].at # "idle" /\ game[g].user = u

\* A bonus whose time is up is taken off in the end (expireBonusGrants).
BonusEnds ==
    \A k \in Keys : (bonus[k].state = "on" /\ bonus[k].expires <= bonusDay)
                        ~> bonus[k].state = "off"
=============================================================================
