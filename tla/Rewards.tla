------------------------------ MODULE Rewards ------------------------------
(***************************************************************************)
(* The rewards of one user, apart from the regular ad and the start reward *)
(* (module MiningDay): games and trades, privilege ads, super ads, the     *)
(* streak, the daily loss, and the histories the app keeps in the row      *)
(* (src/routes/api_routes/user-mining-handles.js, daily-miner-handles.js,  *)
(* src/helpers/rewardGrants.js, streak.js).                                *)
(*                                                                         *)
(* A request reads the UserMining row and writes it later.  A POST sets    *)
(* what it computed with an update; the other routes save the document,    *)
(* which writes the fields they changed, and refuses when the row's        *)
(* version moved and an array is among them.  What a grant adds to the     *)
(* hashpower is in MiningDay (Powered).                                    *)
(***************************************************************************)
EXTENDS Integers, FiniteSets, FiniteSetsExt

CONSTANTS
    Asks,          \* requests at work at a time
    Zones,         \* days the app's clock may be ahead of the earliest zone: 0..2
    Uses,          \* bound: the sets of things the app does in one behaviour
    Trades,        \* trades the app records
    Spins,         \* spins and memory games the app records
    Charges,       \* purchases of the privilege
    GamePerDay,    \* maxGameGhPerDay
    GameMost,      \* largest single game reward
    SuperPerDay,   \* MAX_SUPER_AD_MINER_CLAIMS_PER_DAY
    PrivPerDay,    \* PRIVILEGE_ADS_PER_DAY
    AdsNeeded,     \* daily_ads_required
    LossPerDay,    \* daily_loss_offset
    RewardDays,    \* bound: server days
    MaxRequests    \* bound: requests of one behaviour

ASSUME RewardsAssumption ==
    /\ Zones \subseteq 0..2
    /\ {GamePerDay, GameMost, SuperPerDay, PrivPerDay, AdsNeeded, LossPerDay} \subseteq Nat
    /\ RewardDays \in Nat \ {0} /\ MaxRequests \in Nat
    /\ Trades \cap Spins = {} /\ IsFiniteSet(Asks)

VARIABLES
    serverDay,    \* the server's day
    screens,      \* what the app is used for
    mining,       \* the UserMining row
    entries,      \* its histories: the status of trades and spins
    freeMiner,    \* number of DailyFreeMiner rows
    privileges,   \* number of AdMultiplierPrivilege rows of each charge
    chargedOn,    \* history: the day the store made each charge
    ask,          \* requests at work
    asked,        \* number of requests so far
    clearedOn,    \* day of the last settlement
    raced,        \* history: did a request write over a row it had not read
    given,        \* history: what was granted, by kind
    tradesPaid,   \* history: times each trade was paid
    daysActive    \* history: local days with a claim

rewardVars == <<serverDay, screens, mining, entries, freeMiner, privileges, chargedOn,
                ask, asked, clearedOn, raced, given, tradesPaid, daysActive>>

LocalDays == 1..(RewardDays + 2)
Entries   == Trades \cup Spins
Kinds     == {"game", "privilege", "super", "claim", "add", "daily", "loss", "get", "buy"}

\* The types of the variables, the limits of the schema included.
RewardsTypeOK ==
    /\ serverDay \in 1..RewardDays
    /\ screens \in Uses
    /\ mining \in [gameDay: {0} \cup LocalDays, gameGh: Nat,
                   privDay: {0} \cup LocalDays, privAds: Nat, superAds: 0..SuperPerDay,
                   stock: Nat, streak: Nat, last: {0} \cup LocalDays,
                   loss: Nat, lossAds: Nat, lossDay: 1..RewardDays, version: Nat]
    /\ entries \in [Entries -> {"none", "pending", "claimed"}]
    /\ freeMiner \in 0..Cardinality(Asks)
    /\ privileges \in [Charges -> Nat]
    /\ chargedOn \in [Charges -> 0..RewardDays]
    /\ \A a \in Asks : ask[a].kind \in Kinds \cup {"none"}
    /\ asked \in 0..MaxRequests
    /\ clearedOn \in 0..RewardDays
    /\ raced \in BOOLEAN
    /\ tradesPaid \in [Trades -> Nat]
    /\ daysActive \subseteq LocalDays

NoAsk == [kind |-> "none"]

RewardsInit ==
    /\ serverDay = 1
    /\ screens \in Uses
    /\ mining = [gameDay |-> 0, gameGh |-> 0, privDay |-> 0, privAds |-> 0, superAds |-> 0,
                 stock |-> 0, streak |-> 0, last |-> 0, loss |-> 0, lossAds |-> 0,
                 lossDay |-> 1, version |-> 0]
    /\ entries = [e \in Entries |-> "none"]
    /\ freeMiner = 0
    /\ privileges = [c \in Charges |-> 0]
    /\ chargedOn = [c \in Charges |-> 0]
    /\ ask = [a \in Asks |-> NoAsk]
    /\ asked = 0
    /\ clearedOn = 0
    /\ raced = FALSE
    /\ given = [game |-> [d \in LocalDays |-> 0], privilege |-> [d \in LocalDays |-> 0],
                super |-> 0]
    /\ tradesPaid = [t \in Trades |-> 0]
    /\ daysActive = {}

----------------------------------------------------------------------------
(* Pure helpers. *)

\* trustedDay: what the app says is used when it is today in some zone.
PossibleDays == {serverDay + z : z \in Zones}

\* Mutation of DayCounter: any other day starts again.
DayCounterAnyDay(stored, count, today) ==
    IF stored = 0 \/ today = stored THEN [day |-> today, used |-> count]
    ELSE [day |-> today, used |-> 0]

\* dayCounter: the day never goes back.
DayCounter(stored, count, today) ==
    IF stored # 0 /\ today > stored THEN [day |-> today, used |-> 0]
    ELSE [day |-> IF stored = 0 THEN today ELSE stored, used |-> count]

\* Mutation of ComputeStreak: a missed day is not noticed.
ComputeStreakKeepsGap(r, today) ==
    IF r.last # 0 /\ today <= r.last THEN r
    ELSE [r EXCEPT !.streak = IF r.last # 0 THEN r.streak + 1 ELSE 1, !.last = today]

\* computeStreak, applied to r.
ComputeStreak(r, today) ==
    IF r.last # 0 /\ today <= r.last THEN r
    ELSE [r EXCEPT !.streak = IF r.last # 0 /\ today = r.last + 1 THEN r.streak + 1 ELSE 1,
                   !.last = today]

\* applyGameBudget, for the row it read.
GameGranted(seen, today, wanted) ==
    LET c == DayCounter(seen.gameDay, seen.gameGh, today)
    IN  Min({wanted, GameMost, Max({0, GamePerDay - c.used})})

\* Charges whose privilege is in force: a year, one day here, from the charge.
ActivePrivileges == {c \in Charges : privileges[c] > 0 /\ chargedOn[c] = serverDay}

\* The fields of the row that a document save writes: those it changed.
Saved(seen, new) ==
    [f \in DOMAIN mining |-> IF new[f] = seen[f] THEN mining[f] ELSE new[f]]

\* An update or a save: other requests now hold an old row.
Wrote(a) ==
    /\ ask' = [b \in Asks |-> IF b = a \/ ask[b].kind = "none" THEN NoAsk
                              ELSE [ask[b] EXCEPT !.stale = TRUE]]
    /\ raced' = (raced \/ ask[a].stale)

\* A request that ends and writes nothing.
Ended(a) == ask' = [ask EXCEPT ![a] = NoAsk] /\ UNCHANGED raced

----------------------------------------------------------------------------
(* Requests. *)

\* The row is read; for a privilege, the charge is looked up instead.
Ask(a, kind, today, entry) ==
    /\ ask[a].kind = "none" /\ kind \in screens
    /\ asked < MaxRequests /\ asked' = asked + 1
    /\ ask' = [ask EXCEPT ![a] =
           [kind |-> kind, at |-> "write", seen |-> mining, had |-> entries,
            today |-> today, entry |-> entry, stale |-> FALSE]]
    /\ UNCHANGED <<serverDay, screens, mining, entries, freeMiner, privileges, chargedOn,
                   clearedOn, raced, given, tradesPaid, daysActive>>

\* Every POST with a reward counts for the streak.
PostsGame(a, wanted) ==
    LET q == ask[a]
        c == DayCounter(q.seen.gameDay, q.seen.gameGh, q.today)
        granted == GameGranted(q.seen, q.today, wanted)
        next == ComputeStreak(q.seen, q.today)
    IN  /\ q.kind = "game"
        /\ mining' = [mining EXCEPT !.gameDay = c.day, !.gameGh = c.used + granted,
               !.streak = IF next = q.seen THEN mining.streak ELSE next.streak,
               !.last = IF next = q.seen THEN mining.last ELSE next.last]
        /\ given' = [given EXCEPT !.game[c.day] = @ + granted]
        /\ daysActive' = daysActive \cup {q.today}
        /\ Wrote(a)
        /\ UNCHANGED <<asked, serverDay, screens, entries, freeMiner, privileges, chargedOn,
                       clearedOn, tradesPaid>>

\* A privilege ad: refused without an active privilege or beyond its limit.
PostsPrivilegeAd(a) ==
    LET q == ask[a]
        c == DayCounter(q.seen.privDay, q.seen.privAds, q.today)
        counts == ActivePrivileges # {}
        grants == counts /\ c.used < PrivPerDay
        next == ComputeStreak(q.seen, q.today)
    IN  /\ q.kind = "privilege"
        /\ mining' = [mining EXCEPT
               !.privDay = IF counts THEN c.day ELSE @,
               !.privAds = IF counts THEN c.used + (IF grants THEN 1 ELSE 0) ELSE @,
               !.streak = IF next = q.seen THEN mining.streak ELSE next.streak,
               !.last = IF next = q.seen THEN mining.last ELSE next.last]
        /\ given' = IF grants THEN [given EXCEPT !.privilege[c.day] = @ + 1] ELSE given
        /\ daysActive' = daysActive \cup {q.today}
        /\ Wrote(a)
        /\ UNCHANGED <<asked, serverDay, screens, entries, freeMiner, privileges, chargedOn,
                       clearedOn, tradesPaid>>

\* Mutation of SuperAdCounts: the limit is not looked at.
SuperAdCountsAlways(before, count) == count > before

\* The app's count must be ahead of the stored one, which must be below the limit.
SuperAdCounts(before, count) == count > before /\ before < SuperPerDay

\* The stored count moves by one, whatever count the app sends.
PostsSuperAd(a, count) ==
    LET q == ask[a]
        before == q.seen.superAds
        counts == SuperAdCounts(before, count)
        next == ComputeStreak(q.seen, q.today)
    IN  /\ q.kind = "super"
        /\ mining' = [mining EXCEPT
               !.superAds = before + (IF counts THEN 1 ELSE 0),
               !.streak = IF next = q.seen THEN mining.streak ELSE next.streak,
               !.last = IF next = q.seen THEN mining.last ELSE next.last]
        /\ given' = IF counts THEN [given EXCEPT !.super = @ + 1] ELSE given
        /\ daysActive' = daysActive \cup {q.today}
        /\ Wrote(a)
        /\ UNCHANGED <<asked, serverDay, screens, entries, freeMiner, privileges, chargedOn,
                       clearedOn, tradesPaid>>

----------------------------------------------------------------------------
(* Histories: documents with a version. *)

\* Mutation of SameVersion: the save does not look at the version.
SameVersionNever(seen) == TRUE

SameVersion(seen) == mining.version = seen.version

\* POST trading-history, spin-history and memory-history: an entry that is new.
\* A spin that is there is left alone; the app sends a trade once.
AddEntry(a) ==
    LET q == ask[a] IN
    /\ q.kind = "add"
    /\ IF q.had[q.entry] = "none" /\ SameVersion(q.seen)
       THEN /\ entries' = [q.had EXCEPT ![q.entry] = "pending"]
            /\ mining' = [mining EXCEPT !.version = @ + 1]
            /\ Wrote(a)
       ELSE Ended(a) /\ UNCHANGED <<mining, entries>>
    /\ UNCHANGED <<asked, serverDay, screens, freeMiner, privileges, chargedOn, clearedOn, given,
                   tradesPaid, daysActive>>

\* POST spin-history/claim, memory-history/claim.
ClaimSpin(a) ==
    LET q == ask[a] IN
    /\ q.kind = "claim" /\ q.entry \in Spins
    /\ IF q.had[q.entry] # "none" /\ SameVersion(q.seen)
       THEN /\ entries' = [q.had EXCEPT ![q.entry] = "claimed"]
            /\ mining' = [mining EXCEPT !.version = @ + 1]
            /\ Wrote(a)
       ELSE Ended(a) /\ UNCHANGED <<mining, entries>>
    /\ UNCHANGED <<asked, serverDay, screens, freeMiner, privileges, chargedOn, clearedOn, given,
                   tradesPaid, daysActive>>

\* Mutation of MayClaim: a trade that was claimed is claimed again.
MayClaimAgain(status) == status # "none"

MayClaim(status) == status = "pending"

\* POST trading-claim of a won trade.
ClaimTrade(a, wanted) ==
    LET q == ask[a]
        c == DayCounter(q.seen.gameDay, q.seen.gameGh, q.today)
        granted == GameGranted(q.seen, q.today, wanted)
        new == [q.seen EXCEPT !.gameDay = c.day, !.gameGh = c.used + granted,
                              !.stock = q.seen.stock + granted]
    IN  /\ q.kind = "claim" /\ q.entry \in Trades
        /\ IF MayClaim(q.had[q.entry]) /\ SameVersion(q.seen)
           THEN /\ entries' = [q.had EXCEPT ![q.entry] = "claimed"]
                /\ mining' = [Saved(q.seen, new) EXCEPT !.version = mining.version + 1]
                /\ given' = [given EXCEPT !.game[c.day] = @ + granted]
                /\ tradesPaid' = [tradesPaid EXCEPT ![q.entry] = @ + 1]
                /\ Wrote(a)
           ELSE Ended(a) /\ UNCHANGED <<mining, entries, given, tradesPaid>>
        /\ UNCHANGED <<asked, serverDay, screens, freeMiner, privileges, chargedOn, clearedOn,
                       daysActive>>

----------------------------------------------------------------------------
(* POST /api/daily-miner: its claim, then the streak of the row it read. *)

SaveFreeMiner(a) ==
    /\ ask[a].kind = "daily" /\ ask[a].at = "write"
    /\ IF freeMiner > 0 THEN Ended(a) /\ UNCHANGED freeMiner
       ELSE /\ ask' = [ask EXCEPT ![a].at = "save"]
            /\ UNCHANGED <<freeMiner, raced>>
    /\ UNCHANGED <<asked, serverDay, screens, mining, entries, privileges, chargedOn, clearedOn,
                   given, tradesPaid, daysActive>>

ClaimFreeMiner(a) ==
    /\ ask[a].kind = "daily" /\ ask[a].at = "save"
    /\ freeMiner' = freeMiner + 1
    /\ ask' = [ask EXCEPT ![a].at = "streak"]
    /\ UNCHANGED <<asked, serverDay, screens, mining, entries, privileges, chargedOn, clearedOn,
                   raced, given, tradesPaid, daysActive>>

SaveStreak(a) ==
    LET q == ask[a] IN
    /\ q.kind = "daily" /\ q.at = "streak"
    /\ mining' = Saved(q.seen, ComputeStreak(q.seen, q.today))
    /\ daysActive' = daysActive \cup {q.today}
    /\ Wrote(a)
    /\ UNCHANGED <<asked, serverDay, screens, entries, freeMiner, privileges, chargedOn, clearedOn,
                   given, tradesPaid>>

----------------------------------------------------------------------------
(* Loss tracking. *)

\* Mutation of DailyLoss: the day of the check is not moved on.
DailyLossSameDay(r, passed) ==
    IF passed = 0 THEN r
    ELSE [r EXCEPT !.loss = IF r.lossAds < AdsNeeded THEN r.loss + LossPerDay * passed ELSE 0,
                   !.lossAds = 0]

\* checkAndApplyDailyLoss, when passed times 24 hours are over.
DailyLoss(r, passed) ==
    IF passed = 0 THEN r
    ELSE [r EXCEPT !.loss = IF r.lossAds < AdsNeeded THEN r.loss + LossPerDay * passed ELSE 0,
                   !.lossAds = 0, !.lossDay = serverDay]

\* GET /api/user_mining of a user with bought hashpower.
GetsDetails(a) ==
    LET q == ask[a] IN
    /\ q.kind = "get"
    /\ \E passed \in {serverDay - q.seen.lossDay - 1, serverDay - q.seen.lossDay} \cap Nat :
           mining' = Saved(q.seen, DailyLoss(q.seen, passed))
    /\ Wrote(a)
    /\ UNCHANGED <<asked, serverDay, screens, entries, freeMiner, privileges, chargedOn, clearedOn,
                   given, tradesPaid, daysActive>>

\* POST increment-loss-ad.
WatchesLossAd(a) ==
    LET q == ask[a]
        ads == q.seen.lossAds + 1
    IN  /\ q.kind = "loss"
        /\ mining' = Saved(q.seen, [q.seen EXCEPT !.lossAds = ads,
               !.loss = IF ads >= AdsNeeded THEN Max({0, q.seen.loss - LossPerDay}) ELSE @])
        /\ Wrote(a)
        /\ UNCHANGED <<asked, serverDay, screens, entries, freeMiner, privileges, chargedOn,
                       clearedOn, given, tradesPaid, daysActive>>

----------------------------------------------------------------------------
(* Privileges. *)

StoreCharges(c) ==
    /\ "buy" \in screens
    /\ chargedOn[c] = 0
    /\ chargedOn' = [chargedOn EXCEPT ![c] = serverDay]
    /\ UNCHANGED <<asked, serverDay, screens, mining, entries, freeMiner, privileges, ask,
                   clearedOn, raced, given, tradesPaid, daysActive>>

\* POST /api/privileges: RevenueCat confirms the newest charge, then the two
\* checks.
ChecksPrivilege(a, c) ==
    /\ ask[a].kind = "buy" /\ ask[a].at = "write"
    /\ chargedOn[c] # 0 /\ \A d \in Charges : chargedOn[d] <= chargedOn[c]
    /\ IF privileges[c] # 0 \/ ActivePrivileges # {} THEN Ended(a)
       ELSE /\ ask' = [ask EXCEPT ![a] = [ask[a] EXCEPT !.at = "save", !.entry = c]]
            /\ UNCHANGED raced
    /\ UNCHANGED <<asked, serverDay, screens, mining, entries, freeMiner, privileges, chargedOn,
                   clearedOn, given, tradesPaid, daysActive>>

\* Mutation of RowsOf: no unique index.
RowsOfMore(n) == n + 1

\* The unique index on store_transaction_id: rows of a charge after a create.
RowsOf(n) == IF n = 0 THEN 1 ELSE n

CreatesPrivilege(a) ==
    LET c == ask[a].entry IN
    /\ ask[a].kind = "buy" /\ ask[a].at = "save"
    /\ privileges' = [privileges EXCEPT ![c] = RowsOf(@)]
    /\ Ended(a)
    /\ UNCHANGED <<asked, serverDay, screens, mining, entries, freeMiner, chargedOn, clearedOn,
                   given, tradesPaid, daysActive>>

----------------------------------------------------------------------------
(* The day and the settlement. *)

\* What the settlement does to the fields of this module.
ClearsRewards ==
    /\ clearedOn < serverDay /\ serverDay > 1
    /\ clearedOn' = serverDay
    /\ mining' = [mining EXCEPT !.superAds = 0, !.stock = 0]
    /\ freeMiner' = 0
    /\ given' = [given EXCEPT !.super = 0]
    /\ ask' = [a \in Asks |-> IF ask[a].kind = "none" THEN NoAsk
                              ELSE [ask[a] EXCEPT !.stale = TRUE]]
    /\ UNCHANGED <<asked, serverDay, screens, entries, privileges, chargedOn, raced, tradesPaid,
                   daysActive>>

NextServerDay ==
    /\ serverDay < RewardDays
    /\ serverDay' = serverDay + 1
    /\ UNCHANGED <<asked, screens, mining, entries, freeMiner, privileges, chargedOn, ask,
                   clearedOn, raced, given, tradesPaid, daysActive>>

RewardsStep(a) ==
    \/ \E k \in {"game", "privilege", "super", "daily"}, d \in PossibleDays : Ask(a, k, d, 0)
    \/ \E k \in {"loss", "get", "buy"} : Ask(a, k, 0, 0)
    \/ \E e \in Entries : Ask(a, "add", 0, e)
    \/ \E e \in Spins : Ask(a, "claim", 0, e)
    \/ \E e \in Trades, d \in PossibleDays : Ask(a, "claim", d, e)
    \/ \E w \in 1..(GameMost + 1) : PostsGame(a, w) \/ ClaimTrade(a, w)
    \/ PostsPrivilegeAd(a)
    \/ \E n \in 1..(SuperPerDay + 1) : PostsSuperAd(a, n)
    \/ AddEntry(a) \/ ClaimSpin(a)
    \/ SaveFreeMiner(a) \/ ClaimFreeMiner(a) \/ SaveStreak(a)
    \/ GetsDetails(a) \/ WatchesLossAd(a)
    \/ \E c \in Charges : ChecksPrivilege(a, c)
    \/ CreatesPrivilege(a)

RewardsNext ==
    \/ NextServerDay \/ ClearsRewards
    \/ \E c \in Charges : StoreCharges(c)
    \/ \E a \in Asks : RewardsStep(a)

RewardsSpec == RewardsInit /\ [][RewardsNext]_rewardVars

----------------------------------------------------------------------------
(* Properties *)

\* Without requests that overlap, no day gives more than its limit, whatever
\* days the app's clock names and in whatever order: "changing the phone's
\* clock or timezone cannot open a second today" (rewardGrants.js:28-31).
DailyLimitsHold ==
    ~raced =>
        /\ \A d \in LocalDays : given.game[d] <= GamePerDay /\ given.privilege[d] <= PrivPerDay
        /\ given.super <= SuperPerDay

\* A trade is paid once, and a claimed entry of a history stays claimed, also
\* when requests overlap: the version of the document refuses the second save.
TradePaidOnce == \A t \in Trades : tradesPaid[t] <= 1

ClaimedStaysClaimed ==
    \A e \in Entries : entries[e] = "claimed" => entries'[e] = "claimed"

\* Without requests that overlap, the streak never counts a day without a claim,
\* whichever of the two routes moves it and whatever days the app's clock names
\* (streak.js).
StreakIsEarned ==
    ~raced => (mining.last - mining.streak + 1)..mining.last \subseteq daysActive

\* "One store transaction grants one privilege, however often it is replayed"
\* (privileges.js:91).
OnePrivilegePerCharge == \A c \in Charges : privileges[c] <= 1

\* The loss is at most that of the days up to the last check, however checks
\* and ads overlap (checkAndApplyDailyLoss).
LossIsOfDays == mining.loss <= LossPerDay * (mining.lossDay - 1)

\* What a step grants was earned: by day, by trade, by streak, by charge, by loss.
RewardsAreEarned ==
    [][/\ DailyLimitsHold' /\ TradePaidOnce' /\ ClaimedStaysClaimed
       /\ StreakIsEarned' /\ OnePrivilegePerCharge' /\ LossIsOfDays']_rewardVars
=============================================================================
