--------------------------- MODULE BonusesProofs ---------------------------
(***************************************************************************)
(* Proofs about the bonuses of a day, for any children, parents, players,  *)
(* tasks, games, expiry runs, days and faults.  None of the properties is  *)
(* inductive by itself: that the hashpower is that of the rows also needs  *)
(* that a user's rows are finitely many; that a referral reward is         *)
(* accounted for depends on what the tasks know, and that a streak pays on *)
(* what the recorded games know.                                           *)
(***************************************************************************)
EXTENDS Bonuses, SumLemmas

----------------------------------------------------------------------------
(* Types. *)

BonusTypes ==
    /\ BonusTypeOK
    /\ task \in [Tasks -> TaskStates \cup {AtRest}]
    /\ game \in [Games -> GameStates \cup {AtRest}]

LEMMA DaysAreNat ==
  /\ \A d \in Days : d \in Nat /\ d \in Int /\ 1 <= d /\ d <= MaxDay
  /\ 1 \in Days /\ MaxDay \in Nat /\ MaxDay \in Int /\ MaxFaults \in Nat
  BY BonusAssumption DEF Days

LEMMA AtRestIsIdle == AtRest.at = "idle"
  BY DEF AtRest

LEMMA ReferralKeyIsKey ==
  ASSUME NEW p \in Pairs
  PROVE  ReferralKey(p) \in Keys /\ ReferralKey(p) = <<"referral", p[1], p[2]>>
  BY DEF Keys, ReferralKey

LEMMA StreakKeyIsKey ==
  ASSUME NEW u \in Players, NEW d \in Days
  PROVE  StreakKey(u, d) \in Keys /\ StreakKey(u, d) = <<"streak", u, d>>
  BY DEF Keys, StreakKey

\* Keys of different kinds, pairs or days are different.
LEMMA KeysDiffer ==
  /\ \A p \in Pairs : \A u \in Players, d \in Days : ReferralKey(p) # StreakKey(u, d)
  /\ \A p, q \in Pairs : ReferralKey(p) = ReferralKey(q) => p = q
  /\ \A u, v \in Players : \A d, e \in Days :
         StreakKey(u, d) = StreakKey(v, e) => u = v /\ d = e
  BY DEF ReferralKey, StreakKey, Pairs

LEMMA UserOfIsUser ==
  ASSUME NEW k \in Keys
  PROVE  UserOf(k) \in Users
<1>1. CASE \E p \in Pairs : k = ReferralKey(p)
  <2>1. PICK p \in Pairs : k = <<"referral", p[1], p[2]>>
    BY <1>1 DEF ReferralKey
  <2>2. k[1] = "referral" /\ k[2] = p[1] /\ p[1] \in Children
    BY <2>1 DEF Pairs
  <2>3. UserOf(k) = ParentOf[p[1]]
    BY <2>2 DEF UserOf
  <2> QED BY <2>2, <2>3 DEF Users, Parents
<1>2. CASE \E u \in Players, d \in Days : k = StreakKey(u, d)
  <2>1. PICK u \in Players, d \in Days : k = <<"streak", u, d>>
    BY <1>2 DEF StreakKey
  <2>2. k[1] = "streak" /\ k[2] = u
    BY <2>1
  <2>3. UserOf(k) = u
    BY <2>2 DEF UserOf
  <2> QED BY <2>3 DEF Users
<1> QED BY <1>1, <1>2 DEF Keys

LEMMA PairOfIsPair ==
  ASSUME BonusTypes, NEW t \in Tasks, task[t].at # "idle"
  PROVE  /\ task[t] \in TaskStates /\ PairOf(t) \in Pairs
         /\ task[t].child \in Children /\ task[t].day \in Days
  BY AtRestIsIdle DEF BonusTypes, TaskStates, PairOf, Pairs

LEMMA GameOfIsState ==
  ASSUME BonusTypes, NEW g \in Games, game[g].at # "idle"
  PROVE  /\ game[g] \in GameStates /\ game[g].user \in Players /\ game[g].day \in Days
         /\ game[g].first \in BOOLEAN
  BY AtRestIsIdle DEF BonusTypes, GameStates

\* A task that goes on, and one that ends.
LEMMA TaskMoves ==
  ASSUME BonusTypes, NEW t \in Tasks
  PROVE  /\ TaskEnds(t) => task' \in [Tasks -> TaskStates \cup {AtRest}]
         /\ \A at \in {"idle", "parent", "check", "recheck", "grant", "record", "fail"} :
                task[t].at # "idle" /\ TaskGoes(t, at) =>
                    /\ task' \in [Tasks -> TaskStates \cup {AtRest}]
                    /\ task' = [task EXCEPT ![t] = [task[t] EXCEPT !.at = at]]
<1>1. TaskEnds(t) => task' \in [Tasks -> TaskStates \cup {AtRest}]
  BY DEF TaskEnds, BonusTypes
<1>2. ASSUME NEW at \in {"idle", "parent", "check", "recheck", "grant", "record", "fail"},
             task[t].at # "idle", TaskGoes(t, at)
      PROVE  /\ task' \in [Tasks -> TaskStates \cup {AtRest}]
             /\ task' = [task EXCEPT ![t] = [task[t] EXCEPT !.at = at]]
  <2> DEFINE r == [task[t] EXCEPT !.at = at]
  <2>1. task' = [task EXCEPT ![t] = r]
    BY <1>2 DEF TaskGoes
  <2>2. task[t] \in TaskStates
    BY <1>2, PairOfIsPair
  <2>3. r \in TaskStates
    BY <2>2 DEF TaskStates
  <2> HIDE DEF r
  <2>4. task' \in [Tasks -> TaskStates \cup {AtRest}]
    BY <2>1, <2>3 DEF BonusTypes
  <2> QED BY <2>1, <2>4 DEF r
<1> QED BY <1>1, <1>2

LEMMA GameMoves ==
  ASSUME BonusTypes, NEW g \in Games
  PROVE  /\ GameEnds(g) => game' \in [Games -> GameStates \cup {AtRest}]
         /\ \A at \in {"streak", "grant"} :
                game[g].at # "idle" /\ GameGoes(g, at) =>
                    /\ game' \in [Games -> GameStates \cup {AtRest}]
                    /\ game' = [game EXCEPT ![g] = [game[g] EXCEPT !.at = at]]
<1>1. GameEnds(g) => game' \in [Games -> GameStates \cup {AtRest}]
  BY DEF GameEnds, BonusTypes
<1>2. ASSUME NEW at \in {"streak", "grant"}, game[g].at # "idle", GameGoes(g, at)
      PROVE  /\ game' \in [Games -> GameStates \cup {AtRest}]
             /\ game' = [game EXCEPT ![g] = [game[g] EXCEPT !.at = at]]
  <2> DEFINE r == [game[g] EXCEPT !.at = at]
  <2>1. game' = [game EXCEPT ![g] = r]
    BY <1>2 DEF GameGoes
  <2>2. game[g] \in GameStates
    BY <1>2, GameOfIsState
  <2>3. r \in GameStates
    BY <2>2 DEF GameStates
  <2> HIDE DEF r
  <2>4. game' \in [Games -> GameStates \cup {AtRest}]
    BY <2>1, <2>3 DEF BonusTypes
  <2> QED BY <2>1, <2>4 DEF r
<1> QED BY <1>1, <1>2

\* What a grant writes.
LEMMA GrantWrites ==
  ASSUME BonusTypes, NEW k \in Keys, GrantBonus(k)
  PROVE  /\ bonus' \in [Keys -> [state: {"none", "on", "off"}, expires: 0..(MaxDay + 1)]]
         /\ boost' \in [Users -> Nat]
         /\ bonus'[k].state # "none"
         /\ \A j \in Keys : j # k => bonus'[j] = bonus[j]
         /\ bonus[k].state # "none" => UNCHANGED <<bonus, boost>>
         /\ bonus[k].state = "none" =>
                /\ bonus'[k].state = "on"
                /\ boost' = [boost EXCEPT ![UserOf(k)] = @ + 1]
<1>1. CASE bonus[k].state # "none"
  BY <1>1 DEF GrantBonus, BonusTypes, BonusTypeOK
<1>2. CASE bonus[k].state = "none"
  <2> DEFINE r == [state |-> "on", expires |-> bonusDay + 1]
  <2>1. bonus' = [bonus EXCEPT ![k] = r] /\ boost' = [boost EXCEPT ![UserOf(k)] = @ + 1]
    BY <1>2 DEF GrantBonus
  <2>2. r \in [state: {"none", "on", "off"}, expires: 0..(MaxDay + 1)] /\ r.state = "on"
    BY DaysAreNat DEF BonusTypes, BonusTypeOK
  <2> HIDE DEF r
  <2>3. boost' \in [Users -> Nat]
    BY <2>1, UserOfIsUser DEF BonusTypes, BonusTypeOK
  <2>4. bonus' \in [Keys -> [state: {"none", "on", "off"}, expires: 0..(MaxDay + 1)]]
    BY <2>1, <2>2 DEF BonusTypes, BonusTypeOK
  <2>5. bonus'[k] = r /\ \A j \in Keys : j # k => bonus'[j] = bonus[j]
    BY <2>1 DEF BonusTypes, BonusTypeOK
  <2> QED BY <1>2, <2>1, <2>2, <2>3, <2>4, <2>5
<1> QED BY <1>1, <1>2

\* What the end of a bonus writes.
LEMMA EndWrites ==
  ASSUME BonusTypes, NEW k \in Keys, EndBonus(k)
  PROVE  /\ bonus' \in [Keys -> [state: {"none", "on", "off"}, expires: 0..(MaxDay + 1)]]
         /\ boost' \in [Users -> Nat]
         /\ \A j \in Keys : j # k => bonus'[j] = bonus[j]
         /\ bonus[k].state # "on" => UNCHANGED <<bonus, boost>>
         /\ bonus[k].state = "on" =>
                /\ bonus'[k].state = "off"
                /\ boost' = [boost EXCEPT ![UserOf(k)] = IF @ > 0 THEN @ - 1 ELSE 0]
<1>1. CASE bonus[k].state # "on"
  BY <1>1 DEF EndBonus, BonusTypes, BonusTypeOK
<1>2. CASE bonus[k].state = "on"
  <2> DEFINE r == [bonus[k] EXCEPT !.state = "off"]
  <2>1. /\ bonus' = [bonus EXCEPT ![k] = r]
        /\ boost' = [boost EXCEPT ![UserOf(k)] = IF @ > 0 THEN @ - 1 ELSE 0]
    BY <1>2 DEF EndBonus
  <2>2. r \in [state: {"none", "on", "off"}, expires: 0..(MaxDay + 1)] /\ r.state = "off"
    BY DEF BonusTypes, BonusTypeOK
  <2> HIDE DEF r
  <2>3. boost' \in [Users -> Nat]
    BY <2>1, UserOfIsUser DEF BonusTypes, BonusTypeOK
  <2>4. bonus' \in [Keys -> [state: {"none", "on", "off"}, expires: 0..(MaxDay + 1)]]
    BY <2>1, <2>2 DEF BonusTypes, BonusTypeOK
  <2>5. bonus'[k] = r /\ \A j \in Keys : j # k => bonus'[j] = bonus[j]
    BY <2>1 DEF BonusTypes, BonusTypeOK
  <2> QED BY <1>2, <2>1, <2>2, <2>3, <2>4, <2>5
<1> QED BY <1>1, <1>2

LEMMA FaultIsCounted ==
  ASSUME BonusTypes, FaultPossible
  PROVE  /\ failures \in Nat /\ failures + 1 \in 0..MaxFaults /\ failures + 1 > 0
  BY DaysAreNat DEF FaultPossible, BonusTypes, BonusTypeOK

LEMMA InitTypes == BonusInit => BonusTypes
<1> SUFFICES ASSUME BonusInit PROVE BonusTypes
  OBVIOUS
<1>1. bonus \in [Keys -> [state: {"none", "on", "off"}, expires: 0..(MaxDay + 1)]]
  BY DaysAreNat DEF BonusInit
<1>2. /\ \A t \in Tasks : task[t].at = "idle"
      /\ \A g \in Games : game[g].at = "idle"
  BY AtRestIsIdle DEF BonusInit
<1>3. /\ boost \in [Users -> Nat] /\ log \in [Players -> SUBSET Days]
      /\ history \in [Pairs -> {"none", "processed", "failed"}]
      /\ expiry \in [Expirers -> SUBSET Keys]
  BY DEF BonusInit
<1>4. bonusDay \in Days /\ settled \subseteq Pairs /\ failures \in 0..MaxFaults
  BY DaysAreNat DEF BonusInit
<1>5. BonusTypeOK
  BY <1>1, <1>2, <1>3, <1>4 DEF BonusTypeOK, BonusInit
<1> QED BY <1>5 DEF BonusInit, BonusTypes

\* Steps of the clock and the expiry job.
LEMMA ExpiryTypes ==
  ASSUME BonusTypes, Midnight \/ \E e \in Expirers : StartExpiry(e) \/ \E k \in Keys :
             ExpireOne(e, k) \/ ExpireFails(e, k)
  PROVE  BonusTypes'
<1>1. CASE Midnight
  <2>1. bonusDay' \in Days
    BY <1>1, BonusAssumption DEF Midnight, BonusTypes, BonusTypeOK, Days
  <2> QED BY <1>1, <2>1 DEF Midnight, BonusTypes, BonusTypeOK
<1>2. ASSUME NEW e \in Expirers, StartExpiry(e) PROVE BonusTypes'
  <2>1. expiry' \in [Expirers -> SUBSET Keys]
    BY <1>2 DEF StartExpiry, DueBonuses, BonusTypes, BonusTypeOK
  <2> QED BY <1>2, <2>1 DEF StartExpiry, BonusTypes, BonusTypeOK
<1>3. ASSUME NEW e \in Expirers, NEW k \in Keys, ExpireOne(e, k) PROVE BonusTypes'
  <2>1. expiry' \in [Expirers -> SUBSET Keys]
    BY <1>3 DEF ExpireOne, BonusTypes, BonusTypeOK
  <2>2. /\ bonus' \in [Keys -> [state: {"none", "on", "off"}, expires: 0..(MaxDay + 1)]]
        /\ boost' \in [Users -> Nat]
    BY <1>3, EndWrites DEF ExpireOne
  <2> QED BY <1>3, <2>1, <2>2 DEF ExpireOne, BonusTypes, BonusTypeOK
<1>4. ASSUME NEW e \in Expirers, NEW k \in Keys, ExpireFails(e, k) PROVE BonusTypes'
  <2>1. expiry' \in [Expirers -> SUBSET Keys]
    BY <1>4 DEF ExpireFails, BonusTypes, BonusTypeOK
  <2>2. failures' \in 0..MaxFaults
    BY <1>4, FaultIsCounted DEF ExpireFails
  <2> QED BY <1>4, <2>1, <2>2 DEF ExpireFails, BonusTypes, BonusTypeOK
<1> QED BY <1>1, <1>2, <1>3, <1>4

\* Steps of a task: all but GrantReferral leave the bonuses alone.
LEMMA TaskTypes ==
  ASSUME BonusTypes, NEW t \in Tasks,
         \/ \E c \in Children, d \in Days : SettleDay(t, c, d)
         \/ \E p \in Pairs : StartBatch(t, p)
         \/ ReferralStep(t) \/ TaskFails(t) \/ LookupFails(t)
  PROVE  BonusTypes'
<1> DEFINE Moved == task' \in [Tasks -> TaskStates \cup {AtRest}]
<1>0. ASSUME Moved PROVE \A s \in Tasks : task'[s].at = "idle" \/ task'[s] \in TaskStates
  BY <1>0, AtRestIsIdle
<1>1. ASSUME NEW c \in Children, NEW d \in Days, SettleDay(t, c, d) PROVE BonusTypes'
  <2>1. NewTask(c, d, FALSE) \in TaskStates
    BY DEF NewTask, TaskStates
  <2>2. Moved
    BY <1>1, <2>1 DEF SettleDay, BonusTypes
  <2>3. settled' \subseteq Pairs
    BY <1>1 DEF SettleDay, BonusTypes, BonusTypeOK, Pairs
  <2> QED BY <1>0, <1>1, <2>2, <2>3 DEF SettleDay, BonusTypes, BonusTypeOK
<1>2. ASSUME NEW p \in Pairs, StartBatch(t, p) PROVE BonusTypes'
  <2>1. NewTask(p[1], p[2], TRUE) \in TaskStates
    BY DEF NewTask, TaskStates, Pairs
  <2>2. Moved
    BY <1>2, <2>1 DEF StartBatch, BonusTypes
  <2> QED BY <1>0, <1>2, <2>2 DEF StartBatch, BonusTypes, BonusTypeOK
<1>3. CASE FindParent(t)
  <2>1. Moved
    BY <1>3, TaskMoves DEF FindParent
  <2> QED BY <1>0, <1>3, <2>1 DEF FindParent, BonusTypes, BonusTypeOK
<1>4. CASE CheckHistory(t)
  <2>1. Moved
    BY <1>4, TaskMoves DEF CheckHistory
  <2> QED BY <1>0, <1>4, <2>1 DEF CheckHistory, BonusTypes, BonusTypeOK
<1>5. CASE GrantReferral(t)
  <2>1. Moved
    BY <1>5, TaskMoves DEF GrantReferral
  <2>2. PairOf(t) \in Pairs
    BY <1>5, PairOfIsPair DEF GrantReferral
  <2>3. ReferralKey(PairOf(t)) \in Keys
    BY <2>2, ReferralKeyIsKey
  <2>4. /\ bonus' \in [Keys -> [state: {"none", "on", "off"}, expires: 0..(MaxDay + 1)]]
        /\ boost' \in [Users -> Nat]
    BY <1>5, <2>3, GrantWrites DEF GrantReferral
  <2> QED BY <1>0, <1>5, <2>1, <2>4 DEF GrantReferral, BonusTypes, BonusTypeOK
<1>6. CASE RecordReward(t) \/ RecordFailed(t)
  <2>1. Moved
    BY <1>6, TaskMoves DEF RecordReward, RecordFailed
  <2>2. PairOf(t) \in Pairs
    BY <1>6, PairOfIsPair DEF RecordReward, RecordFailed
  <2>3. history' \in [Pairs -> {"none", "processed", "failed"}]
    BY <1>6, <2>2 DEF RecordReward, RecordFailed, WithRow, BonusTypes, BonusTypeOK
  <2> QED BY <1>0, <1>6, <2>1, <2>3 DEF RecordReward, RecordFailed, BonusTypes, BonusTypeOK
<1>7. CASE TaskFails(t)
  <2>1. Moved
    BY <1>7, TaskMoves DEF TaskFails, OnError
  <2>2. failures' \in 0..MaxFaults
    BY <1>7, FaultIsCounted DEF TaskFails
  <2> QED BY <1>0, <1>7, <2>1, <2>2 DEF TaskFails, BonusTypes, BonusTypeOK
<1>8. CASE LookupFails(t)
  <2>1. Moved
    BY <1>8, TaskMoves DEF LookupFails
  <2>2. failures' \in 0..MaxFaults
    BY <1>8, FaultIsCounted DEF LookupFails
  <2> QED BY <1>0, <1>8, <2>1, <2>2 DEF LookupFails, BonusTypes, BonusTypeOK
<1> QED BY <1>1, <1>2, <1>3, <1>4, <1>5, <1>6, <1>7, <1>8 DEF ReferralStep

LEMMA GameTypes ==
  ASSUME BonusTypes, NEW g \in Games,
         \/ \E u \in Players : StartGame(g, u)
         \/ LogGame(g) \/ CountStreak(g) \/ PayStreak(g) \/ GameFails(g)
  PROVE  BonusTypes'
<1> DEFINE Moved == game' \in [Games -> GameStates \cup {AtRest}]
<1>0. ASSUME Moved PROVE \A s \in Games : game'[s].at = "idle" \/ game'[s] \in GameStates
  BY <1>0, AtRestIsIdle
<1>1. ASSUME NEW u \in Players, StartGame(g, u) PROVE BonusTypes'
  <2> DEFINE r == [at |-> "create", user |-> u, day |-> bonusDay,
                   first |-> bonusDay \notin log[u]]
  <2>1. r \in GameStates
    BY DEF GameStates, BonusTypes, BonusTypeOK
  <2> HIDE DEF r
  <2>2. game' = [game EXCEPT ![g] = r]
    BY <1>1 DEF StartGame, r
  <2>3. Moved
    BY <2>1, <2>2 DEF BonusTypes
  <2> QED BY <1>0, <1>1, <2>3 DEF StartGame, BonusTypes, BonusTypeOK
<1>2. CASE LogGame(g)
  <2>1. Moved
    BY <1>2, GameMoves DEF LogGame
  <2>2. game[g].user \in Players /\ game[g].day \in Days
    BY <1>2, GameOfIsState DEF LogGame
  <2>3. log' \in [Players -> SUBSET Days]
    BY <1>2, <2>2 DEF LogGame, BonusTypes, BonusTypeOK
  <2> QED BY <1>0, <1>2, <2>1, <2>3 DEF LogGame, BonusTypes, BonusTypeOK
<1>3. CASE CountStreak(g)
  <2>1. Moved
    BY <1>3, GameMoves DEF CountStreak
  <2> QED BY <1>0, <1>3, <2>1 DEF CountStreak, BonusTypes, BonusTypeOK
<1>4. CASE PayStreak(g)
  <2>1. Moved
    BY <1>4, GameMoves DEF PayStreak
  <2>2. game[g].user \in Players /\ game[g].day \in Days
    BY <1>4, GameOfIsState DEF PayStreak
  <2>3. StreakKey(game[g].user, game[g].day) \in Keys
    BY <2>2, StreakKeyIsKey
  <2>4. /\ bonus' \in [Keys -> [state: {"none", "on", "off"}, expires: 0..(MaxDay + 1)]]
        /\ boost' \in [Users -> Nat]
    BY <1>4, <2>3, GrantWrites DEF PayStreak
  <2> QED BY <1>0, <1>4, <2>1, <2>4 DEF PayStreak, BonusTypes, BonusTypeOK
<1>5. CASE GameFails(g)
  <2>1. Moved
    BY <1>5, GameMoves DEF GameFails
  <2>2. failures' \in 0..MaxFaults
    BY <1>5, FaultIsCounted DEF GameFails
  <2> QED BY <1>0, <1>5, <2>1, <2>2 DEF GameFails, BonusTypes, BonusTypeOK
<1> QED BY <1>1, <1>2, <1>3, <1>4, <1>5

LEMMA NextTypes ==
  ASSUME BonusTypes, [BonusNext]_bonusVars
  PROVE  BonusTypes'
<1>1. CASE UNCHANGED bonusVars
  BY <1>1 DEF bonusVars, BonusTypes, BonusTypeOK, PairOf
<1>2. CASE BonusRestart
  <2>1. /\ task' \in [Tasks -> TaskStates \cup {AtRest}]
        /\ game' \in [Games -> GameStates \cup {AtRest}]
        /\ expiry' \in [Expirers -> SUBSET Keys]
        /\ \A t \in Tasks : task'[t].at = "idle"
        /\ \A g \in Games : game'[g].at = "idle"
    BY <1>2, AtRestIsIdle DEF BonusRestart
  <2> QED BY <1>2, <2>1 DEF BonusRestart, BonusTypes, BonusTypeOK
<1> QED BY <1>1, <1>2, ExpiryTypes, TaskTypes, GameTypes DEF BonusNext

\* The types of rows, hashpower, tasks, games and runs: hashpower is never
\* negative, and no task or game names a day or a user that is none (bonusGrants.js,
\* referralRewardService.js, gameEngagement.js).
THEOREM BonusesTyped == BonusSpec => []BonusTypeOK
<1>1. BonusTypes => BonusTypeOK
  BY DEF BonusTypes
<1> QED BY InitTypes, NextTypes, <1>1, PTL DEF BonusSpec

----------------------------------------------------------------------------
(* The hashpower counted is that of the rows that are on. *)

OnKeys(u) == {k \in Keys : UserOf(k) = u /\ bonus[k].state = "on"}

Counted ==
    \A u \in Users : IsFiniteSet(OnKeys(u)) /\ boost[u] = Cardinality(OnKeys(u))

LEMMA GrantCounts ==
  ASSUME BonusTypes, Counted, NEW k \in Keys, GrantBonus(k)
  PROVE  Counted'
<1>1. CASE bonus[k].state # "none"
  BY <1>1, GrantWrites DEF Counted, OnKeys
<1>2. CASE bonus[k].state = "none"
  <2> SUFFICES ASSUME NEW u \in Users
               PROVE  (IsFiniteSet(OnKeys(u)) /\ boost[u] = Cardinality(OnKeys(u)))'
    BY DEF Counted
  <2>1. /\ bonus'[k].state = "on" /\ \A j \in Keys : j # k => bonus'[j] = bonus[j]
        /\ boost' = [boost EXCEPT ![UserOf(k)] = @ + 1]
    BY <1>2, GrantWrites
  <2>2. IsFiniteSet(OnKeys(u)) /\ boost[u] = Cardinality(OnKeys(u)) /\ boost[u] \in Nat
    BY DEF Counted, BonusTypes, BonusTypeOK
  <2>3. CASE UserOf(k) = u
    <3>1. OnKeys(u)' = OnKeys(u) \cup {k} /\ k \notin OnKeys(u)
      BY <1>2, <2>1, <2>3 DEF OnKeys
    <3>2. boost'[u] = boost[u] + 1
      BY <2>1, <2>3 DEF BonusTypes, BonusTypeOK
    <3> QED BY <2>2, <3>1, <3>2, FS_AddElement
  <2>4. CASE UserOf(k) # u
    <3>1. OnKeys(u)' = OnKeys(u)
      BY <2>1, <2>4 DEF OnKeys
    <3>2. boost'[u] = boost[u]
      BY <2>1, <2>4 DEF BonusTypes, BonusTypeOK
    <3> QED BY <2>2, <3>1, <3>2
  <2> QED BY <2>3, <2>4
<1> QED BY <1>1, <1>2

LEMMA EndCounts ==
  ASSUME BonusTypes, Counted, NEW k \in Keys, EndBonus(k)
  PROVE  Counted'
<1>1. CASE bonus[k].state # "on"
  BY <1>1, EndWrites DEF Counted, OnKeys
<1>2. CASE bonus[k].state = "on"
  <2> SUFFICES ASSUME NEW u \in Users
               PROVE  (IsFiniteSet(OnKeys(u)) /\ boost[u] = Cardinality(OnKeys(u)))'
    BY DEF Counted
  <2>1. /\ bonus'[k].state = "off" /\ \A j \in Keys : j # k => bonus'[j] = bonus[j]
        /\ boost' = [boost EXCEPT ![UserOf(k)] = IF @ > 0 THEN @ - 1 ELSE 0]
    BY <1>2, EndWrites
  <2>2. IsFiniteSet(OnKeys(u)) /\ boost[u] = Cardinality(OnKeys(u)) /\ boost[u] \in Nat
    BY DEF Counted, BonusTypes, BonusTypeOK
  <2>3. CASE UserOf(k) = u
    <3>1. OnKeys(u)' = OnKeys(u) \ {k} /\ k \in OnKeys(u)
      BY <1>2, <2>1, <2>3 DEF OnKeys
    <3>2. Cardinality(OnKeys(u)) # 0
      BY <2>2, <3>1, FS_EmptySet
    <3>3. boost'[u] = boost[u] - 1
      BY <2>1, <2>2, <2>3, <3>2 DEF BonusTypes, BonusTypeOK
    <3> QED BY <2>2, <3>1, <3>3, FS_RemoveElement
  <2>4. CASE UserOf(k) # u
    <3>1. OnKeys(u)' = OnKeys(u)
      BY <2>1, <2>4 DEF OnKeys
    <3>2. boost'[u] = boost[u]
      BY <2>1, <2>4 DEF BonusTypes, BonusTypeOK
    <3> QED BY <2>2, <3>1, <3>2
  <2> QED BY <2>3, <2>4
<1> QED BY <1>1, <1>2

\* The only steps that write rows or hashpower.
LEMMA BonusWriters ==
  ASSUME BonusTypes, [BonusNext]_bonusVars
  PROVE  \/ UNCHANGED <<bonus, boost>>
         \/ \E e \in Expirers, k \in Keys : ExpireOne(e, k) /\ EndBonus(k)
         \/ \E t \in Tasks : /\ GrantReferral(t) /\ PairOf(t) \in Pairs
                             /\ ReferralKey(PairOf(t)) \in Keys
                             /\ GrantBonus(ReferralKey(PairOf(t)))
         \/ \E g \in Games : /\ PayStreak(g)
                             /\ game[g].user \in Players /\ game[g].day \in Days
                             /\ StreakKey(game[g].user, game[g].day) \in Keys
                             /\ GrantBonus(StreakKey(game[g].user, game[g].day))
<1>1. ASSUME NEW t \in Tasks, GrantReferral(t)
      PROVE  /\ PairOf(t) \in Pairs /\ ReferralKey(PairOf(t)) \in Keys
             /\ GrantBonus(ReferralKey(PairOf(t)))
  <2>1. PairOf(t) \in Pairs
    BY <1>1, PairOfIsPair DEF GrantReferral
  <2>2. ReferralKey(PairOf(t)) \in Keys
    BY <2>1, ReferralKeyIsKey
  <2> QED BY <1>1, <2>1, <2>2 DEF GrantReferral
<1>2. ASSUME NEW g \in Games, PayStreak(g)
      PROVE  /\ game[g].user \in Players /\ game[g].day \in Days
             /\ StreakKey(game[g].user, game[g].day) \in Keys
             /\ GrantBonus(StreakKey(game[g].user, game[g].day))
  <2>1. game[g].user \in Players /\ game[g].day \in Days
    BY <1>2, GameOfIsState DEF PayStreak
  <2>2. StreakKey(game[g].user, game[g].day) \in Keys
    BY <2>1, StreakKeyIsKey
  <2> QED BY <1>2, <2>1, <2>2 DEF PayStreak
<1>3. CASE UNCHANGED bonusVars
  BY <1>3 DEF bonusVars
<1>4. CASE Midnight \/ BonusRestart
  BY <1>4 DEF Midnight, BonusRestart
<1>5. ASSUME NEW e \in Expirers,
             StartExpiry(e) \/ \E k \in Keys : ExpireOne(e, k) \/ ExpireFails(e, k)
      PROVE  \/ UNCHANGED <<bonus, boost>>
             \/ \E k \in Keys : ExpireOne(e, k) /\ EndBonus(k)
  BY <1>5 DEF StartExpiry, ExpireOne, ExpireFails
<1>6. ASSUME NEW t \in Tasks,
             \/ \E c \in Children, d \in Days : SettleDay(t, c, d)
             \/ \E p \in Pairs : StartBatch(t, p)
             \/ ReferralStep(t) \/ TaskFails(t) \/ LookupFails(t)
      PROVE  UNCHANGED <<bonus, boost>> \/ GrantReferral(t)
  BY <1>6 DEF SettleDay, StartBatch, ReferralStep, TaskFails, LookupFails, FindParent,
              CheckHistory, RecordReward, RecordFailed
<1>7. ASSUME NEW g \in Games,
             \/ \E u \in Players : StartGame(g, u)
             \/ LogGame(g) \/ CountStreak(g) \/ PayStreak(g) \/ GameFails(g)
      PROVE  UNCHANGED <<bonus, boost>> \/ PayStreak(g)
  BY <1>7 DEF StartGame, LogGame, CountStreak, GameFails
<1> QED BY <1>1, <1>2, <1>3, <1>4, <1>5, <1>6, <1>7 DEF BonusNext

LEMMA NextCounts ==
  ASSUME BonusTypes, Counted, [BonusNext]_bonusVars
  PROVE  Counted'
<1>1. CASE UNCHANGED <<bonus, boost>>
  BY <1>1 DEF Counted, OnKeys
<1> QED BY <1>1, BonusWriters, GrantCounts, EndCounts

\* The hashpower counted for a user is that of the bonuses whose row is on,
\* whatever grants of tasks and games overlap with expiry runs, failures and
\* restarts (grantBonus and expireBonusGrants, bonusGrants.js).
THEOREM BonusesCounted == BonusSpec => []BoostIsBonusesOn
<1>1. BonusInit => Counted
  <2> SUFFICES ASSUME BonusInit, NEW u \in Users
               PROVE  IsFiniteSet(OnKeys(u)) /\ boost[u] = Cardinality(OnKeys(u))
    BY DEF Counted
  <2>1. OnKeys(u) = {}
    BY DEF BonusInit, OnKeys
  <2>2. boost[u] = 0
    BY DEF BonusInit
  <2> QED BY <2>1, <2>2, FS_EmptySet
<1>2. Counted => BoostIsBonusesOn
  BY DEF Counted, OnKeys, BoostIsBonusesOn
<1> QED BY InitTypes, NextTypes, <1>1, NextCounts, <1>2, PTL DEF BonusSpec

----------------------------------------------------------------------------
(* Referral rewards. *)

FailedWasCaught == \A p \in Pairs : history[p] = "failed" => failures > 0

\* What a task that goes on has seen or done.
TaskIsTrue(t) ==
    /\ task[t].at = "record" => bonus[ReferralKey(PairOf(t))].state # "none"
    /\ task[t].at = "fail" => failures > 0

ReferralInv ==
    /\ ReferralIsAccounted
    /\ FailedWasCaught
    /\ \A t \in Tasks : TaskIsTrue(t)

\* A bonus that was given keeps its row.
LEMMA RowsStay ==
  ASSUME BonusTypes, [BonusNext]_bonusVars, NEW k \in Keys, bonus[k].state # "none"
  PROVE  bonus'[k].state # "none"
<1>1. CASE UNCHANGED <<bonus, boost>>
  BY <1>1
<1>2. ASSUME NEW j \in Keys, GrantBonus(j) PROVE bonus'[k].state # "none"
  BY <1>2, GrantWrites
<1>3. ASSUME NEW j \in Keys, EndBonus(j) PROVE bonus'[k].state # "none"
  BY <1>3, EndWrites
<1> QED BY <1>1, <1>2, <1>3, BonusWriters

\* The day p is accounted for, in given values of the variables.
AccountedIn(b, h, f, us, re, p) ==
    \/ b[ReferralKey(p)].state # "none"
    \/ f > 0 /\ (h[p] = "failed" \/ us)
    \/ f > 1 \/ re

\* What a step may do that concerns the task t only: leave it on its day, or let
\* it go when the day is accounted for.
LEMMA TaskAccounts ==
  ASSUME BonusTypes, BonusTypes', [BonusNext]_bonusVars, ReferralInv, NEW t \in Tasks,
         \A s \in Tasks : s # t => task'[s] = task[s],
         failures' \in Nat, failures <= failures', unseen => unseen', restarted => restarted',
         \A p \in Pairs : history[p] # "none" => history'[p] = history[p],
         \A p \in Pairs : history[p] = "none" /\ history'[p] # "none" =>
             \/ history'[p] = "processed" /\ bonus[ReferralKey(p)].state # "none"
             \/ history'[p] = "failed" /\ failures > 0,
         task'[t].at = "record" => bonus'[ReferralKey(PairOf(t)')].state # "none",
         task'[t].at = "fail" => failures' > 0,
         \A p \in settled' : p \in settled \/ (task'[t].at # "idle" /\ PairOf(t)' = p),
         task[t].at # "idle" =>
             \/ task'[t].at # "idle" /\ PairOf(t)' = PairOf(t)
             \/ AccountedIn(bonus', history', failures', unseen', restarted', PairOf(t))
  PROVE  ReferralInv'
<1>1. \A p \in Pairs : bonus[ReferralKey(p)].state # "none" =>
                           bonus'[ReferralKey(p)].state # "none"
  BY RowsStay, ReferralKeyIsKey
<1>2. failures \in Nat /\ settled' \subseteq Pairs
      /\ \A p \in Pairs : history[p] \in {"none", "processed", "failed"}
  BY DaysAreNat DEF BonusTypes, BonusTypeOK
<1>3. ProcessedIsGranted'
  BY <1>1 DEF ProcessedIsGranted, ReferralInv, ReferralIsAccounted
<1>4. FailedWasCaught'
  BY <1>2 DEF FailedWasCaught, ReferralInv
<1>5. ASSUME NEW s \in Tasks
      PROVE  /\ task'[s].at = "record" => bonus'[ReferralKey(PairOf(s)')].state # "none"
             /\ task'[s].at = "fail" => failures' > 0
  <2>1. CASE s = t
    BY <2>1
  <2>2. CASE s # t
    <3>1. task'[s] = task[s] /\ PairOf(s)' = PairOf(s)
      BY <2>2 DEF PairOf
    <3>2. TaskIsTrue(s)
      BY DEF ReferralInv
    <3>3. task[s].at # "idle" => PairOf(s) \in Pairs
      BY PairOfIsPair
    <3>4. task'[s].at = "record" => bonus'[ReferralKey(PairOf(s))].state # "none"
      BY <1>1, <3>1, <3>2, <3>3 DEF TaskIsTrue
    <3> QED BY <1>2, <3>1, <3>2, <3>4 DEF TaskIsTrue
  <2> QED BY <2>1, <2>2
<1>6. ASSUME NEW p \in settled', \A s \in Tasks : task'[s].at # "idle" => PairOf(s)' # p
      PROVE  AccountedIn(bonus', history', failures', unseen', restarted', p)
  <2>1. p \in settled /\ p \in Pairs
    BY <1>2, <1>6
  <2>2. CASE task[t].at # "idle" /\ PairOf(t) = p
    BY <1>6, <2>2
  <2>3. CASE ~(task[t].at # "idle" /\ PairOf(t) = p)
    <3>1. \A s \in Tasks : task[s].at # "idle" => PairOf(s) # p
      <4> SUFFICES ASSUME NEW s \in Tasks, s # t, task[s].at # "idle", PairOf(s) = p
                   PROVE  FALSE
        BY <2>3
      <4>1. task'[s] = task[s] /\ PairOf(s)' = PairOf(s)
        BY DEF PairOf
      <4> QED BY <1>6, <4>1
    <3>2. AccountedIn(bonus, history, failures, unseen, restarted, p)
      BY <2>1, <3>1 DEF ReferralInv, ReferralIsAccounted, RewardOrAudit, AccountedIn
    <3> QED BY <1>1, <1>2, <2>1, <3>2 DEF AccountedIn
  <2> QED BY <2>2, <2>3
<1>7. RewardOrAudit'
  BY <1>6 DEF RewardOrAudit, AccountedIn
<1>8. \A s \in Tasks : TaskIsTrue(s)'
  BY <1>5 DEF TaskIsTrue
<1> QED BY <1>3, <1>4, <1>7, <1>8 DEF ReferralInv, ReferralIsAccounted

LEMMA TaskGoesOn ==
  ASSUME BonusTypes, NEW t \in Tasks, task[t].at # "idle",
         NEW at \in {"idle", "parent", "check", "recheck", "grant", "record", "fail"},
         TaskGoes(t, at)
  PROVE  /\ \A s \in Tasks : s # t => task'[s] = task[s]
         /\ task'[t].at = at /\ PairOf(t)' = PairOf(t)
<1> DEFINE r == [task[t] EXCEPT !.at = at]
<1>1. task[t] \in TaskStates
  BY PairOfIsPair
<1>2. r.at = at /\ r.child = task[t].child /\ r.day = task[t].day
  BY <1>1 DEF TaskStates
<1>3. task' = [task EXCEPT ![t] = r]
  BY DEF TaskGoes
<1> HIDE DEF r
<1>4. task'[t] = r /\ \A s \in Tasks : s # t => task'[s] = task[s]
  BY <1>3 DEF BonusTypes
<1> QED BY <1>2, <1>4 DEF PairOf

LEMMA TaskEnded ==
  ASSUME BonusTypes, NEW t \in Tasks, TaskEnds(t)
  PROVE  task'[t].at = "idle" /\ \A s \in Tasks : s # t => task'[s] = task[s]
  BY AtRestIsIdle DEF TaskEnds, BonusTypes

LEMMA ReferralSteps ==
  ASSUME BonusTypes, BonusTypes', [BonusNext]_bonusVars, ReferralInv, NEW t \in Tasks,
         \/ \E c \in Children, d \in Days : SettleDay(t, c, d)
         \/ \E p \in Pairs : StartBatch(t, p)
         \/ ReferralStep(t) \/ TaskFails(t) \/ LookupFails(t)
  PROVE  ReferralInv'
<1>1. failures \in Nat /\ failures' \in Nat
  BY DaysAreNat DEF BonusTypes, BonusTypeOK
<1>2. TaskIsTrue(t) /\ (task[t].at # "idle" => PairOf(t) \in Pairs)
  BY PairOfIsPair DEF ReferralInv
<1>3. ASSUME NEW d, task[t].at = "idle", NEW r, r = NewTask(d[1], d[2], TRUE)
                                          \/ r = NewTask(d[1], d[2], FALSE),
             d = <<d[1], d[2]>>,
             task' = [task EXCEPT ![t] = r], settled' \subseteq settled \cup {d},
             UNCHANGED <<history, failures, unseen, restarted>>
      PROVE  ReferralInv'
  <2>1. r.at = "parent" /\ r.child = d[1] /\ r.day = d[2]
    BY <1>3 DEF NewTask
  <2>2. task'[t] = r /\ \A s \in Tasks : s # t => task'[s] = task[s]
    BY <1>3 DEF BonusTypes
  <2>3. PairOf(t)' = d
    BY <1>3, <2>1, <2>2 DEF PairOf
  <2>4. task'[t].at = "parent"
    BY <2>1, <2>2
  <2> HIDE DEF PairOf
  <2> QED BY <1>1, <1>3, <2>2, <2>3, <2>4, TaskAccounts
<1>4. ASSUME NEW c \in Children, NEW d \in Days, SettleDay(t, c, d) PROVE ReferralInv'
  <2> DEFINE p == <<c, d>>
  <2>1. p[1] = c /\ p[2] = d /\ p = <<p[1], p[2]>>
    OBVIOUS
  <2>2. /\ task' = [task EXCEPT ![t] = NewTask(p[1], p[2], FALSE)]
        /\ settled' = settled \cup {p} /\ task[t].at = "idle"
        /\ UNCHANGED <<history, failures, unseen, restarted>>
    BY <1>4 DEF SettleDay
  <2> HIDE DEF p
  <2> DEFINE r == NewTask(p[1], p[2], FALSE)
  <2> HIDE DEF r
  <2>3. task' = [task EXCEPT ![t] = r] /\ settled' \subseteq settled \cup {p}
    BY <2>2 DEF r
  <2>4. r = NewTask(p[1], p[2], TRUE) \/ r = NewTask(p[1], p[2], FALSE)
    BY DEF r
  <2> QED BY <1>3, <2>1, <2>2, <2>3, <2>4
<1>5. ASSUME NEW p \in Pairs, StartBatch(t, p) PROVE ReferralInv'
  <2>1. p = <<p[1], p[2]>>
    BY DEF Pairs
  <2>2. /\ task' = [task EXCEPT ![t] = NewTask(p[1], p[2], TRUE)]
        /\ settled' = settled /\ task[t].at = "idle"
        /\ UNCHANGED <<history, failures, unseen, restarted>>
    BY <1>5 DEF StartBatch
  <2> DEFINE r == NewTask(p[1], p[2], TRUE)
  <2> HIDE DEF r
  <2>3. task' = [task EXCEPT ![t] = r] /\ settled' \subseteq settled \cup {p}
    BY <2>2 DEF r
  <2>4. r = NewTask(p[1], p[2], TRUE) \/ r = NewTask(p[1], p[2], FALSE)
    BY DEF r
  <2> QED BY <1>3, <2>1, <2>2, <2>3, <2>4
<1>6. CASE FindParent(t)
  <2>1. /\ \A s \in Tasks : s # t => task'[s] = task[s]
        /\ task'[t].at = "check" /\ PairOf(t)' = PairOf(t)
    BY <1>6, TaskGoesOn DEF FindParent
  <2>2. UNCHANGED <<settled, bonus, history, failures, unseen, restarted>>
    BY <1>6 DEF FindParent
  <2> QED BY <1>1, <2>1, <2>2, TaskAccounts
<1>7. CASE CheckHistory(t)
  <2>1. UNCHANGED <<settled, bonus, history, failures, unseen, restarted>>
    BY <1>7 DEF CheckHistory
  <2>2. task[t].at # "idle" /\ PairOf(t) \in Pairs
    BY <1>2, <1>7 DEF CheckHistory
  <2>3. CASE history[PairOf(t)] # "none"
    <3>1. task'[t].at = "idle" /\ \A s \in Tasks : s # t => task'[s] = task[s]
      BY <1>7, <2>3, TaskEnded DEF CheckHistory
    <3>2. history[PairOf(t)] \in {"processed", "failed"}
      BY <2>2, <2>3 DEF BonusTypes, BonusTypeOK
    <3>3. AccountedIn(bonus, history, failures, unseen, restarted, PairOf(t))
      BY <2>2, <3>2 DEF AccountedIn, ReferralInv, ReferralIsAccounted, ProcessedIsGranted,
                        FailedWasCaught
    <3>4. AccountedIn(bonus', history', failures', unseen', restarted', PairOf(t))
      BY <2>1, <3>3
    <3> QED BY <1>1, <2>1, <3>1, <3>4, TaskAccounts
  <2>4. CASE history[PairOf(t)] = "none"
    <3>1. PICK at \in {"recheck", "grant"} : TaskGoes(t, at)
      BY <1>7, <2>4 DEF CheckHistory
    <3>2. /\ \A s \in Tasks : s # t => task'[s] = task[s]
          /\ task'[t].at = at /\ PairOf(t)' = PairOf(t)
      BY <2>2, <3>1, TaskGoesOn
    <3> QED BY <1>1, <2>1, <3>2, TaskAccounts
  <2> QED BY <2>3, <2>4
<1>8. CASE GrantReferral(t)
  <2>1. /\ \A s \in Tasks : s # t => task'[s] = task[s]
        /\ task'[t].at = "record" /\ PairOf(t)' = PairOf(t)
    BY <1>8, TaskGoesOn DEF GrantReferral
  <2>2. UNCHANGED <<settled, history, failures, unseen, restarted>>
    BY <1>8 DEF GrantReferral
  <2>3. PairOf(t) \in Pairs
    BY <1>2, <1>8 DEF GrantReferral
  <2>4. bonus'[ReferralKey(PairOf(t))].state # "none"
    BY <1>8, <2>3, ReferralKeyIsKey, GrantWrites DEF GrantReferral
  <2>5. bonus'[ReferralKey(PairOf(t)')].state # "none"
    BY <2>1, <2>4
  <2> QED BY <1>1, <2>1, <2>2, <2>5, TaskAccounts
<1>9. CASE RecordReward(t) \/ RecordFailed(t)
  <2>1. UNCHANGED <<settled, bonus, failures, unseen, restarted>> /\ TaskEnds(t)
    BY <1>9 DEF RecordReward, RecordFailed
  <2>2. task'[t].at = "idle" /\ \A s \in Tasks : s # t => task'[s] = task[s]
    BY <2>1, TaskEnded
  <2>3. PairOf(t) \in Pairs /\ task[t].at \in {"record", "fail"}
    BY <1>2, <1>9 DEF RecordReward, RecordFailed
  <2>4. \/ task[t].at = "record" /\ history' = WithRow(PairOf(t), "processed")
        \/ task[t].at = "fail" /\ history' = WithRow(PairOf(t), "failed")
    BY <1>9 DEF RecordReward, RecordFailed
  <2>5. \A p \in Pairs : history[p] # "none" => history'[p] = history[p]
    BY <2>3, <2>4 DEF WithRow, BonusTypes, BonusTypeOK
  <2>6. \A p \in Pairs : history[p] = "none" /\ history'[p] # "none" =>
            \/ history'[p] = "processed" /\ bonus[ReferralKey(p)].state # "none"
            \/ history'[p] = "failed" /\ failures > 0
    BY <1>2, <2>3, <2>4 DEF WithRow, TaskIsTrue, BonusTypes, BonusTypeOK
  <2>7. history'[PairOf(t)] # "none"
    BY <2>3, <2>4 DEF WithRow, BonusTypes, BonusTypeOK
  <2>8. history'[PairOf(t)] = "processed" => bonus[ReferralKey(PairOf(t))].state # "none"
    BY <2>3, <2>5, <2>6 DEF ReferralInv, ReferralIsAccounted, ProcessedIsGranted
  <2>9. history'[PairOf(t)] = "failed" => failures > 0
    BY <2>3, <2>5, <2>6 DEF ReferralInv, FailedWasCaught
  <2>10. history'[PairOf(t)] \in {"processed", "failed"}
    BY <2>3, <2>7 DEF BonusTypes, BonusTypeOK
  <2>11. AccountedIn(bonus', history', failures', unseen', restarted', PairOf(t))
    BY <2>1, <2>8, <2>9, <2>10 DEF AccountedIn
  <2> QED BY <1>1, <2>1, <2>2, <2>5, <2>6, <2>11, TaskAccounts
<1>10. CASE TaskFails(t)
  <2>1. UNCHANGED <<settled, bonus, history, unseen, restarted>> /\ failures' = failures + 1
    BY <1>10 DEF TaskFails
  <2>2. CASE task[t].at = "fail"
    <3>1. task'[t].at = "idle" /\ \A s \in Tasks : s # t => task'[s] = task[s]
      BY <1>10, <2>2, TaskEnded DEF TaskFails
    <3>2. failures' > 1
      BY <1>1, <1>2, <2>1, <2>2 DEF TaskIsTrue
    <3>3. AccountedIn(bonus', history', failures', unseen', restarted', PairOf(t))
      BY <3>2 DEF AccountedIn
    <3> QED BY <1>1, <2>1, <3>1, <3>3, TaskAccounts
  <2>3. CASE task[t].at # "fail"
    <3>1. /\ \A s \in Tasks : s # t => task'[s] = task[s]
          /\ task'[t].at = "fail" /\ PairOf(t)' = PairOf(t)
      BY <1>10, <2>3, TaskGoesOn DEF TaskFails, OnError
    <3>2. failures' > 0
      BY <1>1, <2>1
    <3> QED BY <1>1, <2>1, <3>1, <3>2, TaskAccounts
  <2> QED BY <2>2, <2>3
<1>11. CASE LookupFails(t)
  <2>1. /\ UNCHANGED <<settled, bonus, history, restarted>>
        /\ unseen' = TRUE /\ failures' = failures + 1
    BY <1>11 DEF LookupFails
  <2>2. task'[t].at = "idle" /\ \A s \in Tasks : s # t => task'[s] = task[s]
    BY <1>11, TaskEnded DEF LookupFails
  <2>3. failures' > 0
    BY <1>1, <2>1
  <2>4. AccountedIn(bonus', history', failures', unseen', restarted', PairOf(t))
    BY <2>1, <2>3 DEF AccountedIn
  <2>5. (unseen => unseen') /\ failures <= failures'
    BY <1>1, <2>1
  <2>6. \A p \in settled' : p \in settled
    BY <2>1
  <2>7. \A p \in Pairs : history'[p] = history[p]
    BY <2>1
  <2>8. restarted' = restarted
    BY <2>1
  <2> QED BY <1>1, <2>2, <2>4, <2>5, <2>6, <2>7, <2>8, TaskAccounts
<1> QED BY <1>4, <1>5, <1>6, <1>7, <1>8, <1>9, <1>10, <1>11 DEF ReferralStep

\* Steps of others: rows are not taken back and faults are counted.
LEMMA OthersAccount ==
  ASSUME BonusTypes, BonusTypes', [BonusNext]_bonusVars, ReferralInv,
         UNCHANGED <<settled, history, unseen>>,
         failures <= failures', restarted => restarted',
         task' = task \/ (restarted' /\ \A t \in Tasks : task'[t].at = "idle")
  PROVE  ReferralInv'
<1>1. failures \in Nat /\ failures' \in Nat /\ settled \subseteq Pairs
  BY DaysAreNat DEF BonusTypes, BonusTypeOK
<1>2. \A p \in Pairs : bonus[ReferralKey(p)].state # "none" =>
                           bonus'[ReferralKey(p)].state # "none"
  BY RowsStay, ReferralKeyIsKey
<1>3. ProcessedIsGranted'
  BY <1>2 DEF ProcessedIsGranted, ReferralInv, ReferralIsAccounted
<1>4. FailedWasCaught'
  BY <1>1 DEF FailedWasCaught, ReferralInv
<1>5. CASE task' = task
  <2>1. \A t \in Tasks : PairOf(t)' = PairOf(t)
    BY <1>5 DEF PairOf
  <2>2. ASSUME NEW p \in settled, \A s \in Tasks : task[s].at # "idle" => PairOf(s) # p
        PROVE  AccountedIn(bonus', history', failures', unseen', restarted', p)
    <3>1. AccountedIn(bonus, history, failures, unseen, restarted, p)
      BY <2>2 DEF ReferralInv, ReferralIsAccounted, RewardOrAudit, AccountedIn
    <3> QED BY <1>1, <1>2, <3>1 DEF AccountedIn
  <2>3. RewardOrAudit'
    BY <1>5, <2>1, <2>2 DEF RewardOrAudit, AccountedIn
  <2>4. ASSUME NEW t \in Tasks
        PROVE  /\ task[t].at = "record" => bonus'[ReferralKey(PairOf(t))].state # "none"
               /\ task[t].at = "fail" => failures' > 0
    <3>1. TaskIsTrue(t) /\ (task[t].at # "idle" => PairOf(t) \in Pairs)
      BY PairOfIsPair DEF ReferralInv
    <3> QED BY <1>1, <1>2, <3>1 DEF TaskIsTrue
  <2>5. \A t \in Tasks : TaskIsTrue(t)'
    BY <1>5, <2>1, <2>4 DEF TaskIsTrue
  <2> QED BY <1>3, <1>4, <2>3, <2>5 DEF ReferralInv, ReferralIsAccounted
<1>6. CASE restarted' /\ \A t \in Tasks : task'[t].at = "idle"
  <2>1. RewardOrAudit' /\ \A t \in Tasks : TaskIsTrue(t)'
    BY <1>6 DEF RewardOrAudit, TaskIsTrue
  <2> QED BY <1>3, <1>4, <2>1 DEF ReferralInv, ReferralIsAccounted
<1> QED BY <1>5, <1>6

LEMMA NextAccounts ==
  ASSUME BonusTypes, BonusTypes', [BonusNext]_bonusVars, ReferralInv
  PROVE  ReferralInv'
<1>1. failures \in Nat /\ failures <= failures /\ failures <= failures + 1
  BY DaysAreNat DEF BonusTypes, BonusTypeOK
<1>2. CASE UNCHANGED bonusVars
  BY <1>1, <1>2, OthersAccount DEF bonusVars
<1>3. CASE Midnight
  BY <1>1, <1>3, OthersAccount DEF Midnight
<1>4. CASE BonusRestart
  <2>1. \A t \in Tasks : task'[t].at = "idle"
    BY <1>4, AtRestIsIdle DEF BonusRestart
  <2> QED BY <1>1, <1>4, <2>1, OthersAccount DEF BonusRestart
<1>5. ASSUME NEW e \in Expirers,
             StartExpiry(e) \/ \E k \in Keys : ExpireOne(e, k) \/ ExpireFails(e, k)
      PROVE  ReferralInv'
  <2>1. UNCHANGED <<settled, history, task, unseen, restarted>>
    BY <1>5 DEF StartExpiry, ExpireOne, ExpireFails
  <2>2. failures' = failures \/ failures' = failures + 1
    BY <1>5 DEF StartExpiry, ExpireOne, ExpireFails
  <2> QED BY <1>1, <2>1, <2>2, OthersAccount
<1>6. ASSUME NEW g \in Games,
             \/ \E u \in Players : StartGame(g, u)
             \/ LogGame(g) \/ CountStreak(g) \/ PayStreak(g) \/ GameFails(g)
      PROVE  ReferralInv'
  <2>1. UNCHANGED <<settled, history, task, unseen, restarted>>
    BY <1>6 DEF StartGame, LogGame, CountStreak, PayStreak, GameFails
  <2>2. failures' = failures \/ failures' = failures + 1
    BY <1>6 DEF StartGame, LogGame, CountStreak, PayStreak, GameFails
  <2> QED BY <1>1, <2>1, <2>2, OthersAccount
<1> QED BY <1>2, <1>3, <1>4, <1>5, <1>6, ReferralSteps DEF BonusNext

\* A referral reward is not recorded without being given, and a settled day ends
\* with its reward or, after a failure, with an audit row, unless a restart, a
\* second failure or a parent that could not be read came between
\* (processReferralRewardForChild and grantReferralReward).
THEOREM ReferralsAccounted == BonusSpec => []ReferralIsAccounted
<1>1. BonusInit => ReferralInv
  <2> SUFFICES ASSUME BonusInit PROVE ReferralInv
    OBVIOUS
  <2>1. \A t \in Tasks : task[t].at = "idle"
    BY AtRestIsIdle DEF BonusInit
  <2>2. \A p \in Pairs : history[p] = "none"
    BY DEF BonusInit
  <2>3. ProcessedIsGranted /\ FailedWasCaught
    BY <2>2 DEF ProcessedIsGranted, FailedWasCaught
  <2>4. RewardOrAudit
    BY DEF BonusInit, RewardOrAudit
  <2>5. \A t \in Tasks : TaskIsTrue(t)
    BY <2>1 DEF TaskIsTrue
  <2> QED BY <2>3, <2>4, <2>5 DEF ReferralInv, ReferralIsAccounted
<1>2. ReferralInv => ReferralIsAccounted
  BY DEF ReferralInv
<1> QED BY InitTypes, NextTypes, <1>1, NextAccounts, <1>2, PTL DEF BonusSpec

----------------------------------------------------------------------------
(* Streaks. *)

\* The streak that ends on day d has n days.
StreakOf(L, d, n) == (d - n + 1)..d \subseteq L /\ (d - n) \notin L

EarnedOn(L, d) == \E n \in 1..d : CycleDay(n) \in BonusDays /\ StreakOf(L, d, n)

\* A day that was played ends one streak.
LEMMA StreakExists ==
  ASSUME NEW L \in SUBSET Days, NEW d \in L
  PROVE  \E n \in 1..d : StreakOf(L, d, n)
<1>1. d \in Nat /\ d \in Int /\ 1 <= d
  BY DaysAreNat
<1> DEFINE S == {n \in 1..d : (d - n) \notin L}
<1>2. S \in SUBSET Nat
  OBVIOUS
<1>3. d \in S
  <2>1. 0 \notin L
    BY DaysAreNat
  <2>2. d - d = 0
    BY <1>1
  <2> QED BY <1>1, <2>1, <2>2
<1>4. PICK n \in S : \A m \in S : n <= m
  BY <1>2, <1>3, SmallestNat
<1>5. n \in Nat /\ n \in 1..d /\ (d - n) \notin L
  OBVIOUS
<1> HIDE DEF S
<1>6. ASSUME NEW x \in (d - n + 1)..d PROVE x \in L
  <2>1. CASE x = d
    BY <2>1
  <2>2. CASE x # d
    <3>1. d - x \in 1..d /\ d - x < n /\ d - (d - x) = x
      BY <1>1, <1>5, <2>2
    <3>2. d - x \notin S
      BY <1>1, <1>4, <1>5, <3>1 DEF S
    <3> QED BY <3>1, <3>2 DEF S
  <2> QED BY <2>1, <2>2
<1> QED BY <1>5, <1>6 DEF StreakOf

LEMMA StreakIsOne ==
  ASSUME NEW L \in SUBSET Days, NEW d \in Days, NEW n \in 1..d, NEW m \in 1..d,
         StreakOf(L, d, n), StreakOf(L, d, m)
  PROVE  n = m
<1>1. d \in Int /\ n \in Int /\ m \in Int
  BY DaysAreNat
<1>2. ASSUME NEW a \in 1..d, NEW b \in 1..d, a < b, StreakOf(L, d, a), StreakOf(L, d, b)
      PROVE  FALSE
  <2>1. d - a \in (d - b + 1)..d
    BY <1>1, <1>2
  <2> QED BY <1>2, <2>1 DEF StreakOf
<1> QED BY <1>1, <1>2

\* What streakFromDays counts is that streak.
LEMMA StreakIsCounted ==
  ASSUME NEW L \in SUBSET Days, NEW d \in L, NEW n \in 1..d, StreakOf(L, d, n)
  PROVE  StreakFromDays(L, d) = n
<1>1. d \in Int /\ n \in Int /\ d \in Nat
  BY DaysAreNat
<1> DEFINE S == {k \in 1..d : (d - k + 1)..d \subseteq L}
<1>2. StreakFromDays(L, d) = Cardinality(S)
  BY DEF StreakFromDays
<1>3. ASSUME NEW k \in 1..n PROVE k \in S
  <2>1. (d - k + 1)..d \subseteq (d - n + 1)..d /\ k \in 1..d
    BY <1>1
  <2> QED BY <2>1 DEF StreakOf
<1>4. ASSUME NEW k \in S PROVE k \in 1..n
  <2>1. k \in 1..d /\ (d - k + 1)..d \subseteq L
    OBVIOUS
  <2>2. CASE k <= n
    BY <1>1, <2>1, <2>2
  <2>3. CASE ~(k <= n)
    <3>1. d - n \in (d - k + 1)..d
      BY <1>1, <2>1, <2>3
    <3> QED BY <2>1, <3>1 DEF StreakOf
  <2> QED BY <2>2, <2>3
<1>5. S = 1..n
  BY <1>3, <1>4
<1>6. Cardinality(1..n) = n
  BY <1>1, FS_Interval
<1> HIDE DEF S
<1> QED BY <1>2, <1>5, <1>6

\* A bonus day was reached when the count says so: the window holds the streak.
LEMMA CountIsEarned ==
  ASSUME MaxDay <= Window, BonusTypes, NEW u \in Players, NEW d \in log[u]
  PROVE  CycleDay(GameStreak(u, d)) \in BonusDays <=> EarnedOn(log[u], d)
<1> DEFINE L == log[u]
           P == {x \in L : d - Window <= x /\ x <= d}
<1>1. L \in SUBSET Days
  BY DEF BonusTypes, BonusTypeOK
<1>2. d \in Days /\ d \in Int /\ d <= MaxDay /\ Window \in Int
  BY <1>1, DaysAreNat, BonusAssumption
<1>3. ASSUME NEW x \in L PROVE x \in Int /\ 1 <= x /\ d - Window <= x
  <2>1. x \in Int /\ 1 <= x /\ MaxDay \in Int
    BY <1>1, DaysAreNat
  <2> QED BY <1>2, <2>1
<1>4. P \in SUBSET Days /\ d \in P
  BY <1>1, <1>2, <1>3
<1>5. PICK n \in 1..d : StreakOf(P, d, n)
  BY <1>4, StreakExists
<1>6. StreakFromDays(P, d) = n
  BY <1>4, <1>5, StreakIsCounted
<1>7. GameStreak(u, d) = n
  BY <1>6 DEF GameStreak
<1>8. StreakOf(L, d, n)
  <2>1. (d - n) <= d
    BY <1>2
  <2> QED BY <1>3, <1>5, <2>1 DEF StreakOf
<1>9. EarnedOn(L, d) => CycleDay(n) \in BonusDays
  BY <1>1, <1>2, <1>8, StreakIsOne DEF EarnedOn
<1>10. CycleDay(n) \in BonusDays => EarnedOn(L, d)
  BY <1>8 DEF EarnedOn
<1> QED BY <1>7, <1>9, <1>10

\* A later day that is played changes nothing.
LEMMA LaterDay ==
  ASSUME NEW L, NEW d \in Days, NEW e \in Int, d < e
  PROVE  EarnedOn(L \cup {e}, d) <=> EarnedOn(L, d)
<1>1. d \in Int
  BY DaysAreNat
<1>2. ASSUME NEW n \in 1..d
      PROVE  StreakOf(L \cup {e}, d, n) <=> StreakOf(L, d, n)
  <2>1. e \notin (d - n + 1)..d /\ d - n # e
    BY <1>1
  <2> QED BY <2>1 DEF StreakOf
<1> QED BY <1>2 DEF EarnedOn

Paid(u, d) == bonus[StreakKey(u, d)].state # "none"

LogsArePast == \A u \in Players : \A d \in log[u] : d <= bonusDay

PaidWasEarned ==
    \A u \in Players, d \in Days : Paid(u, d) => d <= bonusDay /\ EarnedOn(log[u], d)

\* What a game reward that is being recorded has seen, l being the user's logs.
GameIsTrue(s, l, today) ==
    s.at # "idle" =>
        /\ s.day = today
        /\ s.at = "create" /\ ~s.first => s.day \in l
        /\ s.at \in {"streak", "grant"} => s.day \in l
        /\ s.at = "grant" => EarnedOn(l, s.day)

GamesAreTrue == \A g \in Games : GameIsTrue(game[g], log[game[g].user], bonusDay)

\* The reward that counts and pays the day d of u is under way.
UnderWay(u, d) ==
    \E g \in Games : game[g].at \in {"streak", "grant"} /\ game[g].user = u /\ game[g].day = d

EarnedIsPaid ==
    \A u \in Players, d \in Days :
        EarnedOn(log[u], d) => Paid(u, d) \/ failures > 0 \/ restarted \/ UnderWay(u, d)

StreakInv ==
    /\ LogsArePast
    /\ PaidWasEarned
    /\ GamesAreTrue
    /\ EarnedIsPaid

\* Steps that leave the logs and the games alone: streak bonuses keep their rows
\* and get no new ones.
LEMMA StreaksUntouched ==
  ASSUME StreakInv, UNCHANGED <<log, game, bonusDay>>,
         BonusTypes, failures' \in Nat, failures <= failures', restarted => restarted',
         \A u \in Players, d \in Days : Paid(u, d)' <=> Paid(u, d)
  PROVE  StreakInv'
<1>1. failures \in Nat
  BY DaysAreNat DEF BonusTypes, BonusTypeOK
<1>2. LogsArePast' /\ GamesAreTrue'
  BY DEF StreakInv, LogsArePast, GamesAreTrue
<1>3. PaidWasEarned'
  BY DEF StreakInv, PaidWasEarned
<1>4. EarnedIsPaid'
  BY <1>1 DEF StreakInv, EarnedIsPaid, UnderWay
<1> QED BY <1>2, <1>3, <1>4 DEF StreakInv

LEMMA FaultsOnlyGrow ==
  ASSUME BonusTypes, [BonusNext]_bonusVars
  PROVE  failures <= failures' /\ (restarted => restarted')
<1>1. failures \in Nat
  BY DaysAreNat DEF BonusTypes, BonusTypeOK
<1> DEFINE Grows == /\ failures' = failures \/ failures' = failures + 1
                    /\ restarted' = restarted \/ restarted'
<1>2. CASE UNCHANGED bonusVars \/ Midnight \/ BonusRestart
  <2>1. Grows
    BY <1>2 DEF bonusVars, Midnight, BonusRestart
  <2> QED BY <1>1, <2>1
<1>3. ASSUME NEW e \in Expirers,
             StartExpiry(e) \/ \E k \in Keys : ExpireOne(e, k) \/ ExpireFails(e, k)
      PROVE  Grows
  BY <1>3 DEF StartExpiry, ExpireOne, ExpireFails
<1>4. ASSUME NEW t \in Tasks,
             \/ \E c \in Children, d \in Days : SettleDay(t, c, d)
             \/ \E p \in Pairs : StartBatch(t, p)
             \/ ReferralStep(t) \/ TaskFails(t) \/ LookupFails(t)
      PROVE  Grows
  BY <1>4 DEF SettleDay, StartBatch, ReferralStep, FindParent, CheckHistory, GrantReferral,
              RecordReward, RecordFailed, TaskFails, LookupFails
<1>5. ASSUME NEW g \in Games,
             \/ \E u \in Players : StartGame(g, u)
             \/ LogGame(g) \/ CountStreak(g) \/ PayStreak(g) \/ GameFails(g)
      PROVE  Grows
  BY <1>5 DEF StartGame, LogGame, CountStreak, PayStreak, GameFails
<1>6. Grows => failures <= failures' /\ (restarted => restarted')
  BY <1>1
<1> HIDE DEF Grows
<1> QED BY <1>2, <1>3, <1>4, <1>5, <1>6 DEF BonusNext

LEMMA StreaksOfOthers ==
  ASSUME BonusTypes, BonusTypes', [BonusNext]_bonusVars, StreakInv,
         UNCHANGED <<log, game, bonusDay>>
  PROVE  StreakInv'
<1>1. failures \in Nat /\ failures' \in Nat
  BY DaysAreNat DEF BonusTypes, BonusTypeOK
<1>2. failures <= failures' /\ (restarted => restarted')
  BY FaultsOnlyGrow
<1>3. \A g \in Games : ~PayStreak(g)
  <2> SUFFICES ASSUME NEW g \in Games, PayStreak(g) PROVE FALSE
    OBVIOUS
  <2>1. game'[g].at = "idle" /\ game[g].at = "grant"
    BY AtRestIsIdle DEF PayStreak, GameEnds, BonusTypes
  <2> QED BY <2>1
<1>4. ASSUME NEW u \in Players, NEW d \in Days
      PROVE  Paid(u, d)' <=> Paid(u, d)
  <2>1. StreakKey(u, d) \in Keys
    BY StreakKeyIsKey
  <2>2. CASE UNCHANGED <<bonus, boost>>
    BY <2>2 DEF Paid
  <2>3. ASSUME NEW e \in Expirers, NEW k \in Keys, EndBonus(k)
        PROVE  Paid(u, d)' <=> Paid(u, d)
    BY <2>1, <2>3, EndWrites DEF Paid
  <2>4. ASSUME NEW p \in Pairs, ReferralKey(p) \in Keys, GrantBonus(ReferralKey(p))
        PROVE  Paid(u, d)' <=> Paid(u, d)
    <3>1. ReferralKey(p) # StreakKey(u, d)
      BY KeysDiffer
    <3>2. bonus'[StreakKey(u, d)] = bonus[StreakKey(u, d)]
      BY <2>1, <2>4, <3>1, GrantWrites
    <3> QED BY <3>2 DEF Paid
  <2> QED BY <1>3, <2>2, <2>3, <2>4, BonusWriters
<1> QED BY <1>1, <1>2, <1>4, StreaksUntouched

\* A step of one game reward that logs nothing.
LEMMA GameKeeps ==
  ASSUME BonusTypes, StreakInv, NEW g \in Games,
         \A h \in Games : h # g => game'[h] = game[h],
         UNCHANGED <<bonusDay, log>>,
         failures' \in Nat, failures <= failures', restarted => restarted',
         GameIsTrue(game'[g], log[game'[g].user], bonusDay),
         \A u \in Players, d \in Days : Paid(u, d) => Paid(u, d)',
         \A u \in Players, d \in Days :
             Paid(u, d)' => Paid(u, d) \/ (d <= bonusDay /\ EarnedOn(log[u], d)),
         \A u \in Players, d \in Days :
             game[g].at \in {"streak", "grant"} /\ game[g].user = u /\ game[g].day = d
                 /\ EarnedOn(log[u], d) =>
                 \/ Paid(u, d)' \/ failures' > 0
                 \/ /\ game'[g].at \in {"streak", "grant"}
                    /\ game'[g].user = u /\ game'[g].day = d
  PROVE  StreakInv'
<1>1. failures \in Nat
  BY DaysAreNat DEF BonusTypes, BonusTypeOK
<1>2. LogsArePast'
  BY DEF StreakInv, LogsArePast
<1>3. GamesAreTrue'
  <2> SUFFICES ASSUME NEW h \in Games
               PROVE  GameIsTrue(game'[h], log[game'[h].user], bonusDay)
    BY DEF GamesAreTrue
  <2> QED BY DEF StreakInv, GamesAreTrue
<1>4. PaidWasEarned'
  BY DEF StreakInv, PaidWasEarned
<1>5. EarnedIsPaid'
  <2> SUFFICES ASSUME NEW u \in Players, NEW d \in Days, EarnedOn(log[u], d)
               PROVE  Paid(u, d)' \/ failures' > 0 \/ restarted' \/ UnderWay(u, d)'
    BY DEF EarnedIsPaid
  <2>1. Paid(u, d) \/ failures > 0 \/ restarted \/ UnderWay(u, d)
    BY DEF StreakInv, EarnedIsPaid
  <2>2. CASE Paid(u, d) \/ failures > 0 \/ restarted
    BY <1>1, <2>2
  <2>3. CASE UnderWay(u, d)
    <3>1. PICK h \in Games : /\ game[h].at \in {"streak", "grant"}
                             /\ game[h].user = u /\ game[h].day = d
      BY <2>3 DEF UnderWay
    <3>2. CASE h = g
      BY <3>1, <3>2 DEF UnderWay
    <3>3. CASE h # g
      <4>1. game'[h] = game[h]
        BY <3>3
      <4> QED BY <3>1, <4>1 DEF UnderWay
    <3> QED BY <3>2, <3>3
  <2> QED BY <2>1, <2>2, <2>3
<1> QED BY <1>2, <1>3, <1>4, <1>5 DEF StreakInv

LEMMA GameGoesOn ==
  ASSUME BonusTypes, NEW g \in Games, game[g].at # "idle", NEW at \in {"streak", "grant"},
         GameGoes(g, at)
  PROVE  /\ \A h \in Games : h # g => game'[h] = game[h]
         /\ game'[g].at = at /\ game'[g].user = game[g].user /\ game'[g].day = game[g].day
<1> DEFINE r == [game[g] EXCEPT !.at = at]
<1>1. game[g] \in GameStates
  BY GameOfIsState
<1>2. r.at = at /\ r.user = game[g].user /\ r.day = game[g].day
  BY <1>1 DEF GameStates
<1>3. game' = [game EXCEPT ![g] = r]
  BY DEF GameGoes
<1> HIDE DEF r
<1>4. game'[g] = r /\ \A h \in Games : h # g => game'[h] = game[h]
  BY <1>3 DEF BonusTypes
<1> QED BY <1>2, <1>4

LEMMA GameEnded ==
  ASSUME BonusTypes, NEW g \in Games, GameEnds(g)
  PROVE  game'[g].at = "idle" /\ \A h \in Games : h # g => game'[h] = game[h]
  BY AtRestIsIdle DEF GameEnds, BonusTypes

\* The first reward of a day begins or prolongs a streak, and is the one that
\* counts it.
LEMMA LogKeeps ==
  ASSUME BonusTypes, BonusTypes', StreakInv, NEW g \in Games, LogGame(g)
  PROVE  StreakInv'
<1> DEFINE e == bonusDay
<1>0. PICK v : v = game[g].user
  OBVIOUS
<1>1. /\ game[g].at = "create" /\ v \in Players /\ game[g].day = e
      /\ e \in Days /\ e \in Int
      /\ ~game[g].first => e \in log[v]
      /\ game[g].first \in BOOLEAN
  <2>1. game[g].at = "create"
    BY DEF LogGame
  <2>2. GameIsTrue(game[g], log[game[g].user], bonusDay)
    BY DEF StreakInv, GamesAreTrue
  <2>3. e \in Days /\ e \in Int
    BY DaysAreNat DEF BonusTypes, BonusTypeOK
  <2> QED BY <1>0, <2>1, <2>2, <2>3, GameOfIsState DEF GameIsTrue
<1>2. /\ UNCHANGED <<bonusDay, bonus, failures, restarted>>
      /\ log' = [log EXCEPT ![v] = @ \cup {e}]
      /\ IF game[g].first THEN GameGoes(g, "streak") ELSE GameEnds(g)
  BY <1>0, <1>1 DEF LogGame
<1>3. \A h \in Games : h # g => game'[h] = game[h]
  BY <1>1, <1>2, GameGoesOn, GameEnded
<1>4. \/ game'[g].at = "idle" /\ ~game[g].first
      \/ game'[g].at = "streak" /\ game'[g].user = v /\ game'[g].day = e
  BY <1>0, <1>1, <1>2, GameGoesOn, GameEnded
<1>5. failures \in Nat /\ log \in [Players -> SUBSET Days]
  BY DaysAreNat DEF BonusTypes, BonusTypeOK
<1>6. CASE e \in log[v]
  <2>1. log' = log
    BY <1>1, <1>2, <1>5, <1>6
  <2>2. GameIsTrue(game'[g], log[game'[g].user], bonusDay)
    BY <1>4, <1>6 DEF GameIsTrue
  <2>3. \A u \in Players, d \in Days : Paid(u, d)' = Paid(u, d)
    BY <1>2 DEF Paid
  <2>4. failures' = failures /\ failures' \in Nat /\ failures <= failures'
    BY <1>2, <1>5
  <2>5. game[g].at \notin {"streak", "grant"}
    BY <1>1
  <2> QED BY <1>2, <1>3, <2>1, <2>2, <2>3, <2>4, <2>5, GameKeeps
<1>7. CASE e \notin log[v]
  <2>1. /\ log'[v] = log[v] \cup {e}
        /\ \A u \in Players : u # v => log'[u] = log[u]
    BY <1>1, <1>2, <1>5
  <2>2. game'[g].at = "streak" /\ game'[g].user = v /\ game'[g].day = e
    BY <1>1, <1>4, <1>7
  <2>3. LogsArePast'
    <3> SUFFICES ASSUME NEW u \in Players, NEW d \in log'[u] PROVE d <= e
      BY <1>2 DEF LogsArePast
    <3>1. d \in log[u] \/ d = e
      BY <2>1
    <3>2. d \in log[u] => d <= e
      BY DEF StreakInv, LogsArePast
    <3> QED BY <1>1, <3>1, <3>2
  <2>4. ASSUME NEW d \in Days, EarnedOn(log[v], d)
        PROVE  d < e
    <3>1. PICK n \in 1..d : (d - n + 1)..d \subseteq log[v]
      BY <2>4 DEF EarnedOn, StreakOf
    <3>2. d \in Int /\ d \in (d - n + 1)..d
      BY DaysAreNat
    <3>3. d \in log[v]
      BY <3>1, <3>2
    <3>4. d <= e /\ d # e
      BY <1>1, <1>7, <3>3 DEF StreakInv, LogsArePast
    <3> QED BY <1>1, <3>2, <3>4
  <2>5. PaidWasEarned'
    <3> SUFFICES ASSUME NEW u \in Players, NEW d \in Days, Paid(u, d)
                 PROVE  d <= e /\ EarnedOn(log'[u], d)
      BY <1>2 DEF PaidWasEarned, Paid
    <3>1. d <= e /\ EarnedOn(log[u], d)
      BY DEF StreakInv, PaidWasEarned
    <3>2. CASE u # v
      BY <2>1, <3>1, <3>2
    <3>3. CASE u = v
      <4>1. d < e
        BY <2>4, <3>1, <3>3
      <4> QED BY <1>1, <2>1, <3>1, <3>3, <4>1, LaterDay
    <3> QED BY <3>2, <3>3
  <2>6. GamesAreTrue'
    <3> SUFFICES ASSUME NEW h \in Games
                 PROVE  GameIsTrue(game'[h], log'[game'[h].user], e)
      BY <1>2 DEF GamesAreTrue
    <3>1. CASE h = g
      BY <2>1, <2>2, <3>1 DEF GameIsTrue
    <3>2. CASE h # g
      <4>1. game'[h] = game[h]
        BY <1>3, <3>2
      <4>2. GameIsTrue(game[h], log[game[h].user], e)
        BY DEF StreakInv, GamesAreTrue
      <4>3. CASE game[h].at = "idle"
        BY <4>1, <4>3 DEF GameIsTrue
      <4>4. CASE game[h].at # "idle" /\ game[h].user = v
        BY <1>7, <2>1, <4>1, <4>2, <4>4 DEF GameIsTrue
      <4>5. CASE game[h].at # "idle" /\ game[h].user # v
        <5>1. log'[game[h].user] = log[game[h].user]
          BY <2>1, <4>5, GameOfIsState
        <5> QED BY <4>1, <4>2, <5>1
      <4> QED BY <4>3, <4>4, <4>5
    <3> QED BY <3>1, <3>2
  <2>7. EarnedIsPaid'
    <3> SUFFICES ASSUME NEW u \in Players, NEW d \in Days, EarnedOn(log'[u], d)
                 PROVE  Paid(u, d) \/ failures > 0 \/ restarted \/ UnderWay(u, d)'
      BY <1>2 DEF EarnedIsPaid, Paid
    <3>1. ASSUME EarnedOn(log[u], d)
          PROVE  Paid(u, d) \/ failures > 0 \/ restarted \/ UnderWay(u, d)'
      <4>1. Paid(u, d) \/ failures > 0 \/ restarted \/ UnderWay(u, d)
        BY <3>1 DEF StreakInv, EarnedIsPaid
      <4>2. ASSUME UnderWay(u, d) PROVE UnderWay(u, d)'
        <5>1. PICK h \in Games : /\ game[h].at \in {"streak", "grant"}
                                 /\ game[h].user = u /\ game[h].day = d
          BY <4>2 DEF UnderWay
        <5>2. game'[h] = game[h]
          BY <1>1, <1>3, <5>1
        <5> QED BY <5>1, <5>2 DEF UnderWay
      <4> QED BY <4>1, <4>2
    <3>2. CASE u # v
      BY <2>1, <3>1, <3>2
    <3>3. CASE u = v /\ d < e
      <4>1. EarnedOn(log[u], d)
        BY <1>1, <2>1, <3>3, LaterDay
      <4> QED BY <3>1, <4>1
    <3>4. CASE u = v /\ ~(d < e)
      <4>1. PICK n \in 1..d : (d - n + 1)..d \subseteq log'[v]
        BY <3>4 DEF EarnedOn, StreakOf
      <4>2. d \in Int /\ d \in (d - n + 1)..d
        BY DaysAreNat
      <4>3. d \in log'[v] /\ d <= e
        BY <1>1, <1>2, <2>3, <4>1, <4>2 DEF LogsArePast
      <4>4. d = e
        BY <1>1, <3>4, <4>2, <4>3
      <4> QED BY <2>2, <3>4, <4>4 DEF UnderWay
    <3> QED BY <3>2, <3>3, <3>4
  <2> QED BY <2>3, <2>5, <2>6, <2>7 DEF StreakInv
<1> QED BY <1>6, <1>7

LEMMA GameStepsKeep ==
  ASSUME MaxDay <= Window, BonusTypes, BonusTypes', StreakInv, NEW g \in Games,
         \/ \E u \in Players : StartGame(g, u)
         \/ LogGame(g) \/ CountStreak(g) \/ PayStreak(g) \/ GameFails(g)
  PROVE  StreakInv'
<1>1. failures \in Nat /\ failures' \in Nat /\ bonusDay \in Days
  BY DaysAreNat DEF BonusTypes, BonusTypeOK
<1>2. GameIsTrue(game[g], log[game[g].user], bonusDay)
  BY DEF StreakInv, GamesAreTrue
<1>3. ASSUME NEW v \in Players, StartGame(g, v) PROVE StreakInv'
  <2> DEFINE r == [at |-> "create", user |-> v, day |-> bonusDay,
                   first |-> bonusDay \notin log[v]]
  <2>1. /\ UNCHANGED <<bonusDay, bonus, log, failures, restarted>>
        /\ game' = [game EXCEPT ![g] = r] /\ game[g].at = "idle"
    BY <1>3 DEF StartGame
  <2>2. r.at = "create" /\ r.user = v /\ r.day = bonusDay
        /\ (~r.first => bonusDay \in log[v])
    OBVIOUS
  <2> HIDE DEF r
  <2>3. game'[g] = r /\ \A h \in Games : h # g => game'[h] = game[h]
    BY <2>1 DEF BonusTypes
  <2>4. GameIsTrue(game'[g], log[game'[g].user], bonusDay)
    BY <2>2, <2>3 DEF GameIsTrue
  <2>5. \A u \in Players, d \in Days : Paid(u, d)' = Paid(u, d)
    BY <2>1 DEF Paid
  <2>6. failures' = failures /\ failures <= failures'
    BY <1>1, <2>1
  <2> QED BY <1>1, <2>1, <2>3, <2>4, <2>5, <2>6, GameKeeps
<1>4. CASE LogGame(g)
  BY <1>4, LogKeeps
<1>5. CASE CountStreak(g)
  <2>1. /\ UNCHANGED <<bonusDay, bonus, log, failures, restarted>>
        /\ game[g].at = "streak"
    BY <1>5 DEF CountStreak
  <2>2. game[g].user \in Players /\ game[g].day \in Days /\ game[g].day = bonusDay
        /\ game[g].day \in log[game[g].user]
    BY <1>2, <2>1, GameOfIsState DEF GameIsTrue
  <2>3. CycleDay(GameStreak(game[g].user, game[g].day)) \in BonusDays
            <=> EarnedOn(log[game[g].user], game[g].day)
    BY <2>2, CountIsEarned
  <2>4. \A u \in Players, d \in Days : Paid(u, d)' = Paid(u, d)
    BY <2>1 DEF Paid
  <2>5. failures' = failures /\ failures <= failures'
    BY <1>1, <2>1
  <2>6. CASE EarnedOn(log[game[g].user], game[g].day)
    <3>1. GameGoes(g, "grant")
      BY <1>5, <2>3, <2>6 DEF CountStreak
    <3>2. /\ \A h \in Games : h # g => game'[h] = game[h]
          /\ game'[g].at = "grant" /\ game'[g].user = game[g].user
          /\ game'[g].day = game[g].day
      BY <2>1, <3>1, GameGoesOn
    <3>3. GameIsTrue(game'[g], log[game'[g].user], bonusDay)
      BY <2>2, <2>6, <3>2 DEF GameIsTrue
    <3> QED BY <1>1, <2>1, <2>4, <2>5, <3>2, <3>3, GameKeeps
  <2>7. CASE ~EarnedOn(log[game[g].user], game[g].day)
    <3>1. GameEnds(g)
      BY <1>5, <2>3, <2>7 DEF CountStreak
    <3>2. game'[g].at = "idle" /\ \A h \in Games : h # g => game'[h] = game[h]
      BY <3>1, GameEnded
    <3>3. GameIsTrue(game'[g], log[game'[g].user], bonusDay)
      BY <3>2 DEF GameIsTrue
    <3> QED BY <1>1, <2>1, <2>4, <2>5, <2>7, <3>2, <3>3, GameKeeps
  <2> QED BY <2>6, <2>7
<1>6. CASE PayStreak(g)
  <2>1. /\ UNCHANGED <<bonusDay, log, failures, restarted>>
        /\ game[g].at = "grant" /\ GameEnds(g)
    BY <1>6 DEF PayStreak
  <2>2. game[g].user \in Players /\ game[g].day \in Days /\ game[g].day = bonusDay
        /\ EarnedOn(log[game[g].user], game[g].day)
    BY <1>2, <2>1, GameOfIsState DEF GameIsTrue
  <2>3. game'[g].at = "idle" /\ \A h \in Games : h # g => game'[h] = game[h]
    BY <2>1, GameEnded
  <2>4. GameIsTrue(game'[g], log[game'[g].user], bonusDay)
    BY <2>3 DEF GameIsTrue
  <2>5. PICK k \in Keys : k = StreakKey(game[g].user, game[g].day)
    BY <2>2, StreakKeyIsKey
  <2>6. GrantBonus(k)
    BY <1>6, <2>5 DEF PayStreak
  <2>7. /\ bonus'[k].state # "none"
        /\ \A j \in Keys : j # k => bonus'[j] = bonus[j]
    BY <2>6, GrantWrites
  <2>8. ASSUME NEW u \in Players, NEW d \in Days
        PROVE  /\ Paid(u, d) => Paid(u, d)'
               /\ Paid(u, d)' => Paid(u, d) \/ (u = game[g].user /\ d = game[g].day)
               /\ u = game[g].user /\ d = game[g].day => Paid(u, d)'
    <3>1. StreakKey(u, d) \in Keys
      BY StreakKeyIsKey
    <3>2. StreakKey(u, d) = k <=> (u = game[g].user /\ d = game[g].day)
      BY <2>2, <2>5, KeysDiffer
    <3> QED BY <2>7, <3>1, <3>2 DEF Paid
  <2>9. \A u \in Players, d \in Days :
            Paid(u, d)' => Paid(u, d) \/ (d <= bonusDay /\ EarnedOn(log[u], d))
    BY <1>1, <2>2, <2>8, DaysAreNat
  <2>10. failures' = failures /\ failures <= failures'
    BY <1>1, <2>1
  <2> QED BY <1>1, <2>1, <2>3, <2>4, <2>8, <2>9, <2>10, GameKeeps
<1>7. CASE GameFails(g)
  <2>1. /\ UNCHANGED <<bonusDay, bonus, log, restarted>> /\ failures' = failures + 1
        /\ GameEnds(g)
    BY <1>7 DEF GameFails
  <2>2. game'[g].at = "idle" /\ \A h \in Games : h # g => game'[h] = game[h]
    BY <2>1, GameEnded
  <2>3. GameIsTrue(game'[g], log[game'[g].user], bonusDay)
    BY <2>2 DEF GameIsTrue
  <2>4. \A u \in Players, d \in Days : Paid(u, d)' = Paid(u, d)
    BY <2>1 DEF Paid
  <2>5. failures' > 0 /\ failures <= failures'
    BY <1>1, <2>1
  <2> QED BY <1>1, <2>1, <2>2, <2>3, <2>4, <2>5, GameKeeps
<1> QED BY <1>3, <1>4, <1>5, <1>6, <1>7

LEMMA NextStreaks ==
  ASSUME MaxDay <= Window, BonusTypes, BonusTypes', StreakInv, [BonusNext]_bonusVars
  PROVE  StreakInv'
<1>1. CASE UNCHANGED <<log, game, bonusDay>>
  BY <1>1, StreaksOfOthers
<1>2. CASE Midnight
  <2>1. /\ UNCHANGED <<log, game, bonus, failures, restarted>>
        /\ \A g \in Games : game[g].at = "idle"
        /\ bonusDay' = bonusDay + 1
    BY <1>2 DEF Midnight
  <2>2. bonusDay \in Int
    BY DaysAreNat DEF BonusTypes, BonusTypeOK
  <2>3. \A d \in Days : d \in Int
    BY DaysAreNat
  <2>4. LogsArePast'
    <3> SUFFICES ASSUME NEW u \in Players, NEW d \in log[u] PROVE d <= bonusDay + 1
      BY <2>1 DEF LogsArePast
    <3>1. d <= bonusDay /\ d \in Int
      BY <2>3 DEF StreakInv, LogsArePast, BonusTypes, BonusTypeOK
    <3> QED BY <2>2, <3>1
  <2>5. PaidWasEarned'
    <3> SUFFICES ASSUME NEW u \in Players, NEW d \in Days, Paid(u, d)
                 PROVE  d <= bonusDay + 1 /\ EarnedOn(log[u], d)
      BY <2>1 DEF PaidWasEarned, Paid
    <3>1. d <= bonusDay /\ EarnedOn(log[u], d)
      BY DEF StreakInv, PaidWasEarned
    <3> QED BY <2>2, <2>3, <3>1
  <2>6. GamesAreTrue'
    BY <2>1 DEF GamesAreTrue, GameIsTrue
  <2>7. EarnedIsPaid'
    BY <2>1 DEF StreakInv, EarnedIsPaid, Paid, UnderWay
  <2> QED BY <2>4, <2>5, <2>6, <2>7 DEF StreakInv
<1>3. CASE BonusRestart
  <2>1. /\ UNCHANGED <<bonusDay, log, bonus>> /\ restarted'
        /\ \A g \in Games : game'[g].at = "idle"
    BY <1>3, AtRestIsIdle DEF BonusRestart
  <2>2. LogsArePast' /\ PaidWasEarned'
    BY <2>1 DEF StreakInv, LogsArePast, PaidWasEarned, Paid
  <2>3. GamesAreTrue' /\ EarnedIsPaid'
    BY <2>1 DEF GamesAreTrue, GameIsTrue, EarnedIsPaid
  <2> QED BY <2>2, <2>3 DEF StreakInv
<1>4. CASE UNCHANGED bonusVars
  BY <1>1, <1>4 DEF bonusVars
<1>5. ASSUME NEW e \in Expirers,
             StartExpiry(e) \/ \E k \in Keys : ExpireOne(e, k) \/ ExpireFails(e, k)
      PROVE  UNCHANGED <<log, game, bonusDay>>
  BY <1>5 DEF StartExpiry, ExpireOne, ExpireFails
<1>6. ASSUME NEW t \in Tasks,
             \/ \E c \in Children, d \in Days : SettleDay(t, c, d)
             \/ \E p \in Pairs : StartBatch(t, p)
             \/ ReferralStep(t) \/ TaskFails(t) \/ LookupFails(t)
      PROVE  UNCHANGED <<log, game, bonusDay>>
  BY <1>6 DEF SettleDay, StartBatch, ReferralStep, FindParent, CheckHistory, GrantReferral,
              RecordReward, RecordFailed, TaskFails, LookupFails
<1> QED BY <1>1, <1>2, <1>3, <1>4, <1>5, <1>6, GameStepsKeep DEF BonusNext

\* While a streak fits into the days that gameStreak reads, a bonus day of the
\* cycle pays its player when it is reached, unless a write failed or the process
\* was restarted, and nobody is paid for a day that was not
\* (recordGameReward, gameEngagement.js:8-11).
THEOREM StreaksPayTheirDays ==
  ASSUME MaxDay <= Window
  PROVE  BonusSpec => []StreakPaysItsDays
<1>1. BonusInit => StreakInv
  <2> SUFFICES ASSUME BonusInit PROVE StreakInv
    OBVIOUS
  <2>1. \A g \in Games : game[g].at = "idle"
    BY AtRestIsIdle DEF BonusInit
  <2>2. \A u \in Players : log[u] = {}
    BY DEF BonusInit
  <2>3. LogsArePast /\ GamesAreTrue
    BY <2>1, <2>2 DEF LogsArePast, GamesAreTrue, GameIsTrue
  <2>4. PaidWasEarned
    BY StreakKeyIsKey DEF PaidWasEarned, Paid, BonusInit
  <2>5. EarnedIsPaid
    <3> SUFFICES ASSUME NEW u \in Players, NEW d \in Days, EarnedOn(log[u], d) PROVE FALSE
      BY DEF EarnedIsPaid
    <3>1. PICK n \in 1..d : (d - n + 1)..d \subseteq {}
      BY <2>2 DEF EarnedOn, StreakOf
    <3>2. d \in (d - n + 1)..d
      BY DaysAreNat
    <3> QED BY <3>1, <3>2
  <2> QED BY <2>3, <2>4, <2>5 DEF StreakInv
<1>2. BonusTypes /\ StreakInv => StreakPaysItsDays
  <2> SUFFICES ASSUME StreakInv, NEW u \in Players, NEW d \in Days
               PROVE  /\ Paid(u, d) => EarnedOn(log[u], d)
                      /\ EarnedOn(log[u], d) =>
                             \/ Paid(u, d) \/ failures > 0 \/ restarted
                             \/ \E g \in Games : game[g].at # "idle" /\ game[g].user = u
    BY DEF StreakPaysItsDays, Paid, EarnedOn, StreakOf
  <2>1. Paid(u, d) => EarnedOn(log[u], d)
    BY DEF StreakInv, PaidWasEarned
  <2>2. EarnedOn(log[u], d) => Paid(u, d) \/ failures > 0 \/ restarted \/ UnderWay(u, d)
    BY DEF StreakInv, EarnedIsPaid
  <2> QED BY <2>1, <2>2 DEF UnderWay
<1>3. BonusTypes /\ BonusTypes' /\ StreakInv /\ [BonusNext]_bonusVars => StreakInv'
  BY NextStreaks
<1> QED BY InitTypes, NextTypes, <1>1, <1>2, <1>3, PTL DEF BonusSpec
=============================================================================
