---------------------------- MODULE RewardsProofs ----------------------------
(***************************************************************************)
(* Proofs about what a user is given apart from mining: the rewards, the   *)
(* scripts that pay or correct a wallet, and the hourly notices; for every *)
(* number of requests, days, scripts, users and sessions, whatever         *)
(* overlaps, fails or stops.                                               *)
(***************************************************************************)
EXTENDS Rewards, Repairs, Reminders, SumLemmas, TLAPS

(* Rewards.  A request that is not stale has read the row as it is; a stale  *)
(* one has read an older version of its histories, unless they are the same. *)

RewardRow == [gameDay: {0} \cup LocalDays, gameGh: Nat,
              privDay: {0} \cup LocalDays, privAds: Nat, superAds: 0..SuperPerDay,
              stock: Nat, streak: Nat, last: {0} \cup LocalDays,
              loss: Nat, lossAds: Nat, lossDay: 1..RewardDays, version: Nat]

Histories == [Entries -> {"none", "pending", "claimed"}]

RewardAsk == [kind: Kinds, at: {"write", "save", "streak"}, seen: RewardRow, had: Histories,
              today: {0} \cup LocalDays, entry: {0} \cup Entries \cup Charges, stale: BOOLEAN]

LossFits(r) == r.loss <= LossPerDay * (r.lossDay - 1)

LEMMA RewardRowFields ==
  ASSUME NEW r \in RewardRow
  PROVE  /\ r.gameDay \in {0} \cup LocalDays /\ r.gameGh \in Nat
         /\ r.privDay \in {0} \cup LocalDays /\ r.privAds \in Nat
         /\ r.superAds \in 0..SuperPerDay /\ r.stock \in Nat /\ r.streak \in Nat
         /\ r.last \in {0} \cup LocalDays /\ r.loss \in Nat /\ r.lossAds \in Nat
         /\ r.lossDay \in 1..RewardDays /\ r.version \in Nat
BY DEF RewardRow

LEMMA SavedFields ==
  ASSUME NEW seen \in RewardRow, NEW new \in RewardRow, mining \in RewardRow
  PROVE  LET m == Saved(seen, new)
         IN  /\ m \in RewardRow
             /\ m.gameDay = IF new.gameDay = seen.gameDay THEN mining.gameDay ELSE new.gameDay
             /\ m.gameGh = IF new.gameGh = seen.gameGh THEN mining.gameGh ELSE new.gameGh
             /\ m.privDay = IF new.privDay = seen.privDay THEN mining.privDay ELSE new.privDay
             /\ m.privAds = IF new.privAds = seen.privAds THEN mining.privAds ELSE new.privAds
             /\ m.superAds = IF new.superAds = seen.superAds THEN mining.superAds ELSE new.superAds
             /\ m.stock = IF new.stock = seen.stock THEN mining.stock ELSE new.stock
             /\ m.streak = IF new.streak = seen.streak THEN mining.streak ELSE new.streak
             /\ m.last = IF new.last = seen.last THEN mining.last ELSE new.last
             /\ m.loss = IF new.loss = seen.loss THEN mining.loss ELSE new.loss
             /\ m.lossAds = IF new.lossAds = seen.lossAds THEN mining.lossAds ELSE new.lossAds
             /\ m.lossDay = IF new.lossDay = seen.lossDay THEN mining.lossDay ELSE new.lossDay
             /\ m.version = IF new.version = seen.version THEN mining.version ELSE new.version
<1>1. DOMAIN mining = {"gameDay", "gameGh", "privDay", "privAds", "superAds", "stock",
                       "streak", "last", "loss", "lossAds", "lossDay", "version"}
  BY DEF RewardRow
<1> DEFINE m == Saved(seen, new)
<1>2. m = [f \in DOMAIN mining |-> IF new[f] = seen[f] THEN mining[f] ELSE new[f]]
  BY DEF Saved
<1> HIDE DEF m
<1>3. /\ m.gameDay = IF new.gameDay = seen.gameDay THEN mining.gameDay ELSE new.gameDay
      /\ m.gameGh = IF new.gameGh = seen.gameGh THEN mining.gameGh ELSE new.gameGh
      /\ m.privDay = IF new.privDay = seen.privDay THEN mining.privDay ELSE new.privDay
      /\ m.privAds = IF new.privAds = seen.privAds THEN mining.privAds ELSE new.privAds
      /\ m.superAds = IF new.superAds = seen.superAds THEN mining.superAds ELSE new.superAds
      /\ m.stock = IF new.stock = seen.stock THEN mining.stock ELSE new.stock
      /\ m.streak = IF new.streak = seen.streak THEN mining.streak ELSE new.streak
      /\ m.last = IF new.last = seen.last THEN mining.last ELSE new.last
      /\ m.loss = IF new.loss = seen.loss THEN mining.loss ELSE new.loss
      /\ m.lossAds = IF new.lossAds = seen.lossAds THEN mining.lossAds ELSE new.lossAds
      /\ m.lossDay = IF new.lossDay = seen.lossDay THEN mining.lossDay ELSE new.lossDay
      /\ m.version = IF new.version = seen.version THEN mining.version ELSE new.version
  BY <1>1, <1>2
<1>4. m = [gameDay |-> m.gameDay,
           gameGh |-> m.gameGh,
           privDay |-> m.privDay,
           privAds |-> m.privAds,
           superAds |-> m.superAds,
           stock |-> m.stock,
           streak |-> m.streak,
           last |-> m.last,
           loss |-> m.loss,
           lossAds |-> m.lossAds,
           lossDay |-> m.lossDay,
           version |-> m.version]
  BY <1>1, <1>2
<1>5. m \in RewardRow
  BY <1>3, <1>4 DEF RewardRow
<1> QED BY <1>3, <1>5 DEF m

LEMMA RewardsFacts ==
  /\ {GamePerDay, GameMost, SuperPerDay, PrivPerDay, AdsNeeded, LossPerDay} \subseteq Nat
  /\ RewardDays \in Nat /\ RewardDays > 0 /\ MaxRequests \in Nat
  /\ IsFiniteSet(Asks) /\ LocalDays = 1..(RewardDays + 2)
BY RewardsAssumption DEF LocalDays

\* What a day gave so far, and nothing of a later day.
Budget(day, count, g, limit) ==
  /\ day = 0 => count = 0
  /\ \A d \in LocalDays : g[d] <= limit /\ (d > day => g[d] = 0) /\ (d = day => g[d] = count)

LEMMA DayCounterIs ==
  ASSUME NEW stored \in {0} \cup LocalDays, NEW count \in Nat, NEW today \in LocalDays
  PROVE  /\ DayCounter(stored, count, today).day \in LocalDays
         /\ DayCounter(stored, count, today).used \in Nat
<1>1. 0 \in Nat /\ today \in LocalDays
  OBVIOUS
<1>2. CASE stored # 0 /\ today > stored
  BY <1>2 DEF DayCounter
<1>3. CASE ~(stored # 0 /\ today > stored)
  BY <1>3 DEF DayCounter
<1> QED BY <1>2, <1>3

LEMMA BudgetSpent ==
  ASSUME NEW stored \in {0} \cup LocalDays, NEW count \in Nat, NEW today \in LocalDays,
         NEW g \in [LocalDays -> Nat], NEW limit \in Nat, Budget(stored, count, g, limit),
         NEW n \in Nat,
         n = 0 \/ DayCounter(stored, count, today).used + n <= limit
  PROVE  LET c == DayCounter(stored, count, today)
         IN  Budget(c.day, c.used + n, [g EXCEPT ![c.day] = @ + n], limit)
<1> DEFINE c == DayCounter(stored, count, today)
           h == [g EXCEPT ![c.day] = @ + n]
<1>1. c.day \in LocalDays /\ c.used \in Nat /\ c.day \in Nat /\ c.day # 0
  <2>1. c.day \in LocalDays /\ c.used \in Nat
    BY DayCounterIs
  <2>2. \A d \in LocalDays : d \in Nat /\ d # 0
    BY RewardsFacts
  <2> HIDE DEF c
  <2> QED BY <2>1, <2>2
<1>2. \A d \in LocalDays : d \in Nat /\ g[d] \in Nat
  BY RewardsFacts
<1>3. g[c.day] = c.used /\ \A d \in LocalDays : d > c.day => g[d] = 0
  <2>1. stored \in Nat /\ today \in Nat /\ today # 0
    BY RewardsFacts
  <2>2. CASE stored # 0 /\ today > stored
    <3>1. c = [day |-> today, used |-> 0]
      BY <2>2 DEF DayCounter
    <3> QED BY <2>1, <2>2, <3>1, <1>2 DEF Budget
  <2>3. CASE stored = 0
    <3>1. c = [day |-> today, used |-> count]
      BY <2>3 DEF DayCounter
    <3> QED BY <2>1, <2>3, <3>1, <1>2 DEF Budget
  <2>4. CASE stored # 0 /\ ~(today > stored)
    <3>1. c = [day |-> stored, used |-> count]
      BY <2>4 DEF DayCounter
    <3> QED BY <2>1, <2>4, <3>1, <1>2 DEF Budget
  <2> QED BY <2>2, <2>3, <2>4
<1>4. n = 0 \/ c.used + n <= limit
  OBVIOUS
<1>5. \A d \in LocalDays : g[d] <= limit
  BY DEF Budget
<1> HIDE DEF c
<1>6. \A d \in LocalDays : h[d] = IF d = c.day THEN g[d] + n ELSE g[d]
  BY <1>1
<1> HIDE DEF h
<1>7. ASSUME NEW d \in LocalDays
      PROVE  h[d] <= limit /\ (d > c.day => h[d] = 0) /\ (d = c.day => h[d] = c.used + n)
  <2>1. CASE d = c.day
    BY <2>1, <1>1, <1>2, <1>3, <1>4, <1>5, <1>6
  <2>2. CASE d # c.day
    BY <2>2, <1>2, <1>3, <1>5, <1>6
  <2> QED BY <2>1, <2>2
<1>8. Budget(c.day, c.used + n, h, limit)
  BY <1>1, <1>7 DEF Budget
<1> QED BY <1>8 DEF c, h

\* The least of three.
LEMMA MinOfThree ==
  ASSUME NEW a \in Int, NEW b \in Int, NEW c \in Int
  PROVE  Min({a, b, c}) \in {a, b, c} /\ Min({a, b, c}) <= c
<1>1. \E x \in {a, b, c} : \A y \in {a, b, c} : x <= y
  BY a <= b \/ b <= a, b <= c \/ c <= b, a <= c \/ c <= a
<1> QED BY <1>1 DEF Min

LEMMA MaxWithZero ==
  ASSUME NEW a \in Int
  PROVE  Max({0, a}) = IF a > 0 THEN a ELSE 0
<1>1. \E x \in {0, a} : \A y \in {0, a} : x >= y
  BY a >= 0 \/ 0 >= a
<1>2. Max({0, a}) \in {0, a} /\ Max({0, a}) >= 0 /\ Max({0, a}) >= a
  BY <1>1 DEF Max
<1> QED BY <1>2

LEMMA GrantFits ==
  ASSUME NEW seen \in RewardRow, NEW today \in LocalDays, NEW wanted \in 1..(GameMost + 1)
  PROVE  LET c == DayCounter(seen.gameDay, seen.gameGh, today)
             n == GameGranted(seen, today, wanted)
         IN  n \in Nat /\ (n = 0 \/ c.used + n <= GamePerDay)
<1> DEFINE c == DayCounter(seen.gameDay, seen.gameGh, today)
           m == Max({0, GamePerDay - c.used})
           n == GameGranted(seen, today, wanted)
<1>1. c.used \in Nat /\ GamePerDay \in Nat /\ GameMost \in Nat /\ wanted \in Nat
  <2>1. seen.gameDay \in {0} \cup LocalDays /\ seen.gameGh \in Nat
    BY RewardRowFields
  <2>2. c.used \in Nat
    BY <2>1, DayCounterIs
  <2> QED BY <2>2, RewardsFacts
<1>2. n = Min({wanted, GameMost, m})
  BY DEF GameGranted
<1> HIDE DEF c, n
<1>3. m = IF GamePerDay - c.used > 0 THEN GamePerDay - c.used ELSE 0
  BY <1>1, MaxWithZero
<1> HIDE DEF m
<1>4. m \in Nat
  BY <1>1, <1>3
<1>5. n \in {wanted, GameMost, m} /\ n <= m
  BY <1>1, <1>2, <1>4, MinOfThree
<1>6. n \in Nat /\ (n = 0 \/ c.used + n <= GamePerDay)
  BY <1>1, <1>3, <1>4, <1>5
<1> QED BY <1>6 DEF c, n

LEMMA StreakGrows ==
  ASSUME NEW r \in RewardRow, NEW today \in LocalDays
  PROVE  LET next == ComputeStreak(r, today)
         IN  /\ next \in RewardRow
             /\ next = [r EXCEPT !.streak = next.streak, !.last = next.last]
             /\ \A D : (r.last - r.streak + 1)..r.last \subseteq D
                      => (next.last - next.streak + 1)..next.last \subseteq D \cup {today}
<1> DEFINE next == ComputeStreak(r, today)
           s == IF r.last # 0 /\ today = r.last + 1 THEN r.streak + 1 ELSE 1
<1>1. r.last \in Nat /\ r.streak \in Nat /\ today \in Nat /\ r.last \in {0} \cup LocalDays
  BY RewardRowFields, RewardsFacts
<1>2. CASE r.last # 0 /\ today <= r.last
  <2>1. next = r
    BY <1>2 DEF ComputeStreak
  <2> HIDE DEF next
  <2>2. r = [r EXCEPT !.streak = r.streak, !.last = r.last]
    BY DEF RewardRow
  <2> QED BY <2>1, <2>2 DEF next
<1>3. CASE ~(r.last # 0 /\ today <= r.last)
  <2>1. next = [r EXCEPT !.streak = s, !.last = today]
    BY <1>3 DEF ComputeStreak
  <2> HIDE DEF next
  <2>2. s \in Nat
    BY <1>1
  <2>3. ASSUME NEW D, (r.last - r.streak + 1)..r.last \subseteq D
        PROVE  (today - s + 1)..today \subseteq D \cup {today}
    <3>1. CASE s = 1
      <4>1. (today - s + 1)..today = {today}
        BY <1>1, <3>1
      <4> QED BY <4>1
    <3>2. CASE s # 1
      <4>1. today = r.last + 1 /\ s = r.streak + 1
        BY <3>2
      <4>2. ASSUME NEW x \in (today - s + 1)..today, x # today
            PROVE  x \in (r.last - r.streak + 1)..r.last
        BY <1>1, <4>1, <4>2
      <4> QED BY <2>3, <4>2
    <3> QED BY <3>1, <3>2
  <2> HIDE DEF s
  <2>4. /\ next \in RewardRow /\ next.streak = s /\ next.last = today
    BY <2>1, <2>2 DEF RewardRow
  <2> QED BY <2>1, <2>3, <2>4 DEF next
<1> QED BY <1>2, <1>3

----------------------------------------------------------------------------
\* What a request read: the row as it is unless it is stale, and the histories
\* as they are unless their version moved.
ReadOK(q) ==
  /\ q.kind \in {"game", "privilege", "super", "daily"} => q.today \in LocalDays
  /\ q.kind = "claim" /\ q.entry \in Trades => q.today \in LocalDays
  /\ q.kind = "add" => q.entry \in Entries
  /\ q.kind = "buy" /\ q.at = "save" => q.entry \in Charges
  /\ LossFits(q.seen) /\ q.seen.lossDay <= mining.lossDay
  /\ q.seen.version <= mining.version
  /\ q.seen.version = mining.version => q.had = entries
  /\ ~q.stale => q.seen = mining

RequestsRead ==
  /\ ask \in [Asks -> RewardAsk \cup {NoAsk}]
  /\ \A a \in Asks : ask[a].kind # "none" => ReadOK(ask[a])

RowFits == LossFits(mining) /\ mining.lossDay <= serverDay

GivenType == [game: [LocalDays -> Nat], privilege: [LocalDays -> Nat], super: Nat]

\* As long as no request wrote over a row it had not read, the row's counters
\* are what was granted.
GrantsAreCounted ==
  ~raced =>
    /\ Budget(mining.gameDay, mining.gameGh, given.game, GamePerDay)
    /\ Budget(mining.privDay, mining.privAds, given.privilege, PrivPerDay)
    /\ given.super = mining.superAds
    /\ (mining.last - mining.streak + 1)..mining.last \subseteq daysActive

PaidAreClaimed ==
  \A t \in Trades : tradesPaid[t] <= 1 /\ (tradesPaid[t] # 0 => entries[t] = "claimed")

Savers == {a \in Asks : ask[a].kind = "daily" /\ ask[a].at = "save"}

MinersFit == freeMiner \in Nat /\ freeMiner + Cardinality(Savers) <= Cardinality(Asks)

RewInv ==
  /\ RewardsTypeOK /\ RequestsRead /\ RowFits /\ given \in GivenType
  /\ GrantsAreCounted /\ PaidAreClaimed /\ MinersFit /\ OnePrivilegePerCharge

LEMMA RewFacts ==
  ASSUME RewInv
  PROVE  /\ serverDay \in 1..RewardDays /\ mining \in RewardRow /\ entries \in Histories
         /\ freeMiner \in Nat /\ privileges \in [Charges -> Nat]
         /\ chargedOn \in [Charges -> 0..RewardDays] /\ asked \in 0..MaxRequests
         /\ clearedOn \in 0..RewardDays /\ raced \in BOOLEAN
         /\ tradesPaid \in [Trades -> Nat] /\ daysActive \subseteq LocalDays
         /\ ask \in [Asks -> RewardAsk \cup {NoAsk}] /\ given \in GivenType
         /\ screens \in Uses
         /\ LossFits(mining) /\ mining.lossDay <= serverDay
         /\ PossibleDays \subseteq LocalDays
<1>1. PossibleDays \subseteq LocalDays
  <2>1. serverDay \in 1..RewardDays
    BY DEF RewInv, RewardsTypeOK
  <2> QED BY <2>1, RewardsFacts, RewardsAssumption DEF PossibleDays
<1> QED BY <1>1 DEF RewInv, RewardsTypeOK, RequestsRead, RowFits, RewardRow, Histories

LEMMA AskFacts ==
  ASSUME RewInv, NEW a \in Asks, ask[a].kind # "none"
  PROVE  ask[a] \in RewardAsk /\ ReadOK(ask[a]) /\ ask[a].seen \in RewardRow
         /\ ask[a].had \in Histories /\ ask[a].stale \in BOOLEAN
<1>1. ask[a] \in RewardAsk
  BY DEF RewInv, RequestsRead, NoAsk
<1> QED BY <1>1 DEF RewInv, RequestsRead, RewardAsk

LEMMA SaversAreFew ==
  ASSUME NEW S, S \subseteq Asks
  PROVE  IsFiniteSet(S) /\ Cardinality(S) \in Nat /\ Cardinality(S) <= Cardinality(Asks)
         /\ Cardinality(Asks) \in Nat
BY RewardsFacts, FS_Subset, FS_CardinalityType

LEMMA FewerSavers ==
  ASSUME RewInv, freeMiner' = freeMiner, Savers' \subseteq Savers
  PROVE  MinersFit'
<1>1. Savers \subseteq Asks
  BY DEF Savers
<1>2. IsFiniteSet(Savers) /\ Cardinality(Savers) \in Nat /\ Cardinality(Asks) \in Nat
  BY <1>1, SaversAreFew
<1>3. Cardinality(Savers') <= Cardinality(Savers) /\ Cardinality(Savers') \in Nat
  BY <1>2, FS_Subset, FS_CardinalityType
<1>4. MinersFit
  BY DEF RewInv
<1> DEFINE n == Cardinality(Savers)  m == Cardinality(Savers')  k == Cardinality(Asks)
<1>5. n \in Nat /\ m \in Nat /\ k \in Nat /\ m <= n /\ freeMiner \in Nat /\ freeMiner + n <= k
  BY <1>2, <1>3, <1>4 DEF MinersFit
<1> HIDE DEF n, m, k
<1>6. freeMiner + m <= k
  BY <1>5
<1> QED BY <1>5, <1>6 DEF MinersFit, m, k

RewShape ==
  /\ serverDay \in 1..RewardDays /\ screens \in Uses /\ mining \in RewardRow
  /\ entries \in Histories /\ MinersFit /\ privileges \in [Charges -> Nat]
  /\ chargedOn \in [Charges -> 0..RewardDays] /\ ask \in [Asks -> RewardAsk \cup {NoAsk}]
  /\ asked \in 0..MaxRequests /\ clearedOn \in 0..RewardDays /\ raced \in BOOLEAN
  /\ tradesPaid \in [Trades -> Nat] /\ daysActive \subseteq LocalDays

\* The type follows from the rest of the invariant.
LEMMA RewTypesHold == RewShape => RewardsTypeOK
<1> SUFFICES ASSUME RewShape PROVE RewardsTypeOK
  OBVIOUS
<1> USE DEF RewShape
<1>1. freeMiner \in 0..Cardinality(Asks)
  <2> DEFINE n == Cardinality(Savers)  k == Cardinality(Asks)
  <2>1. n \in Nat /\ k \in Nat
    BY SaversAreFew DEF Savers
  <2>2. freeMiner \in Nat /\ freeMiner + n <= k
    BY DEF MinersFit
  <2> HIDE DEF n, k
  <2>3. freeMiner \in 0..k
    BY <2>1, <2>2
  <2> QED BY <2>3 DEF k
<1>2. \A a \in Asks : ask[a].kind \in Kinds \cup {"none"}
  BY DEF RewardAsk, NoAsk
<1> QED BY <1>1, <1>2 DEF RewardsTypeOK, RewardRow, Histories

\* A request writes the row, and leaves the others stale.
LEMMA WriteKeeps ==
  ASSUME RewInv, NEW a \in Asks, ask[a].kind # "none", Wrote(a),
         UNCHANGED <<serverDay, screens, freeMiner, privileges, chargedOn, asked, clearedOn>>,
         mining' \in RewardRow, LossFits(mining'), mining.lossDay <= mining'.lossDay,
         mining'.lossDay <= serverDay,
         \/ mining'.version = mining.version /\ entries' = entries
         \/ mining'.version = mining.version + 1 /\ entries' \in Histories,
         given' \in GivenType, tradesPaid' \in [Trades -> Nat], daysActive' \subseteq LocalDays,
         ~raced /\ ask[a].seen = mining =>
           /\ Budget(mining'.gameDay, mining'.gameGh, given'.game, GamePerDay)
           /\ Budget(mining'.privDay, mining'.privAds, given'.privilege, PrivPerDay)
           /\ given'.super = mining'.superAds
           /\ (mining'.last - mining'.streak + 1)..mining'.last \subseteq daysActive',
         PaidAreClaimed'
  PROVE  RewInv'
<1> USE RewFacts
<1>1. \A b \in Asks : ask[b] \in RewardAsk \cup {NoAsk}
  OBVIOUS
<1>2. \A b \in Asks : ask'[b] = IF b = a \/ ask[b].kind = "none" THEN NoAsk
                                ELSE [ask[b] EXCEPT !.stale = TRUE]
  BY DEF Wrote
<1>3. \A b \in Asks : ask'[b].kind # "none" =>
        /\ b # a /\ ask[b].kind # "none" /\ ask[b] \in RewardAsk /\ ReadOK(ask[b])
        /\ ask'[b] = [ask[b] EXCEPT !.stale = TRUE]
  <2> SUFFICES ASSUME NEW b \in Asks, ask'[b].kind # "none"
               PROVE  /\ b # a /\ ask[b].kind # "none" /\ ask[b] \in RewardAsk /\ ReadOK(ask[b])
                      /\ ask'[b] = [ask[b] EXCEPT !.stale = TRUE]
    OBVIOUS
  <2>1. ask'[b] # NoAsk
    BY DEF NoAsk
  <2>2. b # a /\ ask[b].kind # "none" /\ ask'[b] = [ask[b] EXCEPT !.stale = TRUE]
    BY <1>2, <2>1
  <2>3. ask[b] \in RewardAsk /\ ReadOK(ask[b])
    BY <2>2, AskFacts
  <2> QED BY <2>2, <2>3
<1>4. ask' \in [Asks -> RewardAsk \cup {NoAsk}]
  <2>1. \A b \in Asks : ask'[b] \in RewardAsk \cup {NoAsk}
    <3> SUFFICES ASSUME NEW b \in Asks PROVE ask'[b] \in RewardAsk \cup {NoAsk}
      OBVIOUS
    <3>1. CASE b = a \/ ask[b].kind = "none"
      BY <3>1, <1>2
    <3>2. CASE ~(b = a \/ ask[b].kind = "none")
      <4>1. ask[b] \in RewardAsk
        BY <3>2, AskFacts
      <4>2. [ask[b] EXCEPT !.stale = TRUE] \in RewardAsk
        BY <4>1 DEF RewardAsk
      <4> QED BY <3>2, <4>2, <1>2
    <3> QED BY <3>1, <3>2
  <2>2. ask' = [b \in Asks |-> IF b = a \/ ask[b].kind = "none" THEN NoAsk
                                ELSE [ask[b] EXCEPT !.stale = TRUE]]
    BY DEF Wrote
  <2> QED BY <2>1, <2>2
<1>5. mining.version \in Nat /\ mining'.version \in Nat /\ mining.lossDay \in Nat
      /\ mining'.lossDay \in Nat
  <2>1. mining.version \in Nat /\ mining.lossDay \in 1..RewardDays
    BY RewardRowFields
  <2>2. mining'.version \in Nat /\ mining'.lossDay \in 1..RewardDays
    BY RewardRowFields
  <2> QED BY <2>1, <2>2
<1>6. ASSUME NEW b \in Asks, ask'[b].kind # "none"
      PROVE  ReadOK(ask[b])'
  <2> DEFINE q == ask[b]
  <2>1. q \in RewardAsk /\ ReadOK(q) /\ ask'[b] = [q EXCEPT !.stale = TRUE]
    BY <1>3, <1>6
  <2>2. q.seen \in RewardRow
    BY <2>1 DEF RewardAsk
  <2> HIDE DEF q
  <2>3. q.seen.version \in Nat /\ q.seen.lossDay \in Nat
    <3> DEFINE r == q.seen
    <3>1. r \in RewardRow
      BY <2>2
    <3> HIDE DEF r
    <3>2. r.version \in Nat /\ r.lossDay \in 1..RewardDays
      BY <3>1, RewardRowFields
    <3> QED BY <3>2 DEF r
  <2>4. /\ ask'[b].kind = q.kind /\ ask'[b].at = q.at /\ ask'[b].seen = q.seen
        /\ ask'[b].had = q.had /\ ask'[b].today = q.today /\ ask'[b].entry = q.entry
        /\ ask'[b].stale
    BY <2>1 DEF RewardAsk
  <2>5. /\ q.seen.lossDay <= mining.lossDay /\ q.seen.version <= mining.version
        /\ q.seen.version = mining.version => q.had = entries
    BY <2>1 DEF ReadOK
  <2>6. /\ q.seen.lossDay <= mining'.lossDay /\ q.seen.version <= mining'.version
    BY <1>5, <2>3, <2>5
  <2>7. q.seen.version = mining'.version => q.had = entries'
    BY <1>5, <2>3, <2>5
  <2> QED BY <2>1, <2>4, <2>6, <2>7 DEF ReadOK, LossFits
<1>7. RequestsRead'
  BY <1>4, <1>6 DEF RequestsRead
<1>8. Savers' \subseteq Savers
  <2> SUFFICES ASSUME NEW b \in Asks, ask'[b].kind = "daily", ask'[b].at = "save"
               PROVE  ask[b].kind = "daily" /\ ask[b].at = "save"
    BY DEF Savers
  <2> QED BY <1>3 DEF RewardAsk
<1>9. MinersFit'
  BY <1>8, FewerSavers
<1>10. raced' = (raced \/ ask[a].stale) /\ ask[a].stale \in BOOLEAN /\ raced \in BOOLEAN
  BY AskFacts DEF Wrote
<1>11. ~raced' => ~raced /\ ask[a].seen = mining
  BY <1>10, AskFacts DEF ReadOK
<1>12. GrantsAreCounted'
  BY <1>11 DEF GrantsAreCounted
<1>13. RowFits' /\ OnePrivilegePerCharge' /\ entries' \in Histories /\ raced' \in BOOLEAN
  BY <1>10 DEF RowFits, LossFits, OnePrivilegePerCharge, RewInv
<1>14. RewardsTypeOK'
  <2>1. RewShape'
    BY <1>4, <1>9, <1>13 DEF RewShape
  <2> QED BY <2>1, RewTypesHold, PTL
<1> QED BY <1>7, <1>9, <1>12, <1>13, <1>14 DEF RewInv

----------------------------------------------------------------------------
\* Nothing but counters and the streak: the loss, its day and the version stay.
LEMMA TimesOrdered == \A k, a, b \in Nat : a <= b => k * a <= k * b /\ k * a \in Nat
<1> SUFFICES ASSUME NEW k \in Nat, NEW a \in Nat, NEW b \in Nat, a <= b
             PROVE  k * a <= k * b /\ k * a \in Nat
  OBVIOUS
<1>1. PICK d \in Nat : b = a + d
  <2>1. b - a \in Nat /\ b = a + (b - a)
    OBVIOUS
  <2> QED BY <2>1
<1>2. k * b = k * a + k * d /\ k * d \in Nat /\ k * a \in Nat /\ k * b \in Nat
  BY <1>1
<1> QED BY <1>2

LEMMA LossStays ==
  ASSUME NEW r, NEW s, r.loss = s.loss, r.lossDay = s.lossDay, LossFits(s)
  PROVE  LossFits(r)
BY DEF LossFits

LEMMA StaysInOrder ==
  ASSUME RewInv
  PROVE  mining.lossDay \in Nat /\ mining.lossDay <= mining.lossDay /\ mining.lossDay <= serverDay
         /\ LossFits(mining) /\ mining.version \in Nat
<1>1. mining.lossDay \in 1..RewardDays /\ mining.version \in Nat
  BY RewFacts, RewardRowFields
<1> QED BY <1>1, RewFacts

\* What a reward POST writes of the streak, over a row that it had read.
LEMMA PostsStreak ==
  ASSUME RewInv, NEW a \in Asks, ask[a].kind # "none", ask[a].today \in LocalDays,
         NEW s, NEW l,
         LET q == ask[a]
             next == ComputeStreak(q.seen, q.today)
         IN  /\ s = IF next = q.seen THEN mining.streak ELSE next.streak
             /\ l = IF next = q.seen THEN mining.last ELSE next.last
  PROVE  /\ s \in Nat /\ l \in {0} \cup LocalDays
         /\ ~raced /\ ask[a].seen = mining =>
              (l - s + 1)..l \subseteq daysActive \cup {ask[a].today}
<1> DEFINE q == ask[a]
           next == ComputeStreak(q.seen, q.today)
<1>1. q.seen \in RewardRow /\ mining \in RewardRow
  BY AskFacts, RewFacts
<1>2. /\ next \in RewardRow
      /\ \A D : (q.seen.last - q.seen.streak + 1)..q.seen.last \subseteq D
              => (next.last - next.streak + 1)..next.last \subseteq D \cup {q.today}
  BY <1>1, StreakGrows
<1>3. ~raced => (mining.last - mining.streak + 1)..mining.last \subseteq daysActive
  BY DEF RewInv, GrantsAreCounted
<1> HIDE DEF next
<1>4. next.streak \in Nat /\ next.last \in {0} \cup LocalDays
  BY <1>2, RewardRowFields
<1>5. mining.streak \in Nat /\ mining.last \in {0} \cup LocalDays
  BY <1>1, RewardRowFields
<1>6. /\ s = IF next = q.seen THEN mining.streak ELSE next.streak
      /\ l = IF next = q.seen THEN mining.last ELSE next.last
  BY DEF next
<1>7. s \in Nat /\ l \in {0} \cup LocalDays
  BY <1>4, <1>5, <1>6
<1>8. ASSUME ~raced, ask[a].seen = mining
      PROVE  (l - s + 1)..l \subseteq daysActive \cup {ask[a].today}
  <2>1. s = next.streak /\ l = next.last
    BY <1>6, <1>8
  <2>2. (next.last - next.streak + 1)..next.last \subseteq daysActive \cup {ask[a].today}
    BY <1>2, <1>3, <1>8
  <2> QED BY <2>1, <2>2
<1> QED BY <1>7, <1>8

LEMMA GameKeeps ==
  ASSUME RewInv, NEW a \in Asks, NEW wanted \in 1..(GameMost + 1), PostsGame(a, wanted)
  PROVE  RewInv'
<1> DEFINE q == ask[a]
           c == DayCounter(q.seen.gameDay, q.seen.gameGh, q.today)
           n == GameGranted(q.seen, q.today, wanted)
           next == ComputeStreak(q.seen, q.today)
           s == IF next = q.seen THEN mining.streak ELSE next.streak
           l == IF next = q.seen THEN mining.last ELSE next.last
<1>1. /\ q.kind = "game" /\ Wrote(a)
      /\ mining' = [mining EXCEPT !.gameDay = c.day, !.gameGh = c.used + n,
                                  !.streak = s, !.last = l]
      /\ given' = [given EXCEPT !.game[c.day] = @ + n]
      /\ daysActive' = daysActive \cup {q.today}
      /\ UNCHANGED <<asked, serverDay, screens, entries, freeMiner, privileges, chargedOn,
                     clearedOn, tradesPaid>>
  BY DEF PostsGame
<1>2. /\ q.kind # "none" /\ q.seen \in RewardRow /\ q.today \in LocalDays
      /\ mining \in RewardRow /\ given \in GivenType /\ daysActive \subseteq LocalDays
  BY <1>1, AskFacts, RewFacts DEF ReadOK
<1>3. s \in Nat /\ l \in {0} \cup LocalDays
      /\ (~raced /\ q.seen = mining => (l - s + 1)..l \subseteq daysActive \cup {q.today})
  BY <1>2, PostsStreak
<1>4. c.day \in LocalDays /\ c.used \in Nat
  BY <1>2, RewardRowFields, DayCounterIs
<1>5. n \in Nat /\ (n = 0 \/ c.used + n <= GamePerDay)
  BY <1>2, GrantFits
<1>6. ASSUME ~raced, q.seen = mining
      PROVE  Budget(c.day, c.used + n, [given.game EXCEPT ![c.day] = @ + n], GamePerDay)
  <2>1. Budget(mining.gameDay, mining.gameGh, given.game, GamePerDay)
    BY <1>6 DEF RewInv, GrantsAreCounted
  <2>2. /\ mining.gameDay \in {0} \cup LocalDays /\ mining.gameGh \in Nat
        /\ given.game \in [LocalDays -> Nat] /\ GamePerDay \in Nat
    BY <1>2, RewardRowFields, RewardsFacts DEF GivenType
  <2>3. c = DayCounter(mining.gameDay, mining.gameGh, q.today)
    BY <1>6
  <2> HIDE DEF c, n
  <2>4. LET b == DayCounter(mining.gameDay, mining.gameGh, q.today)
        IN  Budget(b.day, b.used + n, [given.game EXCEPT ![b.day] = @ + n], GamePerDay)
    BY <1>2, <1>5, <2>1, <2>2, <2>3, BudgetSpent
  <2> QED BY <2>3, <2>4
<1>7. ~raced => /\ Budget(mining.privDay, mining.privAds, given.privilege, PrivPerDay)
                /\ given.super = mining.superAds
  BY DEF RewInv, GrantsAreCounted
<1> HIDE DEF c, n, s, l, q
<1>8. /\ given' \in GivenType /\ given'.game = [given.game EXCEPT ![c.day] = @ + n]
      /\ given'.privilege = given.privilege /\ given'.super = given.super
  BY <1>1, <1>2, <1>4, <1>5 DEF GivenType
<1>9. /\ mining' \in RewardRow /\ mining'.gameDay = c.day /\ mining'.gameGh = c.used + n
      /\ mining'.streak = s /\ mining'.last = l
      /\ mining'.privDay = mining.privDay /\ mining'.privAds = mining.privAds
      /\ mining'.superAds = mining.superAds /\ mining'.loss = mining.loss
      /\ mining'.lossDay = mining.lossDay /\ mining'.version = mining.version
  <2> DEFINE d == c.day  u == c.used + n
  <2>1. /\ d \in LocalDays /\ u \in Nat /\ mining \in RewardRow
        /\ mining' = [mining EXCEPT !.gameDay = d, !.gameGh = u, !.streak = s, !.last = l]
    BY <1>1, <1>2, <1>4, <1>5
  <2> HIDE DEF d, u
  <2>2. /\ mining' \in RewardRow /\ mining'.gameDay = d /\ mining'.gameGh = u
        /\ mining'.streak = s /\ mining'.last = l
    BY <1>3, <2>1 DEF RewardRow
  <2>3. /\ mining'.privDay = mining.privDay /\ mining'.privAds = mining.privAds
        /\ mining'.superAds = mining.superAds /\ mining'.loss = mining.loss
        /\ mining'.lossDay = mining.lossDay /\ mining'.version = mining.version
    BY <2>1 DEF RewardRow
  <2> QED BY <2>2, <2>3 DEF d, u
<1>10. LossFits(mining')
  BY <1>9, LossStays, StaysInOrder
<1>11. PaidAreClaimed'
  BY <1>1 DEF RewInv, PaidAreClaimed
<1>12. daysActive' \subseteq LocalDays /\ tradesPaid' \in [Trades -> Nat]
  BY <1>1, <1>2, RewFacts
<1>13. ~raced /\ q.seen = mining =>
           /\ Budget(mining'.gameDay, mining'.gameGh, given'.game, GamePerDay)
           /\ Budget(mining'.privDay, mining'.privAds, given'.privilege, PrivPerDay)
           /\ given'.super = mining'.superAds
           /\ (mining'.last - mining'.streak + 1)..mining'.last \subseteq daysActive'
  BY <1>1, <1>3, <1>6, <1>7, <1>8, <1>9
<1>14. mining.lossDay <= mining'.lossDay /\ mining'.lossDay <= serverDay
  BY <1>9, StaysInOrder
<1> QED
  BY <1>1, <1>2, <1>8, <1>9, <1>10, <1>11, <1>12, <1>13, <1>14, WriteKeeps DEF q

LEMMA PrivilegeAdKeeps ==
  ASSUME RewInv, NEW a \in Asks, PostsPrivilegeAd(a)
  PROVE  RewInv'
<1> DEFINE q == ask[a]
           c == DayCounter(q.seen.privDay, q.seen.privAds, q.today)
           counts == ActivePrivileges # {}
           grants == counts /\ c.used < PrivPerDay
           n == IF grants THEN 1 ELSE 0
           next == ComputeStreak(q.seen, q.today)
           s == IF next = q.seen THEN mining.streak ELSE next.streak
           l == IF next = q.seen THEN mining.last ELSE next.last
<1>1. /\ q.kind = "privilege" /\ Wrote(a)
      /\ mining' = [mining EXCEPT !.privDay = IF counts THEN c.day ELSE @,
                                  !.privAds = IF counts THEN c.used + n ELSE @,
                                  !.streak = s, !.last = l]
      /\ given' = IF grants THEN [given EXCEPT !.privilege[c.day] = @ + 1] ELSE given
      /\ daysActive' = daysActive \cup {q.today}
      /\ UNCHANGED <<asked, serverDay, screens, entries, freeMiner, privileges, chargedOn,
                     clearedOn, tradesPaid>>
  BY DEF PostsPrivilegeAd
<1>2. /\ q.kind # "none" /\ q.seen \in RewardRow /\ q.today \in LocalDays
      /\ mining \in RewardRow /\ given \in GivenType /\ daysActive \subseteq LocalDays
  BY <1>1, AskFacts, RewFacts DEF ReadOK
<1>3. s \in Nat /\ l \in {0} \cup LocalDays
      /\ (~raced /\ q.seen = mining => (l - s + 1)..l \subseteq daysActive \cup {q.today})
  BY <1>2, PostsStreak
<1>4. c.day \in LocalDays /\ c.used \in Nat
  BY <1>2, RewardRowFields, DayCounterIs
<1>5. n \in Nat /\ (n = 0 \/ c.used + n <= PrivPerDay)
  <2>1. PrivPerDay \in Nat
    BY RewardsFacts
  <2> HIDE DEF c
  <2> QED BY <1>4, <2>1
<1>6. ASSUME ~raced, q.seen = mining, counts
      PROVE  Budget(c.day, c.used + n, [given.privilege EXCEPT ![c.day] = @ + n], PrivPerDay)
  <2>1. Budget(mining.privDay, mining.privAds, given.privilege, PrivPerDay)
    BY <1>6 DEF RewInv, GrantsAreCounted
  <2>2. /\ mining.privDay \in {0} \cup LocalDays /\ mining.privAds \in Nat
        /\ given.privilege \in [LocalDays -> Nat] /\ PrivPerDay \in Nat
    BY <1>2, RewardRowFields, RewardsFacts DEF GivenType
  <2>3. c = DayCounter(mining.privDay, mining.privAds, q.today)
    BY <1>6
  <2> HIDE DEF c, n
  <2>4. LET b == DayCounter(mining.privDay, mining.privAds, q.today)
        IN  Budget(b.day, b.used + n, [given.privilege EXCEPT ![b.day] = @ + n], PrivPerDay)
    BY <1>2, <1>5, <2>1, <2>2, <2>3, BudgetSpent
  <2> QED BY <2>3, <2>4
<1>7. ~raced => /\ Budget(mining.gameDay, mining.gameGh, given.game, GamePerDay)
                /\ Budget(mining.privDay, mining.privAds, given.privilege, PrivPerDay)
                /\ given.super = mining.superAds
  BY DEF RewInv, GrantsAreCounted
<1> HIDE DEF c, s, l, q
<1>8. /\ given' \in GivenType /\ given'.game = given.game /\ given'.super = given.super
      /\ counts => given'.privilege = [given.privilege EXCEPT ![c.day] = @ + n]
      /\ ~counts => given'.privilege = given.privilege
  <2>1. CASE grants
    <3>1. n = 1 /\ given' = [given EXCEPT !.privilege[c.day] = @ + 1] /\ counts
      BY <1>1, <2>1
    <3> HIDE DEF n, counts, grants
    <3> QED BY <1>2, <1>4, <3>1 DEF GivenType
  <2>2. CASE ~grants
    <3>1. n = 0 /\ given' = given
      BY <1>1, <2>2
    <3>2. [given.privilege EXCEPT ![c.day] = @ + 0] = given.privilege
      BY <1>2, <1>4 DEF GivenType
    <3> HIDE DEF n, counts, grants
    <3> QED BY <1>2, <3>1, <3>2
  <2> QED BY <2>1, <2>2
<1> HIDE DEF counts, grants, n
<1>9. /\ mining' \in RewardRow
      /\ counts => mining'.privDay = c.day /\ mining'.privAds = c.used + n
      /\ ~counts => mining'.privDay = mining.privDay /\ mining'.privAds = mining.privAds
      /\ mining'.streak = s /\ mining'.last = l
      /\ mining'.gameDay = mining.gameDay /\ mining'.gameGh = mining.gameGh
      /\ mining'.superAds = mining.superAds /\ mining'.loss = mining.loss
      /\ mining'.lossDay = mining.lossDay /\ mining'.version = mining.version
  <2> DEFINE d == IF counts THEN c.day ELSE mining.privDay
             u == IF counts THEN c.used + n ELSE mining.privAds
  <2>1. /\ d \in {0} \cup LocalDays /\ u \in Nat
    BY <1>2, <1>4, <1>5, RewardRowFields
  <2>2. mining' = [mining EXCEPT !.privDay = d, !.privAds = u, !.streak = s, !.last = l]
    BY <1>1
  <2> HIDE DEF d, u
  <2>3. /\ mining' \in RewardRow /\ mining'.privDay = d /\ mining'.privAds = u
        /\ mining'.streak = s /\ mining'.last = l
    BY <1>2, <1>3, <2>1, <2>2 DEF RewardRow
  <2>4. /\ mining'.gameDay = mining.gameDay /\ mining'.gameGh = mining.gameGh
        /\ mining'.superAds = mining.superAds /\ mining'.loss = mining.loss
        /\ mining'.lossDay = mining.lossDay /\ mining'.version = mining.version
    BY <1>2, <2>2 DEF RewardRow
  <2>5. /\ counts => d = c.day /\ u = c.used + n
        /\ ~counts => d = mining.privDay /\ u = mining.privAds
    BY DEF d, u
  <2> QED BY <2>3, <2>4, <2>5
<1>10. LossFits(mining')
  BY <1>9, LossStays, StaysInOrder
<1>11. PaidAreClaimed'
  BY <1>1 DEF RewInv, PaidAreClaimed
<1>12. daysActive' \subseteq LocalDays /\ tradesPaid' \in [Trades -> Nat]
  BY <1>1, <1>2, RewFacts
<1>13. ~raced /\ q.seen = mining =>
           /\ Budget(mining'.gameDay, mining'.gameGh, given'.game, GamePerDay)
           /\ Budget(mining'.privDay, mining'.privAds, given'.privilege, PrivPerDay)
           /\ given'.super = mining'.superAds
           /\ (mining'.last - mining'.streak + 1)..mining'.last \subseteq daysActive'
  BY <1>1, <1>3, <1>6, <1>7, <1>8, <1>9
<1>14. mining.lossDay <= mining'.lossDay /\ mining'.lossDay <= serverDay
  BY <1>9, StaysInOrder
<1> QED
  BY <1>1, <1>2, <1>8, <1>9, <1>10, <1>11, <1>12, <1>13, <1>14, WriteKeeps DEF q

LEMMA SuperAdKeeps ==
  ASSUME RewInv, NEW a \in Asks, NEW count \in 1..(SuperPerDay + 1), PostsSuperAd(a, count)
  PROVE  RewInv'
<1> DEFINE q == ask[a]
           before == q.seen.superAds
           counts == SuperAdCounts(before, count)
           n == IF counts THEN 1 ELSE 0
           next == ComputeStreak(q.seen, q.today)
           s == IF next = q.seen THEN mining.streak ELSE next.streak
           l == IF next = q.seen THEN mining.last ELSE next.last
<1>1. /\ q.kind = "super" /\ Wrote(a)
      /\ mining' = [mining EXCEPT !.superAds = before + n, !.streak = s, !.last = l]
      /\ given' = IF counts THEN [given EXCEPT !.super = @ + 1] ELSE given
      /\ daysActive' = daysActive \cup {q.today}
      /\ UNCHANGED <<asked, serverDay, screens, entries, freeMiner, privileges, chargedOn,
                     clearedOn, tradesPaid>>
  BY DEF PostsSuperAd
<1>2. /\ q.kind # "none" /\ q.seen \in RewardRow /\ q.today \in LocalDays
      /\ mining \in RewardRow /\ given \in GivenType /\ daysActive \subseteq LocalDays
  BY <1>1, AskFacts, RewFacts DEF ReadOK
<1>3. s \in Nat /\ l \in {0} \cup LocalDays
      /\ (~raced /\ q.seen = mining => (l - s + 1)..l \subseteq daysActive \cup {q.today})
  BY <1>2, PostsStreak
<1>4. before \in 0..SuperPerDay /\ SuperPerDay \in Nat
  BY <1>2, RewardRowFields, RewardsFacts
<1>5. before + n \in 0..SuperPerDay /\ n \in Nat
  BY <1>4 DEF SuperAdCounts
<1>6. ~raced => /\ Budget(mining.gameDay, mining.gameGh, given.game, GamePerDay)
                /\ Budget(mining.privDay, mining.privAds, given.privilege, PrivPerDay)
                /\ given.super = mining.superAds
  BY DEF RewInv, GrantsAreCounted
<1>7. q.seen = mining => before = mining.superAds
  OBVIOUS
<1> HIDE DEF s, l, q, before
<1>8. /\ given' \in GivenType /\ given'.game = given.game
      /\ given'.privilege = given.privilege /\ given'.super = given.super + n
  <2>1. given.super \in Nat
    BY <1>2 DEF GivenType
  <2>2. CASE counts
    <3>1. n = 1 /\ given' = [given EXCEPT !.super = @ + 1]
      BY <1>1, <2>2
    <3> HIDE DEF n, counts
    <3> QED BY <1>2, <2>1, <3>1 DEF GivenType
  <2>3. CASE ~counts
    <3>1. n = 0 /\ given' = given
      BY <1>1, <2>3
    <3> HIDE DEF n, counts
    <3> QED BY <1>2, <2>1, <3>1
  <2> QED BY <2>2, <2>3
<1> HIDE DEF counts, n
<1>9. /\ mining' \in RewardRow /\ mining'.superAds = before + n
      /\ mining'.streak = s /\ mining'.last = l
      /\ mining'.gameDay = mining.gameDay /\ mining'.gameGh = mining.gameGh
      /\ mining'.privDay = mining.privDay /\ mining'.privAds = mining.privAds
      /\ mining'.loss = mining.loss
      /\ mining'.lossDay = mining.lossDay /\ mining'.version = mining.version
  <2> DEFINE u == before + n
  <2>1. u \in 0..SuperPerDay /\ mining' = [mining EXCEPT !.superAds = u, !.streak = s, !.last = l]
    BY <1>1, <1>5
  <2> HIDE DEF u
  <2>2. /\ mining' \in RewardRow /\ mining'.superAds = u
        /\ mining'.streak = s /\ mining'.last = l
    BY <1>2, <1>3, <2>1 DEF RewardRow
  <2>3. /\ mining'.gameDay = mining.gameDay /\ mining'.gameGh = mining.gameGh
        /\ mining'.privDay = mining.privDay /\ mining'.privAds = mining.privAds
        /\ mining'.loss = mining.loss
        /\ mining'.lossDay = mining.lossDay /\ mining'.version = mining.version
    BY <1>2, <2>1 DEF RewardRow
  <2> QED BY <2>2, <2>3 DEF u
<1>10. LossFits(mining')
  BY <1>9, LossStays, StaysInOrder
<1>11. PaidAreClaimed'
  BY <1>1 DEF RewInv, PaidAreClaimed
<1>12. daysActive' \subseteq LocalDays /\ tradesPaid' \in [Trades -> Nat]
  BY <1>1, <1>2, RewFacts
<1>13. ~raced /\ q.seen = mining =>
           /\ Budget(mining'.gameDay, mining'.gameGh, given'.game, GamePerDay)
           /\ Budget(mining'.privDay, mining'.privAds, given'.privilege, PrivPerDay)
           /\ given'.super = mining'.superAds
           /\ (mining'.last - mining'.streak + 1)..mining'.last \subseteq daysActive'
  BY <1>1, <1>3, <1>6, <1>7, <1>8, <1>9
<1>14. mining.lossDay <= mining'.lossDay /\ mining'.lossDay <= serverDay
  BY <1>9, StaysInOrder
<1> QED
  BY <1>1, <1>2, <1>8, <1>9, <1>10, <1>11, <1>12, <1>13, <1>14, WriteKeeps DEF q

\* A request that goes on or ends, and leaves the row, the histories and what
\* was granted alone.
LEMMA AskKeeps ==
  ASSUME RewInv, NEW a \in Asks, NEW x \in RewardAsk \cup {NoAsk},
         x.kind # "none" => ReadOK(x),
         ask' = [ask EXCEPT ![a] = x],
         UNCHANGED <<serverDay, screens, mining, entries, chargedOn, clearedOn, raced, given,
                     tradesPaid, daysActive>>,
         asked' \in 0..MaxRequests, MinersFit', privileges' \in [Charges -> Nat],
         OnePrivilegePerCharge'
  PROVE  RewInv'
<1> USE RewFacts
<1>1. ask' \in [Asks -> RewardAsk \cup {NoAsk}]
  OBVIOUS
<1>2. ASSUME NEW b \in Asks, ask'[b].kind # "none"
      PROVE  ReadOK(ask[b])'
  <2>1. ReadOK(ask'[b])
    BY <1>2 DEF RewInv, RequestsRead
  <2> QED BY <2>1 DEF ReadOK
<1>3. RequestsRead'
  BY <1>1, <1>2 DEF RequestsRead
<1>4. GrantsAreCounted' /\ PaidAreClaimed' /\ RowFits'
  BY DEF RewInv, GrantsAreCounted, PaidAreClaimed, RowFits, LossFits, Budget
<1>5. RewardsTypeOK'
  <2>1. RewShape'
    BY <1>1 DEF RewShape
  <2> QED BY <2>1, RewTypesHold, PTL
<1> QED BY <1>3, <1>4, <1>5 DEF RewInv

LEMMA EndKeeps ==
  ASSUME RewInv, NEW a \in Asks, Ended(a),
         UNCHANGED <<serverDay, screens, mining, entries, chargedOn, clearedOn, given,
                     tradesPaid, daysActive, asked, freeMiner>>,
         privileges' \in [Charges -> Nat], OnePrivilegePerCharge'
  PROVE  RewInv'
<1>1. ask' = [ask EXCEPT ![a] = NoAsk] /\ raced' = raced /\ NoAsk.kind = "none"
  BY DEF Ended, NoAsk
<1>2. ask \in [Asks -> RewardAsk \cup {NoAsk}] /\ asked \in 0..MaxRequests
  BY RewFacts
<1>3. Savers' \subseteq Savers
  BY <1>1, <1>2 DEF Savers
<1>4. MinersFit'
  BY <1>3, FewerSavers
<1> QED BY <1>1, <1>2, <1>4, AskKeeps

LEMMA HistoriesKeep ==
  ASSUME RewInv, NEW a \in Asks, AddEntry(a) \/ ClaimSpin(a)
  PROVE  RewInv' /\ ClaimedStaysClaimed
<1> DEFINE q == ask[a]
<1>1. /\ q.kind # "none" /\ q.kind \in {"add", "claim"}
      /\ UNCHANGED <<asked, serverDay, screens, freeMiner, privileges, chargedOn, clearedOn,
                     given, tradesPaid, daysActive>>
  BY DEF AddEntry, ClaimSpin
<1>2. /\ q \in RewardAsk /\ ReadOK(q) /\ q.had \in Histories
  BY <1>1, AskFacts
<1>3. privileges' \in [Charges -> Nat] /\ OnePrivilegePerCharge'
  BY <1>1, RewFacts DEF RewInv, OnePrivilegePerCharge
<1>4. CASE Ended(a) /\ UNCHANGED <<mining, entries>>
  <2>1. ClaimedStaysClaimed
    BY <1>4 DEF ClaimedStaysClaimed
  <2> QED BY <1>1, <1>3, <1>4, <2>1, EndKeeps
<1>5. ASSUME SameVersion(q.seen), NEW e \in Entries, NEW v \in {"pending", "claimed"},
             entries' = [q.had EXCEPT ![e] = v],
             v = "pending" => q.had[e] = "none", v = "claimed" => e \in Spins,
             mining' = [mining EXCEPT !.version = @ + 1], Wrote(a)
      PROVE  RewInv' /\ ClaimedStaysClaimed
  <2>1. q.had = entries
    BY <1>2, <1>5 DEF SameVersion, ReadOK
  <2>2. entries' \in Histories /\ entries' = [entries EXCEPT ![e] = v] /\ entries \in Histories
    BY <1>2, <1>5, <2>1 DEF Histories
  <2>3. /\ mining' \in RewardRow /\ mining'.superAds = mining.superAds
        /\ mining'.streak = mining.streak /\ mining'.last = mining.last
        /\ mining'.gameDay = mining.gameDay /\ mining'.gameGh = mining.gameGh
        /\ mining'.privDay = mining.privDay /\ mining'.privAds = mining.privAds
        /\ mining'.loss = mining.loss
        /\ mining'.lossDay = mining.lossDay /\ mining'.version = mining.version + 1
    <3>1. mining \in RewardRow
      BY RewFacts
    <3> QED BY <1>5, <3>1 DEF RewardRow
  <2>4. LossFits(mining')
    BY <2>3, LossStays, StaysInOrder
  <2>5. mining.lossDay <= mining'.lossDay /\ mining'.lossDay <= serverDay
    BY <2>3, StaysInOrder
  <2>6. ~raced => /\ Budget(mining.gameDay, mining.gameGh, given.game, GamePerDay)
                  /\ Budget(mining.privDay, mining.privAds, given.privilege, PrivPerDay)
                  /\ given.super = mining.superAds
                  /\ (mining.last - mining.streak + 1)..mining.last \subseteq daysActive
    BY DEF RewInv, GrantsAreCounted
  <2>7. ~raced /\ q.seen = mining =>
           /\ Budget(mining'.gameDay, mining'.gameGh, given'.game, GamePerDay)
           /\ Budget(mining'.privDay, mining'.privAds, given'.privilege, PrivPerDay)
           /\ given'.super = mining'.superAds
           /\ (mining'.last - mining'.streak + 1)..mining'.last \subseteq daysActive'
    BY <1>1, <2>3, <2>6
  <2>8. ClaimedStaysClaimed
    BY <1>5, <2>1, <2>2 DEF ClaimedStaysClaimed, Histories
  <2>9. PaidAreClaimed'
    <3>1. \A t \in Trades : tradesPaid[t] <= 1 /\ (tradesPaid[t] # 0 => entries[t] = "claimed")
      BY DEF RewInv, PaidAreClaimed
    <3>2. Trades \subseteq Entries
      BY DEF Entries
    <3> QED BY <1>1, <2>8, <3>1, <3>2 DEF PaidAreClaimed, ClaimedStaysClaimed
  <2>10. /\ given' \in GivenType /\ tradesPaid' \in [Trades -> Nat]
         /\ daysActive' \subseteq LocalDays
    BY <1>1, RewFacts
  <2> QED
    BY <1>1, <1>5, <2>2, <2>3, <2>4, <2>5, <2>7, <2>8, <2>9, <2>10, WriteKeeps
<1>6. CASE AddEntry(a)
  <2>1. q.entry \in Entries
    BY <1>2, <1>6 DEF AddEntry, ReadOK
  <2>2. CASE q.had[q.entry] = "none" /\ SameVersion(q.seen)
    BY <1>5, <1>6, <2>1, <2>2 DEF AddEntry
  <2> QED BY <1>4, <1>6, <2>2 DEF AddEntry
<1>7. CASE ClaimSpin(a)
  <2>1. q.entry \in Spins /\ q.entry \in Entries
    BY <1>7 DEF ClaimSpin, Entries
  <2>2. CASE q.had[q.entry] # "none" /\ SameVersion(q.seen)
    BY <1>5, <1>7, <2>1, <2>2 DEF ClaimSpin
  <2> QED BY <1>4, <1>7, <2>2 DEF ClaimSpin
<1> QED BY <1>6, <1>7

LEMMA TradeKeeps ==
  ASSUME RewInv, NEW a \in Asks, NEW wanted \in 1..(GameMost + 1), ClaimTrade(a, wanted)
  PROVE  RewInv' /\ ClaimedStaysClaimed
<1> DEFINE q == ask[a]
           c == DayCounter(q.seen.gameDay, q.seen.gameGh, q.today)
           n == GameGranted(q.seen, q.today, wanted)
           new == [q.seen EXCEPT !.gameDay = c.day, !.gameGh = c.used + n,
                                 !.stock = q.seen.stock + n]
<1>1. /\ q.kind = "claim" /\ q.entry \in Trades
      /\ UNCHANGED <<asked, serverDay, screens, freeMiner, privileges, chargedOn, clearedOn,
                     daysActive>>
  BY DEF ClaimTrade
<1>2. privileges' \in [Charges -> Nat] /\ OnePrivilegePerCharge'
  BY <1>1, RewFacts DEF RewInv, OnePrivilegePerCharge
<1>3. CASE Ended(a) /\ UNCHANGED <<mining, entries, given, tradesPaid>>
  <2>1. ClaimedStaysClaimed
    BY <1>3 DEF ClaimedStaysClaimed
  <2> QED BY <1>1, <1>2, <1>3, <2>1, EndKeeps
<1>4. ASSUME MayClaim(q.had[q.entry]), SameVersion(q.seen),
             entries' = [q.had EXCEPT ![q.entry] = "claimed"],
             mining' = [Saved(q.seen, new) EXCEPT !.version = mining.version + 1],
             given' = [given EXCEPT !.game[c.day] = @ + n],
             tradesPaid' = [tradesPaid EXCEPT ![q.entry] = @ + 1],
             Wrote(a)
      PROVE  RewInv' /\ ClaimedStaysClaimed
  <2>1. /\ q.kind # "none" /\ q.seen \in RewardRow /\ q.today \in LocalDays
        /\ mining \in RewardRow /\ given \in GivenType /\ daysActive \subseteq LocalDays
        /\ entries \in Histories /\ ReadOK(q)
    BY <1>1, AskFacts, RewFacts DEF ReadOK
  <2>2. c.day \in LocalDays /\ c.used \in Nat
    BY <2>1, RewardRowFields, DayCounterIs
  <2>3. n \in Nat /\ (n = 0 \/ c.used + n <= GamePerDay)
    BY <2>1, GrantFits
  <2>4. ASSUME ~raced, q.seen = mining
        PROVE  Budget(c.day, c.used + n, [given.game EXCEPT ![c.day] = @ + n], GamePerDay)
    <3>1. Budget(mining.gameDay, mining.gameGh, given.game, GamePerDay)
      BY <2>4 DEF RewInv, GrantsAreCounted
    <3>2. /\ mining.gameDay \in {0} \cup LocalDays /\ mining.gameGh \in Nat
          /\ given.game \in [LocalDays -> Nat] /\ GamePerDay \in Nat
      BY <2>1, RewardRowFields, RewardsFacts DEF GivenType
    <3>3. c = DayCounter(mining.gameDay, mining.gameGh, q.today)
      BY <2>4
    <3> HIDE DEF c, n
    <3>4. LET b == DayCounter(mining.gameDay, mining.gameGh, q.today)
          IN  Budget(b.day, b.used + n, [given.game EXCEPT ![b.day] = @ + n], GamePerDay)
      BY <2>1, <2>3, <3>1, <3>2, <3>3, BudgetSpent
    <3> QED BY <3>3, <3>4
  <2>5. ~raced => /\ Budget(mining.privDay, mining.privAds, given.privilege, PrivPerDay)
                  /\ given.super = mining.superAds
                  /\ (mining.last - mining.streak + 1)..mining.last \subseteq daysActive
    BY DEF RewInv, GrantsAreCounted
  <2>6. q.had = entries /\ entries[q.entry] = "pending" /\ q.entry \in Entries
    BY <1>1, <1>4, <2>1 DEF SameVersion, ReadOK, MayClaim, Entries
  <2>7. entries' = [entries EXCEPT ![q.entry] = "claimed"] /\ entries' \in Histories
    BY <1>4, <2>1, <2>6 DEF Histories
  <2>8. given' \in GivenType /\ given'.game = [given.game EXCEPT ![c.day] = @ + n]
        /\ given'.privilege = given.privilege /\ given'.super = given.super
    <3> HIDE DEF c, n
    <3> QED BY <1>4, <2>1, <2>2, <2>3 DEF GivenType
  <2> DEFINE d == c.day  u == c.used + n  v == q.seen.stock + n
             m == Saved(q.seen, new)
  <2>9. d \in LocalDays /\ u \in Nat /\ v \in Nat
    <3>1. q.seen.stock \in Nat
      BY <2>1, RewardRowFields
    <3> HIDE DEF c, n
    <3> QED BY <2>2, <2>3, <3>1
  <2>10. new = [q.seen EXCEPT !.gameDay = d, !.gameGh = u, !.stock = v]
    OBVIOUS
  <2> HIDE DEF d, u, v, c, n, new, q
  <2>11. /\ new \in RewardRow /\ new.gameDay = d /\ new.gameGh = u
         /\ new.privDay = q.seen.privDay /\ new.privAds = q.seen.privAds
         /\ new.superAds = q.seen.superAds /\ new.streak = q.seen.streak
         /\ new.last = q.seen.last /\ new.loss = q.seen.loss
         /\ new.lossDay = q.seen.lossDay /\ new.version = q.seen.version
    BY <2>1, <2>9, <2>10 DEF RewardRow
  <2>12. /\ m \in RewardRow
         /\ m.gameDay = IF d = q.seen.gameDay THEN mining.gameDay ELSE d
         /\ m.gameGh = IF u = q.seen.gameGh THEN mining.gameGh ELSE u
         /\ m.privDay = mining.privDay /\ m.privAds = mining.privAds
         /\ m.superAds = mining.superAds /\ m.streak = mining.streak
         /\ m.last = mining.last /\ m.loss = mining.loss
         /\ m.lossDay = mining.lossDay /\ m.version = mining.version
    <3> DEFINE r == q.seen
    <3>1. r \in RewardRow /\ m = Saved(r, new)
      BY <2>1 DEF m
    <3>2. /\ new.privDay = r.privDay /\ new.privAds = r.privAds
          /\ new.superAds = r.superAds /\ new.streak = r.streak
          /\ new.last = r.last /\ new.loss = r.loss
          /\ new.lossDay = r.lossDay /\ new.version = r.version
      BY <2>11
    <3> HIDE DEF r
    <3>3. /\ m \in RewardRow
          /\ m.gameDay = IF new.gameDay = r.gameDay THEN mining.gameDay ELSE new.gameDay
          /\ m.gameGh = IF new.gameGh = r.gameGh THEN mining.gameGh ELSE new.gameGh
          /\ m.privDay = mining.privDay /\ m.privAds = mining.privAds
          /\ m.superAds = mining.superAds /\ m.streak = mining.streak
          /\ m.last = mining.last /\ m.loss = mining.loss
          /\ m.lossDay = mining.lossDay /\ m.version = mining.version
      BY <2>1, <2>11, <3>1, <3>2, SavedFields
    <3> QED BY <2>11, <3>3 DEF r
  <2> HIDE DEF m
  <2>13. /\ mining' \in RewardRow
         /\ mining'.gameDay = m.gameDay /\ mining'.gameGh = m.gameGh
         /\ mining'.privDay = mining.privDay /\ mining'.privAds = mining.privAds
         /\ mining'.superAds = mining.superAds /\ mining'.streak = mining.streak
         /\ mining'.last = mining.last /\ mining'.loss = mining.loss
         /\ mining'.lossDay = mining.lossDay /\ mining'.version = mining.version + 1
    <3>1. mining.version + 1 \in Nat
      BY StaysInOrder
    <3>2. mining' = [m EXCEPT !.version = mining.version + 1]
      BY <1>4 DEF m, new, c, n, q
    <3> QED BY <2>12, <3>1, <3>2 DEF RewardRow
  <2>14. q.seen = mining => mining'.gameDay = d /\ mining'.gameGh = u
    BY <2>12, <2>13
  <2>15. LossFits(mining')
    BY <2>13, LossStays, StaysInOrder
  <2>16. mining.lossDay <= mining'.lossDay /\ mining'.lossDay <= serverDay
    BY <2>13, StaysInOrder
  <2>17. ~raced /\ q.seen = mining =>
           /\ Budget(mining'.gameDay, mining'.gameGh, given'.game, GamePerDay)
           /\ Budget(mining'.privDay, mining'.privAds, given'.privilege, PrivPerDay)
           /\ given'.super = mining'.superAds
           /\ (mining'.last - mining'.streak + 1)..mining'.last \subseteq daysActive'
    BY <1>1, <2>4, <2>5, <2>8, <2>13, <2>14 DEF d, u
  <2>18. ClaimedStaysClaimed
    BY <2>1, <2>7 DEF ClaimedStaysClaimed, Histories
  <2>19. tradesPaid \in [Trades -> Nat] /\ Trades \subseteq Entries /\ q.entry \in Trades
    BY <1>1, RewFacts DEF Entries, q
  <2>20. tradesPaid' = [tradesPaid EXCEPT ![q.entry] = @ + 1]
    BY <1>4 DEF q
  <2>21. tradesPaid[q.entry] = 0
    BY <2>6, <2>19 DEF RewInv, PaidAreClaimed
  <2>22. PaidAreClaimed'
    <3> SUFFICES ASSUME NEW t \in Trades
                 PROVE  tradesPaid'[t] <= 1 /\ (tradesPaid'[t] # 0 => entries'[t] = "claimed")
      BY DEF PaidAreClaimed
    <3>1. CASE t = q.entry
      BY <2>6, <2>7, <2>19, <2>20, <2>21, <3>1 DEF Histories
    <3>2. CASE t # q.entry
      <4>1. tradesPaid'[t] = tradesPaid[t] /\ entries'[t] = entries[t]
        BY <2>1, <2>7, <2>19, <2>20, <3>2 DEF Histories
      <4> QED BY <4>1 DEF RewInv, PaidAreClaimed
    <3> QED BY <3>1, <3>2
  <2>23. tradesPaid' \in [Trades -> Nat] /\ daysActive' \subseteq LocalDays
    BY <1>1, <2>1, <2>19, <2>20
  <2> QED
    BY <1>1, <1>4, <2>1, <2>7, <2>8, <2>13, <2>15, <2>16, <2>17, <2>18, <2>22, <2>23, WriteKeeps
    DEF q
<1> QED BY <1>3, <1>4 DEF ClaimTrade

\* A save of a new version of the row read, that leaves its counters, histories
\* and the streak's days in order.
LEMMA DocumentSaveKeeps ==
  ASSUME RewInv, NEW a \in Asks, ask[a].kind # "none", Wrote(a), NEW new \in RewardRow,
         mining' = Saved(ask[a].seen, new),
         new.gameDay = ask[a].seen.gameDay, new.gameGh = ask[a].seen.gameGh,
         new.privDay = ask[a].seen.privDay, new.privAds = ask[a].seen.privAds,
         new.superAds = ask[a].seen.superAds, new.version = ask[a].seen.version,
         new.lossDay \in {ask[a].seen.lossDay, serverDay},
         new.lossDay = ask[a].seen.lossDay => new.loss <= ask[a].seen.loss,
         LossFits(new),
         daysActive' \subseteq LocalDays,
         ~raced /\ ask[a].seen = mining =>
           (new.last - new.streak + 1)..new.last \subseteq daysActive',
         UNCHANGED <<asked, serverDay, screens, entries, freeMiner, privileges, chargedOn,
                     clearedOn, given, tradesPaid>>
  PROVE  RewInv'
<1> DEFINE seen == ask[a].seen
<1>1. /\ seen \in RewardRow /\ mining \in RewardRow /\ given \in GivenType
      /\ LossFits(seen) /\ seen.lossDay <= mining.lossDay /\ LossFits(mining)
      /\ mining.lossDay <= serverDay /\ serverDay \in 1..RewardDays
      /\ tradesPaid \in [Trades -> Nat]
  BY AskFacts, RewFacts DEF ReadOK
<1> HIDE DEF seen
<1>2. /\ mining' \in RewardRow
      /\ mining'.gameDay = mining.gameDay /\ mining'.gameGh = mining.gameGh
      /\ mining'.privDay = mining.privDay /\ mining'.privAds = mining.privAds
      /\ mining'.superAds = mining.superAds /\ mining'.version = mining.version
      /\ mining'.streak = IF new.streak = seen.streak THEN mining.streak ELSE new.streak
      /\ mining'.last = IF new.last = seen.last THEN mining.last ELSE new.last
      /\ mining'.loss = IF new.loss = seen.loss THEN mining.loss ELSE new.loss
      /\ mining'.lossDay = IF new.lossDay = seen.lossDay THEN mining.lossDay ELSE new.lossDay
  <2>1. mining' = Saved(seen, new)
    BY DEF seen
  <2>2. /\ new.gameDay = seen.gameDay /\ new.gameGh = seen.gameGh
        /\ new.privDay = seen.privDay /\ new.privAds = seen.privAds
        /\ new.superAds = seen.superAds /\ new.version = seen.version
    BY DEF seen
  <2> DEFINE m == Saved(seen, new)
  <2>3. /\ m \in RewardRow
        /\ m.gameDay = mining.gameDay /\ m.gameGh = mining.gameGh
        /\ m.privDay = mining.privDay /\ m.privAds = mining.privAds
        /\ m.superAds = mining.superAds /\ m.version = mining.version
        /\ m.streak = IF new.streak = seen.streak THEN mining.streak ELSE new.streak
        /\ m.last = IF new.last = seen.last THEN mining.last ELSE new.last
        /\ m.loss = IF new.loss = seen.loss THEN mining.loss ELSE new.loss
        /\ m.lossDay = IF new.lossDay = seen.lossDay THEN mining.lossDay ELSE new.lossDay
    BY <1>1, <2>2, SavedFields
  <2> HIDE DEF m
  <2>4. mining' = m
    BY <2>1 DEF m
  <2> QED BY <2>3, <2>4
<1>3. /\ new.loss \in Nat /\ new.lossDay \in Nat /\ seen.loss \in Nat /\ seen.lossDay \in Nat
      /\ mining.loss \in Nat /\ mining.lossDay \in Nat /\ serverDay \in Nat
      /\ new.lossDay > 0 /\ seen.lossDay > 0 /\ mining.lossDay > 0
  <2>1. new.loss \in Nat /\ new.lossDay \in 1..RewardDays
    BY RewardRowFields
  <2>2. seen.loss \in Nat /\ seen.lossDay \in 1..RewardDays
    BY <1>1, RewardRowFields
  <2>3. mining.loss \in Nat /\ mining.lossDay \in 1..RewardDays
    BY <1>1, RewardRowFields
  <2> QED BY <1>1, <2>1, <2>2, <2>3
<1>4. mining.lossDay <= mining'.lossDay /\ mining'.lossDay <= serverDay /\ mining'.lossDay \in Nat
      /\ mining'.lossDay > 0 /\ (mining'.lossDay = new.lossDay \/ new.lossDay = seen.lossDay)
  BY <1>1, <1>2, <1>3 DEF seen
<1>5. LossFits(mining')
  <2>1. LossPerDay \in Nat
    BY RewardsFacts
  <2> DEFINE old == mining.lossDay - 1  now == mining'.lossDay - 1
  <2>2. old \in Nat /\ now \in Nat /\ old <= now /\ mining.loss <= LossPerDay * old
    BY <1>1, <1>3, <1>4 DEF LossFits
  <2>3. LossPerDay * old <= LossPerDay * now /\ LossPerDay * old \in Nat
        /\ LossPerDay * now \in Nat
    <3> HIDE DEF old, now
    <3> QED BY <2>1, <2>2, TimesOrdered
  <2>4. CASE new.loss = seen.loss
    <3>1. mining'.loss = mining.loss
      BY <1>2, <2>4
    <3> HIDE DEF old
    <3>2. mining'.loss <= LossPerDay * now
      <4> HIDE DEF now
      <4> QED BY <1>3, <2>2, <2>3, <3>1
    <3> QED BY <3>2 DEF LossFits
  <2>5. CASE new.loss # seen.loss /\ new.lossDay # seen.lossDay
    <3>1. mining'.loss = new.loss /\ mining'.lossDay = new.lossDay
      BY <1>2, <2>5
    <3> QED BY <3>1, LossStays
  <2>6. CASE new.loss # seen.loss /\ new.lossDay = seen.lossDay
    <3> DEFINE then == seen.lossDay - 1
    <3>1. mining'.loss = new.loss /\ new.loss <= seen.loss
      BY <1>2, <2>6 DEF seen
    <3>2. then \in Nat /\ then <= now /\ seen.loss <= LossPerDay * then
      BY <1>1, <1>3, <1>4 DEF LossFits
    <3>3. LossPerDay * then <= LossPerDay * now /\ LossPerDay * then \in Nat
      <4> HIDE DEF then, now
      <4> QED BY <2>1, <2>2, <3>2, TimesOrdered
    <3>4. mining'.loss <= LossPerDay * now
      <4> HIDE DEF then, now
      <4> QED BY <1>3, <2>3, <3>1, <3>2, <3>3
    <3> QED BY <3>4 DEF LossFits
  <2> QED BY <2>4, <2>5, <2>6
<1>6. ~raced => /\ Budget(mining.gameDay, mining.gameGh, given.game, GamePerDay)
                /\ Budget(mining.privDay, mining.privAds, given.privilege, PrivPerDay)
                /\ given.super = mining.superAds
  BY DEF RewInv, GrantsAreCounted
<1>7. seen = mining => mining'.last = new.last /\ mining'.streak = new.streak
  BY <1>2
<1>8. ~raced /\ seen = mining =>
           /\ Budget(mining'.gameDay, mining'.gameGh, given'.game, GamePerDay)
           /\ Budget(mining'.privDay, mining'.privAds, given'.privilege, PrivPerDay)
           /\ given'.super = mining'.superAds
           /\ (mining'.last - mining'.streak + 1)..mining'.last \subseteq daysActive'
  BY <1>2, <1>6, <1>7 DEF seen
<1>9. PaidAreClaimed' /\ given' \in GivenType /\ tradesPaid' \in [Trades -> Nat]
  BY <1>1 DEF RewInv, PaidAreClaimed
<1> QED BY <1>2, <1>4, <1>5, <1>8, <1>9, WriteKeeps DEF seen

LEMMA SaveStreakKeeps ==
  ASSUME RewInv, NEW a \in Asks, SaveStreak(a)
  PROVE  RewInv'
<1> DEFINE q == ask[a]
           new == ComputeStreak(q.seen, q.today)
<1>1. /\ q.kind = "daily" /\ Wrote(a) /\ mining' = Saved(q.seen, new)
      /\ daysActive' = daysActive \cup {q.today}
      /\ UNCHANGED <<asked, serverDay, screens, entries, freeMiner, privileges, chargedOn,
                     clearedOn, given, tradesPaid>>
  BY DEF SaveStreak
<1>2. /\ q.kind # "none" /\ q.seen \in RewardRow /\ q.today \in LocalDays /\ LossFits(q.seen)
      /\ daysActive \subseteq LocalDays
  BY <1>1, AskFacts, RewFacts DEF ReadOK
<1>3. /\ new \in RewardRow
      /\ new = [q.seen EXCEPT !.streak = new.streak, !.last = new.last]
      /\ \A D : (q.seen.last - q.seen.streak + 1)..q.seen.last \subseteq D
              => (new.last - new.streak + 1)..new.last \subseteq D \cup {q.today}
  BY <1>2, StreakGrows
<1> HIDE DEF new
<1>4. ~raced => (mining.last - mining.streak + 1)..mining.last \subseteq daysActive
  BY DEF RewInv, GrantsAreCounted
<1>5. ~raced /\ q.seen = mining => (new.last - new.streak + 1)..new.last \subseteq daysActive'
  BY <1>1, <1>3, <1>4
<1>6. /\ new.gameDay = q.seen.gameDay /\ new.gameGh = q.seen.gameGh
      /\ new.privDay = q.seen.privDay /\ new.privAds = q.seen.privAds
      /\ new.superAds = q.seen.superAds /\ new.version = q.seen.version
      /\ new.lossDay = q.seen.lossDay /\ new.loss = q.seen.loss
  <2> DEFINE s == new.streak  l == new.last  r == q.seen
  <2>1. new = [r EXCEPT !.streak = s, !.last = l] /\ r \in RewardRow
    BY <1>2, <1>3
  <2> HIDE DEF s, l, r
  <2>2. /\ new.gameDay = r.gameDay /\ new.gameGh = r.gameGh
        /\ new.privDay = r.privDay /\ new.privAds = r.privAds
        /\ new.superAds = r.superAds /\ new.version = r.version
        /\ new.lossDay = r.lossDay /\ new.loss = r.loss
    BY <2>1 DEF RewardRow
  <2> QED BY <2>2 DEF r
<1>7. new.loss \in Nat
  BY <1>3, RewardRowFields
<1>8. LossFits(new) /\ new.loss <= q.seen.loss
  <2>1. LossFits(new)
    BY <1>2, <1>6, LossStays
  <2> QED BY <2>1, <1>6, <1>7
<1>9. daysActive' \subseteq LocalDays
  BY <1>1, <1>2
<1> HIDE DEF q
<1> QED BY <1>1, <1>2, <1>3, <1>5, <1>6, <1>8, <1>9, DocumentSaveKeeps DEF q

LEMMA DetailsKeep ==
  ASSUME RewInv, NEW a \in Asks, GetsDetails(a)
  PROVE  RewInv'
<1> DEFINE q == ask[a]
<1>1. /\ q.kind = "get" /\ Wrote(a)
      /\ UNCHANGED <<asked, serverDay, screens, entries, freeMiner, privileges, chargedOn,
                     clearedOn, given, tradesPaid, daysActive>>
  BY DEF GetsDetails
<1>2. PICK passed \in {serverDay - q.seen.lossDay - 1, serverDay - q.seen.lossDay} \cap Nat :
        mining' = Saved(q.seen, DailyLoss(q.seen, passed))
  BY DEF GetsDetails
<1>3. /\ q.kind # "none" /\ q.seen \in RewardRow /\ LossFits(q.seen)
      /\ serverDay \in 1..RewardDays /\ daysActive \subseteq LocalDays
  BY <1>1, AskFacts, RewFacts DEF ReadOK
<1> DEFINE r == q.seen
           lossDay == r.lossDay
           more == r.loss + LossPerDay * passed
           loss == IF r.lossAds < AdsNeeded THEN more ELSE 0
           new == DailyLoss(r, passed)
<1>4. r.loss \in Nat /\ lossDay \in 1..RewardDays /\ LossPerDay \in Nat /\ r \in RewardRow
  BY <1>3, RewardRowFields, RewardsFacts
<1>5. more \in Nat /\ loss \in Nat
  BY <1>4
<1>6. new = IF passed = 0 THEN r
            ELSE [r EXCEPT !.loss = loss, !.lossAds = 0, !.lossDay = serverDay]
  BY DEF DailyLoss
<1>7. passed # 0 => serverDay # lossDay /\ passed + (lossDay - 1) <= serverDay - 1
  BY <1>3, <1>4
<1>8. passed # 0 => loss <= LossPerDay * (serverDay - 1)
  <2> SUFFICES ASSUME passed # 0 PROVE loss <= LossPerDay * (serverDay - 1)
    OBVIOUS
  <2> DEFINE old == lossDay - 1  now == serverDay - 1
  <2>1. old \in Nat /\ now \in Nat /\ passed \in Nat /\ passed + old <= now
        /\ r.loss <= LossPerDay * old
    BY <1>3, <1>4, <1>7 DEF LossFits
  <2> HIDE DEF old, now
  <2>2. LossPerDay * (passed + old) <= LossPerDay * now
    BY <1>4, <2>1, TimesOrdered
  <2>3. /\ LossPerDay * (passed + old) = LossPerDay * passed + LossPerDay * old
        /\ LossPerDay * passed \in Nat /\ LossPerDay * old \in Nat /\ LossPerDay * now \in Nat
    BY <1>4, <2>1
  <2>4. more <= LossPerDay * now /\ 0 <= LossPerDay * now
    BY <1>4, <2>1, <2>2, <2>3
  <2>5. loss <= LossPerDay * now
    BY <2>4
  <2> QED BY <2>5 DEF now
<1> HIDE DEF loss, new, lossDay
<1>9. /\ new \in RewardRow
      /\ new.gameDay = r.gameDay /\ new.gameGh = r.gameGh
      /\ new.privDay = r.privDay /\ new.privAds = r.privAds
      /\ new.superAds = r.superAds /\ new.version = r.version
      /\ new.streak = r.streak /\ new.last = r.last
      /\ passed = 0 => new.lossDay = r.lossDay /\ new.loss = r.loss
      /\ passed # 0 => new.lossDay = serverDay /\ new.loss = loss
  <2> HIDE DEF r
  <2> QED BY <1>3, <1>4, <1>5, <1>6 DEF RewardRow
<1>10. LossFits(new)
  <2>1. CASE passed = 0
    BY <1>3, <1>9, <2>1, LossStays
  <2>2. CASE passed # 0
    BY <1>8, <1>9, <2>2 DEF LossFits
  <2> QED BY <2>1, <2>2
<1>11. new.lossDay \in {r.lossDay, serverDay}
       /\ (new.lossDay = r.lossDay => new.loss <= r.loss)
  BY <1>4, <1>7, <1>9 DEF lossDay
<1>12. ~raced /\ r = mining => (new.last - new.streak + 1)..new.last \subseteq daysActive'
  BY <1>1, <1>9 DEF RewInv, GrantsAreCounted
<1>13. mining' = Saved(r, new) /\ daysActive' \subseteq LocalDays
  BY <1>1, <1>2, <1>3 DEF new
<1> QED BY <1>1, <1>3, <1>9, <1>10, <1>11, <1>12, <1>13, DocumentSaveKeeps

LEMMA LossAdKeeps ==
  ASSUME RewInv, NEW a \in Asks, WatchesLossAd(a)
  PROVE  RewInv'
<1> DEFINE q == ask[a]
           r == q.seen
           ads == r.lossAds + 1
           less == Max({0, r.loss - LossPerDay})
           loss == IF ads >= AdsNeeded THEN less ELSE r.loss
           new == [r EXCEPT !.lossAds = ads, !.loss = loss]
<1>1. /\ q.kind = "loss" /\ Wrote(a) /\ mining' = Saved(r, new)
      /\ UNCHANGED <<asked, serverDay, screens, entries, freeMiner, privileges, chargedOn,
                     clearedOn, given, tradesPaid, daysActive>>
  BY DEF WatchesLossAd
<1>2. /\ q.kind # "none" /\ r \in RewardRow /\ LossFits(r) /\ daysActive \subseteq LocalDays
  BY <1>1, AskFacts, RewFacts DEF ReadOK
<1>3. r.loss \in Nat /\ r.lossAds \in Nat /\ LossPerDay \in Nat /\ r.lossDay \in 1..RewardDays
  BY <1>2, RewardRowFields, RewardsFacts
<1>4. less \in Nat /\ less <= r.loss
  <2> DEFINE y == r.loss - LossPerDay
  <2>0. y \in Int
    BY <1>3
  <2>1. less = IF y > 0 THEN y ELSE 0
    <3>1. less = Max({0, y})
      OBVIOUS
    <3> HIDE DEF y, less
    <3> QED BY <2>0, <3>1, MaxWithZero
  <2> HIDE DEF less
  <2> QED BY <1>3, <2>1
<1>5. loss \in Nat /\ loss <= r.loss /\ ads \in Nat
  <2> HIDE DEF less
  <2> QED BY <1>3, <1>4
<1>6. new = [r EXCEPT !.lossAds = ads, !.loss = loss]
  OBVIOUS
<1> HIDE DEF loss, new, ads
<1>7. /\ new \in RewardRow
      /\ new.gameDay = r.gameDay /\ new.gameGh = r.gameGh
      /\ new.privDay = r.privDay /\ new.privAds = r.privAds
      /\ new.superAds = r.superAds /\ new.version = r.version
      /\ new.streak = r.streak /\ new.last = r.last
      /\ new.lossDay = r.lossDay /\ new.loss = loss
  <2> HIDE DEF r
  <2> QED BY <1>2, <1>5, <1>6 DEF RewardRow
<1>8. LossFits(new)
  <2> DEFINE most == LossPerDay * (r.lossDay - 1)
  <2>1. r.loss <= most /\ most \in Int
    BY <1>2, <1>3 DEF LossFits
  <2> HIDE DEF most
  <2>2. loss <= most
    BY <1>3, <1>5, <2>1
  <2> QED BY <1>7, <2>2 DEF most, LossFits
<1>9. ~raced /\ r = mining => (new.last - new.streak + 1)..new.last \subseteq daysActive'
  BY <1>1, <1>7 DEF RewInv, GrantsAreCounted
<1>10. new.loss <= r.loss /\ daysActive' \subseteq LocalDays
  BY <1>1, <1>2, <1>5, <1>7
<1> QED BY <1>1, <1>2, <1>7, <1>8, <1>9, <1>10, DocumentSaveKeeps

LEMMA AskedKeeps ==
  ASSUME RewInv, NEW a \in Asks, NEW kind \in Kinds, NEW today \in {0} \cup LocalDays,
         NEW entry \in {0} \cup Entries, Ask(a, kind, today, entry),
         kind \in {"game", "privilege", "super", "daily"} => today \in LocalDays,
         kind = "claim" /\ entry \in Trades => today \in LocalDays,
         kind = "add" => entry \in Entries
  PROVE  RewInv'
<1> DEFINE x == [kind |-> kind, at |-> "write", seen |-> mining, had |-> entries,
                 today |-> today, entry |-> entry, stale |-> FALSE]
<1>1. /\ ask[a].kind = "none" /\ asked < MaxRequests /\ asked' = asked + 1
      /\ ask' = [ask EXCEPT ![a] = x]
      /\ UNCHANGED <<serverDay, screens, mining, entries, freeMiner, privileges, chargedOn,
                     clearedOn, raced, given, tradesPaid, daysActive>>
  BY DEF Ask
<1>2. x \in RewardAsk
  BY RewFacts DEF RewardAsk
<1>3. /\ x.kind = kind /\ x.at = "write" /\ x.seen = mining /\ x.had = entries
      /\ x.today = today /\ x.entry = entry /\ x.stale = FALSE
  OBVIOUS
<1> HIDE DEF x
<1>4. ReadOK(x)
  BY <1>3, StaysInOrder DEF ReadOK
<1>5. asked' \in 0..MaxRequests
  <2>1. asked \in 0..MaxRequests /\ MaxRequests \in Nat
    BY RewFacts, RewardsFacts
  <2> QED BY <1>1, <2>1
<1>6. MinersFit'
  <2>1. Savers' \subseteq Savers
    BY <1>1, <1>3, RewFacts DEF Savers
  <2> QED BY <1>1, <2>1, FewerSavers
<1>7. privileges' \in [Charges -> Nat] /\ OnePrivilegePerCharge'
  BY <1>1, RewFacts DEF RewInv, OnePrivilegePerCharge
<1> QED BY <1>1, <1>2, <1>4, <1>5, <1>6, <1>7, AskKeeps

LEMMA AskingKeeps ==
  ASSUME RewInv, NEW a \in Asks,
         \/ \E k \in {"game", "privilege", "super", "daily"}, d \in PossibleDays : Ask(a, k, d, 0)
         \/ \E k \in {"loss", "get", "buy"} : Ask(a, k, 0, 0)
         \/ \E e \in Entries : Ask(a, "add", 0, e)
         \/ \E e \in Spins : Ask(a, "claim", 0, e)
         \/ \E e \in Trades, d \in PossibleDays : Ask(a, "claim", d, e)
  PROVE  RewInv'
<1>1. PossibleDays \subseteq LocalDays
  BY RewFacts
<1>2. CASE \E k \in {"game", "privilege", "super", "daily"}, d \in PossibleDays : Ask(a, k, d, 0)
  BY <1>1, <1>2, AskedKeeps DEF Kinds
<1>3. CASE \E k \in {"loss", "get", "buy"} : Ask(a, k, 0, 0)
  BY <1>3, AskedKeeps DEF Kinds
<1>4. CASE \E e \in Entries : Ask(a, "add", 0, e)
  BY <1>4, AskedKeeps DEF Kinds
<1>5. CASE \E e \in Spins : Ask(a, "claim", 0, e)
  BY <1>5, AskedKeeps, RewardsAssumption DEF Kinds, Entries
<1>6. CASE \E e \in Trades, d \in PossibleDays : Ask(a, "claim", d, e)
  BY <1>1, <1>6, AskedKeeps DEF Kinds, Entries
<1> QED BY <1>2, <1>3, <1>4, <1>5, <1>6

\* POST /api/daily-miner up to its streak.
LEMMA MinerKeeps ==
  ASSUME RewInv, NEW a \in Asks, SaveFreeMiner(a) \/ ClaimFreeMiner(a)
  PROVE  RewInv'
<1>1. /\ ask[a].kind = "daily"
      /\ UNCHANGED <<asked, serverDay, screens, mining, entries, privileges, chargedOn,
                     clearedOn, given, tradesPaid, daysActive>>
  BY DEF SaveFreeMiner, ClaimFreeMiner
<1>2. /\ ask[a].kind # "none" /\ ask[a] \in RewardAsk /\ ReadOK(ask[a])
      /\ privileges' \in [Charges -> Nat] /\ OnePrivilegePerCharge'
      /\ asked' \in 0..MaxRequests /\ ask \in [Asks -> RewardAsk \cup {NoAsk}]
  BY <1>1, AskFacts, RewFacts DEF RewInv, OnePrivilegePerCharge
<1>3. CASE Ended(a) /\ UNCHANGED freeMiner
  BY <1>1, <1>2, <1>3, EndKeeps
<1>4. ASSUME NEW l \in {"save", "streak"}, ask' = [ask EXCEPT ![a].at = l],
             raced' = raced, MinersFit'
      PROVE  RewInv'
  <2> DEFINE x == [ask[a] EXCEPT !.at = l]
  <2>1. x \in RewardAsk
    BY <1>2 DEF RewardAsk
  <2>2. /\ x.kind = "daily" /\ x.seen = ask[a].seen /\ x.had = ask[a].had
        /\ x.today = ask[a].today /\ x.entry = ask[a].entry /\ x.stale = ask[a].stale
    BY <1>1, <1>2 DEF RewardAsk
  <2>3. ask' = [ask EXCEPT ![a] = x]
    BY <1>4
  <2> HIDE DEF x
  <2>4. ReadOK(x)
    BY <1>1, <1>2, <2>2 DEF ReadOK
  <2> QED BY <1>1, <1>2, <1>4, <2>1, <2>3, <2>4, AskKeeps
<1> DEFINE N == Cardinality(Asks)  S == Savers  T == Savers'
<1>5. S \subseteq Asks /\ IsFiniteSet(S) /\ Cardinality(S) \in Nat /\ N \in Nat
  BY SaversAreFew DEF Savers
<1>6. T \subseteq Asks /\ IsFiniteSet(T) /\ Cardinality(T) \in Nat /\ Cardinality(T) <= N
  BY SaversAreFew DEF Savers
<1>7. MinersFit
  BY DEF RewInv
<1>8. CASE SaveFreeMiner(a)
  <2>1. CASE freeMiner > 0
    BY <1>3, <1>8, <2>1 DEF SaveFreeMiner
  <2>2. CASE ~(freeMiner > 0)
    <3>1. ask' = [ask EXCEPT ![a].at = "save"] /\ freeMiner' = freeMiner /\ raced' = raced
          /\ freeMiner \in Nat
      BY <1>8, <2>2, RewFacts DEF SaveFreeMiner
    <3>2. freeMiner' = 0
      BY <2>2, <3>1
    <3> HIDE DEF N
    <3>3. 0 + Cardinality(T) <= N
      BY <1>5, <1>6
    <3>4. MinersFit'
      BY <3>2, <3>3 DEF MinersFit, N
    <3> QED BY <1>4, <3>1, <3>4
  <2> QED BY <2>1, <2>2
<1>9. CASE ClaimFreeMiner(a)
  <2>1. ask' = [ask EXCEPT ![a].at = "streak"] /\ freeMiner' = freeMiner + 1 /\ raced' = raced
        /\ ask[a].at = "save"
    BY <1>9 DEF ClaimFreeMiner
  <2>2. T = S \ {a} /\ a \in S
    <3>1. ASSUME NEW b \in Asks, b # a
          PROVE  ask'[b] = ask[b]
      BY <1>2, <2>1, <3>1
    <3>2. ask'[a].at = "streak"
      BY <1>2, <2>1 DEF RewardAsk
    <3> QED BY <1>1, <2>1, <3>1, <3>2 DEF Savers
  <2>3. Cardinality(T) = Cardinality(S) - 1
    BY <1>5, <2>2, FS_RemoveElement
  <2> DEFINE s == Cardinality(S)  t == Cardinality(T)
  <2>4. freeMiner \in Nat /\ freeMiner + s <= N
    BY <1>7 DEF MinersFit
  <2>5. s \in Nat /\ t = s - 1 /\ N \in Nat
    BY <1>5, <2>3
  <2> HIDE DEF s, t, N
  <2>6. freeMiner' \in Nat /\ freeMiner' + t <= N
    BY <2>1, <2>4, <2>5
  <2>7. MinersFit'
    BY <2>6 DEF MinersFit, t, N
  <2> QED BY <1>4, <2>1, <2>7
<1> QED BY <1>8, <1>9

\* POST /api/privileges.
LEMMA PrivilegeKeeps ==
  ASSUME RewInv, NEW a \in Asks,
         (\E c \in Charges : ChecksPrivilege(a, c)) \/ CreatesPrivilege(a)
  PROVE  RewInv'
<1>1. /\ ask[a].kind = "buy"
      /\ UNCHANGED <<asked, serverDay, screens, mining, entries, freeMiner, chargedOn,
                     clearedOn, given, tradesPaid, daysActive>>
  BY DEF ChecksPrivilege, CreatesPrivilege
<1>2. /\ ask[a].kind # "none" /\ ask[a] \in RewardAsk /\ ReadOK(ask[a])
      /\ privileges \in [Charges -> Nat] /\ \A c \in Charges : privileges[c] <= 1
      /\ asked' \in 0..MaxRequests /\ ask \in [Asks -> RewardAsk \cup {NoAsk}]
  BY <1>1, AskFacts, RewFacts DEF RewInv, OnePrivilegePerCharge
<1>3. ASSUME NEW c \in Charges, ChecksPrivilege(a, c)
      PROVE  RewInv'
  <2>1. privileges' = privileges
    BY <1>3 DEF ChecksPrivilege
  <2>2. privileges' \in [Charges -> Nat] /\ OnePrivilegePerCharge'
    BY <1>2, <2>1 DEF OnePrivilegePerCharge
  <2>3. CASE Ended(a)
    BY <1>1, <2>2, <2>3, EndKeeps
  <2>4. CASE /\ ask' = [ask EXCEPT ![a] = [ask[a] EXCEPT !.at = "save", !.entry = c]]
             /\ UNCHANGED raced
    <3> DEFINE x == [ask[a] EXCEPT !.at = "save", !.entry = c]
    <3>1. x \in RewardAsk
      BY <1>2 DEF RewardAsk
    <3>2. /\ x.kind = "buy" /\ x.seen = ask[a].seen /\ x.had = ask[a].had
          /\ x.entry = c /\ x.stale = ask[a].stale
      BY <1>1, <1>2 DEF RewardAsk
    <3>3. ask' = [ask EXCEPT ![a] = x]
      BY <2>4
    <3> HIDE DEF x
    <3>4. ReadOK(x)
      BY <1>2, <3>2 DEF ReadOK
    <3>5. Savers' \subseteq Savers
      BY <1>2, <3>2, <3>3 DEF Savers
    <3>6. MinersFit'
      BY <1>1, <3>5, FewerSavers
    <3> QED BY <1>1, <1>2, <2>2, <2>4, <3>1, <3>3, <3>4, <3>6, AskKeeps
  <2> QED BY <1>3, <2>3, <2>4 DEF ChecksPrivilege
<1>4. CASE CreatesPrivilege(a)
  <2>1. /\ Ended(a) /\ ask[a].entry \in Charges
        /\ privileges' = [privileges EXCEPT ![ask[a].entry] = RowsOf(@)]
    BY <1>2, <1>4 DEF CreatesPrivilege, ReadOK
  <2>2. \A n \in Nat : n <= 1 => RowsOf(n) \in Nat /\ RowsOf(n) <= 1
    BY DEF RowsOf
  <2>3. privileges' \in [Charges -> Nat] /\ OnePrivilegePerCharge'
    BY <1>2, <2>1, <2>2 DEF OnePrivilegePerCharge
  <2> QED BY <1>1, <2>1, <2>3, EndKeeps
<1> QED BY <1>3, <1>4

\* The settlement, the store and the clock.
LEMMA DayKeeps ==
  ASSUME RewInv, NextServerDay \/ ClearsRewards \/ \E c \in Charges : StoreCharges(c)
  PROVE  RewInv'
<1> USE RewFacts
<1>1. CASE NextServerDay
  <2>1. /\ serverDay' = serverDay + 1 /\ serverDay' \in 1..RewardDays
        /\ UNCHANGED <<asked, screens, mining, entries, freeMiner, privileges, chargedOn, ask,
                       clearedOn, raced, given, tradesPaid, daysActive>>
    <3>1. /\ serverDay' = serverDay + 1 /\ serverDay < RewardDays
          /\ UNCHANGED <<asked, screens, mining, entries, freeMiner, privileges, chargedOn, ask,
                         clearedOn, raced, given, tradesPaid, daysActive>>
      BY <1>1 DEF NextServerDay
    <3>2. serverDay \in 1..RewardDays /\ RewardDays \in Nat
      BY RewardsFacts
    <3> QED BY <3>1, <3>2
  <2>2. RowFits'
    <3>1. mining.lossDay \in Nat
      BY StaysInOrder
    <3>2. LossFits(mining')
      BY <2>1 DEF LossFits
    <3> QED BY <2>1, <3>1, <3>2 DEF RowFits, LossFits
  <2>3. /\ RequestsRead' /\ GrantsAreCounted' /\ PaidAreClaimed' /\ MinersFit'
        /\ OnePrivilegePerCharge'
    <3>1. RequestsRead'
      BY <2>1 DEF RewInv, RequestsRead, ReadOK, LossFits
    <3>2. GrantsAreCounted'
      BY <2>1 DEF RewInv, GrantsAreCounted, Budget
    <3>3. Savers' = Savers
      BY <2>1 DEF Savers
    <3>4. MinersFit' /\ PaidAreClaimed' /\ OnePrivilegePerCharge'
      BY <2>1, <3>3, FewerSavers DEF RewInv, PaidAreClaimed, OnePrivilegePerCharge
    <3> QED BY <3>1, <3>2, <3>4
  <2>4. RewShape'
    BY <2>1, <2>3 DEF RewShape
  <2>5. RewardsTypeOK'
    BY <2>4, RewTypesHold, PTL
  <2> QED BY <2>1, <2>2, <2>3, <2>5 DEF RewInv
<1>2. ASSUME NEW c \in Charges, StoreCharges(c)
      PROVE  RewInv'
  <2>1. /\ chargedOn' = [chargedOn EXCEPT ![c] = serverDay]
        /\ UNCHANGED <<asked, serverDay, screens, mining, entries, freeMiner, privileges, ask,
                       clearedOn, raced, given, tradesPaid, daysActive>>
    BY <1>2 DEF StoreCharges
  <2>2. chargedOn' \in [Charges -> 0..RewardDays]
    <3>1. chargedOn \in [Charges -> 0..RewardDays] /\ serverDay \in 1..RewardDays
      BY RewFacts
    <3>2. serverDay \in 0..RewardDays
      BY <3>1
    <3> QED BY <2>1, <3>1, <3>2
  <2>3. RequestsRead' /\ RowFits'
    BY <2>1 DEF RewInv, RequestsRead, ReadOK, LossFits, RowFits
  <2>4. GrantsAreCounted'
    BY <2>1 DEF RewInv, GrantsAreCounted, Budget
  <2>5. Savers' = Savers
    BY <2>1 DEF Savers
  <2>6. MinersFit' /\ PaidAreClaimed' /\ OnePrivilegePerCharge'
    BY <2>1, <2>5, FewerSavers DEF RewInv, PaidAreClaimed, OnePrivilegePerCharge
  <2>7. RewShape'
    BY <2>1, <2>2, <2>6 DEF RewShape
  <2>8. RewardsTypeOK'
    BY <2>7, RewTypesHold, PTL
  <2> QED BY <2>1, <2>3, <2>4, <2>6, <2>8 DEF RewInv
<1>3. CASE ClearsRewards
  <2>1. /\ clearedOn' = serverDay /\ freeMiner' = 0
        /\ mining' = [mining EXCEPT !.superAds = 0, !.stock = 0]
        /\ given' = [given EXCEPT !.super = 0]
        /\ ask' = [a \in Asks |-> IF ask[a].kind = "none" THEN NoAsk
                                  ELSE [ask[a] EXCEPT !.stale = TRUE]]
        /\ UNCHANGED <<asked, serverDay, screens, entries, privileges, chargedOn, raced,
                       tradesPaid, daysActive>>
    BY <1>3 DEF ClearsRewards
  <2>2. clearedOn' \in 0..RewardDays
    BY <2>1, RewardsFacts
  <2>3. /\ mining' \in RewardRow /\ mining'.superAds = 0
        /\ mining'.streak = mining.streak /\ mining'.last = mining.last
        /\ mining'.gameDay = mining.gameDay /\ mining'.gameGh = mining.gameGh
        /\ mining'.privDay = mining.privDay /\ mining'.privAds = mining.privAds
        /\ mining'.loss = mining.loss
        /\ mining'.lossDay = mining.lossDay /\ mining'.version = mining.version
    <3>1. mining' = [mining EXCEPT !.superAds = 0, !.stock = 0]
      BY <2>1
    <3>2. 0 \in Nat /\ 0 \in 0..SuperPerDay
      BY RewardsFacts
    <3> DEFINE S == 0..SuperPerDay
    <3> HIDE DEF S
    <3>3. 0 \in Nat /\ 0 \in S
      BY <3>2 DEF S
    <3>4. mining \in [gameDay: {0} \cup LocalDays, gameGh: Nat,
              privDay: {0} \cup LocalDays, privAds: Nat, superAds: S,
              stock: Nat, streak: Nat, last: {0} \cup LocalDays,
              loss: Nat, lossAds: Nat, lossDay: 1..RewardDays, version: Nat]
      <4>1. mining \in RewardRow
        OBVIOUS
      <4> QED BY <4>1 DEF RewardRow, S
    <3> DEFINE D == 1..RewardDays  L == {0} \cup LocalDays
    <3>5. mining \in [gameDay: L, gameGh: Nat, privDay: L, privAds: Nat, superAds: S,
              stock: Nat, streak: Nat, last: L, loss: Nat, lossAds: Nat, lossDay: D,
              version: Nat]
      BY <3>4
    <3> HIDE DEF D, L
    <3>6. mining' \in [gameDay: L, gameGh: Nat, privDay: L, privAds: Nat, superAds: S,
              stock: Nat, streak: Nat, last: L, loss: Nat, lossAds: Nat, lossDay: D,
              version: Nat]
      BY ONLY <3>1, <3>3, <3>5
    <3>7. mining' \in RewardRow
      BY ONLY <3>6 DEF RewardRow, S, D, L
    <3>8. /\ mining'.superAds = 0
          /\ mining'.streak = mining.streak /\ mining'.last = mining.last
          /\ mining'.gameDay = mining.gameDay /\ mining'.gameGh = mining.gameGh
          /\ mining'.privDay = mining.privDay /\ mining'.privAds = mining.privAds
          /\ mining'.loss = mining.loss
          /\ mining'.lossDay = mining.lossDay /\ mining'.version = mining.version
      BY ONLY <3>1, <3>5
    <3> QED BY <3>7, <3>8
  <2>4. given' \in GivenType /\ given'.game = given.game /\ given'.privilege = given.privilege
        /\ given'.super = 0
    BY <2>1 DEF GivenType
  <2>5. RowFits' /\ GrantsAreCounted'
    BY <2>1, <2>3, <2>4 DEF RewInv, GrantsAreCounted, RowFits, LossFits, Budget
  <2>6. \A b \in Asks : ask'[b].kind # "none" =>
          /\ ask[b] \in RewardAsk /\ ReadOK(ask[b])
          /\ ask'[b] = [ask[b] EXCEPT !.stale = TRUE]
    <3> SUFFICES ASSUME NEW b \in Asks, ask'[b].kind # "none"
                 PROVE  /\ ask[b] \in RewardAsk /\ ReadOK(ask[b])
                        /\ ask'[b] = [ask[b] EXCEPT !.stale = TRUE]
      OBVIOUS
    <3>1. ask[b].kind # "none"
      BY <2>1 DEF NoAsk
    <3> QED BY <2>1, <3>1, AskFacts
  <2>7. ask' \in [Asks -> RewardAsk \cup {NoAsk}]
    <3>1. ASSUME NEW b \in Asks
          PROVE  ask'[b] \in RewardAsk \cup {NoAsk}
      <4>1. CASE ask[b].kind = "none"
        BY <2>1, <4>1
      <4>2. CASE ask[b].kind # "none"
        <5>1. ask[b] \in RewardAsk
          BY <4>2, AskFacts
        <5>2. [ask[b] EXCEPT !.stale = TRUE] \in RewardAsk
          BY <5>1 DEF RewardAsk
        <5> QED BY <2>1, <4>2, <5>2
      <4> QED BY <4>1, <4>2
    <3> QED BY <2>1, <3>1
  <2>8. ASSUME NEW b \in Asks, ask'[b].kind # "none"
        PROVE  ReadOK(ask[b])'
    <3>1. /\ ask[b] \in RewardAsk /\ ReadOK(ask[b])
          /\ ask'[b] = [ask[b] EXCEPT !.stale = TRUE]
      BY <2>6, <2>8
    <3>2. /\ ask'[b].kind = ask[b].kind /\ ask'[b].at = ask[b].at /\ ask'[b].seen = ask[b].seen
          /\ ask'[b].had = ask[b].had /\ ask'[b].today = ask[b].today
          /\ ask'[b].entry = ask[b].entry /\ ask'[b].stale
      BY <3>1 DEF RewardAsk
    <3> QED BY <2>1, <2>3, <3>1, <3>2 DEF ReadOK, LossFits
  <2>9. RequestsRead'
    BY <2>7, <2>8 DEF RequestsRead
  <2>10. MinersFit'
    <3> DEFINE N == Cardinality(Asks)  t == Cardinality(Savers')
    <3>1. t \in Nat /\ t <= N /\ N \in Nat
      BY SaversAreFew DEF Savers
    <3> HIDE DEF N, t
    <3>2. 0 + t <= N
      BY <3>1
    <3> QED BY <2>1, <3>2 DEF MinersFit, N, t
  <2>11. PaidAreClaimed' /\ OnePrivilegePerCharge'
    BY <2>1 DEF RewInv, PaidAreClaimed, OnePrivilegePerCharge
  <2>12. RewShape'
    BY <2>1, <2>2, <2>3, <2>7, <2>10 DEF RewShape
  <2>13. RewardsTypeOK'
    BY <2>12, RewTypesHold, PTL
  <2> QED BY <2>4, <2>5, <2>9, <2>10, <2>11, <2>13 DEF RewInv
<1> QED BY <1>1, <1>2, <1>3

----------------------------------------------------------------------------
LEMMA RewStart == RewardsInit => RewInv
<1> SUFFICES ASSUME RewardsInit PROVE RewInv
  OBVIOUS
<1>1. mining \in RewardRow
  BY RewardsFacts DEF RewardsInit, RewardRow
<1>2. given \in GivenType
  BY DEF RewardsInit, GivenType
<1>3. /\ ask = [a \in Asks |-> NoAsk] /\ NoAsk.kind = "none"
      /\ mining.gameDay = 0 /\ mining.gameGh = 0 /\ mining.privDay = 0 /\ mining.privAds = 0
      /\ mining.superAds = 0 /\ mining.streak = 0 /\ mining.last = 0 /\ mining.loss = 0
      /\ mining.lossDay = 1
      /\ given.game = [d \in LocalDays |-> 0] /\ given.privilege = [d \in LocalDays |-> 0]
      /\ given.super = 0
  BY DEF RewardsInit, NoAsk
<1>4. RequestsRead
  BY <1>3 DEF RequestsRead
<1>5. RowFits
  <2>1. LossPerDay * (1 - 1) = 0
    BY RewardsFacts
  <2> QED BY <1>3, <2>1 DEF RowFits, LossFits, RewardsInit
<1>6. GrantsAreCounted
  <2>1. GamePerDay \in Nat /\ PrivPerDay \in Nat /\ \A d \in LocalDays : d \in Nat
    BY RewardsFacts
  <2>2. /\ Budget(0, 0, given.game, GamePerDay) /\ Budget(0, 0, given.privilege, PrivPerDay)
    BY <1>3, <2>1 DEF Budget
  <2>3. (0 - 0 + 1)..0 = {}
    OBVIOUS
  <2> QED BY <1>3, <2>2, <2>3 DEF GrantsAreCounted
<1>7. MinersFit
  <2> DEFINE N == Cardinality(Asks)  t == Cardinality(Savers)
  <2>1. t \in Nat /\ t <= N /\ N \in Nat
    BY SaversAreFew DEF Savers
  <2> HIDE DEF N, t
  <2>2. 0 + t <= N
    BY <2>1
  <2> QED BY <2>2 DEF RewardsInit, MinersFit, N, t
<1>8. PaidAreClaimed /\ OnePrivilegePerCharge
  BY DEF RewardsInit, PaidAreClaimed, OnePrivilegePerCharge
<1>9. RewShape
  <2>1. /\ serverDay = 1 /\ screens \in Uses /\ asked = 0 /\ clearedOn = 0 /\ raced = FALSE
        /\ entries = [e \in Entries |-> "none"] /\ privileges = [c \in Charges |-> 0]
        /\ chargedOn = [c \in Charges |-> 0] /\ tradesPaid = [t \in Trades |-> 0]
        /\ daysActive = {}
    BY DEF RewardsInit
  <2>2. serverDay \in 1..RewardDays /\ asked \in 0..MaxRequests /\ clearedOn \in 0..RewardDays
    BY <2>1, RewardsFacts
  <2>3. entries \in Histories /\ privileges \in [Charges -> Nat] /\ tradesPaid \in [Trades -> Nat]
    BY <2>1 DEF Histories
  <2>4. chargedOn \in [Charges -> 0..RewardDays]
    BY <2>1, RewardsFacts
  <2>5. ask \in [Asks -> RewardAsk \cup {NoAsk}]
    BY <1>3
  <2> QED BY <1>1, <1>7, <2>1, <2>2, <2>3, <2>4, <2>5 DEF RewShape
<1> QED BY <1>2, <1>4, <1>5, <1>6, <1>7, <1>8, <1>9, RewTypesHold DEF RewInv

LEMMA RewStep == RewInv /\ [RewardsNext]_rewardVars => RewInv' /\ ClaimedStaysClaimed
<1> SUFFICES ASSUME RewInv, [RewardsNext]_rewardVars PROVE RewInv' /\ ClaimedStaysClaimed
  OBVIOUS
<1>1. entries' = entries => ClaimedStaysClaimed
  BY DEF ClaimedStaysClaimed
<1>2. CASE UNCHANGED rewardVars
  <2>1. /\ RewardsTypeOK' /\ RequestsRead' /\ RowFits'
    BY <1>2 DEF rewardVars, RewInv, RewardsTypeOK, RequestsRead, ReadOK, RowFits, LossFits
  <2>2. /\ GrantsAreCounted' /\ PaidAreClaimed' /\ OnePrivilegePerCharge'
        /\ given' \in GivenType
    BY <1>2 DEF rewardVars, RewInv, GrantsAreCounted, Budget, PaidAreClaimed,
      OnePrivilegePerCharge
  <2>3. MinersFit'
    <3>1. Savers' = Savers /\ freeMiner' = freeMiner
      BY <1>2 DEF rewardVars, Savers
    <3> QED BY <3>1, FewerSavers
  <2> QED BY <1>1, <1>2, <2>1, <2>2, <2>3 DEF RewInv, rewardVars
<1>3. CASE NextServerDay \/ ClearsRewards \/ \E c \in Charges : StoreCharges(c)
  <2>1. entries' = entries
    BY <1>3 DEF NextServerDay, ClearsRewards, StoreCharges
  <2> QED BY <1>1, <1>3, <2>1, DayKeeps
<1>4. ASSUME NEW a \in Asks, RewardsStep(a)
      PROVE  RewInv' /\ ClaimedStaysClaimed
  <2>1. CASE \/ \E k \in {"game", "privilege", "super", "daily"}, d \in PossibleDays :
                   Ask(a, k, d, 0)
             \/ \E k \in {"loss", "get", "buy"} : Ask(a, k, 0, 0)
             \/ \E e \in Entries : Ask(a, "add", 0, e)
             \/ \E e \in Spins : Ask(a, "claim", 0, e)
             \/ \E e \in Trades, d \in PossibleDays : Ask(a, "claim", d, e)
    <3>1. entries' = entries
      BY <2>1 DEF Ask
    <3> QED BY <1>1, <2>1, <3>1, AskingKeeps
  <2>2. ASSUME NEW w \in 1..(GameMost + 1), PostsGame(a, w)
        PROVE  RewInv' /\ ClaimedStaysClaimed
    <3>1. entries' = entries
      BY <2>2 DEF PostsGame
    <3> QED BY <1>1, <2>2, <3>1, GameKeeps
  <2>3. ASSUME NEW w \in 1..(GameMost + 1), ClaimTrade(a, w)
        PROVE  RewInv' /\ ClaimedStaysClaimed
    BY <2>3, TradeKeeps
  <2>4. CASE PostsPrivilegeAd(a)
    <3>1. entries' = entries
      BY <2>4 DEF PostsPrivilegeAd
    <3> QED BY <1>1, <2>4, <3>1, PrivilegeAdKeeps
  <2>5. ASSUME NEW n \in 1..(SuperPerDay + 1), PostsSuperAd(a, n)
        PROVE  RewInv' /\ ClaimedStaysClaimed
    <3>1. entries' = entries
      BY <2>5 DEF PostsSuperAd
    <3> QED BY <1>1, <2>5, <3>1, SuperAdKeeps
  <2>6. CASE AddEntry(a) \/ ClaimSpin(a)
    BY <2>6, HistoriesKeep
  <2>7. CASE SaveFreeMiner(a) \/ ClaimFreeMiner(a)
    <3>1. entries' = entries
      BY <2>7 DEF SaveFreeMiner, ClaimFreeMiner
    <3> QED BY <1>1, <2>7, <3>1, MinerKeeps
  <2>8. CASE SaveStreak(a)
    <3>1. entries' = entries
      BY <2>8 DEF SaveStreak
    <3> QED BY <1>1, <2>8, <3>1, SaveStreakKeeps
  <2>9. CASE GetsDetails(a)
    <3>1. entries' = entries
      BY <2>9 DEF GetsDetails
    <3> QED BY <1>1, <2>9, <3>1, DetailsKeep
  <2>10. CASE WatchesLossAd(a)
    <3>1. entries' = entries
      BY <2>10 DEF WatchesLossAd
    <3> QED BY <1>1, <2>10, <3>1, LossAdKeeps
  <2>11. CASE (\E c \in Charges : ChecksPrivilege(a, c)) \/ CreatesPrivilege(a)
    <3>1. entries' = entries
      BY <2>11 DEF ChecksPrivilege, CreatesPrivilege
    <3> QED BY <1>1, <2>11, <3>1, PrivilegeKeeps
  <2> QED
    BY <1>4, <2>1, <2>2, <2>3, <2>4, <2>5, <2>6, <2>7, <2>8, <2>9, <2>10, <2>11 DEF RewardsStep
<1> QED BY <1>2, <1>3, <1>4 DEF RewardsNext

LEMMA RewMeans ==
  RewInv => /\ RewardsTypeOK /\ DailyLimitsHold /\ TradePaidOnce /\ StreakIsEarned
            /\ OnePrivilegePerCharge /\ LossIsOfDays
<1> SUFFICES ASSUME RewInv
             PROVE  /\ RewardsTypeOK /\ DailyLimitsHold /\ TradePaidOnce /\ StreakIsEarned
                    /\ OnePrivilegePerCharge /\ LossIsOfDays
  OBVIOUS
<1>1. mining.superAds \in 0..SuperPerDay /\ SuperPerDay \in Nat
  BY RewFacts, RewardRowFields, RewardsFacts
<1>2. DailyLimitsHold
  BY <1>1 DEF RewInv, GrantsAreCounted, Budget, DailyLimitsHold
<1>3. StreakIsEarned /\ TradePaidOnce /\ LossIsOfDays
  BY DEF RewInv, GrantsAreCounted, PaidAreClaimed, RowFits, LossFits, StreakIsEarned,
    TradePaidOnce, LossIsOfDays
<1> QED BY <1>2, <1>3 DEF RewInv

\* Whatever days the app's clock names, and however its requests overlap, the
\* row and what was granted have their types.
THEOREM RewardsTyped == RewardsSpec => []RewardsTypeOK
<1>1. RewInv /\ [RewardsNext]_rewardVars => RewInv'
  BY RewStep
<1> QED BY <1>1, RewStart, RewMeans, PTL DEF RewardsSpec

\* Every reward a step grants was earned: a day's limit holds and a streak
\* counts only days with a claim as long as no request wrote over another, and
\* in any case a trade is paid once, a claimed entry stays claimed, a charge
\* makes one privilege and the loss is that of the days checked.
THEOREM RewardsEarned == RewardsSpec => RewardsAreEarned
<1>1. RewInv /\ [RewardsNext]_rewardVars => RewInv'
  BY RewStep
<1>2. RewInv' => /\ DailyLimitsHold' /\ TradePaidOnce' /\ StreakIsEarned'
                 /\ OnePrivilegePerCharge' /\ LossIsOfDays'
  BY RewMeans, PTL
<1>3. RewInv /\ [RewardsNext]_rewardVars
        => [/\ DailyLimitsHold' /\ TradePaidOnce' /\ ClaimedStaysClaimed
            /\ StreakIsEarned' /\ OnePrivilegePerCharge' /\ LossIsOfDays']_rewardVars
  BY <1>1, <1>2, RewStep
<1> QED BY <1>1, <1>3, RewStart, PTL DEF RewardsSpec, RewardsAreEarned

-----------------------------------------------------------------------------
(* Repairs.  What each kind of day was credited and recorded follows from    *)
(* where it is: a live or stuck day from its row, an underpaid day from its   *)
(* mark and the run that holds it, a future day from its row unless its      *)
(* payment was cut short.  A run that assesses the wallet is the only one,    *)
(* and what it read is still so unless the server moved.                      *)

RepSteps == {"none", "mark", "inc", "find", "write", "done", "stuck", "history", "payouts",
             "reset", "subtract", "load", "save", "future", "create", "end"}

RepRun == [at: RepSteps, todo: SUBSET RepDays, day: RepDays \cup {0}, seen: Nat, sum: Nat,
           out: Nat, paid: SUBSET StuckDays, moved: 0..2]

Excludes(r) == r.at \in {"history", "payouts", "reset", "subtract", "load", "save", "future",
                         "create", "end"}

HasDay(r) == r.at \in {"inc", "find", "write", "done", "create", "end"}

RunFits(r) ==
  /\ r.at \in {"mark", "inc", "find", "write", "done"} => r.todo \subseteq Underpaid
  /\ r.at \in {"inc", "find", "write", "done"} => r.day \in Underpaid
  /\ r.at = "stuck" => r.todo \subseteq StuckDays
  /\ r.at \in {"future", "create", "end"} => r.todo \subseteq FutureDays
  /\ r.at \in {"create", "end"} => r.day \in FutureDays
  /\ HasDay(r) \/ r.day = 0

DayHeld(d) == \E o \in Operators : run[o].day = d

Shape ==
  /\ wallet \in Nat /\ waiting \in Nat /\ sent \in Nat /\ row \subseteq RepDays
  /\ recorded \in [RepDays -> Nat] /\ dayCredit \in [RepDays -> Nat]
  /\ mark \in [Underpaid -> {"none", "pending", "credited", "failed"}]
  /\ compensated \subseteq StuckDays /\ ended \subseteq FutureDays
  /\ run \in [Operators -> RepRun] /\ half \subseteq RepDays
  /\ moves \in 0..MaxMoves /\ mishaps \in 0..MaxMishaps

RunsFit     == \A o \in Operators : RunFits(run[o])
RunsApart   == \A o, p \in Operators : o # p =>
                 /\ Excludes(run[o]) => run[p].at = "none"
                 /\ HasDay(run[o]) => run[p].day # run[o].day
PaidInRow   == compensated \subseteq row /\ \A o \in Operators : run[o].paid \subseteq row
FilledFits  == filled \subseteq LiveDays \cap row /\ \A d, e \in filled : d = e

LiveCounted  == \A d \in LiveDays :
                  /\ recorded[d] = IF d \in row THEN 1 ELSE 0
                  /\ dayCredit[d] = IF d \in row /\ d \notin filled THEN 1 ELSE 0
StuckCounted == \A d \in StuckDays :
                  /\ recorded[d] = IF d \in row THEN 1 ELSE 0
                  /\ dayCredit[d] = IF d \in row THEN 1 ELSE 0
UnderCounted == \A d \in Underpaid :
                  /\ d \in row
                  /\ mark[d] = "none" => recorded[d] = 0 /\ dayCredit[d] = 0 /\ ~DayHeld(d)
                  /\ dayCredit[d] <= 1
                  /\ d \in half \/ recorded[d] = dayCredit[d] \/ DayHeld(d)
FutureCounted == \A d \in FutureDays : d \in half \/
                  /\ d \in row => recorded[d] = 1 /\ dayCredit[d] = 1
                  /\ d \notin row => recorded[d] = 0
                  /\ d \notin row => dayCredit[d] = 0 \/ (dayCredit[d] = 1 /\ DayHeld(d))

\* Where a payment stands.
PaymentFits(r) ==
  /\ r.at = "inc" => dayCredit[r.day] = 0 /\ recorded[r.day] = 0
  /\ r.at \in {"find", "write"} => dayCredit[r.day] = 1 /\ recorded[r.day] = 0
  /\ r.at = "write" => r.seen = 0
  /\ r.at = "done" => dayCredit[r.day] = 1 /\ recorded[r.day] = 1
  /\ r.at = "create" => /\ r.day \notin row
                        /\ r.day \in half \/ dayCredit[r.day] = 1
  /\ r.at = "end" => r.day \in row
PaymentsFit == \A o \in Operators : PaymentFits(run[o])

ResetFits(r) == r.at \in {"history", "payouts", "reset"} =>
  /\ r.moved = 0 => wallet = r.seen
  /\ r.moved < 2 /\ wallet = r.seen =>
       /\ r.at # "history" /\ half = {} => Sum(dayCredit, RepDays) <= r.sum
       /\ r.at = "reset" => r.out = waiting + sent
RecalculationFits(r) == r.at \in {"subtract", "load", "save"} /\ r.moved = 0 =>
  /\ half = {} => r.sum = Sum(dayCredit, RepDays) + Cardinality(filled)
  /\ r.at # "subtract" => r.out = sent
  /\ r.at = "save" => r.seen = wallet
AssessedFits == \A o \in Operators : ResetFits(run[o]) /\ RecalculationFits(run[o])

DaysCounted == LiveCounted /\ StuckCounted /\ UnderCounted /\ FutureCounted

RepInv ==
  /\ Shape /\ RunsFit /\ RunsApart /\ PaidInRow /\ FilledFits /\ DaysCounted /\ PaymentsFit
  /\ AssessedFits

LEMMA RepFacts ==
  /\ IsFiniteSet(RepDays) /\ 0 \notin RepDays
  /\ LiveDays \subseteq RepDays /\ Underpaid \subseteq RepDays /\ StuckDays \subseteq RepDays
  /\ FutureDays \subseteq RepDays /\ RepDays = LiveDays \cup Underpaid \cup StuckDays \cup FutureDays
  /\ \A d \in LiveDays : d \notin Underpaid /\ d \notin StuckDays /\ d \notin FutureDays
  /\ \A d \in Underpaid : d \notin StuckDays /\ d \notin FutureDays
  /\ \A d \in StuckDays : d \notin FutureDays
  /\ Forged \in Nat /\ MaxMoves \in Nat /\ MaxMishaps \in Nat
BY RepairsAssumption DEF RepDays

LEMMA NoRunFits ==
  /\ NoRun \in RepRun /\ RunFits(NoRun) /\ ~Excludes(NoRun) /\ ~HasDay(NoRun)
  /\ PaymentFits(NoRun) /\ ResetFits(NoRun) /\ RecalculationFits(NoRun)
  /\ NoRun.at = "none" /\ NoRun.todo = {} /\ NoRun.day = 0 /\ NoRun.seen = 0 /\ NoRun.sum = 0
  /\ NoRun.out = 0 /\ NoRun.paid = {} /\ NoRun.moved = 0
BY DEF NoRun, RepRun, RepSteps, RunFits, Excludes, HasDay, PaymentFits, ResetFits,
  RecalculationFits

LEMMA RunFields ==
  ASSUME NEW r \in RepRun
  PROVE  /\ r.at \in RepSteps /\ r.todo \subseteq RepDays /\ r.day \in RepDays \cup {0}
         /\ r.seen \in Nat /\ r.sum \in Nat /\ r.out \in Nat /\ r.paid \subseteq StuckDays
         /\ r.moved \in 0..2
BY DEF RepRun

LEMMA SumIs == \A f : Sum(f, RepDays) = SumOf(f, RepDays)
BY DEF Sum, SumOf

LEMMA CreditsAreNat ==
  ASSUME NEW f \in [RepDays -> Nat]
  PROVE  Sum(f, RepDays) \in Nat
<1>1. \A d \in RepDays : f[d] \in Int /\ f[d] >= 0
  OBVIOUS
<1>2. SumOf(f, RepDays) \in Int /\ SumOf(f, RepDays) >= 0
  BY <1>1, SumType, RepFacts
<1> QED BY <1>2, SumIs

\* With nothing half done, the days the backfill made up are the difference.
LEMMA RecordsAreCredits ==
  ASSUME RepInv, half = {}, \A o \in Operators : run[o].day = 0
  PROVE  Sum(recorded, RepDays) = Sum(dayCredit, RepDays) + Cardinality(filled)
<1> DEFINE R == RepDays
<1>1. dayCredit \in [R -> Nat] /\ recorded \in [R -> Nat] /\ IsFiniteSet(R)
  BY RepFacts DEF RepInv, Shape
<1>2. \A d \in R : ~DayHeld(d)
  BY RepFacts DEF DayHeld
<1>3. \A d \in R : recorded[d] = IF d \in filled THEN dayCredit[d] + 1 ELSE dayCredit[d]
  <2> SUFFICES ASSUME NEW d \in R
               PROVE recorded[d] = IF d \in filled THEN dayCredit[d] + 1 ELSE dayCredit[d]
    OBVIOUS
  <2>0. filled \subseteq LiveDays /\ filled \subseteq row
    BY DEF RepInv, FilledFits
  <2>1. CASE d \in LiveDays
    BY <2>0, <2>1 DEF RepInv, DaysCounted, LiveCounted
  <2>2. CASE d \in StuckDays
    BY <2>0, <2>2, RepFacts DEF RepInv, DaysCounted, StuckCounted
  <2>3. CASE d \in Underpaid
    BY <2>0, <2>3, <1>2, RepFacts DEF RepInv, DaysCounted, UnderCounted
  <2>4. CASE d \in FutureDays
    BY <2>0, <2>4, <1>2, RepFacts DEF RepInv, DaysCounted, FutureCounted
  <2> QED BY <2>1, <2>2, <2>3, <2>4, RepFacts
<1>4. CASE filled = {}
  <2>1. recorded = dayCredit
    BY <1>1, <1>3, <1>4
  <2>2. Cardinality(filled) = 0
    BY <1>4, FS_EmptySet
  <2>3. Sum(dayCredit, RepDays) \in Nat
    BY <1>1, CreditsAreNat
  <2> QED BY <2>1, <2>2, <2>3
<1>5. CASE filled # {}
  <2>1. PICK d \in filled : filled = {d}
    BY <1>5 DEF RepInv, FilledFits
  <2>2. d \in R
    BY RepFacts DEF RepInv, FilledFits
  <2>3. recorded = [dayCredit EXCEPT ![d] = dayCredit[d] + 1]
    BY <1>1, <1>3, <2>1, <2>2
  <2>4. dayCredit \in [R -> Int] /\ dayCredit[d] \in Int /\ dayCredit[d] + 1 \in Int
    BY <1>1, <2>2
  <2> DEFINE y == dayCredit[d] + 1
  <2>5. SumOf([dayCredit EXCEPT ![d] = y], R) = SumOf(dayCredit, R) + y - dayCredit[d]
    <3>1. IsFiniteSet(R) /\ R \in SUBSET R /\ y \in Int /\ d \in R
      BY <1>1, <2>2, <2>4
    <3>2. dayCredit \in [R -> Int]
      BY <2>4
    <3> HIDE DEF y, R
    <3> QED BY ONLY <3>1, <3>2, SumReplace
  <2>6. Cardinality(filled) = 1
    BY <2>1, FS_Singleton
  <2> DEFINE a == SumOf(recorded, R)  b == SumOf(dayCredit, R)
  <2>7. b \in Nat /\ a = b + (dayCredit[d] + 1) - dayCredit[d]
    BY <2>3, <2>5, <1>1, CreditsAreNat, SumIs
  <2> HIDE DEF a, b
  <2>8. a = b + 1
    BY <2>4, <2>7
  <2> QED BY <2>6, <2>8, SumIs DEF a, b
<1> QED BY <1>4, <1>5

\* A step of one script: the others stay, and none of them excludes it.
LEMMA ScriptFrame ==
  ASSUME RepInv, NEW o \in Operators, NEW r \in RepRun, RunFits(r), run' = [run EXCEPT ![o] = r],
         run[o].at = "none" => \A p \in Operators : ~Excludes(run[p]),
         Excludes(r) => Excludes(run[o]) \/ \A p \in Operators : run[p].at = "none",
         HasDay(r) => r.day = run[o].day \/ \A p \in Operators : run[p].day # r.day
  PROVE  /\ run' \in [Operators -> RepRun] /\ run'[o] = r
         /\ \A p \in Operators : p # o => run'[p] = run[p] /\ ~Excludes(run[p])
         /\ RunsFit' /\ RunsApart'
<1>1. run \in [Operators -> RepRun]
  BY DEF RepInv, Shape
<1>2. run' \in [Operators -> RepRun] /\ run'[o] = r
      /\ \A p \in Operators : p # o => run'[p] = run[p]
  BY <1>1
<1>3. \A p \in Operators : p # o => ~Excludes(run[p])
  BY DEF RepInv, RunsApart
<1>4. RunsFit'
  <2> SUFFICES ASSUME NEW p \in Operators PROVE RunFits(run'[p])
    BY DEF RunsFit, RunFits, HasDay
  <2> QED BY <1>2 DEF RepInv, RunsFit
<1>5. RunsApart'
  <2> SUFFICES ASSUME NEW p \in Operators, NEW q \in Operators, p # q
               PROVE  /\ Excludes(run'[p]) => run'[q].at = "none"
                      /\ HasDay(run'[p]) => run'[q].day # run'[p].day
    BY DEF RunsApart, Excludes, HasDay
  <2>0. /\ Excludes(run[p]) => run[q].at = "none"
        /\ HasDay(run[p]) => run[q].day # run[p].day
        /\ HasDay(run[q]) => run[p].day # run[q].day
    BY DEF RepInv, RunsApart
  <2>1. /\ HasDay(run[p]) \/ run[p].day = 0
        /\ HasDay(run[q]) \/ run[q].day = 0
        /\ HasDay(r) \/ r.day = 0
        /\ HasDay(run[p]) => run[p].day # 0
        /\ HasDay(run[q]) => run[q].day # 0
        /\ HasDay(r) => r.day # 0
    BY RepFacts DEF RepInv, RunsFit, RunFits, HasDay
  <2>2. CASE p # o /\ q # o
    BY <1>2, <2>0, <2>2
  <2>3. CASE p = o
    <3>1. run'[p] = r /\ run'[q] = run[q]
      BY <1>2, <2>3
    <3>2. Excludes(r) => run[q].at = "none"
      BY <2>0, <2>3
    <3>3. HasDay(r) => run[q].day # r.day
      BY <2>0, <2>1, <2>3
    <3> QED BY <3>1, <3>2, <3>3
  <2>4. CASE q = o
    <3>1. run'[q] = r /\ run'[p] = run[p] /\ ~Excludes(run[p])
      BY <1>2, <1>3, <2>4
    <3>2. HasDay(run[p]) => r.day # run[p].day
      BY <2>0, <2>1, <2>4
    <3> QED BY <3>1, <3>2
  <2> QED BY <2>2, <2>3, <2>4
<1> QED BY <1>2, <1>3, <1>4, <1>5

\* A step that leaves what the days were given as it is.
LEMMA QuietKeeps ==
  ASSUME RepInv, NEW o \in Operators, NEW r \in RepRun, RunFits(r), run' = [run EXCEPT ![o] = r],
         run[o].at = "none" => \A p \in Operators : ~Excludes(run[p]),
         Excludes(r) => Excludes(run[o]) \/ \A p \in Operators : run[p].at = "none",
         HasDay(r) => r.day = run[o].day \/ \A p \in Operators : run[p].day # r.day,
         UNCHANGED <<row, recorded, dayCredit, filled>>, half \subseteq half', Shape',
         \/ run[o].day = 0 \/ r.day = run[o].day \/ run[o].day \in half'
         \/ recorded[run[o].day] = dayCredit[run[o].day] /\ run[o].day \in row,
         \A d \in Underpaid : mark'[d] = "none" => mark[d] = "none" /\ r.day # d,
         compensated' \subseteq row, r.paid \subseteq row,
         PaymentFits(run[o])', ResetFits(run[o])', RecalculationFits(run[o])'
  PROVE  RepInv'
<1>1. /\ run' \in [Operators -> RepRun] /\ run'[o] = r
      /\ \A p \in Operators : p # o => run'[p] = run[p] /\ ~Excludes(run[p])
      /\ RunsFit' /\ RunsApart'
  BY ScriptFrame
<1>2. UNCHANGED row /\ UNCHANGED recorded /\ UNCHANGED dayCredit /\ UNCHANGED filled
  OBVIOUS
<1>3. PaidInRow'
  BY <1>1, <1>2 DEF RepInv, PaidInRow
<1>4. FilledFits'
  BY <1>2 DEF RepInv, FilledFits
<1>5. ASSUME NEW d \in RepDays
      PROVE  /\ DayHeld(d) => DayHeld(d)' \/ d \in half' \/ (recorded[d] = dayCredit[d] /\ d \in row)
             /\ DayHeld(d)' => DayHeld(d) \/ r.day = d
  <2>1. DayHeld(d)' <=> \E p \in Operators : run'[p].day = d
    BY DEF DayHeld
  <2>2. d # 0
    BY RepFacts
  <2> QED BY <1>1, <2>1, <2>2 DEF DayHeld
<1>6. LiveCounted' /\ StuckCounted'
  BY <1>2 DEF RepInv, DaysCounted, LiveCounted, StuckCounted
<1>7. UnderCounted'
  <2> SUFFICES ASSUME NEW d \in Underpaid
               PROVE  /\ d \in row'
                      /\ mark'[d] = "none" => recorded'[d] = 0 /\ dayCredit'[d] = 0 /\ ~DayHeld(d)'
                      /\ dayCredit'[d] <= 1
                      /\ d \in half' \/ recorded'[d] = dayCredit'[d] \/ DayHeld(d)'
    BY DEF UnderCounted, DayHeld
  <2>1. /\ d \in row
        /\ mark[d] = "none" => recorded[d] = 0 /\ dayCredit[d] = 0 /\ ~DayHeld(d)
        /\ dayCredit[d] <= 1
        /\ d \in half \/ recorded[d] = dayCredit[d] \/ DayHeld(d)
    BY DEF RepInv, DaysCounted, UnderCounted
  <2>2. d \in RepDays
    BY RepFacts
  <2> QED BY <1>2, <1>5, <2>1, <2>2
<1>8. FutureCounted'
  <2> SUFFICES ASSUME NEW d \in FutureDays
               PROVE  d \in half' \/
                  /\ d \in row' => recorded'[d] = 1 /\ dayCredit'[d] = 1
                  /\ d \notin row' => recorded'[d] = 0
                  /\ d \notin row' => dayCredit'[d] = 0 \/ (dayCredit'[d] = 1 /\ DayHeld(d)')
    BY DEF FutureCounted, DayHeld
  <2>1. d \in half \/
                  /\ d \in row => recorded[d] = 1 /\ dayCredit[d] = 1
                  /\ d \notin row => recorded[d] = 0
                  /\ d \notin row => dayCredit[d] = 0 \/ (dayCredit[d] = 1 /\ DayHeld(d))
    BY DEF RepInv, DaysCounted, FutureCounted
  <2>2. d \in RepDays
    BY RepFacts
  <2>3. recorded'[d] = recorded[d] /\ dayCredit'[d] = dayCredit[d] /\ (d \in row' <=> d \in row)
    BY <1>2
  <2>4. CASE d \in half
    BY <2>4
  <2>5. CASE d \in row
    BY <2>1, <2>3, <2>5
  <2>6. CASE d \notin half /\ d \notin row /\ dayCredit[d] = 0
    BY <2>1, <2>3, <2>6
  <2>7. CASE d \notin half /\ d \notin row /\ dayCredit[d] # 0
    <3>1. recorded[d] = 0 /\ dayCredit[d] = 1 /\ DayHeld(d)
      BY <2>1, <2>7
    <3>2. DayHeld(d)' \/ d \in half'
      BY <1>5, <2>2, <2>7, <3>1
    <3> QED BY <2>3, <2>7, <3>1, <3>2
  <2> QED BY <2>4, <2>5, <2>6, <2>7
<1>9. PaymentsFit'
  <2> SUFFICES ASSUME NEW p \in Operators PROVE PaymentFits(run[p])'
    BY DEF PaymentsFit
  <2>1. CASE p = o
    BY <2>1
  <2>2. CASE p # o
    <3>1. PaymentFits(run[p]) /\ run'[p] = run[p]
      BY <1>1, <2>2 DEF RepInv, PaymentsFit
    <3> QED BY <1>2, <3>1 DEF PaymentFits
  <2> QED BY <2>1, <2>2
<1>10. AssessedFits'
  <2> SUFFICES ASSUME NEW p \in Operators PROVE ResetFits(run[p])' /\ RecalculationFits(run[p])'
    BY DEF AssessedFits
  <2>1. CASE p = o
    BY <2>1
  <2>2. CASE p # o
    <3>1. ~Excludes(run'[p])
      BY <1>1, <2>2
    <3> QED BY <3>1 DEF ResetFits, RecalculationFits, Excludes
  <2> QED BY <2>1, <2>2
<1> QED BY <1>1, <1>3, <1>4, <1>6, <1>7, <1>8, <1>9, <1>10 DEF RepInv, DaysCounted

LEMMA OwnRun ==
  ASSUME RepInv, NEW o \in Operators
  PROVE  /\ run[o] \in RepRun /\ RunFits(run[o]) /\ PaymentFits(run[o]) /\ ResetFits(run[o])
         /\ RecalculationFits(run[o]) /\ run[o].paid \subseteq row
         /\ Excludes(run[o]) => \A p \in Operators : p # o => run[p].at = "none"
         /\ compensated \subseteq row
BY DEF RepInv, Shape, RunsFit, PaymentsFit, AssessedFits, PaidInRow, RunsApart

LEMMA NoneExcludes ==
  ASSUME RepInv, NoneAlone \/ Alone
  PROVE  \A p \in Operators : ~Excludes(run[p])
BY DEF NoneAlone, Alone, At, Excludes

LEMMA RestFits ==
  ASSUME NEW q \in RepRun, q.todo \subseteq Underpaid
  PROVE  LET r == NextShortfall(q)
         IN  /\ r \in RepRun /\ RunFits(r) /\ r.day = 0 /\ r.paid = {} /\ r.at \in {"mark", "none"}
<1> DEFINE r == NextShortfall(q)
<1>1. CASE q.todo = {}
  BY <1>1, NoRunFits DEF NextShortfall
<1>2. CASE q.todo # {}
  <2>1. r = [NoRun EXCEPT !.at = "mark", !.todo = q.todo]
    BY <1>2 DEF NextShortfall
  <2> HIDE DEF r
  <2>2. q.todo \in SUBSET RepDays /\ "mark" \in RepSteps
    BY RunFields DEF RepSteps
  <2>3. /\ r \in RepRun /\ r.at = "mark" /\ r.todo = q.todo /\ r.day = 0 /\ r.paid = {}
    BY <2>1, <2>2, NoRunFits DEF RepRun
  <2> QED BY <2>3 DEF r, RunFits
<1> QED BY <1>1, <1>2

\* Steps at which a script holds nothing.
LEMMA IdleFits ==
  ASSUME NEW r, r.at \notin {"inc", "find", "write", "done", "create", "end"}
  PROVE  PaymentFits(r)
BY DEF PaymentFits

LEMMA BlindFits ==
  ASSUME NEW r, r.at \notin {"history", "payouts", "reset", "subtract", "load", "save"}
  PROVE  ResetFits(r) /\ RecalculationFits(r)
BY DEF ResetFits, RecalculationFits

\* A quiet step to a place where nothing is held and nothing was assessed.
LEMMA LetsGo ==
  ASSUME RepInv, NEW o \in Operators, NEW r \in RepRun, RunFits(r), run' = [run EXCEPT ![o] = r],
         run[o].at = "none" => \A p \in Operators : ~Excludes(run[p]),
         Excludes(r) => Excludes(run[o]) \/ \A p \in Operators : run[p].at = "none",
         r.at \in {"none", "mark", "stuck", "future"},
         UNCHANGED <<row, recorded, dayCredit, filled>>, half \subseteq half', Shape',
         \/ run[o].day = 0 \/ run[o].day \in half'
         \/ recorded[run[o].day] = dayCredit[run[o].day] /\ run[o].day \in row,
         \A d \in Underpaid : mark'[d] = "none" => mark[d] = "none",
         compensated' \subseteq row, r.paid \subseteq row
  PROVE  RepInv'
<1>1. run'[o] = r
  BY DEF RepInv, Shape
<1>2. PaymentFits(run[o])' /\ ResetFits(run[o])' /\ RecalculationFits(run[o])'
  <2>1. run'[o].at \in {"none", "mark", "stuck", "future"}
    BY <1>1
  <2> QED BY <2>1 DEF PaymentFits, ResetFits, RecalculationFits
<1>3. ~HasDay(r) /\ r.day = 0
  BY DEF HasDay, RunFits
<1>4. \A d \in Underpaid : r.day # d
  BY <1>3, RepFacts
<1> QED BY <1>1, <1>2, <1>3, <1>4, QuietKeeps

LEMMA StartShortfallKeeps ==
  ASSUME RepInv, NEW o \in Operators, StartShortfall(o)
  PROVE  RepInv'
<1> DEFINE t == {d \in Underpaid : mark[d] = "none"}
           r == [NoRun EXCEPT !.at = "mark", !.todo = t]
<1>1. /\ run' = [run EXCEPT ![o] = r] /\ run[o].at = "none" /\ NoneAlone
      /\ UNCHANGED <<walletVars, dayVars, logVars, half, moves, mishaps>>
  BY DEF StartShortfall, RunGoes, At
<1>2. t \in SUBSET RepDays /\ t \subseteq Underpaid
  BY RepFacts
<1> HIDE DEF t
<1>3. r \in RepRun /\ r.at = "mark" /\ r.todo = t /\ r.day = 0 /\ r.paid = {}
  BY <1>2, NoRunFits DEF RepRun, RepSteps
<1> HIDE DEF r
<1>4. RunFits(r)
  BY <1>2, <1>3 DEF RunFits
<1>5. run[o].day = 0
  BY <1>1, OwnRun DEF RunFits, HasDay
<1>6. run' \in [Operators -> RepRun]
  BY <1>1, <1>3 DEF RepInv, Shape
<1>7. Shape'
  BY <1>1, <1>6 DEF RepInv, Shape, walletVars, dayVars, logVars
<1>8. /\ UNCHANGED <<row, recorded, dayCredit, filled>> /\ half \subseteq half'
      /\ \A d \in Underpaid : mark'[d] = "none" => mark[d] = "none"
      /\ compensated' \subseteq row
  BY <1>1, OwnRun DEF dayVars, logVars
<1>9. (\A p \in Operators : ~Excludes(run[p])) /\ ~Excludes(r)
  BY <1>1, <1>3, NoneExcludes DEF Excludes
<1> QED BY <1>1, <1>3, <1>4, <1>5, <1>7, <1>8, <1>9, LetsGo

\* Steps after which the script has let its day go.
LEMMA MarkKeeps ==
  ASSUME RepInv, NEW o \in Operators, NEW d \in RepDays, MarkDay(o, d)
  PROVE  RepInv'
<1> DEFINE q == run[o]  rest == [q EXCEPT !.todo = q.todo \ {d}]
           s == [rest EXCEPT !.at = "inc", !.day = d]
<1>1. /\ q.at = "mark" /\ d \in q.todo
      /\ UNCHANGED <<walletVars, dayVars, compensated, ended, filled, half, moves, mishaps>>
  BY DEF MarkDay, At
<1>2. /\ q \in RepRun /\ RunFits(q) /\ q.todo \subseteq Underpaid /\ d \in Underpaid /\ q.day = 0
      /\ q.paid \subseteq row /\ compensated \subseteq row
  BY <1>1, OwnRun DEF RunFits, HasDay
<1>3. /\ UNCHANGED <<row, recorded, dayCredit, filled>> /\ half \subseteq half'
      /\ compensated' \subseteq row
  BY <1>1, <1>2 DEF dayVars
<1>4. mark \in [Underpaid -> {"none", "pending", "credited", "failed"}]
  BY DEF RepInv, Shape
<1>5. CASE IsMarked(d)
  <2>1. mark' = [mark EXCEPT ![d] = "failed"] /\ run' = [run EXCEPT ![o] = NextShortfall(rest)]
    BY <1>5 DEF MarkDay, RunGoes
  <2>2. rest \in RepRun /\ rest.todo \subseteq Underpaid
    <3>1. q.todo \ {d} \in SUBSET RepDays
      BY <1>2, RepFacts
    <3> QED BY <1>2, <3>1 DEF RepRun
  <2> DEFINE r == NextShortfall(rest)
  <2>3. r \in RepRun /\ RunFits(r) /\ r.day = 0 /\ r.paid = {} /\ r.at \in {"mark", "none"}
    BY <2>2, RestFits
  <2> HIDE DEF r
  <2>4. run' \in [Operators -> RepRun]
    BY <2>1, <2>3 DEF RepInv, Shape, r
  <2>5. Shape'
    BY <1>1, <1>4, <2>1, <2>4 DEF RepInv, Shape, walletVars, dayVars
  <2>6. \A e \in Underpaid : mark'[e] = "none" => mark[e] = "none"
    BY <1>4, <2>1
  <2>7. run' = [run EXCEPT ![o] = r] /\ ~Excludes(r) /\ run[o].at # "none" /\ run[o].day = 0
    BY <1>1, <1>2, <2>1, <2>3 DEF r, Excludes
  <2> QED BY <1>3, <2>3, <2>5, <2>6, <2>7, LetsGo
<1>6. CASE ~IsMarked(d)
  <2>1. mark' = [mark EXCEPT ![d] = "pending"] /\ run' = [run EXCEPT ![o] = s]
    BY <1>6 DEF MarkDay, RunGoes
  <2>2. /\ s \in RepRun /\ s.at = "inc" /\ s.day = d /\ s.todo \subseteq Underpaid
        /\ s.paid = q.paid
    <3>1. q.todo \ {d} \in SUBSET RepDays /\ d \in RepDays \cup {0}
      BY <1>2, RepFacts
    <3> QED BY <1>2, <3>1 DEF RepRun, RepSteps
  <2> HIDE DEF s
  <2>3. RunFits(s) /\ ~Excludes(s)
    BY <1>2, <2>2 DEF RunFits, HasDay, Excludes
  <2>4. run' \in [Operators -> RepRun] /\ run'[o] = s
    BY <2>1, <2>2 DEF RepInv, Shape
  <2>5. Shape'
    BY <1>1, <1>4, <2>1, <2>4 DEF RepInv, Shape, walletVars, dayVars
  <2>6. recorded[d] = 0 /\ dayCredit[d] = 0 /\ \A p \in Operators : run[p].day # d
    BY <1>2, <1>6 DEF RepInv, DaysCounted, UnderCounted, IsMarked, DayHeld
  <2>7. \A e \in Underpaid : mark'[e] = "none" => mark[e] = "none" /\ s.day # e
    BY <1>4, <2>1, <2>2
  <2>8. PaymentFits(run[o])' /\ ResetFits(run[o])' /\ RecalculationFits(run[o])'
    BY <1>3, <2>2, <2>4, <2>6 DEF PaymentFits, ResetFits, RecalculationFits
  <2>9. run[o].at # "none" /\ run[o].day = 0 /\ s.paid \subseteq row
        /\ \A p \in Operators : run[p].day # s.day
    BY <1>1, <1>2, <2>2, <2>6
  <2> QED BY <1>3, <2>1, <2>2, <2>3, <2>5, <2>7, <2>8, <2>9, QuietKeeps
<1> QED BY <1>5, <1>6

LEMMA FindHistoryKeeps ==
  ASSUME RepInv, NEW o \in Operators, FindHistory(o)
  PROVE  RepInv'
<1> DEFINE q == run[o]  r == [q EXCEPT !.at = "write", !.seen = recorded[q.day]]
<1>1. /\ q.at = "find" /\ run' = [run EXCEPT ![o] = r]
      /\ UNCHANGED <<walletVars, dayVars, logVars, half, moves, mishaps>>
  BY DEF FindHistory, At, RunGoes
<1>2. /\ q \in RepRun /\ RunFits(q) /\ PaymentFits(q) /\ q.paid \subseteq row
      /\ compensated \subseteq row /\ q.day \in Underpaid
      /\ dayCredit[q.day] = 1 /\ recorded[q.day] = 0
  BY <1>1, OwnRun DEF RunFits, PaymentFits
<1>3. /\ r \in RepRun /\ r.at = "write" /\ r.day = q.day /\ r.todo = q.todo
      /\ r.paid = q.paid /\ r.seen = 0
  <2>1. r = [q EXCEPT !.at = "write", !.seen = 0]
    BY <1>2
  <2> HIDE DEF r
  <2> QED BY <1>2, <2>1 DEF RepRun, RepSteps
<1> HIDE DEF r
<1>4. RunFits(r) /\ ~Excludes(r)
  BY <1>1, <1>2, <1>3 DEF RunFits, HasDay, Excludes
<1>5. run' \in [Operators -> RepRun] /\ run'[o] = r
  BY <1>1, <1>3 DEF RepInv, Shape
<1>6. Shape'
  BY <1>1, <1>5 DEF RepInv, Shape, walletVars, dayVars, logVars
<1>7. /\ UNCHANGED <<row, recorded, dayCredit, filled>> /\ half \subseteq half'
      /\ compensated' \subseteq row /\ mark' = mark
  BY <1>1, <1>2 DEF dayVars, logVars
<1>8. \A d \in Underpaid : mark'[d] = "none" => mark[d] = "none" /\ r.day # d
  <2>1. mark[q.day] # "none"
    BY <1>2 DEF RepInv, DaysCounted, UnderCounted
  <2> QED BY <2>1, <1>3, <1>7
<1>9. PaymentFits(run[o])' /\ ResetFits(run[o])' /\ RecalculationFits(run[o])'
  BY <1>2, <1>3, <1>5, <1>7 DEF PaymentFits, ResetFits, RecalculationFits
<1> QED BY <1>1, <1>2, <1>3, <1>4, <1>6, <1>7, <1>8, <1>9, QuietKeeps

LEMMA CreditedKeeps ==
  ASSUME RepInv, NEW o \in Operators, MarkCredited(o) \/ ShortfallFails(o)
  PROVE  RepInv'
<1> DEFINE q == run[o]  r == NextShortfall(q)
<1>1. /\ q.at \in {"inc", "find", "write", "done"} /\ run' = [run EXCEPT ![o] = r]
      /\ UNCHANGED <<walletVars, dayVars, compensated, ended, filled, moves>>
  BY DEF MarkCredited, ShortfallFails, At, RunGoes
<1>2. /\ q \in RepRun /\ RunFits(q) /\ PaymentFits(q) /\ compensated \subseteq row
      /\ q.day \in Underpaid /\ q.day \in RepDays /\ q.todo \subseteq Underpaid
  BY <1>1, OwnRun, RepFacts DEF RunFits
<1>3. r \in RepRun /\ RunFits(r) /\ r.day = 0 /\ r.paid = {} /\ r.at \in {"mark", "none"}
  BY <1>2, RestFits
<1> HIDE DEF r
<1>4. run' \in [Operators -> RepRun]
  BY <1>1, <1>3 DEF RepInv, Shape
<1>5. /\ mark' \in [Underpaid -> {"none", "pending", "credited", "failed"}]
      /\ \A d \in Underpaid : mark'[d] = "none" => mark[d] = "none"
      /\ half' \subseteq RepDays /\ half \subseteq half' /\ mishaps' \in 0..MaxMishaps
      /\ \/ q.day \in half'
         \/ recorded[q.day] = dayCredit[q.day] /\ q.day \in row
  <2>0. /\ mark \in [Underpaid -> {"none", "pending", "credited", "failed"}]
        /\ half \subseteq RepDays /\ mishaps \in 0..MaxMishaps /\ MaxMishaps \in Nat
    BY RepFacts DEF RepInv, Shape
  <2>1. CASE MarkCredited(o)
    <3>1. /\ q.at = "done" /\ mark' = [mark EXCEPT ![q.day] = "credited"]
          /\ half' = half /\ mishaps' = mishaps
      BY <2>1 DEF MarkCredited, At
    <3>2. q.day \in row
      BY <1>2 DEF RepInv, DaysCounted, UnderCounted
    <3>3. recorded[q.day] = dayCredit[q.day]
      BY <1>2, <3>1 DEF PaymentFits
    <3> QED BY <2>0, <3>1, <3>2, <3>3
  <2>2. CASE ShortfallFails(o)
    <3>1. /\ mishaps < MaxMishaps /\ mishaps' = mishaps + 1
          /\ mark' = [mark EXCEPT ![q.day] = "failed"] /\ half' = half \cup {q.day}
      BY <2>2 DEF ShortfallFails
    <3> QED BY <2>0, <3>1, <1>2
  <2> QED BY <2>1, <2>2
<1>6. Shape'
  BY <1>1, <1>4, <1>5 DEF RepInv, Shape, walletVars, dayVars
<1>7. /\ UNCHANGED <<row, recorded, dayCredit, filled>> /\ compensated' \subseteq row
  BY <1>1, <1>2 DEF dayVars
<1>8. ~Excludes(r) /\ run[o].at # "none"
  BY <1>1, <1>3 DEF Excludes
<1> QED BY <1>1, <1>3, <1>5, <1>6, <1>7, <1>8, LetsGo

LEMMA StopKeeps ==
  ASSUME RepInv, NEW o \in Operators, ScriptStopped(o)
  PROVE  RepInv'
<1>1. /\ run[o].at # "none" /\ run' = [run EXCEPT ![o] = NoRun]
      /\ mishaps < MaxMishaps /\ mishaps' = mishaps + 1
      /\ half' = half \cup ({run[o].day} \ {0})
      /\ UNCHANGED <<walletVars, dayVars, mark, compensated, ended, filled, moves>>
  BY DEF ScriptStopped, At, RunGoes
<1>2. run[o].day \in RepDays \cup {0} /\ compensated \subseteq row
  BY OwnRun, RunFields
<1>3. run' \in [Operators -> RepRun]
  BY <1>1, NoRunFits DEF RepInv, Shape
<1>4. half' \subseteq RepDays /\ half \subseteq half' /\ mishaps' \in 0..MaxMishaps
  <2>1. half \subseteq RepDays /\ mishaps \in 0..MaxMishaps /\ MaxMishaps \in Nat
    BY RepFacts DEF RepInv, Shape
  <2> QED BY <1>1, <1>2, <2>1
<1>5. Shape'
  BY <1>1, <1>3, <1>4 DEF RepInv, Shape, walletVars, dayVars
<1>6. /\ UNCHANGED <<row, recorded, dayCredit, filled>> /\ compensated' \subseteq row
      /\ \A d \in Underpaid : mark'[d] = "none" => mark[d] = "none"
      /\ run[o].day = 0 \/ run[o].day \in half'
  BY <1>1, <1>2 DEF dayVars
<1>7. NoRun.at \in {"none", "mark", "stuck", "future"} /\ NoRun.paid \subseteq row
  BY NoRunFits
<1> QED BY <1>1, <1>4, <1>5, <1>6, <1>7, NoRunFits, LetsGo

LEMMA StuckKeeps ==
  ASSUME RepInv, NEW o \in Operators,
         \/ StartStuck(o) \/ RecordCompensation(o)
         \/ \E d \in RepDays : StuckDayFails(o, d)
         \/ \E d \in RepDays : PayStuckDay(o, d) /\ IsSettled(d)
  PROVE  RepInv'
<1>0. /\ run[o] \in RepRun /\ RunFits(run[o]) /\ run[o].paid \subseteq row
      /\ compensated \subseteq row /\ run[o].paid \subseteq StuckDays
  BY OwnRun, RunFields
<1>1. CASE StartStuck(o)
  <2> DEFINE r == [NoRun EXCEPT !.at = "stuck", !.todo = StuckDays]
  <2>1. /\ run' = [run EXCEPT ![o] = r] /\ run[o].at = "none" /\ NoneAlone
        /\ UNCHANGED <<walletVars, dayVars, logVars, half, moves, mishaps>>
    BY <1>1 DEF StartStuck, RunGoes, At
  <2>2. r \in RepRun /\ r.at = "stuck" /\ r.todo = StuckDays /\ r.day = 0 /\ r.paid = {}
    BY NoRunFits, RepFacts DEF RepRun, RepSteps
  <2> HIDE DEF r
  <2>3. RunFits(r) /\ ~Excludes(r) /\ run[o].day = 0
    BY <1>0, <2>1, <2>2 DEF RunFits, HasDay, Excludes
  <2>4. run' \in [Operators -> RepRun]
    BY <2>1, <2>2 DEF RepInv, Shape
  <2>5. Shape'
    BY <2>1, <2>4 DEF RepInv, Shape, walletVars, dayVars, logVars
  <2>6. /\ UNCHANGED <<row, recorded, dayCredit, filled>> /\ half \subseteq half'
        /\ compensated' \subseteq row
        /\ \A d \in Underpaid : mark'[d] = "none" => mark[d] = "none"
        /\ \A p \in Operators : ~Excludes(run[p])
    BY <1>0, <2>1, NoneExcludes DEF dayVars, logVars
  <2> QED BY <2>1, <2>2, <2>3, <2>5, <2>6, LetsGo
<1>2. CASE RecordCompensation(o)
  <2>1. /\ run' = [run EXCEPT ![o] = NoRun] /\ run[o].at = "stuck"
        /\ compensated' = compensated \cup run[o].paid
        /\ UNCHANGED <<walletVars, dayVars, mark, ended, filled, half, moves, mishaps>>
    BY <1>2 DEF RecordCompensation, RunGoes, At, DaysDone
  <2>2. run[o].day = 0
    BY <1>0, <2>1 DEF RunFits, HasDay
  <2>3. run' \in [Operators -> RepRun]
    BY <2>1, NoRunFits DEF RepInv, Shape
  <2>4. Shape'
    BY <1>0, <2>1, <2>3 DEF RepInv, Shape, walletVars, dayVars
  <2>5. /\ UNCHANGED <<row, recorded, dayCredit, filled>> /\ half \subseteq half'
        /\ compensated' \subseteq row
        /\ \A d \in Underpaid : mark'[d] = "none" => mark[d] = "none"
    BY <1>0, <2>1 DEF dayVars
  <2>6. NoRun.at \in {"none", "mark", "stuck", "future"} /\ NoRun.paid \subseteq row
    BY NoRunFits
  <2> QED BY <2>1, <2>2, <2>4, <2>5, <2>6, NoRunFits, LetsGo
<1>3. ASSUME NEW d \in RepDays,
             StuckDayFails(o, d) \/ (PayStuckDay(o, d) /\ IsSettled(d))
      PROVE  RepInv'
  <2> DEFINE r == [run[o] EXCEPT !.todo = run[o].todo \ {d}]
  <2>1. /\ run' = [run EXCEPT ![o] = r] /\ run[o].at = "stuck"
        /\ UNCHANGED <<walletVars, dayVars, logVars, half, moves>>
    <3>1. CASE StuckDayFails(o, d)
      BY <3>1 DEF StuckDayFails, RunGoes, At
    <3>2. CASE PayStuckDay(o, d) /\ IsSettled(d)
      BY <3>2 DEF PayStuckDay, RunGoes, At, walletVars
    <3> QED BY <1>3, <3>1, <3>2
  <2>2. mishaps' \in 0..MaxMishaps
    <3>1. mishaps \in 0..MaxMishaps /\ MaxMishaps \in Nat
      BY RepFacts DEF RepInv, Shape
    <3>2. mishaps' = mishaps \/ (mishaps < MaxMishaps /\ mishaps' = mishaps + 1)
      BY <1>3 DEF StuckDayFails, PayStuckDay
    <3> QED BY <3>1, <3>2
  <2>3. /\ r \in RepRun /\ r.at = "stuck" /\ r.todo \subseteq StuckDays /\ r.day = 0
        /\ r.paid = run[o].paid /\ run[o].day = 0
    <3>1. run[o].todo \subseteq StuckDays /\ run[o].day = 0
      BY <1>0, <2>1 DEF RunFits, HasDay
    <3>2. run[o].todo \ {d} \in SUBSET RepDays
      BY <1>0, RunFields
    <3> QED BY <1>0, <2>1, <3>1, <3>2 DEF RepRun
  <2> HIDE DEF r
  <2>4. RunFits(r) /\ ~Excludes(r)
    BY <2>3 DEF RunFits, HasDay, Excludes
  <2>5. run' \in [Operators -> RepRun]
    BY <2>1, <2>3 DEF RepInv, Shape
  <2>6. Shape'
    BY <2>1, <2>2, <2>5 DEF RepInv, Shape, walletVars, dayVars, logVars
  <2>7. /\ UNCHANGED <<row, recorded, dayCredit, filled>> /\ half \subseteq half'
        /\ compensated' \subseteq row /\ r.paid \subseteq row
        /\ \A e \in Underpaid : mark'[e] = "none" => mark[e] = "none"
    BY <1>0, <2>1, <2>3 DEF dayVars, logVars
  <2> QED BY <2>1, <2>3, <2>4, <2>6, <2>7, LetsGo
<1> QED BY <1>1, <1>2, <1>3

LEMMA FutureKeeps ==
  ASSUME RepInv, NEW o \in Operators,
         \/ StartFuture(o) \/ EndSession(o)
         \/ \E d \in RepDays : PayFutureDay(o, d) /\ IsSettled(d)
  PROVE  RepInv'
<1>0. /\ run[o] \in RepRun /\ RunFits(run[o]) /\ run[o].paid \subseteq row /\ PaymentFits(run[o])
      /\ compensated \subseteq row
  BY OwnRun, RunFields
<1>1. CASE StartFuture(o)
  <2> DEFINE t == FutureDays \ ended  r == [NoRun EXCEPT !.at = "future", !.todo = t]
  <2>1. /\ run' = [run EXCEPT ![o] = r] /\ Alone
        /\ UNCHANGED <<walletVars, dayVars, logVars, half, moves, mishaps>>
    BY <1>1 DEF StartFuture, RunGoes
  <2>2. t \in SUBSET RepDays /\ t \subseteq FutureDays
    BY RepFacts
  <2> HIDE DEF t
  <2>3. r \in RepRun /\ r.at = "future" /\ r.todo = t /\ r.day = 0 /\ r.paid = {}
    BY <2>2, NoRunFits DEF RepRun, RepSteps
  <2> HIDE DEF r
  <2>4. /\ RunFits(r) /\ run[o].day = 0
        /\ \A p \in Operators : run[p].at = "none" /\ ~Excludes(run[p])
    BY <1>0, <2>1, <2>2, <2>3 DEF RunFits, HasDay, Excludes, Alone, At
  <2>5. run' \in [Operators -> RepRun]
    BY <2>1, <2>3 DEF RepInv, Shape
  <2>6. Shape'
    BY <2>1, <2>5 DEF RepInv, Shape, walletVars, dayVars, logVars
  <2>7. /\ UNCHANGED <<row, recorded, dayCredit, filled>> /\ half \subseteq half'
        /\ compensated' \subseteq row
        /\ \A d \in Underpaid : mark'[d] = "none" => mark[d] = "none"
    BY <1>0, <2>1 DEF dayVars, logVars
  <2> QED BY <2>1, <2>3, <2>4, <2>6, <2>7, LetsGo
<1>2. CASE EndSession(o)
  <2> DEFINE q == run[o]  t == q.todo \ {q.day}
             r == IF t = {} THEN NoRun ELSE [q EXCEPT !.at = "future", !.todo = t, !.day = 0]
  <2>1. /\ run' = [run EXCEPT ![o] = r] /\ q.at = "end" /\ ended' = ended \cup {q.day}
        /\ UNCHANGED <<walletVars, dayVars, mark, compensated, filled, half, moves, mishaps>>
    BY <1>2 DEF EndSession, RunGoes, At
  <2>2. /\ q.todo \subseteq FutureDays /\ q.day \in FutureDays /\ q.day \in row
        /\ q.day \in RepDays
    BY <1>0, <2>1, RepFacts DEF RunFits, PaymentFits
  <2>3. t \in SUBSET RepDays /\ t \subseteq FutureDays
    BY <2>2, RepFacts
  <2> HIDE DEF t
  <2>4. /\ r \in RepRun /\ RunFits(r) /\ r.at \in {"none", "future"} /\ r.paid \subseteq row
    <3>1. CASE t = {}
      BY <3>1, NoRunFits
    <3>2. CASE t # {}
      <4>1. r = [q EXCEPT !.at = "future", !.todo = t, !.day = 0]
        BY <3>2
      <4> HIDE DEF r
      <4>2. r \in RepRun /\ r.at = "future" /\ r.todo = t /\ r.day = 0 /\ r.paid = q.paid
        BY <1>0, <2>3, <4>1 DEF RepRun, RepSteps
      <4>3. RunFits(r)
        BY <2>3, <4>2 DEF RunFits
      <4> QED BY <1>0, <4>2, <4>3
    <3> QED BY <3>1, <3>2
  <2> HIDE DEF r
  <2>5. /\ q.day \in half' \/ (recorded[q.day] = dayCredit[q.day] /\ q.day \in row)
    BY <2>1, <2>2 DEF RepInv, DaysCounted, FutureCounted
  <2>6. run' \in [Operators -> RepRun]
    BY <2>1, <2>4 DEF RepInv, Shape
  <2>7. Shape'
    BY <2>1, <2>2, <2>6 DEF RepInv, Shape, walletVars, dayVars
  <2>8. /\ UNCHANGED <<row, recorded, dayCredit, filled>> /\ half \subseteq half'
        /\ compensated' \subseteq row /\ Excludes(q)
        /\ \A d \in Underpaid : mark'[d] = "none" => mark[d] = "none"
    BY <1>0, <2>1 DEF dayVars, Excludes
  <2> QED BY <2>1, <2>4, <2>5, <2>7, <2>8, LetsGo
<1>3. ASSUME NEW d \in RepDays, PayFutureDay(o, d), IsSettled(d)
      PROVE  RepInv'
  <2> DEFINE q == run[o]  r == [q EXCEPT !.at = "end", !.day = d]
  <2>1. /\ run' = [run EXCEPT ![o] = r] /\ q.at = "future" /\ d \in q.todo /\ d \in row
        /\ UNCHANGED <<walletVars, dayVars, logVars, half, moves, mishaps>>
    BY <1>3 DEF PayFutureDay, RunGoes, At, IsSettled, walletVars, dayVars
  <2>2. q.todo \subseteq FutureDays /\ d \in FutureDays /\ q.day = 0
    BY <1>0, <2>1 DEF RunFits, HasDay
  <2>3. r \in RepRun /\ r.at = "end" /\ r.todo = q.todo /\ r.day = d /\ r.paid = q.paid
    BY <1>0 DEF RepRun, RepSteps
  <2> HIDE DEF r
  <2>4. RunFits(r) /\ Excludes(q)
    BY <2>1, <2>2, <2>3 DEF RunFits, HasDay, Excludes
  <2>5. run' \in [Operators -> RepRun] /\ run'[o] = r
    BY <2>1, <2>3 DEF RepInv, Shape
  <2>6. Shape'
    BY <2>1, <2>5 DEF RepInv, Shape, walletVars, dayVars, logVars
  <2>7. /\ UNCHANGED <<row, recorded, dayCredit, filled>> /\ half \subseteq half'
        /\ compensated' \subseteq row /\ r.paid \subseteq row /\ mark' = mark
    BY <1>0, <2>1, <2>3 DEF dayVars, logVars
  <2>8. \A e \in Underpaid : mark'[e] = "none" => mark[e] = "none" /\ r.day # e
    BY <2>2, <2>3, <2>7, RepFacts
  <2>9. \A p \in Operators : run[p].day # d
    <3>1. \A p \in Operators : p # o => run[p].at = "none"
      BY <2>4, OwnRun
    <3>2. \A p \in Operators : run[p].day = 0
      BY <2>2, <3>1 DEF RepInv, RunsFit, RunFits, HasDay
    <3> QED BY <3>2, RepFacts
  <2>10. PaymentFits(run[o])' /\ ResetFits(run[o])' /\ RecalculationFits(run[o])'
    BY <2>1, <2>3, <2>5, <2>7 DEF PaymentFits, ResetFits, RecalculationFits
  <2> QED BY <2>1, <2>2, <2>3, <2>4, <2>6, <2>7, <2>8, <2>9, <2>10, QuietKeeps
<1> QED BY <1>1, <1>2, <1>3

\* The wallet and what was taken from it are naturals whatever a script writes.
LEMMA SupportedIsNat ==
  ASSUME NEW r \in RepRun
  PROVE  Supported(r) \in Nat
BY RunFields DEF Supported

\* Scripts that assess the wallet, one step of theirs.
LEMMA AssessKeeps ==
  ASSUME RepInv, NEW o \in Operators, NEW r \in RepRun, run' = [run EXCEPT ![o] = r],
         \A p \in Operators : p # o => run[p].at = "none",
         run[o].at = "none" \/ Excludes(run[o]), ~HasDay(run[o]), r.day = 0, r.paid \subseteq row,
         r.at \in {"none", "history", "payouts", "reset", "subtract", "load", "save"},
         UNCHANGED <<waiting, sent, dayVars, logVars, half, moves, mishaps>>,
         wallet' \in Nat, ResetFits(run[o])', RecalculationFits(run[o])'
  PROVE  RepInv'
<1>1. run' \in [Operators -> RepRun] /\ run'[o] = r
  BY DEF RepInv, Shape
<1>2. Shape'
  BY <1>1 DEF RepInv, Shape, dayVars, logVars
<1>3. RunFits(r) /\ ~HasDay(r) /\ PaymentFits(r)
  BY DEF RunFits, HasDay, PaymentFits
<1>4. run[o].day = 0 /\ compensated \subseteq row
  BY OwnRun DEF RunFits
<1>5. /\ UNCHANGED <<row, recorded, dayCredit, filled>> /\ half \subseteq half'
      /\ compensated' \subseteq row /\ r.paid \subseteq row
      /\ \A d \in Underpaid : mark'[d] = "none" => mark[d] = "none" /\ r.day # d
  BY <1>4, RepFacts DEF dayVars, logVars
<1>6. PaymentFits(run[o])'
  BY <1>1 DEF PaymentFits
<1>7. /\ run[o].at = "none" => \A p \in Operators : ~Excludes(run[p])
      /\ Excludes(r) => Excludes(run[o]) \/ \A p \in Operators : run[p].at = "none"
  <2>1. CASE run[o].at = "none"
    <3>1. \A p \in Operators : run[p].at = "none"
      BY <2>1
    <3> QED BY <3>1 DEF Excludes
  <2>2. CASE run[o].at # "none"
    BY <2>2
  <2> QED BY <2>1, <2>2
<1> QED BY <1>2, <1>3, <1>4, <1>5, <1>6, <1>7, QuietKeeps

LEMMA AssessFacts ==
  ASSUME RepInv, NEW o \in Operators,
         Alone \/ run[o].at \in {"history", "payouts", "reset", "subtract", "load", "save"}
  PROVE  /\ run[o] \in RepRun /\ ~HasDay(run[o]) /\ ResetFits(run[o])
         /\ RecalculationFits(run[o]) /\ (run[o].at = "none" \/ Excludes(run[o]))
         /\ \A p \in Operators : p # o => run[p].at = "none"
         /\ \A p \in Operators : run[p].day = 0
         /\ run[o].paid \subseteq row
         /\ wallet \in Nat /\ waiting \in Nat /\ sent \in Nat
         /\ Sum(recorded, RepDays) \in Nat /\ Sum(dayCredit, RepDays) \in Nat
         /\ Cardinality(filled) \in Nat
         /\ half = {} => Sum(recorded, RepDays) = Sum(dayCredit, RepDays) + Cardinality(filled)
<1>1. \A p \in Operators : p # o => run[p].at = "none"
  BY OwnRun DEF Alone, At, Excludes
<1>2. run[o] \in RepRun /\ ~HasDay(run[o]) /\ ResetFits(run[o]) /\ RecalculationFits(run[o])
      /\ (run[o].at = "none" \/ Excludes(run[o]))
  BY OwnRun DEF Alone, At, Excludes, HasDay
<1>3. \A p \in Operators : run[p].day = 0
  BY <1>1, <1>2, OwnRun DEF RunFits, HasDay
<1>4. wallet \in Nat /\ waiting \in Nat /\ sent \in Nat
      /\ Sum(recorded, RepDays) \in Nat /\ Sum(dayCredit, RepDays) \in Nat
  BY CreditsAreNat DEF RepInv, Shape
<1>5. Cardinality(filled) \in Nat
  <2>1. filled \in SUBSET RepDays
    BY RepFacts DEF RepInv, FilledFits
  <2> QED BY <2>1, RepFacts, FS_Subset, FS_CardinalityType
<1>6. run[o].paid \subseteq row
  BY OwnRun
<1> QED BY <1>1, <1>2, <1>3, <1>4, <1>5, <1>6, RecordsAreCredits

LEMMA ResetKeeps ==
  ASSUME RepInv, NEW o \in Operators,
         StartReset(o) \/ AssessHistory(o) \/ AssessPayouts(o) \/ ResetWallet(o)
  PROVE  RepInv'
<1> DEFINE q == run[o]  c == Sum(dayCredit, RepDays)  h == Sum(recorded, RepDays)
           n == Cardinality(filled)
<1>1. /\ Alone \/ q.at \in {"history", "payouts", "reset", "subtract", "load", "save"}
      /\ UNCHANGED <<waiting, sent, dayVars, logVars, half, moves, mishaps>>
  BY DEF StartReset, AssessHistory, AssessPayouts, ResetWallet, At, walletVars
<1>2. /\ q \in RepRun /\ ~HasDay(q) /\ q.day = 0 /\ ResetFits(q)
      /\ q.at = "none" \/ Excludes(q)
      /\ q.paid \subseteq row /\ \A p \in Operators : p # o => run[p].at = "none"
      /\ wallet \in Nat /\ waiting \in Nat /\ sent \in Nat
      /\ h \in Nat /\ c \in Nat /\ n \in Nat /\ (half = {} => h = c + n)
  <2>1. /\ q \in RepRun /\ ~HasDay(q) /\ ResetFits(q) /\ (q.at = "none" \/ Excludes(q))
        /\ q.paid \subseteq row /\ \A p \in Operators : p # o => run[p].at = "none"
    BY <1>1, AssessFacts
  <2>2. \A p \in Operators : run[p].day = 0
    BY <1>1, AssessFacts
  <2>3. /\ wallet \in Nat /\ waiting \in Nat /\ sent \in Nat
        /\ h \in Nat /\ c \in Nat /\ n \in Nat /\ (half = {} => h = c + n)
    BY <1>1, AssessFacts
  <2> HIDE DEF c, h, n
  <2> QED BY <2>1, <2>2, <2>3
<1>3. UNCHANGED <<waiting, sent, dayCredit, filled, half>> /\ c' = c
  BY <1>1 DEF dayVars, logVars
<1> HIDE DEF c, h, n
<1>4. CASE StartReset(o)
  <2> DEFINE r == [NoRun EXCEPT !.at = "history", !.seen = wallet]
  <2>1. run' = [run EXCEPT ![o] = r] /\ wallet' = wallet
    BY <1>4 DEF StartReset, RunGoes, walletVars
  <2>2. r \in RepRun /\ r.at = "history" /\ r.seen = wallet /\ r.day = 0 /\ r.paid \subseteq row
        /\ r.moved = 0
    BY <1>2, NoRunFits DEF RepRun, RepSteps
  <2> HIDE DEF r
  <2>3. run'[o] = r
    BY <2>1 DEF RepInv, Shape
  <2>4. ResetFits(run[o])' /\ RecalculationFits(run[o])'
    BY <2>1, <2>2, <2>3 DEF ResetFits, RecalculationFits
  <2> QED BY <1>1, <1>2, <2>1, <2>2, <2>4, AssessKeeps
<1>5. CASE AssessHistory(o)
  <2> DEFINE r == [q EXCEPT !.at = "payouts", !.sum = h]
  <2>1. q.at = "history" /\ run' = [run EXCEPT ![o] = r] /\ wallet' = wallet
    BY <1>5 DEF AssessHistory, RunGoes, walletVars, At, h
  <2>2. /\ r \in RepRun /\ r.at = "payouts" /\ r.seen = q.seen /\ r.day = 0
        /\ r.paid = q.paid /\ r.moved = q.moved /\ r.sum = h
    BY <1>2 DEF RepRun, RepSteps
  <2> HIDE DEF r
  <2>3. run'[o] = r
    BY <2>1 DEF RepInv, Shape
  <2>4. half = {} => c <= h
    BY <1>2
  <2>5. ResetFits(run[o])'
    <3>1. r.moved = 0 => wallet = r.seen
      BY <1>2, <2>1, <2>2 DEF ResetFits
    <3> QED BY <1>3, <2>1, <2>2, <2>3, <2>4, <3>1 DEF ResetFits, c
  <2>6. RecalculationFits(run[o])'
    BY <2>2, <2>3 DEF RecalculationFits
  <2> QED BY <1>1, <1>2, <2>1, <2>2, <2>5, <2>6, AssessKeeps
<1>6. CASE AssessPayouts(o)
  <2> DEFINE w == waiting + sent  r == [q EXCEPT !.at = "reset", !.out = w]
  <2>1. q.at = "payouts" /\ run' = [run EXCEPT ![o] = r] /\ wallet' = wallet
    BY <1>6 DEF AssessPayouts, RunGoes, walletVars, At
  <2>2. w \in Nat /\ w' = w
    BY <1>2, <1>3
  <2> HIDE DEF w
  <2>3. /\ r \in RepRun /\ r.at = "reset" /\ r.seen = q.seen /\ r.day = 0
        /\ r.paid = q.paid /\ r.moved = q.moved /\ r.sum = q.sum /\ r.out = w
    BY <1>2, <2>2 DEF RepRun, RepSteps
  <2> HIDE DEF r
  <2>4. run'[o] = r
    BY <2>1 DEF RepInv, Shape
  <2>5. ResetFits(run[o])'
    <3>1. /\ r.moved = 0 => wallet = r.seen
          /\ r.moved < 2 /\ wallet = r.seen => (half = {} => c <= r.sum)
      BY <1>2, <2>1, <2>3 DEF ResetFits, c
    <3> QED BY <1>3, <2>1, <2>2, <2>3, <2>4, <3>1 DEF ResetFits, c, w
  <2>6. RecalculationFits(run[o])'
    BY <2>3, <2>4 DEF RecalculationFits
  <2> QED BY <1>1, <1>2, <2>1, <2>3, <2>5, <2>6, AssessKeeps
<1>7. CASE ResetWallet(o)
  <2>1. run' = [run EXCEPT ![o] = NoRun] /\ wallet' \in Nat
    BY <1>2, <1>7, SupportedIsNat DEF ResetWallet, RunGoes
  <2>2. run'[o] = NoRun
    BY <2>1 DEF RepInv, Shape
  <2>3. ResetFits(run[o])' /\ RecalculationFits(run[o])'
    BY <2>2, NoRunFits DEF ResetFits, RecalculationFits
  <2>4. NoRun.paid \subseteq row
    BY NoRunFits
  <2> QED BY <1>1, <1>2, <2>1, <2>3, <2>4, NoRunFits, AssessKeeps
<1> QED BY <1>4, <1>5, <1>6, <1>7

LEMMA RecalculationKeeps ==
  ASSUME RepInv, NEW o \in Operators,
         StartRecalculation(o) \/ SumWithdrawals(o) \/ LoadBalance(o) \/ SaveBalance(o)
  PROVE  RepInv'
<1> DEFINE q == run[o]  c == Sum(dayCredit, RepDays)  h == Sum(recorded, RepDays)
           n == Cardinality(filled)
<1>1. /\ Alone \/ q.at \in {"history", "payouts", "reset", "subtract", "load", "save"}
      /\ UNCHANGED <<waiting, sent, dayVars, logVars, half, moves, mishaps>>
  BY DEF StartRecalculation, SumWithdrawals, LoadBalance, SaveBalance, At, walletVars
<1>2. /\ q \in RepRun /\ ~HasDay(q) /\ q.day = 0 /\ RecalculationFits(q)
      /\ q.at = "none" \/ Excludes(q)
      /\ q.paid \subseteq row /\ \A p \in Operators : p # o => run[p].at = "none"
      /\ wallet \in Nat /\ waiting \in Nat /\ sent \in Nat
      /\ h \in Nat /\ c \in Nat /\ n \in Nat /\ (half = {} => h = c + n)
  <2>1. /\ q \in RepRun /\ ~HasDay(q) /\ RecalculationFits(q) /\ (q.at = "none" \/ Excludes(q))
        /\ q.paid \subseteq row /\ \A p \in Operators : p # o => run[p].at = "none"
    BY <1>1, AssessFacts
  <2>2. \A p \in Operators : run[p].day = 0
    BY <1>1, AssessFacts
  <2>3. /\ wallet \in Nat /\ waiting \in Nat /\ sent \in Nat
        /\ h \in Nat /\ c \in Nat /\ n \in Nat /\ (half = {} => h = c + n)
    BY <1>1, AssessFacts
  <2> HIDE DEF c, h, n
  <2> QED BY <2>1, <2>2, <2>3
<1>3. UNCHANGED <<waiting, sent, dayCredit, filled, half>> /\ c' = c /\ n' = n
  BY <1>1 DEF dayVars, logVars
<1> HIDE DEF c, h, n
<1>4. CASE StartRecalculation(o)
  <2> DEFINE r == [NoRun EXCEPT !.at = "subtract", !.sum = h]
  <2>1. run' = [run EXCEPT ![o] = r] /\ wallet' = wallet
    BY <1>4 DEF StartRecalculation, RunGoes, walletVars, h
  <2>2. r \in RepRun /\ r.at = "subtract" /\ r.sum = h /\ r.day = 0 /\ r.paid \subseteq row
    BY <1>2, NoRunFits DEF RepRun, RepSteps
  <2> HIDE DEF r
  <2>3. run'[o] = r
    BY <2>1 DEF RepInv, Shape
  <2>4. ResetFits(run[o])'
    BY <2>2, <2>3 DEF ResetFits
  <2>5. RecalculationFits(run[o])'
    BY <1>2, <1>3, <2>2, <2>3 DEF RecalculationFits, c, n
  <2> QED BY <1>1, <1>2, <2>1, <2>2, <2>4, <2>5, AssessKeeps
<1>5. CASE SumWithdrawals(o)
  <2> DEFINE r == [q EXCEPT !.at = "load", !.out = sent]
  <2>1. q.at = "subtract" /\ run' = [run EXCEPT ![o] = r] /\ wallet' = wallet
    BY <1>5 DEF SumWithdrawals, RunGoes, walletVars, At, Deducted
  <2>2. /\ r \in RepRun /\ r.at = "load" /\ r.day = 0 /\ r.paid = q.paid
        /\ r.moved = q.moved /\ r.sum = q.sum /\ r.out = sent
    BY <1>2 DEF RepRun, RepSteps
  <2> HIDE DEF r
  <2>3. run'[o] = r
    BY <2>1 DEF RepInv, Shape
  <2>4. ResetFits(run[o])'
    BY <2>2, <2>3 DEF ResetFits
  <2>5. RecalculationFits(run[o])'
    <3>1. r.moved = 0 /\ half = {} => r.sum = c + n
      BY <1>2, <2>1, <2>2 DEF RecalculationFits, c, n
    <3> QED BY <1>3, <2>2, <2>3, <3>1 DEF RecalculationFits, c, n
  <2> QED BY <1>1, <1>2, <2>1, <2>2, <2>4, <2>5, AssessKeeps
<1>6. CASE LoadBalance(o)
  <2> DEFINE r == [q EXCEPT !.at = "save", !.seen = wallet]
  <2>1. q.at = "load" /\ run' = [run EXCEPT ![o] = r] /\ wallet' = wallet
    BY <1>6 DEF LoadBalance, RunGoes, walletVars, At
  <2>2. /\ r \in RepRun /\ r.at = "save" /\ r.day = 0 /\ r.paid = q.paid
        /\ r.moved = q.moved /\ r.sum = q.sum /\ r.out = q.out /\ r.seen = wallet
    BY <1>2 DEF RepRun, RepSteps
  <2> HIDE DEF r
  <2>3. run'[o] = r
    BY <2>1 DEF RepInv, Shape
  <2>4. ResetFits(run[o])'
    BY <2>2, <2>3 DEF ResetFits
  <2>5. RecalculationFits(run[o])'
    <3>1. r.moved = 0 => (half = {} => r.sum = c + n) /\ r.out = sent
      BY <1>2, <2>1, <2>2 DEF RecalculationFits, c, n
    <3> QED BY <1>3, <2>1, <2>2, <2>3, <3>1 DEF RecalculationFits, c, n
  <2> QED BY <1>1, <1>2, <2>1, <2>2, <2>4, <2>5, AssessKeeps
<1>7. CASE SaveBalance(o)
  <2>1. run' = [run EXCEPT ![o] = NoRun] /\ wallet' \in Nat
    BY <1>2, <1>7, SupportedIsNat DEF SaveBalance, RunGoes
  <2>2. run'[o] = NoRun
    BY <2>1 DEF RepInv, Shape
  <2>3. ResetFits(run[o])' /\ RecalculationFits(run[o])' /\ NoRun.paid \subseteq row
    BY <2>2, NoRunFits DEF ResetFits, RecalculationFits
  <2> QED BY <1>1, <1>2, <2>1, <2>3, NoRunFits, AssessKeeps
<1> QED BY <1>4, <1>5, <1>6, <1>7

\* A step that pays or records one day, which no other script holds.
LEMMA PayKeeps ==
  ASSUME RepInv, NEW o \in Operators, NEW r \in RepRun, RunFits(r), run' = [run EXCEPT ![o] = r],
         run[o].at # "none", Excludes(r) => Excludes(run[o]),
         r.at \in {"find", "done", "stuck", "create", "end"},
         HasDay(r) => r.day = run[o].day \/ \A p \in Operators : run[p].day # r.day,
         NEW x \in RepDays, r.day = run[o].day \/ (run[o].day = 0 /\ r.day = x),
         \A p \in Operators : p # o => run[p].day # x,
         \A d \in RepDays : d # x => recorded'[d] = recorded[d] /\ dayCredit'[d] = dayCredit[d],
         row \subseteq row', row' \subseteq row \cup {x},
         UNCHANGED <<filled, half, mark, compensated>>, x \notin LiveDays,
         r.paid \subseteq row', Shape', PaymentFits(run[o])',
         x \in StuckDays => x \in row' /\ recorded'[x] = 1 /\ dayCredit'[x] = 1,
         x \in Underpaid => run[o].day = x /\ r.day = x /\ dayCredit'[x] <= 1,
         x \in FutureDays => r.day = x /\ (x \in half \/
           /\ x \in row' => recorded'[x] = 1 /\ dayCredit'[x] = 1
           /\ x \notin row' => recorded'[x] = 0 /\ dayCredit'[x] = 1)
  PROVE  RepInv'
<1>1. /\ run' \in [Operators -> RepRun] /\ run'[o] = r
      /\ \A p \in Operators : p # o => run'[p] = run[p] /\ ~Excludes(run[p])
      /\ RunsFit' /\ RunsApart'
  BY ScriptFrame
<1>2. filled' = filled /\ half' = half /\ mark' = mark /\ compensated' = compensated
  OBVIOUS
<1>3. PaidInRow'
  BY <1>1, <1>2 DEF RepInv, PaidInRow
<1>4. FilledFits'
  BY <1>2 DEF RepInv, FilledFits
<1>5. ASSUME NEW d \in RepDays
      PROVE  DayHeld(d)' <=> DayHeld(d) \/ r.day = d
  <2>1. DayHeld(d)' <=> \E p \in Operators : run'[p].day = d
    BY DEF DayHeld
  <2>2. d # 0
    BY RepFacts
  <2> QED BY <1>1, <2>1, <2>2 DEF DayHeld
<1>6. \A d \in RepDays : d # x => (d \in row' <=> d \in row)
  OBVIOUS
<1>7. LiveCounted' /\ StuckCounted'
  <2>1. ASSUME NEW d \in LiveDays
        PROVE  /\ recorded'[d] = IF d \in row' THEN 1 ELSE 0
               /\ dayCredit'[d] = IF d \in row' /\ d \notin filled' THEN 1 ELSE 0
    <3>1. d \in RepDays /\ d # x
      BY RepFacts
    <3>2. /\ recorded[d] = IF d \in row THEN 1 ELSE 0
          /\ dayCredit[d] = IF d \in row /\ d \notin filled THEN 1 ELSE 0
      BY DEF RepInv, DaysCounted, LiveCounted
    <3> QED BY <1>2, <1>6, <3>1, <3>2
  <2>2. ASSUME NEW d \in StuckDays
        PROVE  /\ recorded'[d] = IF d \in row' THEN 1 ELSE 0
               /\ dayCredit'[d] = IF d \in row' THEN 1 ELSE 0
    <3>1. d \in RepDays
      BY RepFacts
    <3>2. /\ recorded[d] = IF d \in row THEN 1 ELSE 0
          /\ dayCredit[d] = IF d \in row THEN 1 ELSE 0
      BY DEF RepInv, DaysCounted, StuckCounted
    <3>3. CASE d = x
      BY <3>3
    <3>4. CASE d # x
      BY <1>6, <3>1, <3>2, <3>4
    <3> QED BY <3>3, <3>4
  <2> QED BY <2>1, <2>2 DEF LiveCounted, StuckCounted
<1>8. UnderCounted'
  <2> SUFFICES ASSUME NEW d \in Underpaid
               PROVE  /\ d \in row'
                      /\ mark'[d] = "none" => recorded'[d] = 0 /\ dayCredit'[d] = 0 /\ ~DayHeld(d)'
                      /\ dayCredit'[d] <= 1
                      /\ d \in half' \/ recorded'[d] = dayCredit'[d] \/ DayHeld(d)'
    BY DEF UnderCounted, DayHeld
  <2>1. /\ d \in row
        /\ mark[d] = "none" => recorded[d] = 0 /\ dayCredit[d] = 0 /\ ~DayHeld(d)
        /\ dayCredit[d] <= 1
        /\ d \in half \/ recorded[d] = dayCredit[d] \/ DayHeld(d)
    BY DEF RepInv, DaysCounted, UnderCounted
  <2>2. d \in RepDays
    BY RepFacts
  <2>3. CASE d = x
    <3>1. DayHeld(d) /\ DayHeld(d)'
      BY <1>5, <2>2, <2>3 DEF DayHeld
    <3> QED BY <1>2, <2>1, <2>3, <3>1
  <2>4. CASE d # x
    <3>1. r.day = d => DayHeld(d)
      BY <2>4 DEF DayHeld
    <3>2. DayHeld(d)' <=> DayHeld(d) \/ r.day = d
      BY <1>5, <2>2
    <3>3. recorded'[d] = recorded[d] /\ dayCredit'[d] = dayCredit[d]
      BY <2>2, <2>4
    <3> QED BY <1>2, <2>1, <3>1, <3>2, <3>3
  <2> QED BY <2>3, <2>4
<1>9. FutureCounted'
  <2> SUFFICES ASSUME NEW d \in FutureDays
               PROVE  d \in half' \/
                  /\ d \in row' => recorded'[d] = 1 /\ dayCredit'[d] = 1
                  /\ d \notin row' => recorded'[d] = 0
                  /\ d \notin row' => dayCredit'[d] = 0 \/ (dayCredit'[d] = 1 /\ DayHeld(d)')
    BY DEF FutureCounted, DayHeld
  <2>1. d \in half \/
                  /\ d \in row => recorded[d] = 1 /\ dayCredit[d] = 1
                  /\ d \notin row => recorded[d] = 0
                  /\ d \notin row => dayCredit[d] = 0 \/ (dayCredit[d] = 1 /\ DayHeld(d))
    BY DEF RepInv, DaysCounted, FutureCounted
  <2>2. d \in RepDays
    BY RepFacts
  <2>3. CASE d = x
    <3>1. DayHeld(d)'
      BY <1>5, <2>2, <2>3
    <3> QED BY <1>2, <2>3, <3>1
  <2>4. CASE d # x
    <3>1. DayHeld(d) => DayHeld(d)'
      BY <1>5, <2>2
    <3>2. recorded'[d] = recorded[d] /\ dayCredit'[d] = dayCredit[d] /\ (d \in row' <=> d \in row)
      BY <1>6, <2>2, <2>4
    <3> QED BY <1>2, <2>1, <3>1, <3>2
  <2> QED BY <2>3, <2>4
<1>10. PaymentsFit'
  <2> SUFFICES ASSUME NEW p \in Operators PROVE PaymentFits(run[p])'
    BY DEF PaymentsFit
  <2>1. CASE p = o
    BY <2>1
  <2>2. CASE p # o
    <3>1. PaymentFits(run[p]) /\ run'[p] = run[p] /\ run[p].day # x /\ ~Excludes(run[p])
      BY <1>1, <2>2 DEF RepInv, PaymentsFit
    <3>2. run[p].at \in {"inc", "find", "write", "done"} => run[p].day \in RepDays
      BY OwnRun, RepFacts DEF RunFits
    <3> QED BY <1>2, <3>1, <3>2 DEF PaymentFits, Excludes
  <2> QED BY <2>1, <2>2
<1>11. AssessedFits'
  <2> SUFFICES ASSUME NEW p \in Operators PROVE ResetFits(run[p])' /\ RecalculationFits(run[p])'
    BY DEF AssessedFits
  <2>1. run'[p].at \notin {"history", "payouts", "reset", "subtract", "load", "save"}
    BY <1>1 DEF Excludes
  <2> QED BY <2>1 DEF ResetFits, RecalculationFits
<1> QED BY <1>1, <1>3, <1>4, <1>7, <1>8, <1>9, <1>10, <1>11 DEF RepInv, DaysCounted

LEMMA ShortfallKeeps ==
  ASSUME RepInv, NEW o \in Operators, PayShortfall(o) \/ WriteHistory(o)
  PROVE  RepInv'
<1> DEFINE q == run[o]  x == q.day
<1>1. /\ q \in RepRun /\ RunFits(q) /\ PaymentFits(q) /\ q.paid \subseteq row
      /\ q.at \in {"inc", "write"}
  BY OwnRun DEF PayShortfall, WriteHistory, At
<1>2. x \in Underpaid /\ x \in RepDays /\ x \in row /\ x \notin LiveDays /\ x \notin StuckDays
      /\ x \notin FutureDays
  BY <1>1, RepFacts DEF RunFits, RepInv, DaysCounted, UnderCounted
<1>3. \A p \in Operators : p # o => run[p].day # x
  BY <1>1 DEF RepInv, RunsApart, HasDay
<1>4. recorded \in [RepDays -> Nat] /\ dayCredit \in [RepDays -> Nat] /\ wallet \in Nat
  BY DEF RepInv, Shape
<1>5. CASE PayShortfall(o)
  <2> DEFINE r == [q EXCEPT !.at = "find"]
  <2>1. /\ q.at = "inc" /\ wallet' = wallet + 1
        /\ dayCredit' = [dayCredit EXCEPT ![x] = @ + 1]
        /\ run' = [run EXCEPT ![o] = r]
        /\ UNCHANGED <<waiting, sent, row, recorded, logVars, half, moves, mishaps>>
    BY <1>5 DEF PayShortfall, At, RunGoes
  <2>2. r \in RepRun /\ r.at = "find" /\ r.day = x /\ r.todo = q.todo /\ r.paid = q.paid
    BY <1>1 DEF RepRun, RepSteps
  <2> HIDE DEF r
  <2>3. RunFits(r) /\ ~Excludes(r)
    BY <1>1, <2>1, <2>2 DEF RunFits, HasDay, Excludes
  <2>4. dayCredit[x] = 0 /\ recorded[x] = 0
    BY <1>1, <2>1 DEF PaymentFits
  <2>5. /\ dayCredit' \in [RepDays -> Nat] /\ dayCredit'[x] = 1 /\ recorded'[x] = 0
        /\ \A d \in RepDays : d # x => recorded'[d] = recorded[d] /\ dayCredit'[d] = dayCredit[d]
    <3> HIDE DEF x
    <3> QED BY <1>2, <1>4, <2>1, <2>4
  <2>6. run' \in [Operators -> RepRun] /\ run'[o] = r
    BY <2>1, <2>2 DEF RepInv, Shape
  <2>7. Shape'
    BY <2>1, <2>5, <2>6 DEF RepInv, Shape, logVars
  <2>8. PaymentFits(run[o])'
    BY <2>2, <2>5, <2>6 DEF PaymentFits
  <2>9. /\ row' = row /\ UNCHANGED <<filled, half, mark, compensated>> /\ dayCredit'[x] <= 1
        /\ r.paid \subseteq row' /\ run[o].at # "none"
    BY <1>1, <2>1, <2>2, <2>5 DEF logVars
  <2> HIDE DEF x
  <2>10. r.day = run[o].day /\ run[o].day = x
    BY <2>2 DEF x
  <2> QED BY <1>2, <1>3, <2>1, <2>2, <2>3, <2>5, <2>7, <2>8, <2>9, <2>10, PayKeeps
<1>6. CASE WriteHistory(o)
  <2> DEFINE r == [q EXCEPT !.at = "done", !.seen = 0]
  <2>1. /\ q.at = "write" /\ row' = row \cup {x}
        /\ recorded' = [recorded EXCEPT ![x] = q.seen + 1]
        /\ run' = [run EXCEPT ![o] = r]
        /\ UNCHANGED <<walletVars, dayCredit, logVars, half, moves, mishaps>>
    BY <1>6 DEF WriteHistory, At, RunGoes
  <2>2. r \in RepRun /\ r.at = "done" /\ r.day = x /\ r.todo = q.todo /\ r.paid = q.paid
    BY <1>1 DEF RepRun, RepSteps
  <2> HIDE DEF r
  <2>3. RunFits(r) /\ ~Excludes(r)
    BY <1>1, <2>1, <2>2 DEF RunFits, HasDay, Excludes
  <2>4. dayCredit[x] = 1 /\ q.seen = 0
    BY <1>1, <2>1 DEF PaymentFits
  <2>5. /\ recorded' \in [RepDays -> Nat] /\ dayCredit'[x] = 1 /\ recorded'[x] = 1
        /\ \A d \in RepDays : d # x => recorded'[d] = recorded[d] /\ dayCredit'[d] = dayCredit[d]
    <3> DEFINE y == q.seen + 1
    <3>1. y = 1 /\ recorded' = [recorded EXCEPT ![x] = y] /\ dayCredit' = dayCredit
      BY <2>1, <2>4
    <3> HIDE DEF x, y
    <3> QED BY <1>2, <1>4, <2>4, <3>1
  <2>6. run' \in [Operators -> RepRun] /\ run'[o] = r
    BY <2>1, <2>2 DEF RepInv, Shape
  <2>7. Shape'
    BY <1>2, <2>1, <2>5, <2>6 DEF RepInv, Shape, walletVars, logVars
  <2>8. PaymentFits(run[o])'
    BY <2>2, <2>5, <2>6 DEF PaymentFits
  <2>9. /\ row' = row /\ UNCHANGED <<filled, half, mark, compensated>> /\ dayCredit'[x] <= 1
        /\ r.paid \subseteq row' /\ run[o].at # "none"
    BY <1>1, <1>2, <2>1, <2>2, <2>5 DEF logVars
  <2> HIDE DEF x
  <2>10. r.day = run[o].day /\ run[o].day = x
    BY <2>2 DEF x
  <2> QED BY <1>2, <1>3, <2>1, <2>2, <2>3, <2>5, <2>7, <2>8, <2>9, <2>10, PayKeeps
<1> QED BY <1>5, <1>6

LEMMA PayStuckKeeps ==
  ASSUME RepInv, NEW o \in Operators, NEW x \in RepDays, PayStuckDay(o, x), ~IsSettled(x)
  PROVE  RepInv'
<1> DEFINE q == run[o]  rest == [q EXCEPT !.todo = q.todo \ {x}]
           r == [rest EXCEPT !.paid = q.paid \cup {x}]
<1>1. /\ q.at = "stuck" /\ x \in q.todo /\ x \notin row /\ wallet' = wallet + 1
      /\ row' = row \cup {x} /\ recorded' = [recorded EXCEPT ![x] = 1]
      /\ dayCredit' = [dayCredit EXCEPT ![x] = @ + 1] /\ run' = [run EXCEPT ![o] = r]
      /\ UNCHANGED <<waiting, sent, logVars, half, moves, mishaps>>
  BY DEF PayStuckDay, IsSettled, At, RunGoes
<1>2. q \in RepRun /\ RunFits(q) /\ q.paid \subseteq row /\ q.todo \subseteq StuckDays
      /\ q.day = 0
  BY <1>1, OwnRun DEF RunFits, HasDay
<1>3. x \in StuckDays /\ x \notin LiveDays /\ x \notin Underpaid /\ x \notin FutureDays
  BY <1>1, <1>2, RepFacts
<1>4. r \in RepRun /\ r.at = "stuck" /\ r.day = 0 /\ r.todo \subseteq StuckDays
      /\ r.paid = q.paid \cup {x}
  <2>1. q.todo \ {x} \in SUBSET RepDays /\ q.paid \cup {x} \in SUBSET StuckDays
    BY <1>2, <1>3, RunFields
  <2> DEFINE t == q.todo \ {x}  u == q.paid \cup {x}
  <2>2. r = [q EXCEPT !.todo = t, !.paid = u] /\ t \in SUBSET RepDays /\ u \in SUBSET StuckDays
        /\ t \subseteq StuckDays
    BY <2>1, <1>2 DEF RepRun
  <2> HIDE DEF t, u, r
  <2>3. r \in RepRun /\ r.at = "stuck" /\ r.day = 0 /\ r.todo = t /\ r.paid = u
    BY <1>1, <1>2, <2>2 DEF RepRun
  <2> QED BY <2>2, <2>3 DEF u
<1> HIDE DEF r
<1>5. RunFits(r) /\ ~Excludes(r) /\ ~HasDay(r)
  BY <1>4 DEF RunFits, HasDay, Excludes
<1>6. recorded \in [RepDays -> Nat] /\ dayCredit \in [RepDays -> Nat] /\ dayCredit[x] = 0
  BY <1>1, <1>3 DEF RepInv, Shape, DaysCounted, StuckCounted
<1>7. /\ dayCredit' \in [RepDays -> Nat] /\ dayCredit'[x] = 1 /\ recorded'[x] = 1
      /\ recorded' \in [RepDays -> Nat]
      /\ \A d \in RepDays : d # x => recorded'[d] = recorded[d] /\ dayCredit'[d] = dayCredit[d]
  BY <1>1, <1>6
<1>8. run' \in [Operators -> RepRun] /\ run'[o] = r
  BY <1>1, <1>4 DEF RepInv, Shape
<1>9. Shape'
  BY <1>1, <1>7, <1>8 DEF RepInv, Shape, logVars
<1>10. PaymentFits(run[o])'
  BY <1>4, <1>8 DEF PaymentFits
<1>11. \A p \in Operators : p # o => run[p].day # x
  BY <1>3, RepFacts, OwnRun DEF RunFits, HasDay
<1>12. /\ x \in row' /\ row \subseteq row' /\ row' \subseteq row \cup {x}
       /\ UNCHANGED <<filled, half, mark, compensated>> /\ r.paid \subseteq row'
       /\ r.day = run[o].day /\ run[o].at # "none"
  BY <1>1, <1>2, <1>4 DEF logVars
<1> QED BY <1>1, <1>3, <1>4, <1>5, <1>7, <1>9, <1>10, <1>11, <1>12, PayKeeps

LEMMA PayFutureKeeps ==
  ASSUME RepInv, NEW o \in Operators,
         CreateFutureDay(o) \/ \E x \in RepDays : PayFutureDay(o, x) /\ ~IsSettled(x)
  PROVE  RepInv'
<1> DEFINE q == run[o]
<1>1. /\ q \in RepRun /\ RunFits(q) /\ PaymentFits(q) /\ q.paid \subseteq row
      /\ q.at \in {"future", "create"} /\ Excludes(q)
      /\ \A p \in Operators : p # o => run[p].day = 0
  <2>1. q.at \in {"future", "create"}
    BY DEF CreateFutureDay, PayFutureDay, At
  <2>2. Excludes(q)
    BY <2>1 DEF Excludes
  <2> QED BY <2>1, <2>2, OwnRun DEF RunFits, HasDay
<1>2. /\ recorded \in [RepDays -> Nat] /\ dayCredit \in [RepDays -> Nat] /\ wallet \in Nat
  BY DEF RepInv, Shape
<1>3. ASSUME NEW x \in RepDays, PayFutureDay(o, x), ~IsSettled(x)
      PROVE  RepInv'
  <2> DEFINE r == [q EXCEPT !.at = "create", !.day = x]
  <2>1. /\ q.at = "future" /\ x \in q.todo /\ x \notin row /\ wallet' = wallet + 1
        /\ dayCredit' = [dayCredit EXCEPT ![x] = @ + 1] /\ run' = [run EXCEPT ![o] = r]
        /\ UNCHANGED <<waiting, sent, row, recorded, logVars, half, moves, mishaps>>
    BY <1>3 DEF PayFutureDay, IsSettled, At, RunGoes
  <2>2. q.todo \subseteq FutureDays /\ x \in FutureDays /\ q.day = 0 /\ x # 0
        /\ x \notin LiveDays /\ x \notin Underpaid /\ x \notin StuckDays
    BY <1>1, <2>1, RepFacts DEF RunFits, HasDay
  <2>3. r \in RepRun /\ r.at = "create" /\ r.day = x /\ r.todo = q.todo /\ r.paid = q.paid
    BY <1>1 DEF RepRun, RepSteps
  <2> HIDE DEF r
  <2>4. RunFits(r)
    BY <2>2, <2>3 DEF RunFits, HasDay
  <2>5. \A p \in Operators : run[p].day # x
    BY <1>1, <2>2
  <2>6. x \in half \/ (recorded[x] = 0 /\ dayCredit[x] = 0)
    BY <2>1, <2>2, <2>5 DEF RepInv, DaysCounted, FutureCounted, DayHeld
  <2>7. /\ dayCredit' \in [RepDays -> Nat] /\ dayCredit'[x] = dayCredit[x] + 1
        /\ recorded'[x] = recorded[x]
        /\ \A d \in RepDays : d # x => recorded'[d] = recorded[d] /\ dayCredit'[d] = dayCredit[d]
    BY <1>2, <2>1
  <2>8. run' \in [Operators -> RepRun] /\ run'[o] = r
    BY <2>1, <2>3 DEF RepInv, Shape
  <2>9. Shape'
    BY <1>2, <2>1, <2>7, <2>8 DEF RepInv, Shape, logVars
  <2>10. UNCHANGED <<filled, half, mark, compensated>> /\ row' = row
    BY <2>1 DEF logVars
  <2>11. x \in half \/ (recorded'[x] = 0 /\ dayCredit'[x] = 1)
    BY <2>6, <2>7
  <2>12. PaymentFits(run[o])'
    BY <2>1, <2>3, <2>8, <2>10, <2>11 DEF PaymentFits
  <2>13. /\ r.paid \subseteq row' /\ run[o].at # "none" /\ run[o].day = 0 /\ x \notin row'
    BY <1>1, <2>1, <2>2, <2>3, <2>10
  <2>14. /\ HasDay(r) => r.day = run[o].day \/ \A p \in Operators : run[p].day # r.day
         /\ r.day = run[o].day \/ (run[o].day = 0 /\ r.day = x)
         /\ \A p \in Operators : p # o => run[p].day # x
         /\ Excludes(r) => Excludes(run[o])
    BY <1>1, <2>3, <2>5, <2>13
  <2>15. /\ row \subseteq row' /\ row' \subseteq row \cup {x}
         /\ x \in StuckDays => x \in row' /\ recorded'[x] = 1 /\ dayCredit'[x] = 1
         /\ x \in Underpaid => run[o].day = x /\ r.day = x /\ dayCredit'[x] <= 1
    BY <2>2, <2>10
  <2>16. x \in FutureDays => r.day = x /\ (x \in half \/
           /\ x \in row' => recorded'[x] = 1 /\ dayCredit'[x] = 1
           /\ x \notin row' => recorded'[x] = 0 /\ dayCredit'[x] = 1)
    BY <2>3, <2>11, <2>13
  <2>17. r.at \in {"find", "done", "stuck", "create", "end"} /\ run' = [run EXCEPT ![o] = r]
    BY <2>1, <2>3
  <2> QED BY <2>2, <2>3, <2>4, <2>7, <2>9, <2>10, <2>12, <2>13, <2>14, <2>15, <2>16, <2>17,
            PayKeeps
<1>4. CASE CreateFutureDay(o)
  <2> DEFINE x == q.day  r == [q EXCEPT !.at = "end"]
  <2>1. /\ q.at = "create" /\ row' = row \cup {x}
        /\ recorded' = [recorded EXCEPT ![x] = @ + 1] /\ run' = [run EXCEPT ![o] = r]
        /\ UNCHANGED <<walletVars, dayCredit, logVars, half, moves, mishaps>>
    BY <1>4 DEF CreateFutureDay, At, RunGoes
  <2>2. /\ q.todo \subseteq FutureDays /\ x \in FutureDays /\ x \in RepDays /\ x # 0
        /\ x \notin LiveDays /\ x \notin Underpaid /\ x \notin StuckDays
        /\ x \notin row /\ (x \in half \/ dayCredit[x] = 1)
    BY <1>1, <2>1, RepFacts DEF RunFits, PaymentFits
  <2>3. r \in RepRun /\ r.at = "end" /\ r.day = x /\ r.todo = q.todo /\ r.paid = q.paid
    BY <1>1 DEF RepRun, RepSteps
  <2> HIDE DEF r
  <2>4. RunFits(r)
    BY <2>2, <2>3 DEF RunFits, HasDay
  <2>5. r.day = run[o].day /\ run[o].day = x
    BY <2>3
  <2>6. x \in half \/ recorded[x] = 0
    BY <2>2 DEF RepInv, DaysCounted, FutureCounted
  <2> HIDE DEF x
  <2>7. /\ recorded' \in [RepDays -> Nat] /\ recorded'[x] = recorded[x] + 1
        /\ dayCredit'[x] = dayCredit[x]
        /\ \A d \in RepDays : d # x => recorded'[d] = recorded[d] /\ dayCredit'[d] = dayCredit[d]
    BY <1>2, <2>1, <2>2
  <2>8. run' \in [Operators -> RepRun] /\ run'[o] = r
    BY <2>1, <2>3 DEF RepInv, Shape
  <2>9. Shape'
    BY <2>1, <2>2, <2>7, <2>8 DEF RepInv, Shape, walletVars, logVars
  <2>10. UNCHANGED <<filled, half, mark, compensated>> /\ x \in row' /\ row \subseteq row'
         /\ row' \subseteq row \cup {x}
    BY <2>1 DEF logVars
  <2>11. x \in half \/ (recorded'[x] = 1 /\ dayCredit'[x] = 1)
    BY <2>2, <2>6, <2>7
  <2>12. PaymentFits(run[o])'
    BY <2>3, <2>8, <2>10 DEF PaymentFits
  <2>13. /\ r.paid \subseteq row' /\ run[o].at # "none"
         /\ \A p \in Operators : p # o => run[p].day # x
    BY <1>1, <2>1, <2>2, <2>3, <2>10
  <2> QED BY <1>1, <2>1, <2>2, <2>3, <2>4, <2>5, <2>7, <2>9, <2>10, <2>11, <2>12, <2>13, PayKeeps
<1> QED BY <1>3, <1>4

\* A step of the server counts for whoever assesses; the scripts stay.
LEMMA MovedFrame ==
  ASSUME RepInv, Moved
  PROVE  /\ run' \in [Operators -> RepRun] /\ RunsFit' /\ RunsApart'
         /\ \A d : DayHeld(d)' <=> DayHeld(d)
         /\ \A p \in Operators :
              /\ run'[p].at = run[p].at /\ run'[p].day = run[p].day /\ run'[p].todo = run[p].todo
              /\ run'[p].seen = run[p].seen /\ run'[p].sum = run[p].sum
              /\ run'[p].out = run[p].out /\ run'[p].paid = run[p].paid
              /\ Assesses(run[p]) => /\ run'[p].moved # 0
                                     /\ run'[p].moved < 2 => run[p].moved = 0
<1>1. ASSUME NEW p \in Operators
      PROVE  /\ run'[p] \in RepRun
             /\ run'[p].at = run[p].at /\ run'[p].day = run[p].day /\ run'[p].todo = run[p].todo
             /\ run'[p].seen = run[p].seen /\ run'[p].sum = run[p].sum
             /\ run'[p].out = run[p].out /\ run'[p].paid = run[p].paid
             /\ Assesses(run[p]) => /\ run'[p].moved # 0
                                    /\ run'[p].moved < 2 => run[p].moved = 0
  <2>1. run[p] \in RepRun /\ run[p].moved \in 0..2
    BY OwnRun, RunFields
  <2>2. CASE Assesses(run[p]) /\ run[p].moved < 2
    <3> DEFINE m == run[p].moved + 1
    <3>1. run'[p] = [run[p] EXCEPT !.moved = m] /\ m \in 0..2
      BY <2>1, <2>2 DEF Moved
    <3>2. m # 0 /\ (m < 2 => run[p].moved = 0)
      BY <2>1, <2>2
    <3> HIDE DEF m
    <3>3. run'[p] \in RepRun /\ run'[p].moved = m
      BY <2>1, <3>1 DEF RepRun
    <3>4. /\ run'[p].at = run[p].at /\ run'[p].day = run[p].day /\ run'[p].todo = run[p].todo
          /\ run'[p].seen = run[p].seen /\ run'[p].sum = run[p].sum
          /\ run'[p].out = run[p].out /\ run'[p].paid = run[p].paid
      BY <2>1, <3>1 DEF RepRun
    <3> QED BY <3>2, <3>3, <3>4
  <2>3. CASE ~(Assesses(run[p]) /\ run[p].moved < 2)
    <3>1. run'[p] = run[p]
      BY <2>3 DEF Moved
    <3> QED BY <2>1, <2>3, <3>1
  <2> QED BY <2>2, <2>3
<1>2. run' \in [Operators -> RepRun]
  BY <1>1 DEF Moved
<1>3. RunsFit'
  <2> SUFFICES ASSUME NEW p \in Operators PROVE RunFits(run[p])'
    BY DEF RunsFit
  <2>1. RunFits(run[p])
    BY DEF RepInv, RunsFit
  <2> QED BY <1>1, <2>1 DEF RunFits, HasDay
<1>4. RunsApart'
  <2> SUFFICES ASSUME NEW p \in Operators, NEW q \in Operators, p # q
               PROVE  /\ Excludes(run'[p]) => run'[q].at = "none"
                      /\ HasDay(run'[p]) => run'[q].day # run'[p].day
    BY DEF RunsApart, Excludes, HasDay
  <2>1. /\ Excludes(run[p]) => run[q].at = "none"
        /\ HasDay(run[p]) => run[q].day # run[p].day
    BY DEF RepInv, RunsApart
  <2> QED BY <1>1, <2>1 DEF Excludes, HasDay
<1>5. \A d : DayHeld(d)' <=> DayHeld(d)
  BY <1>1 DEF DayHeld
<1> QED BY <1>1, <1>2, <1>3, <1>4, <1>5

\* Steps of the server leave marks, scripts' days and what was compensated.
LEMMA ServerKeeps ==
  ASSUME RepInv, Moved, Shape', UNCHANGED <<mark, compensated, half>>,
         row \subseteq row', FilledFits', LiveCounted',
         \A d \in RepDays : d \notin LiveDays =>
           /\ recorded'[d] = recorded[d] /\ dayCredit'[d] = dayCredit[d]
           /\ d \in row' <=> d \in row,
         \/ wallet' # wallet
         \/ /\ waiting' + sent' = waiting + sent
            /\ Sum(dayCredit, RepDays)' = Sum(dayCredit, RepDays)
  PROVE  RepInv'
<1>1. /\ run' \in [Operators -> RepRun] /\ RunsFit' /\ RunsApart'
      /\ \A d : DayHeld(d)' <=> DayHeld(d)
  BY MovedFrame
<1>2. \A p \in Operators :
        /\ run'[p].at = run[p].at /\ run'[p].day = run[p].day /\ run'[p].todo = run[p].todo
        /\ run'[p].seen = run[p].seen /\ run'[p].sum = run[p].sum
        /\ run'[p].out = run[p].out /\ run'[p].paid = run[p].paid
        /\ Assesses(run[p]) => /\ run'[p].moved # 0
                               /\ run'[p].moved < 2 => run[p].moved = 0
  BY MovedFrame
<1>3. mark' = mark /\ compensated' = compensated /\ half' = half
  OBVIOUS
<1>4. PaidInRow'
  BY <1>2, <1>3 DEF RepInv, PaidInRow
<1>5. StuckCounted'
  <2>1. \A d \in StuckDays : d \in RepDays /\ d \notin LiveDays
    BY RepFacts
  <2> QED BY <2>1 DEF RepInv, DaysCounted, StuckCounted
<1>6. UnderCounted'
  <2> SUFFICES ASSUME NEW d \in Underpaid
               PROVE  /\ d \in row'
                      /\ mark'[d] = "none" => recorded'[d] = 0 /\ dayCredit'[d] = 0 /\ ~DayHeld(d)'
                      /\ dayCredit'[d] <= 1
                      /\ d \in half' \/ recorded'[d] = dayCredit'[d] \/ DayHeld(d)'
    BY DEF UnderCounted, DayHeld
  <2>1. /\ d \in row
        /\ mark[d] = "none" => recorded[d] = 0 /\ dayCredit[d] = 0 /\ ~DayHeld(d)
        /\ dayCredit[d] <= 1
        /\ d \in half \/ recorded[d] = dayCredit[d] \/ DayHeld(d)
    BY DEF RepInv, DaysCounted, UnderCounted
  <2>2. d \in RepDays /\ d \notin LiveDays
    BY RepFacts
  <2> QED BY <1>1, <1>3, <2>1, <2>2
<1>7. FutureCounted'
  <2> SUFFICES ASSUME NEW d \in FutureDays
               PROVE  d \in half' \/
                  /\ d \in row' => recorded'[d] = 1 /\ dayCredit'[d] = 1
                  /\ d \notin row' => recorded'[d] = 0
                  /\ d \notin row' => dayCredit'[d] = 0 \/ (dayCredit'[d] = 1 /\ DayHeld(d)')
    BY DEF FutureCounted, DayHeld
  <2>1. d \in half \/
                  /\ d \in row => recorded[d] = 1 /\ dayCredit[d] = 1
                  /\ d \notin row => recorded[d] = 0
                  /\ d \notin row => dayCredit[d] = 0 \/ (dayCredit[d] = 1 /\ DayHeld(d))
    BY DEF RepInv, DaysCounted, FutureCounted
  <2>2. d \in RepDays /\ d \notin LiveDays
    BY RepFacts
  <2> QED BY <1>1, <1>3, <2>1, <2>2
<1>8. PaymentsFit'
  <2> SUFFICES ASSUME NEW p \in Operators PROVE PaymentFits(run[p])'
    BY DEF PaymentsFit
  <2>1. PaymentFits(run[p])
    BY DEF RepInv, PaymentsFit
  <2>2. run[p].at \in {"inc", "find", "write", "done", "create", "end"} =>
          run[p].day \in RepDays /\ run[p].day \notin LiveDays
    BY OwnRun, RepFacts DEF RunFits
  <2> QED BY <1>2, <1>3, <2>1, <2>2 DEF PaymentFits
<1>9. AssessedFits'
  <2> SUFFICES ASSUME NEW p \in Operators PROVE ResetFits(run[p])' /\ RecalculationFits(run[p])'
    BY DEF AssessedFits
  <2>1. ResetFits(run[p])
    BY OwnRun
  <2>2. CASE ~Assesses(run[p])
    BY <1>2, <2>2 DEF ResetFits, RecalculationFits, Assesses
  <2>3. CASE Assesses(run[p])
    <3>1. run'[p].moved # 0 /\ (run'[p].moved < 2 => run[p].moved = 0)
      BY <1>2, <2>3
    <3>2. RecalculationFits(run[p])'
      BY <3>1 DEF RecalculationFits
    <3>3. ResetFits(run[p])'
      <4> SUFFICES ASSUME run'[p].at \in {"history", "payouts", "reset"}, run'[p].moved < 2,
                          wallet' = run'[p].seen
                   PROVE  /\ run'[p].at # "history" /\ half' = {} =>
                               Sum(dayCredit, RepDays)' <= run'[p].sum
                          /\ run'[p].at = "reset" => run'[p].out = waiting' + sent'
        BY <3>1 DEF ResetFits
      <4>1. wallet = run[p].seen /\ run[p].moved = 0
        BY <1>2, <2>1, <3>1 DEF ResetFits
      <4>2. wallet' = wallet
        BY <1>2, <4>1
      <4>3. /\ waiting' + sent' = waiting + sent
            /\ Sum(dayCredit, RepDays)' = Sum(dayCredit, RepDays)
        BY <4>2
      <4>4. /\ run[p].at # "history" /\ half = {} => Sum(dayCredit, RepDays) <= run[p].sum
            /\ run[p].at = "reset" => run[p].out = waiting + sent
        BY <1>2, <2>1, <4>1 DEF ResetFits
      <4> HIDE DEF ResetFits
      <4>5. /\ run'[p].at = run[p].at /\ run'[p].sum = run[p].sum /\ run'[p].out = run[p].out
        BY <1>2
      <4> QED BY ONLY <1>3, <4>3, <4>4, <4>5
    <3> QED BY <3>2, <3>3
  <2> QED BY <2>2, <2>3
<1> QED BY <1>1, <1>4, <1>5, <1>6, <1>7, <1>8, <1>9 DEF RepInv, DaysCounted

LEMMA WalletKeeps ==
  ASSUME RepInv, AskWithdrawal \/ RefuseWithdrawal \/ SendWithdrawal
  PROVE  RepInv'
<1>1. /\ Moved /\ UNCHANGED <<dayVars, logVars, half, mishaps>>
  BY DEF AskWithdrawal, RefuseWithdrawal, SendWithdrawal
<1>2. wallet \in Nat /\ waiting \in Nat /\ sent \in Nat /\ moves \in 0..MaxMoves /\ MaxMoves \in Nat
  BY RepFacts DEF RepInv, Shape
<1>3. /\ wallet' \in Nat /\ waiting' \in Nat /\ sent' \in Nat /\ moves' \in 0..MaxMoves
      /\ wallet' # wallet \/ waiting' + sent' = waiting + sent
  BY <1>2 DEF AskWithdrawal, RefuseWithdrawal, SendWithdrawal
<1>4. run' \in [Operators -> RepRun]
  BY <1>1, MovedFrame
<1>5. Shape'
  BY <1>1, <1>3, <1>4 DEF RepInv, Shape, dayVars, logVars
<1>6. /\ UNCHANGED <<mark, compensated, half>> /\ row' = row /\ recorded' = recorded
      /\ dayCredit' = dayCredit /\ filled' = filled
  BY <1>1 DEF dayVars, logVars
<1>7. FilledFits' /\ LiveCounted' /\ Sum(dayCredit, RepDays)' = Sum(dayCredit, RepDays)
  BY <1>6 DEF RepInv, DaysCounted, FilledFits, LiveCounted
<1> QED BY <1>1, <1>3, <1>5, <1>6, <1>7, ServerKeeps

LEMMA LiveKeeps ==
  ASSUME RepInv, NEW x \in LiveDays, SettleLiveDay(x) \/ FillDay(x)
  PROVE  RepInv'
<1>1. /\ x \in RepDays /\ recorded \in [RepDays -> Nat] /\ dayCredit \in [RepDays -> Nat]
      /\ wallet \in Nat /\ row \subseteq RepDays /\ filled \subseteq LiveDays \cap row
  BY RepFacts DEF RepInv, Shape, FilledFits
<1>2. Moved /\ recorded' = [recorded EXCEPT ![x] = 1] /\ row' = row \cup {x}
      /\ UNCHANGED <<waiting, sent, mark, compensated, ended, half, moves, mishaps>>
  BY DEF SettleLiveDay, FillDay, walletVars
<1>3. run' \in [Operators -> RepRun]
  BY <1>2, MovedFrame
<1>4. /\ recorded' \in [RepDays -> Nat] /\ recorded'[x] = 1
      /\ \A d \in RepDays : d # x => recorded'[d] = recorded[d]
  BY <1>1, <1>2
<1>5. \A d \in RepDays : d # x => (d \in row' <=> d \in row)
  BY <1>2
<1>6. ASSUME NEW d \in LiveDays
      PROVE  /\ recorded[d] = IF d \in row THEN 1 ELSE 0
             /\ dayCredit[d] = IF d \in row /\ d \notin filled THEN 1 ELSE 0
             /\ d \in RepDays
  BY RepFacts DEF RepInv, DaysCounted, LiveCounted
<1>7. CASE SettleLiveDay(x)
  <2>1. /\ wallet' = wallet + 1 /\ dayCredit' = [dayCredit EXCEPT ![x] = @ + 1]
        /\ filled' = filled \ {x} /\ (x \notin row \/ x \in filled)
    BY <1>7 DEF SettleLiveDay
  <2>2. dayCredit[x] = 0
    BY <1>6, <2>1
  <2>3. /\ dayCredit' \in [RepDays -> Nat] /\ dayCredit'[x] = 1
        /\ \A d \in RepDays : d # x => dayCredit'[d] = dayCredit[d]
    BY <1>1, <2>1, <2>2
  <2>4. Shape'
    BY <1>1, <1>2, <1>3, <1>4, <2>1, <2>3 DEF RepInv, Shape
  <2>5. FilledFits'
    BY <1>1, <1>2, <2>1 DEF RepInv, FilledFits
  <2>6. LiveCounted'
    <3> SUFFICES ASSUME NEW d \in LiveDays
                 PROVE  /\ recorded'[d] = IF d \in row' THEN 1 ELSE 0
                        /\ dayCredit'[d] = IF d \in row' /\ d \notin filled' THEN 1 ELSE 0
      BY DEF LiveCounted
    <3>1. CASE d = x
      BY <1>2, <1>4, <2>1, <2>3, <3>1
    <3>2. CASE d # x
      <4>1. (d \in row' <=> d \in row) /\ (d \in filled' <=> d \in filled)
        BY <1>2, <2>1, <3>2
      <4> QED BY <1>4, <1>6, <2>3, <3>2, <4>1
    <3> QED BY <3>1, <3>2
  <2>7. \A d \in RepDays : d \notin LiveDays =>
          /\ recorded'[d] = recorded[d] /\ dayCredit'[d] = dayCredit[d]
          /\ d \in row' <=> d \in row
    BY <1>4, <1>5, <2>3
  <2>8. wallet' # wallet /\ row \subseteq row'
    BY <1>1, <1>2, <2>1
  <2> QED BY <1>2, <2>4, <2>5, <2>6, <2>7, <2>8, ServerKeeps
<1>8. CASE FillDay(x)
  <2>1. /\ wallet' = wallet /\ dayCredit' = dayCredit /\ filled = {} /\ filled' = {x}
        /\ x \notin row
    BY <1>8 DEF FillDay, walletVars
  <2>2. dayCredit[x] = 0
    BY <1>6, <2>1
  <2>3. Shape'
    BY <1>1, <1>2, <1>3, <1>4, <2>1 DEF RepInv, Shape
  <2>4. FilledFits'
    BY <1>2, <2>1 DEF FilledFits
  <2>5. LiveCounted'
    <3> SUFFICES ASSUME NEW d \in LiveDays
                 PROVE  /\ recorded'[d] = IF d \in row' THEN 1 ELSE 0
                        /\ dayCredit'[d] = IF d \in row' /\ d \notin filled' THEN 1 ELSE 0
      BY DEF LiveCounted
    <3>1. CASE d = x
      BY <1>2, <1>4, <2>1, <2>2, <3>1
    <3>2. CASE d # x
      <4>1. (d \in row' <=> d \in row) /\ d \notin filled' /\ d \notin filled
        BY <1>2, <2>1, <3>2
      <4> QED BY <1>4, <1>6, <2>1, <3>2, <4>1
    <3> QED BY <3>1, <3>2
  <2>6. \A d \in RepDays : d \notin LiveDays =>
          /\ recorded'[d] = recorded[d] /\ dayCredit'[d] = dayCredit[d]
          /\ d \in row' <=> d \in row
    BY <1>4, <1>5, <2>1
  <2>7. /\ waiting' + sent' = waiting + sent /\ row \subseteq row'
        /\ Sum(dayCredit, RepDays)' = Sum(dayCredit, RepDays)
    BY <1>2, <2>1
  <2> QED BY <1>2, <2>3, <2>4, <2>5, <2>6, <2>7, ServerKeeps
<1> QED BY <1>7, <1>8

----------------------------------------------------------------------------
LEMMA RepStart == RepInit => RepInv
<1> SUFFICES ASSUME RepInit PROVE RepInv
  OBVIOUS
<1>1. /\ wallet = Forged /\ waiting = 0 /\ sent = 0 /\ row = Underpaid
      /\ recorded = [d \in RepDays |-> 0] /\ dayCredit = [d \in RepDays |-> 0]
      /\ mark = [d \in Underpaid |-> "none"] /\ compensated = {} /\ ended = {} /\ filled = {}
      /\ run = [o \in Operators |-> NoRun] /\ half = {} /\ moves = 0 /\ mishaps = 0
  BY DEF RepInit
<1>2. Shape
  <2>1. moves \in 0..MaxMoves /\ mishaps \in 0..MaxMishaps /\ wallet \in Nat
    BY <1>1, RepFacts
  <2> QED BY <1>1, <2>1, RepFacts, NoRunFits DEF Shape
<1>3. RunsFit /\ RunsApart /\ PaymentsFit /\ AssessedFits
  BY <1>1, NoRunFits DEF RunsFit, RunsApart, PaymentsFit, AssessedFits
<1>4. PaidInRow /\ FilledFits
  BY <1>1, NoRunFits DEF PaidInRow, FilledFits
<1>5. \A d \in RepDays : recorded[d] = 0 /\ dayCredit[d] = 0 /\ ~DayHeld(d)
  BY <1>1, NoRunFits, RepFacts DEF DayHeld
<1>6. DaysCounted
  BY <1>1, <1>5, RepFacts DEF DaysCounted, LiveCounted, StuckCounted, UnderCounted, FutureCounted
<1> QED BY <1>2, <1>3, <1>4, <1>6 DEF RepInv

LEMMA ScriptKeeps ==
  ASSUME RepInv, NEW o \in Operators,
           \/ StartShortfall(o) \/ PayShortfall(o) \/ FindHistory(o) \/ WriteHistory(o)
           \/ MarkCredited(o) \/ ShortfallFails(o)
           \/ StartStuck(o) \/ RecordCompensation(o)
           \/ StartReset(o) \/ AssessHistory(o) \/ AssessPayouts(o) \/ ResetWallet(o)
           \/ StartRecalculation(o) \/ SumWithdrawals(o) \/ LoadBalance(o) \/ SaveBalance(o)
           \/ StartFuture(o) \/ CreateFutureDay(o) \/ EndSession(o)
           \/ ScriptStopped(o)
           \/ \E d \in RepDays :
                  \/ MarkDay(o, d) \/ PayStuckDay(o, d) \/ StuckDayFails(o, d)
                  \/ PayFutureDay(o, d)
  PROVE  RepInv'
<1>1. CASE StartShortfall(o)
  BY <1>1, StartShortfallKeeps
<1>2. CASE PayShortfall(o) \/ WriteHistory(o)
  BY <1>2, ShortfallKeeps
<1>3. CASE FindHistory(o)
  BY <1>3, FindHistoryKeeps
<1>4. CASE MarkCredited(o) \/ ShortfallFails(o)
  BY <1>4, CreditedKeeps
<1>5. CASE StartStuck(o) \/ RecordCompensation(o)
  BY <1>5, StuckKeeps
<1>6. CASE StartReset(o) \/ AssessHistory(o) \/ AssessPayouts(o) \/ ResetWallet(o)
  BY <1>6, ResetKeeps
<1>7. CASE StartRecalculation(o) \/ SumWithdrawals(o) \/ LoadBalance(o) \/ SaveBalance(o)
  BY <1>7, RecalculationKeeps
<1>8. CASE StartFuture(o) \/ EndSession(o)
  BY <1>8, FutureKeeps
<1>9. CASE CreateFutureDay(o)
  BY <1>9, PayFutureKeeps
<1>10. CASE ScriptStopped(o)
  BY <1>10, StopKeeps
<1>11. ASSUME NEW d \in RepDays, MarkDay(o, d)
       PROVE  RepInv'
  BY <1>11, MarkKeeps
<1>12. ASSUME NEW d \in RepDays, StuckDayFails(o, d)
       PROVE  RepInv'
  BY <1>12, StuckKeeps
<1>13. ASSUME NEW d \in RepDays, PayStuckDay(o, d)
       PROVE  RepInv'
  BY <1>13, StuckKeeps, PayStuckKeeps
<1>14. ASSUME NEW d \in RepDays, PayFutureDay(o, d)
       PROVE  RepInv'
  BY <1>14, FutureKeeps, PayFutureKeeps
<1> QED BY <1>1, <1>2, <1>3, <1>4, <1>5, <1>6, <1>7, <1>8, <1>9, <1>10, <1>11, <1>12, <1>13, <1>14

LEMMA RepKeeps == RepInv /\ [RepNext]_repVars => RepInv'
<1> SUFFICES ASSUME RepInv, [RepNext]_repVars PROVE RepInv'
  OBVIOUS
<1>1. CASE UNCHANGED repVars
  <2>1. /\ wallet' = wallet /\ waiting' = waiting /\ sent' = sent /\ row' = row
        /\ recorded' = recorded /\ dayCredit' = dayCredit /\ mark' = mark
        /\ compensated' = compensated /\ ended' = ended /\ filled' = filled /\ run' = run
        /\ half' = half /\ moves' = moves /\ mishaps' = mishaps
    BY <1>1 DEF repVars, walletVars, dayVars, logVars
  <2>2. Shape' /\ PaidInRow' /\ FilledFits'
    BY <2>1 DEF RepInv, Shape, PaidInRow, FilledFits
  <2>3. RunsFit' /\ RunsApart'
    BY <2>1 DEF RepInv, RunsFit, RunsApart, RunFits, Excludes, HasDay
  <2>4. LiveCounted' /\ StuckCounted' /\ UnderCounted' /\ FutureCounted'
    BY <2>1 DEF RepInv, DaysCounted, LiveCounted, StuckCounted, UnderCounted, FutureCounted, DayHeld
  <2>5. PaymentsFit'
    BY <2>1 DEF RepInv, PaymentsFit, PaymentFits
  <2>6. AssessedFits'
    BY <2>1 DEF RepInv, AssessedFits, ResetFits, RecalculationFits
  <2> QED BY <2>2, <2>3, <2>4, <2>5, <2>6 DEF RepInv, DaysCounted
<1>2. CASE RepNext
  BY <1>2, LiveKeeps, WalletKeeps, ScriptKeeps DEF RepNext
<1> QED BY <1>1, <1>2

LEMMA RepMeans == RepInv => RepTypeOK /\ DayPaidOnce /\ HistoryIsPaid
<1> SUFFICES ASSUME RepInv PROVE RepTypeOK /\ DayPaidOnce /\ HistoryIsPaid
  OBVIOUS
<1>1. RepTypeOK
  BY DEF RepInv, Shape, FilledFits, RepTypeOK, RepRun, RepSteps
<1>2. ASSUME NEW d \in RepDays
      PROVE  /\ dayCredit[d] <= 1 \/ (d \in FutureDays /\ d \in half)
             /\ \/ recorded[d] = dayCredit[d] \/ d \in half \/ DayHeld(d)
                \/ d \in filled /\ recorded[d] = dayCredit[d] + 1
  <2>0. filled \subseteq row
    BY DEF RepInv, FilledFits
  <2>1. CASE d \in LiveDays
    BY <2>0, <2>1 DEF RepInv, DaysCounted, LiveCounted
  <2>2. CASE d \in StuckDays
    BY <2>2 DEF RepInv, DaysCounted, StuckCounted
  <2>3. CASE d \in Underpaid
    BY <2>3 DEF RepInv, DaysCounted, UnderCounted
  <2>4. CASE d \in FutureDays
    BY <2>4 DEF RepInv, DaysCounted, FutureCounted
  <2> QED BY <2>1, <2>2, <2>3, <2>4, RepFacts
<1>3. \A d \in compensated : dayCredit[d] = 1
  <2>1. compensated \subseteq StuckDays /\ compensated \subseteq row
    BY DEF RepInv, Shape, PaidInRow
  <2> QED BY <2>1 DEF RepInv, DaysCounted, StuckCounted
<1>4. DayPaidOnce
  BY <1>2 DEF DayPaidOnce
<1>5. HistoryIsPaid
  BY <1>2, <1>3 DEF HistoryIsPaid, DayHeld
<1> QED BY <1>1, <1>4, <1>5

LEMMA ResetSpares == RepInv => ResetSparesEarned
<1> SUFFICES ASSUME RepInv, NEW o \in Operators, ResetWallet(o), half = {}, run[o].moved < 2,
                    wallet >= Earned
             PROVE  wallet' >= Earned
  BY DEF ResetSparesEarned
<1> DEFINE q == run[o]  c == Sum(dayCredit, RepDays)
<1>1. /\ q.at = "reset"
      /\ wallet' = IF wallet = q.seen /\ Supported(q) < q.seen THEN Supported(q) ELSE wallet
  BY DEF ResetWallet, At, StillHolds
<1>2. /\ q \in RepRun /\ ResetFits(q) /\ waiting \in Nat /\ sent \in Nat /\ c \in Nat
  BY <1>1, AssessFacts
<1>3. wallet = q.seen => c <= q.sum /\ q.out = waiting + sent
  BY <1>1, <1>2 DEF ResetFits
<1>4. q.sum \in Nat /\ q.out \in Nat
  BY <1>2, RunFields
<1>5. Earned = c - waiting - sent
  BY DEF Earned
<1> HIDE DEF c
<1>6. Supported(q) = IF q.sum > q.out THEN q.sum - q.out ELSE 0
  BY DEF Supported
<1>7. CASE wallet = q.seen /\ Supported(q) < q.seen
  BY <1>1, <1>2, <1>3, <1>4, <1>5, <1>6, <1>7
<1>8. CASE ~(wallet = q.seen /\ Supported(q) < q.seen)
  BY <1>1, <1>8
<1> QED BY <1>7, <1>8

LEMMA RecalculationExact == RepInv => RecalculationIsExact
<1> SUFFICES ASSUME RepInv, NEW o \in Operators, SaveBalance(o), half = {}, run[o].moved = 0,
                    waiting = 0, Earned >= 0
             PROVE  wallet' = Earned + Cardinality(filled)
  BY DEF RecalculationIsExact
<1> DEFINE q == run[o]  c == Sum(dayCredit, RepDays)  n == Cardinality(filled)
<1>1. /\ q.at = "save"
      /\ wallet' = IF Supported(q) = q.seen THEN wallet ELSE Supported(q)
  BY DEF SaveBalance, At
<1>2. /\ q \in RepRun /\ RecalculationFits(q) /\ sent \in Nat /\ c \in Nat /\ n \in Nat
  BY <1>1, AssessFacts
<1>3. q.sum = c + n /\ q.out = sent /\ q.seen = wallet
  BY <1>1, <1>2 DEF RecalculationFits
<1>4. Earned = c - waiting - sent
  BY DEF Earned
<1> HIDE DEF c, n
<1>5. Supported(q) = IF q.sum > q.out THEN q.sum - q.out ELSE 0
  BY DEF Supported
<1>6. Supported(q) = Earned + n
  BY <1>2, <1>3, <1>4, <1>5
<1>7. wallet' = Supported(q)
  BY <1>1, <1>3
<1> QED BY <1>6, <1>7 DEF n

\* The types of the repairs: a wallet is never negative, and a script has a day
\* only where it pays or records one.
THEOREM RepairsTyped == RepSpec => []RepTypeOK
<1>1. RepInit => RepInv
  BY RepStart
<1>2. RepInv /\ [RepNext]_repVars => RepInv'
  BY RepKeeps
<1>3. RepInv => RepTypeOK
  BY RepMeans
<1> QED BY <1>1, <1>2, <1>3, PTL DEF RepSpec

\* However many days, whichever scripts overlap, stop and are run again: days are
\* paid once and as recorded, and the scripts that overwrite the wallet take
\* nothing that was earned.
THEOREM RepairsStayExact == RepSpec => RepairsAreExact
<1>1. RepInit => RepInv
  BY RepStart
<1>2. RepInv /\ [RepNext]_repVars => RepInv'
  BY RepKeeps
<1>3. RepInv /\ RepInv' => DayPaidOnce' /\ HistoryIsPaid'
  <2>1. RepInv' => DayPaidOnce' /\ HistoryIsPaid'
    BY RepMeans, PTL
  <2> QED BY <2>1
<1>4. RepInv => ResetSparesEarned /\ RecalculationIsExact
  BY ResetSpares, RecalculationExact
<1> QED BY <1>1, <1>2, <1>3, <1>4, PTL DEF RepSpec, RepairsAreExact

-----------------------------------------------------------------------------
(* Reminders.  Of each kind of notice, a session that was noticed and is not *)
(* recorded, and is not the one the job is at, is a failure's work: so many  *)
(* notices may be repeated, and were not yet.                                *)

SessionRow == [status: {"active", "expired", "stopped"}, end: Nat, warned: BOOLEAN,
               told: BOOLEAN, video: Int]
SaveCall   == [at: {"save"}, kind: {"start", "stop"}, id: 0..MaxCalls]
GameCall   == [at: {"claim", "send"}, day: 0..Ends]
PushCall   == [at: {"send", "sent"}, bulk: BOOLEAN, token: 0..MaxCalls]
JobRow     == [found: SUBSET [id: Ids, end: Nat], now: 0..MaxCalls]

CallRow == {NoCall} \cup (IF topic = "games" THEN GameCall
                          ELSE IF topic = "token" THEN PushCall ELSE SaveCall)

RemTypes ==
    /\ RemTypeOK
    /\ sessions \in [Ids -> SessionRow \cup {NoSession}]
    /\ calls \in [Callers -> CallRow]
    /\ job \in [Notices -> JobRow]

\* The notice of a kind was not recorded: x is when it was given.
Unrecorded(s, kind, x) ==
    CASE kind = "warning" -> x >= 0 /\ ~s.warned
      [] kind = "expired" -> x >= 0 /\ ~s.told
      [] OTHER            -> x > s.video

\* A notice of a kind is still due at hour h.
StillDue(s, kind, h) ==
    CASE kind = "warning" -> ~s.warned
      [] kind = "expired" -> ~s.told
      [] OTHER            -> s.video < h - 2

\* The sessions that may be noticed again, but for the one the job is at.
Repeatable(kind, ss, nn, at) ==
    {i \in Ids : /\ i # at /\ ss[i].status # "none"
                 /\ Unrecorded(ss[i], kind, nn[i][kind])}

RepeatsAreCounted ==
    \A n \in Notices :
        repeated[n] + Cardinality(Repeatable(n, sessions, noticed, job[n].now)) <= faults

\* What a job has found is due, also to the one it is at, which was noticed.
JobsAreDue ==
    \A n \in Notices :
        /\ \A r \in job[n].found :
               /\ sessions[r.id].status # "none" /\ StillDue(sessions[r.id], n, hour)
               /\ n = "expired" => r.end < hour
        /\ job[n].now # 0 => noticed[job[n].now][n] >= 0

NewIsUnnoticed ==
    \A i \in Ids, n \in Notices :
        noticed[i][n] <= hour /\ (sessions[i].status = "none" => noticed[i][n] = 0 - 3)

UsedIds(ss)  == {i \in Ids : ss[i].status # "none"}
SavingOf(cc) == {c \in Callers : cc[c].at = "save"}

\* Every request that saves has a number left for its session.
NumbersAreLeft ==
    topic \in {"warning", "video"} =>
        /\ IsFiniteSet(SavingOf(calls))
        /\ Cardinality(UsedIds(sessions)) + Cardinality(SavingOf(calls)) <= called

\* Unless starts overlapped, one that found no session will make the only one.
OneIsActive ==
    ~overlapped =>
        /\ \A i, j \in Ids :
               sessions[i].status = "active" /\ sessions[j].status = "active" => i = j
        /\ \A c \in Callers : calls[c].at = "save" /\ calls[c].kind = "start"
                              /\ calls[c].id = 0 =>
               \A i \in Ids : sessions[i].status # "active"

SessionsOK ==
    /\ RepeatsAreCounted /\ JobsAreDue /\ NewIsUnnoticed /\ ExpiredIsTold /\ ExpiredIsOver
    /\ NumbersAreLeft /\ OneIsActive
    /\ \A c \in Callers : calls[c].at = "save" /\ calls[c].id # 0 =>
           sessions[calls[c].id].status # "none"

\* The slot of a day is taken before its reminder, by one job.
GamesOK ==
    /\ RemindedOnce
    /\ \A d \in 0..Ends : reminded[d] > 0 => d \in slots
    /\ topic = "games" => \A c \in Callers : calls[c].at = "send" =>
           /\ calls[c].day \in slots /\ reminded[calls[c].day] = 0
           /\ \A b \in Callers : calls[b].at = "send" /\ calls[b].day = calls[c].day => b = c

\* Tokens are used up in order; one that was found dead is an older one.
PushOK ==
    /\ LiveTokenKept /\ token <= device /\ device <= called
    /\ topic = "token" => \A c \in Callers :
           /\ calls[c].at = "send" => calls[c].token <= device
           /\ calls[c].at = "sent" => calls[c].token < device

RemInv == RemTypes /\ SessionsOK /\ GamesOK /\ PushOK

----------------------------------------------------------------------------
LEMMA IdsFinite == IsFiniteSet(Ids) /\ Cardinality(Ids) = MaxCalls /\ MaxCalls \in Nat
<1>1. MaxCalls \in Nat
  BY RemindersAssumption
<1>2. IsFiniteSet(1..MaxCalls) /\ Cardinality(1..MaxCalls) = MaxCalls
  BY <1>1, FS_Interval
<1> QED BY <1>1, <1>2 DEF Ids

LEMMA RemTypesFacts ==
  ASSUME RemTypes
  PROVE  /\ topic \in {"warning", "video", "games", "token"}
         /\ hour \in 0..Ends /\ hour \in Nat /\ Ends \in Nat
         /\ noticed \in [Ids -> [Notices -> Int]] /\ repeated \in [Notices -> Nat]
         /\ called \in 0..MaxCalls /\ called \in Nat /\ MaxCalls \in Nat
         /\ faults \in 0..MaxFaults /\ faults \in Nat /\ MaxFaults \in Nat
         /\ token \in Nat /\ device \in Nat /\ overlapped \in BOOLEAN
         /\ Ids = 1..MaxCalls /\ Notices = {"warning", "expired", "video"}
<1>1. /\ topic \in Topics /\ hour \in 0..Ends /\ called \in 0..MaxCalls /\ faults \in 0..MaxFaults
      /\ noticed \in [Ids -> [Notices -> (0 - 3)..Ends]] /\ repeated \in [Notices -> Nat]
      /\ token \in 0..MaxCalls /\ device \in 0..MaxCalls /\ overlapped \in BOOLEAN
  BY DEF RemTypes, RemTypeOK
<1>2. /\ Topics \subseteq {"warning", "video", "games", "token"}
      /\ Ends \in Nat /\ MaxCalls \in Nat /\ MaxFaults \in Nat
  BY RemindersAssumption
<1>3. noticed \in [Ids -> [Notices -> Int]]
  <2>1. (0 - 3)..Ends \subseteq Int
    BY <1>2
  <2> QED BY <1>1, <2>1
<1> QED BY <1>1, <1>2, <1>3 DEF Ids, Notices

LEMMA RemindersStart == RemInit => RemInv
<1> SUFFICES ASSUME RemInit PROVE RemInv
  OBVIOUS
<1>1. /\ Ends \in Nat /\ MaxCalls \in Nat /\ MaxFaults \in Nat
  BY RemindersAssumption
<1>2. /\ \A i \in Ids : sessions[i].status = "none"
      /\ \A c \in Callers : calls[c].at = "none"
      /\ \A n \in Notices : job[n].now = 0 /\ job[n].found = {} /\ repeated[n] = 0
      /\ faults = 0 /\ called = 0
  BY DEF RemInit, NoSession, NoCall, NoJob
<1>3. job \in [Notices -> JobRow]
  <2>1. NoJob \in JobRow
    BY <1>1 DEF NoJob, JobRow
  <2> QED BY <2>1 DEF RemInit
<1>4. noticed \in [Ids -> [Notices -> (0 - 3)..Ends]]
  <2>1. 0 - 3 \in (0 - 3)..Ends
    BY <1>1
  <2> QED BY <2>1 DEF RemInit
<1>5. RemTypeOK
  <2>1. /\ topic \in Topics /\ hour \in 0..Ends /\ token \in 0..MaxCalls
        /\ device \in 0..MaxCalls /\ called \in 0..MaxCalls /\ faults \in 0..MaxFaults
    BY <1>1 DEF RemInit
  <2>2. repeated \in [Notices -> Nat] /\ reminded \in [0..Ends -> Nat]
    BY DEF RemInit
  <2>3. /\ slots \subseteq 0..Ends /\ outrun \subseteq Ids
        /\ overlapped \in BOOLEAN /\ lost \in BOOLEAN /\ crossed \in BOOLEAN
    BY DEF RemInit
  <2> QED BY <1>2, <1>4, <2>1, <2>2, <2>3 DEF RemTypeOK
<1>6. RemTypes
  BY <1>3, <1>5 DEF RemInit, RemTypes, CallRow
<1>7. RepeatsAreCounted
  <2> SUFFICES ASSUME NEW n \in Notices
               PROVE  repeated[n] + Cardinality(Repeatable(n, sessions, noticed, job[n].now))
                          <= faults
    BY DEF RepeatsAreCounted
  <2>1. Repeatable(n, sessions, noticed, job[n].now) = {}
    BY <1>2 DEF Repeatable
  <2> QED BY <1>2, <2>1, FS_EmptySet
<1>8. NumbersAreLeft
  <2>1. SavingOf(calls) = {} /\ UsedIds(sessions) = {}
    BY <1>2 DEF SavingOf, UsedIds
  <2> QED BY <1>2, <2>1, FS_EmptySet DEF NumbersAreLeft
<1>9. /\ JobsAreDue /\ NewIsUnnoticed /\ ExpiredIsTold /\ ExpiredIsOver /\ OneIsActive
      /\ \A c \in Callers : calls[c].at = "save" /\ calls[c].id # 0 =>
             sessions[calls[c].id].status # "none"
  BY <1>1, <1>2 DEF RemInit, JobsAreDue, NewIsUnnoticed, ExpiredIsTold, ExpiredIsOver, OneIsActive
<1>10. GamesOK
  BY <1>2 DEF RemInit, GamesOK, RemindedOnce
<1>11. PushOK
  BY <1>2 DEF RemInit, PushOK, LiveTokenKept
<1> QED BY <1>6, <1>7, <1>8, <1>9, <1>10, <1>11 DEF RemInv, SessionsOK

----------------------------------------------------------------------------
(* Games and tokens *)

\* Steps of a request that has nothing to do with sessions.
LEMMA OtherCallStep ==
  ASSUME RemInv, NEW c \in Callers, NEW x \in CallRow, x.at # "save", calls[c].at # "save",
         calls' = [calls EXCEPT ![c] = x],
         UNCHANGED <<topic, hour, sessions, job, noticed, repeated, outrun, overlapped, faults>>,
         called' \in 0..MaxCalls, called' >= called
  PROVE  /\ SessionsOK'
         /\ sessions' \in [Ids -> SessionRow \cup {NoSession}]
         /\ calls' \in [Callers -> CallRow'] /\ job' \in [Notices -> JobRow]
         /\ calls'[c] = x /\ \A b \in Callers \ {c} : calls'[b] = calls[b]
         /\ \A b \in Callers :
                calls'[b].at \in {"none", "save", "claim", "send", "sent", "start"}
<1>1. /\ RemTypes /\ calls \in [Callers -> CallRow]
      /\ sessions \in [Ids -> SessionRow \cup {NoSession}] /\ job \in [Notices -> JobRow]
  BY DEF RemInv, RemTypes
<1>2. CallRow' = CallRow
  BY DEF CallRow
<1>3. /\ calls' \in [Callers -> CallRow'] /\ calls'[c] = x
      /\ \A b \in Callers \ {c} : calls'[b] = calls[b]
  BY <1>1, <1>2
<1>4. \A b \in Callers : calls'[b].at \in {"none", "save", "claim", "send", "sent", "start"}
  BY <1>2, <1>3 DEF CallRow, NoCall, SaveCall, GameCall, PushCall
<1>5. SavingOf(calls') = SavingOf(calls)
  BY <1>3 DEF SavingOf
<1>6. NumbersAreLeft'
  <2>1. ASSUME topic \in {"warning", "video"}
        PROVE  /\ IsFiniteSet(SavingOf(calls)) /\ called \in Nat /\ called' \in Nat
               /\ Cardinality(UsedIds(sessions)) + Cardinality(SavingOf(calls)) <= called
               /\ Cardinality(SavingOf(calls)) \in Nat /\ Cardinality(UsedIds(sessions)) \in Nat
    <3>1. IsFiniteSet(UsedIds(sessions))
      BY IdsFinite, FS_Subset DEF UsedIds
    <3> QED BY <1>1, <2>1, <3>1, RemTypesFacts, FS_CardinalityType
            DEF RemInv, SessionsOK, NumbersAreLeft
  <2> QED BY <1>5, <2>1 DEF NumbersAreLeft
<1>7. OneIsActive' /\ \A b \in Callers : calls'[b].at = "save" /\ calls'[b].id # 0 =>
                          sessions'[calls'[b].id].status # "none"
  BY <1>3 DEF RemInv, SessionsOK, OneIsActive
<1>8. (RepeatsAreCounted /\ JobsAreDue /\ NewIsUnnoticed /\ ExpiredIsTold /\ ExpiredIsOver)'
  BY DEF RemInv, SessionsOK, RepeatsAreCounted, JobsAreDue, NewIsUnnoticed, ExpiredIsTold,
         ExpiredIsOver
<1> QED BY <1>1, <1>3, <1>4, <1>6, <1>7, <1>8 DEF SessionsOK

LEMMA GamesKeep ==
  ASSUME RemInv, NEW c \in Callers, FindPlayer(c) \/ ClaimSlot(c) \/ SendReminder(c)
  PROVE  RemInv'
<1> DEFINE q == calls[c]
<1>1. /\ RemTypes /\ RemTypeOK /\ q \in CallRow /\ NoCall \in CallRow /\ NoCall.at = "none"
      /\ topic \in {"warning", "video", "games", "token"}
      /\ hour \in 0..Ends /\ called \in 0..MaxCalls /\ called \in Nat /\ MaxCalls \in Nat
      /\ device \in Nat /\ reminded \in [0..Ends -> Nat] /\ slots \subseteq 0..Ends
  BY RemTypesFacts DEF RemInv, RemTypes, RemTypeOK, CallRow, NoCall
<1>2. topic = "games" /\ q.at \in {"none", "claim", "send"}
  BY <1>1 DEF FindPlayer, ClaimSlot, SendReminder, CallRow, NoCall, SaveCall, PushCall
<1>3. CallRow = {NoCall} \cup GameCall
  BY <1>2 DEF CallRow
<1>4. q.at # "none" => q \in GameCall /\ q.day \in 0..Ends
  BY <1>1, <1>3 DEF NoCall, GameCall
<1>5. UNCHANGED <<topic, hour, sessions, job, noticed, repeated, outrun, overlapped, faults,
                  token, device, lost, crossed>>
  BY DEF FindPlayer, ClaimSlot, SendReminder
<1>6. called' \in 0..MaxCalls /\ called' >= called /\ called' \in Nat
  BY <1>1 DEF FindPlayer, ClaimSlot, SendReminder
<1>7. PushOK'
  BY <1>1, <1>2, <1>5, <1>6 DEF RemInv, PushOK, LiveTokenKept
<1>8. /\ \A d \in 0..Ends : reminded[d] <= 1 /\ (reminded[d] > 0 => d \in slots)
      /\ \A b \in Callers : calls[b].at = "send" =>
             /\ calls[b].day \in slots /\ reminded[calls[b].day] = 0
             /\ \A e \in Callers : calls[e].at = "send" /\ calls[e].day = calls[b].day => e = b
  BY <1>2 DEF RemInv, GamesOK, RemindedOnce
<1>9. CASE FindPlayer(c)
  <2> DEFINE x == [at |-> "claim", day |-> hour]
  <2>1. /\ calls' = [calls EXCEPT ![c] = x] /\ UNCHANGED <<slots, reminded>>
        /\ q.at = "none"
    BY <1>9 DEF FindPlayer
  <2>2. x \in CallRow /\ x.at = "claim"
    BY <1>1, <1>3 DEF GameCall
  <2> HIDE DEF x
  <2>3. /\ SessionsOK'
        /\ sessions' \in [Ids -> SessionRow \cup {NoSession}]
        /\ calls' \in [Callers -> CallRow'] /\ job' \in [Notices -> JobRow]
        /\ calls'[c] = x /\ \A b \in Callers \ {c} : calls'[b] = calls[b]
        /\ \A b \in Callers :
               calls'[b].at \in {"none", "save", "claim", "send", "sent", "start"}
    BY <1>5, <1>6, <2>1, <2>2, OtherCallStep
  <2>4. RemTypes'
    BY <1>1, <1>5, <1>6, <2>1, <2>3 DEF RemTypes, RemTypeOK
  <2>5. GamesOK'
    BY <1>5, <1>8, <2>1, <2>2, <2>3 DEF GamesOK, RemindedOnce
  <2> QED BY <1>7, <2>3, <2>4, <2>5 DEF RemInv
<1>10. CASE ClaimSlot(c)
  <2> DEFINE x == IF SlotIsTaken(q.day) THEN NoCall ELSE [q EXCEPT !.at = "send"]
  <2>1. /\ calls' = [calls EXCEPT ![c] = x] /\ UNCHANGED reminded
        /\ q.at = "claim" /\ slots' = slots \cup {q.day}
    BY <1>10 DEF ClaimSlot
  <2>2. /\ x \in CallRow /\ x.at \in {"none", "send"}
        /\ x.at = "send" => x.day = q.day /\ q.day \notin slots
    BY <1>1, <1>3, <1>4, <2>1 DEF GameCall, SlotIsTaken
  <2> HIDE DEF x
  <2>3. /\ SessionsOK'
        /\ sessions' \in [Ids -> SessionRow \cup {NoSession}]
        /\ calls' \in [Callers -> CallRow'] /\ job' \in [Notices -> JobRow]
        /\ calls'[c] = x /\ \A b \in Callers \ {c} : calls'[b] = calls[b]
        /\ \A b \in Callers :
               calls'[b].at \in {"none", "save", "claim", "send", "sent", "start"}
    BY <1>5, <1>6, <2>1, <2>2, OtherCallStep
  <2>4. q.day \in 0..Ends
    BY <1>4, <2>1
  <2>5. RemTypes'
    BY <1>1, <1>5, <1>6, <2>1, <2>3, <2>4 DEF RemTypes, RemTypeOK
  <2>6. q.day \notin slots => reminded[q.day] = 0
    BY <1>1, <1>8, <2>4
  <2>7. GamesOK'
    <3>1. \A d \in 0..Ends : reminded'[d] <= 1 /\ (reminded'[d] > 0 => d \in slots')
      BY <1>8, <2>1
    <3>2. ASSUME NEW b \in Callers, calls'[b].at = "send"
          PROVE  /\ calls'[b].day \in slots' /\ reminded'[calls'[b].day] = 0
                 /\ \A e \in Callers : calls'[e].at = "send" /\ calls'[e].day = calls'[b].day
                                           => e = b
      <4>1. CASE b = c
        BY <1>8, <2>1, <2>2, <2>3, <2>6, <3>2, <4>1
      <4>2. CASE b # c
        BY <1>8, <2>1, <2>2, <2>3, <3>2, <4>2
      <4> QED BY <4>1, <4>2
    <3> QED BY <3>1, <3>2 DEF GamesOK, RemindedOnce
  <2> QED BY <1>7, <2>3, <2>5, <2>7 DEF RemInv
<1>11. CASE SendReminder(c)
  <2>1. /\ calls' = [calls EXCEPT ![c] = NoCall] /\ UNCHANGED slots
        /\ q.at = "send" /\ reminded' = [reminded EXCEPT ![q.day] = @ + 1]
    BY <1>11 DEF SendReminder
  <2>2. NoCall.at # "save"
    BY <1>1
  <2>3. /\ SessionsOK'
        /\ sessions' \in [Ids -> SessionRow \cup {NoSession}]
        /\ calls' \in [Callers -> CallRow'] /\ job' \in [Notices -> JobRow]
        /\ calls'[c] = NoCall /\ \A b \in Callers \ {c} : calls'[b] = calls[b]
        /\ \A b \in Callers :
               calls'[b].at \in {"none", "save", "claim", "send", "sent", "start"}
    BY <1>1, <1>5, <1>6, <2>1, <2>2, OtherCallStep
  <2>4. q.day \in 0..Ends /\ q.day \in slots /\ reminded[q.day] = 0
    BY <1>4, <1>8, <2>1
  <2>5. /\ reminded' \in [0..Ends -> Nat] /\ reminded'[q.day] = 1
        /\ \A d \in (0..Ends) \ {q.day} : reminded'[d] = reminded[d]
    BY <1>1, <2>1, <2>4
  <2>6. RemTypes'
    BY <1>1, <1>5, <1>6, <2>1, <2>3, <2>5 DEF RemTypes, RemTypeOK
  <2>7. GamesOK'
    <3>1. \A d \in 0..Ends : reminded'[d] <= 1 /\ (reminded'[d] > 0 => d \in slots')
      BY <1>8, <2>1, <2>4, <2>5
    <3>2. ASSUME NEW b \in Callers, calls'[b].at = "send"
          PROVE  /\ calls'[b].day \in slots' /\ reminded'[calls'[b].day] = 0
                 /\ \A e \in Callers : calls'[e].at = "send" /\ calls'[e].day = calls'[b].day
                                           => e = b
      <4>1. b # c /\ calls'[b] = calls[b]
        BY <1>1, <2>3, <3>2
      <4>2. calls[b].day # q.day /\ calls[b].day \in slots /\ reminded[calls[b].day] = 0
        BY <1>8, <2>1, <3>2, <4>1
      <4>3. calls[b].day \in (0..Ends) \ {q.day}
        BY <1>1, <4>2
      <4> QED BY <1>1, <1>8, <2>1, <2>3, <2>5, <3>2, <4>1, <4>2, <4>3
    <3> QED BY <3>1, <3>2 DEF GamesOK, RemindedOnce
  <2> QED BY <1>7, <2>3, <2>6, <2>7 DEF RemInv
<1> QED BY <1>9, <1>10, <1>11

LEMMA PushesKeep ==
  ASSUME RemInv, NEW c \in Callers,
         SendPush(c) \/ RemoveToken(c) \/ \E bulk \in BOOLEAN : ReadToken(c, bulk)
  PROVE  RemInv'
<1> DEFINE q == calls[c]
<1>1. /\ RemTypes /\ RemTypeOK /\ q \in CallRow /\ NoCall \in CallRow /\ NoCall.at = "none"
      /\ topic \in {"warning", "video", "games", "token"}
      /\ called \in 0..MaxCalls /\ called \in Nat /\ MaxCalls \in Nat
      /\ device \in Nat /\ token \in 0..MaxCalls /\ token \in Nat
      /\ lost \in BOOLEAN /\ crossed \in BOOLEAN
  BY RemTypesFacts DEF RemInv, RemTypes, RemTypeOK, CallRow, NoCall
<1>2. topic = "token" /\ q.at \in {"none", "send", "sent"}
  BY <1>1 DEF SendPush, RemoveToken, ReadToken, CallRow, NoCall, SaveCall, GameCall
<1>3. CallRow = {NoCall} \cup PushCall
  BY <1>2 DEF CallRow
<1>4. q.at # "none" => q \in PushCall /\ q.token \in 0..MaxCalls /\ q.bulk \in BOOLEAN
  BY <1>1, <1>3 DEF NoCall, PushCall
<1>5. UNCHANGED <<topic, hour, sessions, job, noticed, repeated, outrun, overlapped, faults,
                  slots, reminded, called, device>>
  BY DEF SendPush, RemoveToken, ReadToken
<1>6. called' \in 0..MaxCalls /\ called' >= called
  BY <1>1, <1>5
<1>7. /\ token <= device /\ device <= called /\ (lost => crossed)
      /\ \A b \in Callers : /\ calls[b].at = "send" => calls[b].token <= device
                            /\ calls[b].at = "sent" => calls[b].token < device
  BY <1>2 DEF RemInv, PushOK, LiveTokenKept
<1>8. CASE SendPush(c) \/ \E bulk \in BOOLEAN : ReadToken(c, bulk)
  <2>1. PICK x \in CallRow :
            /\ calls' = [calls EXCEPT ![c] = x] /\ UNCHANGED <<token, lost, crossed>>
            /\ x.at \in {"none", "send", "sent"}
            /\ x.at = "send" => x.token <= device
            /\ x.at = "sent" => x.token < device
    <3>1. CASE SendPush(c)
      <4> DEFINE x == IF q.token = device THEN NoCall ELSE [q EXCEPT !.at = "sent"]
      <4>1. /\ calls' = [calls EXCEPT ![c] = x] /\ UNCHANGED <<token, lost, crossed>>
            /\ q.at = "send"
        BY <3>1 DEF SendPush
      <4>2. q.token <= device
        BY <1>7, <4>1
      <4>3. /\ x \in CallRow /\ x.at \in {"none", "sent"}
            /\ x.at = "sent" => x.token < device
        BY <1>1, <1>3, <1>4, <4>1, <4>2 DEF PushCall
      <4> QED BY <4>1, <4>3
    <3>2. CASE \E bulk \in BOOLEAN : ReadToken(c, bulk)
      <4>1. PICK bulk \in BOOLEAN : ReadToken(c, bulk)
        BY <3>2
      <4> DEFINE x == [at |-> "send", bulk |-> bulk, token |-> token]
      <4>2. x \in CallRow /\ x.at = "send" /\ x.token = token
        BY <1>1, <1>3 DEF PushCall
      <4>3. /\ calls' = [calls EXCEPT ![c] = x] /\ UNCHANGED <<token, lost, crossed>>
        BY <4>1 DEF ReadToken
      <4> QED BY <1>7, <4>2, <4>3
    <3> QED BY <1>8, <3>1, <3>2
  <2>2. /\ SessionsOK'
        /\ sessions' \in [Ids -> SessionRow \cup {NoSession}]
        /\ calls' \in [Callers -> CallRow'] /\ job' \in [Notices -> JobRow]
        /\ calls'[c] = x /\ \A b \in Callers \ {c} : calls'[b] = calls[b]
        /\ \A b \in Callers :
               calls'[b].at \in {"none", "save", "claim", "send", "sent", "start"}
    <3>1. x.at # "save" /\ q.at # "save"
      BY <1>2, <2>1
    <3> QED BY <1>5, <1>6, <2>1, <3>1, OtherCallStep
  <2>3. RemTypes'
    BY <1>1, <1>5, <2>1, <2>2 DEF RemTypes, RemTypeOK
  <2>4. PushOK'
    BY <1>5, <1>7, <2>1, <2>2 DEF PushOK, LiveTokenKept
  <2>5. GamesOK'
    BY <1>2, <1>5 DEF RemInv, GamesOK, RemindedOnce
  <2> QED BY <2>2, <2>3, <2>4, <2>5 DEF RemInv
<1>9. CASE RemoveToken(c)
  <2>1. /\ calls' = [calls EXCEPT ![c] = NoCall] /\ q.at = "sent"
        /\ token' = IF IsRemoved(q) THEN 0 ELSE token
        /\ lost' = (lost \/ (token' = 0 /\ token # 0 /\ token = device))
        /\ crossed' = (crossed \/ (~q.bulk /\ token # q.token))
    BY <1>9 DEF RemoveToken
  <2>2. /\ SessionsOK'
        /\ sessions' \in [Ids -> SessionRow \cup {NoSession}]
        /\ calls' \in [Callers -> CallRow'] /\ job' \in [Notices -> JobRow]
        /\ calls'[c] = NoCall /\ \A b \in Callers \ {c} : calls'[b] = calls[b]
        /\ \A b \in Callers :
               calls'[b].at \in {"none", "save", "claim", "send", "sent", "start"}
    <3>1. NoCall.at # "save" /\ q.at # "save"
      BY <1>1, <2>1
    <3> QED BY <1>1, <1>5, <1>6, <2>1, <3>1, OtherCallStep
  <2>3. /\ token' \in 0..MaxCalls /\ token' \in Nat /\ token' <= device
        /\ lost' \in BOOLEAN /\ crossed' \in BOOLEAN
    BY <1>1, <1>4, <1>7, <2>1
  <2>4. RemTypes'
    BY <1>1, <1>5, <2>2, <2>3 DEF RemTypes, RemTypeOK
  <2>5. lost' => crossed'
    <3>1. ASSUME token' = 0, token # 0, token = device PROVE ~q.bulk /\ token # q.token
      <4>1. q.token < device
        BY <1>7, <2>1
      <4>2. token # q.token
        BY <1>1, <1>4, <2>1, <3>1, <4>1
      <4> QED BY <1>4, <2>1, <3>1, <4>2 DEF IsRemoved
    <3> QED BY <1>7, <2>1, <3>1
  <2>6. PushOK'
    BY <1>1, <1>5, <1>7, <2>2, <2>3, <2>5 DEF PushOK, LiveTokenKept
  <2>7. GamesOK'
    BY <1>2, <1>5 DEF RemInv, GamesOK, RemindedOnce
  <2> QED BY <2>2, <2>4, <2>6, <2>7 DEF RemInv
<1> QED BY <1>8, <1>9

LEMMA DevicesKeep ==
  ASSUME RemInv, Reinstall \/ StoreToken
  PROVE  RemInv'
<1>1. /\ RemTypes /\ RemTypeOK /\ topic = "token" /\ calls \in [Callers -> CallRow]
      /\ called \in 0..MaxCalls /\ called \in Nat /\ MaxCalls \in Nat
      /\ device \in Nat /\ device \in 0..MaxCalls /\ token \in 0..MaxCalls /\ token \in Nat
  BY RemTypesFacts DEF RemInv, RemTypes, RemTypeOK, Reinstall, StoreToken
<1>2. UNCHANGED <<topic, hour, sessions, calls, job, noticed, repeated, outrun, overlapped,
                  faults, slots, reminded, lost, crossed>>
  BY DEF Reinstall, StoreToken
<1>3. /\ token <= device /\ device <= called
      /\ \A b \in Callers : /\ calls[b].at = "send" => calls[b].token <= device
                            /\ calls[b].at = "sent" => calls[b].token < device
  BY <1>1 DEF RemInv, PushOK
<1>4. /\ called' \in 0..MaxCalls /\ device' \in 0..MaxCalls /\ token' \in 0..MaxCalls
      /\ token' <= device' /\ device' <= called' /\ device <= device'
      /\ called' \in Nat /\ device' \in Nat
  BY <1>1, <1>3 DEF Reinstall, StoreToken
<1>5. RemTypes'
  BY <1>1, <1>2, <1>4 DEF RemTypes, RemTypeOK, CallRow
<1>6. SessionsOK'
  BY <1>1, <1>2 DEF RemInv, SessionsOK, RepeatsAreCounted, JobsAreDue, NewIsUnnoticed,
                    ExpiredIsTold, ExpiredIsOver, NumbersAreLeft, OneIsActive
<1>7. ASSUME NEW b \in Callers
      PROVE  /\ calls[b].at = "send" => calls[b].token <= device'
             /\ calls[b].at = "sent" => calls[b].token < device'
  <2>1. calls[b].at \in {"send", "sent"} => calls[b].token \in Nat
    BY <1>1 DEF CallRow, PushCall, NoCall
  <2> QED BY <1>1, <1>3, <1>4, <2>1
<1>8. PushOK'
  BY <1>2, <1>4, <1>7 DEF RemInv, PushOK, LiveTokenKept
<1>9. GamesOK'
  BY <1>1, <1>2 DEF RemInv, GamesOK, RemindedOnce
<1> QED BY <1>5, <1>6, <1>8, <1>9 DEF RemInv

----------------------------------------------------------------------------
(* Sessions and their notices *)

\* What a step of the sessions leaves alone.
OthersStay == UNCHANGED <<topic, slots, token, device, reminded, lost, crossed>>

LEMMA OthersKeep ==
  ASSUME RemInv, OthersStay, called' >= called, called' \in Nat,
         calls' = calls \/ topic \in {"warning", "video"} \/ \A c \in Callers : calls'[c] = NoCall
  PROVE  GamesOK' /\ PushOK'
<1>1. RemTypes
  BY DEF RemInv
<1>2. called \in Nat /\ device \in Nat /\ device <= called
  BY <1>1, RemTypesFacts DEF RemInv, PushOK
<1>3. device' <= called'
  BY <1>2 DEF OthersStay
<1> QED BY <1>3 DEF RemInv, OthersStay, GamesOK, PushOK, RemindedOnce, LiveTokenKept, NoCall

LEMMA RepeatableFinite ==
  ASSUME NEW n, NEW ss, NEW nn, NEW at
  PROVE  /\ IsFiniteSet(Repeatable(n, ss, nn, at))
         /\ Cardinality(Repeatable(n, ss, nn, at)) \in Nat
<1>1. Repeatable(n, ss, nn, at) \subseteq Ids
  BY DEF Repeatable
<1> QED BY <1>1, IdsFinite, FS_Subset, FS_CardinalityType

\* No kind of notice may be repeated more often than before, but for one more failure.
LEMMA RepeatsKeep ==
  ASSUME RemInv, NEW k \in {0, 1}, faults' = faults + k, repeated' = repeated,
         \A n \in Notices :
             \E x : Repeatable(n, sessions', noticed', job'[n].now)
                       \subseteq Repeatable(n, sessions, noticed, job[n].now)
                                     \cup (IF k = 0 THEN {} ELSE {x})
  PROVE  RepeatsAreCounted'
<1> SUFFICES ASSUME NEW n \in Notices
             PROVE  repeated'[n] + Cardinality(Repeatable(n, sessions', noticed', job'[n].now))
                        <= faults'
  BY DEF RepeatsAreCounted
<1>1. PICK x : Repeatable(n, sessions', noticed', job'[n].now)
                  \subseteq Repeatable(n, sessions, noticed, job[n].now)
                                \cup (IF k = 0 THEN {} ELSE {x})
  OBVIOUS
<1> DEFINE S == Repeatable(n, sessions, noticed, job[n].now)
           T == Repeatable(n, sessions', noticed', job'[n].now)
<1>2. IsFiniteSet(S) /\ IsFiniteSet(T) /\ Cardinality(S) \in Nat /\ Cardinality(T) \in Nat
  BY RepeatableFinite
<1>3. repeated[n] + Cardinality(S) <= faults
  BY DEF RemInv, SessionsOK, RepeatsAreCounted
<1>4. repeated[n] \in Nat /\ faults \in Nat
  BY RemTypesFacts DEF RemInv
<1> HIDE DEF S, T
<1>5. CASE k = 0
  <2>1. T \subseteq S
    BY <1>1, <1>5 DEF S, T
  <2>2. Cardinality(T) <= Cardinality(S)
    BY <1>2, <2>1, FS_Subset
  <2> QED BY <1>2, <1>3, <1>4, <1>5, <2>2 DEF T
<1>6. CASE k = 1
  <2> DEFINE U == S \cup {x}
  <2>1. T \subseteq U
    BY <1>1, <1>6 DEF S, T
  <2>2. IsFiniteSet(U) /\ Cardinality(U) \in Nat /\ Cardinality(U) <= Cardinality(S) + 1
    <3>1. CASE x \in S
      <4>1. U = S
        BY <3>1
      <4> HIDE DEF U
      <4> QED BY <1>2, <4>1
    <3>2. CASE x \notin S
      <4>1. IsFiniteSet(U) /\ Cardinality(U) = Cardinality(S) + 1
        BY <1>2, <3>2, FS_AddElement
      <4> HIDE DEF U
      <4> QED BY <1>2, <4>1
    <3> QED BY <3>1, <3>2
  <2> HIDE DEF U
  <2>3. Cardinality(T) <= Cardinality(U)
    BY <2>1, <2>2, FS_Subset
  <2> QED BY <1>2, <1>3, <1>4, <1>6, <2>2, <2>3 DEF T
<1> QED BY <1>5, <1>6

\* The types of what a step of the sessions changes.
LEMMA SessionTypes ==
  ASSUME RemTypes, OthersStay, hour' \in 0..Ends,
         sessions' \in [Ids -> SessionRow \cup {NoSession}],
         calls' \in [Callers -> CallRow], job' \in [Notices -> JobRow],
         \A n \in Notices : job'[n].now # 0 => job'[n].now \in {r.id : r \in job'[n].found},
         noticed' \in [Ids -> [Notices -> (0 - 3)..Ends]], repeated' \in [Notices -> Nat],
         outrun' \subseteq Ids, overlapped' \in BOOLEAN,
         called' \in 0..MaxCalls, faults' \in 0..MaxFaults
  PROVE  RemTypes'
<1>1. CallRow' = CallRow
  BY DEF CallRow, OthersStay
<1>2. \A c \in Callers : calls'[c].at \in {"none", "save", "claim", "send", "sent", "start"}
  BY DEF CallRow, NoCall, SaveCall, GameCall, PushCall
<1>3. \A i \in Ids : sessions'[i].status \in {"none", "active", "expired", "stopped"}
  BY DEF SessionRow, NoSession
<1>4. /\ topic' \in Topics /\ slots' \subseteq 0..Ends /\ token' \in 0..MaxCalls
      /\ device' \in 0..MaxCalls /\ reminded' \in [0..Ends -> Nat]
      /\ lost' \in BOOLEAN /\ crossed' \in BOOLEAN
  BY DEF RemTypes, RemTypeOK, OthersStay
<1>5. RemTypeOK'
  BY <1>2, <1>3, <1>4 DEF RemTypeOK
<1> QED BY <1>1, <1>5 DEF RemTypes

\* The facts about sessions that the steps below start from.
LEMMA SessionFacts ==
  ASSUME RemInv
  PROVE  /\ RemTypes /\ sessions \in [Ids -> SessionRow \cup {NoSession}]
         /\ calls \in [Callers -> CallRow] /\ job \in [Notices -> JobRow]
         /\ \A n \in Notices : job[n].now # 0 => job[n].now \in {r.id : r \in job[n].found}
         /\ noticed \in [Ids -> [Notices -> (0 - 3)..Ends]] /\ repeated \in [Notices -> Nat]
         /\ outrun \subseteq Ids /\ overlapped \in BOOLEAN
         /\ called \in 0..MaxCalls /\ called \in Nat /\ faults \in 0..MaxFaults
         /\ hour \in 0..Ends /\ hour \in Nat
         /\ \A i \in Ids : sessions[i].status # "none" => sessions[i] \in SessionRow
<1>1. RemTypes /\ RemTypeOK
  BY DEF RemInv, RemTypes
<1>2. sessions \in [Ids -> SessionRow \cup {NoSession}]
  BY <1>1 DEF RemTypes
<1>3. \A i \in Ids : sessions[i].status # "none" => sessions[i] \in SessionRow
  BY <1>2 DEF NoSession
<1> QED BY <1>1, <1>2, <1>3, RemTypesFacts DEF RemTypes, RemTypeOK

LEMMA JobRowFacts ==
  ASSUME RemInv, NEW n \in Notices
  PROVE  /\ \A r \in job[n].found : r.id \in Ids /\ r.end \in Nat
         /\ job[n].now # 0 => job[n].now \in Ids
<1>1. job[n] \in JobRow /\ (job[n].now # 0 => job[n].now \in {r.id : r \in job[n].found})
  BY SessionFacts
<1>2. \A r \in job[n].found : r.id \in Ids /\ r.end \in Nat
  BY <1>1 DEF JobRow
<1> QED BY <1>1, <1>2

LEMMA SavesAreTyped ==
  ASSUME RemInv, NEW c \in Callers, calls[c].at = "save"
  PROVE  topic \in {"warning", "video"} /\ calls[c] \in SaveCall /\ CallRow = {NoCall} \cup SaveCall
<1>1. calls[c] \in CallRow /\ topic \in {"warning", "video", "games", "token"}
  BY SessionFacts, RemTypesFacts
<1>2. calls[c] # NoCall
  BY DEF NoCall
<1>3. topic \in {"warning", "video"}
  BY <1>1, <1>2 DEF CallRow, GameCall, PushCall
<1> QED BY <1>1, <1>2, <1>3 DEF CallRow

\* A request goes on to save.
LEMMA FindSessionKeeps ==
  ASSUME RemInv, NEW c \in Callers, NEW kind \in {"start", "stop"}, FindSession(c, kind)
  PROVE  RemInv'
<1>1. /\ RemTypes /\ calls \in [Callers -> CallRow] /\ called \in 0..MaxCalls /\ called \in Nat
      /\ MaxCalls \in Nat /\ Ids = 1..MaxCalls
  BY SessionFacts, RemTypesFacts
<1>2. /\ topic \in {"warning", "video"} /\ calls[c].at = "none"
      /\ called' = called + 1 /\ called' \in 0..MaxCalls /\ called' \in Nat
      /\ OthersStay
      /\ UNCHANGED <<hour, sessions, job, noticed, repeated, outrun, overlapped, faults>>
  BY <1>1 DEF FindSession, OthersStay
<1>3. PICK id \in 0..MaxCalls :
          /\ calls' = [calls EXCEPT ![c] = [at |-> "save", kind |-> kind, id |-> id]]
          /\ id # 0 => sessions[id].status # "none"
          /\ id = 0 => ActiveIds = {}
  <2>1. ActiveIds \subseteq 1..MaxCalls /\ \A i \in ActiveIds : sessions[i].status # "none"
    BY <1>1 DEF ActiveIds
  <2>2. ActiveIds \subseteq 0..MaxCalls /\ 0 \in 0..MaxCalls
    BY <1>1, <2>1
  <2>3. CASE \E i \in ActiveIds :
                 calls' = [calls EXCEPT ![c] = [at |-> "save", kind |-> kind, id |-> i]]
    <3>1. PICK i \in ActiveIds :
                 calls' = [calls EXCEPT ![c] = [at |-> "save", kind |-> kind, id |-> i]]
      BY <2>3
    <3>2. i \in 1..MaxCalls /\ i # 0 /\ sessions[i].status # "none"
      BY <1>1, <2>1
    <3> QED BY <2>2, <3>1, <3>2
  <2>4. CASE ActiveIds = {} /\ kind = "start" /\
                 calls' = [calls EXCEPT ![c] = [at |-> "save", kind |-> kind, id |-> 0]]
    BY <2>2, <2>4
  <2> QED BY <2>3, <2>4 DEF FindSession
<1> DEFINE x == [at |-> "save", kind |-> kind, id |-> id]
<1>4. x \in CallRow /\ x.at = "save" /\ x.id = id /\ x.kind = kind
  BY <1>2 DEF CallRow, SaveCall
<1> HIDE DEF x
<1>5. /\ calls' \in [Callers -> CallRow] /\ calls'[c] = x
      /\ \A b \in Callers \ {c} : calls'[b] = calls[b]
  BY <1>1, <1>3, <1>4 DEF x
<1>6. RemTypes'
  BY <1>1, <1>2, <1>5, SessionFacts, SessionTypes
<1>7. GamesOK' /\ PushOK'
  BY <1>1, <1>2, OthersKeep
<1>8. (RepeatsAreCounted /\ JobsAreDue /\ NewIsUnnoticed /\ ExpiredIsTold /\ ExpiredIsOver)'
  BY <1>2 DEF RemInv, SessionsOK, RepeatsAreCounted, JobsAreDue, NewIsUnnoticed,
              ExpiredIsTold, ExpiredIsOver
<1>9. NumbersAreLeft'
  <2> DEFINE S == SavingOf(calls)
             T == SavingOf(calls')
             U == UsedIds(sessions)
  <2>1. IsFiniteSet(S) /\ Cardinality(U) + Cardinality(S) <= called
    BY <1>2 DEF RemInv, SessionsOK, NumbersAreLeft
  <2>2. IsFiniteSet(U) /\ Cardinality(U) \in Nat
    BY IdsFinite, FS_Subset, FS_CardinalityType DEF UsedIds
  <2>3. T = S \cup {c} /\ c \notin S
    BY <1>2, <1>4, <1>5 DEF SavingOf
  <2> HIDE DEF S, T, U
  <2>4. Cardinality(S) \in Nat /\ IsFiniteSet(T) /\ Cardinality(T) = Cardinality(S) + 1
    BY <2>1, <2>3, FS_AddElement, FS_CardinalityType
  <2>5. Cardinality(U) + Cardinality(T) <= called'
    BY <1>1, <1>2, <2>1, <2>2, <2>4
  <2>6. UsedIds(sessions') = U
    BY <1>2 DEF U
  <2> QED BY <2>4, <2>5, <2>6 DEF NumbersAreLeft, T
<1>10. OneIsActive'
  BY <1>2, <1>3, <1>4, <1>5 DEF RemInv, SessionsOK, OneIsActive, ActiveIds
<1>11. \A b \in Callers : calls'[b].at = "save" /\ calls'[b].id # 0 =>
           sessions'[calls'[b].id].status # "none"
  BY <1>2, <1>3, <1>4, <1>5 DEF RemInv, SessionsOK
<1> QED BY <1>6, <1>7, <1>8, <1>9, <1>10, <1>11 DEF RemInv, SessionsOK

\* A start that found no session has a number for one.
LEMMA NumberIsLeft ==
  ASSUME RemInv, NEW c \in Callers, calls[c].at = "save"
  PROVE  \E n \in Ids : /\ sessions[n].status = "none"
                        /\ \A k \in 1..(n - 1) : sessions[k].status # "none"
<1> DEFINE S == SavingOf(calls)
           U == UsedIds(sessions)
<1>1. /\ topic \in {"warning", "video"} /\ called \in 0..MaxCalls /\ MaxCalls \in Nat
      /\ Ids = 1..MaxCalls
  BY SavesAreTyped, SessionFacts, RemTypesFacts
<1>2. IsFiniteSet(S) /\ Cardinality(U) + Cardinality(S) <= called
  BY <1>1 DEF RemInv, SessionsOK, NumbersAreLeft
<1>3. IsFiniteSet(U) /\ Cardinality(U) \in Nat
  BY IdsFinite, FS_Subset, FS_CardinalityType DEF UsedIds
<1>4. Cardinality(S) \in Nat /\ Cardinality(S) # 0
  <2>1. c \in S
    BY DEF SavingOf
  <2>2. S # {}
    BY <2>1
  <2> QED BY <1>2, <2>2, FS_CardinalityType, FS_EmptySet
<1>5. U # Ids
  <2>1. Cardinality(U) < MaxCalls
    BY <1>1, <1>2, <1>3, <1>4
  <2> QED BY <2>1, IdsFinite
<1> DEFINE N == {n \in Ids : sessions[n].status = "none"}
<1>6. N # {} /\ N \in SUBSET Nat
  BY <1>1, <1>5 DEF UsedIds
<1>7. PICK n \in N : \A m \in N : n <= m
  BY <1>6, SmallestNat
<1>8. ASSUME NEW k \in 1..(n - 1) PROVE sessions[k].status # "none"
  <2>1. k \in Ids /\ ~(n <= k)
    BY <1>1, <1>7
  <2> QED BY <1>7, <2>1
<1> QED BY <1>7, <1>8

LEMMA SaveStartKeeps ==
  ASSUME RemInv, NEW c \in Callers, SaveStart(c)
  PROVE  RemInv'
<1> DEFINE q == calls[c]
           i == q.id
<1>1. /\ q.at = "save" /\ q.kind = "start" /\ calls' = [calls EXCEPT ![c] = NoCall]
      /\ overlapped' = (overlapped \/ \E d \in Callers \ {c} :
               calls[d].at = "save" /\ calls[d].kind = "start")
      /\ outrun' = IF i # 0 /\ sessions[i].status # "active" THEN outrun \cup {i} ELSE outrun
      /\ OthersStay /\ UNCHANGED <<hour, job, noticed, repeated, called, faults>>
  BY DEF SaveStart, WhichSession, OthersStay
<1>2. /\ RemTypes /\ sessions \in [Ids -> SessionRow \cup {NoSession}]
      /\ calls \in [Callers -> CallRow] /\ job \in [Notices -> JobRow]
      /\ outrun \subseteq Ids /\ overlapped \in BOOLEAN /\ called \in 0..MaxCalls
      /\ called \in Nat /\ hour \in Nat /\ MaxCalls \in Nat /\ Ids = 1..MaxCalls
      /\ Notices = {"warning", "expired", "video"}
      /\ \A k \in Ids : sessions[k].status # "none" => sessions[k] \in SessionRow
  BY SessionFacts, RemTypesFacts
<1>3. /\ topic \in {"warning", "video"} /\ q \in SaveCall /\ CallRow = {NoCall} \cup SaveCall
  BY <1>1, SavesAreTyped
<1>4. i \in 0..MaxCalls /\ (i # 0 => i \in Ids /\ sessions[i].status # "none")
  BY <1>1, <1>2, <1>3 DEF SaveCall, RemInv, SessionsOK
<1>5. PICK j \in Ids, s \in SessionRow :
          /\ sessions' = [sessions EXCEPT ![j] = s]
          /\ i = 0 => /\ sessions[j].status = "none" /\ s.status = "active"
                      /\ ~s.warned /\ ~s.told /\ s.video = 0 - 3
          /\ i # 0 => /\ j = i /\ s.status = sessions[i].status /\ s.warned = sessions[i].warned
                      /\ s.told = sessions[i].told /\ s.video = sessions[i].video
                      /\ sessions[i].status # "none"
  <2>1. CASE i = 0
    <3> DEFINE j == CHOOSE n \in Ids : sessions[n].status = "none" /\
                        \A k \in 1..(n - 1) : sessions[k].status # "none"
    <3>1. j \in Ids /\ sessions[j].status = "none"
      BY <1>1, NumberIsLeft
    <3>2. sessions' = [sessions EXCEPT ![j] = NewSession]
      BY <2>1 DEF SaveStart, WhichSession
    <3>3. /\ NewSession \in SessionRow /\ NewSession.status = "active" /\ ~NewSession.warned
          /\ ~NewSession.told /\ NewSession.video = 0 - 3
      BY <1>2 DEF NewSession, SessionRow
    <3> QED BY <2>1, <3>1, <3>2, <3>3
  <2>2. CASE i # 0
    <3> DEFINE s == [sessions[i] EXCEPT !.end = hour + 2]
    <3>1. sessions' = [sessions EXCEPT ![i] = s]
      BY <1>2, <1>4, <2>2 DEF SaveStart, WhichSession
    <3>2. sessions[i] \in SessionRow
      BY <1>2, <1>4, <2>2
    <3>3. /\ s \in SessionRow /\ s.status = sessions[i].status
          /\ s.warned = sessions[i].warned /\ s.told = sessions[i].told
          /\ s.video = sessions[i].video
      <4>1. hour + 2 \in Nat
        BY <1>2
      <4> QED BY <3>2, <4>1 DEF SessionRow
    <3> QED BY <1>4, <2>2, <3>1, <3>3
  <2> QED BY <2>1, <2>2
<1> HIDE DEF i
<1>6. /\ sessions' \in [Ids -> SessionRow \cup {NoSession}] /\ sessions'[j] = s
      /\ \A k \in Ids \ {j} : sessions'[k] = sessions[k]
      /\ s.status # "none"
  BY <1>2, <1>5 DEF SessionRow
<1>7. /\ calls' \in [Callers -> CallRow] /\ calls'[c] = NoCall
      /\ \A b \in Callers \ {c} : calls'[b] = calls[b]
  BY <1>1, <1>2, <1>3
<1>8. outrun' \subseteq Ids /\ overlapped' \in BOOLEAN
  BY <1>1, <1>2, <1>4
<1>9. RemTypes'
  BY <1>1, <1>2, <1>6, <1>7, <1>8, SessionFacts, SessionTypes
<1>10. GamesOK' /\ PushOK'
  BY <1>1, <1>2, <1>3, OthersKeep
<1>11. /\ \A n \in Notices : noticed[j][n] \in Int
       /\ \A n \in Notices : i = 0 => noticed[j][n] = 0 - 3
  <2>1. noticed \in [Ids -> [Notices -> Int]]
    BY <1>2, RemTypesFacts
  <2>2. \A n \in Notices : i = 0 => noticed[j][n] = 0 - 3
    BY <1>5 DEF RemInv, SessionsOK, NewIsUnnoticed
  <2>3. \A n \in Notices : noticed[j][n] \in Int
    BY <2>1
  <2> QED BY <2>2, <2>3
<1>12. RepeatsAreCounted'
  <2>1. ASSUME NEW n \in Notices
        PROVE  Repeatable(n, sessions', noticed', job'[n].now)
                   \subseteq Repeatable(n, sessions, noticed, job[n].now) \cup {}
    <3> SUFFICES ASSUME NEW k \in Ids, k # job[n].now, sessions'[k].status # "none",
                        Unrecorded(sessions'[k], n, noticed[k][n])
                 PROVE  sessions[k].status # "none" /\ Unrecorded(sessions[k], n, noticed[k][n])
      BY <1>1 DEF Repeatable
    <3>1. CASE k # j
      BY <1>6, <3>1
    <3>2. CASE k = j /\ i # 0
      BY <1>2, <1>5, <1>6, <3>2 DEF Unrecorded
    <3>3. CASE k = j /\ i = 0
      BY <1>2, <1>5, <1>6, <1>11, <3>3 DEF Unrecorded
    <3> QED BY <3>1, <3>2, <3>3
  <2>2. /\ 0 \in {0, 1} /\ faults' = faults + 0 /\ repeated' = repeated
    BY <1>1, RemTypesFacts DEF RemInv
  <2> QED BY <2>1, <2>2, RepeatsKeep
<1>13. JobsAreDue'
  <2> SUFFICES ASSUME NEW n \in Notices, NEW r \in job[n].found
               PROVE  /\ sessions'[r.id].status # "none"
                      /\ StillDue(sessions'[r.id], n, hour)
    BY <1>1 DEF RemInv, SessionsOK, JobsAreDue
  <2>1. r.id \in Ids
    BY <1>2 DEF JobRow
  <2>2. sessions[r.id].status # "none" /\ StillDue(sessions[r.id], n, hour)
    BY DEF RemInv, SessionsOK, JobsAreDue
  <2>3. CASE r.id # j
    BY <1>6, <2>1, <2>2, <2>3
  <2>4. CASE r.id = j
    BY <1>2, <1>5, <1>6, <2>2, <2>4 DEF StillDue
  <2> QED BY <2>3, <2>4
<1>14. NewIsUnnoticed'
  BY <1>1, <1>6 DEF RemInv, SessionsOK, NewIsUnnoticed
<1>15. ExpiredIsTold' /\ ExpiredIsOver'
  <2> SUFFICES ASSUME NEW k \in Ids, sessions'[k].status = "expired"
               PROVE  /\ noticed[k]["expired"] >= 0
                      /\ k \notin outrun' => sessions'[k].end < hour
    BY <1>1 DEF ExpiredIsTold, ExpiredIsOver
  <2>1. CASE k # j
    BY <1>1, <1>6, <2>1 DEF RemInv, SessionsOK, ExpiredIsTold, ExpiredIsOver
  <2>2. CASE k = j
    <3>1. i # 0 /\ j = i /\ sessions[i].status = "expired"
      BY <1>5, <1>6, <2>2
    <3>2. k \in outrun'
      BY <1>1, <2>2, <3>1
    <3>3. noticed[k]["expired"] >= 0
      BY <2>2, <3>1 DEF RemInv, SessionsOK, ExpiredIsTold
    <3> QED BY <3>2, <3>3
  <2> QED BY <2>1, <2>2
<1>16. NumbersAreLeft'
  <2> DEFINE S == SavingOf(calls)
             T == SavingOf(calls')
             U == UsedIds(sessions)
             V == UsedIds(sessions')
  <2>1. IsFiniteSet(S) /\ Cardinality(U) + Cardinality(S) <= called
    BY <1>3 DEF RemInv, SessionsOK, NumbersAreLeft
  <2>2. IsFiniteSet(U) /\ Cardinality(U) \in Nat
    BY IdsFinite, FS_Subset, FS_CardinalityType DEF UsedIds
  <2>3. T = S \ {c} /\ c \in S
    BY <1>1, <1>7 DEF SavingOf, NoCall
  <2>4. V = U \cup {j}
    BY <1>6 DEF UsedIds
  <2> HIDE DEF S, T, U, V
  <2>5. IsFiniteSet(T) /\ Cardinality(T) = Cardinality(S) - 1 /\ Cardinality(S) \in Nat
    BY <2>1, <2>3, FS_RemoveElement, FS_CardinalityType
  <2>6. Cardinality(V) \in Nat /\ Cardinality(V) <= Cardinality(U) + 1
    <3>1. CASE j \in U
      <4>1. V = U
        BY <2>4, <3>1
      <4> QED BY <2>2, <4>1
    <3>2. CASE j \notin U
      <4>1. Cardinality(V) = Cardinality(U) + 1
        BY <2>2, <2>4, <3>2, FS_AddElement
      <4> QED BY <2>2, <4>1
    <3> QED BY <3>1, <3>2
  <2>7. Cardinality(V) + Cardinality(T) <= called
    BY <1>2, <2>1, <2>2, <2>5, <2>6
  <2> QED BY <1>1, <2>5, <2>7 DEF NumbersAreLeft, T, V
<1>17. OneIsActive'
  <2> SUFFICES ASSUME ~overlapped'
               PROVE  /\ \A k, l \in Ids : sessions'[k].status = "active"
                             /\ sessions'[l].status = "active" => k = l
                      /\ \A b \in Callers : calls'[b].at = "save" /\ calls'[b].kind = "start"
                                            /\ calls'[b].id = 0 =>
                             \A k \in Ids : sessions'[k].status # "active"
    BY DEF OneIsActive
  <2>1. ~overlapped /\ \A b \in Callers \ {c} : ~(calls[b].at = "save" /\ calls[b].kind = "start")
    BY <1>1
  <2>2. \A b \in Callers : ~(calls'[b].at = "save" /\ calls'[b].kind = "start")
    BY <1>7, <2>1 DEF NoCall
  <2>3. i = 0 => \A k \in Ids : sessions[k].status # "active"
    BY <1>1, <2>1 DEF RemInv, SessionsOK, OneIsActive, i
  <2>4. \A k, l \in Ids : sessions[k].status = "active" /\ sessions[l].status = "active"
                              => k = l
    BY <2>1 DEF RemInv, SessionsOK, OneIsActive
  <2>5. CASE i = 0
    BY <1>6, <2>2, <2>3, <2>5
  <2>6. CASE i # 0
    <3>1. \A k \in Ids : sessions'[k].status = sessions[k].status
      BY <1>5, <1>6, <2>6
    <3> QED BY <2>2, <2>4, <3>1
  <2> QED BY <2>5, <2>6
<1>18. ASSUME NEW b \in Callers, calls'[b].at = "save", calls'[b].id # 0
       PROVE  sessions'[calls'[b].id].status # "none"
  <2>1. b # c /\ calls'[b] = calls[b]
    BY <1>7, <1>18 DEF NoCall
  <2>2. sessions[calls[b].id].status # "none" /\ calls[b] \in SaveCall
    BY <1>18, <2>1, SavesAreTyped DEF RemInv, SessionsOK
  <2>3. calls[b].id \in Ids
    BY <1>2, <1>18, <2>1, <2>2 DEF SaveCall
  <2> QED BY <1>6, <2>1, <2>2, <2>3
<1> QED BY <1>9, <1>10, <1>12, <1>13, <1>14, <1>15, <1>16, <1>17, <1>18 DEF RemInv, SessionsOK

LEMMA SaveStopKeeps ==
  ASSUME RemInv, NEW c \in Callers, SaveStop(c)
  PROVE  RemInv'
<1> DEFINE q == calls[c]
           i == q.id
<1>1. /\ q.at = "save" /\ q.kind = "stop" /\ calls' = [calls EXCEPT ![c] = NoCall]
      /\ sessions' = [sessions EXCEPT ![i].status = "stopped"]
      /\ OthersStay
      /\ UNCHANGED <<hour, job, noticed, repeated, called, faults, outrun, overlapped>>
  BY DEF SaveStop, OthersStay
<1>2. /\ RemTypes /\ sessions \in [Ids -> SessionRow \cup {NoSession}]
      /\ calls \in [Callers -> CallRow] /\ job \in [Notices -> JobRow]
      /\ called \in Nat /\ MaxCalls \in Nat /\ Ids = 1..MaxCalls
      /\ \A k \in Ids : sessions[k].status # "none" => sessions[k] \in SessionRow
      /\ Notices = {"warning", "expired", "video"}
  BY SessionFacts, RemTypesFacts
<1>3. /\ topic \in {"warning", "video"} /\ q \in SaveCall /\ CallRow = {NoCall} \cup SaveCall
  BY <1>1, SavesAreTyped
<1>4. i \in 0..MaxCalls /\ (i # 0 => i \in Ids /\ sessions[i].status # "none")
  BY <1>1, <1>2, <1>3 DEF SaveCall, RemInv, SessionsOK
<1> HIDE DEF i
<1>5. /\ sessions' \in [Ids -> SessionRow \cup {NoSession}]
      /\ \A k \in Ids \ {i} : sessions'[k] = sessions[k]
      /\ i \in Ids =>
             /\ sessions'[i].status = "stopped" /\ sessions'[i].warned = sessions[i].warned
             /\ sessions'[i].told = sessions[i].told /\ sessions'[i].video = sessions[i].video
  <2>1. CASE i \in Ids
    <3> DEFINE s == [sessions[i] EXCEPT !.status = "stopped"]
    <3>1. sessions[i] \in SessionRow
      BY <1>2, <1>4, <2>1
    <3>2. /\ s \in SessionRow /\ s.status = "stopped" /\ s.warned = sessions[i].warned
          /\ s.told = sessions[i].told /\ s.video = sessions[i].video
      BY <3>1 DEF SessionRow
    <3>3. sessions' = [sessions EXCEPT ![i] = s]
      BY <1>1
    <3> HIDE DEF s
    <3> QED BY <1>2, <2>1, <3>2, <3>3
  <2>2. CASE i \notin Ids
    <3>1. sessions' = sessions
      BY <1>1, <1>2, <2>2
    <3> QED BY <1>2, <2>2, <3>1
  <2> QED BY <2>1, <2>2
<1>6. \A k \in Ids : sessions'[k].status # sessions[k].status => sessions'[k].status = "stopped"
  BY <1>5
<1>7. \A k \in Ids : sessions'[k].status = "none" <=> sessions[k].status = "none"
  BY <1>2, <1>4, <1>5
<1>8. \A k \in Ids : /\ sessions'[k].status # "stopped" => sessions'[k] = sessions[k]
                     /\ sessions'[k].warned = sessions[k].warned \/ sessions'[k] = sessions[k]
  BY <1>5
<1>9. /\ calls' \in [Callers -> CallRow] /\ calls'[c] = NoCall
      /\ \A b \in Callers \ {c} : calls'[b] = calls[b]
  BY <1>1, <1>2, <1>3
<1>10. RemTypes'
  BY <1>1, <1>2, <1>5, <1>9, SessionFacts, SessionTypes
<1>11. GamesOK' /\ PushOK'
  BY <1>1, <1>2, <1>3, OthersKeep
<1>12. ASSUME NEW k \in Ids, NEW n \in Notices, NEW x, NEW h
       PROVE  /\ Unrecorded(sessions'[k], n, x) = Unrecorded(sessions[k], n, x)
              /\ StillDue(sessions'[k], n, h) = StillDue(sessions[k], n, h)
  <2>1. CASE k = i
    BY <1>2, <1>5, <2>1 DEF Unrecorded, StillDue
  <2>2. CASE k # i
    BY <1>5, <2>2
  <2> QED BY <2>1, <2>2
<1>13. RepeatsAreCounted'
  <2>1. ASSUME NEW n \in Notices
        PROVE  Repeatable(n, sessions', noticed', job'[n].now)
                   \subseteq Repeatable(n, sessions, noticed, job[n].now) \cup {}
    BY <1>1, <1>7, <1>12 DEF Repeatable
  <2>2. /\ 0 \in {0, 1} /\ faults' = faults + 0 /\ repeated' = repeated
    BY <1>1, RemTypesFacts DEF RemInv
  <2> QED BY <2>1, <2>2, RepeatsKeep
<1>14. JobsAreDue'
  <2> SUFFICES ASSUME NEW n \in Notices, NEW r \in job[n].found
               PROVE  /\ sessions'[r.id].status # "none"
                      /\ StillDue(sessions'[r.id], n, hour)
    BY <1>1 DEF RemInv, SessionsOK, JobsAreDue
  <2>1. r.id \in Ids
    BY <1>2 DEF JobRow
  <2>2. sessions[r.id].status # "none" /\ StillDue(sessions[r.id], n, hour)
    BY DEF RemInv, SessionsOK, JobsAreDue
  <2> QED BY <1>7, <1>12, <2>1, <2>2
<1>15. NewIsUnnoticed'
  BY <1>1, <1>7 DEF RemInv, SessionsOK, NewIsUnnoticed
<1>16. ExpiredIsTold' /\ ExpiredIsOver'
  BY <1>1, <1>8 DEF RemInv, SessionsOK, ExpiredIsTold, ExpiredIsOver
<1>17. NumbersAreLeft'
  <2> DEFINE S == SavingOf(calls)
             T == SavingOf(calls')
             U == UsedIds(sessions)
  <2>1. IsFiniteSet(S) /\ Cardinality(U) + Cardinality(S) <= called
    BY <1>3 DEF RemInv, SessionsOK, NumbersAreLeft
  <2>2. IsFiniteSet(U) /\ Cardinality(U) \in Nat
    BY IdsFinite, FS_Subset, FS_CardinalityType DEF UsedIds
  <2>3. T = S \ {c} /\ c \in S
    BY <1>1, <1>9 DEF SavingOf, NoCall
  <2>4. UsedIds(sessions') = U
    BY <1>7 DEF UsedIds
  <2> HIDE DEF S, T, U
  <2>5. IsFiniteSet(T) /\ Cardinality(T) = Cardinality(S) - 1 /\ Cardinality(S) \in Nat
    BY <2>1, <2>3, FS_RemoveElement, FS_CardinalityType
  <2>6. Cardinality(U) + Cardinality(T) <= called
    BY <1>2, <2>1, <2>2, <2>5
  <2> QED BY <1>1, <2>4, <2>5, <2>6 DEF NumbersAreLeft, T
<1>18. OneIsActive'
  <2>1. \A k \in Ids : sessions'[k].status = "active" => sessions[k].status = "active"
    BY <1>8
  <2>2. \A b \in Callers : calls'[b].at = "save" => b # c /\ calls'[b] = calls[b]
    BY <1>9 DEF NoCall
  <2> QED BY <1>1, <2>1, <2>2 DEF RemInv, SessionsOK, OneIsActive
<1>19. ASSUME NEW b \in Callers, calls'[b].at = "save", calls'[b].id # 0
       PROVE  sessions'[calls'[b].id].status # "none"
  <2>1. b # c /\ calls'[b] = calls[b]
    BY <1>9, <1>19 DEF NoCall
  <2>2. sessions[calls[b].id].status # "none" /\ calls[b] \in SaveCall
    BY <1>19, <2>1, SavesAreTyped DEF RemInv, SessionsOK
  <2>3. calls[b].id \in Ids
    BY <1>2, <1>19, <2>1, <2>2 DEF SaveCall
  <2> QED BY <1>7, <2>1, <2>2, <2>3
<1> QED BY <1>10, <1>11, <1>13, <1>14, <1>15, <1>16, <1>17, <1>18, <1>19 DEF RemInv, SessionsOK

\* A step that changes neither sessions nor requests keeps what they say of each other.
LEMMA SessionRequestsKeep ==
  ASSUME RemInv, UNCHANGED <<topic, sessions, calls, called, overlapped>>
  PROVE  /\ NumbersAreLeft' /\ OneIsActive'
         /\ \A c \in Callers : calls'[c].at = "save" /\ calls'[c].id # 0 =>
                sessions'[calls'[c].id].status # "none"
BY DEF RemInv, SessionsOK, NumbersAreLeft, OneIsActive

LEMMA HourPassesKeeps ==
  ASSUME RemInv, HourPasses
  PROVE  RemInv'
<1>1. /\ RemTypes /\ sessions \in [Ids -> SessionRow \cup {NoSession}]
      /\ calls \in [Callers -> CallRow] /\ job \in [Notices -> JobRow]
      /\ hour \in Nat /\ Ends \in Nat /\ called \in Nat /\ Notices = {"warning", "expired", "video"}
      /\ \A k \in Ids : sessions[k].status # "none" => sessions[k] \in SessionRow
  BY SessionFacts, RemTypesFacts
<1>2. /\ OthersStay /\ hour' = hour + 1 /\ hour' \in 0..Ends /\ hour' \in Nat
      /\ UNCHANGED <<topic, sessions, calls, job, noticed, repeated, outrun, overlapped, called,
                     faults>>
  BY <1>1 DEF HourPasses, OthersStay
<1>3. RemTypes'
  BY <1>1, <1>2, SessionFacts, SessionTypes
<1>4. GamesOK' /\ PushOK'
  BY <1>1, <1>2, OthersKeep
<1>5. noticed \in [Ids -> [Notices -> Int]]
  BY <1>1, RemTypesFacts
<1>6. RepeatsAreCounted' /\ ExpiredIsTold'
  BY <1>2 DEF RemInv, SessionsOK, RepeatsAreCounted, ExpiredIsTold
<1>7. JobsAreDue'
  <2> SUFFICES ASSUME NEW n \in Notices, NEW r \in job[n].found
               PROVE  /\ StillDue(sessions[r.id], n, hour + 1)
                      /\ n = "expired" => r.end < hour + 1
    BY <1>2 DEF RemInv, SessionsOK, JobsAreDue
  <2>1. r.id \in Ids /\ r.end \in Nat
    BY <1>1 DEF JobRow
  <2>2. /\ sessions[r.id].status # "none" /\ StillDue(sessions[r.id], n, hour)
        /\ n = "expired" => r.end < hour
    BY DEF RemInv, SessionsOK, JobsAreDue
  <2>3. sessions[r.id].video \in Int
    BY <1>1, <2>1, <2>2 DEF SessionRow
  <2> QED BY <1>1, <2>1, <2>2, <2>3 DEF StillDue
<1>8. NewIsUnnoticed'
  <2>1. \A i \in Ids, n \in Notices : noticed[i][n] \in Int /\ noticed[i][n] <= hour
    BY <1>5 DEF RemInv, SessionsOK, NewIsUnnoticed
  <2>2. \A i \in Ids, n \in Notices : noticed[i][n] <= hour + 1
    BY <1>1, <2>1
  <2> QED BY <1>2, <2>2 DEF RemInv, SessionsOK, NewIsUnnoticed
<1>9. ExpiredIsOver'
  <2>1. \A i \in Ids : sessions[i].status = "expired" => sessions[i].end \in Nat
    BY <1>1 DEF SessionRow
  <2> QED BY <1>1, <1>2, <2>1 DEF RemInv, SessionsOK, ExpiredIsOver
<1> QED BY <1>2, <1>3, <1>4, <1>6, <1>7, <1>8, <1>9, SessionRequestsKeep DEF RemInv, SessionsOK

LEMMA RemRestartKeeps ==
  ASSUME RemInv, ReminderRestart
  PROVE  RemInv'
<1>1. /\ RemTypes /\ called \in Nat /\ MaxFaults \in Nat /\ faults \in Nat /\ MaxCalls \in Nat
  BY SessionFacts, RemTypesFacts
<1>2. /\ OthersStay /\ faults' = faults + 1 /\ faults' \in 0..MaxFaults
      /\ calls' = [c \in Callers |-> NoCall] /\ job' = [n \in Notices |-> NoJob]
      /\ UNCHANGED <<topic, hour, sessions, noticed, repeated, outrun, overlapped, called>>
  BY <1>1 DEF ReminderRestart, OthersStay
<1>3. /\ calls' \in [Callers -> CallRow] /\ job' \in [Notices -> JobRow]
      /\ \A c \in Callers : calls'[c].at = "none" /\ calls'[c] = NoCall
      /\ \A n \in Notices : job'[n].now = 0 /\ job'[n].found = {}
  BY <1>1, <1>2 DEF NoJob, JobRow, CallRow, NoCall
<1>4. RemTypes'
  BY <1>1, <1>2, <1>3, SessionFacts, SessionTypes
<1>5. GamesOK' /\ PushOK'
  BY <1>1, <1>2, <1>3, OthersKeep
<1>6. RepeatsAreCounted'
  <2>1. ASSUME NEW n \in Notices
        PROVE  Repeatable(n, sessions', noticed', job'[n].now)
                   \subseteq Repeatable(n, sessions, noticed, job[n].now) \cup {job[n].now}
    BY <1>2 DEF Repeatable
  <2>2. /\ 1 \in {0, 1} /\ faults' = faults + 1 /\ repeated' = repeated
    BY <1>2
  <2>3. \A n \in Notices :
            \E x : Repeatable(n, sessions', noticed', job'[n].now)
                      \subseteq Repeatable(n, sessions, noticed, job[n].now)
                                    \cup (IF 1 = 0 THEN {} ELSE {x})
    BY <2>1
  <2> QED BY <2>2, <2>3, RepeatsKeep
<1>7. JobsAreDue'
  BY <1>3 DEF JobsAreDue
<1>8. (NewIsUnnoticed /\ ExpiredIsTold /\ ExpiredIsOver)'
  BY <1>2 DEF RemInv, SessionsOK, NewIsUnnoticed, ExpiredIsTold, ExpiredIsOver
<1>9. NumbersAreLeft'
  <2>1. ASSUME topic \in {"warning", "video"}
        PROVE  Cardinality(UsedIds(sessions)) + 0 <= called
    <3> DEFINE S == SavingOf(calls)
               U == UsedIds(sessions)
    <3>1. IsFiniteSet(S) /\ Cardinality(U) + Cardinality(S) <= called
      BY <2>1 DEF RemInv, SessionsOK, NumbersAreLeft
    <3>2. IsFiniteSet(U) /\ Cardinality(U) \in Nat
      BY IdsFinite, FS_Subset, FS_CardinalityType DEF UsedIds
    <3> HIDE DEF S, U
    <3>3. Cardinality(S) \in Nat
      BY <3>1, FS_CardinalityType
    <3>4. Cardinality(U) + 0 <= called
      BY <1>1, <3>1, <3>2, <3>3
    <3> QED BY <3>4 DEF U
  <2>2. SavingOf(calls') = {}
    BY <1>3 DEF SavingOf
  <2> QED BY <1>2, <2>1, <2>2, FS_EmptySet DEF NumbersAreLeft
<1>10. OneIsActive' /\ \A c \in Callers : calls'[c].at = "save" /\ calls'[c].id # 0 =>
                           sessions'[calls'[c].id].status # "none"
  BY <1>2, <1>3 DEF RemInv, SessionsOK, OneIsActive
<1> QED BY <1>4, <1>5, <1>6, <1>7, <1>8, <1>9, <1>10 DEF RemInv, SessionsOK

\* A job finds rows, or leaves the one it is at with a notice that is not recorded.
LEMMA FindRowsKeeps ==
  ASSUME RemInv, NEW kind \in Notices, FindRows(kind)
  PROVE  RemInv'
<1> DEFINE rows == {[id |-> i, end |-> sessions[i].end] :
                       i \in {k \in ActiveIds : Needs(sessions[k], kind)}}
           x == [job[kind] EXCEPT !.found = rows]
<1>1. /\ RemTypes /\ job \in [Notices -> JobRow] /\ called \in Nat /\ hour \in Nat
      /\ Notices = {"warning", "expired", "video"}
      /\ \A k \in Ids : sessions[k].status # "none" => sessions[k] \in SessionRow
  BY SessionFacts, RemTypesFacts
<1>2. /\ OthersStay /\ job[kind] = NoJob /\ job' = [job EXCEPT ![kind] = x]
      /\ UNCHANGED <<topic, hour, sessions, calls, noticed, repeated, outrun, overlapped,
                     called, faults>>
  BY DEF FindRows, OthersStay
<1>3. \A r \in rows : /\ r.id \in Ids /\ r.end \in Nat /\ r \in [id: Ids, end: Nat]
                      /\ sessions[r.id].status = "active" /\ Needs(sessions[r.id], kind)
                      /\ r.end = sessions[r.id].end
  <2> SUFFICES ASSUME NEW i \in ActiveIds, Needs(sessions[i], kind)
               PROVE  i \in Ids /\ sessions[i].end \in Nat /\ sessions[i].status = "active"
    OBVIOUS
  <2> QED BY <1>1 DEF ActiveIds, SessionRow
<1> HIDE DEF rows
<1>4. x = [found |-> rows, now |-> 0]
  BY <1>2 DEF NoJob
<1> HIDE DEF x
<1>5. x \in JobRow /\ x.now = 0 /\ x.found = rows
  <2>1. 0 \in 0..MaxCalls
    BY RemindersAssumption
  <2> QED BY <1>3, <1>4, <2>1 DEF JobRow
<1>6. /\ job' \in [Notices -> JobRow] /\ job'[kind] = x /\ job[kind].now = 0
      /\ \A n \in Notices \ {kind} : job'[n] = job[n]
  BY <1>1, <1>2, <1>5 DEF NoJob
<1>7. RemTypes'
  BY <1>1, <1>2, <1>5, <1>6, SessionFacts, SessionTypes
<1>8. GamesOK' /\ PushOK'
  BY <1>1, <1>2, OthersKeep
<1>9. \A n \in Notices : job'[n].now = job[n].now
  BY <1>5, <1>6
<1>10. RepeatsAreCounted'
  BY <1>2, <1>9 DEF RemInv, SessionsOK, RepeatsAreCounted
<1>11. JobsAreDue'
  <2> SUFFICES ASSUME NEW n \in Notices
               PROVE  /\ \A r \in job'[n].found :
                             /\ sessions[r.id].status # "none" /\ StillDue(sessions[r.id], n, hour)
                             /\ n = "expired" => r.end < hour
                      /\ job'[n].now # 0 => noticed[job'[n].now][n] >= 0
    BY <1>2 DEF JobsAreDue
  <2>1. CASE n # kind
    BY <1>6, <2>1 DEF RemInv, SessionsOK, JobsAreDue
  <2>2. CASE n = kind
    <3>1. job'[n].now = 0 /\ job'[n].found = rows
      BY <1>5, <1>6, <2>2
    <3>2. ASSUME NEW r \in rows
          PROVE  /\ sessions[r.id].status # "none" /\ StillDue(sessions[r.id], n, hour)
                 /\ n = "expired" => r.end < hour
      BY <1>1, <1>3, <2>2 DEF Needs, StillDue, IsExpired, IsExpiring, NeedsVideo
    <3> QED BY <3>1, <3>2
  <2> QED BY <2>1, <2>2
<1>12. (NewIsUnnoticed /\ ExpiredIsTold /\ ExpiredIsOver)'
  BY <1>2 DEF RemInv, SessionsOK, NewIsUnnoticed, ExpiredIsTold, ExpiredIsOver
<1> QED BY <1>2, <1>7, <1>8, <1>10, <1>11, <1>12, SessionRequestsKeep DEF RemInv, SessionsOK

LEMMA SendNoticeKeeps ==
  ASSUME RemInv, NEW kind \in Notices, NEW i \in Ids, SendNotice(kind, i)
  PROVE  RemInv'
<1> DEFINE again == noticed[i][kind] >= (IF kind = "video" THEN hour - 2 ELSE 0)
           x == [job[kind] EXCEPT !.now = i]
           y == [noticed[i] EXCEPT ![kind] = hour]
<1>1. /\ RemTypes /\ job \in [Notices -> JobRow] /\ called \in Nat /\ hour \in Nat
      /\ hour \in 0..Ends /\ Ends \in Nat /\ Ids = 1..MaxCalls /\ MaxCalls \in Nat
      /\ Notices = {"warning", "expired", "video"} /\ faults \in Nat
      /\ repeated \in [Notices -> Nat]
      /\ noticed \in [Ids -> [Notices -> (0 - 3)..Ends]]
      /\ noticed \in [Ids -> [Notices -> Int]]
      /\ \A k \in Ids : sessions[k].status # "none" => sessions[k] \in SessionRow
  BY SessionFacts, RemTypesFacts
<1>2. /\ OthersStay /\ job[kind].now = 0 /\ i \in {r.id : r \in job[kind].found}
      /\ job' = [job EXCEPT ![kind] = x] /\ noticed' = [noticed EXCEPT ![i] = y]
      /\ repeated' = IF again THEN [repeated EXCEPT ![kind] = @ + 1] ELSE repeated
      /\ UNCHANGED <<topic, hour, sessions, calls, outrun, overlapped, called, faults>>
  BY DEF SendNotice, OthersStay
<1>3. x \in JobRow /\ x.now = i /\ x.found = job[kind].found
  <2>1. job[kind] \in JobRow /\ i \in 0..MaxCalls
    BY <1>1
  <2> QED BY <2>1 DEF JobRow
<1>4. /\ y \in [Notices -> (0 - 3)..Ends] /\ y[kind] = hour
      /\ \A n \in Notices \ {kind} : y[n] = noticed[i][n]
  <2>1. noticed[i] \in [Notices -> (0 - 3)..Ends] /\ hour \in (0 - 3)..Ends
    BY <1>1
  <2> QED BY <2>1
<1> HIDE DEF x, y
<1>5. /\ job' \in [Notices -> JobRow] /\ job'[kind] = x
      /\ \A n \in Notices \ {kind} : job'[n] = job[n]
      /\ \A n \in Notices : job'[n].found = job[n].found
  BY <1>1, <1>2, <1>3
<1>6. /\ noticed' \in [Ids -> [Notices -> (0 - 3)..Ends]] /\ noticed'[i][kind] = hour
      /\ \A k \in Ids, n \in Notices : k # i \/ n # kind => noticed'[k][n] = noticed[k][n]
  BY <1>1, <1>2, <1>4
<1>7. /\ repeated' \in [Notices -> Nat]
      /\ \A n \in Notices \ {kind} : repeated'[n] = repeated[n]
      /\ repeated'[kind] = repeated[kind] + (IF again THEN 1 ELSE 0)
  <2>1. repeated \in [Notices -> Nat]
    BY <1>1
  <2> HIDE DEF again
  <2>2. CASE again
    BY <1>2, <2>1, <2>2
  <2>3. CASE ~again
    BY <1>2, <2>1, <2>3
  <2> QED BY <2>2, <2>3
<1> HIDE DEF again
<1>8. /\ sessions[i].status # "none" /\ StillDue(sessions[i], kind, hour)
      /\ sessions[i] \in SessionRow
  BY <1>1, <1>2 DEF RemInv, SessionsOK, JobsAreDue
<1>9. RemTypes'
  BY <1>1, <1>2, <1>3, <1>5, <1>6, <1>7, SessionFacts, SessionTypes
<1>10. GamesOK' /\ PushOK'
  BY <1>1, <1>2, OthersKeep
<1>11. again => Unrecorded(sessions[i], kind, noticed[i][kind])
  <2>1. noticed[i][kind] \in Int /\ sessions[i].video \in Int
    <3>1. noticed \in [Ids -> [Notices -> Int]] /\ sessions[i] \in SessionRow
      BY <1>1, <1>8
    <3>2. noticed[i] \in [Notices -> Int]
      BY <3>1
    <3>3. noticed[i][kind] \in Int
      BY <3>2
    <3>4. sessions[i].video \in Int
      BY <3>1 DEF SessionRow
    <3> QED BY <3>3, <3>4
  <2>2. hour \in Nat /\ StillDue(sessions[i], kind, hour)
    BY <1>1, <1>8
  <2>3. CASE kind = "warning"
    BY <2>1, <2>2, <2>3 DEF again, Unrecorded, StillDue
  <2>4. CASE kind = "expired"
    BY <2>1, <2>2, <2>4 DEF again, Unrecorded, StillDue
  <2>5. CASE kind = "video"
    BY <2>1, <2>2, <2>5 DEF again, Unrecorded, StillDue
  <2> QED BY <1>1, <2>3, <2>4, <2>5
<1>12. RepeatsAreCounted'
  <2> SUFFICES ASSUME NEW n \in Notices
               PROVE  repeated'[n] + Cardinality(Repeatable(n, sessions', noticed', job'[n].now))
                          <= faults'
    BY DEF RepeatsAreCounted
  <2> DEFINE S == Repeatable(n, sessions, noticed, job[n].now)
             T == Repeatable(n, sessions', noticed', job'[n].now)
  <2>1. /\ IsFiniteSet(S) /\ IsFiniteSet(T) /\ Cardinality(S) \in Nat /\ Cardinality(T) \in Nat
    BY RepeatableFinite
  <2>2. repeated[n] + Cardinality(S) <= faults /\ repeated[n] \in Nat
    BY <1>1 DEF RemInv, SessionsOK, RepeatsAreCounted
  <2>3. CASE n # kind
    <3>1. T = S
      BY <1>2, <1>5, <1>6, <2>3 DEF Repeatable
    <3> HIDE DEF S, T
    <3> QED BY <1>2, <1>7, <2>2, <2>3, <3>1 DEF T
  <2>4. CASE n = kind
    <3>1. T = S \ {i}
      <4>1. \A k \in Ids \ {i} : noticed'[k][n] = noticed[k][n]
        BY <1>6
      <4>2. job'[n].now = i /\ job[n].now = 0 /\ 0 \notin Ids /\ sessions' = sessions
        BY <1>1, <1>2, <1>3, <1>5, <2>4
      <4> QED BY <4>1, <4>2 DEF Repeatable
    <3>2. again => i \in S
      <4>1. job[n].now = 0 /\ i # 0 /\ sessions[i].status # "none"
        BY <1>1, <1>2, <1>8, <2>4
      <4> QED BY <1>11, <2>4, <4>1 DEF Repeatable
    <3> HIDE DEF S, T
    <3>3. CASE again
      <4>1. Cardinality(T) = Cardinality(S) - 1
        BY <2>1, <3>1, <3>2, <3>3, FS_RemoveElement
      <4>2. repeated'[n] = repeated[n] + 1
        BY <1>7, <2>4, <3>3
      <4>3. faults' = faults /\ faults \in Nat
        BY <1>1, <1>2
      <4> QED BY <2>1, <2>2, <4>1, <4>2, <4>3 DEF T
    <3>4. CASE ~again
      <4>1. Cardinality(T) <= Cardinality(S)
        BY <2>1, <3>1, FS_Subset
      <4>2. repeated'[n] = repeated[n]
        <5>1. repeated'[n] = repeated[n] + (IF again THEN 1 ELSE 0)
          BY <1>7, <2>4
        <5> QED BY <2>2, <3>4, <5>1
      <4>3. faults' = faults /\ faults \in Nat
        BY <1>1, <1>2
      <4> QED BY <2>1, <2>2, <4>1, <4>2, <4>3 DEF T
    <3> QED BY <3>3, <3>4
  <2> QED BY <2>3, <2>4
<1>13. JobsAreDue'
  <2> SUFFICES ASSUME NEW n \in Notices, job'[n].now # 0
               PROVE  noticed'[job'[n].now][n] >= 0
    BY <1>2, <1>5 DEF RemInv, SessionsOK, JobsAreDue
  <2>1. CASE n = kind
    <3>1. job'[n].now = i /\ noticed'[i][n] = hour
      BY <1>3, <1>5, <1>6, <2>1
    <3>2. hour >= 0
      BY <1>1
    <3> QED BY <3>1, <3>2
  <2>2. CASE n # kind
    <3>1. noticed[job[n].now][n] >= 0 /\ job'[n].now = job[n].now
      BY <1>5, <2>2 DEF RemInv, SessionsOK, JobsAreDue
    <3>2. job[n].now \in Ids
      BY <3>1, JobRowFacts
    <3> QED BY <1>6, <2>2, <3>1, <3>2
  <2> QED BY <2>1, <2>2
<1>14. NewIsUnnoticed'
  <2> SUFFICES ASSUME NEW k \in Ids, NEW n \in Notices
               PROVE  /\ noticed'[k][n] <= hour
                      /\ sessions[k].status = "none" => noticed'[k][n] = 0 - 3
    BY <1>2 DEF NewIsUnnoticed
  <2>1. CASE k = i /\ n = kind
    <3>1. noticed'[k][n] = hour /\ sessions[k].status # "none"
      BY <1>6, <1>8, <2>1
    <3>2. hour <= hour
      BY <1>1
    <3> QED BY <3>1, <3>2
  <2>2. CASE k # i \/ n # kind
    BY <1>6, <2>2 DEF RemInv, SessionsOK, NewIsUnnoticed
  <2> QED BY <2>1, <2>2
<1>15. ExpiredIsTold'
  <2> SUFFICES ASSUME NEW k \in Ids, sessions[k].status = "expired"
               PROVE  noticed'[k]["expired"] >= 0
    BY <1>2 DEF ExpiredIsTold
  <2>1. CASE k = i /\ kind = "expired"
    BY <1>1, <1>6, <2>1
  <2>2. CASE k # i \/ kind # "expired"
    <3>1. "expired" \in Notices
      BY <1>1
    <3> QED BY <1>6, <2>2, <3>1 DEF RemInv, SessionsOK, ExpiredIsTold
  <2> QED BY <2>1, <2>2
<1>16. ExpiredIsOver'
  BY <1>2 DEF RemInv, SessionsOK, ExpiredIsOver
<1> QED BY <1>2, <1>9, <1>10, <1>12, <1>13, <1>14, <1>15, <1>16, SessionRequestsKeep
        DEF RemInv, SessionsOK

\* What a job has left when it is done with a row.
LEMMA DoneFacts ==
  ASSUME RemInv, NEW kind \in Notices, Done(kind)
  PROVE  /\ job' \in [Notices -> JobRow] /\ job'[kind].now = 0
         /\ job'[kind].found = {r \in job[kind].found : r.id # job[kind].now}
         /\ \A n \in Notices \ {kind} : job'[n] = job[n]
         /\ \A n \in Notices :
                job'[n].now # 0 => job'[n].now \in {r.id : r \in job'[n].found}
<1> DEFINE x == [found |-> {r \in job[kind].found : r.id # job[kind].now}, now |-> 0]
<1>1. /\ job \in [Notices -> JobRow]
      /\ \A n \in Notices : job[n].now # 0 => job[n].now \in {r.id : r \in job[n].found}
  BY SessionFacts
<1>2. job' = [job EXCEPT ![kind] = x]
  BY DEF Done
<1>3. /\ x \in JobRow /\ x.now = 0
      /\ x.found = {r \in job[kind].found : r.id # job[kind].now}
  <2>1. 0 \in 0..MaxCalls
    BY RemindersAssumption
  <2> QED BY <1>1, <2>1 DEF JobRow
<1> HIDE DEF x
<1>4. job' \in [Notices -> JobRow] /\ job'[kind] = x /\ \A n \in Notices \ {kind} : job'[n] = job[n]
  BY <1>1, <1>2, <1>3
<1> QED BY <1>1, <1>3, <1>4

LEMMA RecordFailsKeeps ==
  ASSUME RemInv, NEW kind \in Notices, RecordFails(kind)
  PROVE  RemInv'
<1>1. /\ RemTypes /\ called \in Nat /\ MaxFaults \in Nat /\ faults \in Nat
  BY SessionFacts, RemTypesFacts
<1>2. /\ OthersStay /\ faults' = faults + 1 /\ faults' \in 0..MaxFaults /\ Done(kind)
      /\ UNCHANGED <<topic, hour, sessions, calls, noticed, repeated, outrun, overlapped, called>>
  BY <1>1 DEF RecordFails, OthersStay
<1>3. /\ job' \in [Notices -> JobRow] /\ job'[kind].now = 0
      /\ job'[kind].found = {r \in job[kind].found : r.id # job[kind].now}
      /\ \A n \in Notices \ {kind} : job'[n] = job[n]
      /\ \A n \in Notices : job'[n].now # 0 => job'[n].now \in {r.id : r \in job'[n].found}
  BY <1>2, DoneFacts
<1>4. RemTypes'
  BY <1>1, <1>2, <1>3, SessionFacts, SessionTypes
<1>5. GamesOK' /\ PushOK'
  BY <1>1, <1>2, OthersKeep
<1>6. RepeatsAreCounted'
  <2>1. ASSUME NEW n \in Notices
        PROVE  Repeatable(n, sessions', noticed', job'[n].now)
                   \subseteq Repeatable(n, sessions, noticed, job[n].now) \cup {job[n].now}
    <3>1. CASE n = kind
      BY <1>2, <3>1 DEF Repeatable
    <3>2. CASE n # kind
      BY <1>2, <1>3, <3>2 DEF Repeatable
    <3> QED BY <3>1, <3>2
  <2>2. /\ 1 \in {0, 1} /\ faults' = faults + 1 /\ repeated' = repeated
    BY <1>2
  <2>3. \A n \in Notices :
            \E x : Repeatable(n, sessions', noticed', job'[n].now)
                      \subseteq Repeatable(n, sessions, noticed, job[n].now)
                                    \cup (IF 1 = 0 THEN {} ELSE {x})
    BY <2>1
  <2> QED BY <2>2, <2>3, RepeatsKeep
<1>7. JobsAreDue'
  <2> SUFFICES ASSUME NEW n \in Notices
               PROVE  /\ \A r \in job'[n].found :
                             /\ sessions[r.id].status # "none" /\ StillDue(sessions[r.id], n, hour)
                             /\ n = "expired" => r.end < hour
                      /\ job'[n].now # 0 => noticed[job'[n].now][n] >= 0
    BY <1>2 DEF JobsAreDue
  <2>1. \A r \in job[n].found :
            /\ sessions[r.id].status # "none" /\ StillDue(sessions[r.id], n, hour)
            /\ n = "expired" => r.end < hour
    BY DEF RemInv, SessionsOK, JobsAreDue
  <2>2. job[n].now # 0 => noticed[job[n].now][n] >= 0
    BY DEF RemInv, SessionsOK, JobsAreDue
  <2> QED BY <1>3, <2>1, <2>2
<1>8. (NewIsUnnoticed /\ ExpiredIsTold /\ ExpiredIsOver)'
  BY <1>2 DEF RemInv, SessionsOK, NewIsUnnoticed, ExpiredIsTold, ExpiredIsOver
<1> QED BY <1>2, <1>4, <1>5, <1>6, <1>7, <1>8, SessionRequestsKeep DEF RemInv, SessionsOK

LEMMA RecordNoticeKeeps ==
  ASSUME RemInv, NEW kind \in Notices, RecordNotice(kind)
  PROVE  RemInv'
<1> DEFINE i == job[kind].now
           s == Recorded(sessions[i], kind)
<1>1. /\ RemTypes /\ sessions \in [Ids -> SessionRow \cup {NoSession}]
      /\ calls \in [Callers -> CallRow]
      /\ job \in [Notices -> JobRow] /\ called \in Nat /\ hour \in Nat
      /\ Ends \in Nat /\ Ids = 1..MaxCalls /\ MaxCalls \in Nat
      /\ Notices = {"warning", "expired", "video"} /\ outrun \subseteq Ids
      /\ noticed \in [Ids -> [Notices -> Int]]
      /\ \A k \in Ids : sessions[k].status # "none" => sessions[k] \in SessionRow
      /\ \A n \in Notices : job[n].now # 0 => job[n].now \in {r.id : r \in job[n].found}
  BY SessionFacts, RemTypesFacts
<1>2. /\ OthersStay /\ i # 0 /\ sessions' = [sessions EXCEPT ![i] = s] /\ Done(kind)
      /\ outrun' = IF [id |-> i, end |-> sessions[i].end] \in job[kind].found
                   THEN outrun ELSE outrun \cup {i}
      /\ UNCHANGED <<topic, hour, calls, noticed, repeated, overlapped, called, faults>>
  BY DEF RecordNotice, OthersStay
<1>3. /\ job' \in [Notices -> JobRow] /\ job'[kind].now = 0
      /\ job'[kind].found = {r \in job[kind].found : r.id # i}
      /\ \A n \in Notices \ {kind} : job'[n] = job[n]
      /\ \A n \in Notices : job'[n].now # 0 => job'[n].now \in {r.id : r \in job'[n].found}
  BY <1>2, DoneFacts
<1>4. i \in Ids /\ sessions[i].status # "none" /\ sessions[i] \in SessionRow
      /\ noticed[i][kind] >= 0
  <2>1. PICK r \in job[kind].found : r.id = i
    BY <1>1, <1>2
  <2>2. r.id \in Ids
    BY JobRowFacts
  <2> QED BY <1>1, <1>2, <2>1, <2>2 DEF RemInv, SessionsOK, JobsAreDue
<1>5. /\ s \in SessionRow /\ s.end = sessions[i].end
      /\ s.status = IF kind = "expired" THEN "expired" ELSE sessions[i].status
      /\ s.warned = (IF kind = "warning" THEN TRUE ELSE sessions[i].warned)
      /\ s.told = (IF kind = "expired" THEN TRUE ELSE sessions[i].told)
      /\ s.video = IF kind = "video" THEN hour ELSE sessions[i].video
  <2>1. kind \in {"warning", "expired", "video"}
    BY <1>1
  <2>2. CASE kind = "warning"
    BY <1>1, <1>4, <2>2 DEF Recorded, SessionRow
  <2>3. CASE kind = "expired"
    BY <1>1, <1>4, <2>3 DEF Recorded, SessionRow
  <2>4. CASE kind = "video"
    <3>1. s = [sessions[i] EXCEPT !.video = hour] /\ hour \in Int
      BY <1>1, <2>4 DEF Recorded
    <3> HIDE DEF s
    <3> QED BY <1>4, <2>4, <3>1 DEF SessionRow
  <2> QED BY <2>1, <2>2, <2>3, <2>4
<1> HIDE DEF s, i
<1>6. /\ sessions' \in [Ids -> SessionRow \cup {NoSession}] /\ sessions'[i] = s
      /\ \A k \in Ids \ {i} : sessions'[k] = sessions[k]
  BY <1>1, <1>2, <1>4, <1>5
<1>7. s.status # "none"
  BY <1>5 DEF SessionRow
<1>8. outrun' \subseteq Ids
  BY <1>1, <1>2, <1>4
<1>9. RemTypes'
  BY <1>1, <1>2, <1>3, <1>6, <1>8, SessionFacts, SessionTypes
<1>10. GamesOK' /\ PushOK'
  BY <1>1, <1>2, OthersKeep
<1>11. ASSUME NEW n \in Notices, n # kind, NEW x, NEW h
       PROVE  /\ Unrecorded(s, n, x) = Unrecorded(sessions[i], n, x)
              /\ StillDue(s, n, h) = StillDue(sessions[i], n, h)
  BY <1>1, <1>5, <1>11 DEF Unrecorded, StillDue
<1>12. ~Unrecorded(s, kind, noticed[i][kind])
  <2>1. noticed[i][kind] \in Int /\ noticed[i][kind] <= hour
    BY <1>1, <1>4 DEF RemInv, SessionsOK, NewIsUnnoticed
  <2> QED BY <1>1, <1>5, <2>1 DEF Unrecorded
<1>13. RepeatsAreCounted'
  <2>1. ASSUME NEW n \in Notices
        PROVE  Repeatable(n, sessions', noticed', job'[n].now)
                   \subseteq Repeatable(n, sessions, noticed, job[n].now) \cup {}
    <3> SUFFICES ASSUME NEW k \in Ids, k # job'[n].now, sessions'[k].status # "none",
                        Unrecorded(sessions'[k], n, noticed[k][n])
                 PROVE  /\ k # job[n].now /\ sessions[k].status # "none"
                        /\ Unrecorded(sessions[k], n, noticed[k][n])
      BY <1>2 DEF Repeatable
    <3>1. CASE n = kind
      <4>1. k # i
        BY <1>6, <1>12, <3>1
      <4> QED BY <1>6, <3>1, <4>1 DEF i
    <3>2. CASE n # kind
      <4>1. k # job[n].now
        BY <1>3, <3>2
      <4>2. CASE k = i
        BY <1>4, <1>6, <1>11, <3>2, <4>1, <4>2
      <4>3. CASE k # i
        BY <1>6, <4>1, <4>3
      <4> QED BY <4>2, <4>3
    <3> QED BY <3>1, <3>2
  <2>2. /\ 0 \in {0, 1} /\ faults' = faults + 0 /\ repeated' = repeated
    BY <1>1, <1>2, RemTypesFacts
  <2> QED BY <2>1, <2>2, RepeatsKeep
<1>14. JobsAreDue'
  <2> SUFFICES ASSUME NEW n \in Notices
               PROVE  /\ \A r \in job'[n].found :
                             /\ sessions'[r.id].status # "none"
                             /\ StillDue(sessions'[r.id], n, hour)
                             /\ n = "expired" => r.end < hour
                      /\ job'[n].now # 0 => noticed[job'[n].now][n] >= 0
    BY <1>2 DEF JobsAreDue
  <2>1. \A r \in job[n].found :
            /\ sessions[r.id].status # "none" /\ StillDue(sessions[r.id], n, hour)
            /\ n = "expired" => r.end < hour
            /\ r.id \in Ids
    BY JobRowFacts DEF RemInv, SessionsOK, JobsAreDue
  <2>2. job[n].now # 0 => noticed[job[n].now][n] >= 0
    BY DEF RemInv, SessionsOK, JobsAreDue
  <2>3. CASE n = kind
    BY <1>3, <1>6, <2>1, <2>3
  <2>4. CASE n # kind
    <3>1. job'[n] = job[n]
      BY <1>3, <2>4
    <3>2. ASSUME NEW r \in job[n].found
          PROVE  sessions'[r.id].status # "none" /\ StillDue(sessions'[r.id], n, hour)
      <4>1. CASE r.id = i
        BY <1>6, <1>7, <1>11, <2>1, <2>4, <4>1
      <4>2. CASE r.id # i
        BY <1>6, <2>1, <4>2
      <4> QED BY <4>1, <4>2
    <3> QED BY <2>1, <2>2, <3>1, <3>2
  <2> QED BY <2>3, <2>4
<1>15. NewIsUnnoticed'
  BY <1>2, <1>6, <1>7 DEF RemInv, SessionsOK, NewIsUnnoticed
<1>16. ExpiredIsTold' /\ ExpiredIsOver'
  <2> SUFFICES ASSUME NEW k \in Ids, sessions'[k].status = "expired"
               PROVE  /\ noticed[k]["expired"] >= 0
                      /\ k \notin outrun' => sessions'[k].end < hour
    BY <1>2 DEF ExpiredIsTold, ExpiredIsOver
  <2>1. CASE sessions[k].status = "expired"
    <3>1. sessions'[k].end = sessions[k].end
      BY <1>5, <1>6
    <3>2. k \notin outrun' => k \notin outrun
      BY <1>2
    <3> QED BY <2>1, <3>1, <3>2 DEF RemInv, SessionsOK, ExpiredIsTold, ExpiredIsOver
  <2>2. CASE sessions[k].status # "expired"
    <3>1. k = i /\ kind = "expired"
      BY <1>5, <1>6, <2>2
    <3>2. ASSUME i \notin outrun' PROVE s.end < hour
      <4> DEFINE r == [id |-> i, end |-> sessions[i].end]
      <4>1. r \in job[kind].found
        BY <1>2, <3>2
      <4>2. r.end < hour
        BY <3>1, <4>1 DEF RemInv, SessionsOK, JobsAreDue
      <4> QED BY <1>5, <4>2
    <3> QED BY <1>4, <1>6, <3>1, <3>2
  <2> QED BY <2>1, <2>2
<1>17. \A k \in Ids : /\ sessions'[k].status = "none" <=> sessions[k].status = "none"
                      /\ sessions'[k].status = "active" => sessions[k].status = "active"
  BY <1>4, <1>5, <1>6, <1>7
<1>18. NumbersAreLeft'
  <2>1. UsedIds(sessions') = UsedIds(sessions)
    BY <1>17 DEF UsedIds
  <2> QED BY <1>2, <2>1 DEF RemInv, SessionsOK, NumbersAreLeft
<1>19. OneIsActive'
  BY <1>2, <1>17 DEF RemInv, SessionsOK, OneIsActive
<1>20. ASSUME NEW b \in Callers, calls'[b].at = "save", calls'[b].id # 0
       PROVE  sessions'[calls'[b].id].status # "none"
  <2>1. sessions[calls[b].id].status # "none" /\ calls[b] \in SaveCall
    BY <1>2, <1>20, SavesAreTyped DEF RemInv, SessionsOK
  <2>2. calls[b].id \in Ids
    BY <1>1, <1>2, <1>20, <2>1 DEF SaveCall
  <2> QED BY <1>2, <1>17, <2>1, <2>2
<1> QED BY <1>9, <1>10, <1>13, <1>14, <1>15, <1>16, <1>18, <1>19, <1>20 DEF RemInv, SessionsOK

LEMMA RemindersKeep ==
  ASSUME RemInv, [RemNext]_remVars
  PROVE  RemInv'
<1>1. CASE UNCHANGED remVars
  <2>1. RemTypes'
    BY <1>1 DEF remVars, RemInv, RemTypes, RemTypeOK, CallRow
  <2>2. UNCHANGED <<topic, slots, token, device, reminded, lost, crossed, called, calls>>
        /\ RemTypes
    BY <1>1 DEF remVars, RemInv
  <2>3. called \in Nat
    BY <2>2, RemTypesFacts
  <2>4. GamesOK' /\ PushOK'
    BY <2>2, <2>3, OthersKeep DEF OthersStay
  <2>5. (RepeatsAreCounted /\ JobsAreDue /\ NewIsUnnoticed /\ ExpiredIsTold /\ ExpiredIsOver)'
    BY <1>1 DEF remVars, RemInv, SessionsOK, RepeatsAreCounted, JobsAreDue, NewIsUnnoticed,
                ExpiredIsTold, ExpiredIsOver
  <2> QED BY <1>1, <2>1, <2>4, <2>5, SessionRequestsKeep DEF remVars, RemInv, SessionsOK
<1>2. ASSUME NEW c \in Callers,
             \/ \E kind \in {"start", "stop"} : FindSession(c, kind)
             \/ SaveStart(c) \/ SaveStop(c)
             \/ FindPlayer(c) \/ ClaimSlot(c) \/ SendReminder(c)
             \/ \E bulk \in BOOLEAN : ReadToken(c, bulk)
             \/ SendPush(c) \/ RemoveToken(c)
      PROVE  RemInv'
  BY <1>2, FindSessionKeeps, SaveStartKeeps, SaveStopKeeps, GamesKeep, PushesKeep
<1>3. ASSUME NEW kind \in Notices,
             \/ FindRows(kind) \/ RecordNotice(kind) \/ RecordFails(kind)
             \/ \E i \in Ids : SendNotice(kind, i)
      PROVE  RemInv'
  BY <1>3, FindRowsKeeps, RecordNoticeKeeps, RecordFailsKeeps, SendNoticeKeeps
<1> QED BY <1>1, <1>2, <1>3, HourPassesKeeps, RemRestartKeeps, DevicesKeep DEF RemNext

\* Users are told what is true: no notice is repeated but for a failure, no session
\* expires untold or early, one session is active, a day has one reminder, and the
\* token of the user's device stays, but for the overlaps that the properties name.
THEOREM RemindersStay == RemSpec => [](RemTypeOK /\ RemindersAreTrue)
<1>1. RemInv => RemTypeOK /\ RemindersAreTrue
  <2> SUFFICES ASSUME RemInv PROVE RemTypeOK /\ RemindersAreTrue
    OBVIOUS
  <2>1. RemTypeOK /\ ExpiredIsTold /\ ExpiredIsOver /\ RemindedOnce /\ LiveTokenKept
    BY DEF RemInv, RemTypes, SessionsOK, GamesOK, PushOK
  <2>2. RepeatsAreFaults
    <3> SUFFICES ASSUME NEW n \in Notices PROVE repeated[n] <= faults
      BY DEF RepeatsAreFaults
    <3> DEFINE S == Repeatable(n, sessions, noticed, job[n].now)
    <3>1. repeated[n] + Cardinality(S) <= faults /\ repeated[n] \in Nat /\ faults \in Nat
      BY RemTypesFacts DEF RemInv, SessionsOK, RepeatsAreCounted
    <3>2. Cardinality(S) \in Nat
      BY RepeatableFinite
    <3> HIDE DEF S
    <3> QED BY <3>1, <3>2
  <2>3. OneSession
    <3> SUFFICES ASSUME ~overlapped PROVE Cardinality(ActiveIds) <= 1
      BY DEF OneSession
    <3> DEFINE S == ActiveIds
    <3>1. \A i, j \in S : i = j
      BY DEF RemInv, SessionsOK, OneIsActive, ActiveIds
    <3> HIDE DEF S
    <3>2. CASE S = {}
      <4>1. Cardinality(S) = 0
        BY <3>2, FS_EmptySet
      <4> QED BY <4>1 DEF S
    <3>3. CASE S # {}
      <4>1. PICK i : S = {i}
        BY <3>1, <3>3
      <4>2. Cardinality(S) = 1
        BY <4>1, FS_Singleton
      <4> QED BY <4>2 DEF S
    <3> QED BY <3>2, <3>3
  <2> QED BY <2>1, <2>2, <2>3 DEF RemindersAreTrue
<1>2. RemInv /\ [RemNext]_remVars => RemInv'
  BY RemindersKeep
<1> QED BY <1>1, <1>2, RemindersStart, PTL DEF RemSpec
=============================================================================
