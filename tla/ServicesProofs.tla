--------------------------- MODULE ServicesProofs ---------------------------
(***************************************************************************)
(* Proofs about the smaller services, for every value of their constants.  *)
(***************************************************************************)
EXTENDS MCServices, RewardsProofs

\* What a refresh at work will put back is what was saved last.
PutsBackNewest ==
    \/ crossedSave
    \/ /\ stored.refresh = newest
       /\ \A r \in Reports : Refreshing(r) => report[r].refresh = newest

\* A refresh at work has a token to ask with, and one to save.
AsksWithToken ==
    \A r \in Reports :
        /\ report[r].at = "posts" => report[r].refresh # Nothing
        /\ report[r].at = "saves" => report[r].access # Nothing

TokInv == TokTypeOK /\ AccessOfRefresh /\ PutsBackNewest /\ AsksWithToken

StoredType == [refresh: Grants \cup {Nothing}, access: Grants \cup {Nothing}, fresh: BOOLEAN]

ReportType == [at: {"none", "posts", "saves", "done"},
               refresh: Grants \cup {Nothing}, access: Grants \cup {Nothing}]

----------------------------------------------------------------------------
LEMMA TokInitInv == TokInit => TokInv
<1> SUFFICES ASSUME TokInit PROVE TokInv
  OBVIOUS
<1>1. NoReport \in ReportType
  BY DEF NoReport, ReportType
<1>2. stored \in StoredType
  BY DEF TokInit, StoredType
<1>3. TokTypeOK
  <2>1. ~stored.fresh
    BY DEF TokInit
  <2>2. report \in [Reports -> ReportType]
    BY <1>1 DEF TokInit
  <2>3. turns \in 0..MaxTurns /\ newest \in Grants \cup {Nothing}
    BY TokensAssumption DEF TokInit
  <2>4. crossedSave \in BOOLEAN
    BY DEF TokInit
  <2>5. granted \subseteq Grants /\ revoked \subseteq granted
    BY DEF TokInit
  <2> QED BY <1>2, <2>1, <2>2, <2>3, <2>4, <2>5 DEF TokTypeOK, StoredType, ReportType
<1>4. AccessOfRefresh
  BY DEF TokInit, AccessOfRefresh, NoReport
<1>5. PutsBackNewest /\ AsksWithToken
  BY DEF TokInit, PutsBackNewest, AsksWithToken, Refreshing, NoReport
<1> QED BY <1>3, <1>4, <1>5 DEF TokInv

\* A save replaces the whole row; a refresh at work at that time is remembered.
LEMMA SaveKeeps ==
  ASSUME TokInv, NEW g \in Grants, NEW access \in {g, Nothing}, Save(g, access)
  PROVE  TokInv'
<1>1. TokTypeOK'
  BY TokensAssumption DEF TokInv, TokTypeOK, Save
<1>2. AccessOfRefresh'
  BY DEF TokInv, TokTypeOK, AccessOfRefresh, Save
<1>3. PutsBackNewest' /\ AsksWithToken'
  BY DEF PutsBackNewest, AsksWithToken, Refreshing, TokInv, Save
<1> QED BY <1>1, <1>2, <1>3 DEF TokInv

\* A report reads the row: what it will put back is what it read.
LEMMA LoadKeeps ==
  ASSUME TokInv, NEW r \in Reports, Load(r)
  PROVE  TokInv'
<1> DEFINE new == IF stored.refresh = Nothing THEN [NoReport EXCEPT !.at = "done"]
                  ELSE IF stored.fresh THEN
                      [at |-> "done", refresh |-> stored.refresh, access |-> stored.access]
                  ELSE [at |-> "posts", refresh |-> stored.refresh, access |-> Nothing]
<1>1. /\ report' = [report EXCEPT ![r] = new]
      /\ UNCHANGED <<stored, newest, crossedSave, granted, revoked, turns>>
  BY DEF Load
<1>2. /\ new \in ReportType
      /\ new.access \in {new.refresh, Nothing}
      /\ new.at \in {"posts", "saves"} =>
             new.at = "posts" /\ new.refresh = stored.refresh /\ new.refresh # Nothing
  BY DEF TokInv, TokTypeOK, AccessOfRefresh, NoReport, ReportType
<1> HIDE DEF new
<1>3. TokTypeOK'
  BY <1>1, <1>2 DEF TokInv, TokTypeOK, ReportType
<1>4. AccessOfRefresh'
  BY <1>1, <1>2 DEF TokInv, TokTypeOK, AccessOfRefresh
<1>5. PutsBackNewest' /\ AsksWithToken'
  BY <1>1, <1>2 DEF TokInv, TokTypeOK, PutsBackNewest, AsksWithToken, Refreshing
<1> QED BY <1>3, <1>4, <1>5 DEF TokInv

LEMMA GoogleAnswersKeeps ==
  ASSUME TokInv, NEW r \in Reports, GoogleAnswers(r)
  PROVE  TokInv'
<1>1. TokTypeOK'
  <2>1. report \in [Reports -> ReportType]
    BY DEF TokInv, TokTypeOK, ReportType
  <2>2. [report[r] EXCEPT !.at = "saves", !.access = report[r].refresh] \in ReportType
    BY <2>1 DEF ReportType
  <2>3. report' \in [Reports -> ReportType]
    BY <2>1, <2>2 DEF GoogleAnswers
  <2> QED BY <2>3 DEF TokInv, TokTypeOK, ReportType, GoogleAnswers
<1>2. AccessOfRefresh'
  BY DEF TokInv, TokTypeOK, AccessOfRefresh, GoogleAnswers
<1>3. PutsBackNewest' /\ AsksWithToken'
  BY DEF TokInv, TokTypeOK, PutsBackNewest, AsksWithToken, Refreshing, GoogleAnswers
<1> QED BY <1>1, <1>2, <1>3 DEF TokInv

LEMMA RefreshFailsKeeps ==
  ASSUME TokInv, NEW r \in Reports, RefreshFails(r)
  PROVE  TokInv'
<1>1. /\ report' = [report EXCEPT ![r] = [NoReport EXCEPT !.at = "done"]]
      /\ UNCHANGED <<stored, newest, crossedSave, granted, revoked>>
  BY DEF RefreshFails
<1>2. TokTypeOK'
  <2>1. turns' \in 0..MaxTurns
    BY TokensAssumption DEF TokInv, TokTypeOK, RefreshFails, Turn
  <2> QED BY <1>1, <2>1 DEF TokInv, TokTypeOK, NoReport
<1>3. AccessOfRefresh'
  BY <1>1 DEF TokInv, TokTypeOK, AccessOfRefresh, NoReport
<1>4. PutsBackNewest' /\ AsksWithToken'
  BY <1>1 DEF TokInv, TokTypeOK, PutsBackNewest, AsksWithToken, Refreshing, NoReport
<1> QED BY <1>2, <1>3, <1>4 DEF TokInv

\* The row is replaced by what the report read: the newest, or a save crossed it.
LEMMA SaveRefreshedKeeps ==
  ASSUME TokInv, NEW r \in Reports, SaveRefreshed(r)
  PROVE  TokInv'
<1>1. TokTypeOK'
  <2>1. report' = [report EXCEPT ![r].at = "done"]
    BY DEF SaveRefreshed
  <2>2. /\ report[r].refresh \in Grants \cup {Nothing}
        /\ report[r].access \in Grants \cup {Nothing}
        /\ report[r].access # Nothing
    BY DEF TokInv, TokTypeOK, AsksWithToken, SaveRefreshed
  <2>3. stored' \in StoredType /\ stored'.access # Nothing
    BY <2>2 DEF SaveRefreshed, StoredType
  <2> QED BY <2>1, <2>3 DEF TokInv, TokTypeOK, SaveRefreshed, StoredType
<1>2. AccessOfRefresh'
  BY DEF TokInv, TokTypeOK, AccessOfRefresh, SaveRefreshed
<1>3. PutsBackNewest' /\ AsksWithToken'
  BY DEF TokInv, TokTypeOK, PutsBackNewest, AsksWithToken, Refreshing, SaveRefreshed
<1> QED BY <1>1, <1>2, <1>3 DEF TokInv

LEMMA OutsideKeeps ==
  ASSUME TokInv, RunsOut \/ \E g \in Grants : Revoke(g)
  PROVE  TokInv'
<1>1. CASE RunsOut
  <2>1. turns' \in 0..MaxTurns
    BY <1>1, TokensAssumption DEF TokInv, TokTypeOK, RunsOut, Turn
  <2>2. stored' = [stored EXCEPT !.fresh = FALSE]
    BY <1>1 DEF RunsOut
  <2>3. TokTypeOK'
    BY <1>1, <2>1, <2>2 DEF TokInv, TokTypeOK, RunsOut
  <2>4. AccessOfRefresh' /\ PutsBackNewest' /\ AsksWithToken'
    BY <1>1, <2>2 DEF TokInv, TokTypeOK, AccessOfRefresh, PutsBackNewest, AsksWithToken,
                     Refreshing, RunsOut
  <2> QED BY <2>3, <2>4 DEF TokInv
<1>2. CASE \E g \in Grants : Revoke(g)
  <2>1. PICK g \in Grants : Revoke(g)
    BY <1>2
  <2>2. turns' \in 0..MaxTurns /\ revoked' \subseteq granted
    BY <2>1, TokensAssumption DEF TokInv, TokTypeOK, Revoke, Turn
  <2> QED BY <2>1, <2>2 DEF TokInv, TokTypeOK, AccessOfRefresh, PutsBackNewest,
                 AsksWithToken, Refreshing, Revoke
<1> QED BY <1>1, <1>2

----------------------------------------------------------------------------
\* The invariant holds in every state of the specification.
THEOREM TokensInvariant == TokSpec => []TokInv
<1>1. TokInv /\ [TokNext]_tokVars => TokInv'
  <2> SUFFICES ASSUME TokInv, [TokNext]_tokVars PROVE TokInv'
    OBVIOUS
  <2>1. CASE UNCHANGED tokVars
    BY <2>1 DEF tokVars, TokInv, TokTypeOK, AccessOfRefresh, PutsBackNewest, AsksWithToken,
                Refreshing
  <2>2. CASE TokNext
    BY <2>2, SaveKeeps, LoadKeeps, GoogleAnswersKeeps, RefreshFailsKeeps,
       SaveRefreshedKeeps, OutsideKeeps DEF TokNext
  <2> QED BY <2>1, <2>2
<1> QED BY TokInitInv, <1>1, PTL DEF TokSpec

\* The tokens an admin saved are not put back by a refresh of the old ones,
\* unless it was at work when they were saved (admobAuth.js:92-97), however many
\* reports refresh at once.
THEOREM NewTokenStays == TokSpec => []NewTokenKept
<1>1. TokInv => NewTokenKept
  BY DEF TokInv, PutsBackNewest, NewTokenKept
<1> QED BY TokensInvariant, <1>1, PTL

\* No access token is stored or used beside a refresh token it did not come from.
THEOREM AccessGoesWithRefresh == TokSpec => []AccessOfRefresh
<1>1. TokInv => AccessOfRefresh
  BY DEF TokInv
<1> QED BY TokensInvariant, <1>1, PTL

\* The tokens at work are the ones saved last, and belong together.
THEOREM TokensAgree == TokSpec => []TokensGoTogether
BY NewTokenStays, AccessGoesWithRefresh, PTL DEF TokensGoTogether

----------------------------------------------------------------------------
\* Hypothesis: clocks go back by two hours at most.
SmallChange == \A z \in ClockZones : z.later >= z.ahead - 2

\* The search keeps the end of the day between lo - 1 and hi.
Bracketed ==
    /\ LocalDay(lo - 1, zone) = LocalDay(start, zone)
    /\ LocalDay(hi, zone) # LocalDay(start, zone)

ClockOK == clock \in [said: Said, sent: Offsets, stored: Offsets]

LtInv == LtTypeOK /\ ClockOK /\ Bracketed

----------------------------------------------------------------------------
LEMMA DivRem ==
  ASSUME NEW x \in Int
  PROVE  /\ x \div 24 \in Int /\ x % 24 \in 0..23
         /\ x = 24 * (x \div 24) + (x % 24)
<1>1. x \div 24 \in Int
  OBVIOUS
<1>2. x % 24 \in 0..23
  OBVIOUS
<1>3. x = 24 * (x \div 24) + (x % 24)
  OBVIOUS
<1> QED BY <1>1, <1>2, <1>3

LEMMA Halves ==
  ASSUME NEW a \in Int, NEW b \in Int, a < b
  PROVE  (a + b) \div 2 \in Int /\ a <= (a + b) \div 2 /\ (a + b) \div 2 < b
  OBVIOUS

LEMMA DivMonotone ==
  ASSUME NEW x \in Int, NEW y \in Int, x <= y
  PROVE  x \div 24 <= y \div 24
  BY DivRem

LEMMA DayType ==
  ASSUME NEW t \in Int, NEW z \in ClockZones
  PROVE  /\ z.ahead \in Int /\ z.later \in Int /\ z.at \in Int
         /\ Ahead(t, z) \in Int /\ LocalDay(t, z) \in Int
  BY LocalTimeAssumption, DivRem DEF Ahead, LocalDay

\* Local days do not go back where the clocks do not go back over midnight.
LEMMA DaysInOrder ==
  ASSUME NEW z \in ClockZones, NEW first \in Int, NEW last \in Int,
         \A t \in first..last : LocalDay(t, z) <= LocalDay(t + 1, z),
         NEW t1 \in first..last, NEW t2 \in t1..(last + 1)
  PROVE  LocalDay(t1, z) <= LocalDay(t2, z)
<1>1. CASE t1 >= z.at \/ t2 < z.at
  BY <1>1, LocalTimeAssumption, DivMonotone DEF LocalDay, Ahead
<1>2. CASE t1 < z.at /\ t2 >= z.at
  <2>1. z.at - 1 \in first..last
    BY <1>2, LocalTimeAssumption
  <2>2. LocalDay(z.at - 1, z) <= LocalDay(z.at, z)
    BY <2>1, LocalTimeAssumption
  <2>3. LocalDay(t1, z) <= LocalDay(z.at - 1, z)
    BY <1>2, LocalTimeAssumption, DivMonotone DEF LocalDay, Ahead
  <2>4. LocalDay(z.at, z) <= LocalDay(t2, z)
    BY <1>2, LocalTimeAssumption, DivMonotone DEF LocalDay, Ahead
  <2>5. LocalDay(t1, z) \in Int /\ LocalDay(t2, z) \in Int /\ LocalDay(z.at, z) \in Int
        /\ LocalDay(z.at - 1, z) \in Int
    BY DayType, LocalTimeAssumption
  <2> QED BY <2>2, <2>3, <2>4, <2>5
<1> QED BY <1>1, <1>2, LocalTimeAssumption

\* 26 hours after the start it is another day: no day is longer.
LEMMA LongEnough ==
  ASSUME SmallChange, NEW t \in Int, NEW z \in ClockZones
  PROVE  LocalDay(t + 26, z) > LocalDay(t, z)
<1>1. Ahead(t + 26, z) >= Ahead(t, z) - 2
  BY LocalTimeAssumption DEF Ahead, SmallChange
<1>2. t + 26 + Ahead(t + 26, z) >= t + Ahead(t, z) + 24
  BY <1>1, DayType
<1> QED BY <1>2, DayType, DivRem DEF LocalDay

----------------------------------------------------------------------------
LEMMA LtInitInv == SmallChange /\ LtInit => LtInv
<1> SUFFICES ASSUME SmallChange, LtInit PROVE LtInv
  OBVIOUS
<1>1. start \in Int /\ zone \in ClockZones
  BY LocalTimeAssumption DEF LtInit
<1>2. LtTypeOK
  BY LocalTimeAssumption DEF LtInit, LtTypeOK, SearchEnd
<1>3. LocalDay(hi, zone) # LocalDay(start, zone)
  BY <1>1, LongEnough, DayType DEF LtInit, SearchEnd
<1>4. lo - 1 = start
  BY <1>1 DEF LtInit
<1> QED BY <1>2, <1>3, <1>4 DEF LtInv, Bracketed, ClockOK, LtInit

LEMMA LtNextInv == LtInv /\ [LtNext]_ltVars => LtInv'
<1> SUFFICES ASSUME LtInv, [LtNext]_ltVars PROVE LtInv'
  OBVIOUS
<1>1. start \in Int /\ lo \in Int /\ hi \in Int /\ zone \in ClockZones
  BY LocalTimeAssumption DEF LtInv, LtTypeOK, SearchEnd
<1>2. lo < hi => Mid \in Int /\ lo <= Mid /\ Mid < hi
  BY <1>1, Halves DEF Mid
<1>3. CASE EarlierHalf
  BY <1>1, <1>2, <1>3
  DEF LtInv, LtTypeOK, ClockOK, Bracketed, EarlierHalf, SameDay, SearchEnd
<1>4. CASE LaterHalf
  <2>1. lo' - 1 = Mid
    BY <1>1, <1>2, <1>4 DEF LaterHalf
  <2> QED
    BY <1>1, <1>2, <1>4, <2>1
    DEF LtInv, LtTypeOK, ClockOK, Bracketed, LaterHalf, SameDay, SearchEnd
<1>5. CASE UNCHANGED ltVars
  BY <1>5 DEF ltVars, LtInv, LtTypeOK, ClockOK, Bracketed, SearchEnd
<1> QED BY <1>3, <1>4, <1>5 DEF LtNext

\* The search stays in its 26 hours, whatever the clocks do.
THEOREM SearchStaysInRange == LtSpec => []LtTypeOK
<1>1. LtInit => LtTypeOK
  BY LocalTimeAssumption DEF LtInit, LtTypeOK, SearchEnd
<1>2. LtTypeOK /\ [LtNext]_ltVars => LtTypeOK'
  <2> SUFFICES ASSUME LtTypeOK, [LtNext]_ltVars PROVE LtTypeOK'
    OBVIOUS
  <2>1. start \in Int /\ lo \in Int /\ hi \in Int
    BY LocalTimeAssumption DEF LtTypeOK, SearchEnd
  <2>2. lo < hi => Mid \in Int /\ lo <= Mid /\ Mid < hi
    BY <2>1, Halves DEF Mid
  <2> QED BY <2>1, <2>2 DEF ltVars, LtTypeOK, LtNext, EarlierHalf, LaterHalf, SearchEnd
<1> QED BY <1>1, <1>2, PTL DEF LtSpec

\* The bracket holds at every step of the search.
THEOREM SearchInvariant == ASSUME SmallChange PROVE LtSpec => []LtInv
<1>1. LtInit => LtInv
  BY LtInitInv
<1> QED BY <1>1, LtNextInv, PTL DEF LtSpec

----------------------------------------------------------------------------
\* Where the search has ended: the whole of the day lies before lo.
LEMMA DayBeforeLo ==
  ASSUME LtInv, Found, Regular
  PROVE  /\ start \in Int /\ lo \in (start + 1)..(start + 26) /\ zone \in ClockZones
         /\ \A t \in start..(lo - 1) : LocalDay(t, zone) = LocalDay(start, zone)
         /\ LocalDay(lo, zone) > LocalDay(start, zone)
<1>1. /\ start \in Int /\ lo \in (start + 1)..(start + 26) /\ zone \in ClockZones
      /\ lo = hi
  BY LocalTimeAssumption DEF LtInv, LtTypeOK, SearchEnd, Found
<1>2. ASSUME NEW t \in start..(lo - 1)
      PROVE  LocalDay(t, zone) = LocalDay(start, zone)
  <2> DEFINE last == start + 25
  <2>0. /\ last \in Int /\ start \in start..last /\ t \in start..last
        /\ t \in start..(last + 1) /\ lo - 1 \in t..(last + 1)
        /\ \A i \in start..last : LocalDay(i, zone) <= LocalDay(i + 1, zone)
    BY <1>1 DEF Regular
  <2> HIDE DEF last
  <2>1. LocalDay(start, zone) <= LocalDay(t, zone)
    BY <1>1, <2>0, DaysInOrder
  <2>2. LocalDay(t, zone) <= LocalDay(lo - 1, zone)
    BY <1>1, <2>0, DaysInOrder
  <2> QED BY <1>1, <2>1, <2>2, DayType DEF LtInv, Bracketed
<1>3. LocalDay(lo - 1, zone) <= LocalDay(lo, zone)
  BY <1>1 DEF Regular
<1>4. LocalDay(lo, zone) > LocalDay(start, zone)
  BY <1>1, <1>3, DayType DEF LtInv, Bracketed
<1> QED BY <1>1, <1>2, <1>4

\* Without a change of the clocks, lo is the midnight the offset gives.
LEMMA MidnightByOffset ==
  ASSUME LtInv, Found, Regular, zone.ahead = zone.later
  PROVE  lo = NextDayByOffset(start, zone.ahead)
<1>1. /\ start \in Int /\ lo \in Int /\ zone \in ClockZones /\ lo - 1 >= start
      /\ LocalDay(lo, zone) > LocalDay(start, zone)
  BY DayBeforeLo
<1>2. LocalDay(lo - 1, zone) = LocalDay(start, zone)
  BY DEF LtInv, Bracketed
<1>3. zone.ahead \in Int
  BY <1>1, DayType
<1>4. \A t \in Int : LocalDay(t, zone) = (t + zone.ahead) \div 24
  BY DEF LocalDay, Ahead
<1>5. /\ (lo - 1 + zone.ahead) \div 24 = (start + zone.ahead) \div 24
      /\ (lo + zone.ahead) \div 24 > (start + zone.ahead) \div 24
  BY <1>1, <1>2, <1>4
<1> QED BY <1>1, <1>3, <1>5, DivRem DEF NextDayByOffset

\* The search finds the end of the local day, whatever the clocks do on it.
THEOREM EndOfDayIsFound == ASSUME SmallChange PROVE LtSpec => []FirstOfNextDay
<1>1. LtInv => FirstOfNextDay
  <2> SUFFICES ASSUME LtInv, Found, Regular
               PROVE  /\ \A t \in start..(lo - 1) : LocalDay(t, zone) = LocalDay(start, zone)
                      /\ LocalDay(lo, zone) # LocalDay(start, zone)
                      /\ zone.ahead = zone.later => lo = NextDayByOffset(start, zone.ahead)
    BY DEF FirstOfNextDay
  <2>1. LocalDay(lo, zone) # LocalDay(start, zone)
    BY DayBeforeLo, DayType
  <2> QED BY <2>1, DayBeforeLo, MidnightByOffset
<1> QED BY <1>1, SearchInvariant, PTL

\* No session is settled before its day is over, and no hour after it is paid.
THEOREM OnlyTheDayIsPaid == ASSUME SmallChange PROVE LtSpec => []PaidHoursAreOfTheDay
<1>1. LtInv => PaidHoursAreOfTheDay
  <2> SUFFICES ASSUME LtInv, Found, Regular, NEW inst \in start..(start + 48), Due(inst)
               PROVE  /\ inst >= lo
                      /\ \A t \in start..(start + HoursPaid - 1) :
                             LocalDay(t, zone) = LocalDay(start, zone)
    BY DEF PaidHoursAreOfTheDay
  <2>1. start \in Int /\ lo \in Int /\ zone \in ClockZones
    BY DayBeforeLo
  <2>2. LocalDay(inst, zone) > LocalDay(start, zone)
    BY DEF Due
  <2>3. inst >= lo
    BY <2>1, <2>2, DayBeforeLo, DayType
  <2>4. HoursPaid \in Int /\ start + HoursPaid <= lo
    BY <2>1 DEF HoursPaid
  <2> QED BY <2>1, <2>3, <2>4, DayBeforeLo
<1> QED BY <1>1, SearchInvariant, PTL

----------------------------------------------------------------------------
\* The day has begun to be over at lo, and stays so: the clocks that go back two
\* hours at most do not bring it back, unless at midnight, which Regular excludes.
LEMMA DueAfterLo ==
  ASSUME SmallChange, LtInv, Found, Regular, NEW inst \in start..(start + 48)
  PROVE  Due(inst) <=> inst >= lo
<1>1. /\ start \in Int /\ lo \in (start + 1)..(start + 26) /\ zone \in ClockZones
      /\ \A t \in start..(lo - 1) : LocalDay(t, zone) = LocalDay(start, zone)
      /\ LocalDay(lo, zone) > LocalDay(start, zone)
  BY DayBeforeLo
<1>2. inst < lo => ~Due(inst)
  BY <1>1, DayType DEF Due
<1>3. ASSUME inst >= lo, inst <= start + 26 PROVE Due(inst)
  <2> DEFINE last == start + 25
  <2>1. /\ last \in Int /\ inst \in lo..(last + 1)
        /\ \A i \in start..last : LocalDay(i, zone) <= LocalDay(i + 1, zone)
    BY <1>1, <1>3 DEF Regular
  <2>2. lo \in start..last \/ lo = inst
    BY <1>1, <1>3
  <2> HIDE DEF last
  <2>3. lo \in start..last => LocalDay(lo, zone) <= LocalDay(inst, zone)
    BY <1>1, <2>1, DaysInOrder
  <2>4. start \in Int /\ inst \in Int /\ lo \in Int
    BY <1>1
  <2> QED BY <1>1, <2>2, <2>3, <2>4, DayType DEF Due
<1>4. ASSUME inst > start + 26 PROVE Due(inst)
  <2>1. inst + Ahead(inst, zone) >= start + Ahead(start, zone) + 24
    BY <1>1, <1>4, LocalTimeAssumption DEF Ahead, SmallChange
  <2> QED BY <1>1, <2>1, DayType, DivRem DEF Due, LocalDay
<1> QED BY <1>1, <1>2, <1>3, <1>4

\* What the app shows is what has been mined, and in the end what is paid; in a
\* zone that is not the server's it is off by the hours between the two until then.
THEOREM ScreenIsTrue == ASSUME SmallChange PROVE LtSpec => []ShownIsMined
<1>1. LtInv => ShownIsMined
  <2> SUFFICES ASSUME LtInv, Found, Regular, NEW inst \in start..(start + 48)
               PROVE  LET screen == Screen(inst, 0, TRUE, TRUE)
                          off    == Ahead(inst, zone) - ServerAhead IN
                      /\ off = 0 \/ Due(inst) =>
                             screen.hours = LesserOf(inst - start, HoursPaid)
                      /\ screen.hours <= HoursPaid + GreaterOf(0, off)
                      /\ ~Due(inst) /\ zone.ahead = zone.later => screen.left = lo - inst
    BY DEF ShownIsMined
  <2> DEFINE off == Ahead(inst, zone) - ServerAhead
             hours == ShownHours(inst, 0)
  <2>1. /\ start \in Int /\ lo \in (start + 1)..(start + 26) /\ zone \in ClockZones
        /\ inst \in Int /\ start <= inst
    BY DayBeforeLo
  <2>2. off \in Int
    BY <2>1, DayType, LocalTimeAssumption DEF MinAhead, MaxAhead
  <2>3. /\ Screen(inst, 0, TRUE, TRUE).hours = hours
        /\ Screen(inst, 0, TRUE, TRUE).left = Remaining(inst)
    BY DEF Screen
  <2>4. WallClock(inst) = inst + off
    BY <2>1, DayType, LocalTimeAssumption DEF WallClock, MinAhead, MaxAhead
  <2>5. Due(inst) <=> inst >= lo
    BY DueAfterLo
  <2>6. hours = IF Due(inst) THEN HoursPaid
                ELSE GreaterOf(0, GreaterOf(0, LesserOf(inst + off, start + 24) - start))
    BY <2>4 DEF ShownHours, LiveHours, ElapsedHours
  <2> HIDE DEF off, hours
  <2>7. off = 0 \/ Due(inst) => hours = LesserOf(inst - start, HoursPaid)
    BY <2>1, <2>2, <2>5, <2>6 DEF HoursPaid, LesserOf, GreaterOf
  <2>8. hours <= HoursPaid + GreaterOf(0, off)
    BY <2>1, <2>2, <2>5, <2>6 DEF HoursPaid, LesserOf, GreaterOf
  <2>9. ASSUME ~Due(inst), zone.ahead = zone.later PROVE Remaining(inst) = lo - inst
    <3>1. inst < lo /\ zone.ahead \in Int
      BY <2>1, <2>5, <2>9, LocalTimeAssumption
    <3>2. lo = NextDayByOffset(start, zone.ahead)
      BY <2>9, MidnightByOffset
    <3>3. LocalDay(inst, zone) = LocalDay(start, zone)
      BY <2>1, <3>1, DayBeforeLo
    <3>4. /\ (inst + zone.ahead) \div 24 = (start + zone.ahead) \div 24
          /\ Remaining(inst) = 24 - ((inst + zone.ahead) % 24)
      BY <2>9, <3>3 DEF LocalDay, Ahead, Remaining, LocalHour
    <3> QED BY <2>1, <3>1, <3>2, <3>4, DivRem DEF NextDayByOffset
  <2> QED BY <2>3, <2>7, <2>8, <2>9 DEF off
<1> QED BY <1>1, SearchInvariant, PTL

----------------------------------------------------------------------------
\* Whatever day the app says it is, the day believed is today somewhere.
THEOREM BelievedDayIsToday == LtSpec => []TrustedIsToday
<1> DEFINE I == start \in Int /\ ClockOK
<1>1. LtInit => I
  BY LocalTimeAssumption DEF LtInit, ClockOK
<1>2. I /\ [LtNext]_ltVars => I'
  BY DEF ltVars, LtNext, EarlierHalf, LaterHalf, ClockOK
<1>3. I => TrustedIsToday
  <2> SUFFICES ASSUME I PROVE TrustedIsToday
    OBVIOUS
  <2>1. clock.said \in Int /\ clock.sent \in Int /\ clock.stored \in Int
    BY LocalTimeAssumption DEF ClockOK
  <2>2. ASSUME NEW a \in Int, PlausibleOffset(a)
        PROVE  PlausibleDay(DayFromOffset(a, start), start)
    BY <2>2, DivMonotone
    DEF PlausibleOffset, PlausibleDay, DayFromOffset, Earliest, Latest, MinAhead, MaxAhead
  <2>3. PlausibleDay(start \div 24, start)
    BY DivMonotone DEF PlausibleDay, Earliest, Latest, MinAhead, MaxAhead
  <2> QED BY <2>1, <2>2, <2>3 DEF TrustedIsToday, TrustedDay, Believed
<1> QED BY <1>1, <1>2, <1>3, PTL DEF LtSpec

\* The hour the server writes for a start is the hour it reads back.
THEOREM HourIsReadBack == LtSpec => []StartIsReadBack
<1> DEFINE I == start \in Int /\ zone \in ClockZones
<1>1. LtInit => I
  BY LocalTimeAssumption DEF LtInit
<1>2. I /\ [LtNext]_ltVars => I'
  BY DEF ltVars, LtNext, EarlierHalf, LaterHalf
<1>3. I => StartIsReadBack
  <2> SUFFICES ASSUME I PROVE StartIsReadBack
    OBVIOUS
  <2>1. LocalHour(start, zone) \in 0..23
    BY DayType, DivRem DEF LocalHour
  <2> QED BY <2>1 DEF StartIsReadBack, ParsedHour, Formatted
<1> QED BY <1>1, <1>2, <1>3, PTL DEF LtSpec

\* All that is said of a day, for every start, zone and small clock change.
THEOREM DaysAreTrue == ASSUME SmallChange PROVE LtSpec => []DaysAreWhole
BY EndOfDayIsFound, OnlyTheDayIsPaid, ScreenIsTrue, BelievedDayIsToday, HourIsReadBack, PTL
   DEF DaysAreWhole

-----------------------------------------------------------------------------
(* The limits of a withdrawal.  A pair is written in two halves, and a user  *)
(* reads it in two, so the invariant says which half a save has still to     *)
(* write, and what was read before there was any save.                       *)

UserRow == [at: {"none", "read", "price", "wait", "checks", "shown",
                 "paying", "below", "above", "paid", "refused"},
            min: Nat \cup {Unread}, max: Nat \cup {Unread},
            price: Prices \cup {0}, asked: Nat \cup {Unread},
            shownAt: Prices \cup {0}, paidAt: Prices \cup {0}]

SaveRow == [min: Nat, max: Nat, todo: SUBSET {"min", "max"}]

\* The minimum a user is shown when nothing was ever set.
DefaultMin(p) == Max({Default[1], SpeedMinimum(p)})

\* What a request x has read, shown and checked, and whether anything was saved.
RequestIsFair(x, s) ==
    /\ x.at \in {"price", "wait", "checks"} => x.min \in Nat /\ x.max \in Nat
    /\ x.at = "paying" => x.asked \in Nat /\ SpeedMinimum(x.price) <= x.asked
    /\ x.at = "refused" => x.price = 0 \/ x.paidAt * 11 < x.price * 10
    /\ x.at = "below" => s \/ x.shownAt = 0 \/ x.price < x.shownAt
    /\ ~s => /\ x.min \in {Unread, Default[1]}
             /\ x.asked \in {Unread, DefaultMin(x.shownAt)}

\* Pairs at work are in order; unless saves were mixed there is one, and its
\* halves are in place but for those to come.
SavesAreWhole ==
    /\ \A a \in Admins : Writing(a) => saving[a].min <= saving[a].max
    /\ ~mixed =>
           /\ \A a, b \in Admins : Writing(a) /\ Writing(b) => a = b
           /\ \A a \in Admins : Writing(a) =>
                  \A key \in {"min", "max"} \ saving[a].todo : limit[key] = saving[a][key]

\* Until the first save there are the defaults.
UnsavedIsDefault ==
    ~saved => limit.min = Default[1] /\ \A a \in Admins : ~Writing(a)

LimInv ==
    /\ LimitsTypeOK /\ SavesAreWhole /\ LimitsInOrder /\ UnsavedIsDefault
    /\ \A u \in Users : RequestIsFair(user[u], saved)

LEMMA MaxOfTwo ==
  ASSUME NEW a \in Int, NEW b \in Int
  PROVE  Max({a, b}) = IF a <= b THEN b ELSE a
BY DEF Max

\* A minimum in bitcoin, rounded up, is worth what it has to be.
LEMMA CeilBounds ==
  ASSUME NEW n \in Nat, NEW d \in Nat \ {0}
  PROVE  /\ Ceil(n, d) \in Nat
         /\ n <= Ceil(n, d) * d
         /\ Ceil(n, d) * d < n + d
<1> DEFINE m == n + d - 1
<1>1. m \in Nat /\ d \in Nat /\ d > 0
  OBVIOUS
<1>2. m \div d \in Nat /\ m = d * (m \div d) + (m % d) /\ m % d \in 0..(d - 1)
  BY <1>1
<1> QED BY <1>2 DEF Ceil

LEMMA PositivePrices == \A p \in Prices : p \in Nat /\ p > 0
BY LimitsAssumption

LEMMA SpeedMinimumType ==
  ASSUME NEW p \in Prices \cup {0}
  PROVE  SpeedMinimum(p) \in Nat
<1>1. CASE p = 0
  BY <1>1 DEF SpeedMinimum
<1>2. CASE p # 0
  <2>1. 11 * MinWorth \in Nat /\ 10 * p \in Nat \ {0}
    BY <1>2, LimitsAssumption
  <2> QED BY <1>2, <2>1, CeilBounds DEF SpeedMinimum
<1> QED BY <1>1, <1>2

\* The more bitcoin is worth, the less of it is the minimum.
LEMMA SpeedMinimumFalls ==
  ASSUME NEW p \in Prices, NEW q \in Prices, p <= q
  PROVE  SpeedMinimum(q) <= SpeedMinimum(p)
<1> DEFINE n == 11 * MinWorth
           x == SpeedMinimum(p)
           y == SpeedMinimum(q)
<1>1. p \in Nat \ {0} /\ q \in Nat \ {0} /\ n \in Nat
  BY LimitsAssumption
<1>2. x = Ceil(n, 10 * p) /\ y = Ceil(n, 10 * q)
  BY <1>1 DEF SpeedMinimum
<1>3. 10 * p \in Nat \ {0} /\ 10 * q \in Nat \ {0}
  BY <1>1
<1>4. x \in Nat /\ n <= x * (10 * p)
  BY <1>1, <1>2, <1>3, CeilBounds
<1>5. y \in Nat /\ y * (10 * q) < n + 10 * q
  BY <1>1, <1>2, <1>3, CeilBounds
<1> HIDE DEF x, y, n
<1>6. SUFFICES ASSUME y > x PROVE FALSE
  BY <1>4, <1>5 DEF x, y
<1>7. PICK k \in Nat : y = x + 1 + k
  <2>1. y - x - 1 \in Nat
    BY <1>4, <1>5, <1>6
  <2> QED BY <2>1, <1>4, <1>5
<1>8. PICK d \in Nat : q = p + d
  <2>1. q - p \in Nat
    BY <1>1
  <2> QED BY <2>1, <1>1
<1>9. y * (10 * q) = x * (10 * p) + x * (10 * d) + 10 * q + k * (10 * q)
  BY <1>1, <1>4, <1>7, <1>8
<1>10. x * (10 * d) \in Nat /\ k * (10 * q) \in Nat
  BY <1>1, <1>4, <1>7, <1>8
<1>11. x * (10 * p) \in Nat /\ y * (10 * q) \in Nat /\ 10 * q \in Nat
  BY <1>1, <1>4, <1>5
<1> HIDE DEF x
<1> QED BY <1>1, <1>4, <1>5, <1>9, <1>10, <1>11

\* A larger natural is a smaller one and a gap.
LEMMA Gap == \A a, b \in Nat : a >= b => \E d \in Nat : a = b + d
<1> SUFFICES ASSUME NEW a \in Nat, NEW b \in Nat, a >= b PROVE \E d \in Nat : a = b + d
  OBVIOUS
<1>1. a - b \in Nat /\ a = b + (a - b)
  OBVIOUS
<1> QED BY <1>1

\* A refused amount that passed the check: the price fell by more than the cushion.
LEMMA RefusedFell ==
  ASSUME NEW p \in Prices, NEW m \in Prices, NEW sum \in Nat,
         SpeedMinimum(p) <= sum, ~(sum * m >= MinWorth)
  PROVE  m * 11 < p * 10
<1> DEFINE n == 11 * MinWorth
           x == SpeedMinimum(p)
<1>1. p \in Nat \ {0} /\ m \in Nat \ {0} /\ MinWorth \in Nat /\ n \in Nat
  BY LimitsAssumption
<1>2. x = Ceil(n, 10 * p)
  BY <1>1 DEF SpeedMinimum
<1>3. 10 * p \in Nat \ {0}
  BY <1>1
<1>4. x \in Nat /\ n <= x * (10 * p)
  BY <1>1, <1>2, <1>3, CeilBounds
<1>5. PICK e \in Nat : sum = x + e
  <2>1. x \in Nat /\ sum \in Nat /\ sum >= x
    BY <1>4
  <2> HIDE DEF x
  <2> QED BY <2>1, Gap
<1> SUFFICES ASSUME m * 11 >= p * 10 PROVE FALSE
  BY <1>1
<1>6. PICK d \in Nat : m * 11 = p * 10 + d
  <2>1. m * 11 \in Nat /\ p * 10 \in Nat /\ m * 11 >= p * 10
    BY <1>1
  <2> QED BY <2>1, Gap
<1> HIDE DEF x
<1>7. sum * (m * 11) = x * (10 * p) + e * (10 * p) + sum * d
  BY <1>1, <1>4, <1>5, <1>6
<1>8. e * (10 * p) \in Nat /\ sum * d \in Nat /\ x * (10 * p) \in Nat
  BY <1>1, <1>4, <1>5, <1>6
<1>9. sum * (m * 11) >= n
  BY <1>1, <1>4, <1>7, <1>8
<1>10. sum * (m * 11) = (sum * m) * 11 /\ sum * m \in Nat
  BY <1>1
<1> QED BY <1>1, <1>9, <1>10

LEMMA DefaultMinType ==
  ASSUME NEW p \in Prices \cup {0}
  PROVE  DefaultMin(p) \in Nat
BY MaxOfTwo, SpeedMinimumType, LimitsAssumption DEF DefaultMin

----------------------------------------------------------------------------
LEMMA LimitsStart == LimInit => LimInv
<1> SUFFICES ASSUME LimInit PROVE LimInv
  OBVIOUS
<1>1. Default[1] \in Nat /\ Default[2] \in Nat /\ Default[1] <= Default[2]
  BY LimitsAssumption
<1>2. NoUser \in UserRow
  BY DEF NoUser, UserRow
<1>3. NoSave \in SaveRow
  BY DEF NoSave, SaveRow
<1>4. LimitsTypeOK
  <2>1. user \in [Users -> UserRow]
    BY <1>2 DEF LimInit
  <2>2. saving \in [Admins -> SaveRow]
    BY <1>3 DEF LimInit
  <2>3. ~(\E u \in Users : user[u].at = "wait")
    BY DEF LimInit, NoUser
  <2>4. limit \in [min: Nat, max: Nat] /\ mixed \in BOOLEAN /\ saved \in BOOLEAN
    BY <1>1 DEF LimInit
  <2>5. /\ market \in Prices /\ cached \in [price: Prices \cup {0}, fresh: BOOLEAN]
        /\ fetch \in {"none", "gecko", "binance"} /\ upsets \in 0..MaxUpsets
    BY LimitsAssumption DEF LimInit
  <2> QED BY <2>1, <2>2, <2>3, <2>4, <2>5 DEF LimitsTypeOK, UserRow, SaveRow
<1>5. \A a \in Admins : ~Writing(a)
  BY DEF LimInit, NoSave, Writing
<1>6. SavesAreWhole /\ LimitsInOrder /\ UnsavedIsDefault
  BY <1>1, <1>5 DEF LimInit, SavesAreWhole, LimitsInOrder, UnsavedIsDefault
<1>7. \A u \in Users : RequestIsFair(user[u], saved)
  BY DEF LimInit, NoUser, RequestIsFair
<1> QED BY <1>4, <1>6, <1>7 DEF LimInv

LEMMA LimitsTypes ==
  ASSUME LimitsTypeOK
  PROVE  /\ limit \in [min: Nat, max: Nat]
         /\ saving \in [Admins -> SaveRow] /\ user \in [Users -> UserRow]
BY DEF LimitsTypeOK, SaveRow, UserRow

\* What a step of one request has to keep.
LEMMA RequestStep ==
  ASSUME LimInv, NEW u \in Users, NEW r \in UserRow,
         user' = [user EXCEPT ![u] = r], RequestIsFair(r, saved),
         UNCHANGED <<limit, saving, mixed, saved, market, cached>>,
         fetch' = fetch \/ fetch' \in {"gecko", "binance"},
         r.at = "wait" => fetch' # "none",
         upsets' \in 0..MaxUpsets
  PROVE  LimInv'
<1>1. LimitsTypeOK
  BY DEF LimInv
<1>2. user \in [Users -> UserRow]
  BY <1>1, LimitsTypes
<1>3. user' \in [Users -> UserRow]
  BY <1>2
<1>4. /\ user'[u] = r
      /\ \A v \in Users \ {u} : user'[v] = user[v]
  BY <1>2
<1>5. fetch' # "none" \/ fetch' = fetch
  OBVIOUS
<1>6. (\E v \in Users : user'[v].at = "wait") => fetch' # "none"
  <2> SUFFICES ASSUME NEW v \in Users, user'[v].at = "wait", fetch' = fetch
               PROVE  fetch' # "none"
    BY <1>5
  <2>1. CASE v = u
    BY <2>1, <1>4
  <2>2. CASE v # u
    BY <2>2, <1>1, <1>4 DEF LimitsTypeOK
  <2> QED BY <2>1, <2>2
<1>7. LimitsTypeOK'
  BY <1>1, <1>3, <1>6 DEF LimitsTypeOK, UserRow
<1>8. \A v \in Users : RequestIsFair(user'[v], saved')
  BY <1>4 DEF LimInv
<1>9. (SavesAreWhole /\ LimitsInOrder /\ UnsavedIsDefault)'
  BY DEF LimInv, SavesAreWhole, LimitsInOrder, UnsavedIsDefault, Writing
<1> QED BY <1>7, <1>8, <1>9 DEF LimInv

\* What a step of the price and of those who wait for it has to keep.
LEMMA PriceStep ==
  ASSUME LimInv, NEW p \in Prices \cup {0}, user' = Answered(p), fetch' = "none",
         UNCHANGED <<limit, saving, mixed, saved, market>>,
         cached' \in [price: Prices \cup {0}, fresh: BOOLEAN],
         upsets' \in 0..MaxUpsets
  PROVE  LimInv'
<1>1. LimitsTypeOK
  BY DEF LimInv
<1>2. user \in [Users -> UserRow]
  BY <1>1, LimitsTypes
<1>3. ASSUME NEW v \in Users
      PROVE  /\ user'[v] \in UserRow /\ user'[v].at # "wait"
             /\ RequestIsFair(user'[v], saved')
  <2>0. user'[v] = IF user[v].at = "wait"
                   THEN [user[v] EXCEPT !.at = "checks", !.price = p] ELSE user[v]
    BY DEF Answered
  <2>1. user[v] \in UserRow
    BY <1>2
  <2>2. RequestIsFair(user[v], saved)
    BY DEF LimInv
  <2>3. CASE user[v].at = "wait"
    <3> DEFINE r == [user[v] EXCEPT !.at = "checks", !.price = p]
    <3>1. r \in UserRow
      BY <2>1 DEF UserRow
    <3>2. /\ r.at = "checks" /\ r.min = user[v].min /\ r.max = user[v].max
          /\ r.asked = user[v].asked /\ r.shownAt = user[v].shownAt
      BY <2>1 DEF UserRow
    <3> HIDE DEF r
    <3>3. RequestIsFair(r, saved)
      BY <2>2, <2>3, <3>2 DEF RequestIsFair
    <3>4. user'[v] = r /\ saved' = saved
      BY <2>0, <2>3 DEF r
    <3> QED BY <3>1, <3>2, <3>3, <3>4
  <2>4. CASE user[v].at # "wait"
    BY <2>0, <2>1, <2>2, <2>4
  <2> QED BY <2>3, <2>4
<1>4. user' \in [Users -> UserRow]
  BY <1>3 DEF Answered
<1>5. LimitsTypeOK'
  BY <1>1, <1>3, <1>4 DEF LimitsTypeOK, UserRow
<1>6. (SavesAreWhole /\ LimitsInOrder /\ UnsavedIsDefault)'
  BY DEF LimInv, SavesAreWhole, LimitsInOrder, UnsavedIsDefault, Writing
<1> QED BY <1>3, <1>5, <1>6 DEF LimInv

LEMMA Upsets ==
  ASSUME LimitsTypeOK, \/ upsets' = upsets
                       \/ upsets < MaxUpsets /\ upsets' = upsets + 1
  PROVE  upsets' \in 0..MaxUpsets
BY LimitsAssumption DEF LimitsTypeOK

LEMMA SavesKeep ==
  ASSUME LimInv, NEW a \in Admins,
         \/ \E p \in Pairs : StartSave(a, p)
         \/ \E key \in {"min", "max"} : WriteLimit(a, key) \/ WriteFails(a, key)
  PROVE  LimInv'
<1>1. LimitsTypeOK
  BY DEF LimInv
<1>2. saving \in [Admins -> SaveRow] /\ limit \in [min: Nat, max: Nat]
  BY <1>1, LimitsTypes
<1>3. upsets' \in 0..MaxUpsets
  BY <1>1, Upsets DEF StartSave, WriteLimit, WriteFails
<1>4. UNCHANGED <<market, cached, fetch, user>>
  BY DEF StartSave, WriteLimit, WriteFails, priceVars
<1>5. CASE \E p \in Pairs : StartSave(a, p)
  <2>1. PICK p \in Pairs : StartSave(a, p)
    BY <1>5
  <2> DEFINE r == [min |-> p[1], max |-> p[2], todo |-> {"min", "max"}]
  <2>2. p[1] \in Nat /\ p[2] \in Nat /\ p[1] <= p[2]
    BY <2>1, LimitsAssumption DEF StartSave, ValidPair
  <2>3. r \in SaveRow /\ r.min <= r.max /\ r.todo = {"min", "max"}
    BY <2>2 DEF SaveRow
  <2>4. saving' = [saving EXCEPT ![a] = r]
    BY <2>1 DEF StartSave
  <2> HIDE DEF r
  <2>5. /\ saving' \in [Admins -> SaveRow] /\ saving'[a] = r
        /\ \A b \in Admins \ {a} : saving'[b] = saving[b]
    BY <1>2, <2>3, <2>4
  <2>6. /\ saved' = TRUE /\ limit' = limit
        /\ mixed' = \E b \in Admins : saving[b].todo # {}
    BY <2>1 DEF StartSave, Writing
  <2>7. LimitsTypeOK'
    BY <1>1, <1>3, <1>4, <2>5, <2>6 DEF LimitsTypeOK, SaveRow
  <2>8. SavesAreWhole'
    BY <2>3, <2>5, <2>6 DEF LimInv, SavesAreWhole, Writing
  <2>9. LimitsInOrder' /\ UnsavedIsDefault'
    BY <2>3, <2>5, <2>6 DEF LimitsInOrder, UnsavedIsDefault, Writing
  <2>10. \A u \in Users : RequestIsFair(user'[u], saved')
    BY <1>4, <2>6 DEF LimInv, RequestIsFair
  <2> QED BY <2>7, <2>8, <2>9, <2>10 DEF LimInv
<1>6. CASE \E key \in {"min", "max"} : WriteLimit(a, key) \/ WriteFails(a, key)
  <2>1. PICK key \in {"min", "max"} : WriteLimit(a, key) \/ WriteFails(a, key)
    BY <1>6
  <2> DEFINE r == [saving[a] EXCEPT !.todo = saving[a].todo \ {key}]
  <2>2. key \in saving[a].todo
    BY <2>1 DEF WriteLimit, WriteFails
  <2>3. saving[a] \in SaveRow
    BY <1>2
  <2>4. /\ r \in SaveRow /\ r.min = saving[a].min /\ r.max = saving[a].max
        /\ r.todo = saving[a].todo \ {key}
    BY <2>3 DEF SaveRow
  <2>5. saving' = [saving EXCEPT ![a] = r]
    BY <2>1, <2>3 DEF WriteLimit, WriteFails, SaveRow
  <2> HIDE DEF r
  <2>6. /\ saving' \in [Admins -> SaveRow] /\ saving'[a] = r
        /\ \A b \in Admins \ {a} : saving'[b] = saving[b]
    BY <1>2, <2>4, <2>5
  <2>7. Writing(a) /\ saved
    BY <2>2 DEF Writing, LimInv, UnsavedIsDefault
  <2>8. saved' = saved
    BY <2>1 DEF WriteLimit, WriteFails
  <2>9. saving[a].min <= saving[a].max
    BY <2>7 DEF LimInv, SavesAreWhole
  <2>10. UnsavedIsDefault'
    BY <2>7, <2>8 DEF UnsavedIsDefault
  <2>11. \A u \in Users : RequestIsFair(user'[u], saved')
    BY <1>4, <2>8 DEF LimInv
  <2>12. \A b \in Admins : Writing(b)' => saving'[b].min <= saving'[b].max
    BY <2>4, <2>6, <2>9 DEF LimInv, SavesAreWhole, Writing
  <2>13. CASE WriteLimit(a, key)
    <3>1. /\ limit' = [limit EXCEPT ![key] = saving[a][key]]
          /\ mixed' = mixed
      BY <2>13 DEF WriteLimit
    <3>2. saving[a].min \in Nat /\ saving[a].max \in Nat
      BY <2>3 DEF SaveRow
    <3>3. limit' \in [min: Nat, max: Nat]
      BY <1>2, <3>1, <3>2
    <3>4. /\ limit'[key] = saving[a][key]
          /\ \A k \in {"min", "max"} \ {key} : limit'[k] = limit[k]
      BY <1>2, <3>1
    <3>5. LimitsTypeOK'
      BY <1>1, <1>3, <1>4, <2>6, <2>8, <3>1, <3>3 DEF LimitsTypeOK, SaveRow
    <3>6. ASSUME ~mixed
          PROVE  /\ \A b \in Admins : Writing(b)' => b = a
                 /\ \A k \in {"min", "max"} \ r.todo : limit'[k] = saving[a][k]
      <4>1. \A b \in Admins : Writing(b) => b = a
        BY <2>7, <3>6 DEF LimInv, SavesAreWhole
      <4>2. \A k \in {"min", "max"} \ saving[a].todo : limit[k] = saving[a][k]
        BY <2>7, <3>6 DEF LimInv, SavesAreWhole
      <4>3. \A b \in Admins : Writing(b)' => b = a
        BY <2>6, <4>1 DEF Writing
      <4>4. \A k \in {"min", "max"} \ r.todo : limit'[k] = saving[a][k]
        BY <2>4, <3>4, <4>2
      <4> QED BY <4>3, <4>4
    <3>7. \A k \in {"min", "max"} : saving'[a][k] = saving[a][k]
      BY <2>4, <2>6
    <3>8. SavesAreWhole'
      BY <2>6, <2>12, <3>1, <3>6, <3>7 DEF SavesAreWhole
    <3>9. LimitsInOrder'
      <4> SUFFICES ASSUME \A b \in Admins : ~Writing(b)', ~mixed'
                   PROVE  limit'.min <= limit'.max
        BY DEF LimitsInOrder
      <4>1. r.todo = {}
        BY <2>6 DEF Writing
      <4>2. limit'.min = saving[a].min /\ limit'.max = saving[a].max
        BY <3>1, <3>6, <4>1
      <4> QED BY <2>9, <4>2
    <3> QED BY <2>10, <2>11, <3>5, <3>8, <3>9 DEF LimInv
  <2>14. CASE WriteFails(a, key)
    <3>1. mixed' = TRUE /\ limit' = limit
      BY <2>14 DEF WriteFails
    <3>2. LimitsTypeOK'
      BY <1>1, <1>3, <1>4, <2>6, <2>8, <3>1 DEF LimitsTypeOK, SaveRow
    <3>3. SavesAreWhole' /\ LimitsInOrder'
      BY <2>12, <3>1 DEF SavesAreWhole, LimitsInOrder
    <3> QED BY <2>10, <2>11, <3>2, <3>3 DEF LimInv
  <2> QED BY <2>1, <2>13, <2>14
<1> QED BY <1>5, <1>6

\* What a request has read, has it asked for and is paid.
LEMMA RequestTypes ==
  ASSUME LimInv, NEW u \in Users
  PROVE  /\ user \in [Users -> UserRow] /\ user[u] \in UserRow
         /\ RequestIsFair(user[u], saved)
         /\ limit.min \in Nat /\ limit.max \in Nat
         /\ ~saved => limit.min = Default[1]
         /\ Default[1] \in Nat /\ Default[2] \in Nat
         /\ market \in Prices /\ cached.price \in Prices \cup {0}
         /\ fetch \in {"none", "gecko", "binance"} /\ saved \in BOOLEAN
         /\ upsets \in 0..MaxUpsets
<1>1. LimitsTypeOK
  BY DEF LimInv
<1>2. user \in [Users -> UserRow]
  BY <1>1, LimitsTypes
<1>3. Default[1] \in Nat /\ Default[2] \in Nat
  BY LimitsAssumption
<1>4. limit.min \in Nat /\ limit.max \in Nat
  BY <1>1, LimitsTypes
<1>5. ~saved => limit.min = Default[1]
  BY DEF LimInv, UnsavedIsDefault
<1>6. RequestIsFair(user[u], saved)
  BY DEF LimInv
<1>7. /\ market \in Prices /\ cached.price \in Prices \cup {0}
      /\ fetch \in {"none", "gecko", "binance"} /\ saved \in BOOLEAN
      /\ upsets \in 0..MaxUpsets
  BY <1>1 DEF LimitsTypeOK
<1> QED BY <1>2, <1>3, <1>4, <1>5, <1>6, <1>7

\* The finds.
LEMMA FindsKeep ==
  ASSUME LimInv, NEW u \in Users,
         \/ AsksForLimits(u) \/ ReadFails(u)
         \/ \E key \in {"min", "max"} : ReadsLimit(u, key)
  PROVE  LimInv'
<1> DEFINE x == user[u]
<1>1. /\ user \in [Users -> UserRow] /\ x \in UserRow /\ RequestIsFair(x, saved)
      /\ limit.min \in Nat /\ limit.max \in Nat /\ (~saved => limit.min = Default[1])
      /\ Default[1] \in Nat /\ Default[2] \in Nat
  BY RequestTypes
<1>2. upsets' \in 0..MaxUpsets
  BY Upsets DEF LimInv, AsksForLimits, ReadFails, ReadsLimit
<1>3. UNCHANGED <<limit, saving, mixed, saved, market, cached, fetch>>
  BY DEF AsksForLimits, ReadFails, ReadsLimit, priceVars
<1>4. CASE AsksForLimits(u)
  <2> DEFINE r == [x EXCEPT !.at = "read"]
  <2>1. r \in UserRow
    BY <1>1 DEF UserRow
  <2>2. /\ r.at = "read" /\ r.min = x.min /\ r.max = x.max
        /\ r.asked = x.asked /\ r.shownAt = x.shownAt
    BY <1>1 DEF UserRow
  <2>3. user' = [user EXCEPT ![u] = r]
    BY <1>4 DEF AsksForLimits
  <2> HIDE DEF r
  <2>4. RequestIsFair(r, saved)
    BY <1>1, <2>2 DEF RequestIsFair
  <2> QED BY <1>2, <1>3, <2>1, <2>2, <2>3, <2>4, RequestStep
<1>5. CASE ReadFails(u)
  <2> DEFINE r == [x EXCEPT !.min = Default[1], !.max = Default[2], !.at = "price"]
  <2>1. r \in UserRow
    BY <1>1 DEF UserRow
  <2>2. /\ r.at = "price" /\ r.min = Default[1] /\ r.max = Default[2]
        /\ r.asked = x.asked /\ r.shownAt = x.shownAt
    BY <1>1 DEF UserRow
  <2>3. user' = [user EXCEPT ![u] = r]
    BY <1>5 DEF ReadFails
  <2> HIDE DEF r
  <2>4. RequestIsFair(r, saved)
    BY <1>1, <2>2 DEF RequestIsFair
  <2> QED BY <1>2, <1>3, <2>1, <2>2, <2>3, <2>4, RequestStep
<1>6. CASE \E key \in {"min", "max"} : ReadsLimit(u, key)
  <2>1. PICK key \in {"min", "max"} : ReadsLimit(u, key)
    BY <1>6
  <2> DEFINE y == [x EXCEPT ![key] = limit[key]]
             r == IF y.min = Unread \/ y.max = Unread THEN y ELSE [y EXCEPT !.at = "price"]
  <2>2. limit[key] \in Nat
    BY <1>1
  <2>3. y \in UserRow
    BY <1>1, <2>2 DEF UserRow
  <2>4. /\ y.at = "read" /\ y.asked = x.asked /\ y.shownAt = x.shownAt
        /\ y.min = IF key = "min" THEN limit.min ELSE x.min
    BY <1>1, <2>1 DEF UserRow, ReadsLimit
  <2>5. y.min \in Nat \cup {Unread} /\ y.max \in Nat \cup {Unread}
    BY <2>3 DEF UserRow
  <2>6. user' = [user EXCEPT ![u] = r]
    BY <2>1 DEF ReadsLimit
  <2> HIDE DEF y
  <2>7. r \in UserRow
    BY <2>3 DEF UserRow
  <2>8. /\ r.at \in {"read", "price"} /\ r.asked = x.asked /\ r.shownAt = x.shownAt
        /\ r.min = y.min /\ r.max = y.max
        /\ r.at = "price" => y.min # Unread /\ y.max # Unread
    BY <2>3, <2>4 DEF UserRow
  <2> HIDE DEF r
  <2>9. ~saved => r.min \in {Unread, Default[1]}
    BY <1>1, <2>4, <2>8 DEF RequestIsFair
  <2>10. RequestIsFair(r, saved)
    BY <1>1, <2>5, <2>8, <2>9 DEF RequestIsFair
  <2>11. r.at # "wait"
    BY <2>8
  <2> QED BY <1>2, <1>3, <2>6, <2>7, <2>10, <2>11, RequestStep
<1> QED BY <1>4, <1>5, <1>6

\* The price is asked for and comes.
LEMMA PricesKeep ==
  ASSUME LimInv,
         \/ \E u \in Users : AsksForPrice(u)
         \/ SourceAnswers \/ FirstSourceFails \/ SecondSourceFails \/ CacheExpires
         \/ \E p \in Prices : PriceMoves(p)
  PROVE  LimInv'
<1>1. LimitsTypeOK
  BY DEF LimInv
<1>2. /\ market \in Prices /\ cached \in [price: Prices \cup {0}, fresh: BOOLEAN]
      /\ cached.price \in Prices \cup {0}
  BY <1>1 DEF LimitsTypeOK
<1>3. CASE \E u \in Users : AsksForPrice(u)
  <2>1. PICK u \in Users : AsksForPrice(u)
    BY <1>3
  <2> DEFINE x == user[u]
  <2>2. /\ user \in [Users -> UserRow] /\ x \in UserRow /\ RequestIsFair(x, saved)
    BY RequestTypes
  <2>3. upsets' \in 0..MaxUpsets
    BY <1>1, <2>1, Upsets DEF AsksForPrice
  <2>4. /\ UNCHANGED <<limit, saving, mixed, saved, market, cached>>
        /\ x.at = "price"
    BY <2>1 DEF AsksForPrice
  <2>5. CASE cached.price # 0 /\ cached.fresh
    <3> DEFINE r == [x EXCEPT !.at = "checks", !.price = cached.price]
    <3>1. r \in UserRow
      BY <1>2, <2>2 DEF UserRow
    <3>2. /\ r.at = "checks" /\ r.min = x.min /\ r.max = x.max
          /\ r.asked = x.asked /\ r.shownAt = x.shownAt
      BY <2>2 DEF UserRow
    <3>3. user' = [user EXCEPT ![u] = r] /\ fetch' = fetch
      BY <2>1, <2>5 DEF AsksForPrice
    <3> HIDE DEF r
    <3>4. RequestIsFair(r, saved)
      BY <2>2, <2>4, <3>2 DEF RequestIsFair
    <3> QED BY <2>3, <2>4, <3>1, <3>2, <3>3, <3>4, RequestStep
  <2>6. CASE ~(cached.price # 0 /\ cached.fresh)
    <3> DEFINE r == [x EXCEPT !.at = "wait"]
    <3>1. r \in UserRow
      BY <2>2 DEF UserRow
    <3>2. /\ r.at = "wait" /\ r.min = x.min /\ r.max = x.max
          /\ r.asked = x.asked /\ r.shownAt = x.shownAt
      BY <2>2 DEF UserRow
    <3>3. /\ user' = [user EXCEPT ![u] = r]
          /\ fetch' = IF fetch = "none" THEN "gecko" ELSE fetch
      BY <2>1, <2>6 DEF AsksForPrice
    <3> HIDE DEF r
    <3>4. RequestIsFair(r, saved)
      BY <2>2, <2>4, <3>2 DEF RequestIsFair
    <3>5. /\ fetch' = fetch \/ fetch' \in {"gecko", "binance"}
          /\ fetch' # "none"
      BY <3>3
    <3> QED BY <2>2, <2>3, <2>4, <3>1, <3>2, <3>3, <3>4, <3>5, RequestStep
  <2> QED BY <2>5, <2>6
<1>4. CASE SourceAnswers
  <2>1. /\ user' = Answered(market) /\ fetch' = "none"
        /\ cached' = [price |-> market, fresh |-> TRUE]
        /\ UNCHANGED <<limit, saving, mixed, saved, market, upsets>>
    BY <1>4 DEF SourceAnswers
  <2>2. /\ cached' \in [price: Prices \cup {0}, fresh: BOOLEAN]
        /\ market \in Prices \cup {0} /\ upsets' \in 0..MaxUpsets
    BY <1>1, <1>2, <2>1 DEF LimitsTypeOK
  <2> QED BY <2>1, <2>2, PriceStep
<1>5. CASE SecondSourceFails
  <2>1. /\ user' = Answered(cached.price) /\ fetch' = "none"
        /\ UNCHANGED <<limit, saving, mixed, saved, market, cached>>
    BY <1>5 DEF SecondSourceFails
  <2>2. /\ cached' \in [price: Prices \cup {0}, fresh: BOOLEAN]
        /\ upsets' \in 0..MaxUpsets
    BY <1>1, <1>2, <1>5, <2>1, Upsets DEF SecondSourceFails
  <2> QED BY <1>2, <2>1, <2>2, PriceStep
<1>6. CASE FirstSourceFails \/ CacheExpires \/ \E p \in Prices : PriceMoves(p)
  <2>1. UNCHANGED <<limit, saving, mixed, saved, user>>
    BY <1>6 DEF FirstSourceFails, CacheExpires, PriceMoves
  <2>2. upsets' \in 0..MaxUpsets
    BY <1>1, <1>6, Upsets DEF FirstSourceFails, CacheExpires, PriceMoves
  <2>3. market' \in Prices
    BY <1>2, <1>6 DEF FirstSourceFails, CacheExpires, PriceMoves
  <2>4. /\ cached' \in [price: Prices \cup {0}, fresh: BOOLEAN]
        /\ fetch' \in {"none", "gecko", "binance"}
        /\ fetch # "none" => fetch' # "none"
    BY <1>1, <1>2, <1>6 DEF LimitsTypeOK, FirstSourceFails, CacheExpires, PriceMoves
  <2>5. LimitsTypeOK'
    BY <1>1, <2>1, <2>2, <2>3, <2>4 DEF LimitsTypeOK
  <2> QED BY <2>1, <2>5 DEF LimInv, SavesAreWhole, LimitsInOrder, UnsavedIsDefault, Writing
<1> QED BY <1>3, <1>4, <1>5, <1>6

\* The minimum is shown, asked for, checked and paid.
LEMMA RequestsKeep ==
  ASSUME LimInv, NEW u \in Users,
         ShowsLimits(u) \/ Submits(u) \/ ChecksAmount(u) \/ PayerDecides(u)
  PROVE  LimInv'
<1> DEFINE x == user[u]
<1>1. /\ user \in [Users -> UserRow] /\ x \in UserRow /\ RequestIsFair(x, saved)
      /\ Default[1] \in Nat /\ market \in Prices /\ saved \in BOOLEAN
      /\ upsets \in 0..MaxUpsets
  BY RequestTypes
<1>2. UNCHANGED <<limit, saving, mixed, saved, market, cached, fetch, upsets>>
  BY DEF ShowsLimits, Submits, ChecksAmount, PayerDecides, priceVars
<1>3. /\ x.price \in Prices \cup {0} /\ x.shownAt \in Prices \cup {0}
      /\ x.asked \in Nat \cup {Unread}
  BY <1>1 DEF UserRow
<1>4. SpeedMinimum(x.price) \in Nat /\ SpeedMinimum(x.shownAt) \in Nat
  BY <1>3, SpeedMinimumType
<1>5. x.at = "checks" => /\ x.min \in Nat /\ x.max \in Nat
                         /\ EffectiveMin(u) \in Nat
                         /\ EffectiveMin(u) = Max({x.min, SpeedMinimum(x.price)})
                         /\ SpeedMinimum(x.price) <= EffectiveMin(u)
  BY <1>1, <1>4, MaxOfTwo DEF EffectiveMin, RequestIsFair
<1>6. CASE ShowsLimits(u)
  <2> DEFINE r == [x EXCEPT !.at = "shown", !.asked = EffectiveMin(u), !.shownAt = x.price,
                            !.min = Unread, !.max = Unread]
  <2>1. x.at = "checks"
    BY <1>6 DEF ShowsLimits
  <2>2. r \in UserRow
    BY <1>1, <1>3, <1>5, <2>1 DEF UserRow
  <2>3. /\ r.at = "shown" /\ r.min = Unread /\ r.asked = EffectiveMin(u)
        /\ r.shownAt = x.price
    BY <1>1 DEF UserRow
  <2>4. user' = [user EXCEPT ![u] = r]
    BY <1>6 DEF ShowsLimits
  <2> HIDE DEF r
  <2>5. ~saved => x.min = Default[1]
    BY <1>1, <1>5, <2>1 DEF RequestIsFair, Unread
  <2>6. ~saved => r.asked = DefaultMin(r.shownAt)
    BY <1>5, <2>1, <2>3, <2>5 DEF DefaultMin
  <2>7. RequestIsFair(r, saved)
    BY <2>3, <2>6 DEF RequestIsFair
  <2>8. r.at # "wait"
    BY <2>3
  <2> QED BY <1>1, <1>2, <2>2, <2>4, <2>7, <2>8, RequestStep
<1>7. CASE Submits(u)
  <2> DEFINE r == [x EXCEPT !.at = "read", !.price = 0]
  <2>1. r \in UserRow
    BY <1>1 DEF UserRow
  <2>2. /\ r.at = "read" /\ r.min = x.min /\ r.asked = x.asked /\ r.shownAt = x.shownAt
    BY <1>1 DEF UserRow
  <2>3. user' = [user EXCEPT ![u] = r]
    BY <1>7 DEF Submits
  <2> HIDE DEF r
  <2>4. RequestIsFair(r, saved)
    BY <1>1, <2>2 DEF RequestIsFair
  <2>5. r.at # "wait"
    BY <2>2
  <2> QED BY <1>1, <1>2, <2>1, <2>3, <2>4, <2>5, RequestStep
<1>8. CASE ChecksAmount(u)
  <2> DEFINE r == [x EXCEPT !.at = Verdict(u), !.min = Unread, !.max = Unread]
  <2>1. x.at = "checks" /\ x.asked \in Nat
    BY <1>3, <1>8 DEF ChecksAmount
  <2>2. r \in UserRow
    <3>1. Verdict(u) \in {"below", "above", "paying"}
      BY DEF Verdict
    <3>2. [x EXCEPT !.min = Unread, !.max = Unread] \in UserRow
      BY <1>1 DEF UserRow
    <3> QED BY <1>1, <3>1, <3>2 DEF UserRow
  <2>3. /\ r.at = Verdict(u) /\ r.min = Unread /\ r.asked = x.asked
        /\ r.price = x.price /\ r.shownAt = x.shownAt
    BY <1>1 DEF UserRow
  <2>4. user' = [user EXCEPT ![u] = r]
    BY <1>8 DEF ChecksAmount
  <2> HIDE DEF r
  <2>5. r.at \in {"below", "above", "paying"}
    BY <2>3 DEF Verdict
  <2>6. r.at = "paying" => x.asked >= EffectiveMin(u)
    BY <1>5, <2>1, <2>3 DEF Verdict
  <2>7. r.at = "paying" => r.asked \in Nat /\ SpeedMinimum(r.price) <= r.asked
    BY <1>4, <1>5, <2>1, <2>3, <2>6
  <2>8. ASSUME r.at = "below", ~saved, x.shownAt # 0 PROVE x.price < x.shownAt
    <3>1. x.asked < EffectiveMin(u)
      BY <2>3, <2>8 DEF Verdict
    <3>2. x.min = Default[1]
      BY <1>1, <1>5, <2>1, <2>8 DEF RequestIsFair, Unread
    <3>3. x.asked = DefaultMin(x.shownAt)
      BY <1>1, <2>1, <2>8 DEF RequestIsFair, Unread
    <3>4. SpeedMinimum(x.shownAt) < SpeedMinimum(x.price)
      BY <1>1, <1>4, <1>5, <2>1, <3>1, <3>2, <3>3, MaxOfTwo DEF DefaultMin
    <3>5. CASE x.price = 0
      <4>1. x.shownAt \in Prices
        BY <1>3, <2>8
      <4> QED BY <3>5, <4>1, PositivePrices
    <3>6. CASE x.price # 0
      <4>1. x.price \in Prices /\ x.shownAt \in Prices
        BY <1>3, <2>8, <3>6
      <4>2. ~(x.shownAt <= x.price)
        BY <1>4, <3>4, <4>1, SpeedMinimumFalls
      <4> QED BY <4>1, <4>2, PositivePrices
    <3> QED BY <3>5, <3>6
  <2>9. r.at = "below" => saved \/ r.shownAt = 0 \/ r.price < r.shownAt
    BY <2>3, <2>8
  <2>10. ~saved => r.asked \in {Unread, DefaultMin(r.shownAt)}
    BY <1>1, <2>3 DEF RequestIsFair
  <2>11. RequestIsFair(r, saved)
    BY <2>3, <2>5, <2>7, <2>9, <2>10 DEF RequestIsFair
  <2>12. r.at # "wait"
    BY <2>5
  <2> QED BY <1>1, <1>2, <2>2, <2>4, <2>11, <2>12, RequestStep
<1>9. CASE PayerDecides(u)
  <2>1. /\ x.at = "paying" /\ x.asked \in Nat
        /\ SpeedMinimum(x.price) <= x.asked
    BY <1>1, <1>9 DEF PayerDecides, RequestIsFair
  <2>2. CASE x.asked * market >= MinWorth
    <3> DEFINE r == [NoUser EXCEPT !.at = "paid"]
    <3>1. r \in UserRow /\ r.at = "paid" /\ r.min = Unread /\ r.asked = Unread
      BY DEF NoUser, UserRow
    <3>2. user' = [user EXCEPT ![u] = r]
      BY <1>9, <2>2 DEF PayerDecides
    <3> HIDE DEF r
    <3>3. RequestIsFair(r, saved)
      BY <3>1 DEF RequestIsFair
    <3>4. r.at # "wait"
      BY <3>1
    <3> QED BY <1>1, <1>2, <3>1, <3>2, <3>3, <3>4, RequestStep
  <2>3. CASE ~(x.asked * market >= MinWorth)
    <3> DEFINE r == [x EXCEPT !.at = "refused", !.paidAt = market]
    <3>1. r \in UserRow
      BY <1>1 DEF UserRow
    <3>2. /\ r.at = "refused" /\ r.paidAt = market /\ r.price = x.price
          /\ r.min = x.min /\ r.asked = x.asked /\ r.shownAt = x.shownAt
      BY <1>1 DEF UserRow
    <3>3. user' = [user EXCEPT ![u] = r]
      BY <1>9, <2>3 DEF PayerDecides
    <3> HIDE DEF r
    <3>4. x.price # 0 => market * 11 < x.price * 10
      BY <1>1, <1>3, <2>1, <2>3, RefusedFell
    <3>5. RequestIsFair(r, saved)
      BY <1>1, <3>2, <3>4 DEF RequestIsFair
    <3>6. r.at # "wait"
      BY <3>2
    <3> QED BY <1>1, <1>2, <3>1, <3>3, <3>5, <3>6, RequestStep
  <2> QED BY <2>2, <2>3
<1> QED BY <1>6, <1>7, <1>8, <1>9

LEMMA LimitsKeep == LimInv /\ [LimNext]_limVars => LimInv'
<1> SUFFICES ASSUME LimInv, [LimNext]_limVars PROVE LimInv'
  OBVIOUS
<1>1. CASE UNCHANGED limVars
  BY <1>1 DEF LimInv, LimitsTypeOK, SavesAreWhole, LimitsInOrder, UnsavedIsDefault, Writing,
              limVars, priceVars
<1>2. CASE LimNext
  BY <1>2, SavesKeep, FindsKeep, PricesKeep, RequestsKeep DEF LimNext
<1> QED BY <1>1, <1>2

\* The invariant of the limits, for any admins, users, pairs and prices.
THEOREM LimitsInvariant == LimSpec => []LimInv
BY LimitsStart, LimitsKeep, PTL DEF LimSpec

\* What is saved, shown, checked and paid goes together.
THEOREM LimitsAreFair == LimSpec => [](LimitsTypeOK /\ LimitsGoTogether)
<1>1. LimInv => LimitsTypeOK /\ LimitsGoTogether
  BY DEF LimInv, LimitsGoTogether, AcceptedIsPayable, ShownIsEnough, RequestIsFair
<1> QED BY <1>1, LimitsInvariant, PTL

-----------------------------------------------------------------------------
(* The daily rewards.  A claim is checked, then saved: the invariant says    *)
(* what the check found, as long as no other claim of the reward is at work. *)

ClaimRow == [at: {"none", "found", "saves"}, id: {{i} : i \in RewardIds} \cup {{}}, day: Days]

\* AlreadyClaimed, as the claims c have it.
ClaimedIn(c, i, day) == \E d \in Days : c[i][d] > 0 /\ (i \in OfDay \/ d >= day)

\* One claim of a reward is at work at a time, but for those in atOnce; what it
\* found unclaimed still is.
ClaimsWait ==
    \A i \in RewardIds \ atOnce, r \in Requests : claiming[r].id = {i} =>
        /\ \A q \in Requests : claiming[q].id = {i} => q = r
        /\ claiming[r].at = "saves" => ~ClaimedIn(claims, i, claiming[r].day)

\* ClaimedOnce without cardinalities.
OneClaim(i) ==
    /\ i \in OfDay => \A d, e \in Days : claims[i][d] > 0 /\ claims[i][e] > 0 => d = e
    /\ \A d \in Days : claims[i][d] <= 1

DailyInv ==
    /\ DailyTypeOK /\ ClaimsWait /\ RefusedIsShown
    /\ \A i \in RewardIds \ atOnce : OneClaim(i)
    /\ \A r \in Requests : claiming[r].day <= now

LEMMA DailyTypes ==
  ASSUME DailyTypeOK
  PROVE  /\ claims \in [RewardIds -> [Days -> Nat]] /\ now \in Days /\ now \in Nat
         /\ claiming \in [Requests -> ClaimRow]
         /\ LastDay \in Nat /\ asks \in 0..MaxClaims
BY DailyAssumption DEF DailyTypeOK, ClaimRow, Days

LEMMA DailyStart == DailyInit => DailyInv
<1> SUFFICES ASSUME DailyInit PROVE DailyInv
  OBVIOUS
<1>1. now = 0 /\ now \in Days /\ LastDay \in Nat /\ MaxClaims \in Nat
  BY DailyAssumption DEF DailyInit, Days
<1>2. claiming \in [Requests -> ClaimRow]
  <2>1. NoClaim \in ClaimRow
    BY <1>1 DEF NoClaim, ClaimRow
  <2> QED BY <2>1 DEF DailyInit
<1>3. claims \in [RewardIds -> [Days -> Nat]]
  BY DEF DailyInit
<1>4. DailyTypeOK
  BY <1>1, <1>2, <1>3 DEF DailyInit, DailyTypeOK, ClaimRow
<1>5. \A r \in Requests : claiming[r].id = {} /\ claiming[r].day = 0
  BY DEF DailyInit, NoClaim
<1>7. \A i \in RewardIds : {i} # {}
  OBVIOUS
<1>8. ClaimsWait /\ \A r \in Requests : claiming[r].day <= now
  BY <1>1, <1>5, <1>7 DEF ClaimsWait
<1>6. RefusedIsShown /\ \A i \in RewardIds \ atOnce : OneClaim(i)
  BY DEF DailyInit, RefusedIsShown, OneClaim
<1> QED BY <1>4, <1>6, <1>8 DEF DailyInv

\* Steps that claim nothing.
LEMMA DefinitionsKeep ==
  ASSUME DailyInv,
         \/ \E i \in RewardIds : Create(i) \/ Delete(i)
         \/ \E r \in Requests : ClaimFails(r)
         \/ NewDay
  PROVE  DailyInv'
<1>1. DailyTypeOK
  BY DEF DailyInv
<1>2. /\ claims \in [RewardIds -> [Days -> Nat]] /\ now \in Days /\ now \in Nat
      /\ claiming \in [Requests -> ClaimRow] /\ LastDay \in Nat
  BY <1>1, DailyTypes
<1>3. UNCHANGED <<claims, atOnce, refused, asks>>
  BY DEF Create, Delete, ClaimFails, NewDay
<1>4. (RefusedIsShown /\ \A i \in RewardIds \ atOnce : OneClaim(i))'
  BY <1>3 DEF DailyInv, RefusedIsShown, ShownClaimed, OneClaim
<1>5. CASE \E i \in RewardIds : Create(i)
  <2>1. PICK i \in RewardIds : Create(i)
    BY <1>5
  <2>2. /\ defined' = defined \cup {i} /\ UNCHANGED <<claiming, now>>
        /\ i \in OfDay => \A j \in defined \cap OfDay : DayOf[j] # DayOf[i]
    BY <2>1 DEF Create
  <2>3. DailyTypeOK'
    BY <1>1, <1>3, <2>2 DEF DailyTypeOK
  <2>4. (ClaimsWait /\ \A r \in Requests : claiming[r].day <= now)'
    BY <1>3, <2>2 DEF DailyInv, ClaimsWait, ClaimedIn
  <2> QED BY <1>4, <2>3, <2>4 DEF DailyInv
<1>6. CASE \E i \in RewardIds : Delete(i)
  <2>1. defined' \subseteq defined /\ UNCHANGED <<claiming, now>>
    BY <1>6 DEF Delete
  <2>2. DailyTypeOK'
    BY <1>1, <1>3, <2>1 DEF DailyTypeOK
  <2>3. (ClaimsWait /\ \A r \in Requests : claiming[r].day <= now)'
    BY <1>3, <2>1 DEF DailyInv, ClaimsWait, ClaimedIn
  <2> QED BY <1>4, <2>2, <2>3 DEF DailyInv
<1>7. CASE \E r \in Requests : ClaimFails(r)
  <2>1. PICK r \in Requests : ClaimFails(r)
    BY <1>7
  <2>2. claiming' = [claiming EXCEPT ![r] = NoClaim] /\ UNCHANGED <<defined, now>>
    BY <2>1 DEF ClaimFails
  <2>3. NoClaim \in ClaimRow /\ NoClaim.id = {} /\ NoClaim.day = 0
    BY <1>2 DEF NoClaim, ClaimRow, Days
  <2>4. /\ claiming' \in [Requests -> ClaimRow] /\ claiming'[r].id = {} /\ claiming'[r].day = 0
        /\ \A q \in Requests \ {r} : claiming'[q] = claiming[q]
    BY <1>2, <2>2, <2>3
  <2>5. DailyTypeOK'
    BY <1>1, <1>3, <2>2, <2>4 DEF DailyTypeOK, ClaimRow
  <2>6. ClaimsWait'
    BY <1>3, <2>4 DEF DailyInv, ClaimsWait, ClaimedIn
  <2>7. \A q \in Requests : claiming'[q].day <= now'
    BY <1>2, <2>2, <2>4 DEF DailyInv
  <2> QED BY <1>4, <2>5, <2>6, <2>7 DEF DailyInv
<1>8. CASE NewDay
  <2>1. now < LastDay /\ now' = now + 1 /\ UNCHANGED <<defined, claiming>>
    BY <1>8 DEF NewDay
  <2>2. DailyTypeOK'
    BY <1>1, <1>2, <1>3, <2>1 DEF DailyTypeOK, Days
  <2>3. ClaimsWait'
    BY <1>3, <2>1 DEF DailyInv, ClaimsWait, ClaimedIn
  <2>4. \A q \in Requests : claiming'[q].day <= now'
    <3> TAKE q \in Requests
    <3>1. claiming[q].day \in Nat /\ claiming[q].day <= now
      BY <1>2 DEF ClaimRow, Days, DailyInv
    <3> QED BY <1>2, <2>1, <3>1
  <2> QED BY <1>4, <2>2, <2>3, <2>4 DEF DailyInv
<1> QED BY <1>5, <1>6, <1>7, <1>8

\* A claim is found, checked and saved.
LEMMA ClaimsKeep ==
  ASSUME DailyInv, NEW r \in Requests, NEW i \in RewardIds,
         Find(r, i) \/ Check(r, i) \/ SaveClaim(r, i)
  PROVE  DailyInv'
<1>1. DailyTypeOK
  BY DEF DailyInv
<1>2. /\ claims \in [RewardIds -> [Days -> Nat]] /\ now \in Days /\ now \in Nat
      /\ claiming \in [Requests -> ClaimRow] /\ LastDay \in Nat /\ asks \in 0..MaxClaims
      /\ claiming[r] \in ClaimRow
  BY <1>1, DailyTypes
<1>3. MaxClaims \in Nat
  BY DailyAssumption
<1>4. \A j \in RewardIds : {j} = {i} => j = i
  OBVIOUS
<1>5. NoClaim \in ClaimRow /\ NoClaim.id = {} /\ NoClaim.day = 0
  BY <1>2 DEF NoClaim, ClaimRow, Days
<1>6. CASE Find(r, i)
  <2> DEFINE x == [at |-> "found", id |-> {i}, day |-> now]
  <2>1. /\ claiming' = [claiming EXCEPT ![r] = x] /\ asks < MaxClaims /\ asks' = asks + 1
        /\ atOnce' = IF \E q \in Requests : claiming[q].id = {i} THEN atOnce \cup {i} ELSE atOnce
        /\ UNCHANGED <<defined, claims, now, refused>>
    BY <1>6 DEF Find
  <2>2. x \in ClaimRow /\ x.id = {i} /\ x.at = "found" /\ x.day = now
    BY <1>2 DEF ClaimRow
  <2> HIDE DEF x
  <2>3. /\ claiming' \in [Requests -> ClaimRow] /\ claiming'[r] = x
        /\ \A q \in Requests \ {r} : claiming'[q] = claiming[q]
    BY <1>2, <2>1, <2>2
  <2>4. asks' \in 0..MaxClaims /\ atOnce \subseteq atOnce' /\ atOnce' \subseteq RewardIds
    BY <1>1, <1>2, <1>3, <2>1 DEF DailyTypeOK
  <2>5. DailyTypeOK'
    BY <1>1, <2>1, <2>3, <2>4 DEF DailyTypeOK, ClaimRow
  <2>6. ClaimsWait'
    <3> SUFFICES ASSUME NEW j \in RewardIds \ atOnce', NEW q \in Requests,
                        claiming'[q].id = {j}
                 PROVE  /\ \A p \in Requests : claiming'[p].id = {j} => p = q
                        /\ claiming'[q].at = "saves" => ~ClaimedIn(claims', j, claiming'[q].day)
      BY DEF ClaimsWait
    <3>1. CASE j = i
      <4>1. \A p \in Requests : claiming[p].id # {i}
        BY <2>1, <3>1
      <4> QED BY <2>2, <2>3, <3>1, <4>1
    <3>2. CASE j # i
      <4>1. \A p \in Requests : claiming'[p].id = {j} => p # r /\ claiming'[p] = claiming[p]
        BY <1>4, <2>2, <2>3, <3>2
      <4> QED BY <2>1, <2>4, <4>1 DEF DailyInv, ClaimsWait, ClaimedIn
    <3> QED BY <3>1, <3>2
  <2>7. (RefusedIsShown /\ \A j \in RewardIds \ atOnce : OneClaim(j))'
    BY <2>1, <2>4 DEF DailyInv, RefusedIsShown, ShownClaimed, OneClaim
  <2>8. \A q \in Requests : claiming'[q].day <= now'
    BY <1>2, <2>1, <2>2, <2>3 DEF DailyInv
  <2> QED BY <2>5, <2>6, <2>7, <2>8 DEF DailyInv
<1>7. CASE Check(r, i)
  <2>1. claiming[r].id = {i} /\ UNCHANGED <<defined, claims, now, atOnce, asks>>
    BY <1>7 DEF Check
  <2>2. CASE AlreadyClaimed(i, claiming[r].day)
    <3>1. claiming' = [claiming EXCEPT ![r] = NoClaim] /\ refused' = refused \cup {i}
      BY <1>7, <2>2 DEF Check
    <3>2. /\ claiming' \in [Requests -> ClaimRow] /\ claiming'[r].id = {}
          /\ claiming'[r].day = 0
          /\ \A q \in Requests \ {r} : claiming'[q] = claiming[q]
      BY <1>2, <1>5, <3>1
    <3>3. DailyTypeOK'
      BY <1>1, <2>1, <3>1, <3>2 DEF DailyTypeOK, ClaimRow
    <3>4. ClaimsWait'
      BY <2>1, <3>2 DEF DailyInv, ClaimsWait, ClaimedIn
    <3>5. (RefusedIsShown /\ \A j \in RewardIds \ atOnce : OneClaim(j))'
      BY <2>1, <2>2, <3>1 DEF DailyInv, RefusedIsShown, ShownClaimed, OneClaim, AlreadyClaimed
    <3>6. \A q \in Requests : claiming'[q].day <= now'
      BY <1>2, <2>1, <3>2 DEF DailyInv
    <3> QED BY <3>3, <3>4, <3>5, <3>6 DEF DailyInv
  <2>3. CASE ~AlreadyClaimed(i, claiming[r].day)
    <3> DEFINE x == [claiming[r] EXCEPT !.at = "saves"]
    <3>1. claiming' = [claiming EXCEPT ![r] = x] /\ refused' = refused
      BY <1>7, <2>3 DEF Check
    <3>2. x \in ClaimRow /\ x.id = {i} /\ x.day = claiming[r].day
      BY <1>2, <2>1 DEF ClaimRow
    <3> HIDE DEF x
    <3>3. /\ claiming' \in [Requests -> ClaimRow] /\ claiming'[r] = x
          /\ \A q \in Requests \ {r} : claiming'[q] = claiming[q]
      BY <1>2, <3>1, <3>2
    <3>4. DailyTypeOK'
      BY <1>1, <2>1, <3>1, <3>3 DEF DailyTypeOK, ClaimRow
    <3>5. \A q \in Requests : /\ claiming'[q].id = claiming[q].id
                              /\ claiming'[q].day = claiming[q].day
      BY <2>1, <3>2, <3>3
    <3>6. ClaimsWait'
      <4> SUFFICES ASSUME NEW j \in RewardIds \ atOnce, NEW q \in Requests,
                          claiming'[q].id = {j}
                   PROVE  /\ \A p \in Requests : claiming'[p].id = {j} => p = q
                          /\ claiming'[q].at = "saves" => ~ClaimedIn(claims', j, claiming'[q].day)
        BY <2>1 DEF ClaimsWait
      <4>1. \A p \in Requests : claiming'[p].id = {j} => p = q
        BY <3>5 DEF DailyInv, ClaimsWait
      <4>2. CASE q = r
        <5>1. j = i
          BY <2>1, <3>5, <4>2
        <5> QED BY <2>1, <2>3, <3>5, <4>1, <4>2, <5>1 DEF AlreadyClaimed, ClaimedIn
      <4>3. CASE q # r
        BY <2>1, <3>3, <4>1, <4>3 DEF DailyInv, ClaimsWait, ClaimedIn
      <4> QED BY <4>2, <4>3
    <3>7. (RefusedIsShown /\ \A j \in RewardIds \ atOnce : OneClaim(j))'
      BY <2>1, <3>1 DEF DailyInv, RefusedIsShown, ShownClaimed, OneClaim
    <3>8. \A q \in Requests : claiming'[q].day <= now'
      BY <2>1, <3>5 DEF DailyInv
    <3> QED BY <3>4, <3>6, <3>7, <3>8 DEF DailyInv
  <2> QED BY <2>2, <2>3
<1>8. CASE SaveClaim(r, i)
  <2> DEFINE n == claims[i][now] + 1
             counts == [claims[i] EXCEPT ![now] = n]
  <2>1. /\ claiming[r].at = "saves" /\ claiming[r].id = {i}
        /\ claiming' = [claiming EXCEPT ![r] = NoClaim]
        /\ refused' = refused \ {i} /\ UNCHANGED <<defined, now, atOnce, asks>>
    BY <1>8 DEF SaveClaim
  <2>2. claims' = [claims EXCEPT ![i] = counts]
    BY <1>2, <1>8 DEF SaveClaim
  <2>3. claims[i] \in [Days -> Nat] /\ claims[i][now] \in Nat /\ n \in Nat
    BY <1>2
  <2>4. /\ counts \in [Days -> Nat] /\ counts[now] = n
        /\ \A d \in Days \ {now} : counts[d] = claims[i][d]
    BY <1>2, <2>3
  <2> HIDE DEF counts
  <2>5. /\ claims' \in [RewardIds -> [Days -> Nat]] /\ claims'[i] = counts
        /\ \A j \in RewardIds \ {i} : claims'[j] = claims[j]
    BY <1>2, <2>2, <2>4
  <2>6. /\ claiming' \in [Requests -> ClaimRow] /\ claiming'[r].id = {}
        /\ claiming'[r].day = 0
        /\ \A q \in Requests \ {r} : claiming'[q] = claiming[q]
    BY <1>2, <1>5, <2>1
  <2>7. DailyTypeOK'
    BY <1>1, <2>1, <2>5, <2>6 DEF DailyTypeOK, ClaimRow
  <2>8. ClaimsWait'
    <3> SUFFICES ASSUME NEW j \in RewardIds \ atOnce, NEW q \in Requests,
                        claiming'[q].id = {j}
                 PROVE  /\ \A p \in Requests : claiming'[p].id = {j} => p = q
                        /\ claiming'[q].at = "saves" => ~ClaimedIn(claims', j, claiming'[q].day)
      BY <2>1 DEF ClaimsWait
    <3>1. q # r /\ claiming'[q] = claiming[q]
      BY <2>6
    <3>2. j # i
      BY <2>1, <2>6, <3>1 DEF DailyInv, ClaimsWait
    <3> QED BY <2>5, <2>6, <3>1, <3>2 DEF DailyInv, ClaimsWait, ClaimedIn
  <2>9. RefusedIsShown'
    <3> SUFFICES ASSUME NEW j \in refused \ {i} PROVE ShownClaimed(j)'
      BY <2>1 DEF RefusedIsShown
    <3>1. j \in RewardIds \ {i} /\ ShownClaimed(j)
      BY <1>1 DEF DailyInv, RefusedIsShown, DailyTypeOK
    <3> QED BY <2>5, <3>1 DEF ShownClaimed
  <2>10. ASSUME NEW j \in RewardIds \ atOnce PROVE OneClaim(j)'
    <3>1. OneClaim(j)
      BY DEF DailyInv
    <3>2. CASE j # i
      BY <2>5, <3>1, <3>2 DEF OneClaim
    <3>3. CASE j = i
      <4>1. ~ClaimedIn(claims, i, claiming[r].day) /\ claiming[r].day <= now
        BY <2>1, <3>3 DEF DailyInv, ClaimsWait
      <4>2. claims[i][now] = 0
        BY <1>2, <2>3, <4>1 DEF ClaimedIn
      <4>3. n = 1
        BY <4>2
      <4>4. i \in OfDay => \A d \in Days : claims[i][d] = 0
        BY <2>3, <4>1 DEF ClaimedIn
      <4> HIDE DEF n
      <4>5. \A d \in Days : claims'[i][d] <= 1
        BY <2>4, <2>5, <3>1, <3>3, <4>3 DEF OneClaim
      <4>6. i \in OfDay => \A d \in Days : claims'[i][d] > 0 => d = now
        BY <2>4, <2>5, <4>4
      <4> QED BY <3>3, <4>5, <4>6 DEF OneClaim
    <3> QED BY <3>2, <3>3
  <2>11. \A q \in Requests : claiming'[q].day <= now'
    BY <1>2, <2>1, <2>6 DEF DailyInv
  <2>12. (\A j \in RewardIds \ atOnce : OneClaim(j))'
    BY <2>1, <2>10
  <2> QED BY <2>7, <2>8, <2>9, <2>11, <2>12 DEF DailyInv
<1> QED BY <1>6, <1>7, <1>8

LEMMA DailyKeep == DailyInv /\ [DailyNext]_dailyVars => DailyInv'
<1> SUFFICES ASSUME DailyInv, [DailyNext]_dailyVars PROVE DailyInv'
  OBVIOUS
<1>1. CASE UNCHANGED dailyVars
  <2>1. DailyTypeOK'
    BY <1>1 DEF DailyInv, DailyTypeOK, dailyVars
  <2> QED BY <1>1, <2>1 DEF DailyInv, ClaimsWait, RefusedIsShown, OneClaim, ClaimedIn,
                            ShownClaimed, dailyVars
<1>2. CASE DailyNext
  BY <1>2, DefinitionsKeep, ClaimsKeep DEF DailyNext
<1> QED BY <1>1, <1>2

\* A reward is claimed once, unless two claims of it were at work at once, and who
\* was told so is shown it: for any rewards and any number of requests.
THEOREM ClaimsAreOnce == DailySpec => [](DailyTypeOK /\ ClaimsAgree)
<1>1. DailyInv => DailyTypeOK /\ ClaimsAgree
  <2> SUFFICES ASSUME DailyInv PROVE DailyTypeOK /\ ClaimsAgree
    OBVIOUS
  <2>1. ASSUME NEW i \in RewardIds \ atOnce, i \in OfDay
        PROVE  Cardinality({d \in Days : claims[i][d] > 0}) <= 1
    <3> DEFINE S == {d \in Days : claims[i][d] > 0}
    <3>1. \A d, e \in S : d = e
      BY <2>1 DEF DailyInv, OneClaim
    <3>2. CASE S = {}
      BY <3>2, FS_EmptySet
    <3>3. CASE S # {}
      <4>1. PICK d \in S : TRUE
        BY <3>3
      <4>2. S = {d}
        BY <3>1, <4>1
      <4>3. Cardinality({d}) = 1
        BY FS_Singleton
      <4> QED BY <4>2, <4>3
    <3> QED BY <3>2, <3>3
  <2>2. ClaimedOnce
    BY <2>1 DEF DailyInv, OneClaim, ClaimedOnce
  <2> QED BY <2>2 DEF DailyInv, ClaimsAgree
<1> QED BY <1>1, DailyStart, DailyKeep, PTL DEF DailySpec

-----------------------------------------------------------------------------
(* Support mail.  A reply goes through the providers in order, so where it   *)
(* is says which of them have failed.                                        *)

ReplyRow == [at: {"idle", "reads", "done", "lost"} \cup configured, quotes: BOOLEAN,
             told: [sent: BOOLEAN, by: configured \cup {"nobody"}, fellBack: BOOLEAN]]

\* What a reply x has tried, f being the providers that failed.
TriesInOrder(x, f) ==
    /\ x.at \in {"idle", "reads", "Gmail"} => f = {}
    /\ x.at # "idle" => configured # {}
    /\ x.at = "Brevo" => f = configured \ {"Brevo"}
    /\ x.at = "done" /\ ~x.told.sent => f = configured
    /\ x.told.sent => x.at = "done"
    /\ x.told.fellBack => "Gmail" \in f

MailsIn(b) == {mail \in b : mail.of \in Replies}

ToldIn(x) == {r \in Replies : x[r].told.sent}

\* ExtraMailsAreFaults, with what makes it a count.
MailsAreCounted ==
    /\ IsFiniteSet(MailsIn(box)) /\ IsFiniteSet(ToldIn(reply))
    /\ Cardinality(MailsIn(box)) <= Cardinality(ToldIn(reply)) + mailFaults

ToldMailIsThere ==
    \A r \in Replies : reply[r].told.sent =>
        \E mail \in box : mail.of = r /\ mail.by = reply[r].told.by

MailInv ==
    /\ MailTypeOK /\ MailsAreCounted /\ ToldMailIsThere
    /\ ack = "sending" => "Gmail" \in configured
    /\ \A r \in Replies : TriesInOrder(reply[r], failed[r])

LEMMA MailTypes ==
  ASSUME MailTypeOK
  PROVE  /\ reply \in [Replies -> ReplyRow] /\ failed \in [Replies -> SUBSET configured]
         /\ configured \subseteq {"Gmail", "Brevo"} /\ mailFaults \in Nat
         /\ box \subseteq [of: Replies \cup {"ack"}, by: configured, quotes: BOOLEAN]
BY DEF MailTypeOK, ReplyRow, Providers

LEMMA MailStart == MailInit => MailInv
<1> SUFFICES ASSUME MailInit PROVE MailInv
  OBVIOUS
<1>1. Unsent \in ReplyRow
  BY DEF Unsent, Untold, ReplyRow
<1>2. reply \in [Replies -> ReplyRow] /\ failed \in [Replies -> SUBSET configured]
  BY <1>1 DEF MailInit
<1>3. MailTypeOK
  BY <1>2, MailAssumption DEF MailInit, MailTypeOK, ReplyRow
<1>4. \A r \in Replies : TriesInOrder(reply[r], failed[r]) /\ ~reply[r].told.sent
  BY DEF MailInit, Unsent, Untold, TriesInOrder
<1>5. MailsIn(box) = {} /\ ToldIn(reply) = {} /\ mailFaults = 0
  BY <1>4 DEF MailInit, MailsIn, ToldIn
<1>6. MailsAreCounted
  BY <1>5, FS_EmptySet DEF MailsAreCounted
<1>7. ack = "none"
  BY DEF MailInit
<1> QED BY <1>3, <1>4, <1>6, <1>7 DEF MailInv, ToldMailIsThere

\* What a step of one reply has to keep, when it mails nothing or one mail.
LEMMA ReplyStep ==
  ASSUME MailInv, NEW r \in Replies, NEW x \in ReplyRow, NEW f \in SUBSET configured,
         reply' = [reply EXCEPT ![r] = x], failed' = [failed EXCEPT ![r] = f],
         TriesInOrder(x, f), UNCHANGED <<configured, ticket, ack>>,
         NEW mail \in [of: {r}, by: configured, quotes: BOOLEAN],
         box' = box \/ box' = box \cup {mail},
         ~reply[r].told.sent,
         x.told.sent => box' = box \cup {mail} /\ mail.by = x.told.by,
         mailFaults' \in 0..MaxMailFaults,
         mailFaults' = mailFaults \/ mailFaults' = mailFaults + 1,
         box' # box /\ mailFaults' = mailFaults => x.told.sent
  PROVE  MailInv'
<1>1. MailTypeOK
  BY DEF MailInv
<1>2. /\ reply \in [Replies -> ReplyRow] /\ failed \in [Replies -> SUBSET configured]
      /\ mailFaults \in Nat
      /\ box \subseteq [of: Replies \cup {"ack"}, by: configured, quotes: BOOLEAN]
  BY <1>1, MailTypes
<1>3. /\ reply' \in [Replies -> ReplyRow] /\ reply'[r] = x
      /\ failed' \in [Replies -> SUBSET configured] /\ failed'[r] = f
      /\ \A q \in Replies \ {r} : reply'[q] = reply[q] /\ failed'[q] = failed[q]
  BY <1>2
<1>4. mail \in [of: Replies \cup {"ack"}, by: configured, quotes: BOOLEAN] /\ mail.of = r
  OBVIOUS
<1>5. MailTypeOK'
  BY <1>1, <1>2, <1>3, <1>4 DEF MailTypeOK, ReplyRow
<1>6. (\A q \in Replies : TriesInOrder(reply[q], failed[q]))'
  BY <1>3 DEF MailInv, TriesInOrder
<1>7. ToldMailIsThere'
  BY <1>3, <1>4 DEF MailInv, ToldMailIsThere
<1>8. MailsAreCounted'
  <2> DEFINE m == MailsIn(box)
             n == MailsIn(box')
             s == ToldIn(reply)
             t == ToldIn(reply')
  <2>1. IsFiniteSet(m) /\ IsFiniteSet(s) /\ Cardinality(m) <= Cardinality(s) + mailFaults
    BY DEF MailInv, MailsAreCounted
  <2>2. n = m \/ n = m \cup {mail}
    BY <1>4 DEF MailsIn
  <2>3. t = IF x.told.sent THEN s \cup {r} ELSE s
    BY <1>3 DEF ToldIn
  <2>4. r \notin s
    BY DEF ToldIn
  <2>5. box' = box => n = m
    OBVIOUS
  <2> DEFINE k == m \cup {mail}
  <2> HIDE DEF m, n, s, t
  <2>6. /\ Cardinality(m) \in Nat /\ IsFiniteSet(k) /\ Cardinality(k) \in Nat
        /\ Cardinality(k) <= Cardinality(m) + 1 /\ (n = m \/ n = k)
    <3>1. Cardinality(m) \in Nat
      BY <2>1, FS_CardinalityType
    <3>2. CASE mail \in m
      <4>1. k = m
        BY <3>2
      <4>2. n = m \/ n = k
        BY <2>2
      <4> HIDE DEF k
      <4> QED BY <2>1, <3>1, <4>1, <4>2
    <3>3. CASE mail \notin m
      <4>1. IsFiniteSet(k) /\ Cardinality(k) = Cardinality(m) + 1
        BY <2>1, <3>3, FS_AddElement
      <4>2. n = m \/ n = k
        BY <2>2
      <4> HIDE DEF k
      <4> QED BY <3>1, <4>1, <4>2
    <3> QED BY <3>2, <3>3
  <2> HIDE DEF k
  <2>7. /\ Cardinality(s) \in Nat /\ IsFiniteSet(s \cup {r})
        /\ Cardinality(s \cup {r}) = Cardinality(s) + 1
    BY <2>1, <2>4, FS_AddElement, FS_CardinalityType
  <2>8. IsFiniteSet(n) /\ IsFiniteSet(t)
    BY <2>1, <2>3, <2>6, <2>7
  <2>9. Cardinality(n) <= Cardinality(t) + mailFaults'
    <3>1. CASE x.told.sent
      <4>1. Cardinality(t) = Cardinality(s) + 1 /\ mailFaults' >= mailFaults
        BY <1>2, <2>3, <2>7, <3>1
      <4>2. Cardinality(n) <= Cardinality(m) + 1 /\ Cardinality(n) \in Nat
        BY <2>6
      <4>3. mailFaults' \in Nat
        BY <1>2
      <4> QED BY <1>2, <2>1, <2>6, <2>7, <4>1, <4>2, <4>3
    <3>2. CASE ~x.told.sent /\ mailFaults' = mailFaults
      BY <2>1, <2>3, <2>5, <3>2
    <3>3. CASE ~x.told.sent /\ mailFaults' = mailFaults + 1
      <4>1. Cardinality(n) <= Cardinality(m) + 1 /\ Cardinality(n) \in Nat
        BY <2>6
      <4>2. t = s
        BY <2>3, <3>3
      <4> QED BY <1>2, <2>1, <2>6, <2>7, <3>3, <4>1, <4>2
    <3> QED BY <3>1, <3>2, <3>3
  <2> QED BY <2>8, <2>9 DEF MailsAreCounted, n, t
<1> QED BY <1>5, <1>6, <1>7, <1>8 DEF MailInv

\* Steps of the ticket, its acknowledgement, and restarts.
LEMMA OtherMailKeeps ==
  ASSUME MailInv,
         CreateTicket \/ AckDelivered \/ AckFails \/ DeleteTicket \/ MailRestart
  PROVE  MailInv'
<1>1. MailTypeOK /\ MaxMailFaults \in Nat /\ "ack" \notin Replies
  BY MailAssumption DEF MailInv
<1>2. /\ reply \in [Replies -> ReplyRow] /\ failed \in [Replies -> SUBSET configured]
      /\ configured \subseteq {"Gmail", "Brevo"} /\ mailFaults \in Nat
      /\ box \subseteq [of: Replies \cup {"ack"}, by: configured, quotes: BOOLEAN]
  BY <1>1, MailTypes
<1>3. UNCHANGED <<configured, failed>>
  BY DEF CreateTicket, AckDelivered, AckFails, DeleteTicket, MailRestart
<1>4. CASE CreateTicket \/ DeleteTicket
  <2>1. /\ UNCHANGED <<reply, box, mailFaults>> /\ ticket' \in {"open", "deleted"}
        /\ ack' \in {"none", "sending", "sent"}
    BY <1>1, <1>4 DEF CreateTicket, DeleteTicket, MailTypeOK
  <2>2. MailTypeOK'
    BY <1>1, <1>3, <2>1 DEF MailTypeOK
  <2>3. ack' = "sending" => "Gmail" \in configured
    BY <1>4 DEF MailInv, CreateTicket, DeleteTicket
  <2> QED BY <1>3, <2>1, <2>2, <2>3 DEF MailInv, MailsAreCounted, ToldMailIsThere, TriesInOrder
<1>5. CASE AckDelivered
  <2> DEFINE mail == [of |-> "ack", by |-> "Gmail", quotes |-> TRUE]
  <2>1. /\ UNCHANGED <<reply, mailFaults, ticket>> /\ ack' = "sent"
        /\ box' = box \cup {mail}
    BY <1>5 DEF AckDelivered
  <2>2. MailsIn(box') = MailsIn(box)
    BY <1>1, <2>1 DEF MailsIn
  <2>3. "Gmail" \in configured
    BY <1>5 DEF MailInv, AckDelivered
  <2>4. mail \in [of: Replies \cup {"ack"}, by: configured, quotes: BOOLEAN]
    BY <2>3
  <2>5. MailTypeOK'
    BY <1>1, <1>3, <2>1, <2>4 DEF MailTypeOK
  <2>6. MailsAreCounted'
    BY <2>1, <2>2 DEF MailInv, MailsAreCounted
  <2> QED BY <1>3, <2>1, <2>5, <2>6 DEF MailInv, ToldMailIsThere, TriesInOrder
<1>6. CASE AckFails \/ MailRestart
  <2>1. /\ mailFaults' = mailFaults + 1 /\ mailFaults' \in 0..MaxMailFaults
        /\ UNCHANGED <<box, ticket>> /\ ack' \in {"none", "sending", "sent"}
    BY <1>1, <1>2, <1>6 DEF AckFails, MailRestart, Mishap, MailTypeOK
  <2>2. ASSUME NEW r \in Replies
        PROVE  /\ reply'[r] \in ReplyRow /\ reply'[r].told = reply[r].told
               /\ TriesInOrder(reply'[r], failed[r])
    <3>1. reply[r] \in ReplyRow /\ TriesInOrder(reply[r], failed[r])
      BY <1>2 DEF MailInv
    <3> DEFINE x == [reply[r] EXCEPT !.at = "lost"]
    <3>2. x \in ReplyRow /\ x.told = reply[r].told /\ x.at = "lost"
      BY <3>1 DEF ReplyRow
    <3>3. reply'[r] = reply[r] \/ (reply[r].at \notin {"idle", "done"} /\ reply'[r] = x)
      BY <1>6 DEF AckFails, MailRestart
    <3> HIDE DEF x
    <3>4. ASSUME reply[r].at \notin {"idle", "done"} PROVE TriesInOrder(x, failed[r])
      BY <3>1, <3>2, <3>4 DEF TriesInOrder
    <3> QED BY <3>1, <3>2, <3>3, <3>4
  <2>3. reply' \in [Replies -> ReplyRow]
    <3>1. reply' = [r \in Replies |-> reply'[r]]
      BY <1>2, <1>6 DEF AckFails, MailRestart
    <3> QED BY <2>2, <3>1
  <2>4. MailTypeOK'
    BY <1>1, <1>3, <2>1, <2>3 DEF MailTypeOK, ReplyRow
  <2>5. ToldIn(reply') = ToldIn(reply)
    BY <2>2 DEF ToldIn
  <2>6. Cardinality(MailsIn(box)) \in Nat /\ Cardinality(ToldIn(reply)) \in Nat
    BY FS_CardinalityType DEF MailInv, MailsAreCounted
  <2>7. MailsAreCounted'
    BY <1>2, <2>1, <2>5, <2>6 DEF MailInv, MailsAreCounted
  <2>8. ToldMailIsThere'
    BY <2>1, <2>2 DEF MailInv, ToldMailIsThere
  <2>9. (\A r \in Replies : TriesInOrder(reply[r], failed[r]))'
    BY <1>3, <2>2 DEF TriesInOrder
  <2>10. ack' # "sending"
    BY <1>6 DEF AckFails, MailRestart
  <2> QED BY <2>4, <2>7, <2>8, <2>9, <2>10 DEF MailInv
<1> QED BY <1>4, <1>5, <1>6

\* Steps of a reply.
LEMMA RepliesKeep ==
  ASSUME MailInv, NEW r \in Replies,
         StartReply(r) \/ ReadTicket(r) \/ ReadTicketFails(r) \/ Sent(r) \/ SendFails(r)
  PROVE  MailInv'
<1> DEFINE y == reply[r]
<1>1. MailTypeOK /\ MaxMailFaults \in Nat
  BY MailAssumption DEF MailInv
<1>2. /\ reply \in [Replies -> ReplyRow] /\ failed \in [Replies -> SUBSET configured]
      /\ configured \subseteq {"Gmail", "Brevo"} /\ mailFaults \in 0..MaxMailFaults
      /\ mailFaults \in Nat /\ failed[r] \in SUBSET configured
  BY <1>1, MailTypes DEF MailTypeOK
<1>3. y \in ReplyRow /\ TriesInOrder(y, failed[r])
  BY <1>2 DEF MailInv
<1>4. /\ y.told \in [sent: BOOLEAN, by: configured \cup {"nobody"}, fellBack: BOOLEAN]
      /\ y.quotes \in BOOLEAN /\ y.told.sent \in BOOLEAN
  BY <1>3 DEF ReplyRow
<1>5. UNCHANGED <<configured, ticket, ack>>
  BY DEF StartReply, ReadTicket, ReadTicketFails, Sent, SendFails
<1>6. ~y.told.sent
  BY <1>3 DEF TriesInOrder, Providers, StartReply, ReadTicket, ReadTicketFails, Sent, SendFails
<1>7. failed = [failed EXCEPT ![r] = failed[r]]
  BY <1>2
<1>8. configured # {}
  BY <1>3 DEF TriesInOrder, Providers, StartReply, ReadTicket, ReadTicketFails, Sent, SendFails
<1>9. PICK mail0 : mail0 \in [of: {r}, by: configured, quotes: BOOLEAN]
  <2>1. PICK p \in configured : TRUE
    BY <1>8
  <2>2. [of |-> r, by |-> p, quotes |-> TRUE] \in [of: {r}, by: configured, quotes: BOOLEAN]
    OBVIOUS
  <2> QED BY <2>2
<1>10. CASE StartReply(r) \/ ReadTicket(r) \/ ReadTicketFails(r)
  <2> DEFINE at == IF StartReply(r) THEN "reads"
                   ELSE IF ReadTicket(r) THEN NextProvider({}) ELSE "lost"
             q  == IF y.at = "reads" /\ ReadTicket(r) THEN ticket = "open" ELSE y.quotes
             x  == [y EXCEPT !.at = at, !.quotes = q]
  <2>1. /\ y.at \in {"idle", "reads"}
        /\ StartReply(r) => y.at = "idle"
        /\ box' = box /\ failed' = failed
    BY <1>10 DEF StartReply, ReadTicket, ReadTicketFails
  <2>2. at \in {"reads", "lost"} \/ at = NextProvider({})
    OBVIOUS
  <2>3. NextProvider({}) = IF "Gmail" \in configured THEN "Gmail" ELSE "Brevo"
    BY <1>2, <1>8 DEF NextProvider
  <2>4. NextProvider({}) \in configured /\ ("Gmail" \notin configured => configured = {"Brevo"})
    BY <1>2, <1>8, <2>3
  <2>5. q \in BOOLEAN
    BY <1>4
  <2>6. reply' = [reply EXCEPT ![r] = x]
    <3>1. CASE StartReply(r)
      <4>1. ~ReadTicket(r)
        BY <3>1 DEF StartReply, ReadTicket
      <4>2. x = [y EXCEPT !.at = "reads"]
        BY <1>3, <3>1, <4>1 DEF ReplyRow
      <4> QED BY <3>1, <4>2 DEF StartReply
    <3>2. CASE ReadTicket(r)
      <4>1. ~StartReply(r) /\ y.at = "reads"
        BY <3>2 DEF StartReply, ReadTicket
      <4>2. x = [y EXCEPT !.at = NextProvider({}), !.quotes = ticket = "open"]
        BY <3>2, <4>1
      <4> HIDE DEF x
      <4> QED BY <3>2, <4>2 DEF ReadTicket
    <3>3. CASE ReadTicketFails(r) /\ ~ReadTicket(r)
      <4>1. ~StartReply(r)
        BY <3>3 DEF StartReply, ReadTicketFails
      <4>2. x = [y EXCEPT !.at = "lost"]
        BY <1>3, <3>3, <4>1 DEF ReplyRow
      <4> QED BY <3>3, <4>2 DEF ReadTicketFails
    <3> QED BY <1>10, <3>1, <3>2, <3>3
  <2>7. mailFaults' \in 0..MaxMailFaults /\ (mailFaults' = mailFaults \/ mailFaults' = mailFaults + 1)
    BY <1>1, <1>2, <1>10 DEF StartReply, ReadTicket, ReadTicketFails, Mishap
  <2> HIDE DEF at, q
  <2>8. x \in ReplyRow /\ x.at = at /\ x.told = y.told
    BY <1>3, <2>2, <2>4, <2>5 DEF ReplyRow
  <2> HIDE DEF x
  <2>9. failed[r] = {} /\ ~("Gmail" \in failed[r]) /\ ~y.told.fellBack
    BY <1>3, <2>1 DEF TriesInOrder
  <2>10. TriesInOrder(x, failed[r])
    BY <1>6, <1>8, <2>2, <2>3, <2>4, <2>8, <2>9 DEF TriesInOrder
  <2> QED BY <1>2, <1>5, <1>6, <1>7, <1>9, <2>1, <2>6, <2>7, <2>8, <2>10, ReplyStep
<1>11. CASE Sent(r)
  <2> DEFINE mail == [of |-> r, by |-> y.at, quotes |-> y.quotes]
             notice == [sent |-> TRUE, by |-> y.at, fellBack |-> FellBack(r)]
             x == [y EXCEPT !.at = "done", !.told = notice]
  <2>1. /\ y.at \in {"Gmail", "Brevo"} /\ box' = box \cup {mail}
        /\ failed' = failed /\ mailFaults' = mailFaults
        /\ reply' = [reply EXCEPT ![r] = x]
    BY <1>11 DEF Sent, Providers, Deliver
  <2>2. y.at \in configured
    BY <1>3, <2>1 DEF ReplyRow
  <2>3. mail \in [of: {r}, by: configured, quotes: BOOLEAN] /\ mail.by = y.at
    BY <1>4, <2>2
  <2>4. x \in ReplyRow /\ x.at = "done" /\ x.told.sent /\ x.told.by = y.at
        /\ x.told.fellBack = (failed[r] # {})
    BY <1>3, <2>2 DEF ReplyRow, FellBack
  <2> HIDE DEF mail, x
  <2>5. failed[r] # {} => "Gmail" \in failed[r]
    BY <1>2, <1>3, <2>1 DEF TriesInOrder
  <2>6. TriesInOrder(x, failed[r])
    BY <1>8, <2>4, <2>5 DEF TriesInOrder
  <2> QED BY <1>2, <1>5, <1>6, <1>7, <2>1, <2>3, <2>4, <2>6, ReplyStep
<1>12. CASE SendFails(r)
  <2> DEFINE mail == [of |-> r, by |-> y.at, quotes |-> y.quotes]
             f == failed[r] \cup {y.at}
             x == AfterFailure(r)
  <2>1. /\ y.at \in {"Gmail", "Brevo"} /\ box' \in {box, box \cup {mail}}
        /\ failed' = [failed EXCEPT ![r] = f] /\ mailFaults' = mailFaults + 1
        /\ mailFaults' \in 0..MaxMailFaults
        /\ reply' = [reply EXCEPT ![r] = x]
    BY <1>1, <1>2, <1>12 DEF SendFails, Providers, Deliver, Mishap
  <2>2. y.at \in configured
    BY <1>3, <2>1 DEF ReplyRow
  <2>3. mail \in [of: {r}, by: configured, quotes: BOOLEAN]
    BY <1>4, <2>2
  <2>4. f \in SUBSET configured
    BY <1>2, <2>2
  <2> DEFINE next == NextProvider(f)
             at == IF next = "nobody" THEN "done" ELSE next
  <2>5. x = [y EXCEPT !.at = at]
    BY DEF AfterFailure
  <2>6. /\ y.at = "Gmail" => f = {"Gmail"}
        /\ y.at = "Brevo" => f = configured
    BY <1>3, <2>2 DEF TriesInOrder
  <2>7. at = IF y.at = "Gmail" /\ "Brevo" \in configured THEN "Brevo" ELSE "done"
    BY <1>2, <2>1, <2>2, <2>6 DEF NextProvider
  <2> HIDE DEF at, mail, f
  <2>8. x \in ReplyRow /\ x.at = at /\ x.told = y.told
    BY <1>3, <2>5, <2>7 DEF ReplyRow
  <2> HIDE DEF x
  <2>9. at = "Brevo" => f = configured \ {"Brevo"}
    BY <1>2, <2>2, <2>6, <2>7
  <2>10. at = "done" => f = configured
    BY <1>2, <2>1, <2>2, <2>6, <2>7
  <2>11. y.told.fellBack => "Gmail" \in f
    BY <1>3 DEF TriesInOrder, f
  <2>12. TriesInOrder(x, f)
    BY <1>6, <1>8, <2>7, <2>8, <2>9, <2>10, <2>11 DEF TriesInOrder
  <2>13. ~x.told.sent
    BY <1>6, <2>8
  <2>14. mailFaults' # mailFaults
    BY <1>2, <2>1
  <2> QED BY <1>2, <1>5, <1>6, <2>1, <2>3, <2>4, <2>8, <2>12, <2>13, <2>14, ReplyStep
<1> QED BY <1>10, <1>11, <1>12

LEMMA MailKeeps == MailInv /\ [MailNext]_mailVars => MailInv'
<1> SUFFICES ASSUME MailInv, [MailNext]_mailVars PROVE MailInv'
  OBVIOUS
<1>1. CASE UNCHANGED mailVars
  BY <1>1 DEF MailInv, MailTypeOK, MailsAreCounted, ToldMailIsThere, TriesInOrder, mailVars
<1>2. CASE MailNext
  BY <1>2, OtherMailKeeps, RepliesKeep DEF MailNext
<1> QED BY <1>1, <1>2

\* What an admin is told of the mails is true, however often a reply is sent again
\* and whatever fails, for any number of replies and failures.
THEOREM MailIsTrue == MailSpec => [](MailTypeOK /\ MailIsAccounted)
<1>1. MailInv => MailTypeOK /\ MailIsAccounted
  <2> SUFFICES ASSUME MailInv PROVE MailTypeOK /\ MailIsAccounted
    OBVIOUS
  <2>1. \A r \in Replies : TriesInOrder(reply[r], failed[r])
    BY DEF MailInv
  <2>2. ToldIsTrue
    BY <2>1 DEF MailInv, ToldMailIsThere, TriesInOrder, ToldIsTrue, Mailed
  <2>3. UNION {Mailed(r) : r \in Replies} = MailsIn(box)
    BY DEF Mailed, MailsIn
  <2>4. ExtraMailsAreFaults
    BY <2>3 DEF MailInv, MailsAreCounted, ExtraMailsAreFaults, ToldIn
  <2>5. AllWereTried
    BY <2>1 DEF TriesInOrder, AllWereTried
  <2> QED BY <2>2, <2>4, <2>5 DEF MailInv, MailIsAccounted
<1> QED BY <1>1, MailStart, MailKeeps, PTL DEF MailSpec

-----------------------------------------------------------------------------
(* Deposit addresses.  An address carries the index it was derived at, below *)
(* the counter of its chain, so that no later one is the same; and the BTC   *)
(* key, so that what the script still has to retire can be told.             *)

Triples == {"btc", "bsc"} \X (0..2) \X Nat

AddressRow == [owner: Owners, asset: Assets, addr: Triples, retired: BOOLEAN, late: BOOLEAN]

AskRow == [at: {"find", "index", "create"}, owner: Owners, todo: Seq(Assets) \ {<<>>},
           addr: Triples \cup {<<>>}, here: BOOLEAN]

\* An address that no other index has.
Counted(form, addr) == form = "xpub" \/ addr[1] = "btc"

\* The address of an asset, from the counter as it is in n.
IssuedFor(form, asset, addr, n) ==
    /\ addr[1] = ChainOf(asset)
    /\ Counted(form, addr) => addr[3] < n[addr[1]]

\* What a request that made an address x has, with the keys, the counter and the socket.
AskIsIssued(x, form, key, n, w) ==
    x.at = "create" =>
        /\ x.addr \in Triples /\ IssuedFor(form, Head(x.todo), x.addr, n)
        /\ x.addr[1] = "btc" => x.addr[2] = key
        /\ x.here => w.state = "open" /\ x.addr \in w.subs

\* Once the script has read, or has run, for the key of the server, it is the
\* key of the active BTC addresses, but for those still to be retired.
KeysAreRetired ==
    /\ retiring.key = 2 \/ retiring.ranFor = 2 => btcKey = 2
    /\ \A r \in addresses : r.asset = "BTC" /\ ~r.retired /\ r.addr[2] # btcKey =>
           /\ retiring.key = btcKey /\ btcKey # 0 => r.addr \in retiring.read
           /\ retiring.ranFor = btcKey => btcKey = 0

AddrTypes ==
    /\ AddrTypeOK
    /\ addresses \subseteq AddressRow
    /\ asking \in [Askers -> AskRow \cup {Idle}]
    /\ ws \in [state: {"connecting", "open", "closed"}, loaded: BOOLEAN, subs: SUBSET Triples]
    /\ retiring \in [read: SUBSET Triples, key: 0..2, ranFor: 0..2]
    /\ ws.loaded => ws.state = "open"

AddrInv ==
    /\ AddrTypes /\ ToldIsKept /\ ToldFromCurrentKey /\ IndexIsFree /\ SubscribedAgain
    /\ KeysAreRetired
    /\ \A r \in addresses : IssuedFor(evmKey, r.asset, r.addr, nextIndex)
    /\ \A a \in Askers : AskIsIssued(asking[a], evmKey, btcKey, nextIndex, ws)

----------------------------------------------------------------------------
LEMMA AddressesStart == AddrInit => AddrInv
<1> SUFFICES ASSUME AddrInit PROVE AddrInv
  OBVIOUS
<1>1. AddrTypes
  BY AddressesAssumption DEF AddrInit, AddrTypes, AddrTypeOK, Idle
<1>2. \A a \in Askers : asking[a].at = "none"
  BY DEF AddrInit, Idle
<1>3. ToldIsKept /\ ToldFromCurrentKey /\ IndexIsFree /\ SubscribedAgain /\ KeysAreRetired
  BY <1>2 DEF AddrInit, ToldIsKept, ToldFromCurrentKey, IndexIsFree, SubscribedAgain,
              KeysAreRetired
<1>4. \A a \in Askers : AskIsIssued(asking[a], evmKey, btcKey, nextIndex, ws)
  BY <1>2 DEF AskIsIssued
<1> QED BY <1>1, <1>3, <1>4 DEF AddrInit, AddrInv

\* What a request asks for next.
NextAsk(q) == IF Len(q.todo) = 1 THEN Idle ELSE [q EXCEPT !.todo = Tail(q.todo)]

LEMMA AskGoesOn ==
  ASSUME NEW q \in AskRow
  PROVE  /\ NextAsk(q) \in AskRow \cup {Idle}
         /\ NextAsk(q).at \in {q.at, "none"}
         /\ Head(q.todo) \in Assets
<1>1. q.todo \in Seq(Assets) /\ q.todo # <<>>
  BY DEF AskRow
<1>2. Head(q.todo) \in Assets
  BY <1>1
<1>3. CASE Len(q.todo) = 1
  BY <1>2, <1>3 DEF NextAsk, Idle
<1>4. CASE Len(q.todo) # 1
  <2> DEFINE s == Tail(q.todo)
  <2>1. s \in Seq(Assets) /\ s # <<>>
    <3>1. s \in Seq(Assets) /\ Len(s) = Len(q.todo) - 1
      BY <1>1
    <3>2. Len(s) # 0
      BY <1>1, <1>4, <3>1
    <3>3. Len(<<>>) = 0
      OBVIOUS
    <3> HIDE DEF s
    <3>4. s # <<>>
      BY ONLY <3>2, <3>3
    <3> QED BY <3>1, <3>4
  <2>2. NextAsk(q) = [q EXCEPT !.todo = s]
    BY <1>4 DEF NextAsk
  <2> HIDE DEF s
  <2>3. NextAsk(q) \in AskRow /\ NextAsk(q).at = q.at
    BY <2>1, <2>2 DEF AskRow
  <2> QED BY <1>2, <2>3
<1> QED BY <1>3, <1>4

\* Steps of one request that make no address.
LEMMA AskStep ==
  ASSUME AddrInv, NEW a \in Askers, NEW x \in AskRow \cup {Idle}, x.at # "create",
         asking' = [asking EXCEPT ![a] = x],
         UNCHANGED <<evmKey, btcKey, nextIndex, addresses, ws, retiring, events>>,
         requested' \in 0..MaxAsked, ToldIsKept', ToldFromCurrentKey'
  PROVE  AddrInv'
<1>1. asking \in [Askers -> AskRow \cup {Idle}]
  BY DEF AddrInv, AddrTypes
<1>2. /\ asking' \in [Askers -> AskRow \cup {Idle}] /\ asking'[a] = x
      /\ \A b \in Askers \ {a} : asking'[b] = asking[b]
  BY <1>1
<1>3. \A b \in Askers : asking'[b].at \in {"none", "find", "index", "create"}
  BY <1>2 DEF AskRow, Idle
<1>4. AddrTypes'
  BY <1>2, <1>3 DEF AddrInv, AddrTypes, AddrTypeOK
<1>5. IndexIsFree'
  BY <1>2 DEF AddrInv, IndexIsFree
<1>6. (\A b \in Askers : AskIsIssued(asking[b], evmKey, btcKey, nextIndex, ws))'
  BY <1>2 DEF AddrInv, AskIsIssued, IssuedFor, Counted
<1>7. (SubscribedAgain /\ KeysAreRetired)'
  BY DEF AddrInv, SubscribedAgain, KeysAreRetired
<1>8. (\A r \in addresses : IssuedFor(evmKey, r.asset, r.addr, nextIndex))'
  BY DEF AddrInv, IssuedFor, Counted
<1> QED BY <1>4, <1>5, <1>6, <1>7, <1>8 DEF AddrInv

\* An answer with the address of a row.
LEMMA AnswerStep ==
  ASSUME AddrInv, NEW o \in Owners, NEW asset \in Assets, NEW addr,
         told' = told \cup {Answer(o, asset, addr)},
         \E r \in addresses' : r.addr = addr /\ r.owner = o /\ r.asset = asset,
         \A r \in addresses : \E s \in addresses' :
             s.addr = r.addr /\ s.owner = r.owner /\ s.asset = r.asset,
         asset = "BTC" /\ retiring.ranFor = btcKey /\ btcKey # 0 => addr[2] = btcKey
  PROVE  ToldIsKept' /\ ToldFromCurrentKey'
<1> DEFINE t == Answer(o, asset, addr)
<1>1. /\ t.owner = o /\ t.asset = asset /\ t.addr = addr
      /\ t.key = IF asset = "BTC" /\ retiring.ranFor = btcKey THEN btcKey ELSE 0
  BY DEF Answer
<1> HIDE DEF t
<1>2. told' = told \cup {t}
  BY DEF t
<1>3. ToldIsKept'
  <2> SUFFICES ASSUME NEW u \in told'
               PROVE  \E s \in addresses' : s.addr = u.addr /\ s.owner = u.owner
                                            /\ s.asset = u.asset
    BY DEF ToldIsKept
  <2>1. CASE u \in told
    <3>1. PICK r \in addresses : r.addr = u.addr /\ r.owner = u.owner /\ r.asset = u.asset
      BY <2>1 DEF AddrInv, ToldIsKept
    <3>2. PICK s \in addresses' : s.addr = r.addr /\ s.owner = r.owner /\ s.asset = r.asset
      OBVIOUS
    <3> QED BY <3>1, <3>2
  <2>2. CASE u = t
    BY <1>1, <2>2
  <2> QED BY <1>2, <2>1, <2>2
<1>4. ToldFromCurrentKey'
  BY <1>1, <1>2 DEF AddrInv, ToldFromCurrentKey
<1> QED BY <1>3, <1>4

LEMMA FindKeeps ==
  ASSUME AddrInv, NEW a \in Askers, NEW q \in AskRow, q.at = "find", FindAddress(a, q),
         UNCHANGED <<evmKey, btcKey, nextIndex, addresses, ws, retiring, events>>,
         requested' \in 0..MaxAsked
  PROVE  AddrInv'
<1> DEFINE asset == Head(q.todo)
           x == NextAsk(q)
<1>1. asset \in Assets /\ x \in AskRow \cup {Idle} /\ x.at # "create" /\ q.owner \in Owners
  <2>1. q.owner \in Owners
    BY DEF AskRow
  <2> QED BY <2>1, AskGoesOn
<1>2. CASE \E r \in addresses : /\ IsReissued(r, q.owner, asset)
                                /\ told' = told \cup {Answer(q.owner, asset, r.addr)}
                                /\ Advance(a, q)
  <2>1. PICK r \in addresses : /\ IsReissued(r, q.owner, asset)
                               /\ told' = told \cup {Answer(q.owner, asset, r.addr)}
                               /\ Advance(a, q)
    BY <1>2
  <2>2. r.owner = q.owner /\ r.asset = asset /\ ~r.retired
    BY <2>1 DEF IsReissued
  <2>3. asset = "BTC" /\ retiring.ranFor = btcKey /\ btcKey # 0 => r.addr[2] = btcKey
    BY <2>2 DEF AddrInv, KeysAreRetired
  <2>4. asking' = [asking EXCEPT ![a] = x]
    BY <2>1 DEF Advance, NextAsk
  <2> HIDE DEF x, asset
  <2>5. ToldIsKept' /\ ToldFromCurrentKey'
    BY <1>1, <2>1, <2>2, <2>3, AnswerStep
  <2> QED BY <1>1, <2>4, <2>5, AskStep
<1>3. CASE Advance(a, q) /\ UNCHANGED told
  <2>1. asking' = [asking EXCEPT ![a] = x]
    BY <1>3 DEF Advance, NextAsk
  <2>2. ToldIsKept' /\ ToldFromCurrentKey'
    BY <1>3 DEF AddrInv, ToldIsKept, ToldFromCurrentKey
  <2> HIDE DEF x
  <2> QED BY <1>1, <2>1, <2>2, AskStep
<1>4. CASE asking' = [asking EXCEPT ![a] = [q EXCEPT !.at = "index"]] /\ UNCHANGED told
  <2> DEFINE y == [q EXCEPT !.at = "index"]
  <2>1. y \in AskRow /\ y.at = "index"
    BY DEF AskRow
  <2>2. ToldIsKept' /\ ToldFromCurrentKey'
    BY <1>4 DEF AddrInv, ToldIsKept, ToldFromCurrentKey
  <2>3. asking' = [asking EXCEPT ![a] = y]
    BY <1>4
  <2> HIDE DEF y
  <2> QED BY <2>1, <2>2, <2>3, AskStep
<1> QED BY <1>2, <1>3, <1>4 DEF FindAddress

LEMMA AsksKeep ==
  ASSUME AddrInv, NEW a \in Askers,
         NextAsset(a) \/ \E o \in Owners, todo \in Todos : AskAddress(a, o, todo)
  PROVE  AddrInv'
<1>1. asking \in [Askers -> AskRow \cup {Idle}] /\ requested \in 0..MaxAsked
  BY DEF AddrInv, AddrTypes, AddrTypeOK
<1>2. CASE NextAsset(a)
  <2>1. /\ asking[a].at = "find" /\ FindAddress(a, asking[a])
        /\ UNCHANGED <<evmKey, btcKey, nextIndex, addresses, ws, retiring, requested, events>>
    BY <1>2 DEF NextAsset
  <2>2. asking[a] \in AskRow
    BY <1>1, <2>1 DEF Idle
  <2> QED BY <1>1, <2>1, <2>2, FindKeeps
<1>3. CASE \E o \in Owners, todo \in Todos : AskAddress(a, o, todo)
  <2>1. PICK o \in Owners, todo \in Todos : AskAddress(a, o, todo)
    BY <1>3
  <2> DEFINE q == [at |-> "find", owner |-> o, todo |-> todo, addr |-> <<>>, here |-> FALSE]
  <2>2. todo \in Seq(Assets) /\ todo # <<>> /\ MaxAsked \in Nat
    BY AddressesAssumption
  <2>3. q \in AskRow /\ q.at = "find"
    BY <2>2 DEF AskRow
  <2>4. /\ requested' \in 0..MaxAsked /\ FindAddress(a, q)
        /\ UNCHANGED <<evmKey, btcKey, nextIndex, addresses, ws, retiring, events>>
    BY <1>1, <2>1, <2>2 DEF AskAddress
  <2> HIDE DEF q
  <2> QED BY <2>3, <2>4, FindKeeps
<1> QED BY <1>2, <1>3

\* The counter gives an index of its own.
LEMMA TakeKeeps ==
  ASSUME AddrInv, NEW a \in Askers, TakeIndex(a)
  PROVE  AddrInv'
<1> DEFINE q == asking[a]
           chain == ChainOf(Head(q.todo))
           addr == AddressAt(chain, nextIndex[chain])
           here == chain = "bsc" /\ ws.state = "open"
           x == [q EXCEPT !.at = "create", !.addr = addr, !.here = here]
<1>1. /\ q.at = "index" /\ nextIndex[chain] < MaxIssued
      /\ nextIndex' = [nextIndex EXCEPT ![chain] = @ + 1]
      /\ ws' = IF chain = "bsc" THEN Subscribed(ws, addr) ELSE ws
      /\ asking' = [asking EXCEPT ![a] = x]
      /\ UNCHANGED <<evmKey, btcKey, addresses, retiring, told, requested, events>>
  BY DEF TakeIndex, TakenIndex
<1>2. /\ AddrTypes /\ asking \in [Askers -> AskRow \cup {Idle}]
      /\ nextIndex \in [{"btc", "bsc"} -> 0..MaxIssued] /\ MaxIssued \in Nat
      /\ ws \in [state: {"connecting", "open", "closed"}, loaded: BOOLEAN, subs: SUBSET Triples]
      /\ btcKey \in 0..2 /\ addresses \subseteq AddressRow /\ evmKey \in {"xpub", "single"}
  BY AddressesAssumption DEF AddrInv, AddrTypes, AddrTypeOK
<1>3. q \in AskRow /\ Head(q.todo) \in Assets
  <2>1. q \in AskRow
    BY <1>1, <1>2 DEF Idle
  <2> QED BY <2>1, AskGoesOn
<1>4. /\ chain \in {"btc", "bsc"} /\ nextIndex[chain] \in 0..MaxIssued
      /\ nextIndex[chain] \in Nat
  BY <1>2 DEF ChainOf
<1> HIDE DEF chain
<1>5. /\ addr \in Triples /\ addr[1] = chain
      /\ Counted(evmKey, addr) => addr[3] = nextIndex[chain]
      /\ chain = "btc" => addr[2] = btcKey
  BY <1>2, <1>4 DEF AddressAt, Triples, Counted
<1>6. x \in AskRow /\ x.at = "create" /\ x.addr = addr /\ x.here = here /\ x.todo = q.todo
  BY <1>3, <1>5 DEF AskRow
<1> HIDE DEF x, addr
<1>7. /\ asking' \in [Askers -> AskRow \cup {Idle}] /\ asking'[a] = x
      /\ \A b \in Askers \ {a} : asking'[b] = asking[b]
  BY <1>1, <1>2, <1>6
<1>8. /\ nextIndex' \in [{"btc", "bsc"} -> 0..MaxIssued]
      /\ nextIndex'[chain] = nextIndex[chain] + 1
      /\ \A c \in {"btc", "bsc"} : nextIndex'[c] \in Nat /\ nextIndex[c] <= nextIndex'[c]
  BY <1>1, <1>2, <1>4
<1>9. /\ ws' \in [state: {"connecting", "open", "closed"}, loaded: BOOLEAN,
                  subs: SUBSET Triples]
      /\ ws'.state = ws.state /\ ws'.loaded = ws.loaded /\ ws.subs \subseteq ws'.subs
      /\ here => addr \in ws'.subs
  <2>1. CASE chain = "bsc" /\ ws.state = "open"
    <3>1. ws' = [ws EXCEPT !.subs = @ \cup {addr}]
      BY <1>1, <2>1 DEF Subscribed
    <3> QED BY <1>2, <1>5, <3>1
  <2>2. CASE ~(chain = "bsc" /\ ws.state = "open")
    <3>1. ws' = ws
      BY <1>1, <2>2 DEF Subscribed
    <3> QED BY <1>2, <2>2, <3>1
  <2> QED BY <2>1, <2>2
<1>10. \A b \in Askers : asking'[b].at \in {"none", "find", "index", "create"}
  BY <1>7 DEF AskRow, Idle
<1>11. AddrTypes'
  BY <1>1, <1>2, <1>7, <1>8, <1>9, <1>10 DEF AddrTypes, AddrTypeOK
<1>12. ToldIsKept' /\ ToldFromCurrentKey' /\ KeysAreRetired'
  BY <1>1 DEF AddrInv, ToldIsKept, ToldFromCurrentKey, KeysAreRetired
<1>13. SubscribedAgain'
  BY <1>1, <1>9 DEF AddrInv, SubscribedAgain
<1>14. ASSUME NEW asset, NEW ad \in Triples, IssuedFor(evmKey, asset, ad, nextIndex)
       PROVE  IssuedFor(evmKey', asset, ad, nextIndex')
  <2>1. ad[1] \in {"btc", "bsc"} /\ ad[3] \in Nat
    BY DEF Triples
  <2>2. nextIndex[ad[1]] <= nextIndex'[ad[1]] /\ nextIndex[ad[1]] \in Nat
    BY <1>2, <1>8, <2>1
  <2> QED BY <1>1, <1>8, <1>14, <2>1, <2>2 DEF IssuedFor
<1>15. (\A r \in addresses : IssuedFor(evmKey, r.asset, r.addr, nextIndex))'
  <2> SUFFICES ASSUME NEW r \in addresses
               PROVE  IssuedFor(evmKey', r.asset, r.addr, nextIndex')
    BY <1>1
  <2>1. r.addr \in Triples
    BY <1>2 DEF AddressRow
  <2> QED BY <1>14, <2>1 DEF AddrInv
<1>16. IssuedFor(evmKey', Head(x.todo), addr, nextIndex')
  BY <1>1, <1>4, <1>5, <1>6, <1>8 DEF IssuedFor, chain
<1>17. ASSUME NEW b \in Askers
       PROVE  AskIsIssued(asking'[b], evmKey', btcKey', nextIndex', ws')
  <2>1. CASE b = a
    BY <1>1, <1>5, <1>6, <1>7, <1>9, <1>16, <2>1 DEF AskIsIssued
  <2>2. CASE b # a
    <3>1. AskIsIssued(asking[b], evmKey, btcKey, nextIndex, ws) /\ asking'[b] = asking[b]
      BY <1>7, <2>2 DEF AddrInv
    <3> QED BY <1>1, <1>9, <1>14, <3>1 DEF AskIsIssued
  <2> QED BY <2>1, <2>2
<1>18. \* No row and no other request has this address.
       ASSUME Counted(evmKey, addr)
       PROVE  /\ \A r \in addresses : r.addr # addr
              /\ \A b \in Askers \ {a} : asking[b].at = "create" => asking[b].addr # addr
  <2>1. ASSUME NEW asset, IssuedFor(evmKey, asset, addr, nextIndex) PROVE FALSE
    BY <1>4, <1>5, <1>18, <2>1 DEF IssuedFor
  <2> QED BY <2>1 DEF AddrInv, AskIsIssued
<1>19. IndexIsFree'
  <2> SUFFICES ASSUME NEW b \in Askers, NEW c \in Askers, asking'[b].at = "create",
                      Counted(evmKey, asking'[b].addr)
               PROVE  /\ ~\E r \in addresses : r.addr = asking'[b].addr
                      /\ asking'[c].at = "create" /\ asking'[b].addr = asking'[c].addr
                             => b = c
    BY <1>1 DEF IndexIsFree, Counted
  <2>1. CASE b = a
    BY <1>6, <1>7, <1>18, <2>1
  <2>2. CASE b # a /\ c = a
    <3>1. asking'[b] = asking[b] /\ asking'[c].addr = addr
      BY <1>6, <1>7, <2>2
    <3>2. ~\E r \in addresses : r.addr = asking[b].addr
      BY <3>1 DEF AddrInv, IndexIsFree, Counted
    <3> QED BY <1>18, <2>2, <3>1, <3>2
  <2>3. CASE b # a /\ c # a
    BY <1>7, <2>3 DEF AddrInv, IndexIsFree, Counted
  <2> QED BY <2>1, <2>2, <2>3
<1>20. (\A b \in Askers : AskIsIssued(asking[b], evmKey, btcKey, nextIndex, ws))'
  BY <1>17
<1> QED BY <1>11, <1>12, <1>13, <1>15, <1>19, <1>20 DEF AddrInv

\* The row is made and the address told, or the request fails.
LEMMA CreateKeeps ==
  ASSUME AddrInv, NEW a \in Askers, CreateAddress(a)
  PROVE  AddrInv'
<1> DEFINE q == asking[a]
           asset == Head(q.todo)
<1>1. /\ q.at = "create"
      /\ UNCHANGED <<evmKey, btcKey, nextIndex, ws, retiring, requested, events>>
  BY DEF CreateAddress
<1>2. /\ AddrTypes /\ asking \in [Askers -> AskRow \cup {Idle}] /\ requested \in 0..MaxAsked
      /\ addresses \subseteq AddressRow /\ ws.loaded \in BOOLEAN
  BY DEF AddrInv, AddrTypes, AddrTypeOK
<1>3. q \in AskRow /\ asset \in Assets /\ q.owner \in Owners /\ q.here \in BOOLEAN
  <2>1. q \in AskRow
    BY <1>1, <1>2 DEF Idle
  <2> QED BY <2>1, AskGoesOn DEF AskRow
<1>4. /\ q.addr \in Triples /\ IssuedFor(evmKey, asset, q.addr, nextIndex)
      /\ q.addr[1] = "btc" => q.addr[2] = btcKey
      /\ q.here => ws.state = "open" /\ q.addr \in ws.subs
  BY <1>1 DEF AddrInv, AskIsIssued
<1>5. CASE Collides(q.addr)
  <2>1. asking' = [asking EXCEPT ![a] = Idle] /\ UNCHANGED <<addresses, told>>
    BY <1>5 DEF CreateAddress
  <2>2. Idle \in AskRow \cup {Idle} /\ Idle.at # "create"
    BY DEF Idle
  <2>3. ToldIsKept' /\ ToldFromCurrentKey'
    BY <2>1 DEF AddrInv, ToldIsKept, ToldFromCurrentKey
  <2> QED BY <1>1, <1>2, <2>1, <2>2, <2>3, AskStep
<1>6. CASE ~Collides(q.addr)
  <2> DEFINE made == [owner |-> q.owner, asset |-> asset, addr |-> q.addr, retired |-> FALSE,
                     late |-> asset # "BTC" /\ ws.loaded /\ ~q.here]
             y == [q EXCEPT !.at = "find", !.addr = <<>>]
             x == NextAsk(y)
  <2>1. /\ addresses' = addresses \cup {made}
        /\ told' = told \cup {Answer(q.owner, asset, q.addr)}
        /\ asking' = [asking EXCEPT ![a] = x]
    BY <1>6 DEF CreateAddress, RowMade, Advance, NextAsk
  <2>2. /\ made \in AddressRow /\ made.addr = q.addr /\ made.owner = q.owner
        /\ made.asset = asset /\ made.retired = FALSE
        /\ made.late = (asset # "BTC" /\ ws.loaded /\ ~q.here)
    BY <1>2, <1>3, <1>4 DEF AddressRow
  <2>3. y \in AskRow /\ y.at = "find"
    BY <1>3 DEF AskRow
  <2>4. x \in AskRow \cup {Idle} /\ x.at \in {"find", "none"}
    BY <2>3, AskGoesOn
  <2> HIDE DEF made, x, y, asset
  <2>5. q.addr[1] = ChainOf(asset)
    BY <1>4 DEF IssuedFor
  <2>6. asset = "BTC" => q.addr[2] = btcKey
    BY <1>4, <2>5 DEF ChainOf
  <2>7. ToldIsKept' /\ ToldFromCurrentKey'
    <3>1. made \in addresses' /\ addresses \subseteq addresses'
      BY <2>1
    <3>2. \E r \in addresses' : r.addr = q.addr /\ r.owner = q.owner /\ r.asset = asset
      BY <2>2, <3>1
    <3>3. \A r \in addresses : \E s \in addresses' :
              s.addr = r.addr /\ s.owner = r.owner /\ s.asset = r.asset
      BY <3>1
    <3> QED BY <1>3, <2>1, <2>6, <3>2, <3>3, AnswerStep
  <2>8. \A r \in addresses : r.addr # q.addr
    BY <1>6 DEF Collides
  <2>9. /\ asking' \in [Askers -> AskRow \cup {Idle}] /\ asking'[a] = x
        /\ \A b \in Askers \ {a} : asking'[b] = asking[b]
    BY <1>2, <2>1, <2>4
  <2>10. \A b \in Askers : asking'[b].at \in {"none", "find", "index", "create"}
    BY <2>9 DEF AskRow, Idle
  <2>11. /\ addresses' \subseteq AddressRow
         /\ \A r, s \in addresses' : r.addr = s.addr => r = s
    <3>1. \A r, s \in addresses : r.addr = s.addr => r = s
      BY <1>2 DEF AddrTypes, AddrTypeOK
    <3> QED BY <1>2, <2>1, <2>2, <2>8, <3>1
  <2>12. \A r \in addresses' : r.owner \in Owners /\ r.asset \in Assets /\ r.retired \in BOOLEAN
    BY <2>11 DEF AddressRow
  <2>13. AddrTypes'
    BY <1>1, <1>2, <2>9, <2>10, <2>11, <2>12 DEF AddrTypes, AddrTypeOK
  <2>14. (\A r \in addresses : IssuedFor(evmKey, r.asset, r.addr, nextIndex))'
    BY <1>1, <1>4, <2>1, <2>2 DEF AddrInv, asset
  <2>15. (\A b \in Askers : AskIsIssued(asking[b], evmKey, btcKey, nextIndex, ws))'
    <3> SUFFICES ASSUME NEW b \in Askers, asking'[b].at = "create"
                 PROVE  AskIsIssued(asking'[b], evmKey', btcKey', nextIndex', ws')
      BY DEF AskIsIssued
    <3>1. asking'[b] = asking[b]
      BY <2>4, <2>9
    <3> QED BY <1>1, <3>1 DEF AddrInv
  <2>16. IndexIsFree'
    <3> SUFFICES ASSUME NEW b \in Askers, NEW c \in Askers, asking'[b].at = "create",
                        Counted(evmKey, asking'[b].addr)
                 PROVE  /\ ~\E r \in addresses' : r.addr = asking'[b].addr
                        /\ asking'[c].at = "create" /\ asking'[b].addr = asking'[c].addr
                               => b = c
      BY <1>1 DEF IndexIsFree, Counted
    <3>1. b # a /\ asking'[b] = asking[b] /\ (asking'[c].at = "create" => asking'[c] = asking[c])
      BY <2>4, <2>9
    <3>2. /\ ~\E r \in addresses : r.addr = asking[b].addr
          /\ asking[c].at = "create" /\ asking[b].addr = asking[c].addr => b = c
          /\ asking[b].addr # q.addr
      BY <1>1, <3>1 DEF AddrInv, IndexIsFree, Counted
    <3> QED BY <2>1, <2>2, <3>1, <3>2
  <2>17. SubscribedAgain'
    <3> SUFFICES ASSUME ws.loaded, NEW r \in addresses', r.addr[1] = "bsc", ~r.late
                 PROVE  r.addr \in ws.subs
      BY <1>1 DEF SubscribedAgain
    <3>1. CASE r \in addresses
      BY <3>1 DEF AddrInv, SubscribedAgain
    <3>2. CASE r = made
      <4>1. asset # "BTC"
        BY <2>2, <2>5, <3>2 DEF ChainOf
      <4> QED BY <1>3, <1>4, <2>2, <3>2, <4>1
    <3> QED BY <2>1, <3>1, <3>2
  <2>18. KeysAreRetired'
    <3>1. made.asset = "BTC" => made.addr[2] = btcKey
      BY <2>2, <2>6
    <3> QED BY <1>1, <2>1, <3>1 DEF AddrInv, KeysAreRetired
  <2> QED BY <2>7, <2>13, <2>14, <2>15, <2>16, <2>17, <2>18 DEF AddrInv
<1> QED BY <1>5, <1>6

\* Steps of the socket, restarts, and what the script reads.
LEMMA SocketKeeps ==
  ASSUME AddrInv, SocketOpens \/ SocketCloses \/ Reconnect \/ RestartIssuer \/ RetireReads
  PROVE  AddrInv'
<1>1. /\ AddrTypes /\ asking \in [Askers -> AskRow \cup {Idle}]
      /\ addresses \subseteq AddressRow /\ ws.loaded \in BOOLEAN
      /\ ws \in [state: {"connecting", "open", "closed"}, loaded: BOOLEAN, subs: SUBSET Triples]
      /\ retiring \in [read: SUBSET Triples, key: 0..2, ranFor: 0..2]
      /\ (ws.loaded => ws.state = "open") /\ btcKey \in 0..2
      /\ events \in 0..MaxEvents /\ MaxEvents \in Nat
  BY AddressesAssumption DEF AddrInv, AddrTypes, AddrTypeOK
<1>2. /\ UNCHANGED <<evmKey, nextIndex, addresses, told, requested>>
      /\ events' \in 0..MaxEvents
  BY <1>1 DEF SocketOpens, SocketCloses, Reconnect, RestartIssuer, RetireReads
<1>3. ToldIsKept' /\ ToldFromCurrentKey'
  BY <1>2 DEF AddrInv, ToldIsKept, ToldFromCurrentKey
<1>4. (\A r \in addresses : IssuedFor(evmKey, r.asset, r.addr, nextIndex))'
  BY <1>2 DEF AddrInv
<1>5. CASE SocketOpens
  <2>1. ws' = [ws EXCEPT !.state = "open"] /\ UNCHANGED <<btcKey, asking, retiring>>
    BY <1>5 DEF SocketOpens
  <2>2. /\ ws' \in [state: {"connecting", "open", "closed"}, loaded: BOOLEAN,
                    subs: SUBSET Triples]
        /\ ws'.state = "open" /\ ws'.loaded = ws.loaded /\ ws'.subs = ws.subs
    BY <1>1, <2>1
  <2>3. AddrTypes'
    BY <1>1, <1>2, <2>1, <2>2 DEF AddrTypes, AddrTypeOK
  <2>4. SubscribedAgain' /\ IndexIsFree' /\ KeysAreRetired'
    BY <1>2, <2>1, <2>2 DEF AddrInv, SubscribedAgain, IndexIsFree, KeysAreRetired
  <2>5. (\A b \in Askers : AskIsIssued(asking[b], evmKey, btcKey, nextIndex, ws))'
    BY <1>2, <2>1, <2>2 DEF AddrInv, AskIsIssued
  <2> QED BY <1>3, <1>4, <2>3, <2>4, <2>5 DEF AddrInv
<1>6. CASE Reconnect
  <2>1. ws' = Connecting(ws) /\ ws.state = "closed" /\ UNCHANGED <<btcKey, asking, retiring>>
    BY <1>6 DEF Reconnect
  <2>2. /\ ws' \in [state: {"connecting", "open", "closed"}, loaded: BOOLEAN,
                    subs: SUBSET Triples]
        /\ ws'.state = "connecting" /\ ws'.loaded = FALSE
    BY <1>1, <2>1 DEF Connecting
  <2>3. AddrTypes'
    BY <1>1, <1>2, <2>1, <2>2 DEF AddrTypes, AddrTypeOK
  <2>4. SubscribedAgain' /\ IndexIsFree' /\ KeysAreRetired'
    BY <1>2, <2>1, <2>2 DEF AddrInv, SubscribedAgain, IndexIsFree, KeysAreRetired
  <2>5. (\A b \in Askers : AskIsIssued(asking[b], evmKey, btcKey, nextIndex, ws))'
    BY <1>2, <2>1 DEF AddrInv, AskIsIssued
  <2> QED BY <1>3, <1>4, <2>3, <2>4, <2>5 DEF AddrInv
<1>7. CASE SocketCloses
  <2>1. /\ ws' = [ws EXCEPT !.state = "closed", !.loaded = FALSE, !.subs = {}]
        /\ asking' = [b \in Askers |-> IF asking[b].at = "create"
                                       THEN [asking[b] EXCEPT !.here = FALSE] ELSE asking[b]]
        /\ UNCHANGED <<btcKey, retiring>>
    BY <1>7 DEF SocketCloses
  <2>2. /\ ws' \in [state: {"connecting", "open", "closed"}, loaded: BOOLEAN,
                    subs: SUBSET Triples]
        /\ ws'.loaded = FALSE
    BY <1>1, <2>1
  <2>3. ASSUME NEW b \in Askers
        PROVE  /\ asking'[b] \in AskRow \cup {Idle} /\ asking'[b].at = asking[b].at
               /\ asking[b].at = "create" => /\ asking'[b].addr = asking[b].addr
                                             /\ asking'[b].todo = asking[b].todo
                                             /\ asking'[b].here = FALSE
    <3>1. asking[b] \in AskRow \cup {Idle}
      BY <1>1
    <3>2. CASE asking[b].at = "create"
      <4>1. asking[b] \in AskRow /\ asking'[b] = [asking[b] EXCEPT !.here = FALSE]
        BY <2>1, <3>1, <3>2 DEF Idle
      <4> QED BY <4>1 DEF AskRow
    <3>3. CASE asking[b].at # "create"
      BY <2>1, <3>1, <3>3
    <3> QED BY <3>2, <3>3
  <2>4. asking' \in [Askers -> AskRow \cup {Idle}]
    BY <2>1, <2>3
  <2>5. AddrTypes'
    BY <1>1, <1>2, <2>1, <2>2, <2>3, <2>4 DEF AddrTypes, AddrTypeOK
  <2>6. SubscribedAgain' /\ KeysAreRetired'
    BY <1>2, <2>1, <2>2 DEF AddrInv, SubscribedAgain, KeysAreRetired
  <2>7. IndexIsFree'
    <3> SUFFICES ASSUME NEW b \in Askers, NEW c \in Askers, asking'[b].at = "create",
                        Counted(evmKey, asking'[b].addr)
                 PROVE  /\ ~\E r \in addresses : r.addr = asking'[b].addr
                        /\ asking'[c].at = "create" /\ asking'[b].addr = asking'[c].addr
                               => b = c
      BY <1>2 DEF IndexIsFree, Counted
    <3>1. /\ asking[b].at = "create" /\ asking'[b].addr = asking[b].addr
          /\ asking'[c].at = "create" => /\ asking[c].at = "create"
                                         /\ asking'[c].addr = asking[c].addr
      BY <2>3
    <3>2. /\ ~\E r \in addresses : r.addr = asking[b].addr
          /\ asking[c].at = "create" /\ asking[b].addr = asking[c].addr => b = c
      BY <3>1 DEF AddrInv, IndexIsFree, Counted
    <3> QED BY <3>1, <3>2
  <2>8. (\A b \in Askers : AskIsIssued(asking[b], evmKey, btcKey, nextIndex, ws))'
    BY <1>2, <2>1, <2>3 DEF AddrInv, AskIsIssued
  <2> QED BY <1>3, <1>4, <2>5, <2>6, <2>7, <2>8 DEF AddrInv
<1>8. CASE RestartIssuer
  <2>1. /\ ws' = Connecting(ws) /\ asking' = [b \in Askers |-> Idle]
        /\ btcKey' \in {btcKey, 2} /\ retiring' = retiring
    BY <1>8 DEF RestartIssuer
  <2>2. /\ ws' \in [state: {"connecting", "open", "closed"}, loaded: BOOLEAN,
                    subs: SUBSET Triples]
        /\ ws'.loaded = FALSE
    BY <1>1, <2>1 DEF Connecting
  <2>3. \A b \in Askers : asking'[b].at = "none"
    BY <2>1 DEF Idle
  <2>4. AddrTypes'
    BY <1>1, <1>2, <2>1, <2>2, <2>3 DEF AddrTypes, AddrTypeOK
  <2>5. SubscribedAgain' /\ IndexIsFree'
    BY <2>2, <2>3 DEF SubscribedAgain, IndexIsFree
  <2>6. KeysAreRetired'
    BY <1>2, <2>1 DEF AddrInv, KeysAreRetired
  <2>7. (\A b \in Askers : AskIsIssued(asking[b], evmKey, btcKey, nextIndex, ws))'
    BY <2>3 DEF AskIsIssued
  <2> QED BY <1>3, <1>4, <2>4, <2>5, <2>6, <2>7 DEF AddrInv
<1>9. CASE RetireReads
  <2> DEFINE read == {r.addr : r \in {r \in addresses :
                          r.asset = "BTC" /\ ~r.retired /\ r.addr[2] # btcKey}}
  <2>1. /\ retiring' = [retiring EXCEPT !.key = btcKey, !.read = read]
        /\ btcKey # 0 /\ UNCHANGED <<btcKey, asking, ws>>
    BY <1>9 DEF RetireReads
  <2>2. read \subseteq Triples
    BY <1>1 DEF AddressRow
  <2>3. \A r \in addresses : r.asset = "BTC" /\ ~r.retired /\ r.addr[2] # btcKey
                             => r.addr \in read
    OBVIOUS
  <2> HIDE DEF read
  <2>4. /\ retiring' \in [read: SUBSET Triples, key: 0..2, ranFor: 0..2]
        /\ retiring'.key = btcKey /\ retiring'.read = read
        /\ retiring'.ranFor = retiring.ranFor
    BY <1>1, <2>1, <2>2
  <2>5. AddrTypes'
    BY <1>1, <1>2, <2>1, <2>4 DEF AddrTypes, AddrTypeOK
  <2>6. SubscribedAgain' /\ IndexIsFree'
    BY <1>2, <2>1 DEF AddrInv, SubscribedAgain, IndexIsFree
  <2>7. KeysAreRetired'
    BY <1>2, <2>1, <2>3, <2>4 DEF AddrInv, KeysAreRetired
  <2>8. (\A b \in Askers : AskIsIssued(asking[b], evmKey, btcKey, nextIndex, ws))'
    BY <1>2, <2>1 DEF AddrInv, AskIsIssued
  <2> QED BY <1>3, <1>4, <2>5, <2>6, <2>7, <2>8 DEF AddrInv
<1> QED BY <1>5, <1>6, <1>7, <1>8, <1>9

\* Rows are rewritten: subscribed again, or retired.
LEMMA RowsKeep ==
  ASSUME AddrInv, LoadRows \/ RetireWrites
  PROVE  AddrInv'
<1> DEFINE New(r) == IF LoadRows THEN [r EXCEPT !.late = FALSE]
                     ELSE [r EXCEPT !.retired = @ \/ r.addr \in retiring.read]
<1>1. /\ AddrTypes /\ asking \in [Askers -> AskRow \cup {Idle}]
      /\ addresses \subseteq AddressRow
      /\ ws \in [state: {"connecting", "open", "closed"}, loaded: BOOLEAN, subs: SUBSET Triples]
      /\ retiring \in [read: SUBSET Triples, key: 0..2, ranFor: 0..2]
  BY DEF AddrInv, AddrTypes
<1>2. UNCHANGED <<evmKey, btcKey, nextIndex, asking, told, requested, events>>
  BY DEF LoadRows, RetireWrites
<1>3. LoadRows => ~RetireWrites \/ addresses' = {New(r) : r \in addresses}
  BY DEF LoadRows
<1>4. addresses' = {New(r) : r \in addresses}
  BY DEF LoadRows, RetireWrites
<1>5. ASSUME NEW r \in addresses
      PROVE  /\ New(r) \in AddressRow /\ New(r).addr = r.addr /\ New(r).owner = r.owner
             /\ New(r).asset = r.asset
             /\ LoadRows => New(r).late = FALSE /\ New(r).retired = r.retired
             /\ ~LoadRows => /\ New(r).late = r.late
                             /\ New(r).retired = (r.retired \/ r.addr \in retiring.read)
  <2>1. r \in AddressRow
    BY <1>1
  <2> QED BY <2>1 DEF AddressRow
<1> HIDE DEF New
<1>6. \A s \in addresses' : \E r \in addresses : s = New(r)
  BY <1>4
<1>7. \A r \in addresses : New(r) \in addresses'
  BY <1>4
<1>8. addresses' \subseteq AddressRow
  BY <1>5, <1>6
<1>9. /\ \A r, s \in addresses' : r.addr = s.addr => r = s
      /\ \A r \in addresses' : r.owner \in Owners /\ r.asset \in Assets /\ r.retired \in BOOLEAN
  <2>1. \A r, s \in addresses : r.addr = s.addr => r = s
    BY <1>1 DEF AddrTypes, AddrTypeOK
  <2>2. ASSUME NEW r \in addresses, NEW s \in addresses, New(r).addr = New(s).addr
        PROVE  New(r) = New(s)
    <3>1. New(r).addr = r.addr /\ New(s).addr = s.addr
      BY <1>5
    <3>2. r = s
      BY <2>1, <2>2, <3>1
    <3> QED BY <3>2
  <2> QED BY <1>6, <1>8, <2>2 DEF AddressRow
<1>10. ToldIsKept'
  <2> SUFFICES ASSUME NEW t \in told
               PROVE  \E s \in addresses' : s.addr = t.addr /\ s.owner = t.owner
                                            /\ s.asset = t.asset
    BY <1>2 DEF ToldIsKept
  <2>1. PICK r \in addresses : r.addr = t.addr /\ r.owner = t.owner /\ r.asset = t.asset
    BY DEF AddrInv, ToldIsKept
  <2> QED BY <1>5, <1>7, <2>1
<1>11. ToldFromCurrentKey'
  BY <1>2 DEF AddrInv, ToldFromCurrentKey
<1>12. IndexIsFree'
  <2> SUFFICES ASSUME NEW b \in Askers, NEW c \in Askers, asking[b].at = "create",
                      Counted(evmKey, asking[b].addr)
               PROVE  /\ ~\E s \in addresses' : s.addr = asking[b].addr
                      /\ asking[c].at = "create" /\ asking[b].addr = asking[c].addr => b = c
    BY <1>2 DEF IndexIsFree, Counted
  <2>1. /\ ~\E r \in addresses : r.addr = asking[b].addr
        /\ asking[c].at = "create" /\ asking[b].addr = asking[c].addr => b = c
    BY DEF AddrInv, IndexIsFree, Counted
  <2>2. ASSUME NEW s \in addresses', s.addr = asking[b].addr PROVE FALSE
    <3>1. PICK r \in addresses : s = New(r)
      BY <1>6
    <3> QED BY <1>5, <2>1, <2>2, <3>1
  <2> QED BY <2>1, <2>2
<1>13. (\A r \in addresses : IssuedFor(evmKey, r.asset, r.addr, nextIndex))'
  BY <1>2, <1>5, <1>6 DEF AddrInv
<1>14. CASE LoadRows
  <2>1. /\ ws.state = "open" /\ ws' = [ws EXCEPT !.loaded = TRUE, !.subs = @ \cup Loaded]
        /\ retiring' = retiring
    BY <1>14 DEF LoadRows
  <2>2. Loaded \subseteq Triples
    BY <1>1 DEF Loaded, AddressRow
  <2>3. /\ ws' \in [state: {"connecting", "open", "closed"}, loaded: BOOLEAN,
                    subs: SUBSET Triples]
        /\ ws'.state = "open" /\ ws.subs \subseteq ws'.subs /\ Loaded \subseteq ws'.subs
    BY <1>1, <2>1, <2>2
  <2>4. AddrTypes'
    BY <1>1, <1>2, <1>8, <1>9, <2>1, <2>3 DEF AddrTypes, AddrTypeOK
  <2>5. SubscribedAgain'
    <3> SUFFICES ASSUME NEW s \in addresses', s.addr[1] = "bsc"
                 PROVE  s.addr \in ws'.subs
      BY DEF SubscribedAgain
    <3>1. PICK r \in addresses : s = New(r)
      BY <1>6
    <3>2. s.addr = r.addr /\ r.addr \in Loaded
      BY <1>5, <3>1 DEF Loaded
    <3> QED BY <2>3, <3>2
  <2>6. KeysAreRetired'
    <3>1. ASSUME NEW s \in addresses', s.asset = "BTC", ~s.retired, s.addr[2] # btcKey
          PROVE  /\ retiring.key = btcKey /\ btcKey # 0 => s.addr \in retiring.read
                 /\ retiring.ranFor = btcKey => btcKey = 0
      <4>1. PICK r \in addresses : s = New(r)
        BY <1>6
      <4>2. s.addr = r.addr /\ s.asset = r.asset /\ s.retired = r.retired
        BY <1>5, <1>14, <4>1
      <4> QED BY <3>1, <4>2 DEF AddrInv, KeysAreRetired
    <3> QED BY <1>2, <2>1, <3>1 DEF AddrInv, KeysAreRetired
  <2>7. (\A b \in Askers : AskIsIssued(asking[b], evmKey, btcKey, nextIndex, ws))'
    BY <1>2, <2>1, <2>3 DEF AddrInv, AskIsIssued
  <2> QED BY <1>10, <1>11, <1>12, <1>13, <2>4, <2>5, <2>6, <2>7 DEF AddrInv
<1>15. CASE RetireWrites /\ ~LoadRows
  <2>1. /\ retiring' = [read |-> {}, key |-> 0, ranFor |-> retiring.key]
        /\ ws' = ws /\ retiring.key # 0
    BY <1>15 DEF RetireWrites
  <2>2. /\ retiring' \in [read: SUBSET Triples, key: 0..2, ranFor: 0..2]
        /\ retiring'.key = 0 /\ retiring'.ranFor = retiring.key
    BY <1>1, <2>1
  <2>3. AddrTypes'
    BY <1>1, <1>2, <1>8, <1>9, <2>1, <2>2 DEF AddrTypes, AddrTypeOK
  <2>4. SubscribedAgain'
    BY <1>5, <1>6, <1>15, <2>1 DEF AddrInv, SubscribedAgain
  <2>5. KeysAreRetired'
    <3>1. retiring.key = 2 => btcKey = 2
      BY DEF AddrInv, KeysAreRetired
    <3>2. ASSUME NEW s \in addresses', s.asset = "BTC", ~s.retired, s.addr[2] # btcKey,
                 retiring.key = btcKey
          PROVE  FALSE
      <4>1. PICK r \in addresses : s = New(r)
        BY <1>6
      <4>2. /\ r.asset = "BTC" /\ r.addr[2] # btcKey /\ r.addr \notin retiring.read
            /\ ~r.retired
        BY <1>5, <1>15, <3>2, <4>1
      <4> QED BY <2>1, <3>2, <4>2 DEF AddrInv, KeysAreRetired
    <3>3. btcKey' = btcKey
      BY <1>2
    <3>4. ASSUME NEW s \in addresses', s.asset = "BTC", ~s.retired, s.addr[2] # btcKey'
          PROVE  /\ retiring'.key = btcKey' /\ btcKey' # 0 => s.addr \in retiring'.read
                 /\ retiring'.ranFor = btcKey' => btcKey' = 0
      BY <2>2, <3>2, <3>3, <3>4
    <3> QED BY <2>2, <3>1, <3>3, <3>4 DEF KeysAreRetired
  <2>6. (\A b \in Askers : AskIsIssued(asking[b], evmKey, btcKey, nextIndex, ws))'
    BY <1>2, <2>1 DEF AddrInv, AskIsIssued
  <2> QED BY <1>10, <1>11, <1>12, <1>13, <2>3, <2>4, <2>5, <2>6 DEF AddrInv
<1> QED BY <1>14, <1>15

LEMMA AddressesKeep == AddrInv /\ [AddrNext]_addrVars => AddrInv'
<1> SUFFICES ASSUME AddrInv, [AddrNext]_addrVars PROVE AddrInv'
  OBVIOUS
<1>1. CASE UNCHANGED addrVars
  <2>1. AddrTypes'
    BY <1>1 DEF AddrInv, AddrTypes, AddrTypeOK, addrVars
  <2>2. (ToldIsKept /\ ToldFromCurrentKey /\ IndexIsFree /\ SubscribedAgain
         /\ KeysAreRetired)'
    BY <1>1 DEF AddrInv, ToldIsKept, ToldFromCurrentKey, IndexIsFree, SubscribedAgain,
                KeysAreRetired, addrVars
  <2> QED BY <1>1, <2>1, <2>2 DEF AddrInv, addrVars
<1>2. CASE AddrNext
  BY <1>2, AsksKeep, TakeKeeps, CreateKeeps, SocketKeeps, RowsKeep DEF AddrNext
<1> QED BY <1>1, <1>2

\* An address stays its user's and is watched, for any users, requests, restarts
\* and closings of the socket, with one EVM wallet or many.
THEOREM AddressesStay == AddrSpec => [](AddrTypeOK /\ AddressesAreKept)
<1>1. AddrInv => AddrTypeOK /\ AddressesAreKept
  <2> SUFFICES ASSUME AddrInv PROVE AddrTypeOK /\ AddressesAreKept
    OBVIOUS
  <2>1. \A r, s \in addresses : r.addr = s.addr => r = s
    BY DEF AddrInv, AddrTypes, AddrTypeOK
  <2>2. ToldToOne
    BY <2>1 DEF AddrInv, ToldIsKept, ToldToOne
  <2> QED BY <2>2 DEF AddrInv, AddrTypes, AddressesAreKept
<1> QED BY <1>1, AddressesStart, AddressesKeep, PTL DEF AddrSpec

-----------------------------------------------------------------------------
(* Review.  The account's books balance at every step; a page on which        *)
(* nothing moved has read, of each source, what the account still has.        *)

\* What days of each amount come to.
WorthOf(m) == m[FreeMost] * FreeMost + m[FreeMost + Power] * (FreeMost + Power)
                  + m[ForgedDay] * ForgedDay

Held     == IF request \in {"deducted", "reserved", "rejected"} THEN Asked ELSE 0
Incoming == IF incoming = "none" THEN 0 ELSE Deposited

BooksBalance ==
    balance + sentOut * Asked + Held = WorthOf(days) + settling + Incoming + support

\* A page that reads has seen what is there now.
PageReads ==
    review.at = "reads" =>
        /\ review.says = "none"
        /\ ~review.moved =>
               /\ ~HalfDone
               /\ "days"    \notin review.unread => review.mined = days
               /\ "deposit" \notin review.unread =>
                      review.deposit = IF incoming = "marked" THEN Deposited ELSE 0
               /\ "paid"    \notin review.unread => review.paid = PaidOut
               /\ "balance" \notin review.unread => review.balance = balance
               /\ "power"   \notin review.unread => review.power = power

\* Of the days a page has read, what a cap explains.
WithinOf(r) ==
    r.mined[FreeMost] * FreeMost
        + r.mined[FreeMost + Power] * (IF r.power = 0 THEN FreeMost ELSE FreeMost + Power)
        + r.mined[ForgedDay] * (FreeMost + r.power)

VerdictOf(r) ==
    IF r.balance + r.paid - (WithinOf(r) + r.deposit)
           <= Max({(WithinOf(r) + r.deposit) \div 100, DayCap(0)})
    THEN "clean" ELSE "unexplained"

\* A page that is shown says what it read.
PageShows ==
    review.at = "shown" /\ review.says # "none" =>
        /\ review.says = VerdictOf(review)
        /\ ~review.moved =>
               review.balance + review.paid = WorthOf(review.mined) + review.deposit + support

RevInv ==
    /\ RevTypeOK /\ BooksBalance /\ PageReads /\ PageShows
    /\ review.unread # {} => review.at = "reads"
    /\ review.at = "none" => review.says = "none"

----------------------------------------------------------------------------
LEMMA AmountFacts ==
  /\ FreeMost \in Nat /\ Power \in Nat /\ ForgedDay \in Nat /\ Deposited \in Nat /\ Asked \in Nat
  /\ FreeMost > 0 /\ Power > 0 /\ ForgedDay > FreeMost + Power
  /\ FreeMost + Power \in Nat /\ MaxSteps \in Nat /\ Credits \subseteq Nat
  /\ Amounts \subseteq Nat
  /\ FreeMost \in Amounts /\ FreeMost + Power \in Amounts /\ ForgedDay \in Amounts
  /\ FreeMost # FreeMost + Power /\ FreeMost # ForgedDay /\ FreeMost + Power # ForgedDay
<1>1. /\ FreeMost \in Nat /\ Power \in Nat /\ ForgedDay \in Nat /\ Deposited \in Nat /\ Asked \in Nat
      /\ FreeMost > 0 /\ Power > 0 /\ ForgedDay > FreeMost + Power /\ MaxSteps \in Nat
      /\ Credits \subseteq Nat
  BY ReviewAssumption
<1> QED BY <1>1 DEF Amounts

LEMMA TimesOneMore == \A a, b \in Nat : (a + 1) * b = a * b + b /\ a * b \in Nat
OBVIOUS

LEMMA TimesGap == \A a, b, c \in Nat : c * (a - b) = c * a - c * b
OBVIOUS

LEMMA MinOfTwo ==
  ASSUME NEW a \in Int, NEW b \in Int
  PROVE  Min({a, b}) = IF a <= b THEN a ELSE b
<1>1. \E x \in {a, b} : \A y \in {a, b} : x <= y
  BY a <= b \/ b <= a
<1>2. Min({a, b}) \in {a, b} /\ Min({a, b}) <= a /\ Min({a, b}) <= b
  BY <1>1 DEF Min
<1> QED BY <1>2

\* The sum over the three amounts, in full.
LEMMA SumOfAmounts ==
  ASSUME NEW f, \A d \in Amounts : f[d] \in Int
  PROVE  SumOf(f, Amounts) = f[FreeMost] + f[FreeMost + Power] + f[ForgedDay]
<1> DEFINE two == {FreeMost + Power, ForgedDay}
<1>1. IsFiniteSet(two) /\ IsFiniteSet(Amounts) /\ IsFiniteSet({ForgedDay})
  <2>1. IsFiniteSet({}) /\ IsFiniteSet({} \cup {ForgedDay})
    BY FS_EmptySet, FS_AddElement
  <2>2. IsFiniteSet({ForgedDay} \cup {FreeMost + Power})
    BY <2>1, FS_AddElement
  <2>3. two = {ForgedDay} \cup {FreeMost + Power} /\ Amounts = two \cup {FreeMost}
    BY DEF Amounts
  <2> HIDE DEF two
  <2>4. IsFiniteSet(two) /\ IsFiniteSet(two \cup {FreeMost})
    BY <2>2, <2>3, FS_AddElement
  <2> QED BY <2>1, <2>3, <2>4
<1>2. /\ FreeMost \in Amounts /\ FreeMost + Power \in two
      /\ Amounts \ {FreeMost} = two /\ two \ {FreeMost + Power} = {ForgedDay}
      /\ \A d \in two : f[d] \in Int
      /\ f[FreeMost] \in Int /\ f[FreeMost + Power] \in Int /\ f[ForgedDay] \in Int
  BY AmountFacts DEF Amounts
<1> HIDE DEF two
<1>3. SumOf(f, Amounts) = f[FreeMost] + SumOf(f, Amounts \ {FreeMost})
  BY <1>1, <1>2, SumRemove
<1>4. SumOf(f, two) = f[FreeMost + Power] + SumOf(f, two \ {FreeMost + Power})
  BY <1>1, <1>2, SumRemove
<1>5. SumOf(f, {ForgedDay}) = f[ForgedDay]
  BY <1>2, SumSingleton
<1>6. SumOf(f, Amounts) = f[FreeMost] + (f[FreeMost + Power] + f[ForgedDay])
  BY <1>2, <1>3, <1>4, <1>5
<1>7. \A a, b, c \in Int : a + (b + c) = a + b + c
  OBVIOUS
<1> QED BY <1>2, <1>6, <1>7

LEMMA MinedIs ==
  ASSUME RevTypeOK
  PROVE  MinedWithin(review.power) = WithinOf(review)
<1> DEFINE cap  == DayCap(review.power)
           f    == [d \in Amounts |-> review.mined[d] * Min({d, cap})]
<1>1. /\ review.mined \in [Amounts -> Nat] /\ review.power \in {0, Power}
      /\ cap = FreeMost + review.power /\ cap \in Nat
  BY AmountFacts DEF RevTypeOK, DayCap
<1>2. IsFiniteSet(Amounts)
  <2>1. IsFiniteSet({}) /\ IsFiniteSet({} \cup {ForgedDay})
    BY FS_EmptySet, FS_AddElement
  <2>2. IsFiniteSet({ForgedDay} \cup {FreeMost + Power})
    BY <2>1, FS_AddElement
  <2>3. IsFiniteSet(({ForgedDay} \cup {FreeMost + Power}) \cup {FreeMost})
    BY <2>2, FS_AddElement
  <2>4. Amounts = ({ForgedDay} \cup {FreeMost + Power}) \cup {FreeMost}
    BY DEF Amounts
  <2> QED BY <2>3, <2>4
<1>3. /\ Min({FreeMost, cap}) = FreeMost
      /\ Min({FreeMost + Power, cap}) = IF review.power = 0 THEN FreeMost ELSE FreeMost + Power
      /\ Min({ForgedDay, cap}) = FreeMost + review.power
  <2>1. Min({FreeMost, cap}) = IF FreeMost <= cap THEN FreeMost ELSE cap
    BY <1>1, AmountFacts, MinOfTwo
  <2>2. Min({FreeMost + Power, cap}) = IF FreeMost + Power <= cap THEN FreeMost + Power ELSE cap
    BY <1>1, AmountFacts, MinOfTwo
  <2>3. Min({ForgedDay, cap}) = IF ForgedDay <= cap THEN ForgedDay ELSE cap
    BY <1>1, AmountFacts, MinOfTwo
  <2> HIDE DEF cap
  <2> QED BY <1>1, <2>1, <2>2, <2>3, AmountFacts
<1>4. MinedWithin(review.power) = SumOf(f, Amounts)
  <2> DEFINE IsIt(g) == g = [s \in SUBSET Amounts |->
                 IF s = {} THEN 0
                 ELSE review.mined[Pick(s)] * Min({Pick(s), DayCap(review.power)}) + g[Rest(s)]]
  <2>1. \A g : IsIt(g) <=> IsSum(g, f, SUBSET Amounts)
    <3>1. \A s \in SUBSET Amounts : s # {} => Pick(s) \in Amounts
      BY DEF Pick
    <3>2. \A s \in SUBSET Amounts : s # {} =>
              f[Pick(s)] = review.mined[Pick(s)] * Min({Pick(s), DayCap(review.power)})
      BY <3>1
    <3> HIDE DEF f
    <3> QED BY <3>2 DEF IsSum
  <2>2. \E g : IsIt(g)
    BY <1>2, <2>1, SumExists
  <2>3. \E g : IsIt(g) /\ MinedWithin(review.power) = g[Amounts]
    BY <2>2 DEF MinedWithin, MapThenSumSet, MapThenFoldSet, Pick, Rest
  <2> HIDE DEF IsIt, f
  <2>4. PICK g : IsSum(g, f, SUBSET Amounts) /\ MinedWithin(review.power) = g[Amounts]
    BY <2>1, <2>3
  <2> QED BY <1>2, <2>4, SumWithin
<1> HIDE DEF cap
<1>5. /\ f[FreeMost] = review.mined[FreeMost] * FreeMost
      /\ f[FreeMost + Power] = review.mined[FreeMost + Power]
                                   * (IF review.power = 0 THEN FreeMost ELSE FreeMost + Power)
      /\ f[ForgedDay] = review.mined[ForgedDay] * (FreeMost + review.power)
  BY <1>3, AmountFacts
<1>6. \A d \in Amounts : f[d] \in Int
  <2>1. \A d \in Amounts : Min({d, cap}) \in Int
    BY <1>1, AmountFacts, MinOfTwo
  <2>2. \A d \in Amounts : review.mined[d] \in Int
    BY <1>1
  <2> QED BY <2>1, <2>2
<1> HIDE DEF f
<1> QED BY <1>4, <1>5, <1>6, SumOfAmounts DEF WithinOf

----------------------------------------------------------------------------
\* The fields of the page, and what the account holds.
LEMMA RevFacts ==
  ASSUME RevInv
  PROVE  /\ days \in [Amounts -> Nat] /\ support \in Nat /\ support \in Credits
         /\ balance \in Nat /\ power \in {0, Power}
         /\ settling \in Amounts \cup {0} /\ settling \in Nat
         /\ incoming \in {"none", "paid", "marked"}
         /\ request \in {"none", "asked", "deducted", "reserved", "restored", "rejected"}
         /\ sentOut \in Nat /\ sentOut * Asked \in Nat /\ steps \in 0..MaxSteps
         /\ review \in [at: {"none", "reads", "shown"}, unread: SUBSET Sources,
                        mined: [Amounts -> Nat], deposit: Nat, paid: Nat, balance: Nat,
                        power: {0, Power}, moved: BOOLEAN,
                        says: {"none", "clean", "unexplained"}]
         /\ balance + sentOut * Asked + Held = WorthOf(days) + settling + Incoming + support
         /\ WorthOf(days) \in Nat /\ Held \in Nat /\ Incoming \in Nat
<1>1. RevTypeOK /\ BooksBalance
  BY DEF RevInv
<1>2. support \in Nat /\ settling \in Nat /\ Held \in Nat /\ Incoming \in Nat
  BY <1>1, AmountFacts DEF RevTypeOK, Held, Incoming
<1>3. sentOut * Asked \in Nat
  BY <1>1, AmountFacts DEF RevTypeOK
<1>4. WorthOf(days) \in Nat
  <2>1. days[FreeMost] \in Nat /\ days[FreeMost + Power] \in Nat /\ days[ForgedDay] \in Nat
    BY <1>1, AmountFacts DEF RevTypeOK
  <2>2. /\ days[FreeMost] * FreeMost \in Nat /\ days[ForgedDay] * ForgedDay \in Nat
        /\ days[FreeMost + Power] * (FreeMost + Power) \in Nat
    BY <2>1, AmountFacts, TimesOneMore
  <2> QED BY <2>2 DEF WorthOf
<1> QED BY <1>1, <1>2, <1>3, <1>4 DEF RevTypeOK, BooksBalance

LEMMA ReviewStart == RevInit => RevInv
<1> SUFFICES ASSUME RevInit PROVE RevInv
  OBVIOUS
<1>1. PICK forged \in 0..1 :
          /\ days = [d \in Amounts |-> IF d = ForgedDay THEN forged ELSE 0]
          /\ support \in Credits /\ balance = forged * ForgedDay + support
  BY DEF RevInit
<1>2. support \in Nat /\ forged * ForgedDay \in Nat /\ balance \in Nat /\ forged \in Nat
  BY <1>1, AmountFacts
<1>3. /\ power \in {0, Power} /\ settling = 0 /\ incoming = "none" /\ request = "none"
      /\ sentOut = 0 /\ review = NoPage /\ steps = 0
  BY DEF RevInit
<1>4. RevTypeOK
  <2>1. days \in [Amounts -> Nat]
    BY <1>1, <1>2
  <2>2. review \in [at: {"none", "reads", "shown"}, unread: SUBSET Sources,
                   mined: [Amounts -> Nat], deposit: Nat, paid: Nat, balance: Nat,
                   power: {0, Power}, moved: BOOLEAN,
                   says: {"none", "clean", "unexplained"}]
    BY <1>3 DEF NoPage
  <2> QED BY <1>1, <1>2, <1>3, <2>1, <2>2, AmountFacts DEF RevTypeOK
<1>5. BooksBalance
  <2>1. /\ days[FreeMost] = 0 /\ days[FreeMost + Power] = 0 /\ days[ForgedDay] = forged
    BY <1>1, AmountFacts
  <2>2. WorthOf(days) = forged * ForgedDay
    <3>1. 0 * FreeMost = 0 /\ 0 * (FreeMost + Power) = 0
      BY AmountFacts
    <3> QED BY <1>2, <2>1, <3>1 DEF WorthOf
  <2>3. sentOut * Asked = 0 /\ Held = 0 /\ Incoming = 0
    BY <1>3, AmountFacts DEF Held, Incoming
  <2> QED BY <1>1, <1>2, <1>3, <2>2, <2>3 DEF BooksBalance
<1>6. review.at = "none" /\ review.says = "none" /\ review.unread = {}
  BY <1>3 DEF NoPage
<1> QED BY <1>4, <1>5, <1>6 DEF RevInv, PageReads, PageShows

\* A step of the account: the books balance after it, and a page at work notes it.
LEMMA AccountStep ==
  ASSUME RevInv, Move, support' = support,
         days' \in [Amounts -> Nat], balance' \in Nat, power' \in {0, Power},
         settling' \in Amounts \cup {0}, incoming' \in {"none", "paid", "marked"},
         request' \in {"none", "asked", "deducted", "reserved", "restored", "rejected"},
         sentOut' \in Nat, BooksBalance'
  PROVE  RevInv'
<1>1. /\ support \in Credits /\ steps \in 0..MaxSteps
      /\ review \in [at: {"none", "reads", "shown"}, unread: SUBSET Sources,
                     mined: [Amounts -> Nat], deposit: Nat, paid: Nat, balance: Nat,
                     power: {0, Power}, moved: BOOLEAN,
                     says: {"none", "clean", "unexplained"}]
  BY RevFacts
<1>2. /\ review' = IF review.at = "reads" THEN [review EXCEPT !.moved = TRUE] ELSE review
      /\ steps' \in 0..MaxSteps
  BY <1>1, AmountFacts DEF Move
<1>3. CASE review.at = "reads"
  <2>1. /\ review' \in [at: {"none", "reads", "shown"}, unread: SUBSET Sources,
                        mined: [Amounts -> Nat], deposit: Nat, paid: Nat, balance: Nat,
                        power: {0, Power}, moved: BOOLEAN,
                        says: {"none", "clean", "unexplained"}]
        /\ review'.at = "reads" /\ review'.moved = TRUE /\ review'.says = review.says
        /\ review.says = "none"
    BY <1>1, <1>2, <1>3 DEF RevInv, PageReads
  <2>2. RevTypeOK'
    BY <1>1, <1>2, <2>1 DEF RevTypeOK
  <2> QED BY <2>1, <2>2 DEF RevInv, PageReads, PageShows
<1>4. CASE review.at # "reads"
  <2>1. review' = review
    BY <1>2, <1>4
  <2>2. RevTypeOK'
    BY <1>1, <1>2, <2>1 DEF RevTypeOK
  <2>3. PageReads' /\ PageShows'
    BY <1>4, <2>1 DEF RevInv, PageReads, PageShows, VerdictOf, WithinOf, WorthOf
  <2> QED BY <1>4, <2>1, <2>2, <2>3 DEF RevInv
<1> QED BY <1>3, <1>4

LEMMA DaysKeepBooks ==
  ASSUME RevInv, SettleDay \/ RecordDay
  PROVE  RevInv'
<1>1. /\ days \in [Amounts -> Nat] /\ balance \in Nat /\ power \in {0, Power}
      /\ settling \in Amounts \cup {0} /\ settling \in Nat /\ sentOut * Asked \in Nat
      /\ WorthOf(days) \in Nat /\ Held \in Nat /\ Incoming \in Nat /\ support \in Nat
      /\ incoming \in {"none", "paid", "marked"} /\ sentOut \in Nat
      /\ request \in {"none", "asked", "deducted", "reserved", "restored", "rejected"}
      /\ balance + sentOut * Asked + Held = WorthOf(days) + settling + Incoming + support
  BY RevFacts
<1>2. /\ Move /\ UNCHANGED <<support, power, incoming, request, sentOut>>
      /\ Held' = Held /\ Incoming' = Incoming
  BY DEF SettleDay, RecordDay, Held, Incoming
<1>3. CASE SettleDay
  <2>1. /\ settling = 0 /\ settling' = FreeMost + power
        /\ balance' = balance + FreeMost + power /\ days' = days
    BY <1>3 DEF SettleDay
  <2>2. settling' \in Amounts \cup {0} /\ balance' \in Nat /\ settling' \in Nat
    BY <1>1, <2>1, AmountFacts
  <2>3. BooksBalance'
    <3>1. balance' + sentOut * Asked + Held = WorthOf(days) + settling' + Incoming + support
      <4> DEFINE gone == sentOut * Asked
      <4> HIDE DEF gone
      <4> QED BY <1>1, <2>1, AmountFacts DEF gone
    <3> QED BY <1>2, <2>1, <3>1 DEF BooksBalance
  <2> QED BY <1>1, <1>2, <2>1, <2>2, <2>3, AccountStep
<1>4. CASE RecordDay
  <2>1. /\ settling # 0 /\ settling \in Amounts /\ settling' = 0 /\ balance' = balance
        /\ days' = [days EXCEPT ![settling] = days[settling] + 1]
    BY <1>1, <1>4 DEF RecordDay
  <2>2. days' \in [Amounts -> Nat]
    BY <1>1, <2>1
  <2>3. WorthOf(days') = WorthOf(days) + settling
    <3> DEFINE a == days[FreeMost]
               b == days[FreeMost + Power]
               c == days[ForgedDay]
               aa == a * FreeMost
               bb == b * (FreeMost + Power)
               cc == c * ForgedDay
    <3>1. /\ a \in Nat /\ b \in Nat /\ c \in Nat
          /\ aa \in Nat /\ bb \in Nat /\ cc \in Nat
          /\ (a + 1) * FreeMost = aa + FreeMost
          /\ (b + 1) * (FreeMost + Power) = bb + (FreeMost + Power)
          /\ (c + 1) * ForgedDay = cc + ForgedDay
      BY <1>1, AmountFacts, TimesOneMore
    <3>2. /\ days'[FreeMost] = IF settling = FreeMost THEN a + 1 ELSE a
          /\ days'[FreeMost + Power] = IF settling = FreeMost + Power THEN b + 1 ELSE b
          /\ days'[ForgedDay] = IF settling = ForgedDay THEN c + 1 ELSE c
      BY <1>1, <2>1, AmountFacts
    <3>3. WorthOf(days) = aa + bb + cc
      BY DEF WorthOf
    <3>4. settling = FreeMost \/ settling = FreeMost + Power \/ settling = ForgedDay
      BY <2>1 DEF Amounts
    <3>5. CASE settling = FreeMost
      <4>1. WorthOf(days') = (aa + FreeMost) + bb + cc
        BY <3>1, <3>2, <3>5, AmountFacts DEF WorthOf
      <4> HIDE DEF aa, bb, cc
      <4> QED BY <3>1, <3>3, <3>5, <4>1, AmountFacts
    <3>6. CASE settling = FreeMost + Power
      <4>1. WorthOf(days') = aa + (bb + (FreeMost + Power)) + cc
        BY <3>1, <3>2, <3>6, AmountFacts DEF WorthOf
      <4> HIDE DEF aa, bb, cc
      <4> QED BY <3>1, <3>3, <3>6, <4>1, AmountFacts
    <3>7. CASE settling = ForgedDay
      <4>1. WorthOf(days') = aa + bb + (cc + ForgedDay)
        BY <3>1, <3>2, <3>7, AmountFacts DEF WorthOf
      <4> HIDE DEF aa, bb, cc
      <4> QED BY <3>1, <3>3, <3>7, <4>1, AmountFacts
    <3> QED BY <3>4, <3>5, <3>6, <3>7
  <2>4. BooksBalance'
    <3>1. balance + sentOut * Asked + Held = WorthOf(days') + 0 + Incoming + support
      BY <1>1, <2>3
    <3> QED BY <1>2, <2>1, <3>1 DEF BooksBalance
  <2> QED BY <1>1, <1>2, <2>1, <2>2, <2>4, AccountStep
<1> QED BY <1>3, <1>4

LEMMA MoneyKeepsBooks ==
  ASSUME RevInv,
         \/ PayDeposit \/ MarkDeposit \/ ChangePower
         \/ AskPlain \/ AskReserving \/ Deduct \/ Restore \/ SaveRequest \/ Pay
  PROVE  RevInv'
<1>1. /\ days \in [Amounts -> Nat] /\ balance \in Nat /\ power \in {0, Power}
      /\ settling \in Amounts \cup {0} /\ settling \in Nat /\ sentOut * Asked \in Nat
      /\ WorthOf(days) \in Nat /\ Held \in Nat /\ Incoming \in Nat /\ support \in Nat
      /\ incoming \in {"none", "paid", "marked"} /\ sentOut \in Nat
      /\ request \in {"none", "asked", "deducted", "reserved", "restored", "rejected"}
      /\ balance + sentOut * Asked + Held = WorthOf(days) + settling + Incoming + support
  BY RevFacts
<1>2. Move /\ UNCHANGED <<days, support, settling>> /\ WorthOf(days') = WorthOf(days)
  BY DEF PayDeposit, MarkDeposit, ChangePower, AskPlain, AskReserving, Deduct, Restore,
         SaveRequest, Pay
<1>3. CASE PayDeposit \/ MarkDeposit
  <2>1. /\ UNCHANGED <<power, request, sentOut>> /\ incoming' \in {"none", "paid", "marked"}
        /\ Held' = Held
        /\ balance' + Incoming = balance + Incoming' /\ balance' \in Nat /\ Incoming' \in Nat
    BY <1>1, <1>3, AmountFacts DEF PayDeposit, MarkDeposit, Held, Incoming
  <2>2. BooksBalance'
    <3>1. balance' + sentOut * Asked + Held = WorthOf(days) + settling + Incoming' + support
      <4> DEFINE gone == sentOut * Asked
      <4> HIDE DEF gone
      <4> QED BY <1>1, <2>1 DEF gone
    <3> QED BY <1>2, <2>1, <3>1 DEF BooksBalance
  <2> QED BY <1>1, <1>2, <2>1, <2>2, AccountStep
<1>4. CASE ChangePower
  <2>1. /\ UNCHANGED <<balance, incoming, request, sentOut>> /\ power' \in {0, Power}
        /\ Held' = Held /\ Incoming' = Incoming
    BY <1>1, <1>4, AmountFacts DEF ChangePower, Held, Incoming
  <2>2. BooksBalance'
    BY <1>1, <1>2, <2>1 DEF BooksBalance
  <2> QED BY <1>1, <1>2, <2>1, <2>2, AccountStep
<1>5. CASE AskPlain \/ AskReserving \/ Deduct \/ Restore \/ SaveRequest
  <2>1. /\ UNCHANGED <<power, incoming, sentOut>> /\ Incoming' = Incoming
        /\ request' \in {"none", "asked", "deducted", "reserved", "restored", "rejected"}
        /\ balance' \in Nat /\ Held' \in Nat /\ balance' + Held' = balance + Held
    <3>1. CASE AskPlain
      BY <1>1, <3>1, AmountFacts DEF AskPlain, Held, Incoming
    <3>2. CASE AskReserving
      BY <1>1, <3>2, AmountFacts DEF AskReserving, Held, Incoming
    <3>3. CASE Deduct
      BY <1>1, <3>3, AmountFacts DEF Deduct, Held, Incoming
    <3>4. CASE Restore
      BY <1>1, <3>4, AmountFacts DEF Restore, Held, Incoming
    <3>5. CASE SaveRequest
      BY <1>1, <3>5, AmountFacts DEF SaveRequest, Held, Incoming
    <3> QED BY <1>5, <3>1, <3>2, <3>3, <3>4, <3>5
  <2>2. BooksBalance'
    <3>1. balance' + sentOut * Asked + Held' = WorthOf(days) + settling + Incoming + support
      <4> DEFINE gone == sentOut * Asked
                 rest == WorthOf(days) + settling + Incoming + support
      <4>1. balance + gone + Held = rest /\ gone \in Nat
        BY <1>1
      <4>2. /\ balance \in Nat /\ Held \in Nat /\ balance' \in Nat /\ Held' \in Nat
            /\ balance' + Held' = balance + Held
        BY <1>1, <2>1
      <4> HIDE DEF gone, rest
      <4>3. \A a, b, c, d, e \in Nat : a + b = c + d => a + e + b = c + e + d
        OBVIOUS
      <4>4. balance' + gone + Held' = balance + gone + Held
        <5> DEFINE x == balance'
                   y == Held'
        <5>1. x \in Nat /\ y \in Nat /\ x + y = balance + Held
          BY <4>2
        <5> HIDE DEF x, y
        <5>2. x + gone + y = balance + gone + Held
          BY <4>1, <4>2, <5>1
        <5> QED BY <5>2 DEF x, y
      <4>5. balance' + gone + Held' = rest
        BY <4>1, <4>4
      <4> QED BY <4>5 DEF gone, rest
    <3> QED BY <1>2, <2>1, <3>1 DEF BooksBalance
  <2> QED BY <1>1, <1>2, <2>1, <2>2, AccountStep
<1>6. CASE Pay
  <2>1. /\ UNCHANGED <<power, incoming, balance>> /\ Incoming' = Incoming
        /\ request = "reserved" /\ request' = "none" /\ sentOut' = sentOut + 1
        /\ Held = Asked /\ Held' = 0
    BY <1>6 DEF Pay, Held, Incoming
  <2>2. sentOut' * Asked = sentOut * Asked + Asked /\ sentOut' \in Nat
    BY <1>1, <2>1, AmountFacts, TimesOneMore
  <2>3. BooksBalance'
    <3>1. balance + sentOut' * Asked + 0 = WorthOf(days) + settling + Incoming + support
      <4> DEFINE gone == sentOut * Asked
      <4> HIDE DEF gone
      <4> QED BY <1>1, <2>1, <2>2, AmountFacts DEF gone
    <3> QED BY <1>2, <2>1, <3>1 DEF BooksBalance
  <2> QED BY <1>1, <1>2, <2>1, <2>2, <2>3, AccountStep
<1> QED BY <1>3, <1>4, <1>5, <1>6

\* A find notes what is there; the page is shown with what it noted.
LEMMA PagesKeep ==
  ASSUME RevInv, OpenPage \/ ShowPage \/ ReviewFails \/ \E s \in Sources : ReadSource(s)
  PROVE  RevInv'
<1>1. /\ RevTypeOK /\ balance \in Nat /\ power \in {0, Power} /\ support \in Nat
      /\ days \in [Amounts -> Nat] /\ sentOut * Asked \in Nat
      /\ WorthOf(days) \in Nat /\ Held \in Nat /\ Incoming \in Nat
      /\ incoming \in {"none", "paid", "marked"}
      /\ review \in [at: {"none", "reads", "shown"}, unread: SUBSET Sources,
                     mined: [Amounts -> Nat], deposit: Nat, paid: Nat, balance: Nat,
                     power: {0, Power}, moved: BOOLEAN,
                     says: {"none", "clean", "unexplained"}]
      /\ balance + sentOut * Asked + Held = WorthOf(days) + settling + Incoming + support
  BY RevFacts DEF RevInv
<1>2. UNCHANGED accountVars
  BY DEF OpenPage, ShowPage, ReviewFails, ReadSource
<1>3. /\ UNCHANGED <<days, support, balance, power, settling, incoming, request, sentOut, steps>>
      /\ BooksBalance' /\ HalfDone' = HalfDone /\ PaidOut' = PaidOut
  BY <1>2 DEF accountVars, RevInv, BooksBalance, Held, Incoming, WorthOf, HalfDone, PaidOut
<1>4. ASSUME review' \in [at: {"none", "reads", "shown"}, unread: SUBSET Sources,
                          mined: [Amounts -> Nat], deposit: Nat, paid: Nat, balance: Nat,
                          power: {0, Power}, moved: BOOLEAN,
                          says: {"none", "clean", "unexplained"}]
      PROVE  RevTypeOK'
  BY <1>1, <1>3, <1>4 DEF RevTypeOK
<1>5. /\ NoPage \in [at: {"none", "reads", "shown"}, unread: SUBSET Sources,
                     mined: [Amounts -> Nat], deposit: Nat, paid: Nat, balance: Nat,
                     power: {0, Power}, moved: BOOLEAN,
                     says: {"none", "clean", "unexplained"}]
      /\ NoPage.unread = {} /\ NoPage.says = "none"
  BY DEF NoPage
<1>6. CASE OpenPage
  <2>1. HalfDone \in BOOLEAN
    BY DEF HalfDone
  <2>2. /\ review' \in [at: {"none", "reads", "shown"}, unread: SUBSET Sources,
                        mined: [Amounts -> Nat], deposit: Nat, paid: Nat, balance: Nat,
                        power: {0, Power}, moved: BOOLEAN,
                        says: {"none", "clean", "unexplained"}]
        /\ review'.at = "reads" /\ review'.unread = Sources /\ review'.moved = HalfDone
        /\ review'.says = "none"
    BY <1>5, <1>6, <2>1 DEF OpenPage
  <2>3. PageReads'
    BY <1>3, <2>2 DEF PageReads, Sources
  <2> QED BY <1>3, <1>4, <2>2, <2>3 DEF RevInv, PageShows
<1>7. CASE ReviewFails
  <2>1. /\ review' \in [at: {"none", "reads", "shown"}, unread: SUBSET Sources,
                        mined: [Amounts -> Nat], deposit: Nat, paid: Nat, balance: Nat,
                        power: {0, Power}, moved: BOOLEAN,
                        says: {"none", "clean", "unexplained"}]
        /\ review'.at = "shown" /\ review'.unread = {} /\ review'.says = "none"
    BY <1>5, <1>7 DEF ReviewFails
  <2> QED BY <1>3, <1>4, <2>1 DEF RevInv, PageShows, PageReads
<1>8. CASE ShowPage
  <2>1. /\ review.at = "reads" /\ review.unread = {}
        /\ review' = [review EXCEPT !.at = "shown", !.says = Verdicts]
    BY <1>8 DEF ShowPage
  <2>2. Verdicts = VerdictOf(review) /\ Verdicts \in {"clean", "unexplained"}
    <3>1. MinedWithin(review.power) = WithinOf(review)
      BY <1>1, MinedIs
    <3> QED BY <3>1 DEF Verdicts, VerdictOf, Excess, Explained
  <2>3. /\ review' \in [at: {"none", "reads", "shown"}, unread: SUBSET Sources,
                        mined: [Amounts -> Nat], deposit: Nat, paid: Nat, balance: Nat,
                        power: {0, Power}, moved: BOOLEAN,
                        says: {"none", "clean", "unexplained"}]
        /\ review'.at = "shown" /\ review'.says = VerdictOf(review) /\ review'.unread = {}
        /\ review'.mined = review.mined /\ review'.deposit = review.deposit
        /\ review'.paid = review.paid /\ review'.balance = review.balance
        /\ review'.power = review.power /\ review'.moved = review.moved
    BY <1>1, <2>1, <2>2
  <2>4. VerdictOf(review') = VerdictOf(review) /\ WorthOf(review'.mined) = WorthOf(review.mined)
    BY <2>3 DEF VerdictOf, WithinOf
  <2>5. ASSUME ~review.moved
        PROVE  review.balance + review.paid = WorthOf(review.mined) + review.deposit + support
    <3>1. /\ ~HalfDone /\ review.mined = days /\ review.paid = PaidOut
          /\ review.balance = balance
          /\ review.deposit = IF incoming = "marked" THEN Deposited ELSE 0
      BY <2>1, <2>5 DEF RevInv, PageReads
    <3>2. PaidOut = sentOut * Asked + Held /\ review.deposit = Incoming /\ settling = 0
      BY <1>1, <3>1 DEF HalfDone, PaidOut, Held, Incoming
    <3> DEFINE gone == sentOut * Asked
               worth == WorthOf(days)
    <3>3. /\ balance + gone + Held = worth + settling + Incoming + support
          /\ gone \in Nat /\ worth \in Nat
      BY <1>1
    <3>4. PaidOut = gone + Held /\ WorthOf(review.mined) = worth
      BY <3>1, <3>2
    <3> HIDE DEF gone, worth
    <3> QED BY <1>1, <3>1, <3>2, <3>3, <3>4
  <2>6. PageShows'
    BY <1>3, <2>3, <2>4, <2>5 DEF PageShows
  <2> QED BY <1>3, <1>4, <2>3, <2>6 DEF RevInv, PageReads
<1>9. ASSUME NEW s \in Sources, ReadSource(s) PROVE RevInv'
  <2> DEFINE seen == [review EXCEPT !.unread = review.unread \ {s}]
  <2>1. review.at = "reads" /\ review.says = "none" /\ s \in review.unread
    BY <1>9 DEF ReadSource, RevInv, PageReads
  <2>2. PaidOut \in Nat
    BY <1>1, AmountFacts DEF PaidOut
  <2>3. /\ seen \in [at: {"none", "reads", "shown"}, unread: SUBSET Sources,
                     mined: [Amounts -> Nat], deposit: Nat, paid: Nat, balance: Nat,
                     power: {0, Power}, moved: BOOLEAN,
                     says: {"none", "clean", "unexplained"}]
        /\ seen.at = "reads" /\ seen.says = "none" /\ seen.unread = review.unread \ {s}
        /\ seen.moved = review.moved /\ seen.mined = review.mined
        /\ seen.deposit = review.deposit /\ seen.paid = review.paid
        /\ seen.balance = review.balance /\ seen.power = review.power
    BY <1>1, <2>1
  <2>4. /\ review' \in [at: {"none", "reads", "shown"}, unread: SUBSET Sources,
                        mined: [Amounts -> Nat], deposit: Nat, paid: Nat, balance: Nat,
                        power: {0, Power}, moved: BOOLEAN,
                        says: {"none", "clean", "unexplained"}]
        /\ review'.at = "reads" /\ review'.says = "none"
        /\ review'.unread = review.unread \ {s} /\ review'.moved = review.moved
        /\ review'.mined = IF s = "days" THEN days ELSE review.mined
        /\ review'.deposit = IF s = "deposit"
                             THEN (IF incoming = "marked" THEN Deposited ELSE 0)
                             ELSE review.deposit
        /\ review'.paid = IF s = "paid" THEN PaidOut ELSE review.paid
        /\ review'.balance = IF s = "balance" THEN balance ELSE review.balance
        /\ review'.power = IF s = "power" THEN power ELSE review.power
    <3>1. review' = CASE s = "days"    -> [seen EXCEPT !.mined = days]
                      [] s = "deposit" -> [seen EXCEPT !.deposit =
                                              IF incoming = "marked" THEN Deposited ELSE 0]
                      [] s = "paid"    -> [seen EXCEPT !.paid = PaidOut]
                      [] s = "balance" -> [seen EXCEPT !.balance = balance]
                      [] s = "power"   -> [seen EXCEPT !.power = power]
      BY <1>9 DEF ReadSource
    <3> HIDE DEF seen
    <3>2. CASE s = "days"
      <4>1. review' = [seen EXCEPT !.mined = days]
        BY <3>1, <3>2
      <4> QED BY <1>1, <2>3, <3>2, <4>1
    <3>3. CASE s = "deposit"
      <4> DEFINE d == IF incoming = "marked" THEN Deposited ELSE 0
      <4>1. review' = [seen EXCEPT !.deposit = d] /\ d \in Nat
        BY <3>1, <3>3, AmountFacts
      <4> HIDE DEF d
      <4>2. /\ review' \in [at: {"none", "reads", "shown"}, unread: SUBSET Sources,
                        mined: [Amounts -> Nat], deposit: Nat, paid: Nat, balance: Nat,
                        power: {0, Power}, moved: BOOLEAN,
                        says: {"none", "clean", "unexplained"}]
            /\ review'.at = "reads" /\ review'.says = "none" /\ review'.deposit = d
            /\ review'.unread = review.unread \ {s} /\ review'.moved = review.moved
            /\ review'.mined = review.mined /\ review'.paid = review.paid
            /\ review'.balance = review.balance /\ review'.power = review.power
        BY <2>3, <4>1
      <4> QED BY <3>3, <4>2 DEF d
    <3>4. CASE s = "paid"
      <4>1. review' = [seen EXCEPT !.paid = PaidOut]
        BY <3>1, <3>4
      <4> QED BY <1>1, <2>2, <2>3, <3>4, <4>1
    <3>5. CASE s = "balance"
      <4>1. review' = [seen EXCEPT !.balance = balance]
        BY <3>1, <3>5
      <4> QED BY <1>1, <2>3, <3>5, <4>1
    <3>6. CASE s = "power"
      <4>1. review' = [seen EXCEPT !.power = power]
        BY <3>1, <3>6
      <4> QED BY <1>1, <2>3, <3>6, <4>1
    <3> QED BY <3>2, <3>3, <3>4, <3>5, <3>6 DEF Sources
  <2>5. PageReads'
    <3> SUFFICES ASSUME ~review.moved
                 PROVE  /\ ~HalfDone
                        /\ "days"    \notin review'.unread => review'.mined = days
                        /\ "deposit" \notin review'.unread =>
                               review'.deposit = IF incoming = "marked" THEN Deposited ELSE 0
                        /\ "paid"    \notin review'.unread => review'.paid = PaidOut
                        /\ "balance" \notin review'.unread => review'.balance = balance
                        /\ "power"   \notin review'.unread => review'.power = power
      BY <1>3, <2>4 DEF PageReads
    <3>1. /\ ~HalfDone
          /\ "days"    \notin review.unread => review.mined = days
          /\ "deposit" \notin review.unread =>
                 review.deposit = IF incoming = "marked" THEN Deposited ELSE 0
          /\ "paid"    \notin review.unread => review.paid = PaidOut
          /\ "balance" \notin review.unread => review.balance = balance
          /\ "power"   \notin review.unread => review.power = power
      BY <2>1 DEF RevInv, PageReads
    <3> QED BY <2>4, <3>1
  <2> QED BY <1>3, <1>4, <2>4, <2>5 DEF RevInv, PageShows
<1> QED BY <1>6, <1>7, <1>8, <1>9

LEMMA ReviewKeeps ==
  ASSUME RevInv, [RevNext]_revVars
  PROVE  RevInv'
<1>1. CASE UNCHANGED revVars
  BY <1>1 DEF revVars, accountVars, RevInv, RevTypeOK, BooksBalance, PageReads, PageShows,
     VerdictOf, WithinOf, WorthOf, Held, Incoming, HalfDone, PaidOut
<1> QED BY <1>1, DaysKeepBooks, MoneyKeepsBooks, PagesKeep DEF RevNext

\* Whatever the order of the finds and of the account's own writes, a page accuses an
\* account at rest only of what it never earned or of power that lapsed, shows a clean
\* one only within a free day of that, and its excess is exactly that.
THEOREM ReviewsAreFair == RevSpec => [](RevTypeOK /\ ReviewIsFair)
<1>1. ASSUME RevInv PROVE RevTypeOK /\ ReviewIsFair
  <2>1. RevTypeOK
    BY <1>1 DEF RevInv
  <2> DEFINE shown == review.at = "shown" /\ review.says # "none" /\ ~review.moved
             a == review.mined[FreeMost]
             b == review.mined[FreeMost + Power]
             c == review.mined[ForgedDay]
  <2>2. /\ a \in Nat /\ b \in Nat /\ c \in Nat /\ review.power \in {0, Power}
        /\ review.deposit \in Nat /\ review.balance \in Nat /\ review.paid \in Nat
        /\ review.says \in {"none", "clean", "unexplained"} /\ support \in Nat
        /\ review.at \in {"none", "reads", "shown"} /\ review.moved \in BOOLEAN
    BY <1>1, RevFacts, AmountFacts
  <2>3. /\ MinedWithin(review.power) = WithinOf(review)
        /\ Explained = WithinOf(review) + review.deposit
        /\ Excess = review.balance + review.paid - Explained
    BY <2>1, MinedIs DEF Explained, Excess
  <2>4. review.says # "none" => review.at = "shown"
    BY <1>1, <2>2 DEF RevInv, PageReads
  <2> DEFINE lapsed == IF Lapsed THEN Power * b ELSE 0
             worth == WorthOf(review.mined)
             within == WithinOf(review)
             unearned == c * (ForgedDay - DayCap(review.power))
             aF == a * FreeMost
             bF == b * FreeMost
             cF == c * FreeMost
             bP == b * Power
             cP == c * Power
             cG == c * ForgedDay
  <2>5. aF \in Nat /\ bF \in Nat /\ cF \in Nat /\ bP \in Nat /\ cP \in Nat /\ cG \in Nat
    BY <2>2, AmountFacts, TimesOneMore
  <2>6. worth = aF + (bF + bP) + cG
    BY <2>2, AmountFacts DEF WorthOf
  <2>7. within = IF review.power = 0 THEN aF + bF + cF ELSE aF + (bF + bP) + (cF + cP)
    BY <2>2, AmountFacts DEF WithinOf
  <2>8. unearned = IF review.power = 0 THEN cG - cF ELSE cG - (cF + cP)
    <3>1. CASE review.power = 0
      <4>1. DayCap(review.power) = FreeMost
        BY <3>1, AmountFacts DEF DayCap
      <4> QED BY <2>2, <3>1, <4>1, AmountFacts, TimesGap
    <3>2. CASE review.power = Power
      <4>1. DayCap(review.power) = FreeMost + Power
        BY <3>2, AmountFacts DEF DayCap
      <4>2. c * (FreeMost + Power) = cF + cP
        BY <2>2, AmountFacts
      <4>3. c * (ForgedDay - (FreeMost + Power)) = cG - c * (FreeMost + Power)
        BY <2>2, AmountFacts, TimesGap
      <4>4. review.power # 0
        BY <3>2, AmountFacts
      <4> QED BY <4>1, <4>2, <4>3, <4>4
    <3> QED BY <2>2, <3>1, <3>2
  <2>9. lapsed = IF review.power = 0 THEN bP ELSE 0
    <3>1. b = 0 => bP = 0
      BY AmountFacts
    <3>2. Power * b = bP
      BY <2>2, AmountFacts
    <3> HIDE DEF bP
    <3>3. Lapsed <=> review.power = 0 /\ b > 0
      BY DEF Lapsed
    <3>4. b = 0 \/ b > 0
      BY <2>2
    <3> QED BY <3>1, <3>2, <3>3, <3>4
  <2>10. unearned \in Nat
    <3>1. ForgedDay - DayCap(review.power) \in Nat
      BY <2>2, AmountFacts DEF DayCap
    <3> QED BY <2>2, <3>1, TimesOneMore
  <2>11. Unearned = support + unearned
    BY DEF Unearned
  <2> HIDE DEF aF, bF, cF, bP, cP, cG, lapsed, worth, within, unearned
  <2>12. worth - within = unearned + lapsed
    BY <2>5, <2>6, <2>7, <2>8, <2>9
  <2>13. worth \in Nat /\ within \in Nat /\ lapsed \in Nat
    BY <2>5, <2>6, <2>7, <2>9
  <2>14. Explained = within + review.deposit /\ Explained \in Nat
    BY <2>2, <2>3, <2>13 DEF within
  <2>15. ASSUME shown PROVE Excess = Unearned + lapsed
    <3>1. review.balance + review.paid = worth + review.deposit + support
      BY <1>1, <2>15 DEF RevInv, PageShows, worth
    <3>2. /\ review.deposit \in Nat /\ support \in Nat /\ worth \in Nat /\ within \in Nat
          /\ lapsed \in Nat /\ unearned \in Nat
      BY <2>2, <2>10, <2>13
    <3>3. Excess = worth + review.deposit + support - (within + review.deposit)
      <4>1. Excess = review.balance + review.paid - Explained
        BY <2>3
      <4>2. Explained = within + review.deposit
        BY <2>14
      <4> QED BY <2>2, <3>1, <3>2, <4>1, <4>2
    <3>4. worth + review.deposit + support - (within + review.deposit)
              = support + (worth - within)
      BY <3>2
    <3> HIDE DEF shown
    <3>5. support + (worth - within) = (support + unearned) + lapsed
      BY <2>12, <3>2
    <3> QED BY <2>11, <3>3, <3>4, <3>5
  <2>16. Excess \in Int /\ Unearned \in Nat
    BY <2>2, <2>3, <2>10, <2>11, <2>14
  <2> DEFINE most == Max({Explained \div 100, FreeMost})
  <2>17. most \in Nat /\ most >= 0
    <3>1. Explained \div 100 \in Int
      BY <2>14
    <3>2. FreeMost \in Int /\ FreeMost >= 0
      BY AmountFacts
    <3>3. most \in {Explained \div 100, FreeMost} /\ most >= FreeMost
      BY <3>1, <3>2, MaxOfTwo
    <3>4. most \in Int
      BY <3>1, <3>2, <3>3
    <3> HIDE DEF most
    <3> QED BY <3>2, <3>3, <3>4
  <2>18. DayCap(0) = FreeMost
    BY AmountFacts DEF DayCap
  <2>19. ASSUME shown
         PROVE  review.says = IF Excess <= most THEN "clean" ELSE "unexplained"
    <3>1. review.says = VerdictOf(review)
      BY <1>1, <2>19 DEF RevInv, PageShows
    <3> QED BY <2>3, <2>18, <3>1 DEF VerdictOf
  <2> HIDE DEF most
  <2>20. OnlyCauseAccused
    <3> SUFFICES ASSUME review.says = "unexplained", ~review.moved, ~Lapsed
                 PROVE  Unearned > 0
      BY DEF OnlyCauseAccused
    <3>1. shown
      BY <2>4
    <3>2. Excess = Unearned /\ ~(Excess <= most)
      <4>1. lapsed = 0
        BY DEF lapsed
      <4>2. Excess = Unearned
        BY <2>15, <2>16, <3>1, <4>1
      <4>3. ~(Excess <= most)
        BY <2>19, <3>1
      <4> QED BY <4>2, <4>3
    <3> QED BY <2>16, <2>17, <3>2
  <2>21. ForgedIsSeen
    <3> SUFFICES ASSUME review.says = "clean", ~review.moved
                 PROVE  Unearned <= most
      BY DEF ForgedIsSeen, most
    <3>1. shown
      BY <2>4
    <3>2. Excess = Unearned + lapsed /\ Excess <= most
      BY <2>15, <2>19, <3>1
    <3> QED BY <2>13, <2>16, <2>17, <3>2
  <2>22. ExcessIsUnearned
    BY <2>15 DEF ExcessIsUnearned, lapsed
  <2> QED BY <2>1, <2>20, <2>21, <2>22 DEF ReviewIsFair
<1>2. RevInv /\ [RevNext]_revVars => RevInv'
  BY ReviewKeeps
<1> QED BY <1>1, <1>2, ReviewStart, PTL DEF RevSpec

-----------------------------------------------------------------------------
(* News.  Every fetch but the one in flight and those that found nothing made a *)
(* copy, a lifetime after the one before: so many lifetimes are over.           *)

\* The fetches that the age of a copy accounts for.
Accounted(c) == IF c.feeds = {} THEN 0 ELSE 1 + c.at \div Ttl

FetchesAreCounted ==
    /\ load = NoLoad => loads <= empty + Accounted(copy)
    /\ load # NoLoad =>
           /\ load.since \in 0..tick /\ empty + 1 <= loads
           /\ loads <= empty + 1 + Accounted(copy)
           /\ Accounted(copy) <= load.since \div Ttl

\* What a reader was served came into the copy.
CopyStaysGood == \A r \in Readers : reader[r].served.feeds # {} => copy.feeds # {}

NewsInv == NewsTypeOK /\ FetchesAreCounted /\ CopyStaysGood

----------------------------------------------------------------------------
LEMMA NewsConstants == Ttl \in Nat /\ Ttl > 0 /\ LastStep \in Nat /\ MaxLoads \in Nat
BY NewsAssumption

\* Whole lifetimes, and one more.
LEMMA Lifetimes ==
  /\ \A a \in Nat : a \div Ttl \in Nat
  /\ \A a, b \in Nat : a <= b => a \div Ttl <= b \div Ttl
  /\ \A a, b \in Nat : b - a >= Ttl => 1 + a \div Ttl <= b \div Ttl
<1> DEFINE T == Ttl
<1>1. T \in Nat /\ T > 0
  BY NewsConstants
<1>2. ASSUME NEW a \in Nat
      PROVE  /\ a \div T \in Int /\ a % T \in 0..(T - 1) /\ a = T * (a \div T) + (a % T)
  BY <1>1
<1>3. ASSUME NEW x \in Int, NEW y \in Int, x < y PROVE T * x + T <= T * y
  BY <1>1, <1>3
<1> HIDE DEF T
<1>4. ASSUME NEW a \in Nat PROVE a \div T \in Nat
  <2> DEFINE q == a \div T
             m == a % T
  <2>1. q \in Int /\ m \in 0..(T - 1) /\ a = T * q + m
    BY <1>2
  <2>2. q < 0 => T * q + T <= T * 0
    BY <1>3, <2>1
  <2>3. T * 0 = 0 /\ T * q \in Int
    BY <1>1, <2>1
  <2> HIDE DEF q, m
  <2>4. q >= 0
    BY <1>1, <2>1, <2>2, <2>3
  <2> QED BY <2>1, <2>4 DEF q
<1>5. ASSUME NEW a \in Nat, NEW b \in Nat, a <= b PROVE a \div T <= b \div T
  <2> DEFINE q == a \div T
             m == a % T
             p == b \div T
             n == b % T
  <2>1. /\ q \in Int /\ m \in 0..(T - 1) /\ a = T * q + m
        /\ p \in Int /\ n \in 0..(T - 1) /\ b = T * p + n
    BY <1>2
  <2>2. p < q => T * p + T <= T * q
    BY <1>3, <2>1
  <2>3. T * p \in Int /\ T * q \in Int
    BY <1>1, <2>1
  <2> HIDE DEF q, m, p, n
  <2>4. ~(p < q)
    BY <1>1, <1>5, <2>1, <2>2, <2>3
  <2>5. q <= p
    BY <2>1, <2>4
  <2> QED BY <2>5 DEF p, q
<1>6. ASSUME NEW a \in Nat, NEW b \in Nat, b - a >= T PROVE 1 + a \div T <= b \div T
  <2> DEFINE q == a \div T
             m == a % T
             p == b \div T
             n == b % T
  <2>1. /\ q \in Int /\ m \in 0..(T - 1) /\ a = T * q + m
        /\ p \in Int /\ n \in 0..(T - 1) /\ b = T * p + n
    BY <1>2
  <2>2. p < q => T * p + T <= T * q
    BY <1>3, <2>1
  <2>3. T * p \in Int /\ T * q \in Int
    BY <1>1, <2>1
  <2> HIDE DEF q, m, p, n
  <2>4. ~(p < q) /\ p # q
    BY <1>1, <1>6, <2>1, <2>2, <2>3
  <2>5. 1 + q <= p
    BY <2>1, <2>4
  <2> QED BY <2>5 DEF p, q
<1> QED BY <1>4, <1>5, <1>6 DEF T

LEMMA NewsFacts ==
  ASSUME NewsInv
  PROVE  /\ tick \in 0..LastStep /\ tick \in Nat /\ loads \in 0..MaxLoads /\ loads \in Nat
         /\ empty \in 0..loads /\ empty \in Nat
         /\ copy \in [feeds: SUBSET Feeds, at: 0..tick] /\ copy.at \in Nat /\ copy.at <= tick
         /\ load \in [since: -1..tick, of: [Feeds -> Answers]]
         /\ reader \in [Readers -> [at: {"idle", "waits"},
                                    served: [feeds: SUBSET Feeds, at: 0..tick], dry: BOOLEAN]]
         /\ (load # NoLoad) <=> \E r \in Readers : reader[r].at = "waits"
         /\ Accounted(copy) \in Nat
<1>1. NewsTypeOK
  BY DEF NewsInv
<1>2. tick \in Nat /\ loads \in Nat /\ empty \in Nat /\ copy.at \in Nat /\ copy.at <= tick
  BY <1>1, NewsConstants DEF NewsTypeOK
<1>3. Accounted(copy) \in Nat
  <2>1. copy.at \div Ttl \in Nat
    BY <1>2, Lifetimes
  <2> QED BY <2>1 DEF Accounted
<1> QED BY <1>1, <1>2, <1>3 DEF NewsTypeOK

LEMMA NewsStart == NewsInit => NewsInv
<1> SUFFICES ASSUME NewsInit PROVE NewsInv
  OBVIOUS
<1>1. /\ tick = 0 /\ loads = 0 /\ empty = 0 /\ copy = NoItems /\ load = NoLoad
      /\ reader = [r \in Readers |-> AtRest]
  BY DEF NewsInit
<1>2. /\ NoItems \in [feeds: SUBSET Feeds, at: 0..0]
      /\ NoLoad \in [since: -1..0, of: [Feeds -> Answers]]
      /\ AtRest \in [at: {"idle", "waits"}, served: [feeds: SUBSET Feeds, at: 0..0],
                     dry: BOOLEAN]
      /\ NoItems.feeds = {} /\ AtRest.at = "idle" /\ AtRest.served.feeds = {}
  BY DEF NoItems, NoLoad, AtRest, Answers
<1>3. NewsTypeOK
  BY <1>1, <1>2, NewsConstants DEF NewsTypeOK
<1> QED BY <1>1, <1>2, <1>3 DEF NewsInv, FetchesAreCounted, CopyStaysGood, Accounted

\* A request for a page.
LEMMA ReadsKeep ==
  ASSUME NewsInv, NEW r \in Readers, ReadCopy(r) \/ ReadFeeds(r)
  PROVE  NewsInv' /\ NeverBlank /\ ServedIsRecent
<1>1. /\ tick \in 0..LastStep /\ tick \in Nat /\ loads \in 0..MaxLoads /\ loads \in Nat
      /\ empty \in 0..loads /\ empty \in Nat
      /\ copy \in [feeds: SUBSET Feeds, at: 0..tick] /\ copy.at \in Nat /\ copy.at <= tick
      /\ load \in [since: -1..tick, of: [Feeds -> Answers]]
      /\ reader \in [Readers -> [at: {"idle", "waits"},
                                 served: [feeds: SUBSET Feeds, at: 0..tick], dry: BOOLEAN]]
      /\ (load # NoLoad) <=> \E q \in Readers : reader[q].at = "waits"
      /\ Accounted(copy) \in Nat
  BY NewsFacts
<1>2. FetchesAreCounted /\ CopyStaysGood
  BY DEF NewsInv
<1>3. CASE ReadCopy(r)
  <2> DEFINE x == [AtRest EXCEPT !.served = copy]
  <2>1. /\ reader[r].at = "idle" /\ tick - copy.at < Ttl /\ copy.feeds # {}
        /\ reader' = [reader EXCEPT ![r] = x]
        /\ UNCHANGED <<tick, copy, load, loads, empty>>
    BY <1>3 DEF ReadCopy, IsFresh
  <2>2. /\ x \in [at: {"idle", "waits"}, served: [feeds: SUBSET Feeds, at: 0..tick],
                  dry: BOOLEAN]
        /\ x.at = "idle" /\ x.served = copy
    BY <1>1 DEF AtRest, NoItems
  <2> HIDE DEF x
  <2>3. /\ reader' \in [Readers -> [at: {"idle", "waits"},
                                    served: [feeds: SUBSET Feeds, at: 0..tick], dry: BOOLEAN]]
        /\ reader'[r] = x /\ \A q \in Readers \ {r} : reader'[q] = reader[q]
    BY <1>1, <2>1, <2>2
  <2>4. \A q \in Readers : reader'[q].at = reader[q].at
    BY <2>1, <2>2, <2>3
  <2>5. NewsTypeOK'
    BY <1>1, <2>1, <2>3, <2>4 DEF NewsTypeOK
  <2>6. FetchesAreCounted' /\ CopyStaysGood'
    BY <1>2, <2>1 DEF FetchesAreCounted, CopyStaysGood, Accounted
  <2>7. NeverBlank /\ ServedIsRecent
    <3>1. ASSUME NEW q \in Readers, reader'[q] # reader[q]
          PROVE  reader'[q].served = copy
      BY <2>2, <2>3, <3>1
    <3> QED BY <1>1, <2>1, <3>1 DEF NeverBlank, ServedIsRecent
  <2> QED BY <2>5, <2>6, <2>7 DEF NewsInv
<1>4. CASE ReadFeeds(r)
  <2>1. /\ reader[r].at = "idle" /\ ~IsFresh /\ reader' = [reader EXCEPT ![r].at = "waits"]
        /\ UNCHANGED <<tick, copy, empty>>
    BY <1>4 DEF ReadFeeds
  <2> DEFINE x == [reader[r] EXCEPT !.at = "waits"]
  <2>2. /\ x \in [at: {"idle", "waits"}, served: [feeds: SUBSET Feeds, at: 0..tick],
                  dry: BOOLEAN]
        /\ x.at = "waits" /\ x.served = reader[r].served
        /\ reader' = [reader EXCEPT ![r] = x]
    BY <1>1, <2>1
  <2> HIDE DEF x
  <2>3. /\ reader' \in [Readers -> [at: {"idle", "waits"},
                                    served: [feeds: SUBSET Feeds, at: 0..tick], dry: BOOLEAN]]
        /\ reader'[r] = x /\ \A q \in Readers \ {r} : reader'[q] = reader[q]
        /\ \A q \in Readers : reader'[q].served = reader[q].served
    BY <1>1, <2>1, <2>2
  <2>4. /\ load' \in [since: -1..tick, of: [Feeds -> Answers]] /\ load' # NoLoad
        /\ loads' \in 0..MaxLoads /\ empty \in 0..loads' /\ FetchesAreCounted'
    <3>1. CASE InFlight
      <4>1. UNCHANGED <<load, loads>> /\ load # NoLoad
        BY <1>4, <3>1 DEF ReadFeeds, InFlight
      <4> QED BY <1>1, <1>2, <2>1, <4>1 DEF FetchesAreCounted, Accounted
    <3>2. CASE ~InFlight
      <4> DEFINE y == [since |-> tick, of |-> [f \in Feeds |-> "waiting"]]
      <4>1. /\ load = NoLoad /\ loads < MaxLoads /\ loads' = loads + 1 /\ load' = y
        BY <1>4, <3>2 DEF ReadFeeds, InFlight
      <4>2. y \in [since: -1..tick, of: [Feeds -> Answers]] /\ y.since = tick /\ y # NoLoad
        BY <1>1 DEF Answers, NoLoad
      <4> HIDE DEF y
      <4>3. loads <= empty + Accounted(copy)
        BY <1>2, <4>1 DEF FetchesAreCounted
      <4>4. Accounted(copy) <= tick \div Ttl
        <5>1. CASE copy.feeds = {}
          <6>1. tick \div Ttl \in Nat
            BY <1>1, Lifetimes
          <6> QED BY <5>1, <6>1 DEF Accounted
        <5>2. CASE copy.feeds # {}
          <6>1. tick - copy.at >= Ttl
            BY <1>1, <2>1, <5>2, NewsConstants DEF IsFresh
          <6>2. 1 + copy.at \div Ttl <= tick \div Ttl
            BY <1>1, <6>1, Lifetimes
          <6> QED BY <5>2, <6>2 DEF Accounted
        <5> QED BY <5>1, <5>2
      <4>5. Accounted(copy)' = Accounted(copy)
        BY <2>1 DEF Accounted
      <4>6. /\ loads' <= empty + 1 + Accounted(copy) /\ empty + 1 <= loads'
            /\ loads' \in 0..MaxLoads /\ empty \in 0..loads'
        BY <1>1, <4>1, <4>3, NewsConstants
      <4>7. load'.since \in 0..tick'
        BY <1>1, <2>1, <4>1, <4>2
      <4>8. FetchesAreCounted'
        BY <2>1, <4>1, <4>2, <4>4, <4>5, <4>6, <4>7 DEF FetchesAreCounted
      <4> QED BY <4>1, <4>2, <4>6, <4>8
    <3> QED BY <3>1, <3>2
  <2>5. NewsTypeOK'
    BY <1>1, <2>1, <2>2, <2>3, <2>4 DEF NewsTypeOK
  <2>6. CopyStaysGood'
    BY <1>2, <2>1, <2>3 DEF CopyStaysGood
  <2>7. NeverBlank /\ ServedIsRecent
    BY <2>2, <2>3 DEF NeverBlank, ServedIsRecent
  <2> QED BY <2>4, <2>5, <2>6, <2>7 DEF NewsInv
<1> QED BY <1>3, <1>4

\* Feeds answer, and time passes.
LEMMA FeedsKeep ==
  ASSUME NewsInv, NewsTick \/ \E f \in Feeds : FeedAnswers(f)
  PROVE  NewsInv' /\ reader' = reader
<1>1. /\ tick \in 0..LastStep /\ tick \in Nat /\ loads \in 0..MaxLoads /\ loads \in Nat
      /\ empty \in 0..loads /\ empty \in Nat
      /\ copy \in [feeds: SUBSET Feeds, at: 0..tick] /\ copy.at \in Nat /\ copy.at <= tick
      /\ load \in [since: -1..tick, of: [Feeds -> Answers]]
      /\ reader \in [Readers -> [at: {"idle", "waits"},
                                 served: [feeds: SUBSET Feeds, at: 0..tick], dry: BOOLEAN]]
      /\ (load # NoLoad) <=> \E q \in Readers : reader[q].at = "waits"
  BY NewsFacts
<1>2. FetchesAreCounted /\ CopyStaysGood
  BY DEF NewsInv
<1>3. CASE NewsTick
  <2>1. /\ tick' = tick + 1 /\ tick' \in 0..LastStep /\ 0..tick \subseteq 0..tick'
        /\ -1..tick \subseteq -1..tick'
        /\ UNCHANGED <<copy, load, reader, loads, empty>>
    BY <1>1, <1>3, NewsConstants DEF NewsTick
  <2>2. copy \in [feeds: SUBSET Feeds, at: 0..tick']
    BY <1>1, <2>1
  <2>3. load \in [since: -1..tick', of: [Feeds -> Answers]]
    BY <1>1, <2>1
  <2>4. reader \in [Readers -> [at: {"idle", "waits"},
                                served: [feeds: SUBSET Feeds, at: 0..tick'], dry: BOOLEAN]]
    BY <1>1, <2>1
  <2>5. NewsTypeOK'
    BY <1>1, <2>1, <2>2, <2>3, <2>4 DEF NewsTypeOK
  <2>6. FetchesAreCounted' /\ CopyStaysGood'
    BY <1>2, <2>1 DEF FetchesAreCounted, CopyStaysGood, Accounted
  <2> QED BY <2>1, <2>5, <2>6 DEF NewsInv
<1>4. ASSUME NEW f \in Feeds, FeedAnswers(f) PROVE NewsInv' /\ reader' = reader
  <2>1. PICK a \in Answers \ {"waiting"} :
            /\ load # NoLoad /\ load' = [load EXCEPT !.of[f] = a]
            /\ UNCHANGED <<tick, copy, reader, loads, empty>>
    BY <1>4 DEF FeedAnswers
  <2>2. load.since \in 0..tick
    BY <1>2, <2>1 DEF FetchesAreCounted
  <2>3. /\ load' \in [since: -1..tick, of: [Feeds -> Answers]] /\ load'.since = load.since
    BY <1>1, <2>1
  <2>4. load' # NoLoad
    BY <1>1, <2>2, <2>3 DEF NoLoad
  <2>5. NewsTypeOK'
    BY <1>1, <2>1, <2>3, <2>4 DEF NewsTypeOK
  <2>6. FetchesAreCounted' /\ CopyStaysGood'
    BY <1>2, <2>1, <2>3, <2>4 DEF FetchesAreCounted, CopyStaysGood, Accounted
  <2> QED BY <2>1, <2>5, <2>6 DEF NewsInv
<1> QED BY <1>3, <1>4

\* The last feed has answered.
LEMMA LoadEndsKeeps ==
  ASSUME NewsInv, LoadEnds
  PROVE  NewsInv' /\ NeverBlank /\ ServedIsRecent
<1>1. /\ tick \in 0..LastStep /\ tick \in Nat /\ loads \in 0..MaxLoads /\ loads \in Nat
      /\ empty \in 0..loads /\ empty \in Nat
      /\ copy \in [feeds: SUBSET Feeds, at: 0..tick] /\ copy.at \in Nat /\ copy.at <= tick
      /\ load \in [since: -1..tick, of: [Feeds -> Answers]]
      /\ reader \in [Readers -> [at: {"idle", "waits"},
                                 served: [feeds: SUBSET Feeds, at: 0..tick], dry: BOOLEAN]]
      /\ Accounted(copy) \in Nat
  BY NewsFacts
<1>2. FetchesAreCounted /\ CopyStaysGood
  BY DEF NewsInv
<1> DEFINE blank == Edition.feeds = {}
           x == IF blank THEN copy ELSE Edition
<1>3. /\ load # NoLoad /\ load' = NoLoad /\ copy' = x
      /\ empty' = IF blank THEN empty + 1 ELSE empty
      /\ reader' = [r \in Readers |-> IF reader[r].at # "waits" THEN reader[r]
                                      ELSE [at |-> "idle", served |-> x, dry |-> blank]]
      /\ UNCHANGED <<tick, loads>>
  BY DEF LoadEnds, Keep, Serve
<1>4. /\ Edition \in [feeds: SUBSET Feeds, at: 0..tick] /\ Edition.at = tick
      /\ blank \in BOOLEAN
  BY <1>1 DEF Edition
<1>5. /\ x \in [feeds: SUBSET Feeds, at: 0..tick] /\ x.at >= copy.at
      /\ ~blank => x.feeds # {} /\ x.at = tick
      /\ blank => x = copy
      /\ copy.feeds # {} => x.feeds # {}
      /\ x.at \in Nat
  BY <1>1, <1>4
<1>6. Accounted(x) = IF blank THEN Accounted(copy) ELSE 1 + tick \div Ttl
  BY <1>5 DEF Accounted
<1> HIDE DEF x, blank
<1>7. /\ load.since \in 0..tick /\ empty + 1 <= loads
      /\ loads <= empty + 1 + Accounted(copy)
      /\ Accounted(copy) <= load.since \div Ttl
  BY <1>2, <1>3 DEF FetchesAreCounted
<1>8. /\ load.since \div Ttl \in Nat /\ tick \div Ttl \in Nat
      /\ load.since \div Ttl <= tick \div Ttl
  <2>1. load.since \in Nat /\ load.since <= tick
    BY <1>1, <1>7
  <2> QED BY <1>1, <2>1, Lifetimes
<1>9. loads <= empty' + Accounted(x) /\ empty' \in 0..loads
  <2>1. CASE blank
    BY <1>1, <1>3, <1>6, <1>7, <2>1
  <2>2. CASE ~blank
    <3>1. empty' = empty /\ Accounted(x) = 1 + tick \div Ttl
      BY <1>3, <1>6, <2>2
    <3> QED BY <1>1, <1>7, <1>8, <3>1
  <2> QED BY <2>1, <2>2
<1>10. NoLoad \in [since: -1..tick, of: [Feeds -> Answers]]
  BY <1>1 DEF NoLoad, Answers
<1>11. /\ reader' \in [Readers -> [at: {"idle", "waits"},
                                   served: [feeds: SUBSET Feeds, at: 0..tick], dry: BOOLEAN]]
       /\ \A r \in Readers : reader'[r].at = "idle"
       /\ \A r \in Readers : \/ reader'[r] = reader[r]
                             \/ reader'[r].served = x /\ reader'[r].dry = blank
  BY <1>1, <1>3, <1>4, <1>5
<1>12. NewsTypeOK'
  BY <1>1, <1>3, <1>5, <1>9, <1>10, <1>11 DEF NewsTypeOK
<1>13. FetchesAreCounted'
  <2>1. Accounted(copy)' = Accounted(x)
    BY <1>3 DEF Accounted
  <2> QED BY <1>3, <1>9, <2>1 DEF FetchesAreCounted
<1>14. CopyStaysGood'
  BY <1>2, <1>3, <1>5, <1>11 DEF CopyStaysGood
<1>15. NeverBlank
  BY <1>2, <1>5, <1>11 DEF NeverBlank, CopyStaysGood
<1>16. ServedIsRecent
  <2> SUFFICES ASSUME NEW r \in Readers, reader'[r] # reader[r]
               PROVE  /\ reader'[r].dry \/ tick - reader'[r].served.at < Ttl
                      /\ reader'[r].served.at >= copy.at
    BY DEF ServedIsRecent
  <2>1. reader'[r].served = x /\ reader'[r].dry = blank
    BY <1>11
  <2>2. CASE blank
    BY <1>5, <2>1, <2>2
  <2>3. CASE ~blank
    <3>1. tick - x.at < Ttl
      BY <1>1, <1>5, <2>3, NewsConstants
    <3> QED BY <1>5, <2>1, <3>1
  <2> QED BY <2>2, <2>3
<1> QED BY <1>12, <1>13, <1>14, <1>15, <1>16 DEF NewsInv

LEMMA NewsKeeps ==
  ASSUME NewsInv, [NewsNext]_newsVars
  PROVE  NewsInv' /\ NeverBlank /\ ServedIsRecent
<1>1. ASSUME reader' = reader PROVE NeverBlank /\ ServedIsRecent
  BY <1>1 DEF NeverBlank, ServedIsRecent
<1>2. CASE UNCHANGED newsVars
  <2>1. NewsInv'
    BY <1>2 DEF newsVars, NewsInv, NewsTypeOK, FetchesAreCounted, CopyStaysGood, Accounted
  <2> QED BY <1>1, <1>2, <2>1 DEF newsVars
<1>3. CASE NewsTick \/ \E f \in Feeds : FeedAnswers(f)
  BY <1>1, <1>3, FeedsKeep
<1> QED BY <1>2, <1>3, ReadsKeep, LoadEndsKeeps DEF NewsNext

LEMMA CountedIsSpared ==
  ASSUME NewsInv
  PROVE  FeedsAreSpared
<1>1. /\ tick \in Nat /\ loads \in Nat /\ empty \in Nat /\ copy.at \in Nat /\ copy.at <= tick
      /\ Accounted(copy) \in Nat
  BY NewsFacts
<1>2. copy.at \div Ttl <= tick \div Ttl /\ copy.at \div Ttl \in Nat /\ tick \div Ttl \in Nat
  BY <1>1, Lifetimes
<1>3. CASE load = NoLoad
  <2>1. loads <= empty + Accounted(copy)
    BY <1>3 DEF NewsInv, FetchesAreCounted
  <2>2. Accounted(copy) <= 1 + tick \div Ttl
    BY <1>2 DEF Accounted
  <2>3. loads <= 1 + tick \div Ttl + empty
    BY <1>1, <1>2, <2>1, <2>2
  <2> QED BY <2>3 DEF FeedsAreSpared
<1>4. CASE load # NoLoad
  <2>1. /\ load.since \in 0..tick /\ loads <= empty + 1 + Accounted(copy)
        /\ Accounted(copy) <= load.since \div Ttl
    BY <1>4 DEF NewsInv, FetchesAreCounted
  <2>2. load.since \in Nat /\ load.since <= tick
    BY <1>1, <2>1
  <2>3. load.since \div Ttl <= tick \div Ttl /\ load.since \div Ttl \in Nat
    BY <1>1, <2>2, Lifetimes
  <2>4. loads <= 1 + tick \div Ttl + empty
    BY <1>1, <1>2, <2>1, <2>3
  <2> QED BY <2>4 DEF FeedsAreSpared
<1> QED BY <1>3, <1>4

\* Whichever feeds fail, and however readers and fetches interleave, the feeds are
\* asked no oftener than the lifetime of a copy allows, no page is blank once there was
\* news, and what is served is recent.
THEOREM NewsStaysFresh == NewsSpec => []NewsTypeOK /\ NewsIsServed
<1>1. NewsInv => NewsTypeOK
  BY DEF NewsInv
<1>2. NewsInv /\ [NewsNext]_newsVars => NewsInv'
  BY NewsKeeps
<1>3. NewsInv /\ NewsInv' /\ [NewsNext]_newsVars
          => [FeedsAreSpared' /\ NeverBlank /\ ServedIsRecent]_newsVars
  <2> SUFFICES ASSUME NewsInv, NewsInv', [NewsNext]_newsVars
               PROVE  FeedsAreSpared' /\ NeverBlank /\ ServedIsRecent
    OBVIOUS
  <2>1. FeedsAreSpared'
    BY CountedIsSpared, PTL
  <2> QED BY <2>1, NewsKeeps
<1> QED BY <1>1, <1>2, <1>3, NewsStart, PTL DEF NewsSpec, NewsIsServed

-----------------------------------------------------------------------------
(* The services together.  A behaviour of all of them is, for each, one of    *)
(* that service alone, which stutters when another one runs.                  *)

\* The composition that is model-checked adds nothing to any of its parts: what
\* is proved of a service by itself holds in it.
THEOREM ServicesRun ==
  ServSpec => /\ RepSpec /\ RewardsSpec /\ AddrSpec /\ RemSpec /\ LtSpec /\ LimSpec
              /\ RevSpec /\ TokSpec /\ DailySpec /\ NewsSpec /\ MailSpec
<1>1. ServInit => /\ RepInit /\ RewardsInit /\ AddrInit /\ RemInit /\ LtInit /\ LimInit
                  /\ RevInit /\ TokInit /\ DailyInit /\ NewsInit /\ MailInit
  BY DEF ServInit
<1>2. [ServNext]_servVars =>
        /\ [RepNext]_repVars /\ [RewardsNext]_rewardVars /\ [AddrNext]_addrVars
        /\ [RemNext]_remVars /\ [LtNext]_ltVars /\ [LimNext]_limVars /\ [RevNext]_revVars
        /\ [TokNext]_tokVars /\ [DailyNext]_dailyVars /\ [NewsNext]_newsVars
        /\ [MailNext]_mailVars
  BY DEF ServNext, servVars
<1> QED BY <1>1, <1>2, PTL DEF ServSpec, RepSpec, RewardsSpec, AddrSpec, RemSpec, LtSpec, LimSpec,
             RevSpec, TokSpec, DailySpec, NewsSpec, MailSpec

\* The types of every service, in the composition that is model-checked.
THEOREM ServicesTyped == ServSpec => []ServTypeOK
<1>1. ServSpec => /\ []RepTypeOK /\ []RewardsTypeOK /\ []LtTypeOK /\ []NewsTypeOK
  BY ServicesRun, RepairsTyped, RewardsTyped, SearchStaysInRange, NewsStaysFresh, PTL
<1>2. ServSpec => [](AddrTypeOK /\ RemTypeOK /\ LimitsTypeOK)
  BY ServicesRun, AddressesStay, RemindersStay, LimitsAreFair, PTL
<1>3. ServSpec => [](RevTypeOK /\ DailyTypeOK /\ MailTypeOK)
  BY ServicesRun, ReviewsAreFair, ClaimsAreOnce, MailIsTrue, PTL
<1>4. ServSpec => []TokTypeOK
  <2>1. TokInv => TokTypeOK
    BY DEF TokInv
  <2> QED BY <2>1, ServicesRun, TokensInvariant, PTL
<1>5. (/\ RepTypeOK /\ RewardsTypeOK /\ LtTypeOK /\ NewsTypeOK
       /\ AddrTypeOK /\ RemTypeOK /\ LimitsTypeOK /\ RevTypeOK /\ DailyTypeOK /\ MailTypeOK
       /\ TokTypeOK)
      => ServTypeOK
  BY Zenon DEF ServTypeOK
<1> QED BY <1>1, <1>2, <1>3, <1>4, <1>5, PTL

\* What the services promise holds of them together as well: of everything the
\* composition is checked for, nothing rests on the small instance.
THEOREM ServicesKeepTheirWord ==
  ASSUME SmallChange
  PROVE  ServSpec => /\ RepairsAreExact /\ RewardsAreEarned /\ NewsIsServed
                     /\ [](AddressesAreKept /\ RemindersAreTrue /\ LimitsGoTogether)
                     /\ [](ReviewIsFair /\ ClaimsAgree /\ MailIsAccounted)
                     /\ [](DaysAreWhole /\ TokensGoTogether)
<1>1. ServSpec => RepairsAreExact /\ RewardsAreEarned /\ NewsIsServed
  BY ServicesRun, RepairsStayExact, RewardsEarned, NewsStaysFresh, PTL
<1>2. ServSpec => [](AddressesAreKept /\ RemindersAreTrue /\ LimitsGoTogether)
  BY ServicesRun, AddressesStay, RemindersStay, LimitsAreFair, PTL
<1>3. ServSpec => [](ReviewIsFair /\ ClaimsAgree /\ MailIsAccounted)
  BY ServicesRun, ReviewsAreFair, ClaimsAreOnce, MailIsTrue, PTL
<1>4. ServSpec => [](DaysAreWhole /\ TokensGoTogether)
  BY ServicesRun, DaysAreTrue, TokensAgree, PTL
<1> QED BY <1>1, <1>2, <1>3, <1>4
=============================================================================
