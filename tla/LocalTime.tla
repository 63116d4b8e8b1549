----------------------------- MODULE LocalTime -----------------------------
(***************************************************************************)
(* The days of a user: when the local day of a session ends, what the      *)
(* server believes of the app's clock, and how it writes the start of a    *)
(* session (src/helpers/miningDaySettlement.js, src/helpers/clientTime.js).*)
(*                                                                         *)
(* Time is counted in whole hours from an origin in UTC, days in days from *)
(* there.  A zone is ahead of UTC by ahead hours, and by later hours from  *)
(* the instant at on, when its clocks are changed.  One behaviour is one   *)
(* binary search for the end of a day, with what else is asked at the time.*)
(***************************************************************************)
EXTENDS Integers

CONSTANTS
    Starts,      \* instants a session starts at
    ClockZones,  \* zones: [ahead, at, later]
    Said,        \* days the app's local_time may say, NoDay when it says none
    Offsets,     \* hours ahead of UTC the app sends or the record holds, NoOffset
    ServerAhead  \* hours the server's own zone is ahead of UTC

NoDay    == -1
NoOffset == 99
MinAhead == -12
MaxAhead == 14

ASSUME LocalTimeAssumption ==
    /\ Starts \subseteq Nat
    /\ ClockZones \subseteq [ahead: Int, at: Int, later: Int]
    /\ Said \subseteq Int /\ Offsets \subseteq Int
    /\ ServerAhead \in MinAhead..MaxAhead

VARIABLES
    start,    \* start_time
    zone,     \* the user's zone
    lo, hi,   \* the search
    clock     \* what the app says at start: its day, its offset, the stored one

ltVars == <<start, zone, lo, hi, clock>>

Ahead(t, z) == IF t < z.at THEN z.ahead ELSE z.later

\* toLocaleDateString in the zone.
LocalDay(t, z) == (t + Ahead(t, z)) \div 24

LocalHour(t, z) == (t + Ahead(t, z)) % 24

----------------------------------------------------------------------------
(* getFirstInstantOfNextCalendarDayInTz *)

\* Mutation of SearchEnd: no local day has more than 24 hours.
SearchEndShort(t) == t + 24

SearchEnd(t) == t + 26

\* Mutation of LtInit: the search begins with the start itself.
LtInitAtStart ==
    /\ start \in Starts /\ zone \in ClockZones
    /\ lo = start /\ hi = SearchEnd(start)
    /\ clock \in [said: Said, sent: Offsets, stored: Offsets]

LtInit ==
    /\ start \in Starts /\ zone \in ClockZones
    /\ lo = start + 1 /\ hi = SearchEnd(start)
    /\ clock \in [said: Said, sent: Offsets, stored: Offsets]

Mid == (lo + hi) \div 2

SameDay == LocalDay(Mid, zone) = LocalDay(start, zone)

EarlierHalf ==
    /\ lo < hi /\ ~SameDay
    /\ hi' = Mid
    /\ UNCHANGED <<start, zone, lo, clock>>

LaterHalf ==
    /\ lo < hi /\ SameDay
    /\ lo' = Mid + 1
    /\ UNCHANGED <<start, zone, hi, clock>>

LtNext == EarlierHalf \/ LaterHalf

LtSpec == LtInit /\ [][LtNext]_ltVars

\* The search has ended; lo is its result.
Found == lo >= hi

----------------------------------------------------------------------------
(* What a settlement pays, and when. *)

\* getFirstInstantOfNextCalendarDayWithOffset, of a user without a zone.
NextDayByOffset(t, ahead) == ((t + ahead) \div 24 + 1) * 24 - ahead

\* Mutation of HoursPaid: up to the end of the search.
HoursPaidFull == SearchEnd(start) - start

\* computeMinedBtcOnDayRollover: up to the end of the day, 24 hours at most.
HoursPaid == IF lo - start < 24 THEN lo - start ELSE 24

\* settleUser: the user's day is later than the session's.
Due(now) == LocalDay(now, zone) > LocalDay(start, zone)

----------------------------------------------------------------------------
(* clientTime.js *)

Earliest(now) == (now + MinAhead) \div 24
Latest(now)   == (now + MaxAhead) \div 24

PlausibleDay(d, now) == Earliest(now) <= d /\ d <= Latest(now)
PlausibleOffset(a)   == MinAhead <= a /\ a <= MaxAhead
DayFromOffset(a, now) == (now + a) \div 24

\* Mutation of Believed: what the app says is taken as it is.
BelievedAlways(d, now) == d # NoDay

Believed(d, now) == d # NoDay /\ PlausibleDay(d, now)

\* trustedDay: the app's day, the offset it sends, the stored one, UTC.
TrustedDay(c, now) ==
    IF Believed(c.said, now) THEN c.said
    ELSE IF PlausibleOffset(c.sent) THEN DayFromOffset(c.sent, now)
    ELSE IF PlausibleOffset(c.stored) THEN DayFromOffset(c.stored, now)
    ELSE now \div 24

----------------------------------------------------------------------------
(* formatLocalStartTime, and what reads it back. *)

Formatted(t, z) ==
    LET h == LocalHour(t, z) IN
    [day |-> LocalDay(t, z), half |-> IF h >= 12 THEN "PM" ELSE "AM",
     h12 |-> IF h % 12 = 0 THEN 12 ELSE h % 12]

\* Mutation of ParsedHour: twelve at night is noon.
ParsedHourNoon(f) == IF f.half = "PM" /\ f.h12 < 12 THEN f.h12 + 12 ELSE f.h12

ParsedHour(f) ==
    IF f.half = "PM" /\ f.h12 < 12 THEN f.h12 + 12
    ELSE IF f.half = "AM" /\ f.h12 = 12 THEN 0 ELSE f.h12

----------------------------------------------------------------------------
(* What the app shows of a session (GET of user-mining-handles.js).  synced is *)
(* Balance.BTC, in hours of mining like everything here.                       *)

LesserOf(a, b)  == IF a < b THEN a ELSE b
GreaterOf(a, b) == IF a < b THEN b ELSE a

\* The app's local time, read as a time of the server's zone.
WallClock(now) == now + Ahead(now, zone) - ServerAhead

\* The hours since the start by that clock, 24 at most.
ElapsedHours(now) ==
    GreaterOf(0, LesserOf(WallClock(now), start + 24) - start)

LiveHours(now, synced) == GreaterOf(synced, ElapsedHours(now))

\* Mutation of ShownHours: the clock runs on after the day is over.
ShownHoursLive(now, synced) == LiveHours(now, synced)

\* After the day is over, what the settlement will pay.
ShownHours(now, synced) == IF Due(now) THEN HoursPaid ELSE LiveHours(now, synced)

\* time_remaining: up to the midnight of that clock.
Remaining(now) == 24 - LocalHour(now, zone)

\* Nothing without a session at work, or without a local_time that can be read.
Screen(now, synced, active, readable) ==
    IF active /\ readable
    THEN [hours |-> ShownHours(now, synced), left |-> Remaining(now)]
    ELSE [hours |-> 0, left |-> 0]

----------------------------------------------------------------------------
(* Properties *)

\* The types; the search never leaves its range.
LtTypeOK ==
    /\ start \in Starts /\ zone \in ClockZones
    /\ lo \in (start + 1)..SearchEnd(start) /\ hi \in lo..SearchEnd(start)

\* Bound of the assumption: the clocks do not go back over midnight.
Regular ==
    \A t \in start..(start + 25) : LocalDay(t, zone) <= LocalDay(t + 1, zone)

\* The search finds the first instant of another local day, whether or not the
\* clocks are changed on the day; by an offset it is the same where they are not.
FirstOfNextDay ==
    Found /\ Regular =>
        /\ \A t \in start..(lo - 1) : LocalDay(t, zone) = LocalDay(start, zone)
        /\ LocalDay(lo, zone) # LocalDay(start, zone)
        /\ zone.ahead = zone.later => lo = NextDayByOffset(start, zone.ahead)

\* A session is settled when its day is over, and no hour is paid that is not
\* of the day.
PaidHoursAreOfTheDay ==
    Found /\ Regular =>
        \A now \in start..(start + 48) :
            Due(now) => /\ now >= lo
                        /\ \A t \in start..(start + HoursPaid - 1) :
                               LocalDay(t, zone) = LocalDay(start, zone)

\* What the screen shows is what has been mined, and in the end what is paid, in
\* the server's own zone; in another it is off by the hours between the two zones
\* and no more, until the day is over.  The time left ends with the day where the
\* clocks stay.
ShownIsMined ==
    Found /\ Regular =>
        \A now \in start..(start + 48) :
            LET screen == Screen(now, 0, TRUE, TRUE)
                off    == Ahead(now, zone) - ServerAhead IN
            /\ off = 0 \/ Due(now) => screen.hours = LesserOf(now - start, HoursPaid)
            /\ screen.hours <= HoursPaid + GreaterOf(0, off)
            /\ ~Due(now) /\ zone.ahead = zone.later => screen.left = lo - now

\* Whatever the app says, the day believed is today somewhere (clientTime.js:11-18).
TrustedIsToday == PlausibleDay(TrustedDay(clock, start), start)

\* The start of a session the server writes is read back as the same hour.
StartIsReadBack == ParsedHour(Formatted(start, zone)) = LocalHour(start, zone)

\* A day ends where the user's clock says, pays its own hours and no other, is
\* shown as it is paid, and is believed and written down as what it is.
DaysAreWhole ==
    /\ FirstOfNextDay /\ PaidHoursAreOfTheDay /\ ShownIsMined
    /\ TrustedIsToday /\ StartIsReadBack
=============================================================================
