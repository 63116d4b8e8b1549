------------------------------- MODULE Guards -------------------------------
(***************************************************************************)
(* The gate of /api for one user: the token check                          *)
(* (src/middleware/appUserAuth.js), the suspended accounts, of which the   *)
(* process keeps a copy, the strikes (src/helpers/abuseGuard.js) and one   *)
(* rate limit (src/middleware/rateLimit.js).                               *)
(*                                                                         *)
(* Ages are in units of the time a copy is fresh (CACHE_TTL_MS) and stop   *)
(* at the largest one that matters, so that time has no bound.             *)
(***************************************************************************)
EXTENDS Integers, FiniteSetsExt

CONSTANTS
    Visits,       \* requests at work at a time
    Window,       \* the window of the limit and of the strikes, in units
    MaxInWindow,  \* max of rateLimit
    StrikeLimit,  \* ABUSE_RATE_LIMIT_STRIKES_PER_HOUR
    MaxSwitches,  \* bound: times an admin changes the status
    MaxTroubles   \* bound: restarts and loads that fail

ASSUME GuardsAssumption ==
    /\ {Window, MaxInWindow, StrikeLimit} \subseteq Nat \ {0}
    /\ MaxSwitches \in Nat /\ MaxTroubles \in Nat

VARIABLES
    isActive,   \* users.isActive
    suspended,  \* is the user in the process's set
    cacheAge,   \* age of that set, at most 2; 3 when nothing was loaded yet
    refreshing, \* the load at work: "none", "find", or what it found
    visit,      \* requests at work
    bucket,     \* the limit's window: its age and count
    strikes,    \* the strikes' window: its age and count
    recent,     \* history: strikes by age
    unjust,     \* history: was a suspension decided without enough recent strikes
    slipped,    \* history: did a request pass before any load was waited for
    switches, troubles

guardVars == <<isActive, suspended, cacheAge, refreshing, visit, bucket, strikes, recent,
               unjust, slipped, switches, troubles>>

NeverLoaded == 3
GuardAges == 0..(Window + 1)
NoVisit == [at |-> "none", token |-> FALSE, waited |-> FALSE]
EmptyWindow == [age |-> Window + 1, count |-> 0]

\* The types; a request waits only while a load is at work.
GuardTypeOK ==
    /\ isActive \in BOOLEAN /\ suspended \in BOOLEAN
    /\ cacheAge \in 0..NeverLoaded
    /\ refreshing \in {"none", "find", "active", "suspended"}
    /\ visit \in [Visits -> [at: {"none", "guard", "wait", "suspend", "add"},
                             token: BOOLEAN, waited: BOOLEAN]]
    /\ bucket \in [age: GuardAges, count: 0..(MaxInWindow + 1)]
    /\ strikes \in [age: GuardAges, count: 0..StrikeLimit]
    /\ recent \in [GuardAges -> 0..StrikeLimit]
    /\ unjust \in BOOLEAN /\ slipped \in BOOLEAN
    /\ switches \in 0..MaxSwitches /\ troubles \in 0..MaxTroubles
    /\ (\E v \in Visits : visit[v].at = "wait") => refreshing # "none"

GuardInit ==
    /\ isActive \in BOOLEAN
    /\ suspended = FALSE /\ cacheAge = NeverLoaded /\ refreshing = "none"
    /\ visit = [v \in Visits |-> NoVisit]
    /\ bucket = EmptyWindow /\ strikes = EmptyWindow
    /\ recent = [a \in GuardAges |-> 0]
    /\ unjust = FALSE /\ slipped = FALSE
    /\ switches = 0 /\ troubles = 0

----------------------------------------------------------------------------
(* The copy of the suspended accounts. *)

\* refreshSuspendedCache: the find, then its continuation.
FindSuspended ==
    /\ refreshing = "find"
    /\ refreshing' = IF isActive THEN "active" ELSE "suspended"
    /\ UNCHANGED <<isActive, suspended, cacheAge, visit, bucket, strikes, recent, unjust,
                   slipped, switches, troubles>>

\* Mutation of Replaced: the copy only grows.
ReplacedGrows(found) == suspended \/ found = "suspended"

Replaced(found) == found = "suspended"

\* Mutation of GoOn: who waited is left waiting.
GoOnNever(v) == visit[v]

\* The requests that waited for the load go on.
GoOn(v) == IF visit[v].at = "wait" THEN [visit[v] EXCEPT !.at = "guard", !.waited = TRUE]
           ELSE visit[v]

KeepSuspended ==
    /\ refreshing \in {"active", "suspended"}
    /\ suspended' = Replaced(refreshing)
    /\ cacheAge' = 0
    /\ refreshing' = "none"
    /\ visit' = [v \in Visits |-> GoOn(v)]
    /\ UNCHANGED <<isActive, bucket, strikes, recent, unjust, slipped, switches, troubles>>

LoadFails ==
    /\ refreshing # "none"
    /\ troubles < MaxTroubles /\ troubles' = troubles + 1
    /\ refreshing' = "none"
    /\ visit' = [v \in Visits |-> GoOn(v)]
    /\ UNCHANGED <<isActive, suspended, cacheAge, bucket, strikes, recent, unjust, slipped,
                   switches>>

\* cacheFresh: a copy that is too old is loaded again, for the next request.
Refreshed == IF cacheAge >= 2 /\ refreshing = "none" THEN "find" ELSE refreshing

----------------------------------------------------------------------------
(* A request. *)

\* appUserAuth: a token is accepted of an active user only; builds without one
\* are let on.
Arrives(v, token) ==
    /\ visit[v].at = "none"
    /\ token => isActive
    /\ visit' = [visit EXCEPT ![v] = [at |-> "guard", token |-> token, waited |-> FALSE]]
    /\ UNCHANGED <<isActive, suspended, cacheAge, refreshing, bucket, strikes, recent, unjust,
                   slipped, switches, troubles>>

\* Mutation of MustWait: the first load is not waited for.
MustWaitNever(v) == FALSE

\* Nothing was loaded since the start.
MustWait(v) == cacheAge = NeverLoaded /\ ~visit[v].waited

WaitsForLoad(v) ==
    /\ visit[v].at = "guard" /\ MustWait(v)
    /\ refreshing' = IF refreshing = "none" THEN "find" ELSE refreshing
    /\ visit' = [visit EXCEPT ![v].at = "wait"]
    /\ UNCHANGED <<isActive, suspended, cacheAge, bucket, strikes, recent, unjust, slipped,
                   switches, troubles>>

\* 403 ACCOUNT_SUSPENDED
RefusesVisit(v) ==
    /\ visit[v].at = "guard" /\ ~MustWait(v) /\ suspended
    /\ refreshing' = Refreshed
    /\ visit' = [visit EXCEPT ![v] = NoVisit]
    /\ UNCHANGED <<isActive, suspended, cacheAge, bucket, strikes, recent, unjust, slipped,
                   switches, troubles>>

\* Mutation of CountedStrike: the window of the strikes never ends.
CountedStrikeForever(b) ==
    IF b.count = 0 THEN [age |-> 0, count |-> 1]
    ELSE [b EXCEPT !.count = Min({@ + 1, StrikeLimit})]

\* A window starts again when it is over.
CountedStrike(b) ==
    IF b.age > Window THEN [age |-> 0, count |-> 1]
    ELSE [b EXCEPT !.count = Min({@ + 1, StrikeLimit})]

CountedVisit(b) ==
    IF b.age > Window THEN [age |-> 0, count |-> 1]
    ELSE [b EXCEPT !.count = Min({@ + 1, MaxInWindow + 1})]

\* The gate lets a request through; what has no token is limited by its address.
PassesVisit(v) ==
    LET b == IF visit[v].token THEN CountedVisit(bucket) ELSE bucket IN
    /\ visit[v].at = "guard" /\ ~MustWait(v) /\ ~suspended
    /\ visit[v].token => b.count <= MaxInWindow
    /\ refreshing' = Refreshed
    /\ slipped' = (slipped \/ (cacheAge = NeverLoaded /\ ~visit[v].waited))
    /\ bucket' = b
    /\ visit' = [visit EXCEPT ![v] = NoVisit]
    /\ UNCHANGED <<isActive, suspended, cacheAge, strikes, recent, unjust, switches,
                   troubles>>

\* Beyond the limit: 429 and recordStrike, which may decide to suspend.
StrikesVisit(v) ==
    LET s == CountedStrike(strikes)
        lately == MapThenSumSet(LAMBDA a : recent[a], 0..Window) + 1
    IN  /\ visit[v].at = "guard" /\ ~MustWait(v) /\ ~suspended
        /\ visit[v].token /\ CountedVisit(bucket).count > MaxInWindow
        /\ refreshing' = Refreshed
        /\ bucket' = CountedVisit(bucket)
        /\ strikes' = s
        /\ recent' = [recent EXCEPT ![0] = Min({@ + 1, StrikeLimit})]
        /\ unjust' = (unjust \/ (s.count >= StrikeLimit /\ lately < StrikeLimit))
        /\ visit' = [visit EXCEPT ![v] = IF s.count >= StrikeLimit
                         THEN [@ EXCEPT !.at = "suspend"] ELSE NoVisit]
        /\ UNCHANGED <<isActive, suspended, cacheAge, slipped, switches, troubles>>

\* suspendUser: the update of an active user, then the process's copy.
SuspendsUser(v) ==
    /\ visit[v].at = "suspend"
    /\ isActive' = FALSE
    /\ visit' = [visit EXCEPT ![v] = IF isActive THEN [@ EXCEPT !.at = "add"] ELSE NoVisit]
    /\ UNCHANGED <<suspended, cacheAge, refreshing, bucket, strikes, recent, unjust, slipped,
                   switches, troubles>>

AddsToCopy(v) ==
    /\ visit[v].at = "add"
    /\ suspended' = TRUE
    /\ visit' = [visit EXCEPT ![v] = NoVisit]
    /\ UNCHANGED <<isActive, cacheAge, refreshing, bucket, strikes, recent, unjust, slipped,
                   switches, troubles>>

----------------------------------------------------------------------------
(* The admin, time and restarts. *)

\* The dashboard, or the auth service, changes the status.
SwitchesUser ==
    /\ switches < MaxSwitches /\ switches' = switches + 1
    /\ isActive' = ~isActive
    /\ UNCHANGED <<suspended, cacheAge, refreshing, visit, bucket, strikes, recent, unjust,
                   slipped, troubles>>

Ages ==
    /\ cacheAge' = IF cacheAge < 2 THEN cacheAge + 1 ELSE cacheAge
    /\ bucket' = [bucket EXCEPT !.age = Min({@ + 1, Window + 1})]
    /\ strikes' = [strikes EXCEPT !.age = Min({@ + 1, Window + 1})]
    /\ recent' = [a \in GuardAges |->
           IF a = 0 THEN 0 ELSE IF a > Window THEN 0 ELSE recent[a - 1]]
    /\ UNCHANGED <<isActive, suspended, refreshing, visit, unjust, slipped, switches,
                   troubles>>

GateRestarts ==
    /\ troubles < MaxTroubles /\ troubles' = troubles + 1
    /\ suspended' = FALSE /\ cacheAge' = NeverLoaded /\ refreshing' = "none"
    /\ visit' = [v \in Visits |-> NoVisit]
    /\ bucket' = EmptyWindow /\ strikes' = EmptyWindow
    /\ UNCHANGED <<isActive, recent, unjust, slipped, switches>>

VisitStep(v) ==
    \/ WaitsForLoad(v) \/ RefusesVisit(v) \/ PassesVisit(v) \/ StrikesVisit(v)
    \/ SuspendsUser(v) \/ AddsToCopy(v)

GuardNext ==
    \/ \E v \in Visits : VisitStep(v) \/ \E token \in BOOLEAN : Arrives(v, token)
    \/ FindSuspended \/ KeepSuspended \/ LoadFails
    \/ SwitchesUser \/ Ages \/ GateRestarts

LoadGoesOn == FindSuspended \/ KeepSuspended
VisitGoesOn(v) == VisitStep(v) \/ Arrives(v, FALSE)

\* Requests are handled, loads come back, time passes, and somebody asks.
GuardSpec ==
    /\ GuardInit /\ [][GuardNext]_guardVars
    /\ WF_guardVars(LoadGoesOn) /\ WF_guardVars(Ages)
    /\ \A v \in Visits : WF_guardVars(VisitGoesOn(v))

----------------------------------------------------------------------------
(* Properties *)

\* The status of the user reaches the gate in the end and stays there, as long
\* as requests come: through suspensions the process makes itself, those of the
\* dashboard, loads that fail and restarts (abuseGuard.js:17-24). Those of the
\* dashboard are bounded, so the status comes to rest.
CopyCatchesUp ==
    <>[](suspended = ~isActive)

\* After a restart no request passes before the first load ended, "which would
\* let a suspended account through" (abuseGuard.js:139).
NobodySlips == ~slipped

\* The guard suspends for enough strikes within the window only ("a rolling
\* one-hour window", abuseGuard.js:9), whatever was counted before.
SuspendedForCause == ~unjust

\* Who is suspended does not pass, and who is suspended has earned it.
GateIsJust == NobodySlips /\ SuspendedForCause
=============================================================================
