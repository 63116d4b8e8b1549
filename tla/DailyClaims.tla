---------------------------- MODULE DailyClaims ----------------------------
(***************************************************************************)
(* The daily rewards an admin defines and one user claims                  *)
(* (src/routes/api_routes/dailyRewardController.js): recurring ones once   *)
(* a day, the others once.  Nothing in the database keeps claims unique.   *)
(***************************************************************************)
EXTENDS Naturals, FiniteSets

CONSTANTS
    Recurring,    \* rewards an admin may create: recurring ones,
    OfDay,        \* and those of a day of the calendar,
    DayOf,        \* the day of each of those
    Requests,     \* claims at work at a time
    LastDay,      \* bound: days
    MaxClaims      \* bound: claims asked for

ASSUME DailyAssumption ==
    /\ Recurring \cap OfDay = {} /\ DayOf \in [OfDay -> Nat] /\ LastDay \in Nat
    /\ MaxClaims \in Nat

VARIABLES
    defined,      \* DailyReward rows
    claims,       \* DailyRewardClaim: how many, by reward and day
    now,          \* the day it is
    claiming,     \* requests at work
    atOnce,   \* history: rewards for which two claims were at work at once
    refused,      \* the rewards whose last answer was "Already claimed"
    asks          \* claims asked for so far

dailyVars == <<defined, claims, now, claiming, atOnce, refused, asks>>

RewardIds     == Recurring \cup OfDay
Days    == 0..LastDay
NoClaim == [at |-> "none", id |-> {}, day |-> 0]

DailyTypeOK ==
    /\ defined \subseteq RewardIds
    /\ \A i, j \in defined \cap OfDay : DayOf[i] = DayOf[j] => i = j
    /\ claims \in [RewardIds -> [Days -> Nat]]
    /\ now \in Days
    /\ claiming \in [Requests -> [at: {"none", "found", "saves"},
                                  id: {{i} : i \in RewardIds} \cup {{}}, day: Days]]
    /\ atOnce \subseteq RewardIds /\ refused \subseteq RewardIds /\ asks \in 0..MaxClaims

DailyInit ==
    /\ defined = {} /\ claims = [i \in RewardIds |-> [d \in Days |-> 0]] /\ now = 0
    /\ claiming = [r \in Requests |-> NoClaim]
    /\ atOnce = {} /\ refused = {} /\ asks = 0

----------------------------------------------------------------------------
\* Mutation of Create: the index does not tell recurring rewards apart.
CreateAny(i) ==
    /\ i \notin defined
    /\ defined' = defined \cup {i}
    /\ UNCHANGED <<claims, now, claiming, atOnce, refused, asks>>

\* The unique index on the day of rewards that do not recur.
Create(i) ==
    /\ i \notin defined
    /\ i \in OfDay => \A j \in defined \cap OfDay : DayOf[j] # DayOf[i]
    /\ defined' = defined \cup {i}
    /\ UNCHANGED <<claims, now, claiming, atOnce, refused, asks>>

\* Claims of it stay, and a claim at work goes on.
Delete(i) ==
    /\ i \in defined
    /\ defined' = defined \ {i}
    /\ UNCHANGED <<claims, now, claiming, atOnce, refused, asks>>

\* findById; the day is taken now.
Find(r, i) ==
    /\ asks < MaxClaims /\ asks' = asks + 1
    /\ claiming[r].at = "none" /\ i \in defined
    /\ claiming' = [claiming EXCEPT ![r] = [at |-> "found", id |-> {i}, day |-> now]]
    /\ atOnce' = IF \E q \in Requests : claiming[q].id = {i}
                     THEN atOnce \cup {i} ELSE atOnce
    /\ UNCHANGED <<defined, claims, now, refused>>

\* Mutation of AlreadyClaimed: a reward of a day is free again the day after.
ClaimedThatDay(i, day) == \E d \in Days : d >= day /\ claims[i][d] > 0

AlreadyClaimed(i, day) ==
    \E d \in Days : claims[i][d] > 0 /\ (i \in OfDay \/ d >= day)

\* findOne of the claims.
Check(r, i) ==
    /\ claiming[r].at = "found" /\ claiming[r].id = {i}
    /\ IF AlreadyClaimed(i, claiming[r].day)
       THEN /\ claiming' = [claiming EXCEPT ![r] = NoClaim]
            /\ refused' = refused \cup {i}
       ELSE /\ claiming' = [claiming EXCEPT ![r].at = "saves"]
            /\ UNCHANGED refused
    /\ UNCHANGED <<defined, claims, now, atOnce, asks>>

\* The claim is dated when it is saved.
SaveClaim(r, i) ==
    /\ claiming[r].at = "saves" /\ claiming[r].id = {i}
    /\ claims' = [claims EXCEPT ![i][now] = claims[i][now] + 1]
    /\ claiming' = [claiming EXCEPT ![r] = NoClaim]
    /\ refused' = refused \ {i}
    /\ UNCHANGED <<defined, now, atOnce, asks>>

ClaimFails(r) ==
    /\ claiming[r].at # "none"
    /\ claiming' = [claiming EXCEPT ![r] = NoClaim]
    /\ UNCHANGED <<defined, claims, now, atOnce, refused, asks>>

NewDay ==
    /\ now < LastDay /\ now' = now + 1
    /\ UNCHANGED <<defined, claims, claiming, atOnce, refused, asks>>

DailyNext ==
    \/ \E i \in RewardIds : Create(i) \/ Delete(i)
    \/ \E r \in Requests :
           \/ ClaimFails(r)
           \/ \E i \in RewardIds : Find(r, i) \/ Check(r, i) \/ SaveClaim(r, i)
    \/ NewDay

DailySpec == DailyInit /\ [][DailyNext]_dailyVars

----------------------------------------------------------------------------
(* GET /: both branches of the loop add the reward, whatever the day.       *)

\* Mutation of ShownClaimed: only what was claimed today.
ShownClaimedToday(i) == claims[i][now] > 0

ShownClaimed(i) == \E d \in Days : claims[i][d] > 0

(* Properties *)

\* A reward is claimed twice (a recurring one, on one day) only if two claims of
\* it were at work at once; midnight and the deletion of the reward make no more.
ClaimedOnce ==
    \A i \in RewardIds \ atOnce :
        /\ i \in OfDay => Cardinality({d \in Days : claims[i][d] > 0}) <= 1
        /\ \A d \in Days : claims[i][d] <= 1

\* Whoever is told "Already claimed" sees it as claimed in the list.
RefusedIsShown == \A i \in refused : ShownClaimed(i)

\* What a claim refuses and what the list shows agree, and claims are not repeated.
ClaimsAgree == ClaimedOnce /\ RefusedIsShown
=============================================================================
