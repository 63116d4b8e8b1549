-------------------------------- MODULE News --------------------------------
(***************************************************************************)
(* The news of the app: an edition merged from the publishers' feeds, kept *)
(* in memory for a while (src/routes/api_routes/news.js).                  *)
(*                                                                         *)
(* An edition is the set of feeds that had items for it; how its items are *)
(* read, sorted and cut into pages is left out.  A reader is a request for *)
(* a page.  Time is counted in steps shorter than CACHE_TTL_MS and longer  *)
(* than FETCH_TIMEOUT_MS: one step at most passes while a feed is fetched. *)
(***************************************************************************)
EXTENDS Integers

CONSTANTS
    Feeds,     \* the publishers' feeds
    Readers,   \* requests for the news
    Ttl,       \* CACHE_TTL_MS, in steps
    LastStep,  \* bound: the steps of a behaviour
    MaxLoads   \* bound: how often the feeds are fetched

ASSUME NewsAssumption ==
    Ttl \in Nat \ {0} /\ LastStep \in Nat /\ MaxLoads \in Nat

VARIABLES
    tick,     \* Date.now()
    copy,     \* cache.items, as [feeds, at]: at is cache.fetchedAt
    load,     \* cache.inFlight: [since, feed -> what it has answered]
    reader,   \* reader -> where its request is and the edition it was served
    loads,    \* ghost: how often the feeds were fetched,
    empty     \* and how often none of them had an item

newsVars == <<tick, copy, load, reader, loads, empty>>

Answers  == {"waiting", "items", "nothing"}
NoLoad   == [since |-> -1, of |-> [f \in Feeds |-> "nothing"]]
NoItems  == [feeds |-> {}, at |-> 0]
AtRest     == [at |-> "idle", served |-> NoItems, dry |-> FALSE]

NewsInit ==
    /\ tick = 0 /\ loads = 0 /\ empty = 0
    /\ copy = NoItems /\ load = NoLoad
    /\ reader = [r \in Readers |-> AtRest]

\* Mutation of IsFresh: the age does not matter.
IsFreshAny == copy.feeds # {}

\* getItems: the copy is young enough, and it is not blank.
IsFresh == tick - copy.at < Ttl /\ copy.feeds # {}

\* Mutation of InFlight: each request fetches for itself.
InFlightNever == FALSE

\* Single flight.
InFlight == load # NoLoad

\* A request that finds a copy is answered at once.
ReadCopy(r) ==
    /\ reader[r].at = "idle" /\ IsFresh
    /\ reader' = [reader EXCEPT ![r] = [AtRest EXCEPT !.served = copy]]
    /\ UNCHANGED <<tick, copy, load, loads, empty>>

\* Another starts to fetch the feeds, or waits with those who did.
ReadFeeds(r) ==
    /\ reader[r].at = "idle" /\ ~IsFresh
    /\ IF InFlight THEN UNCHANGED <<load, loads>>
       ELSE /\ loads < MaxLoads
            /\ load' = [since |-> tick, of |-> [f \in Feeds |-> "waiting"]]
            /\ loads' = loads + 1
    /\ reader' = [reader EXCEPT ![r].at = "waits"]
    /\ UNCHANGED <<tick, copy, empty>>

\* fetchFeed: a feed has items; or it fails, is too slow, or has none.
FeedAnswers(f) ==
    /\ load # NoLoad /\ load.of[f] = "waiting"
    /\ \E a \in Answers \ {"waiting"} : load' = [load EXCEPT !.of[f] = a]
    /\ UNCHANGED <<tick, copy, reader, loads, empty>>

Edition == [feeds |-> {f \in Feeds : load.of[f] = "items"}, at |-> tick]

\* Mutation of Keep: what was fetched replaces the copy, whatever it is.
KeepAny == Edition

\* An edition without an item does not replace the copy.
Keep == IF Edition.feeds = {} THEN copy ELSE Edition

\* What those who waited are served: nothing fetched, the last good copy.
Serve == IF Edition.feeds = {} THEN copy ELSE Edition

\* Mutation of LoadEnds: a fetch without an item stays in flight.
LoadEndsKept ==
    /\ load # NoLoad /\ \A f \in Feeds : load.of[f] # "waiting"
    /\ copy' = Keep
    /\ load' = IF Edition.feeds = {} THEN load ELSE NoLoad
    /\ empty' = IF Edition.feeds = {} THEN empty + 1 ELSE empty
    /\ reader' = [r \in Readers |->
                    IF reader[r].at # "waits" THEN reader[r]
                    ELSE [at |-> "idle", served |-> Serve, dry |-> Edition.feeds = {}]]
    /\ UNCHANGED <<tick, loads>>

\* The last feed has answered: all who wait go on before anything else happens.
LoadEnds ==
    /\ load # NoLoad /\ \A f \in Feeds : load.of[f] # "waiting"
    /\ copy' = Keep
    /\ load' = NoLoad
    /\ empty' = IF Edition.feeds = {} THEN empty + 1 ELSE empty
    /\ reader' = [r \in Readers |->
                    IF reader[r].at # "waits" THEN reader[r]
                    ELSE [at |-> "idle", served |-> Serve, dry |-> Edition.feeds = {}]]
    /\ UNCHANGED <<tick, loads>>

\* A feed is given up after FETCH_TIMEOUT_MS.
NewsTick ==
    /\ tick < LastStep
    /\ load = NoLoad \/ load.since = tick
    /\ tick' = tick + 1
    /\ UNCHANGED <<copy, load, reader, loads, empty>>

NewsNext ==
    \/ \E r \in Readers : ReadCopy(r) \/ ReadFeeds(r)
    \/ \E f \in Feeds : FeedAnswers(f)
    \/ LoadEnds \/ NewsTick

NewsSpec == NewsInit /\ [][NewsNext]_newsVars

----------------------------------------------------------------------------
(* Properties *)

\* The types; somebody waits whenever the feeds are being fetched, and nobody
\* waits for nothing.
NewsTypeOK ==
    /\ tick \in 0..LastStep /\ loads \in 0..MaxLoads /\ empty \in 0..loads
    /\ copy \in [feeds: SUBSET Feeds, at: 0..tick]
    /\ load \in [since: -1..tick, of: [Feeds -> Answers]]
    /\ reader \in [Readers -> [at: {"idle", "waits"},
                               served: [feeds: SUBSET Feeds, at: 0..tick], dry: BOOLEAN]]
    /\ (load # NoLoad) <=> \E r \in Readers : reader[r].at = "waits"

\* Feeds are fetched at most once in CACHE_TTL_MS (news.js:23), except after a
\* fetch that found nothing, however many readers come at a time.
FeedsAreSpared == loads <= 1 + tick \div Ttl + empty

\* Once anybody was served an edition, no reader is served a blank page, whichever
\* feeds fail and however long.
NeverBlank ==
    \A r \in Readers :
        /\ \E q \in Readers : reader[q].served.feeds # {}
        /\ reader'[r] # reader[r] /\ reader'[r].at = "idle"
        => reader'[r].served.feeds # {}

\* A reader is served an edition younger than CACHE_TTL_MS, unless the feeds were
\* just fetched for it and had nothing; and never an older one than the copy.
ServedIsRecent ==
    \A r \in Readers :
        reader'[r] # reader[r] /\ reader'[r].at = "idle" =>
            /\ reader'[r].dry \/ tick - reader'[r].served.at < Ttl
            /\ reader'[r].served.at >= copy.at

\* Readers are served, from recent news, without asking the feeds too often.
NewsIsServed == [][FeedsAreSpared' /\ NeverBlank /\ ServedIsRecent]_newsVars
=============================================================================
