--------------------------- MODULE Subscriptions ---------------------------
(***************************************************************************)
(* Mining packs sold as store subscriptions: src/helpers/                  *)
(* subscriptionGrants.js, grantPlanPurchase.js, recoverPurchases.js,       *)
(* revenueCatVerify.js, the RevenueCat webhook and the purchase route.     *)
(*                                                                         *)
(* The store charges a subscription period by period and RevenueCat tells  *)
(* its latest period (entry).  A customer is a RevenueCat id; its          *)
(* SubscriptionGrant row says whether the pack's hashpower is counted.     *)
(* A pack is one unit of hashpower; a time is a day; a store transaction   *)
(* is named by the day its period starts.                                  *)
(***************************************************************************)
EXTENDS Integers, FiniteSets

CONSTANTS
    Customers,   \* RevenueCat customer ids
    Subs,        \* subscriptions in the store
    SubOf,       \* the subscription that is listed under a customer id
    Requests,    \* purchase requests, webhooks and scripts at work at a time
    Reporters,   \* bound: those of them that only report purchases
    Cron,        \* the worker of reconcileSubscriptions: one, by its running flag
    Period,      \* days a charge pays for
    LegacyFrom,  \* LEGACY_RENEWALS_FROM: renewals count from this day on
    OldTxn,      \* transaction id on rows from before the cut-over: 0 for none
    MaxTime,     \* bound: days
    MaxBusy,     \* bound: workers at work at a time
    MaxFaults    \* bound: failed calls and restarts

ASSUME SubsAssumption ==
    /\ Customers # {} /\ SubOf \in [Customers -> Subs]
    /\ Cron \notin Requests /\ Reporters \subseteq Requests
    /\ Period \in Nat \ {0} /\ LegacyFrom \in Nat \ {0}
    /\ OldTxn \in {0, 1}
    /\ MaxTime \in Nat \ {0} /\ MaxBusy \in Nat /\ MaxFaults \in Nat

VARIABLES
    now,         \* the day
    entry,       \* what the store says of a subscription
    charged,     \* history: periods charged for a subscription
    purchases,   \* Purchase rows
    grant,       \* SubscriptionGrant row of a customer
    purchased,   \* packs counted in purchasedHashpower of the customer's user
    permanent,   \* history: packs given by a purchase that has no grant
    job,         \* the worker's program counter and locals
    faults

storeVars == <<now, entry, charged>>
dbVars    == <<purchases, grant, purchased, permanent>>
vars      == <<storeVars, dbVars, job, faults>>

Workers == Requests \cup {Cron}

Time    == 0..MaxTime
Entries == [first: Time, start: Time, end: Nat, refund: {"no", "yes", "reversed"}]
Rows    == [customer: Customers, txn: Time, date: Time]
Grants  == [made: BOOLEAN, legacy: BOOLEAN, active: BOOLEAN, expires: Nat]
Jobs    == [at: {"idle", "verify", "known", "tracked", "record", "look",
                 "recoverable", "recover", "find", "fetch", "grant", "create",
                 "apply"},
            customer: Customers, todo: SUBSET Customers, clock: Time,
            since: Time, got: Entries, was: BOOLEAN, want: BOOLEAN]

NotListed == [first |-> 0, start |-> 0, end |-> 0, refund |-> "no"]
NoGrant   == [made |-> FALSE, legacy |-> FALSE, active |-> FALSE, expires |-> 0]
IdleJobs  == [at: {"idle"}, customer: Customers, todo: {{}}, clock: {0},
              since: {0}, got: {NotListed}, was: {FALSE}, want: {FALSE}]
Idle      == CHOOSE j \in IdleJobs : TRUE

\* The types of the variables. Its content is that packs are never negative.
TypeOK ==
    /\ now \in Time
    /\ entry \in [Subs -> Entries]
    /\ charged \in [Subs -> Nat]
    /\ purchases \in SUBSET Rows
    /\ grant \in [Customers -> Grants]
    /\ purchased \in [Customers -> Nat]
    /\ permanent \in [Customers -> Nat]
    /\ job \in [Workers -> Jobs]
    /\ faults \in 0..MaxFaults

\* Customers who bought on day 1, before renewals were honoured, have a
\* Purchase row, the pack for good, and no grant.
Init ==
    \E old \in SUBSET Customers :
        /\ now = 1
        /\ entry = [s \in Subs |->
               IF \E c \in old : SubOf[c] = s
               THEN [first |-> 1, start |-> 1, end |-> 1 + Period, refund |-> "no"]
               ELSE NotListed]
        /\ charged = [s \in Subs |-> IF \E c \in old : SubOf[c] = s THEN 1 ELSE 0]
        /\ purchases = {[customer |-> c, txn |-> OldTxn, date |-> 1] : c \in old}
        /\ grant = [c \in Customers |-> NoGrant]
        /\ purchased = [c \in Customers |-> IF c \in old THEN 1 ELSE 0]
        /\ permanent = purchased
        /\ job = [w \in Workers |-> Idle]
        /\ faults = 0

----------------------------------------------------------------------------
(* The store and the clock. *)

Tick ==
    /\ now < MaxTime
    /\ now' = now + 1
    /\ UNCHANGED <<entry, charged, dbVars, job, faults>>

\* A first purchase, a renewal, or a subscription taken up again. Every charge
\* has a transaction id of its own.
Charge(s) ==
    /\ entry[s].start < now
    /\ \/ entry[s].start = 0
       \/ entry[s].end <= now
       \/ entry[s].refund = "yes"
    /\ entry' = [entry EXCEPT ![s] =
           [first  |-> IF entry[s].start = 0 THEN now ELSE entry[s].first,
            start  |-> now, end |-> now + Period, refund |-> "no"]]
    /\ charged' = [charged EXCEPT ![s] = @ + 1]
    /\ UNCHANGED <<now, dbVars, job, faults>>

Unchanged(s) ==
    /\ entry[s].start > 0
    /\ entry[s].end = entry[s].start + Period
    /\ entry[s].refund = "no"

\* The grace period of a renewal that is late. Bound: a period is extended
\* once or refunded, not both.
Extend(s) ==
    /\ Unchanged(s) /\ entry[s].end <= now
    /\ entry' = [entry EXCEPT ![s].end = @ + 1]
    /\ UNCHANGED <<now, charged, dbVars, job, faults>>

Refund(s) ==
    /\ \/ Unchanged(s) /\ entry' = [entry EXCEPT ![s].refund = "yes"]
       \/ entry[s].refund = "yes" /\ entry' = [entry EXCEPT ![s].refund = "reversed"]
    /\ UNCHANGED <<now, charged, dbVars, job, faults>>

----------------------------------------------------------------------------
(* Rows. *)

RowsOf(c) == {r \in purchases : r.customer = c}

\* A row without a transaction id is outside the unique index.
KnownTxn(s, t) ==
    \E r \in purchases : SubOf[r.customer] = s /\ r.txn = t /\ t > 0

FirstDate(c) ==
    CHOOSE d \in {r.date : r \in RowsOf(c)} : \A r \in RowsOf(c) : d <= r.date

ShouldBeActive(g, e, t, since) ==
    /\ e.start > 0
    /\ e.refund # "yes"
    /\ e.end > t
    /\ g.legacy => e.start >= LegacyFrom /\ e.start > since

\* Mutation of AddHashpower: without the floor, and off by a pack.
AddHashpowerUnfloored(c, delta) == [purchased EXCEPT ![c] = @ + 2 * delta]

AddHashpower(c, delta) ==
    [purchased EXCEPT ![c] = IF @ + delta > 0 THEN @ + delta ELSE 0]

----------------------------------------------------------------------------
(* The end of a worker's call, and of its turn with one customer. *)

\* Bound: after a failure one worker at a time.
Free(w) ==
    /\ job[w].at = "idle"
    /\ Cardinality({v \in Workers : job[v].at # "idle"}) + faults < MaxBusy

Finish(w) == job' = [job EXCEPT ![w] = Idle]

Goto(w, j) == job' = [job EXCEPT ![w] = j]

\* The next customer of a webhook or of a run; Cron keeps the run's clock.
NextCustomer(w) ==
    IF job[w].todo = {} THEN Finish(w)
    ELSE \E c \in job[w].todo :
             Goto(w, [Idle EXCEPT !.at = "find", !.customer = c,
                                  !.todo = job[w].todo \ {c},
                                  !.clock = job[w].clock])

----------------------------------------------------------------------------
(* A purchase: POST /api/purchases/:userId and the webhook's INITIAL and    *)
(* NON_RENEWING purchases.                                                  *)

ReportPurchase(w, c) ==
    /\ Free(w)
    /\ Goto(w, [Idle EXCEPT !.at = "verify", !.customer = c])
    /\ UNCHANGED <<storeVars, dbVars, faults>>

\* verifyStorePurchase: the latest period, refused when there is none or it
\* was refunded. Whether it is over is not asked.
Verify(w) ==
    LET j == job[w]  e == entry[SubOf[j.customer]] IN
    /\ j.at = "verify"
    /\ IF e.start = 0 \/ e.refund = "yes"
       THEN Finish(w)
       ELSE Goto(w, [j EXCEPT !.at = "known",
                              !.got = [NotListed EXCEPT !.start = e.start,
                                                        !.end = e.end]])
    /\ UNCHANGED <<storeVars, dbVars, faults>>

CheckKnown(w) ==
    LET j == job[w] IN
    /\ j.at = "known"
    /\ IF KnownTxn(SubOf[j.customer], j.got.start)
       THEN Finish(w)
       ELSE Goto(w, [j EXCEPT !.at = "tracked"])
    /\ UNCHANGED <<storeVars, dbVars, faults>>

\* A subscription that is tracked already is synced instead.
CheckTracked(w) ==
    LET j == job[w] IN
    /\ j.at = "tracked"
    /\ IF grant[j.customer].made
       THEN Goto(w, [Idle EXCEPT !.at = "find", !.customer = j.customer])
       ELSE Goto(w, [j EXCEPT !.at = "record"])
    /\ UNCHANGED <<storeVars, dbVars, faults>>

NewRow(j) == [customer |-> j.customer, txn |-> j.got.start, date |-> j.got.start]

\* Mutation of Aborts: no unique index on the transaction id.
AbortsOnGrantOnly(j, tracked) == tracked /\ grant[j.customer].made

\* The two unique indexes: one abort undoes the row, the grant and the pack.
Aborts(j, tracked) ==
    \/ KnownTxn(SubOf[j.customer], j.got.start)
    \/ tracked /\ grant[j.customer].made

\* grantPlanPurchase of a verified subscription: one transaction.
RecordPurchase(w) ==
    LET j == job[w] IN
    /\ j.at = "record"
    /\ IF Aborts(j, TRUE) THEN UNCHANGED dbVars
       ELSE /\ purchases' = purchases \cup {NewRow(j)}
            /\ grant' = [grant EXCEPT ![j.customer] =
                   [made |-> TRUE, legacy |-> FALSE, active |-> TRUE,
                    expires |-> j.got.end]]
            /\ purchased' = [purchased EXCEPT ![j.customer] = @ + 1]
            /\ UNCHANGED permanent
    /\ Finish(w)
    /\ UNCHANGED <<storeVars, faults>>

----------------------------------------------------------------------------
(* scripts/recover-purchases.js --apply for one customer. *)

StartRecovery(w, c) ==
    /\ Free(w)
    /\ Goto(w, [Idle EXCEPT !.at = "look", !.customer = c])
    /\ UNCHANGED <<storeVars, dbVars, faults>>

\* Refunded transactions and renewals are left out.
LookUp(w) ==
    LET j == job[w]  e == entry[SubOf[j.customer]] IN
    /\ j.at = "look"
    /\ IF e.start = 0 \/ e.refund = "yes" \/ e.start # e.first
       THEN Finish(w)
       ELSE Goto(w, [j EXCEPT !.at = "recoverable",
                              !.got = [NotListed EXCEPT !.start = e.start]])
    /\ UNCHANGED <<storeVars, dbVars, faults>>

\* A row with this transaction id, or an older row of about the same date.
CheckRecoverable(w) ==
    LET j == job[w] IN
    /\ j.at = "recoverable"
    /\ IF \/ KnownTxn(SubOf[j.customer], j.got.start)
          \/ \E r \in RowsOf(j.customer) : r.txn = 0 /\ r.date = j.got.start
       THEN Finish(w)
       ELSE Goto(w, [j EXCEPT !.at = "recover"])
    /\ UNCHANGED <<storeVars, dbVars, faults>>

\* The script passes no kind and no key of the subscription, so the row has no
\* grant and the pack stays.
RecordRecovered(w) ==
    LET j == job[w] IN
    /\ j.at = "recover"
    /\ IF Aborts(j, FALSE) THEN UNCHANGED dbVars
       ELSE /\ purchases' = purchases \cup {NewRow(j)}
            /\ purchased' = [purchased EXCEPT ![j.customer] = @ + 1]
            /\ permanent' = [permanent EXCEPT ![j.customer] = @ + 1]
            /\ UNCHANGED grant
    /\ Finish(w)
    /\ UNCHANGED <<storeVars, faults>>

----------------------------------------------------------------------------
(* syncCustomer *)

\* A webhook about the period of a customer known by the ids cs.
ReportChange(w, cs) ==
    /\ Free(w)
    /\ \E c \in cs : Goto(w, [Idle EXCEPT !.at = "find", !.customer = c,
                                          !.todo = cs \ {c}])
    /\ UNCHANGED <<storeVars, dbVars, faults>>

\* Mutation of InScope: the six-hourly run looks at grants in force only.
InScopeActive(scope) == {c \in Customers : grant[c].active /\ grant[c].expires <= now}

InScope(scope) ==
    IF scope = "all" THEN {c \in Customers : RowsOf(c) # {}}
    ELSE {c \in Customers : grant[c].active /\ grant[c].expires <= now}

StartReconcile(scope) ==
    /\ Free(Cron)
    /\ \E c \in InScope(scope) :
           Goto(Cron, [Idle EXCEPT !.at = "find", !.customer = c, !.clock = now,
                                   !.todo = InScope(scope) \ {c}])
    /\ UNCHANGED <<storeVars, dbVars, faults>>

FindPurchases(w) ==
    LET j == job[w] IN
    /\ j.at = "find"
    /\ IF RowsOf(j.customer) = {} THEN NextCustomer(w)
       ELSE Goto(w, [j EXCEPT !.at = "fetch", !.since = FirstDate(j.customer),
                              !.clock = IF w = Cron THEN j.clock ELSE now])
    /\ UNCHANGED <<storeVars, dbVars, faults>>

Fetch(w) ==
    LET j == job[w] IN
    /\ j.at = "fetch"
    /\ Goto(w, [j EXCEPT !.at = "grant", !.got = entry[SubOf[j.customer]]])
    /\ UNCHANGED <<storeVars, dbVars, faults>>

\* What the sync decides once it has the grant; of the answer it still needs
\* the end of the period.
Decided(j, g) ==
    [j EXCEPT !.at = "apply", !.was = g.active,
              !.want = ShouldBeActive(g, j.got, j.clock, j.since),
              !.got = [NotListed EXCEPT !.end = j.got.end],
              !.since = 0, !.clock = IF j.todo = {} THEN 0 ELSE j.clock]

\* Nothing is listed: the loop over the entries is empty.
FindGrant(w) ==
    LET j == job[w]  g == grant[j.customer] IN
    /\ j.at = "grant"
    /\ \/ j.got.start = 0 /\ NextCustomer(w)
       \/ j.got.start > 0 /\ g.made  /\ Goto(w, Decided(j, g))
       \/ j.got.start > 0 /\ ~g.made /\ Goto(w, [j EXCEPT !.at = "create"])
    /\ UNCHANGED <<storeVars, dbVars, faults>>

\* The index refuses a second grant; the one that is there is used.
CreateLegacy(w) ==
    LET j == job[w]
        g == IF grant[j.customer].made THEN grant[j.customer]
             ELSE [NoGrant EXCEPT !.made = TRUE, !.legacy = TRUE]
    IN
    /\ j.at = "create"
    /\ grant' = [grant EXCEPT ![j.customer] = g]
    /\ Goto(w, Decided(j, g))
    /\ UNCHANGED <<storeVars, purchases, purchased, permanent, faults>>

\* Mutation of SetActive: the update selects the grant by its id alone.
SetActiveById(c, on, end) ==
    /\ grant' = [grant EXCEPT ![c] =
           [grant[c] EXCEPT !.active = on, !.expires = end]]
    /\ purchased' = AddHashpower(c, IF on THEN 1 ELSE -1)

\* setActive: the row is flipped by whoever still finds it the other way, in
\* one transaction with the pack.
SetActive(c, on, end) ==
    IF grant[c].active = on THEN UNCHANGED <<grant, purchased>>
    ELSE /\ grant' = [grant EXCEPT ![c] =
                [grant[c] EXCEPT !.active = on, !.expires = end]]
         /\ purchased' = AddHashpower(c, IF on THEN 1 ELSE -1)

Apply(w) ==
    LET j == job[w] IN
    /\ j.at = "apply"
    /\ IF j.want # j.was THEN SetActive(j.customer, j.want, j.got.end)
       ELSE /\ grant' = [grant EXCEPT ![j.customer] =
                   [grant[j.customer] EXCEPT !.expires = j.got.end]]
            /\ UNCHANGED purchased
    /\ NextCustomer(w)
    /\ UNCHANGED <<storeVars, purchases, permanent, faults>>

----------------------------------------------------------------------------
(* Faults: a call to RevenueCat or the database that fails, and a restart.  *)

\* A request gives up; a run goes on with its next customer.
CallFails(w) ==
    /\ faults < MaxFaults
    /\ faults' = faults + 1
    /\ job[w].at # "idle"
    /\ IF w = Cron THEN NextCustomer(w) ELSE Finish(w)
    /\ UNCHANGED <<storeVars, dbVars>>

Restart ==
    /\ faults < MaxFaults
    /\ faults' = faults + 1
    /\ job' = [w \in Workers |-> Idle]
    /\ UNCHANGED <<storeVars, dbVars>>

----------------------------------------------------------------------------
Step(w) ==
    \/ Verify(w) \/ CheckKnown(w) \/ CheckTracked(w) \/ RecordPurchase(w)
    \/ LookUp(w) \/ CheckRecoverable(w) \/ RecordRecovered(w)
    \/ FindPurchases(w) \/ Fetch(w) \/ FindGrant(w) \/ CreateLegacy(w) \/ Apply(w)

Next ==
    \/ Tick
    \/ \E s \in Subs : Charge(s) \/ Extend(s) \/ Refund(s)
    \/ \E w \in Requests, c \in Customers : ReportPurchase(w, c)
    \/ \E w \in Requests \ Reporters :
           \/ \E c \in Customers : StartRecovery(w, c)
           \/ \E cs \in SUBSET Customers : ReportChange(w, cs)
    \/ \E scope \in {"due", "all"} : StartReconcile(scope)
    \/ \E w \in Workers : Step(w) \/ CallFails(w)
    \/ Restart

Spec == Init /\ [][Next]_vars

\* Awaited calls come back (RevenueCat's have a timeout) and the six-hourly run
\* is started again and again; webhooks and the hourly run need not come.
FairSpec ==
    /\ Spec
    /\ \A w \in Workers : WF_vars(Step(w))
    /\ SF_vars(StartReconcile("all"))

----------------------------------------------------------------------------
(* Properties *)

\* The packs counted for a user are those given for good and those whose grant
\* is active: two syncs, a purchase and a run that meet flip a grant and its
\* hashpower once (setActive and grantPlanPurchase).
CountedOnce ==
    \A c \in Customers :
        purchased[c] = permanent[c] + (IF grant[c].active THEN 1 ELSE 0)

\* Nobody has more packs in force than periods were charged: a purchase that is
\* reported by the app, by webhooks and by the recovery script is applied once.
NoMoreThanCharged ==
    \A s \in Subs : \A c \in Customers : SubOf[c] = s => purchased[c] <= charged[s]

InLine(c) ==
    /\ RowsOf(c) # {} /\ entry[SubOf[c]].start > 0 => grant[c].made
    /\ grant[c].made =>
           grant[c].active =
               ShouldBeActive(grant[c], entry[SubOf[c]], now, FirstDate(c))

\* Once the store is at rest every grant agrees with it for good, whatever
\* webhooks were lost, repeated or overtaken ("a missed or refused webhook only
\* delays a change, never loses it", subscriptionGrants.js:19).
EventuallyInLine == <>[](\A c \in Customers : InLine(c))
=============================================================================
