------------------------ MODULE SubscriptionsProofs ------------------------
(***************************************************************************)
(* Proofs about the packs sold as subscriptions, for any customers, any    *)
(* number of requests, webhooks and scripts at work with the reconciling   *)
(* run, and any restarts and failed calls.  That packs are counted once is *)
(* not inductive: a sync applies what it decided earlier, and setActive    *)
(* looks at the row only, so the invariant also says that a grant that is  *)
(* active, or about to be, was made.  The packs are bounded by the charges  *)
(* through the store's word: two transactions between the first period and *)
(* the latest are two charges.                                             *)
(***************************************************************************)
EXTENDS Subscriptions, SumLemmas

Tracked ==
    /\ \A c \in Customers : grant[c].active => grant[c].made
    /\ \A w \in Workers : job[w].at = "apply" => grant[job[w].customer].made

SubsInv == TypeOK /\ Tracked /\ CountedOnce

----------------------------------------------------------------------------
(* Data. *)

LEMMA TimeIsNat == Time \subseteq Nat /\ 0 \in Time
  BY SubsAssumption DEF Time

LEMMA NotListedIsEntry == NotListed \in Entries
  BY TimeIsNat DEF NotListed, Entries

LEMMA IdleIsJob == Idle \in Jobs /\ Idle.at = "idle" /\ Idle.todo = {}
<1>1. PICK c \in Customers : TRUE
  BY SubsAssumption
<1> DEFINE i == [at |-> "idle", customer |-> c, todo |-> {}, clock |-> 0, since |-> 0,
                 got |-> NotListed, was |-> FALSE, want |-> FALSE]
<1>2. i \in IdleJobs
  BY DEF IdleJobs
<1>3. Idle \in IdleJobs
  BY <1>2 DEF Idle
<1> QED BY <1>3, TimeIsNat, NotListedIsEntry DEF IdleJobs, Jobs

\* The date of the first row of a customer who has one.
LEMMA FirstDateIsOfARow ==
  ASSUME TypeOK, NEW c \in Customers, RowsOf(c) # {}
  PROVE  FirstDate(c) \in Time /\ \E r \in RowsOf(c) : FirstDate(c) = r.date
<1> DEFINE S == {r.date : r \in RowsOf(c)}
<1>1. S \subseteq Time /\ S # {}
  BY DEF RowsOf, TypeOK, Rows
<1>2. S \in SUBSET Nat
  BY <1>1, TimeIsNat
<1>3. PICK n \in S : \A m \in S : n <= m
  BY <1>1, <1>2, SmallestNat
<1>4. \E d \in S : \A r \in RowsOf(c) : d <= r.date
  BY <1>3
<1>5. FirstDate(c) \in S
  BY <1>4 DEF FirstDate
<1> QED BY <1>1, <1>5

----------------------------------------------------------------------------
(* A worker's step. *)

\* The worker stands at r now; rows that were made stay.
Moved(w, r) ==
    /\ job' = [job EXCEPT ![w] = r]
    /\ r \in Jobs
    /\ r.at = "apply" => grant'[r.customer].made
    /\ \A c \in Customers : grant[c].made => grant'[c].made

LEMMA MovedKeeps ==
  ASSUME TypeOK, Tracked, NEW w \in Workers, NEW r, Moved(w, r)
  PROVE  /\ job' \in [Workers -> Jobs]
         /\ \A v \in Workers : job'[v].at = "apply" => grant'[job'[v].customer].made
<1>1. job' \in [Workers -> Jobs] /\ job'[w] = r
  BY DEF Moved, TypeOK
<1>2. ASSUME NEW v \in Workers, v # w, job'[v].at = "apply"
      PROVE  grant'[job'[v].customer].made
  <2>1. job'[v] = job[v] /\ job[v].customer \in Customers
    BY <1>2 DEF Moved, TypeOK, Jobs
  <2> QED BY <1>2, <2>1 DEF Moved, Tracked
<1> QED BY <1>1, <1>2 DEF Moved

\* A worker that only moves on, and not into applying.
LEMMA OnlyMoved ==
  ASSUME SubsInv, NEW w \in Workers, NEW r \in Jobs, r.at # "apply",
         job' = [job EXCEPT ![w] = r], UNCHANGED <<storeVars, dbVars>>,
         faults' \in 0..MaxFaults
  PROVE  SubsInv'
<1> USE DEF storeVars, dbVars
<1>1. Moved(w, r)
  BY DEF Moved
<1>2. job' \in [Workers -> Jobs]
  BY <1>1, MovedKeeps DEF SubsInv
<1>3. \A v \in Workers : job'[v].at = "apply" => grant'[job'[v].customer].made
  BY <1>1, MovedKeeps DEF SubsInv
<1>4. TypeOK'
  BY <1>2 DEF SubsInv, TypeOK
<1>5. Tracked'
  BY <1>3 DEF SubsInv, Tracked
<1>6. CountedOnce'
  BY DEF SubsInv, CountedOnce
<1> QED BY <1>4, <1>5, <1>6 DEF SubsInv

\* The next customer of a webhook or a run, or the end of it.
LEMMA NextCustomerIs ==
  ASSUME TypeOK, NEW w \in Workers, NextCustomer(w)
  PROVE  \E r \in Jobs : r.at \in {"idle", "find"} /\ job' = [job EXCEPT ![w] = r]
<1>1. CASE job[w].todo = {}
  BY <1>1, IdleIsJob DEF NextCustomer, Finish
<1>2. CASE job[w].todo # {}
  <2>1. PICK c \in job[w].todo :
          Goto(w, [Idle EXCEPT !.at = "find", !.customer = c,
                               !.todo = job[w].todo \ {c}, !.clock = job[w].clock])
    BY <1>2 DEF NextCustomer
  <2> DEFINE r == [Idle EXCEPT !.at = "find", !.customer = c,
                               !.todo = job[w].todo \ {c}, !.clock = job[w].clock]
  <2>2. job[w] \in Jobs
    BY DEF TypeOK
  <2>3. r \in Jobs /\ r.at = "find"
    BY <2>2, IdleIsJob DEF Jobs
  <2> HIDE DEF r
  <2>4. job' = [job EXCEPT ![w] = r]
    BY <2>1 DEF Goto, r
  <2> QED BY <2>3, <2>4
<1> QED BY <1>1, <1>2

LEMMA NextCustomerMoves ==
  ASSUME TypeOK, NEW w \in Workers, NextCustomer(w)
  PROVE  \E r \in Jobs : r.at # "apply" /\ job' = [job EXCEPT ![w] = r]
<1>1. PICK r \in Jobs : r.at \in {"idle", "find"} /\ job' = [job EXCEPT ![w] = r]
  BY NextCustomerIs
<1> QED BY <1>1

----------------------------------------------------------------------------
LEMMA InitInv == Init => SubsInv
<1> SUFFICES ASSUME NEW old \in SUBSET Customers,
        /\ now = 1
        /\ entry = [s \in Subs |->
               IF \E c \in old : SubOf[c] = s
               THEN [first |-> 1, start |-> 1, end |-> 1 + Period, refund |-> "no"]
               ELSE NotListed]
        /\ charged = [s \in Subs |-> IF \E c \in old : SubOf[c] = s THEN 1 ELSE 0]
        /\ purchases = {[customer |-> c, txn |-> OldTxn, date |-> 1] : c \in old}
        /\ grant = [c \in Customers |-> NoGrant]
        /\ purchased = [c \in Customers |-> IF c \in old THEN 1 ELSE 0]
        /\ permanent = purchased
        /\ job = [w \in Workers |-> Idle]
        /\ faults = 0
    PROVE SubsInv
  BY DEF Init
<1>1. 1 \in Time /\ OldTxn \in Time /\ 1 + Period \in Nat
  BY SubsAssumption DEF Time
<1>2. entry \in [Subs -> Entries]
  <2> DEFINE e == [first |-> 1, start |-> 1, end |-> 1 + Period, refund |-> "no"]
  <2>1. e \in Entries
    BY <1>1 DEF Entries
  <2> HIDE DEF e
  <2>2. entry = [s \in Subs |-> IF \E c \in old : SubOf[c] = s THEN e ELSE NotListed]
    BY DEF e
  <2> QED BY <2>1, <2>2, NotListedIsEntry
<1>3. purchases \in SUBSET Rows
  BY <1>1 DEF Rows
<1>4. NoGrant \in Grants /\ ~NoGrant.active
  BY DEF NoGrant, Grants
<1>5. TypeOK
  BY <1>1, <1>2, <1>3, <1>4, IdleIsJob, SubsAssumption DEF TypeOK
<1>6. Tracked
  BY <1>4, IdleIsJob DEF Tracked
<1>7. CountedOnce
  BY <1>4 DEF CountedOnce
<1> QED BY <1>5, <1>6, <1>7 DEF SubsInv

LEMMA StoreKeeps ==
  ASSUME SubsInv, Tick \/ \E s \in Subs : Charge(s) \/ Extend(s) \/ Refund(s)
  PROVE  SubsInv'
<1>1. UNCHANGED <<purchases, grant, purchased, permanent, job, faults>>
  BY DEF Tick, Charge, Extend, Refund, dbVars
<1>2. CASE Tick
  <2>1. now' \in Time
    BY <1>2, SubsAssumption DEF Tick, SubsInv, TypeOK, Time
  <2> QED BY <1>1, <1>2, <2>1 DEF Tick, SubsInv, TypeOK, Tracked, CountedOnce
<1>3. ASSUME NEW s \in Subs, Charge(s) \/ Extend(s) \/ Refund(s)
      PROVE  SubsInv'
  <2>1. now' = now /\ now \in Time /\ now \in Nat /\ Period \in Nat /\ entry[s] \in Entries
    BY <1>3, SubsAssumption, TimeIsNat DEF Charge, Extend, Refund, SubsInv, TypeOK
  <2>2. charged' \in [Subs -> Nat]
    BY <1>3 DEF Charge, Extend, Refund, SubsInv, TypeOK
  <2>3. \E e \in Entries : entry' = [entry EXCEPT ![s] = e]
    <3>1. CASE Charge(s)
      <4> DEFINE e == [first  |-> IF entry[s].start = 0 THEN now ELSE entry[s].first,
                       start  |-> now, end |-> now + Period, refund |-> "no"]
      <4>1. e \in Entries
        BY <2>1 DEF Entries
      <4>2. entry' = [entry EXCEPT ![s] = e]
        BY <3>1 DEF Charge
      <4> QED BY <4>1, <4>2
    <3>2. CASE Extend(s)
      <4> DEFINE e == [entry[s] EXCEPT !.end = @ + 1]
      <4>1. e \in Entries
        BY <2>1 DEF Entries
      <4>2. entry' = [entry EXCEPT ![s] = e]
        BY <3>2 DEF Extend
      <4> QED BY <4>1, <4>2
    <3>3. CASE Refund(s)
      <4>1. [entry[s] EXCEPT !.refund = "yes"] \in Entries
        BY <2>1 DEF Entries
      <4>2. [entry[s] EXCEPT !.refund = "reversed"] \in Entries
        BY <2>1 DEF Entries
      <4>3. \/ entry' = [entry EXCEPT ![s] = [entry[s] EXCEPT !.refund = "yes"]]
            \/ entry' = [entry EXCEPT ![s] = [entry[s] EXCEPT !.refund = "reversed"]]
        BY <3>3 DEF Refund
      <4> QED BY <4>1, <4>2, <4>3
    <3> QED BY <1>3, <3>1, <3>2, <3>3
  <2>4. entry' \in [Subs -> Entries]
    BY <2>3 DEF SubsInv, TypeOK
  <2>5. TypeOK'
    BY <1>1, <2>1, <2>2, <2>4 DEF SubsInv, TypeOK
  <2>6. Tracked' /\ CountedOnce'
    BY <1>1 DEF SubsInv, Tracked, CountedOnce
  <2> QED BY <2>5, <2>6 DEF SubsInv
<1> QED BY <1>2, <1>3

----------------------------------------------------------------------------
(* Steps that only move a worker. *)

\* What a worker that is let in starts with.
LEMMA StartMoves ==
  ASSUME SubsInv, NEW w \in Workers,
         \/ \E c \in Customers : ReportPurchase(w, c) \/ StartRecovery(w, c)
         \/ \E cs \in SUBSET Customers : ReportChange(w, cs)
         \/ w = Cron /\ \E scope \in {"due", "all"} : StartReconcile(scope)
  PROVE  \E r \in Jobs : r.at \in {"verify", "look", "find"} /\ job' = [job EXCEPT ![w] = r]
<1> DEFINE Starts == \E r \in Jobs : /\ r.at \in {"verify", "look", "find"}
                                   /\ job' = [job EXCEPT ![w] = r]
<1>1. Starts
  <2>1. ASSUME NEW c \in Customers, ReportPurchase(w, c)
        PROVE  Starts
    <3>1. [Idle EXCEPT !.at = "verify", !.customer = c] \in Jobs
      BY IdleIsJob DEF Jobs
    <3>2. [Idle EXCEPT !.at = "verify", !.customer = c].at = "verify"
      BY IdleIsJob DEF Jobs
    <3> QED BY <2>1, <3>1, <3>2 DEF ReportPurchase, Goto
  <2>2. ASSUME NEW c \in Customers, StartRecovery(w, c)
        PROVE  Starts
    <3>1. [Idle EXCEPT !.at = "look", !.customer = c] \in Jobs
      BY IdleIsJob DEF Jobs
    <3>2. [Idle EXCEPT !.at = "look", !.customer = c].at = "look"
      BY IdleIsJob DEF Jobs
    <3> QED BY <2>2, <3>1, <3>2 DEF StartRecovery, Goto
  <2>3. ASSUME NEW cs \in SUBSET Customers, ReportChange(w, cs)
        PROVE  Starts
    <3>1. PICK c \in cs : job' = [job EXCEPT ![w] =
            [Idle EXCEPT !.at = "find", !.customer = c, !.todo = cs \ {c}]]
      BY <2>3 DEF ReportChange, Goto
    <3>2. [Idle EXCEPT !.at = "find", !.customer = c, !.todo = cs \ {c}] \in Jobs
      BY <2>3, IdleIsJob DEF Jobs
    <3>3. [Idle EXCEPT !.at = "find", !.customer = c, !.todo = cs \ {c}].at = "find"
      BY IdleIsJob DEF Jobs
    <3> QED BY <2>3, <3>1, <3>2, <3>3 DEF ReportChange
  <2>4. ASSUME w = Cron, NEW scope \in {"due", "all"}, StartReconcile(scope)
        PROVE  Starts
    <3>1. InScope(scope) \subseteq Customers /\ now \in Time
      BY DEF InScope, SubsInv, TypeOK
    <3>2. PICK c \in InScope(scope) : job' = [job EXCEPT ![w] =
            [Idle EXCEPT !.at = "find", !.customer = c, !.clock = now,
                         !.todo = InScope(scope) \ {c}]]
      BY <2>4 DEF StartReconcile, Goto
    <3>3. [Idle EXCEPT !.at = "find", !.customer = c, !.clock = now,
                       !.todo = InScope(scope) \ {c}] \in Jobs
      BY <3>1, IdleIsJob DEF Jobs
    <3>4. [Idle EXCEPT !.at = "find", !.customer = c, !.clock = now,
                       !.todo = InScope(scope) \ {c}].at = "find"
      BY IdleIsJob DEF Jobs
    <3> QED BY <2>4, <3>2, <3>3, <3>4 DEF StartReconcile
  <2> QED BY <2>1, <2>2, <2>3, <2>4
<1> QED BY <1>1

LEMMA StartKeeps ==
  ASSUME SubsInv, NEW w \in Workers,
         \/ \E c \in Customers : ReportPurchase(w, c) \/ StartRecovery(w, c)
         \/ \E cs \in SUBSET Customers : ReportChange(w, cs)
         \/ w = Cron /\ \E scope \in {"due", "all"} : StartReconcile(scope)
  PROVE  SubsInv'
<1>1. UNCHANGED <<storeVars, dbVars, faults>>
  BY DEF ReportPurchase, StartRecovery, ReportChange, StartReconcile
<1>2. PICK r \in Jobs : r.at \in {"verify", "look", "find"} /\ job' = [job EXCEPT ![w] = r]
  BY StartMoves
<1> QED BY <1>1, <1>2, OnlyMoved DEF SubsInv, TypeOK

\* The reads of a purchase, a recovery and a sync.
LEMMA ReadsKeep ==
  ASSUME SubsInv, NEW w \in Workers,
         \/ Verify(w) \/ CheckKnown(w) \/ CheckTracked(w) \/ LookUp(w)
         \/ CheckRecoverable(w) \/ FindPurchases(w) \/ Fetch(w)
  PROVE  SubsInv'
<1> DEFINE j == job[w]
           e == entry[SubOf[j.customer]]
<1>1. j \in Jobs /\ j.customer \in Customers /\ e \in Entries /\ now \in Time
  BY SubsAssumption DEF SubsInv, TypeOK, Jobs
<1>2. UNCHANGED <<storeVars, dbVars, faults>>
  BY DEF Verify, CheckKnown, CheckTracked, LookUp, CheckRecoverable, FindPurchases, Fetch
<1> DEFINE Moves == \E r \in Jobs : r.at # "apply" /\ job' = [job EXCEPT ![w] = r]
<1>3. ASSUME NEW r \in Jobs, r.at # "apply", job' = [job EXCEPT ![w] = r]
      PROVE  Moves
  BY <1>3
<1>4. Finish(w) => Moves
  BY IdleIsJob DEF Finish
<1>5. NextCustomer(w) => Moves
  BY NextCustomerMoves DEF SubsInv
<1> HIDE DEF Moves
<1>6. ASSUME Verify(w) PROVE Moves
  <2> DEFINE got == [NotListed EXCEPT !.start = e.start, !.end = e.end]
  <2>1. got \in Entries
    BY <1>1, NotListedIsEntry DEF Entries
  <2> HIDE DEF got
  <2>2. [j EXCEPT !.at = "known", !.got = got] \in Jobs
    BY <1>1, <2>1 DEF Jobs
  <2>3. [j EXCEPT !.at = "known", !.got = got].at = "known"
    BY <1>1 DEF Jobs
  <2>4. Finish(w) \/ job' = [job EXCEPT ![w] = [j EXCEPT !.at = "known", !.got = got]]
    BY <1>6 DEF Verify, Goto, got
  <2> QED BY <1>3, <1>4, <2>2, <2>3, <2>4
<1>7. ASSUME LookUp(w) PROVE Moves
  <2> DEFINE got == [NotListed EXCEPT !.start = e.start]
  <2>1. got \in Entries
    BY <1>1, NotListedIsEntry DEF Entries
  <2> HIDE DEF got
  <2>2. [j EXCEPT !.at = "recoverable", !.got = got] \in Jobs
    BY <1>1, <2>1 DEF Jobs
  <2>3. [j EXCEPT !.at = "recoverable", !.got = got].at = "recoverable"
    BY <1>1 DEF Jobs
  <2>4. Finish(w) \/ job' = [job EXCEPT ![w] = [j EXCEPT !.at = "recoverable", !.got = got]]
    BY <1>7 DEF LookUp, Goto, got
  <2> QED BY <1>3, <1>4, <2>2, <2>3, <2>4
<1>8. ASSUME CheckKnown(w) \/ CheckRecoverable(w) PROVE Moves
  <2>1. \A at \in {"tracked", "recover"} :
          [j EXCEPT !.at = at] \in Jobs /\ [j EXCEPT !.at = at].at = at
    BY <1>1 DEF Jobs
  <2>2. Finish(w) \/ \E at \in {"tracked", "recover"} :
                       job' = [job EXCEPT ![w] = [j EXCEPT !.at = at]]
    BY <1>8 DEF CheckKnown, CheckRecoverable, Goto
  <2> QED BY <1>3, <1>4, <2>1, <2>2
<1>9. ASSUME CheckTracked(w) PROVE Moves
  <2>1. /\ [j EXCEPT !.at = "record"] \in Jobs
        /\ [j EXCEPT !.at = "record"].at = "record"
        /\ [Idle EXCEPT !.at = "find", !.customer = j.customer] \in Jobs
        /\ [Idle EXCEPT !.at = "find", !.customer = j.customer].at = "find"
    BY <1>1, IdleIsJob DEF Jobs
  <2>2. \/ job' = [job EXCEPT ![w] = [j EXCEPT !.at = "record"]]
        \/ job' = [job EXCEPT ![w] = [Idle EXCEPT !.at = "find", !.customer = j.customer]]
    BY <1>9 DEF CheckTracked, Goto
  <2> QED BY <1>3, <2>1, <2>2
<1>10. ASSUME FindPurchases(w) PROVE Moves
  <2> DEFINE clock == IF w = Cron THEN j.clock ELSE now
             since == FirstDate(j.customer)
  <2>1. clock \in Time
    BY <1>1 DEF Jobs
  <2>2. CASE RowsOf(j.customer) = {}
    BY <1>10, <1>5, <2>2 DEF FindPurchases
  <2>3. CASE RowsOf(j.customer) # {}
    <3>1. since \in Time
      BY <1>1, <2>3, FirstDateIsOfARow DEF SubsInv
    <3> HIDE DEF clock, since
    <3>2. /\ [j EXCEPT !.at = "fetch", !.since = since, !.clock = clock] \in Jobs
          /\ [j EXCEPT !.at = "fetch", !.since = since, !.clock = clock].at = "fetch"
      BY <1>1, <2>1, <3>1 DEF Jobs
    <3>3. job' = [job EXCEPT ![w] = [j EXCEPT !.at = "fetch", !.since = since,
                                              !.clock = clock]]
      BY <1>10, <2>3 DEF FindPurchases, Goto, clock, since
    <3> QED BY <1>3, <3>2, <3>3
  <2> QED BY <2>2, <2>3
<1>11. ASSUME Fetch(w) PROVE Moves
  <2>1. /\ [j EXCEPT !.at = "grant", !.got = e] \in Jobs
        /\ [j EXCEPT !.at = "grant", !.got = e].at = "grant"
    BY <1>1 DEF Jobs
  <2>2. job' = [job EXCEPT ![w] = [j EXCEPT !.at = "grant", !.got = e]]
    BY <1>11 DEF Fetch, Goto
  <2> QED BY <1>3, <2>1, <2>2
<1>12. Moves
  BY <1>6, <1>7, <1>8, <1>9, <1>10, <1>11
<1> QED BY <1>2, <1>12, OnlyMoved DEF Moves, SubsInv, TypeOK

\* A call that fails, or a restart.
LEMMA FaultsKeep ==
  ASSUME SubsInv, Restart \/ \E w \in Workers : CallFails(w)
  PROVE  SubsInv'
<1>1. faults' \in 0..MaxFaults
  BY SubsAssumption DEF Restart, CallFails, SubsInv, TypeOK
<1>2. ASSUME NEW w \in Workers, CallFails(w) PROVE SubsInv'
  <2>1. UNCHANGED <<storeVars, dbVars>>
    BY <1>2 DEF CallFails
  <2>2. \E r \in Jobs : r.at # "apply" /\ job' = [job EXCEPT ![w] = r]
    BY <1>2, NextCustomerMoves, IdleIsJob DEF CallFails, Finish, SubsInv
  <2> QED BY <1>1, <2>1, <2>2, OnlyMoved
<1>3. CASE Restart
  <2>1. job' \in [Workers -> Jobs] /\ \A w \in Workers : job'[w].at = "idle"
    BY <1>3, IdleIsJob DEF Restart
  <2>2. TypeOK'
    BY <1>1, <1>3, <2>1 DEF Restart, storeVars, dbVars, SubsInv, TypeOK
  <2>3. Tracked' /\ CountedOnce'
    BY <1>3, <2>1 DEF Restart, dbVars, SubsInv, Tracked, CountedOnce
  <2> QED BY <2>2, <2>3 DEF SubsInv
<1> QED BY <1>2, <1>3

----------------------------------------------------------------------------
(* Steps that write. *)

\* What a step leaves that moves a worker, writes one customer's grant and counts
\* its packs accordingly.
LEMMA WrittenKeeps ==
  ASSUME SubsInv, NEW w \in Workers, NEW r, Moved(w, r),
         NEW c \in Customers, NEW g \in Grants, g.active => g.made,
         grant' = [grant EXCEPT ![c] = g],
         purchased' \in [Customers -> Nat], permanent' \in [Customers -> Nat],
         purchased'[c] = permanent'[c] + (IF g.active THEN 1 ELSE 0),
         \A d \in Customers \ {c} :
             purchased'[d] = purchased[d] /\ permanent'[d] = permanent[d],
         purchases' \in SUBSET Rows, UNCHANGED <<storeVars, faults>>
  PROVE  SubsInv'
<1>1. /\ job' \in [Workers -> Jobs]
      /\ \A v \in Workers : job'[v].at = "apply" => grant'[job'[v].customer].made
  BY MovedKeeps DEF SubsInv
<1>2. grant' \in [Customers -> Grants] /\ grant'[c] = g
      /\ \A d \in Customers \ {c} : grant'[d] = grant[d]
  BY DEF SubsInv, TypeOK
<1>3. TypeOK'
  BY <1>1, <1>2 DEF SubsInv, TypeOK, storeVars
<1>4. Tracked'
  BY <1>1, <1>2 DEF SubsInv, Tracked
<1>5. CountedOnce'
  BY <1>2 DEF SubsInv, CountedOnce
<1> QED BY <1>3, <1>4, <1>5 DEF SubsInv

\* A row, with the pack, in one transaction that the indexes abort.
LEMMA RecordKeeps ==
  ASSUME SubsInv, NEW w \in Workers, RecordPurchase(w) \/ RecordRecovered(w)
  PROVE  SubsInv'
<1> DEFINE j == job[w]
           c == j.customer
<1>1. j \in Jobs /\ c \in Customers /\ NewRow(j) \in Rows
  BY DEF SubsInv, TypeOK, Jobs, Entries, NewRow, Rows
<1>2. job' = [job EXCEPT ![w] = Idle] /\ UNCHANGED <<storeVars, faults>>
  BY DEF RecordPurchase, RecordRecovered, Finish
<1>3. ASSUME UNCHANGED dbVars PROVE SubsInv'
  BY <1>2, <1>3, IdleIsJob, OnlyMoved DEF SubsInv, TypeOK
<1>4. /\ purchased[c] \in Nat /\ permanent[c] \in Nat /\ grant[c] \in Grants
      /\ purchased[c] = permanent[c] + (IF grant[c].active THEN 1 ELSE 0)
      /\ grant[c].active => grant[c].made
  BY <1>1 DEF SubsInv, TypeOK, CountedOnce, Tracked
<1>5. ASSUME RecordPurchase(w), ~Aborts(j, TRUE) PROVE SubsInv'
  <2> DEFINE g == [made |-> TRUE, legacy |-> FALSE, active |-> TRUE, expires |-> j.got.end]
  <2>1. g \in Grants /\ g.made /\ g.active
    BY <1>1 DEF Grants, Jobs, Entries
  <2> HIDE DEF g
  <2>2. /\ purchases' = purchases \cup {NewRow(j)}
        /\ grant' = [grant EXCEPT ![c] = g]
        /\ purchased' = [purchased EXCEPT ![c] = @ + 1]
        /\ UNCHANGED permanent
    BY <1>5 DEF RecordPurchase, g
  <2>3. ~grant[c].active
    BY <1>4, <1>5 DEF Aborts
  <2>4. Moved(w, Idle)
    BY <1>2, <2>1, <2>2, IdleIsJob DEF Moved, SubsInv, TypeOK
  <2>5. purchased'[c] = permanent'[c] + (IF g.active THEN 1 ELSE 0)
    BY <1>1, <1>4, <2>1, <2>2, <2>3 DEF SubsInv, TypeOK
  <2>6. purchased' \in [Customers -> Nat] /\ permanent' \in [Customers -> Nat]
    BY <1>1, <2>2 DEF SubsInv, TypeOK
  <2>7. \A d \in Customers \ {c} :
          purchased'[d] = purchased[d] /\ permanent'[d] = permanent[d]
    BY <1>1, <2>2 DEF SubsInv, TypeOK
  <2>8. purchases' \in SUBSET Rows
    BY <1>1, <2>2 DEF SubsInv, TypeOK
  <2> QED BY <1>1, <1>2, <2>1, <2>2, <2>4, <2>5, <2>6, <2>7, <2>8, WrittenKeeps
<1>6. ASSUME RecordRecovered(w), ~Aborts(j, FALSE) PROVE SubsInv'
  <2>1. /\ purchases' = purchases \cup {NewRow(j)}
        /\ grant' = grant
        /\ purchased' = [purchased EXCEPT ![c] = @ + 1]
        /\ permanent' = [permanent EXCEPT ![c] = @ + 1]
    BY <1>6 DEF RecordRecovered
  <2>2. grant' = [grant EXCEPT ![c] = grant[c]]
    BY <2>1 DEF SubsInv, TypeOK
  <2>3. Moved(w, Idle)
    BY <1>2, <2>1, IdleIsJob DEF Moved
  <2>4. purchased' \in [Customers -> Nat] /\ permanent' \in [Customers -> Nat]
    BY <1>1, <2>1 DEF SubsInv, TypeOK
  <2>5. purchased'[c] = permanent'[c] + (IF grant[c].active THEN 1 ELSE 0)
    BY <1>1, <1>4, <2>1 DEF SubsInv, TypeOK
  <2>6. \A d \in Customers \ {c} :
          purchased'[d] = purchased[d] /\ permanent'[d] = permanent[d]
    BY <1>1, <2>1 DEF SubsInv, TypeOK
  <2>7. purchases' \in SUBSET Rows
    BY <1>1, <2>1 DEF SubsInv, TypeOK
  <2> QED BY <1>1, <1>2, <1>4, <2>2, <2>3, <2>4, <2>5, <2>6, <2>7, WrittenKeeps
<1> QED BY <1>3, <1>5, <1>6 DEF RecordPurchase, RecordRecovered

\* A decision is about a grant that was made.
LEMMA DecidedIsJob ==
  ASSUME TypeOK, NEW w \in Workers, NEW g \in Grants
  PROVE  /\ Decided(job[w], g) \in Jobs
         /\ Decided(job[w], g).customer = job[w].customer
<1> DEFINE j == job[w]
           want == ShouldBeActive(g, j.got, j.clock, j.since)
           got == [NotListed EXCEPT !.end = j.got.end]
           clock == IF j.todo = {} THEN 0 ELSE j.clock
<1>1. j \in Jobs
  BY DEF TypeOK
<1>2. want \in BOOLEAN
  BY DEF ShouldBeActive
<1>3. got \in Entries
  BY <1>1, NotListedIsEntry DEF Entries, Jobs
<1>4. clock \in Time
  BY <1>1, TimeIsNat DEF Jobs
<1>5. Decided(j, g) = [j EXCEPT !.at = "apply", !.was = g.active, !.want = want,
                                !.got = got, !.since = 0, !.clock = clock]
  BY DEF Decided
<1>6. g.active \in BOOLEAN
  BY DEF Grants
<1> HIDE DEF want, got, clock
<1>7. 0 \in Time
  BY TimeIsNat
<1> DEFINE r == [j EXCEPT !.at = "apply", !.was = g.active, !.want = want,
                           !.got = got, !.since = 0, !.clock = clock]
<1>8. [j EXCEPT !.at = "apply", !.was = g.active] \in Jobs
  BY <1>1, <1>6 DEF Jobs
<1>9. [j EXCEPT !.at = "apply", !.was = g.active, !.want = want, !.got = got] \in Jobs
  BY <1>2, <1>3, <1>8 DEF Jobs
<1>10. r \in Jobs /\ r.customer = j.customer
  BY <1>1, <1>4, <1>7, <1>9 DEF Jobs
<1> QED BY <1>5, <1>10

LEMMA FindGrantKeeps ==
  ASSUME SubsInv, NEW w \in Workers, FindGrant(w)
  PROVE  SubsInv'
<1> DEFINE j == job[w]
           g == grant[j.customer]
<1>1. /\ j \in Jobs /\ j.customer \in Customers /\ g \in Grants
      /\ j.got.start \in Nat
  BY TimeIsNat DEF SubsInv, TypeOK, Jobs, Entries
<1>2. j.got.start > 0 <=> j.got.start # 0
  BY <1>1
<1>3. UNCHANGED <<storeVars, dbVars, faults>>
  BY DEF FindGrant
<1>4. CASE j.got.start = 0
  <2>1. NextCustomer(w)
    BY <1>4 DEF FindGrant
  <2> QED BY <1>3, <2>1, NextCustomerMoves, OnlyMoved DEF SubsInv, TypeOK
<1>5. CASE j.got.start > 0 /\ ~g.made
  <2>1. job' = [job EXCEPT ![w] = [j EXCEPT !.at = "create"]]
    BY <1>5, <1>2, Zenon DEF FindGrant, Goto
  <2>2. [j EXCEPT !.at = "create"] \in Jobs /\ [j EXCEPT !.at = "create"].at = "create"
    BY <1>1 DEF Jobs
  <2> QED BY <1>3, <2>1, <2>2, OnlyMoved DEF SubsInv, TypeOK
<1>6. CASE j.got.start > 0 /\ g.made
  <2>1. job' = [job EXCEPT ![w] = Decided(j, g)]
    BY <1>6, <1>2, Zenon DEF FindGrant, Goto
  <2>2. Decided(j, g) \in Jobs /\ Decided(j, g).customer = j.customer
    BY <1>1, DecidedIsJob DEF SubsInv
  <2>3. Moved(w, Decided(j, g))
    BY <1>3, <1>6, <2>1, <2>2 DEF Moved, dbVars
  <2>4. grant' = [grant EXCEPT ![j.customer] = g]
    BY <1>3 DEF dbVars, SubsInv, TypeOK
  <2>5. g.active => g.made
    BY <1>6
  <2>6. purchased[j.customer] = permanent[j.customer] + (IF g.active THEN 1 ELSE 0)
    BY <1>1 DEF SubsInv, CountedOnce
  <2> QED BY <1>1, <1>3, <2>3, <2>4, <2>5, <2>6, WrittenKeeps DEF dbVars, SubsInv, TypeOK
<1> QED BY <1>1, <1>2, <1>4, <1>5, <1>6

LEMMA CreateLegacyKeeps ==
  ASSUME SubsInv, NEW w \in Workers, CreateLegacy(w)
  PROVE  SubsInv'
<1> DEFINE c == job[w].customer
           g == IF grant[c].made THEN grant[c]
                ELSE [NoGrant EXCEPT !.made = TRUE, !.legacy = TRUE]
<1>1. /\ c \in Customers /\ grant[c] \in Grants
      /\ purchased[c] \in Nat /\ permanent[c] \in Nat
      /\ purchased[c] = permanent[c] + (IF grant[c].active THEN 1 ELSE 0)
      /\ grant[c].active => grant[c].made
  BY DEF SubsInv, TypeOK, Jobs, CountedOnce, Tracked
<1>2. /\ g \in Grants /\ g.made
      /\ g.active <=> grant[c].active
  BY <1>1 DEF Grants, NoGrant
<1> HIDE DEF g
<1>3. /\ grant' = [grant EXCEPT ![c] = g]
      /\ job' = [job EXCEPT ![w] = Decided(job[w], g)]
      /\ UNCHANGED <<storeVars, purchases, purchased, permanent, faults>>
  BY DEF CreateLegacy, Goto, g
<1>4. Decided(job[w], g) \in Jobs /\ Decided(job[w], g).customer = c
  BY <1>2, DecidedIsJob DEF SubsInv
<1>5. Moved(w, Decided(job[w], g))
  BY <1>1, <1>2, <1>3, <1>4 DEF Moved, SubsInv, TypeOK
<1>6. purchased[c] = permanent[c] + (IF g.active THEN 1 ELSE 0)
  BY <1>1, <1>2
<1> QED BY <1>1, <1>2, <1>3, <1>5, <1>6, WrittenKeeps DEF SubsInv, TypeOK

\* The flip and the pack, of a row that still is the other way.
LEMMA ApplyKeeps ==
  ASSUME SubsInv, NEW w \in Workers, Apply(w)
  PROVE  SubsInv'
<1> DEFINE j == job[w]
           c == j.customer
           end == j.got.end
<1>1. /\ j \in Jobs /\ c \in Customers /\ grant[c] \in Grants /\ end \in Nat
      /\ purchased[c] \in Nat /\ permanent[c] \in Nat
      /\ purchased[c] = permanent[c] + (IF grant[c].active THEN 1 ELSE 0)
      /\ j.want \in BOOLEAN
  BY DEF SubsInv, TypeOK, Jobs, Entries, CountedOnce
<1>2. grant[c].made
  BY DEF Apply, SubsInv, Tracked
<1>3. UNCHANGED <<storeVars, purchases, permanent, faults>> /\ NextCustomer(w)
  BY DEF Apply
<1>4. PICK r \in Jobs : r.at # "apply" /\ job' = [job EXCEPT ![w] = r]
  BY <1>3, NextCustomerMoves DEF SubsInv
<1>5. ASSUME NEW g \in Grants, g.made, grant' = [grant EXCEPT ![c] = g],
             NEW n \in Nat, purchased' = [purchased EXCEPT ![c] = n],
             n = permanent[c] + (IF g.active THEN 1 ELSE 0)
      PROVE  SubsInv'
  <2>1. Moved(w, r)
    BY <1>1, <1>4, <1>5 DEF Moved, SubsInv, TypeOK
  <2>2. /\ purchased' \in [Customers -> Nat] /\ purchased'[c] = n
        /\ \A d \in Customers \ {c} : purchased'[d] = purchased[d]
    BY <1>1, <1>5 DEF SubsInv, TypeOK
  <2> QED BY <1>1, <1>3, <1>5, <2>1, <2>2, WrittenKeeps DEF SubsInv, TypeOK
<1>6. /\ purchased = [purchased EXCEPT ![c] = purchased[c]]
      /\ grant = [grant EXCEPT ![c] = grant[c]]
  BY DEF SubsInv, TypeOK
<1>7. CASE j.want = j.was
  <2> DEFINE g == [grant[c] EXCEPT !.expires = end]
  <2>1. g \in Grants /\ g.made /\ (g.active <=> grant[c].active)
    BY <1>1, <1>2 DEF Grants
  <2> HIDE DEF g
  <2>2. grant' = [grant EXCEPT ![c] = g] /\ purchased' = purchased
    BY <1>7 DEF Apply, g
  <2> QED BY <1>1, <1>5, <1>6, <2>1, <2>2
<1>8. CASE j.want # j.was /\ grant[c].active = j.want
  <2>1. grant' = grant /\ purchased' = purchased
    BY <1>8 DEF Apply, SetActive
  <2> QED BY <1>1, <1>2, <1>5, <1>6, <2>1
<1>9. CASE j.want # j.was /\ grant[c].active # j.want
  <2> DEFINE g == [grant[c] EXCEPT !.active = j.want, !.expires = end]
             delta == IF j.want THEN 1 ELSE -1
             n == IF purchased[c] + delta > 0 THEN purchased[c] + delta ELSE 0
  <2>1. g \in Grants /\ g.made /\ (g.active <=> j.want)
    BY <1>1, <1>2 DEF Grants
  <2>2. grant[c].active <=> ~j.want
    BY <1>1, <1>9 DEF Grants
  <2>3. n \in Nat /\ n = permanent[c] + (IF j.want THEN 1 ELSE 0)
    BY <1>1, <2>2
  <2> HIDE DEF g
  <2>4. grant' = [grant EXCEPT ![c] = g] /\ purchased' = [purchased EXCEPT ![c] = n]
    BY <1>9 DEF Apply, SetActive, AddHashpower, g
  <2> HIDE DEF n
  <2> QED BY <1>5, <2>1, <2>3, <2>4
<1> QED BY <1>7, <1>8, <1>9

----------------------------------------------------------------------------
\* The invariant holds in every state of the specification.
THEOREM SubscriptionsInvariant == Spec => []SubsInv
<1>1. SubsInv /\ [Next]_vars => SubsInv'
  <2> SUFFICES ASSUME SubsInv, [Next]_vars PROVE SubsInv'
    OBVIOUS
  <2>1. CASE UNCHANGED vars
    BY <2>1 DEF vars, storeVars, dbVars, SubsInv, TypeOK, Tracked, CountedOnce
  <2>2. Cron \in Workers /\ Requests \subseteq Workers
    BY DEF Workers
  <2>3. CASE Next
    <3>1. CASE Tick \/ \E s \in Subs : Charge(s) \/ Extend(s) \/ Refund(s)
      BY <3>1, StoreKeeps
    <3>2. CASE \/ \E w \in Requests, c \in Customers : ReportPurchase(w, c)
               \/ \E w \in Requests \ Reporters :
                      \/ \E c \in Customers : StartRecovery(w, c)
                      \/ \E cs \in SUBSET Customers : ReportChange(w, cs)
               \/ \E scope \in {"due", "all"} : StartReconcile(scope)
      BY <2>2, <3>2, StartKeeps
    <3>3. CASE \E w \in Workers : Step(w)
      BY <3>3, ReadsKeep, RecordKeeps, FindGrantKeeps, CreateLegacyKeeps, ApplyKeeps
      DEF Step
    <3>4. CASE Restart \/ \E w \in Workers : CallFails(w)
      BY <3>4, FaultsKeep
    <3> QED BY <2>3, <3>1, <3>2, <3>3, <3>4 DEF Next
  <2> QED BY <2>1, <2>3
<1> QED BY InitInv, <1>1, PTL DEF Spec

\* The types, of the rows and of what every worker holds across its awaits.
THEOREM SubscriptionTypes == Spec => []TypeOK
<1>1. SubsInv => TypeOK
  BY DEF SubsInv
<1> QED BY SubscriptionsInvariant, <1>1, PTL

\* A pack is counted once for a grant that is active and not at all for another,
\* whatever purchases, webhooks, scripts and runs meet, fail or are cut off
\* (setActive and grantPlanPurchase).
THEOREM PacksCountedOnce == Spec => []CountedOnce
<1>1. SubsInv => CountedOnce
  BY DEF SubsInv
<1> QED BY SubscriptionsInvariant, <1>1, PTL

----------------------------------------------------------------------------
(* Packs and charges. *)

\* A transaction of the subscription that was charged, from its first on.
Between(e, t) == t > 0 /\ e.first <= t /\ t <= e.start

\* It was renewed or taken up again: two charges at least.
Twice(e) == e.first < e.start

EntryOf(c) == entry[SubOf[c]]

StoreAgrees ==
    \A s \in Subs :
        /\ entry[s].first <= entry[s].start /\ entry[s].start <= now
        /\ entry[s].start > 0 => entry[s].first > 0 /\ charged[s] >= 1
        /\ Twice(entry[s]) => charged[s] >= 2

RowsAreCharges ==
    \A r \in purchases : Between(EntryOf(r.customer), r.txn) /\ r.date = r.txn

\* A pack for good is that of the first transaction.
GivenOnce ==
    \A c \in Customers :
        permanent[c] # 0 =>
            permanent[c] = 1 /\ \E r \in RowsOf(c) : r.txn = EntryOf(c).first

\* A grant that was bought has a row of its own; a legacy one starts inactive.
GrantsAreCharged ==
    \A c \in Customers :
        /\ grant[c].made /\ grant[c].legacy /\ grant[c].active => Twice(EntryOf(c))
        /\ grant[c].made /\ ~grant[c].legacy =>
               RowsOf(c) # {} /\ (permanent[c] = 0 \/ Twice(EntryOf(c)))

\* What a worker holds of the store, with e the store's word on its customer now
\* and g the customer's grant.
JobIsCharged(j, e, g) ==
    /\ j.at \in {"known", "tracked", "record"} => Between(e, j.got.start)
    /\ j.at \in {"recoverable", "recover"} => j.got.start > 0 /\ j.got.start = e.first
    /\ j.at \in {"fetch", "grant", "create"} => Between(e, j.since)
    /\ j.at \in {"grant", "create"} /\ j.got.start > 0 => Between(e, j.got.start)
    /\ j.at = "apply" /\ j.want /\ g.legacy => Twice(e)

JobsAreCharged ==
    \A w \in Workers :
        JobIsCharged(job[w], EntryOf(job[w].customer), grant[job[w].customer])

PaidInv ==
    /\ StoreAgrees
    /\ RowsAreCharges
    /\ GivenOnce
    /\ GrantsAreCharged
    /\ JobsAreCharged

LEMMA EntriesAreNat ==
  ASSUME TypeOK
  PROVE  /\ now \in Nat
         /\ \A s \in Subs : entry[s].first \in Nat /\ entry[s].start \in Nat
                            /\ charged[s] \in Nat
         /\ \A c \in Customers : SubOf[c] \in Subs /\ EntryOf(c) = entry[SubOf[c]]
                                 /\ EntryOf(c).first \in Nat /\ EntryOf(c).start \in Nat
  BY TimeIsNat, SubsAssumption DEF TypeOK, Entries, EntryOf

LEMMA QuietIsCharged ==
  ASSUME NEW r, NEW e, NEW g, r.at \in {"idle", "find", "verify", "look"}
  PROVE  JobIsCharged(r, e, g)
  BY DEF JobIsCharged

\* A worker that moves while the store and the grants' kinds stay.
LEMMA JobsStayCharged ==
  ASSUME SubsInv, JobsAreCharged, NEW w \in Workers, NEW r,
         job' = [job EXCEPT ![w] = r], UNCHANGED storeVars,
         \A c \in Customers : grant[c].made => grant'[c].legacy = grant[c].legacy,
         JobIsCharged(r, EntryOf(r.customer), grant'[r.customer])
  PROVE  JobsAreCharged'
<1>1. entry' = entry /\ job'[w] = r
  BY DEF storeVars, SubsInv, TypeOK
<1>2. ASSUME NEW v \in Workers, v # w
      PROVE  JobIsCharged(job'[v], entry[SubOf[job'[v].customer]], grant'[job'[v].customer])
  <2>1. job'[v] = job[v] /\ job[v].customer \in Customers
    BY <1>2 DEF SubsInv, TypeOK, Jobs
  <2>2. JobIsCharged(job[v], entry[SubOf[job[v].customer]], grant[job[v].customer])
    BY DEF JobsAreCharged, EntryOf
  <2>3. job[v].at = "apply" => grant'[job[v].customer].legacy = grant[job[v].customer].legacy
    BY <2>1 DEF SubsInv, Tracked
  <2> QED BY <2>1, <2>2, <2>3 DEF JobIsCharged
<1> QED BY <1>1, <1>2 DEF JobsAreCharged, EntryOf

\* Only a worker moves.
LEMMA OnlyMovedIsPaid ==
  ASSUME SubsInv, PaidInv, NEW w \in Workers, NEW r,
         job' = [job EXCEPT ![w] = r], UNCHANGED <<storeVars, dbVars>>,
         JobIsCharged(r, EntryOf(r.customer), grant[r.customer])
  PROVE  PaidInv'
<1>1. grant' = grant
  BY DEF dbVars
<1>2. JobsAreCharged'
  BY <1>1, JobsStayCharged DEF PaidInv
<1>3. StoreAgrees' /\ RowsAreCharges' /\ GivenOnce' /\ GrantsAreCharged'
  BY DEF PaidInv, StoreAgrees, RowsAreCharges, GivenOnce, GrantsAreCharged, EntryOf,
         RowsOf, storeVars, dbVars
<1> QED BY <1>2, <1>3 DEF PaidInv

\* A worker that holds nothing of the store.
LEMMA QuietIsPaid ==
  ASSUME SubsInv, PaidInv, NEW w \in Workers, NEW r,
         job' = [job EXCEPT ![w] = r], UNCHANGED <<storeVars, dbVars>>,
         r.at \in {"idle", "find", "verify", "look"}
  PROVE  PaidInv'
<1>1. JobIsCharged(r, EntryOf(r.customer), grant[r.customer])
  BY QuietIsCharged
<1> QED BY <1>1, OnlyMovedIsPaid

LEMMA InitIsPaid ==
  ASSUME OldTxn = 1, Init
  PROVE  PaidInv
<1> PICK old \in SUBSET Customers :
        /\ now = 1
        /\ entry = [s \in Subs |->
               IF \E c \in old : SubOf[c] = s
               THEN [first |-> 1, start |-> 1, end |-> 1 + Period, refund |-> "no"]
               ELSE NotListed]
        /\ charged = [s \in Subs |-> IF \E c \in old : SubOf[c] = s THEN 1 ELSE 0]
        /\ purchases = {[customer |-> c, txn |-> OldTxn, date |-> 1] : c \in old}
        /\ grant = [c \in Customers |-> NoGrant]
        /\ purchased = [c \in Customers |-> IF c \in old THEN 1 ELSE 0]
        /\ permanent = purchased
        /\ job = [w \in Workers |-> Idle]
        /\ faults = 0
  BY DEF Init
<1>1. \A c \in Customers : SubOf[c] \in Subs
  BY SubsAssumption
<1>2. ASSUME NEW s \in Subs
      PROVE  \/ entry[s].first = 1 /\ entry[s].start = 1 /\ charged[s] = 1
             \/ entry[s].first = 0 /\ entry[s].start = 0
  BY DEF NotListed
<1>3. StoreAgrees
  BY <1>2 DEF StoreAgrees, Twice
<1>4. \A c \in old : EntryOf(c).first = 1 /\ EntryOf(c).start = 1
  BY <1>1 DEF EntryOf
<1>5. RowsAreCharges
  BY <1>4 DEF RowsAreCharges, Between
<1>6. ASSUME NEW c \in Customers, permanent[c] # 0
      PROVE  permanent[c] = 1 /\ \E r \in RowsOf(c) : r.txn = EntryOf(c).first
  <2>1. c \in old /\ permanent[c] = 1
    BY <1>6
  <2>2. [customer |-> c, txn |-> OldTxn, date |-> 1] \in RowsOf(c)
    BY <2>1 DEF RowsOf
  <2> QED BY <1>4, <2>1, <2>2
<1>7. GivenOnce
  BY <1>6 DEF GivenOnce
<1>8. GrantsAreCharged
  BY DEF GrantsAreCharged, NoGrant
<1>9. JobsAreCharged
  BY IdleIsJob, QuietIsCharged DEF JobsAreCharged
<1> QED BY <1>3, <1>5, <1>7, <1>8, <1>9 DEF PaidInv

\* What is known of a subscription stays true of it when it is charged again.
LEMMA StoreIsPaid ==
  ASSUME SubsInv, PaidInv, Tick \/ \E s \in Subs : Charge(s) \/ Extend(s) \/ Refund(s)
  PROVE  PaidInv'
<1>1. UNCHANGED <<purchases, grant, purchased, permanent, job>>
  BY DEF Tick, Charge, Extend, Refund, dbVars
<1>2. now \in Nat /\ \A s \in Subs : /\ entry[s].first \in Nat /\ entry[s].start \in Nat
                                     /\ charged[s] \in Nat
  BY EntriesAreNat DEF SubsInv
<1>3. \A s \in Subs : /\ entry[s].first <= entry[s].start /\ entry[s].start <= now
                      /\ entry[s].start > 0 => entry[s].first > 0 /\ charged[s] >= 1
                      /\ entry[s].first < entry[s].start => charged[s] >= 2
  BY DEF PaidInv, StoreAgrees, Twice
<1> DEFINE Told(s) ==
        /\ entry'[s].first \in Nat /\ entry'[s].start \in Nat
        /\ entry[s].start > 0 => entry'[s].first = entry[s].first
        /\ entry[s].start <= entry'[s].start
        /\ entry'[s].first <= entry'[s].start /\ entry'[s].start <= now'
        /\ entry'[s].start > 0 => entry'[s].first > 0 /\ charged'[s] >= 1
        /\ entry'[s].first < entry'[s].start => charged'[s] >= 2
<1>4. \A s \in Subs : Told(s)
  <2>1. CASE Tick
    BY <1>2, <1>3, <2>1 DEF Tick
  <2>2. ASSUME NEW s \in Subs, Charge(s) PROVE \A t \in Subs : Told(t)
    <3> DEFINE e == [first  |-> IF entry[s].start = 0 THEN now ELSE entry[s].first,
                     start  |-> now, end |-> now + Period, refund |-> "no"]
    <3>1. /\ entry[s].start < now /\ entry' = [entry EXCEPT ![s] = e]
          /\ charged' = [charged EXCEPT ![s] = @ + 1] /\ now' = now
      BY <2>2 DEF Charge
    <3>2. /\ e.start = now
          /\ e.first = (IF entry[s].start = 0 THEN now ELSE entry[s].first)
      OBVIOUS
    <3> HIDE DEF e
    <3>3. entry'[s] = e /\ charged'[s] = charged[s] + 1
      BY <3>1 DEF SubsInv, TypeOK
    <3>4. Told(s)
      BY <1>2, <1>3, <3>1, <3>2, <3>3
    <3>5. ASSUME NEW t \in Subs, t # s PROVE Told(t)
      <4>1. entry'[t] = entry[t] /\ charged'[t] = charged[t]
        BY <3>1, <3>5 DEF SubsInv, TypeOK
      <4> QED BY <1>2, <1>3, <3>1, <4>1
    <3> HIDE DEF Told
    <3> QED BY <3>4, <3>5
  <2>3. ASSUME NEW s \in Subs, Extend(s) \/ Refund(s) PROVE \A t \in Subs : Told(t)
    <3>1. charged' = charged /\ now' = now
      BY <2>3 DEF Extend, Refund
    <3>2. \A t \in Subs : entry'[t].first = entry[t].first /\ entry'[t].start = entry[t].start
      <4>1. entry[s] \in Entries
        BY DEF SubsInv, TypeOK
      <4>2. PICK e : /\ entry' = [entry EXCEPT ![s] = e]
                     /\ e.first = entry[s].first /\ e.start = entry[s].start
        <5>1. CASE Extend(s)
          <6> DEFINE e == [entry[s] EXCEPT !.end = @ + 1]
          <6>1. entry' = [entry EXCEPT ![s] = e]
            BY <5>1 DEF Extend
          <6>2. e.first = entry[s].first /\ e.start = entry[s].start
            BY <4>1 DEF Entries
          <6> QED BY <6>1, <6>2
        <5>2. CASE Refund(s)
          <6>1. PICK kind \in {"yes", "reversed"} :
                  entry' = [entry EXCEPT ![s] = [entry[s] EXCEPT !.refund = kind]]
            BY <5>2 DEF Refund
          <6> DEFINE e == [entry[s] EXCEPT !.refund = kind]
          <6>2. e.first = entry[s].first /\ e.start = entry[s].start
            BY <4>1 DEF Entries
          <6> QED BY <6>1, <6>2
        <5> QED BY <2>3, <5>1, <5>2
      <4> QED BY <4>2 DEF SubsInv, TypeOK
    <3> QED BY <1>2, <1>3, <3>1, <3>2
  <2> QED BY <2>1, <2>2, <2>3
<1> HIDE DEF Told
<1>5. StoreAgrees'
  BY <1>4 DEF Told, StoreAgrees, Twice
<1>6. ASSUME NEW c \in Customers, NEW t \in Nat, Between(EntryOf(c), t)
      PROVE  Between(entry'[SubOf[c]], t) /\ entry'[SubOf[c]].first = EntryOf(c).first
  <2>1. SubOf[c] \in Subs /\ Told(SubOf[c])
    BY <1>4, SubsAssumption
  <2> QED BY <1>2, <1>6, <2>1 DEF Told, Between, EntryOf
<1>7. ASSUME NEW c \in Customers, Twice(EntryOf(c))
      PROVE  Twice(entry'[SubOf[c]])
  <2>1. SubOf[c] \in Subs /\ Told(SubOf[c])
    BY <1>4, SubsAssumption
  <2> QED BY <1>2, <1>7, <2>1 DEF Told, Twice, EntryOf
<1>8. RowsAreCharges'
  <2> SUFFICES ASSUME NEW r \in purchases
               PROVE  Between(entry'[SubOf[r.customer]], r.txn) /\ r.date = r.txn
    BY <1>1 DEF RowsAreCharges, EntryOf
  <2>1. r.customer \in Customers /\ r.txn \in Nat
    BY TimeIsNat DEF SubsInv, TypeOK, Rows
  <2>2. Between(EntryOf(r.customer), r.txn) /\ r.date = r.txn
    BY DEF PaidInv, RowsAreCharges
  <2> QED BY <1>6, <2>1, <2>2
<1>9. GivenOnce'
  <2> SUFFICES ASSUME NEW c \in Customers, permanent[c] # 0
               PROVE  permanent[c] = 1 /\ \E r \in RowsOf(c) : r.txn = entry'[SubOf[c]].first
    BY <1>1 DEF GivenOnce, RowsOf, EntryOf
  <2>1. PICK r \in RowsOf(c) : permanent[c] = 1 /\ r.txn = EntryOf(c).first
    BY DEF PaidInv, GivenOnce
  <2>2. r \in purchases /\ r.customer = c /\ r.txn \in Nat
    BY TimeIsNat DEF RowsOf, SubsInv, TypeOK, Rows
  <2>3. Between(EntryOf(c), r.txn)
    BY <2>2 DEF PaidInv, RowsAreCharges
  <2> QED BY <1>6, <2>1, <2>2, <2>3
<1>10. GrantsAreCharged'
  BY <1>1, <1>7 DEF PaidInv, GrantsAreCharged, RowsOf, EntryOf
<1>11. ASSUME NEW w \in Workers
       PROVE  JobIsCharged(job[w], entry'[SubOf[job[w].customer]], grant[job[w].customer])
  <2> DEFINE j == job[w]
             e == EntryOf(j.customer)
  <2>1. /\ j.customer \in Customers /\ j.since \in Nat /\ j.got.start \in Nat
        /\ e.first \in Nat /\ e.start \in Nat
        /\ e.first <= e.start
    BY TimeIsNat, EntriesAreNat, <1>3 DEF SubsInv, TypeOK, Jobs, Entries
  <2>2. JobIsCharged(j, e, grant[j.customer])
    BY DEF PaidInv, JobsAreCharged
  <2>3. \A t \in Nat : Between(e, t) => /\ Between(entry'[SubOf[j.customer]], t)
                                        /\ entry'[SubOf[j.customer]].first = e.first
    BY <2>1, <1>6
  <2>4. Twice(e) => Twice(entry'[SubOf[j.customer]])
    BY <2>1, <1>7
  <2>5. j.got.start > 0 /\ j.got.start = e.first => Between(e, j.got.start)
    BY <2>1 DEF Between
  <2> HIDE DEF e
  <2>6. JobIsCharged(j, entry'[SubOf[j.customer]], grant[j.customer])
    <3>1. j.at \in {"known", "tracked", "record"} =>
              Between(entry'[SubOf[j.customer]], j.got.start)
      BY <2>1, <2>2, <2>3 DEF JobIsCharged
    <3>2. j.at \in {"recoverable", "recover"} =>
              j.got.start > 0 /\ j.got.start = entry'[SubOf[j.customer]].first
      BY <2>1, <2>2, <2>3, <2>5 DEF JobIsCharged
    <3>3. j.at \in {"fetch", "grant", "create"} => Between(entry'[SubOf[j.customer]], j.since)
      BY <2>1, <2>2, <2>3 DEF JobIsCharged
    <3>4. j.at \in {"grant", "create"} /\ j.got.start > 0 =>
              Between(entry'[SubOf[j.customer]], j.got.start)
      BY <2>1, <2>2, <2>3 DEF JobIsCharged
    <3>5. j.at = "apply" /\ j.want /\ grant[j.customer].legacy =>
              Twice(entry'[SubOf[j.customer]])
      BY <2>2, <2>4 DEF JobIsCharged
    <3> QED BY <3>1, <3>2, <3>3, <3>4, <3>5 DEF JobIsCharged
  <2> QED BY <2>6
<1>12. JobsAreCharged'
  BY <1>1, <1>11 DEF JobsAreCharged, EntryOf
<1> QED BY <1>5, <1>8, <1>9, <1>10, <1>12 DEF PaidInv

----------------------------------------------------------------------------
(* Workers. *)

LEMMA StartIsPaid ==
  ASSUME SubsInv, PaidInv, NEW w \in Workers,
         \/ \E c \in Customers : ReportPurchase(w, c) \/ StartRecovery(w, c)
         \/ \E cs \in SUBSET Customers : ReportChange(w, cs)
         \/ w = Cron /\ \E scope \in {"due", "all"} : StartReconcile(scope)
  PROVE  PaidInv'
<1>1. UNCHANGED <<storeVars, dbVars>>
  BY DEF ReportPurchase, StartRecovery, ReportChange, StartReconcile
<1>2. \E r \in Jobs : r.at \in {"verify", "look", "find"} /\ job' = [job EXCEPT ![w] = r]
  BY StartMoves
<1> QED BY <1>1, <1>2, QuietIsPaid

LEMMA FaultsArePaid ==
  ASSUME SubsInv, PaidInv, Restart \/ \E w \in Workers : CallFails(w)
  PROVE  PaidInv'
<1>1. ASSUME NEW w \in Workers, CallFails(w) PROVE PaidInv'
  <2>1. UNCHANGED <<storeVars, dbVars>>
    BY <1>1 DEF CallFails
  <2>2. PICK r \in Jobs : r.at \in {"idle", "find"} /\ job' = [job EXCEPT ![w] = r]
    BY <1>1, NextCustomerIs, IdleIsJob DEF CallFails, Finish, SubsInv
  <2> QED BY <2>1, <2>2, QuietIsPaid
<1>2. CASE Restart
  <2>1. \A w \in Workers : job'[w].at = "idle"
    BY <1>2, IdleIsJob DEF Restart
  <2>2. JobsAreCharged'
    BY <2>1, QuietIsCharged DEF JobsAreCharged
  <2>3. StoreAgrees' /\ RowsAreCharges' /\ GivenOnce' /\ GrantsAreCharged'
    BY <1>2 DEF Restart, PaidInv, StoreAgrees, RowsAreCharges, GivenOnce,
                GrantsAreCharged, EntryOf, RowsOf, storeVars, dbVars
  <2> QED BY <2>2, <2>3 DEF PaidInv
<1> QED BY <1>1, <1>2

LEMMA ReadsArePaid ==
  ASSUME SubsInv, PaidInv, NEW w \in Workers,
         \/ Verify(w) \/ CheckKnown(w) \/ CheckTracked(w) \/ LookUp(w)
         \/ CheckRecoverable(w) \/ FindPurchases(w) \/ Fetch(w)
  PROVE  PaidInv'
<1> DEFINE j == job[w]
           c == j.customer
           e == EntryOf(c)
           g == grant[c]
<1>1. /\ j \in Jobs /\ c \in Customers /\ entry[SubOf[c]] = e
      /\ e.first \in Nat /\ e.start \in Nat /\ j.since \in Nat /\ j.got.start \in Nat
  BY EntriesAreNat, TimeIsNat DEF SubsInv, TypeOK, Jobs, Entries
<1>2. UNCHANGED <<storeVars, dbVars>>
  BY DEF Verify, CheckKnown, CheckTracked, LookUp, CheckRecoverable, FindPurchases, Fetch
<1>3. JobIsCharged(j, e, g) /\ e.first <= e.start /\ (e.start > 0 => e.first > 0)
  BY <1>1, SubsAssumption DEF PaidInv, JobsAreCharged, StoreAgrees
<1>4. ASSUME NEW r, job' = [job EXCEPT ![w] = r], r.customer = c, JobIsCharged(r, e, g)
      PROVE  PaidInv'
  BY <1>2, <1>4, OnlyMovedIsPaid
<1>5. ASSUME NEW r, job' = [job EXCEPT ![w] = r], r.at \in {"idle", "find"}
      PROVE  PaidInv'
  BY <1>2, <1>5, QuietIsPaid
<1>6. Finish(w) => PaidInv'
  BY <1>5, IdleIsJob DEF Finish
<1>7. NextCustomer(w) => PaidInv'
  BY <1>5, NextCustomerIs DEF SubsInv
<1>8. ASSUME Verify(w) PROVE PaidInv'
  <2> DEFINE got == [NotListed EXCEPT !.start = e.start, !.end = e.end]
             r == [j EXCEPT !.at = "known", !.got = got]
  <2>1. got.start = e.start
    BY DEF NotListed
  <2> HIDE DEF got
  <2>2. r.at = "known" /\ r.customer = c /\ r.got = got
    BY <1>1 DEF Jobs
  <2>3. CASE e.start = 0 \/ e.refund = "yes"
    BY <1>1, <1>6, <1>8, <2>3 DEF Verify
  <2>4. CASE ~(e.start = 0 \/ e.refund = "yes")
    <3>1. job' = [job EXCEPT ![w] = r]
      BY <1>1, <1>8, <2>4 DEF Verify, Goto, got
    <3> HIDE DEF r
    <3>2. JobIsCharged(r, e, g)
      BY <1>1, <1>3, <2>1, <2>2, <2>4 DEF JobIsCharged, Between
    <3> QED BY <1>4, <2>2, <3>1, <3>2
  <2> QED BY <2>3, <2>4
<1>9. ASSUME LookUp(w) PROVE PaidInv'
  <2> DEFINE got == [NotListed EXCEPT !.start = e.start]
             r == [j EXCEPT !.at = "recoverable", !.got = got]
  <2>1. got.start = e.start
    BY DEF NotListed
  <2> HIDE DEF got
  <2>2. r.at = "recoverable" /\ r.customer = c /\ r.got = got
    BY <1>1 DEF Jobs
  <2>3. CASE e.start = 0 \/ e.refund = "yes" \/ e.start # e.first
    BY <1>1, <1>6, <1>9, <2>3 DEF LookUp
  <2>4. CASE ~(e.start = 0 \/ e.refund = "yes" \/ e.start # e.first)
    <3>1. job' = [job EXCEPT ![w] = r]
      BY <1>1, <1>9, <2>4 DEF LookUp, Goto, got
    <3> HIDE DEF r
    <3>2. JobIsCharged(r, e, g)
      BY <1>1, <2>1, <2>2, <2>4 DEF JobIsCharged
    <3> QED BY <1>4, <2>2, <3>1, <3>2
  <2> QED BY <2>3, <2>4
<1>10. ASSUME CheckKnown(w) PROVE PaidInv'
  <2> DEFINE r == [j EXCEPT !.at = "tracked"]
  <2>1. r.at = "tracked" /\ r.customer = c /\ r.got = j.got
    BY <1>1 DEF Jobs
  <2>2. Finish(w) \/ (j.at = "known" /\ job' = [job EXCEPT ![w] = r])
    BY <1>10 DEF CheckKnown, Goto
  <2> HIDE DEF r
  <2>3. j.at = "known" => JobIsCharged(r, e, g)
    BY <1>3, <2>1 DEF JobIsCharged
  <2> QED BY <1>4, <1>6, <2>1, <2>2, <2>3
<1>11. ASSUME CheckRecoverable(w) PROVE PaidInv'
  <2> DEFINE r == [j EXCEPT !.at = "recover"]
  <2>1. r.at = "recover" /\ r.customer = c /\ r.got = j.got
    BY <1>1 DEF Jobs
  <2>2. Finish(w) \/ (j.at = "recoverable" /\ job' = [job EXCEPT ![w] = r])
    BY <1>11 DEF CheckRecoverable, Goto
  <2> HIDE DEF r
  <2>3. j.at = "recoverable" => JobIsCharged(r, e, g)
    BY <1>3, <2>1 DEF JobIsCharged
  <2> QED BY <1>4, <1>6, <2>1, <2>2, <2>3
<1>12. ASSUME CheckTracked(w) PROVE PaidInv'
  <2> DEFINE r == [j EXCEPT !.at = "record"]
             f == [Idle EXCEPT !.at = "find", !.customer = c]
  <2>1. /\ r.at = "record" /\ r.customer = c /\ r.got = j.got
        /\ f.at = "find"
    BY <1>1, IdleIsJob DEF Jobs
  <2>2. job' = [job EXCEPT ![w] = f] \/ (j.at = "tracked" /\ job' = [job EXCEPT ![w] = r])
    BY <1>12 DEF CheckTracked, Goto
  <2> HIDE DEF r, f
  <2>3. j.at = "tracked" => JobIsCharged(r, e, g)
    BY <1>3, <2>1 DEF JobIsCharged
  <2> QED BY <1>4, <1>5, <2>1, <2>2, <2>3
<1>13. ASSUME FindPurchases(w) PROVE PaidInv'
  <2> DEFINE clock == IF w = Cron THEN j.clock ELSE now
             since == FirstDate(c)
             r == [j EXCEPT !.at = "fetch", !.since = since, !.clock = clock]
  <2>1. CASE RowsOf(c) = {}
    BY <1>7, <1>13, <2>1 DEF FindPurchases
  <2>2. CASE RowsOf(c) # {}
    <3>1. PICK row \in RowsOf(c) : since = row.date
      BY <1>1, <2>2, FirstDateIsOfARow DEF SubsInv
    <3>2. Between(e, since)
      BY <3>1 DEF PaidInv, RowsAreCharges, RowsOf
    <3>3. job' = [job EXCEPT ![w] = r]
      BY <1>13, <2>2 DEF FindPurchases, Goto
    <3> HIDE DEF clock, since
    <3>4. r.at = "fetch" /\ r.customer = c /\ r.since = since
      BY <1>1 DEF Jobs
    <3> HIDE DEF r
    <3>5. JobIsCharged(r, e, g)
      BY <3>2, <3>4 DEF JobIsCharged
    <3> QED BY <1>4, <3>3, <3>4, <3>5
  <2> QED BY <2>1, <2>2
<1>14. ASSUME Fetch(w) PROVE PaidInv'
  <2> DEFINE r == [j EXCEPT !.at = "grant", !.got = e]
  <2>1. r.at = "grant" /\ r.customer = c /\ r.since = j.since /\ r.got = e
    BY <1>1 DEF Jobs
  <2>2. j.at = "fetch" /\ job' = [job EXCEPT ![w] = r]
    BY <1>1, <1>14 DEF Fetch, Goto
  <2> HIDE DEF r
  <2>3. JobIsCharged(r, e, g)
    BY <1>1, <1>3, <2>1, <2>2 DEF JobIsCharged, Between
  <2> QED BY <1>4, <2>1, <2>2, <2>3
<1> QED BY <1>8, <1>9, <1>10, <1>11, <1>12, <1>13, <1>14

\* A decision to switch a legacy grant on: a later charge than the first row's.
LEMMA DecidedIsCharged ==
  ASSUME SubsInv, PaidInv, NEW w \in Workers, job[w].at \in {"grant", "create"},
         job[w].got.start > 0, NEW g
  PROVE  /\ JobIsCharged(Decided(job[w], g), EntryOf(job[w].customer), g)
         /\ Decided(job[w], g).customer = job[w].customer
<1> DEFINE j == job[w]
           e == EntryOf(j.customer)
           d == Decided(j, g)
<1>1. /\ j \in Jobs /\ j.since \in Nat /\ j.got.start \in Nat
      /\ e.first \in Nat /\ e.start \in Nat
  BY EntriesAreNat, TimeIsNat DEF SubsInv, TypeOK, Jobs, Entries
<1>2. Between(e, j.since) /\ Between(e, j.got.start)
  BY DEF PaidInv, JobsAreCharged, JobIsCharged
<1>3. d.at = "apply" /\ d.customer = j.customer
      /\ d.want = ShouldBeActive(g, j.got, j.clock, j.since)
  BY <1>1 DEF Decided, Jobs
<1>4. d.want /\ g.legacy => j.got.start > j.since
  BY <1>3 DEF ShouldBeActive
<1>5. d.want /\ g.legacy => Twice(e)
  BY <1>1, <1>2, <1>4 DEF Between, Twice
<1> HIDE DEF d
<1>6. JobIsCharged(d, e, g)
  BY <1>3, <1>5 DEF JobIsCharged
<1> QED BY <1>3, <1>6 DEF d

LEMMA FindGrantIsPaid ==
  ASSUME SubsInv, PaidInv, NEW w \in Workers, FindGrant(w)
  PROVE  PaidInv'
<1> DEFINE j == job[w]
           c == j.customer
           g == grant[c]
<1>1. j \in Jobs /\ c \in Customers /\ j.got.start \in Nat /\ j.at = "grant"
  BY TimeIsNat DEF SubsInv, TypeOK, Jobs, Entries, FindGrant
<1>2. UNCHANGED <<storeVars, dbVars>>
  BY DEF FindGrant
<1>3. CASE NextCustomer(w)
  BY <1>2, <1>3, NextCustomerIs, QuietIsPaid DEF SubsInv
<1>4. CASE j.got.start > 0 /\ job' = [job EXCEPT ![w] = [j EXCEPT !.at = "create"]]
  <2> DEFINE r == [j EXCEPT !.at = "create"]
  <2>1. r.at = "create" /\ r.customer = c /\ r.since = j.since /\ r.got = j.got
    BY <1>1 DEF Jobs
  <2>2. JobIsCharged(j, EntryOf(c), g)
    BY DEF PaidInv, JobsAreCharged
  <2>3. job' = [job EXCEPT ![w] = r]
    BY <1>4
  <2> HIDE DEF r
  <2>4. JobIsCharged(r, EntryOf(c), g)
    BY <1>1, <2>1, <2>2 DEF JobIsCharged
  <2> QED BY <1>2, <2>1, <2>3, <2>4, OnlyMovedIsPaid
<1>5. CASE j.got.start > 0 /\ job' = [job EXCEPT ![w] = Decided(j, g)]
  <2>1. JobIsCharged(Decided(j, g), EntryOf(c), g) /\ Decided(j, g).customer = c
    BY <1>1, <1>5, DecidedIsCharged
  <2> DEFINE r == Decided(j, g)
  <2>2. job' = [job EXCEPT ![w] = r] /\ JobIsCharged(r, EntryOf(c), g) /\ r.customer = c
    BY <1>5, <2>1
  <2> HIDE DEF r
  <2> QED BY <1>2, <2>2, OnlyMovedIsPaid
<1> QED BY <1>3, <1>4, <1>5 DEF FindGrant, Goto

LEMMA CreateLegacyIsPaid ==
  ASSUME SubsInv, PaidInv, NEW w \in Workers, CreateLegacy(w)
  PROVE  PaidInv'
<1> DEFINE c == job[w].customer
           g == IF grant[c].made THEN grant[c]
                ELSE [NoGrant EXCEPT !.made = TRUE, !.legacy = TRUE]
           d == Decided(job[w], g)
<1>1. c \in Customers /\ job[w].at = "create" /\ grant[c] \in Grants
  BY DEF SubsInv, TypeOK, Jobs, CreateLegacy
<1>2. grant[c].made => g = grant[c]
  OBVIOUS
<1>3. ~grant[c].made => g.legacy /\ ~g.active
  BY DEF NoGrant
<1> HIDE DEF g
<1>4. /\ grant' = [grant EXCEPT ![c] = g] /\ job' = [job EXCEPT ![w] = d]
      /\ UNCHANGED <<storeVars, purchases, purchased, permanent>>
  BY DEF CreateLegacy, Goto, g
<1>5. grant'[c] = g /\ \A b \in Customers : b # c => grant'[b] = grant[b]
  BY <1>1, <1>4 DEF SubsInv, TypeOK
<1>6. JobsAreCharged'
  <2>1. CASE job[w].got.start > 0
    <3>1. JobIsCharged(d, EntryOf(c), g) /\ d.customer = c
      BY <1>1, <2>1, DecidedIsCharged
    <3> HIDE DEF d
    <3> QED BY <1>2, <1>4, <1>5, <3>1, JobsStayCharged DEF PaidInv
  <2>2. CASE ~(job[w].got.start > 0)
    <3>1. d.at = "apply" /\ ~d.want
      <4>1. job[w] \in Jobs
        BY DEF SubsInv, TypeOK
      <4> QED BY <2>2, <4>1 DEF Decided, Jobs, ShouldBeActive
    <3> HIDE DEF d
    <3>2. JobIsCharged(d, EntryOf(d.customer), grant'[d.customer])
      BY <3>1 DEF JobIsCharged
    <3> QED BY <1>2, <1>4, <1>5, <3>2, JobsStayCharged DEF PaidInv
  <2> QED BY <2>1, <2>2
<1>7. StoreAgrees' /\ RowsAreCharges' /\ GivenOnce'
  BY <1>4 DEF PaidInv, StoreAgrees, RowsAreCharges, GivenOnce, EntryOf, RowsOf, storeVars
<1>8. GrantsAreCharged'
  <2>1. entry' = entry /\ purchases' = purchases /\ permanent' = permanent
    BY <1>4 DEF storeVars
  <2>2. ASSUME NEW b \in Customers
        PROVE  /\ grant'[b].made /\ grant'[b].legacy /\ grant'[b].active
                      => Twice(EntryOf(b))
               /\ grant'[b].made /\ ~grant'[b].legacy =>
                      RowsOf(b) # {} /\ (permanent[b] = 0 \/ Twice(EntryOf(b)))
    <3>1. grant'[b] = grant[b] \/ (grant'[b].legacy /\ ~grant'[b].active)
      BY <1>2, <1>3, <1>5
    <3> QED BY <3>1 DEF PaidInv, GrantsAreCharged
  <2> QED BY <2>1, <2>2 DEF GrantsAreCharged, EntryOf, RowsOf
<1> QED BY <1>6, <1>7, <1>8 DEF PaidInv

\* The flip: of a bought grant, or of a legacy one on a charge that renewed.
LEMMA ApplyIsPaid ==
  ASSUME SubsInv, PaidInv, NEW w \in Workers, Apply(w)
  PROVE  PaidInv'
<1> DEFINE j == job[w]
           c == j.customer
<1>1. j \in Jobs /\ c \in Customers /\ grant[c] \in Grants
  BY DEF SubsInv, TypeOK, Jobs
<1>2. /\ UNCHANGED <<storeVars, purchases, permanent>> /\ NextCustomer(w)
      /\ j.at = "apply"
  BY DEF Apply
<1>3. PICK r \in Jobs : r.at \in {"idle", "find"} /\ job' = [job EXCEPT ![w] = r]
  BY <1>2, NextCustomerIs DEF SubsInv
<1>4. /\ \A b \in Customers : b # c => grant'[b] = grant[b]
      /\ grant'[c].made = grant[c].made /\ grant'[c].legacy = grant[c].legacy
      /\ grant'[c].active = grant[c].active \/ (j.want /\ grant'[c].active = j.want)
         \/ ~grant'[c].active
  <2>1. \/ grant' = grant
        \/ grant' = [grant EXCEPT ![c] = [grant[c] EXCEPT !.expires = j.got.end]]
        \/ grant' = [grant EXCEPT ![c] = [grant[c] EXCEPT !.active = j.want,
                                                          !.expires = j.got.end]]
    BY DEF Apply, SetActive
  <2>2. j.want \in BOOLEAN
    BY <1>1 DEF Jobs
  <2>3. \A x : [grant[c] EXCEPT !.expires = x].made = grant[c].made
               /\ [grant[c] EXCEPT !.expires = x].legacy = grant[c].legacy
               /\ [grant[c] EXCEPT !.expires = x].active = grant[c].active
    BY <1>1 DEF Grants
  <2>4. \A x, y : [grant[c] EXCEPT !.active = y, !.expires = x].made = grant[c].made
               /\ [grant[c] EXCEPT !.active = y, !.expires = x].legacy = grant[c].legacy
               /\ [grant[c] EXCEPT !.active = y, !.expires = x].active = y
    BY <1>1 DEF Grants
  <2>5. \A x : [grant EXCEPT ![c] = x][c] = x
               /\ \A b \in Customers : b # c => [grant EXCEPT ![c] = x][b] = grant[b]
    BY <1>1 DEF SubsInv, TypeOK
  <2>6. CASE grant' = grant
    BY <2>6
  <2>7. CASE grant' = [grant EXCEPT ![c] = [grant[c] EXCEPT !.expires = j.got.end]]
    BY <2>3, <2>5, <2>7
  <2>8. CASE grant' = [grant EXCEPT ![c] = [grant[c] EXCEPT !.active = j.want,
                                                          !.expires = j.got.end]]
    <3> DEFINE h == [grant[c] EXCEPT !.active = j.want, !.expires = j.got.end]
    <3>1. h.made = grant[c].made /\ h.legacy = grant[c].legacy /\ h.active = j.want
      BY <2>4
    <3> HIDE DEF h
    <3>2. grant'[c] = h /\ \A b \in Customers : b # c => grant'[b] = grant[b]
      BY <2>5, <2>8 DEF h
    <3> QED BY <2>2, <3>1, <3>2
  <2> QED BY <2>1, <2>6, <2>7, <2>8
<1>5. \A b \in Customers : grant[b].made => grant'[b].legacy = grant[b].legacy
  BY <1>4
<1>6. JobIsCharged(r, EntryOf(r.customer), grant'[r.customer])
  BY <1>3, QuietIsCharged
<1>7. JobsAreCharged'
  BY <1>2, <1>3, <1>5, <1>6, JobsStayCharged DEF PaidInv
<1>8. StoreAgrees' /\ RowsAreCharges' /\ GivenOnce'
  BY <1>2 DEF PaidInv, StoreAgrees, RowsAreCharges, GivenOnce, EntryOf, RowsOf, storeVars
<1>9. GrantsAreCharged'
  <2>1. entry' = entry /\ purchases' = purchases /\ permanent' = permanent
    BY <1>2 DEF storeVars
  <2>2. j.want /\ grant[c].legacy => Twice(EntryOf(c))
    BY <1>2 DEF PaidInv, JobsAreCharged, JobIsCharged
  <2>3. ASSUME NEW b \in Customers
        PROVE  /\ grant'[b].made /\ grant'[b].legacy /\ grant'[b].active
                      => Twice(EntryOf(b))
               /\ grant'[b].made /\ ~grant'[b].legacy =>
                      RowsOf(b) # {} /\ (permanent[b] = 0 \/ Twice(EntryOf(b)))
    BY <1>4, <2>2 DEF PaidInv, GrantsAreCharged
  <2> QED BY <2>1, <2>3 DEF GrantsAreCharged, EntryOf, RowsOf
<1> QED BY <1>7, <1>8, <1>9 DEF PaidInv

\* A row with a pack: the unique index of the transaction ids keeps the charges
\* of two rows apart.
LEMMA RecordIsPaid ==
  ASSUME SubsInv, PaidInv, NEW w \in Workers, RecordPurchase(w) \/ RecordRecovered(w)
  PROVE  PaidInv'
<1> DEFINE j == job[w]
           c == j.customer
           e == EntryOf(c)
           row == NewRow(j)
           RowsNow(b) == {r \in purchases' : r.customer = b}
<1>1. /\ j \in Jobs /\ c \in Customers /\ SubOf[c] \in Subs /\ j.got.start \in Nat
      /\ e.first \in Nat /\ e.start \in Nat
      /\ permanent[c] \in Nat
  BY EntriesAreNat, TimeIsNat DEF SubsInv, TypeOK, Jobs, Entries
<1>2. job' = [job EXCEPT ![w] = Idle] /\ UNCHANGED storeVars
  BY DEF RecordPurchase, RecordRecovered, Finish
<1>3. JobIsCharged(Idle, EntryOf(Idle.customer), grant'[Idle.customer])
  BY IdleIsJob, QuietIsCharged
<1>4. ASSUME UNCHANGED dbVars PROVE PaidInv'
  <2>1. JobIsCharged(Idle, EntryOf(Idle.customer), grant[Idle.customer])
    BY IdleIsJob, QuietIsCharged
  <2> QED BY <1>2, <1>4, <2>1, OnlyMovedIsPaid
<1>5. row.customer = c /\ row.txn = j.got.start /\ row.date = j.got.start
  BY DEF NewRow
<1>6. Between(e, j.got.start)
  <2>1. j.at \in {"record", "recover"}
    BY DEF RecordPurchase, RecordRecovered
  <2>2. JobIsCharged(j, e, grant[c]) /\ e.first <= e.start
    BY <1>1 DEF PaidInv, JobsAreCharged, StoreAgrees, EntryOf
  <2> QED BY <1>1, <2>1, <2>2 DEF JobIsCharged, Between
<1>7. entry' = entry /\ charged' = charged /\ now' = now
  BY <1>2 DEF storeVars
<1>8. StoreAgrees'
  BY <1>7 DEF PaidInv, StoreAgrees
<1> HIDE DEF row
<1>9. ASSUME purchases' = purchases \cup {row}
      PROVE  /\ RowsAreCharges'
             /\ \A b \in Customers : RowsOf(b) \subseteq RowsNow(b)
             /\ row \in RowsNow(c)
  BY <1>5, <1>6, <1>7, <1>9 DEF PaidInv, RowsAreCharges, RowsOf, EntryOf
<1>10. ~KnownTxn(SubOf[c], j.got.start) =>
           \A r \in RowsOf(c) : r.txn # j.got.start /\ Between(e, r.txn) /\ r.txn \in Nat
  <2> SUFFICES ASSUME ~KnownTxn(SubOf[c], j.got.start), NEW r \in RowsOf(c)
               PROVE  r.txn # j.got.start /\ Between(e, r.txn) /\ r.txn \in Nat
    OBVIOUS
  <2>1. r \in purchases /\ r.customer = c
    BY DEF RowsOf
  <2>2. Between(e, r.txn) /\ r.txn \in Nat
    BY <2>1, TimeIsNat DEF PaidInv, RowsAreCharges, SubsInv, TypeOK, Rows
  <2>3. r.txn # j.got.start
    BY <2>1, <1>6 DEF KnownTxn, Between
  <2> QED BY <2>2, <2>3
<1>11. ASSUME RecordPurchase(w), ~Aborts(j, TRUE) PROVE PaidInv'
  <2> DEFINE g == [made |-> TRUE, legacy |-> FALSE, active |-> TRUE, expires |-> j.got.end]
  <2>1. /\ purchases' = purchases \cup {row}
        /\ grant' = [grant EXCEPT ![c] = g]
        /\ permanent' = permanent
    BY <1>11 DEF RecordPurchase, row
  <2>2. ~grant[c].made /\ ~KnownTxn(SubOf[c], j.got.start)
    BY <1>11 DEF Aborts
  <2>3. ~g.legacy
    OBVIOUS
  <2> HIDE DEF g
  <2>4. grant'[c] = g /\ \A b \in Customers : b # c => grant'[b] = grant[b]
    BY <1>1, <2>1 DEF SubsInv, TypeOK
  <2>5. JobsAreCharged'
    BY <1>2, <1>3, <2>2, <2>4, JobsStayCharged DEF PaidInv
  <2>6. GivenOnce'
    BY <1>7, <1>9, <2>1 DEF PaidInv, GivenOnce, EntryOf, RowsOf
  <2>7. permanent[c] = 0 \/ Twice(e)
    BY <1>1, <1>6, <1>10, <2>2 DEF PaidInv, GivenOnce, Between, Twice
  <2>8. ASSUME NEW b \in Customers
        PROVE  /\ grant'[b].made /\ grant'[b].legacy /\ grant'[b].active
                      => Twice(EntryOf(b))
               /\ grant'[b].made /\ ~grant'[b].legacy =>
                      RowsNow(b) # {} /\ (permanent[b] = 0 \/ Twice(EntryOf(b)))
    <3>1. CASE b = c
      BY <1>9, <2>1, <2>3, <2>4, <2>7, <3>1
    <3>2. CASE b # c
      BY <1>9, <2>1, <2>4, <3>2 DEF PaidInv, GrantsAreCharged
    <3> QED BY <3>1, <3>2
  <2>9. GrantsAreCharged'
    BY <1>7, <2>1, <2>8 DEF GrantsAreCharged, EntryOf, RowsOf
  <2> QED BY <1>8, <1>9, <2>1, <2>5, <2>6, <2>9 DEF PaidInv
<1>12. ASSUME RecordRecovered(w), ~Aborts(j, FALSE) PROVE PaidInv'
  <2>1. /\ purchases' = purchases \cup {row}
        /\ grant' = grant
        /\ permanent' = [permanent EXCEPT ![c] = @ + 1]
    BY <1>12 DEF RecordRecovered, row
  <2>2. ~KnownTxn(SubOf[c], j.got.start)
    BY <1>12 DEF Aborts
  <2>3. j.got.start = e.first
    BY <1>12 DEF RecordRecovered, PaidInv, JobsAreCharged, JobIsCharged
  <2>4. permanent[c] = 0
    BY <1>1, <1>10, <2>2, <2>3 DEF PaidInv, GivenOnce
  <2>5. permanent'[c] = 1 /\ \A b \in Customers : b # c => permanent'[b] = permanent[b]
    BY <1>1, <2>1, <2>4 DEF SubsInv, TypeOK
  <2>6. JobsAreCharged'
    BY <1>2, <1>3, <2>1, JobsStayCharged DEF PaidInv
  <2>7. GivenOnce'
    <3> SUFFICES ASSUME NEW b \in Customers, permanent'[b] # 0
                 PROVE  permanent'[b] = 1
                        /\ \E r \in RowsNow(b) : r.txn = EntryOf(b).first
      BY <1>7 DEF GivenOnce, EntryOf, RowsOf
    <3>1. CASE b = c
      BY <1>5, <1>9, <2>1, <2>3, <2>5, <3>1
    <3>2. CASE b # c
      BY <1>9, <2>1, <2>5, <3>2 DEF PaidInv, GivenOnce
    <3> QED BY <3>1, <3>2
  <2>8. RowsOf(c) # {} => Twice(e)
    BY <1>1, <1>6, <1>10, <2>2, <2>3 DEF Between, Twice
  <2>9. ASSUME NEW b \in Customers
        PROVE  /\ grant[b].made /\ grant[b].legacy /\ grant[b].active => Twice(EntryOf(b))
               /\ grant[b].made /\ ~grant[b].legacy =>
                      RowsNow(b) # {} /\ (permanent'[b] = 0 \/ Twice(EntryOf(b)))
    <3>1. /\ grant[b].made /\ grant[b].legacy /\ grant[b].active => Twice(EntryOf(b))
          /\ grant[b].made /\ ~grant[b].legacy =>
                 RowsOf(b) # {} /\ (permanent[b] = 0 \/ Twice(EntryOf(b)))
      BY DEF PaidInv, GrantsAreCharged
    <3>2. CASE b = c
      BY <1>9, <2>1, <2>8, <3>1, <3>2
    <3>3. CASE b # c
      BY <1>9, <2>1, <2>5, <3>1, <3>3
    <3> QED BY <3>2, <3>3
  <2>10. GrantsAreCharged'
    BY <1>7, <2>1, <2>9 DEF GrantsAreCharged, EntryOf, RowsOf
  <2> QED BY <1>8, <1>9, <2>1, <2>6, <2>7, <2>10 DEF PaidInv
<1> QED BY <1>4, <1>11, <1>12 DEF RecordPurchase, RecordRecovered

----------------------------------------------------------------------------
LEMMA PaidIsEnough ==
  ASSUME SubsInv, PaidInv
  PROVE  NoMoreThanCharged
<1> SUFFICES ASSUME NEW s \in Subs, NEW c \in Customers, SubOf[c] = s
             PROVE  purchased[c] <= charged[s]
  BY DEF NoMoreThanCharged
<1> DEFINE e == entry[s]
<1>1. /\ EntryOf(c) = e /\ e.first \in Nat /\ e.start \in Nat /\ charged[s] \in Nat
      /\ permanent[c] \in Nat
  BY EntriesAreNat DEF EntryOf, SubsInv, TypeOK
<1>2. /\ e.first <= e.start /\ (e.start > 0 => charged[s] >= 1)
      /\ (Twice(e) => charged[s] >= 2)
  BY DEF PaidInv, StoreAgrees
<1> HIDE DEF e
<1>3. purchased[c] = permanent[c] + (IF grant[c].active THEN 1 ELSE 0)
  BY DEF SubsInv, CountedOnce
<1>4. permanent[c] # 0 => permanent[c] = 1 /\ RowsOf(c) # {}
  BY DEF PaidInv, GivenOnce
<1>5. grant[c].active => /\ RowsOf(c) # {} \/ Twice(e)
                         /\ permanent[c] = 0 \/ Twice(e)
  BY <1>1 DEF PaidInv, GrantsAreCharged, SubsInv, Tracked
<1>6. RowsOf(c) # {} => e.start > 0
  <2> SUFFICES ASSUME NEW r \in RowsOf(c) PROVE e.start > 0
    OBVIOUS
  <2>1. Between(e, r.txn) /\ r.txn \in Nat
    BY <1>1, TimeIsNat DEF RowsOf, PaidInv, RowsAreCharges, SubsInv, TypeOK, Rows
  <2> QED BY <1>1, <2>1 DEF Between
<1> QED BY <1>1, <1>2, <1>3, <1>4, <1>5, <1>6

\* Where the rows of old carry their transaction ids, nobody has more packs in
\* force than periods were charged, whoever reports a purchase and how often:
\* the app, webhooks, the recovery script and the reconciling runs
\* (grantPlanPurchase, recoverPurchases, shouldBeActive).
THEOREM PacksWereCharged ==
  ASSUME OldTxn = 1
  PROVE  Spec => []NoMoreThanCharged
<1>1. Init => PaidInv
  BY InitIsPaid
<1>2. SubsInv /\ PaidInv /\ [Next]_vars => PaidInv'
  <2> SUFFICES ASSUME SubsInv, PaidInv, [Next]_vars PROVE PaidInv'
    OBVIOUS
  <2>1. CASE UNCHANGED vars
    BY <2>1 DEF vars, storeVars, dbVars, PaidInv, StoreAgrees, RowsAreCharges, GivenOnce,
                GrantsAreCharged, JobsAreCharged, EntryOf, RowsOf
  <2>2. Cron \in Workers /\ Requests \subseteq Workers
    BY DEF Workers
  <2>3. CASE Next
    <3>1. CASE Tick \/ \E s \in Subs : Charge(s) \/ Extend(s) \/ Refund(s)
      BY <3>1, StoreIsPaid
    <3>2. CASE \/ \E w \in Requests, c \in Customers : ReportPurchase(w, c)
               \/ \E w \in Requests \ Reporters :
                      \/ \E c \in Customers : StartRecovery(w, c)
                      \/ \E cs \in SUBSET Customers : ReportChange(w, cs)
               \/ \E scope \in {"due", "all"} : StartReconcile(scope)
      BY <2>2, <3>2, StartIsPaid
    <3>3. CASE \E w \in Workers : Step(w)
      BY <3>3, ReadsArePaid, RecordIsPaid, FindGrantIsPaid, CreateLegacyIsPaid, ApplyIsPaid
      DEF Step
    <3>4. CASE Restart \/ \E w \in Workers : CallFails(w)
      BY <3>4, FaultsArePaid
    <3> QED BY <2>3, <3>1, <3>2, <3>3, <3>4 DEF Next
  <2> QED BY <2>1, <2>3
<1>3. SubsInv /\ PaidInv => NoMoreThanCharged
  BY PaidIsEnough
<1> QED BY SubscriptionsInvariant, <1>1, <1>2, <1>3, PTL DEF Spec
=============================================================================
