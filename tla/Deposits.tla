------------------------------ MODULE Deposits ------------------------------
(***************************************************************************)
(* Bitcoin deposits: src/webhooks/btcWatcher.js, the Deposit rows and the  *)
(* operator's src/scripts/credit-btc-deposit.js.                           *)
(*                                                                         *)
(* Outputs of transactions are numbered in the order they are paid.  The   *)
(* node tells the watcher of transactions and blocks (ZMQ, two sockets,    *)
(* each handled one message at a time) and lists the unspent outputs of    *)
(* the addresses in its wallet.  Every deposit is one unit of money.       *)
(***************************************************************************)
EXTENDS Integers, FiniteSets, FiniteSetsExt

CONSTANTS
    Outs,        \* outputs paid to deposit addresses
    Txs,         \* transactions
    TxOf,        \* the transaction of an output
    Addrs,       \* deposit addresses
    AddrOf,      \* the address an output pays
    Sound,       \* bound: addresses with an account that the node knows
    MinConfs,    \* BTC_MIN_CONFS
    Limit,       \* deposits looked at in a block (200)
    MaxFaults    \* bound: failed calls, restarts and outputs moved on

ASSUME DepositsAssumption ==
    /\ Outs \subseteq Nat \ {0} /\ IsFiniteSet(Outs)
    /\ TxOf \in [Outs -> Txs] /\ AddrOf \in [Outs -> Addrs]
    /\ Sound \subseteq Addrs
    /\ MinConfs \in Nat \ {0} /\ Limit \in Nat \ {0} /\ MaxFaults \in Nat

VARIABLES
    rec,         \* WalletAddress rows: is there an account, does the node know the address
    depth,       \* confirmations of an output, MinConfs for all from there on; -1: not paid
    spent,       \* outputs moved on by whoever holds the key
    txMsgs,      \* outputs of transactions announced and not handled yet
    blockMsg,    \* is a block announced and not handled yet
    deposit,     \* Deposit rows
    credits,     \* how often BTC_DEPOSIT was raised for an output
    block,       \* the block handler
    script,      \* the credit script
    torn,        \* history: credits whose row was not saved
    met,         \* history: outputs the script marked while the handler credited them
    lost,        \* history: outputs the script marked and did not pay
    depFaults

nodeVars == <<rec, depth, spent>>
depVars  == <<nodeVars, txMsgs, blockMsg, deposit, credits, block, script, torn,
              met, lost, depFaults>>

Depths == -1..MinConfs

\* current: the row's confirmations are the node's.
DepositRows == [there: BOOLEAN, current: BOOLEAN, credited: BOOLEAN, orphaned: BOOLEAN]
NoRow       == [there |-> FALSE, current |-> FALSE, credited |-> FALSE, orphaned |-> FALSE]

\* snap: the unspent outputs; same: those whose row had these confirmations;
\* stale: a block has come since; pays: the deposit in hand is credited.
IdleBlock == [at |-> "idle", todo |-> {}, snap |-> [o \in Outs |-> -1], same |-> {},
              stale |-> FALSE, dep |-> 0, pays |-> FALSE]
IdleScript == [at |-> "idle", dep |-> 0]

\* The types of the variables; only a row that is there has contents.
DepTypeOK ==
    /\ rec \in [Addrs -> [owned: BOOLEAN, imported: BOOLEAN]]
    /\ depth \in [Outs -> Depths]
    /\ spent \subseteq Outs /\ txMsgs \subseteq Outs
    /\ blockMsg \in BOOLEAN
    /\ deposit \in [Outs -> DepositRows]
    /\ \A o \in Outs : deposit[o].there \/ deposit[o] = NoRow
    /\ credits \in [Outs -> Nat]
    /\ block \in [at: {"idle", "list", "next", "inc", "sweep", "save"},
                  todo: SUBSET Txs, snap: [Outs -> Depths], same: SUBSET Outs,
                  stale: BOOLEAN, dep: Outs \cup {0}, pays: BOOLEAN]
    /\ script \in [at: {"idle", "mark", "inc"}, dep: Outs \cup {0}]
    /\ torn \subseteq Outs /\ met \subseteq Outs /\ lost \subseteq Outs
    /\ depFaults \in 0..MaxFaults

\* An import that failed, and an account that is gone, are there from the start.
DepInit ==
    /\ rec \in [Addrs -> [owned: BOOLEAN, imported: BOOLEAN]]
    /\ \A a \in Sound : rec[a].owned /\ rec[a].imported
    /\ depth = [o \in Outs |-> -1]
    /\ spent = {} /\ txMsgs = {} /\ blockMsg = FALSE
    /\ deposit = [o \in Outs |-> NoRow]
    /\ credits = [o \in Outs |-> 0]
    /\ block = IdleBlock /\ script = IdleScript
    /\ torn = {} /\ met = {} /\ lost = {}
    /\ depFaults = 0

----------------------------------------------------------------------------
(* The node. *)

\* Bound: transactions are paid in the order of their outputs.
Pay(t) ==
    LET new == {o \in Outs : TxOf[o] = t} IN
    /\ \A o \in new : depth[o] = -1
    /\ \A o \in Outs \ new : depth[o] = -1 => \A n \in new : n < o
    /\ depth' = [o \in Outs |-> IF o \in new THEN 0 ELSE depth[o]]
    /\ txMsgs' = txMsgs \cup new
    /\ UNCHANGED <<rec, spent, blockMsg, deposit, credits, block, script, torn, met,
                   lost, depFaults>>

\* Waiting payments are mined; a transaction is announced again with its block.
NewBlock ==
    /\ \E o \in Outs : depth[o] >= 0
    /\ depth' = [o \in Outs |-> IF depth[o] \in {-1, MinConfs} THEN depth[o]
                                ELSE depth[o] + 1]
    /\ txMsgs' = txMsgs \cup {o \in Outs : depth[o] = 0}
    /\ blockMsg' = TRUE
    /\ deposit' = [o \in Outs |-> [deposit[o] EXCEPT !.current = FALSE]]
    /\ block' = [block EXCEPT !.stale = block.at \notin {"idle", "list"}]
    /\ UNCHANGED <<rec, spent, credits, script, torn, met, lost, depFaults>>

Spend(o) ==
    /\ depth[o] > 0 /\ o \notin spent
    /\ depFaults < MaxFaults /\ depFaults' = depFaults + 1
    /\ spent' = spent \cup {o}
    /\ UNCHANGED <<rec, depth, txMsgs, blockMsg, deposit, credits, block, script, torn,
                   met, lost>>

\* The rebuild script imports every address.
RebuildWallet ==
    /\ \E a \in Addrs : ~rec[a].imported
    /\ rec' = [a \in Addrs |-> [rec[a] EXCEPT !.imported = TRUE]]
    /\ UNCHANGED <<depth, spent, txMsgs, blockMsg, deposit, credits, block, script, torn,
                   met, lost, depFaults>>

----------------------------------------------------------------------------
(* handleRawTx *)

\* The upsert's filter: the transaction and the address.
RowFor(o) ==
    {p \in Outs : deposit[p].there /\ TxOf[p] = TxOf[o] /\ AddrOf[p] = AddrOf[o]}

\* One output of a transaction, the first ones first.
RecordOutput(o) ==
    /\ o \in txMsgs
    /\ \A p \in txMsgs : o <= p
    /\ txMsgs' = txMsgs \ {o}
    /\ deposit' =
           IF RowFor(o) # {} THEN deposit
           ELSE [deposit EXCEPT ![o] =
                    [NoRow EXCEPT !.there = TRUE, !.current = depth[o] = 0]]
    /\ UNCHANGED <<nodeVars, blockMsg, credits, block, script, torn, met, lost, depFaults>>

----------------------------------------------------------------------------
(* handleRawBlock and updateConfirmationsForPending *)

\* Mutation of Pending: orphaned deposits are looked at too.
PendingWithOrphans == {o \in Outs : deposit[o].there /\ ~deposit[o].credited}

Pending ==
    {o \in Outs : deposit[o].there /\ ~deposit[o].credited /\ ~deposit[o].orphaned}

FirstPending == {o \in Pending : Cardinality({p \in Pending : p < o}) < Limit}

TakeBlock ==
    /\ block.at = "idle" /\ blockMsg
    /\ blockMsg' = FALSE
    /\ block' = IF Pending = {} THEN block
                ELSE [block EXCEPT !.at = "list", !.todo = {TxOf[o] : o \in FirstPending}]
    /\ UNCHANGED <<nodeVars, txMsgs, deposit, credits, script, torn, met, lost, depFaults>>

Listed(o) == depth[o] >= 0 /\ rec[AddrOf[o]].imported /\ o \notin spent

ListUnspent ==
    /\ block.at = "list"
    /\ block' = [block EXCEPT !.at = "next", !.stale = FALSE,
                     !.snap = [o \in Outs |-> IF Listed(o) THEN depth[o] ELSE -1],
                     !.same = {o \in Outs : deposit[o].current}]
    /\ UNCHANGED <<nodeVars, txMsgs, blockMsg, deposit, credits, script, torn, met, lost,
                   depFaults>>

\* Mutation of FirstRow: an output of the transaction that has no row.
FirstOutput(t) == Max({o \in Outs : TxOf[o] = t})

\* findOne by the hash gives the first row of the transaction.
FirstRow(t) == Min({o \in Outs : deposit[o].there /\ TxOf[o] = t})

\* The rest of the loop once the deposit that is being looked at is done.
AfterDep(todo) ==
    IF todo = {} THEN IdleBlock
    ELSE [block EXCEPT !.at = "next", !.todo = todo, !.dep = 0, !.pays = FALSE]

\* Mutation of MayCredit: the row may have been credited before.
MayCreditAgain(o) == block.snap[o] >= MinConfs /\ rec[AddrOf[o]].owned

MayCredit(o) ==
    /\ ~deposit[o].credited
    /\ block.snap[o] >= MinConfs
    /\ rec[AddrOf[o]].owned

\* One transaction: nothing unless its output is unspent and its confirmations
\* have changed. Bound: transactions are looked at in the order of their rows.
LookAt(t) ==
    LET o == FirstRow(t)  rest == block.todo \ {t} IN
    /\ block.at = "next"
    /\ t \in block.todo /\ \A u \in block.todo : o <= FirstRow(u)
    /\ block' =
           IF block.snap[o] = -1 \/ o \in block.same THEN AfterDep(rest)
           ELSE [block EXCEPT !.at = IF MayCredit(o) THEN "inc" ELSE "save",
                              !.todo = rest, !.dep = o, !.pays = MayCredit(o)]
    /\ UNCHANGED <<nodeVars, txMsgs, blockMsg, deposit, credits, script, torn, met, lost,
                   depFaults>>

\* The balance is raised; only the copy in memory says so yet.
Credit ==
    /\ block.at = "inc"
    /\ credits' = [credits EXCEPT ![block.dep] = @ + 1]
    /\ block' = [block EXCEPT !.at = "sweep"]
    /\ UNCHANGED <<nodeVars, txMsgs, blockMsg, deposit, script, torn, met, lost, depFaults>>

\* sweepDeposit: asks a watch-only wallet for an amount in bitcoin divided by
\* 1e8 once more; the refusal is logged.
Sweep ==
    /\ block.at = "sweep"
    /\ block' = [block EXCEPT !.at = "save"]
    /\ UNCHANGED <<nodeVars, txMsgs, blockMsg, deposit, credits, script, torn, met, lost,
                   depFaults>>

\* Mutation of SavesCredit: credited is set before the owner is looked up.
SavesCreditAnyway(o) == block.snap[o] >= MinConfs

SavesCredit(o) == block.pays

Save ==
    LET o == block.dep IN
    /\ block.at = "save"
    /\ deposit' = [deposit EXCEPT ![o] =
           [deposit[o] EXCEPT !.current = ~block.stale,
                              !.credited = deposit[o].credited \/ SavesCredit(o)]]
    /\ block' = AfterDep(block.todo)
    /\ UNCHANGED <<nodeVars, txMsgs, blockMsg, credits, script, torn, met, lost, depFaults>>

----------------------------------------------------------------------------
(* credit-btc-deposit.js *)

\* Bound: the script runs for a deposit until it has marked it.
FindDeposit(t) ==
    /\ script.at = "idle"
    /\ \E o \in Outs : TxOf[o] = t /\ deposit[o].there
    /\ ~deposit[FirstRow(t)].credited
    /\ rec[AddrOf[FirstRow(t)]].owned
    /\ script' = [at |-> "mark", dep |-> FirstRow(t)]
    /\ UNCHANGED <<nodeVars, txMsgs, blockMsg, deposit, credits, block, torn, met, lost,
                   depFaults>>

\* Marked first, and only if nothing else has credited it meanwhile.
MarkDeposit ==
    LET o == script.dep IN
    /\ script.at = "mark"
    /\ IF deposit[o].credited THEN script' = IdleScript /\ UNCHANGED <<deposit, met>>
       ELSE /\ deposit' = [deposit EXCEPT ![o] =
                   [deposit[o] EXCEPT !.credited = TRUE, !.current = FALSE]]
            /\ script' = [script EXCEPT !.at = "inc"]
            /\ met' = met \cup {p \in {o} : block.dep = p /\ block.pays}
    /\ UNCHANGED <<nodeVars, txMsgs, blockMsg, credits, block, torn, lost, depFaults>>

PayDeposit ==
    /\ script.at = "inc"
    /\ credits' = [credits EXCEPT ![script.dep] = @ + 1]
    /\ script' = IdleScript
    /\ UNCHANGED <<nodeVars, txMsgs, blockMsg, deposit, block, torn, met, lost, depFaults>>

\* --orphan, for a deposit whose account is gone.
OrphanDeposit(t) ==
    /\ script.at = "idle"
    /\ \E o \in Outs : TxOf[o] = t /\ deposit[o].there
    /\ LET o == FirstRow(t) IN
       /\ ~deposit[o].credited /\ ~deposit[o].orphaned /\ ~rec[AddrOf[o]].owned
       /\ deposit' = [deposit EXCEPT ![o] = [deposit[o] EXCEPT !.orphaned = TRUE]]
    /\ UNCHANGED <<nodeVars, txMsgs, blockMsg, credits, block, script, torn, met, lost,
                   depFaults>>

----------------------------------------------------------------------------
(* Faults. *)

Unsaved == {o \in Outs : block.dep = o /\ block.pays /\ block.at \in {"sweep", "save"}}

\* A call fails: the loop over the deposits is left.
HandlerFails ==
    /\ depFaults < MaxFaults /\ depFaults' = depFaults + 1
    /\ block.at # "idle"
    /\ torn' = torn \cup Unsaved
    /\ block' = IdleBlock
    /\ UNCHANGED <<nodeVars, txMsgs, blockMsg, deposit, credits, script, met, lost>>

\* A message is not delivered, or its handling fails.
MessageLost ==
    /\ depFaults < MaxFaults /\ depFaults' = depFaults + 1
    /\ \/ txMsgs # {} /\ txMsgs' = {} /\ UNCHANGED blockMsg
       \/ blockMsg /\ blockMsg' = FALSE /\ UNCHANGED txMsgs
    /\ UNCHANGED <<nodeVars, deposit, credits, block, script, torn, met, lost>>

\* The watched addresses are loaded again from their rows.
WatcherRestarts ==
    /\ depFaults < MaxFaults /\ depFaults' = depFaults + 1
    /\ torn' = torn \cup Unsaved
    /\ block' = IdleBlock /\ txMsgs' = {} /\ blockMsg' = FALSE
    /\ UNCHANGED <<nodeVars, deposit, credits, script, met, lost>>

ScriptStops ==
    /\ depFaults < MaxFaults /\ depFaults' = depFaults + 1
    /\ script.at # "idle"
    /\ lost' = lost \cup {o \in Outs : script = [at |-> "inc", dep |-> o]}
    /\ script' = IdleScript
    /\ UNCHANGED <<nodeVars, txMsgs, blockMsg, deposit, credits, block, torn, met>>

----------------------------------------------------------------------------
HandleBlock == TakeBlock \/ ListUnspent \/ (\E t \in Txs : LookAt(t)) \/ Credit \/ Sweep \/ Save

DepNext ==
    \/ NewBlock \/ RebuildWallet \/ HandleBlock
    \/ \E t \in Txs : Pay(t) \/ FindDeposit(t) \/ OrphanDeposit(t)
    \/ \E o \in Outs : Spend(o) \/ RecordOutput(o)
    \/ MarkDeposit \/ PayDeposit
    \/ HandlerFails \/ MessageLost \/ WatcherRestarts \/ ScriptStops

\* Blocks keep coming and their handler's awaits come back. Nothing is assumed
\* of scripts and payments.
DepSpec ==
    /\ DepInit /\ [][DepNext]_depVars
    /\ WF_depVars(HandleBlock) /\ WF_depVars(NewBlock)

----------------------------------------------------------------------------
(* Properties *)

\* A deposit is credited once, except when the handler failed between raising
\* the balance and saving the row, or the script marked the row in between
\* (updateConfirmationsForPending raises first and saves later).
CreditedOnce ==
    \A o \in Outs : credits[o] > 1 => o \in torn \cup met

\* A row that says credited was paid, unless the script that marked it stopped
\* before it raised the balance.
MarkedIsPaid ==
    \A o \in Outs :
        deposit[o].credited =>
            credits[o] > 0 \/ o \in lost \/ script = [at |-> "inc", dep |-> o]

Creditable(o) ==
    /\ deposit[o].there /\ ~deposit[o].orphaned
    /\ o = FirstRow(TxOf[o])
    /\ rec[AddrOf[o]].imported /\ rec[AddrOf[o]].owned
    /\ o \notin spent

\* The rows in front of it that stay in the block's list for ever.
Crowd(o) ==
    {p \in Outs : /\ p < o /\ deposit[p].there /\ ~Creditable(p)
                  /\ ~deposit[p].credited /\ ~deposit[p].orphaned}

\* Every deposit that is recorded is credited in the end, unless it was moved on,
\* is not the first of its transaction, pays an address that node or server does
\* not know, or as many older rows as the limit can never be credited
\* (handleRawBlock looks at the first 200).
EventuallyCredited ==
    <>[](\A o \in Outs :
             Creditable(o) /\ Cardinality(Crowd(o)) < Limit => deposit[o].credited)

\* What was paid for an output and what its row says agree, but for the gaps
\* between the two writes that a fault or the other writer falls into.
CreditsAreAccounted == CreditedOnce /\ MarkedIsPaid
=============================================================================
