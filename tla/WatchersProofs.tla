--------------------------- MODULE WatchersProofs ---------------------------
(***************************************************************************)
(* Proofs about bitcoin deposits, for any transactions, outputs and        *)
(* addresses and any number of faults, and about the gate of /api, for any *)
(* requests, windows and limits.                                           *)
(*                                                                         *)
(* Deposits: the balance is raised and the row is marked in two writes, by *)
(* the handler in this order and by the script in the other; so the        *)
(* invariant accounts for every output: what has been paid, what one of    *)
(* the two is about to pay and what the row says agree, except where a     *)
(* fault or the other of the two came in between.                          *)
(*                                                                         *)
(* The gate: the strikes a window counts are among those of its age or     *)
(* younger, so that a count that suspends is one of recent strikes.        *)
(***************************************************************************)
EXTENDS MCWatchers, SumLemmas

\* The handler has raised the balance and not saved the row yet.
Raised(o) == block.dep = o /\ block.pays /\ block.at \in {"sweep", "save"}

\* The script has marked the row and not raised the balance yet.
Owed(o) == script = [at |-> "inc", dep |-> o]

\* The handler pays only the deposit in its hand, between its look and its save.
HandInHand ==
    /\ block.at \in {"inc", "sweep"} => block.pays
    /\ block.pays => block.at \in {"inc", "sweep", "save"}
    /\ \A t \in block.todo : \E o \in Outs : deposit[o].there /\ TxOf[o] = t
    /\ script.at # "idle" => script.dep \in Outs /\ deposit[script.dep].there
    /\ block.at \in {"inc", "sweep", "save"} =>
           block.dep \in Outs /\ deposit[block.dep].there

\* What was paid is what the row says and what is under way.
Accounted ==
    \A o \in Outs :
        /\ Owed(o) => deposit[o].credited
        /\ Raised(o) => credits[o] > 0
        /\ o \notin torn \cup met =>
               /\ deposit[o].credited =>
                      /\ ~(block.dep = o /\ block.pays)
                      /\ credits[o] <= IF Owed(o) THEN 0 ELSE 1
               /\ ~deposit[o].credited => credits[o] = IF Raised(o) THEN 1 ELSE 0

DepInv == DepTypeOK /\ HandInHand /\ Accounted /\ MarkedIsPaid

BlockType == [at: {"idle", "list", "next", "inc", "sweep", "save"},
              todo: SUBSET Txs, snap: [Outs -> Depths], same: SUBSET Outs,
              stale: BOOLEAN, dep: Outs \cup {0}, pays: BOOLEAN]

ScriptType == [at: {"idle", "mark", "inc"}, dep: Outs \cup {0}]

----------------------------------------------------------------------------
LEMMA FirstRowIsRow ==
  ASSUME NEW t, \E o \in Outs : deposit[o].there /\ TxOf[o] = t
  PROVE  /\ FirstRow(t) \in Outs
         /\ deposit[FirstRow(t)].there /\ TxOf[FirstRow(t)] = t
<1> DEFINE S == {o \in Outs : deposit[o].there /\ TxOf[o] = t}
<1>1. S \in SUBSET Nat /\ S # {}
  BY DepositsAssumption
<1>2. PICK n \in S : \A m \in S : n <= m
  BY <1>1, SmallestNat
<1>3. Min(S) \in S
  BY <1>2 DEF Min
<1> QED BY <1>3 DEF FirstRow

LEMMA IdleBlockTyped ==
  /\ IdleBlock \in BlockType
  /\ IdleBlock.at = "idle" /\ IdleBlock.todo = {} /\ ~IdleBlock.pays
<1>1. -1 \in Depths
  BY DepositsAssumption DEF Depths
<1> QED BY <1>1 DEF IdleBlock, BlockType

LEMMA DepInitInv == DepInit => DepInv
<1> SUFFICES ASSUME DepInit PROVE DepInv
  OBVIOUS
<1>1. NoRow \in DepositRows /\ ~NoRow.credited
  BY DEF NoRow, DepositRows
<1>2. -1 \in Depths
  BY DepositsAssumption DEF Depths
<1>3. DepTypeOK
  <2>1. block \in BlockType /\ script \in ScriptType
    BY IdleBlockTyped DEF DepInit, IdleScript, ScriptType
  <2>2. deposit \in [Outs -> DepositRows] /\ \A o \in Outs : deposit[o] = NoRow
    BY <1>1 DEF DepInit
  <2>3. /\ rec \in [Addrs -> [owned: BOOLEAN, imported: BOOLEAN]]
        /\ depth \in [Outs -> Depths] /\ credits \in [Outs -> Nat]
        /\ depFaults \in 0..MaxFaults
    BY <1>2, DepositsAssumption DEF DepInit
  <2>4. blockMsg \in BOOLEAN
    BY DEF DepInit
  <2>5. /\ spent \subseteq Outs /\ txMsgs \subseteq Outs
        /\ torn \subseteq Outs /\ met \subseteq Outs /\ lost \subseteq Outs
    BY DEF DepInit
  <2> QED BY <2>1, <2>2, <2>3, <2>4, <2>5 DEF DepTypeOK, BlockType, ScriptType
<1>4. HandInHand
  BY IdleBlockTyped DEF DepInit, HandInHand, IdleScript
<1>5. Accounted
  BY <1>1, IdleBlockTyped DEF DepInit, Accounted, Raised, Owed, IdleScript
<1>6. MarkedIsPaid
  BY <1>1 DEF DepInit, MarkedIsPaid
<1> QED BY <1>3, <1>4, <1>5, <1>6 DEF DepInv

----------------------------------------------------------------------------
(* Steps that leave rows, payments and what is under way alone. *)

\* What the payments and the rows are about.
Money == <<deposit, credits, script, torn, met, lost>>

LEMMA SameMoney ==
  ASSUME DepInv, UNCHANGED Money, DepTypeOK',
         block' = block
  PROVE  DepInv'
<1>1. HandInHand'
  BY DEF DepInv, HandInHand, Money
<1>2. Accounted'
  BY DEF DepInv, Accounted, Raised, Owed, Money
<1>3. MarkedIsPaid'
  BY DEF DepInv, MarkedIsPaid, Money
<1> QED BY <1>1, <1>2, <1>3 DEF DepInv

LEMMA NodeKeeps ==
  ASSUME DepInv,
         \/ RebuildWallet \/ (\E t \in Txs : Pay(t)) \/ (\E o \in Outs : Spend(o))
         \/ MessageLost
  PROVE  DepInv'
<1>1. /\ UNCHANGED Money /\ block' = block
      /\ UNCHANGED <<deposit, credits, script, torn, met, lost>>
  BY DEF RebuildWallet, Pay, Spend, MessageLost, Money
<1>2. CASE RebuildWallet
  <2>1. rec' \in [Addrs -> [owned: BOOLEAN, imported: BOOLEAN]]
    BY <1>2 DEF RebuildWallet, DepInv, DepTypeOK
  <2>2. DepTypeOK'
    BY <1>1, <1>2, <2>1 DEF RebuildWallet, DepInv, DepTypeOK
  <2> QED BY <1>1, <2>2, SameMoney
<1>3. ASSUME NEW t \in Txs, Pay(t) PROVE DepInv'
  <2>1. 0 \in Depths
    BY DepositsAssumption DEF Depths
  <2>2. depth' \in [Outs -> Depths] /\ txMsgs' \subseteq Outs
    BY <1>3, <2>1 DEF Pay, DepInv, DepTypeOK
  <2>3. DepTypeOK'
    BY <1>1, <1>3, <2>2 DEF Pay, DepInv, DepTypeOK
  <2> QED BY <1>1, <2>3, SameMoney
<1>4. ASSUME NEW o \in Outs, Spend(o) PROVE DepInv'
  <2>1. depFaults' \in 0..MaxFaults
    BY <1>4, DepositsAssumption DEF Spend, DepInv, DepTypeOK
  <2>2. DepTypeOK'
    BY <1>1, <1>4, <2>1 DEF Spend, DepInv, DepTypeOK
  <2> QED BY <1>1, <2>2, SameMoney
<1>5. CASE MessageLost
  <2>1. depFaults' \in 0..MaxFaults
    BY <1>5, DepositsAssumption DEF MessageLost, DepInv, DepTypeOK
  <2>2. blockMsg' \in BOOLEAN /\ txMsgs' \subseteq Outs
    BY <1>5 DEF MessageLost, DepInv, DepTypeOK
  <2>3. UNCHANGED nodeVars
    BY <1>5 DEF MessageLost
  <2>4. DepTypeOK'
    BY <1>1, <2>1, <2>2, <2>3 DEF nodeVars, DepInv, DepTypeOK
  <2> QED BY <1>1, <2>4, SameMoney
<1> QED BY <1>2, <1>3, <1>4, <1>5

\* What a row is besides whether it is there and credited does not matter here.
SameRows ==
    \A o \in Outs : /\ deposit[o].there => deposit'[o].there
                    /\ deposit'[o].credited <=> deposit[o].credited

\* The block handler is where it was with its deposit, or holds none.
SameHand ==
    /\ block'.pays = block.pays /\ block'.dep = block.dep /\ block'.at = block.at
    /\ block'.todo = block.todo

LEMMA SameCredits ==
  ASSUME DepInv, SameRows, DepTypeOK', UNCHANGED <<credits, script, torn, met, lost>>,
         SameHand
  PROVE  DepInv'
<1>1. HandInHand'
  BY DEF DepInv, HandInHand, SameRows, SameHand
<1>2. Accounted'
  BY DEF DepInv, Accounted, Raised, Owed, SameRows, SameHand
<1>3. MarkedIsPaid'
  BY DEF DepInv, MarkedIsPaid, SameRows
<1> QED BY <1>1, <1>2, <1>3 DEF DepInv

LEMMA NewBlockKeeps ==
  ASSUME DepInv, NewBlock
  PROVE  DepInv'
<1>1. /\ UNCHANGED <<rec, spent, credits, script, torn, met, lost, depFaults>>
      /\ blockMsg' \in BOOLEAN
  BY DEF NewBlock
<1>2. depth' \in [Outs -> Depths]
  <2>1. ASSUME NEW o \in Outs
        PROVE  (IF depth[o] \in {-1, MinConfs} THEN depth[o] ELSE depth[o] + 1) \in Depths
    <3>1. depth[o] \in Int /\ depth[o] >= -1 /\ depth[o] <= MinConfs /\ MinConfs \in Nat
      BY DepositsAssumption DEF DepInv, DepTypeOK, Depths
    <3>2. CASE depth[o] = -1 \/ depth[o] = MinConfs
      BY <3>1, <3>2 DEF Depths
    <3>3. CASE depth[o] # -1 /\ depth[o] # MinConfs
      BY <3>1, <3>3 DEF Depths
    <3> QED BY <3>2, <3>3
  <2> QED BY <2>1 DEF NewBlock
<1>3. txMsgs' \subseteq Outs
  BY DEF NewBlock, DepInv, DepTypeOK
<1>4. \A o \in Outs : /\ deposit'[o] \in DepositRows
                      /\ deposit'[o].there = deposit[o].there
                      /\ deposit'[o].credited = deposit[o].credited
                      /\ deposit'[o].there \/ deposit'[o] = NoRow
  <2> SUFFICES ASSUME NEW o \in Outs
               PROVE  LET d == deposit'[o] IN
                      /\ d \in DepositRows
                      /\ d.there = deposit[o].there /\ d.credited = deposit[o].credited
                      /\ d.there \/ d = NoRow
    OBVIOUS
  <2>1. deposit'[o] = [deposit[o] EXCEPT !.current = FALSE]
    BY DEF NewBlock
  <2>2. deposit[o] \in DepositRows /\ (deposit[o].there \/ deposit[o] = NoRow)
    BY DEF DepInv, DepTypeOK
  <2>3. [NoRow EXCEPT !.current = FALSE] = NoRow
    <3>1. NoRow \in DepositRows /\ NoRow.current = FALSE
      BY DEF NoRow, DepositRows
    <3> QED BY <3>1 DEF DepositRows
  <2>4. /\ [deposit[o] EXCEPT !.current = FALSE] \in DepositRows
        /\ [deposit[o] EXCEPT !.current = FALSE].there = deposit[o].there
        /\ [deposit[o] EXCEPT !.current = FALSE].credited = deposit[o].credited
    BY <2>2 DEF DepositRows
  <2> QED BY <2>1, <2>2, <2>3, <2>4
<1>5. deposit' \in [Outs -> DepositRows]
  <2>1. deposit' = [o \in Outs |-> [deposit[o] EXCEPT !.current = FALSE]]
    BY DEF NewBlock
  <2>2. \A o \in Outs : [deposit[o] EXCEPT !.current = FALSE] \in DepositRows
    BY <1>4, <2>1
  <2> QED BY <2>1, <2>2
<1>6. block' \in BlockType /\ SameHand
  <2> DEFINE stale == block.at \notin {"idle", "list"}
  <2>1. block' = [block EXCEPT !.stale = stale] /\ stale \in BOOLEAN
    BY DEF NewBlock
  <2>2. block \in BlockType
    BY DEF DepInv, DepTypeOK, BlockType
  <2> HIDE DEF stale
  <2> QED BY <2>1, <2>2 DEF BlockType, SameHand
<1>7. DepTypeOK'
  BY <1>1, <1>2, <1>3, <1>4, <1>5, <1>6 DEF DepInv, DepTypeOK, BlockType
<1>8. SameRows
  BY <1>4 DEF SameRows
<1> QED BY <1>1, <1>6, <1>7, <1>8, SameCredits

LEMMA RecordKeeps ==
  ASSUME DepInv, NEW o \in Outs, RecordOutput(o)
  PROVE  DepInv'
<1> DEFINE fresh == depth[o] = 0
           d == [NoRow EXCEPT !.there = TRUE, !.current = fresh]
<1>1. /\ UNCHANGED <<rec, depth, spent, blockMsg, credits, block, script, torn, met, lost,
                     depFaults>>
      /\ txMsgs' \subseteq Outs
  BY DEF RecordOutput, nodeVars, DepInv, DepTypeOK
<1>2. NoRow \in DepositRows /\ ~NoRow.credited
  BY DEF NoRow, DepositRows
<1>3. d \in DepositRows /\ d.there /\ ~d.credited
  <2>1. fresh \in BOOLEAN
    OBVIOUS
  <2> HIDE DEF fresh
  <2> QED BY <1>2, <2>1 DEF DepositRows
<1>4. CASE deposit' = deposit
  BY <1>1, <1>4, SameMoney DEF Money, DepInv, DepTypeOK
<1>5. CASE RowFor(o) = {} /\ deposit' = [deposit EXCEPT ![o] = d]
  <2> HIDE DEF d
  <2>1. ~deposit[o].there /\ deposit[o] = NoRow
    BY <1>5 DEF RowFor, DepInv, DepTypeOK
  <2>2. SameRows
    BY <1>2, <1>3, <1>5, <2>1 DEF SameRows, DepInv, DepTypeOK
  <2>3. DepTypeOK'
    BY <1>1, <1>3, <1>5 DEF DepInv, DepTypeOK
  <2> QED BY <1>1, <2>2, <2>3, SameCredits DEF SameHand
<1> QED BY <1>4, <1>5 DEF RecordOutput

LEMMA OrphanKeeps ==
  ASSUME DepInv, NEW t \in Txs, OrphanDeposit(t)
  PROVE  DepInv'
<1> DEFINE o == FirstRow(t)
           d == [deposit[o] EXCEPT !.orphaned = TRUE]
<1>1. o \in Outs /\ deposit[o].there
  BY FirstRowIsRow DEF OrphanDeposit
<1>2. /\ UNCHANGED <<nodeVars, txMsgs, blockMsg, credits, block, script, torn, met, lost,
                     depFaults>>
      /\ deposit' = [deposit EXCEPT ![o] = d]
  BY DEF OrphanDeposit
<1>3. d \in DepositRows /\ d.there /\ d.credited = deposit[o].credited
  BY <1>1 DEF DepInv, DepTypeOK, DepositRows
<1> HIDE DEF d, o
<1>4. SameRows
  BY <1>1, <1>2, <1>3 DEF SameRows, DepInv, DepTypeOK
<1>5. DepTypeOK'
  BY <1>1, <1>2, <1>3 DEF nodeVars, DepInv, DepTypeOK
<1> QED BY <1>2, <1>4, <1>5, SameCredits DEF SameHand

----------------------------------------------------------------------------
(* The block handler. *)

\* Only the handler moves, and holds no deposit to pay before or after.
LEMMA HandlerMoves ==
  ASSUME DepInv, ~block.pays,
         block' \in BlockType, ~block'.pays, block'.at \notin {"inc", "sweep"},
         block'.at = "save" => block'.dep \in Outs /\ deposit[block'.dep].there,
         \A t \in block'.todo : \E o \in Outs : deposit[o].there /\ TxOf[o] = t,
         blockMsg' \in BOOLEAN,
         UNCHANGED <<nodeVars, txMsgs, deposit, credits, script, torn, met, lost, depFaults>>
  PROVE  DepInv'
<1>1. DepTypeOK'
  BY DEF nodeVars, DepInv, DepTypeOK, BlockType
<1>2. HandInHand'
  BY DEF DepInv, HandInHand
<1>3. Accounted'
  BY DEF DepInv, Accounted, Raised, Owed
<1>4. MarkedIsPaid'
  BY DEF DepInv, MarkedIsPaid
<1> QED BY <1>1, <1>2, <1>3, <1>4 DEF DepInv

LEMMA TakeKeeps ==
  ASSUME DepInv, TakeBlock
  PROVE  DepInv'
<1> DEFINE todo == {TxOf[o] : o \in FirstPending}
<1>1. block \in BlockType /\ block.at = "idle" /\ ~block.pays
  BY DEF TakeBlock, DepInv, DepTypeOK, BlockType, HandInHand
<1>2. todo \subseteq Txs /\ \A t \in todo : \E o \in Outs : deposit[o].there /\ TxOf[o] = t
  BY DepositsAssumption DEF FirstPending, Pending
<1>3. /\ UNCHANGED <<nodeVars, txMsgs, deposit, credits, script, torn, met, lost, depFaults>>
      /\ blockMsg' = FALSE
      /\ block' = block \/ block' = [block EXCEPT !.at = "list", !.todo = todo]
  BY DEF TakeBlock
<1> HIDE DEF todo
<1>4. /\ [block EXCEPT !.at = "list", !.todo = todo] \in BlockType
      /\ [block EXCEPT !.at = "list", !.todo = todo].at = "list"
      /\ [block EXCEPT !.at = "list", !.todo = todo].pays = block.pays
      /\ [block EXCEPT !.at = "list", !.todo = todo].todo = todo
  BY <1>1, <1>2 DEF BlockType
<1>5. /\ block' \in BlockType /\ ~block'.pays /\ block'.at \in {"idle", "list"}
      /\ block'.todo \in {block.todo, todo}
  BY <1>1, <1>3, <1>4
<1>6. \A t \in block'.todo : \E o \in Outs : deposit[o].there /\ TxOf[o] = t
  BY <1>2, <1>5 DEF DepInv, HandInHand
<1>7. blockMsg' \in BOOLEAN
  BY <1>3
<1> QED BY <1>1, <1>3, <1>5, <1>6, <1>7, HandlerMoves

LEMMA ListKeeps ==
  ASSUME DepInv, ListUnspent
  PROVE  DepInv'
<1> DEFINE snap == [o \in Outs |-> IF Listed(o) THEN depth[o] ELSE -1]
           same == {o \in Outs : deposit[o].current}
<1>1. block \in BlockType /\ block.at = "list" /\ ~block.pays
  BY DEF ListUnspent, DepInv, DepTypeOK, BlockType, HandInHand
<1>2. snap \in [Outs -> Depths] /\ same \subseteq Outs
  BY DepositsAssumption DEF DepInv, DepTypeOK, Depths
<1>3. /\ UNCHANGED <<nodeVars, txMsgs, blockMsg, deposit, credits, script, torn, met, lost,
                     depFaults>>
      /\ block' = [block EXCEPT !.at = "next", !.stale = FALSE, !.snap = snap, !.same = same]
  BY DEF ListUnspent
<1> HIDE DEF snap, same
<1>4. /\ block' \in BlockType /\ block'.at = "next" /\ ~block'.pays
      /\ block'.todo = block.todo
  BY <1>1, <1>2, <1>3 DEF BlockType
<1>5. \A t \in block'.todo : \E o \in Outs : deposit[o].there /\ TxOf[o] = t
  BY <1>4 DEF DepInv, HandInHand
<1>6. blockMsg' \in BOOLEAN
  BY <1>3 DEF DepInv, DepTypeOK
<1> QED BY <1>1, <1>3, <1>4, <1>5, <1>6, HandlerMoves

\* After the last deposit the handler is idle, and else it looks at the next.
LEMMA AfterDepTyped ==
  ASSUME DepInv, NEW todo \in SUBSET block.todo
  PROVE  /\ AfterDep(todo) \in BlockType
         /\ AfterDep(todo).at \in {"idle", "next"} /\ ~AfterDep(todo).pays
         /\ AfterDep(todo).todo = todo
<1>1. block \in BlockType
  BY DEF DepInv, DepTypeOK, BlockType
<1>2. CASE todo = {}
  BY <1>2, IdleBlockTyped DEF AfterDep
<1>3. CASE todo # {}
  <2>1. AfterDep(todo) = [block EXCEPT !.at = "next", !.todo = todo, !.dep = 0,
                                       !.pays = FALSE]
    BY <1>3 DEF AfterDep
  <2> QED BY <1>1, <2>1 DEF BlockType
<1> QED BY <1>2, <1>3

LEMMA LookKeeps ==
  ASSUME DepInv, NEW t \in Txs, LookAt(t)
  PROVE  DepInv'
<1> DEFINE o == FirstRow(t)
           rest == block.todo \ {t}
           pays == MayCredit(o)
           at == IF pays THEN "inc" ELSE "save"
           held == [block EXCEPT !.at = at, !.todo = rest, !.dep = o, !.pays = pays]
<1>1. block \in BlockType /\ block.at = "next" /\ ~block.pays
  BY DEF LookAt, DepInv, DepTypeOK, BlockType, HandInHand
<1>2. o \in Outs /\ deposit[o].there
  BY FirstRowIsRow DEF LookAt, DepInv, HandInHand
<1>3. \A u \in rest : \E p \in Outs : deposit[p].there /\ TxOf[p] = u
  BY DEF DepInv, HandInHand
<1>4. pays \in BOOLEAN /\ (pays => ~deposit[o].credited)
  BY DEF MayCredit
<1>5. /\ UNCHANGED <<nodeVars, txMsgs, blockMsg, deposit, credits, script, torn, met, lost,
                     depFaults>>
      /\ block' = AfterDep(rest) \/ block' = held
  BY DEF LookAt
<1>6. blockMsg' \in BOOLEAN
  BY <1>5 DEF DepInv, DepTypeOK
<1> HIDE DEF o, pays
<1>7. /\ held \in BlockType /\ held.dep = o /\ held.todo = rest
      /\ (held.pays <=> pays) /\ (held.at = IF pays THEN "inc" ELSE "save")
  BY <1>1, <1>2, <1>4 DEF BlockType
<1> HIDE DEF held
<1>8. CASE block' = AfterDep(rest)
  <2>1. rest \in SUBSET block.todo
    OBVIOUS
  <2> HIDE DEF rest
  <2>2. /\ block' \in BlockType /\ block'.at \in {"idle", "next"} /\ ~block'.pays
        /\ block'.todo = rest
    BY <1>8, <2>1, AfterDepTyped
  <2> QED BY <1>1, <1>3, <1>5, <1>6, <2>2, HandlerMoves
<1>9. CASE block' = held /\ ~pays
  BY <1>1, <1>2, <1>3, <1>5, <1>6, <1>7, <1>9, HandlerMoves
<1>10. CASE block' = held /\ pays
  <2>1. /\ block' \in BlockType /\ block'.dep = o /\ block'.pays /\ block'.at = "inc"
        /\ block'.todo = rest
    BY <1>7, <1>10
  <2> HIDE DEF rest
  <2>2. DepTypeOK'
    BY <1>5, <2>1 DEF nodeVars, DepInv, DepTypeOK, BlockType
  <2>3. HandInHand'
    BY <1>2, <1>3, <1>5, <2>1 DEF DepInv, HandInHand
  <2>4. Accounted'
    BY <1>1, <1>4, <1>5, <1>10, <2>1 DEF DepInv, Accounted, Raised, Owed
  <2>5. MarkedIsPaid'
    BY <1>5 DEF DepInv, MarkedIsPaid
  <2> QED BY <2>2, <2>3, <2>4, <2>5 DEF DepInv
<1> QED BY <1>5, <1>8, <1>9, <1>10

\* The balance is raised for the deposit in hand, which nothing has paid yet
\* unless it was marked meanwhile.
LEMMA CreditKeeps ==
  ASSUME DepInv, Credit
  PROVE  DepInv'
<1>1. block \in BlockType /\ block.at = "inc" /\ block.pays /\ block.dep \in Outs
  BY DEF Credit, DepInv, DepTypeOK, BlockType, HandInHand
<1>2. /\ UNCHANGED <<nodeVars, txMsgs, blockMsg, deposit, script, torn, met, lost, depFaults>>
      /\ credits' = [credits EXCEPT ![block.dep] = credits[block.dep] + 1]
      /\ block' = [block EXCEPT !.at = "sweep"]
  BY DEF Credit
<1>3. /\ block' \in BlockType /\ block'.at = "sweep" /\ block'.pays
      /\ block'.dep = block.dep /\ block'.todo = block.todo
  BY <1>1, <1>2 DEF BlockType
<1>4. /\ credits' \in [Outs -> Nat] /\ credits'[block.dep] = credits[block.dep] + 1
      /\ \A o \in Outs \ {block.dep} : credits'[o] = credits[o]
      /\ credits \in [Outs -> Nat]
  BY <1>1, <1>2 DEF DepInv, DepTypeOK
<1>5. DepTypeOK'
  BY <1>2, <1>3, <1>4 DEF nodeVars, DepInv, DepTypeOK, BlockType
<1>6. HandInHand'
  BY <1>1, <1>2, <1>3 DEF DepInv, HandInHand
<1>7. Accounted'
  BY <1>1, <1>2, <1>3, <1>4 DEF DepInv, Accounted, Raised, Owed
<1>8. MarkedIsPaid'
  <2>1. \A o \in Outs : credits[o] > 0 => credits'[o] > 0
    BY <1>1, <1>4
  <2> QED BY <1>2, <2>1 DEF DepInv, MarkedIsPaid
<1> QED BY <1>5, <1>6, <1>7, <1>8 DEF DepInv

LEMMA SweepKeeps ==
  ASSUME DepInv, Sweep
  PROVE  DepInv'
<1>1. block \in BlockType /\ block.at = "sweep" /\ block.pays /\ block.dep \in Outs
  BY DEF Sweep, DepInv, DepTypeOK, BlockType, HandInHand
<1>2. /\ UNCHANGED <<nodeVars, txMsgs, blockMsg, deposit, credits, script, torn, met, lost,
                     depFaults>>
      /\ block' = [block EXCEPT !.at = "save"]
  BY DEF Sweep
<1>3. /\ block' \in BlockType /\ block'.at = "save" /\ block'.pays
      /\ block'.dep = block.dep /\ block'.todo = block.todo
  BY <1>1, <1>2 DEF BlockType
<1>4. DepTypeOK'
  BY <1>2, <1>3 DEF nodeVars, DepInv, DepTypeOK, BlockType
<1>5. HandInHand'
  BY <1>1, <1>2, <1>3 DEF DepInv, HandInHand
<1>6. Accounted'
  BY <1>1, <1>2, <1>3 DEF DepInv, Accounted, Raised, Owed
<1>7. MarkedIsPaid'
  BY <1>2 DEF DepInv, MarkedIsPaid
<1> QED BY <1>4, <1>5, <1>6, <1>7 DEF DepInv

\* The row is saved as credited after the balance was raised.
LEMMA SaveKeeps ==
  ASSUME DepInv, Save
  PROVE  DepInv'
<1> DEFINE o == block.dep
           current == ~block.stale
           credited == deposit[o].credited \/ SavesCredit(o)
           d == [deposit[o] EXCEPT !.current = current, !.credited = credited]
<1>1. block \in BlockType /\ block.at = "save" /\ o \in Outs
  BY DEF Save, DepInv, DepTypeOK, BlockType, HandInHand
<1>2. current \in BOOLEAN /\ credited \in BOOLEAN
  OBVIOUS
<1>3. credited <=> deposit[o].credited \/ block.pays
  BY DEF SavesCredit
<1>4. /\ UNCHANGED <<nodeVars, txMsgs, blockMsg, credits, script, torn, met, lost, depFaults>>
      /\ deposit' = [deposit EXCEPT ![o] = d]
      /\ block' = AfterDep(block.todo)
  BY DEF Save
<1>5. deposit[o] \in DepositRows /\ (deposit[o].there \/ deposit[o] = NoRow)
  BY <1>1 DEF DepInv, DepTypeOK
<1> HIDE DEF current, credited
<1>6. /\ d \in DepositRows /\ (d.credited <=> credited)
      /\ d.there = deposit[o].there
  BY <1>2, <1>5 DEF DepositRows
<1>7. deposit[o].there
  BY <1>1 DEF DepInv, HandInHand
<1> HIDE DEF d, o
<1>8. /\ block' \in BlockType /\ block'.at \in {"idle", "next"} /\ ~block'.pays
      /\ block'.todo = block.todo
  BY <1>4, AfterDepTyped
<1>9. /\ deposit' \in [Outs -> DepositRows] /\ deposit'[o] = d
      /\ deposit \in [Outs -> DepositRows]
      /\ \A p \in Outs \ {o} : deposit'[p] = deposit[p]
  BY <1>1, <1>4, <1>6 DEF DepInv, DepTypeOK
<1>10. DepTypeOK'
  BY <1>1, <1>4, <1>6, <1>7, <1>8, <1>9 DEF nodeVars, DepInv, DepTypeOK, BlockType
<1>11. HandInHand'
  BY <1>1, <1>4, <1>6, <1>7, <1>8, <1>9 DEF DepInv, HandInHand
<1>12. block.pays => Raised(o)
  BY <1>1 DEF Raised, o
<1>13. \A p \in Outs \ {o} : ~Raised(p) /\ ~(block.dep = p)
  BY DEF Raised, o
<1>14. ~block.pays => ~Raised(o)
  BY DEF Raised
<1>15. Accounted'
  <2> SUFFICES ASSUME NEW p \in Outs
               PROVE  /\ Owed(p) => deposit'[p].credited
                      /\ p \notin torn \cup met =>
                             /\ deposit'[p].credited =>
                                    credits[p] <= IF Owed(p) THEN 0 ELSE 1
                             /\ ~deposit'[p].credited => credits[p] = 0
    BY <1>4, <1>8 DEF Accounted, Raised, Owed
  <2>1. CASE p # o
    BY <1>9, <1>13, <2>1 DEF DepInv, Accounted
  <2>2. CASE p = o
    BY <1>1, <1>3, <1>6, <1>9, <1>12, <1>14, <2>2 DEF DepInv, Accounted, o
  <2> QED BY <2>1, <2>2
<1>16. MarkedIsPaid'
  <2>1. block.pays => credits[o] > 0
    BY <1>1, <1>12 DEF DepInv, Accounted
  <2> QED BY <1>3, <1>4, <1>6, <1>9, <2>1 DEF DepInv, MarkedIsPaid
<1> QED BY <1>10, <1>11, <1>15, <1>16 DEF DepInv

----------------------------------------------------------------------------
(* The script. *)

LEMMA OwedIs ==
  ASSUME NEW s \in ScriptType, NEW o
  PROVE  s = [at |-> "inc", dep |-> o] <=> s.at = "inc" /\ s.dep = o
  BY DEF ScriptType

LEMMA FindKeeps ==
  ASSUME DepInv, NEW t \in Txs, FindDeposit(t)
  PROVE  DepInv'
<1> DEFINE o == FirstRow(t)
<1>1. o \in Outs /\ deposit[o].there
  BY FirstRowIsRow DEF FindDeposit
<1>2. /\ UNCHANGED <<nodeVars, txMsgs, blockMsg, deposit, credits, block, torn, met, lost,
                     depFaults>>
      /\ script' = [at |-> "mark", dep |-> o] /\ script.at = "idle"
  BY DEF FindDeposit
<1> HIDE DEF o
<1>3. script \in ScriptType /\ script' \in ScriptType
  BY <1>1, <1>2 DEF ScriptType, DepInv, DepTypeOK
<1>4. \A p : script # [at |-> "inc", dep |-> p] /\ script' # [at |-> "inc", dep |-> p]
  BY <1>2, <1>3, OwedIs
<1>5. DepTypeOK'
  BY <1>2, <1>3 DEF nodeVars, DepInv, DepTypeOK, ScriptType
<1>6. HandInHand'
  BY <1>1, <1>2 DEF DepInv, HandInHand
<1>7. Accounted'
  BY <1>2, <1>4 DEF DepInv, Accounted, Raised, Owed
<1>8. MarkedIsPaid'
  BY <1>2, <1>4 DEF DepInv, MarkedIsPaid
<1> QED BY <1>5, <1>6, <1>7, <1>8 DEF DepInv

\* The row is marked: by a script that then owes the payment.
LEMMA MarkKeeps ==
  ASSUME DepInv, MarkDeposit
  PROVE  DepInv'
<1> DEFINE o == script.dep
           d == [deposit[o] EXCEPT !.credited = TRUE, !.current = FALSE]
<1>1. /\ script \in ScriptType /\ script.at = "mark" /\ o \in Outs /\ deposit[o].there
      /\ deposit[o] \in DepositRows
  BY DEF MarkDeposit, DepInv, DepTypeOK, ScriptType, HandInHand
<1>2. \A p : script # [at |-> "inc", dep |-> p]
  BY <1>1, OwedIs
<1>3. UNCHANGED <<nodeVars, txMsgs, blockMsg, credits, block, torn, lost, depFaults>>
  BY DEF MarkDeposit
<1>4. CASE deposit[o].credited
  <2>1. script' = IdleScript /\ UNCHANGED <<deposit, met>>
    BY <1>4 DEF MarkDeposit
  <2>2. script' \in ScriptType /\ script'.at = "idle"
    BY <2>1 DEF IdleScript, ScriptType
  <2>3. \A p : script' # [at |-> "inc", dep |-> p]
    BY <2>2, OwedIs
  <2>4. DepTypeOK'
    BY <1>3, <2>1, <2>2 DEF nodeVars, DepInv, DepTypeOK, ScriptType
  <2>5. HandInHand'
    BY <1>3, <2>1, <2>2 DEF DepInv, HandInHand
  <2>6. Accounted'
    BY <1>2, <1>3, <2>1, <2>3 DEF DepInv, Accounted, Raised, Owed
  <2>7. MarkedIsPaid'
    BY <1>2, <1>3, <2>1, <2>3 DEF DepInv, MarkedIsPaid
  <2> QED BY <2>4, <2>5, <2>6, <2>7 DEF DepInv
<1>5. CASE ~deposit[o].credited
  <2>1. /\ deposit' = [deposit EXCEPT ![o] = d]
        /\ script' = [script EXCEPT !.at = "inc"]
        /\ met' = met \cup {p \in {o} : block.dep = p /\ block.pays}
    BY <1>5 DEF MarkDeposit
  <2>2. d \in DepositRows /\ d.credited /\ d.there
    BY <1>1 DEF DepositRows
  <2>3. script' \in ScriptType /\ script'.at = "inc" /\ script'.dep = o
    BY <1>1, <2>1 DEF ScriptType
  <2> HIDE DEF d, o
  <2>4. \A p : script' = [at |-> "inc", dep |-> p] <=> p = o
    BY <2>3, OwedIs
  <2>5. /\ deposit' \in [Outs -> DepositRows] /\ deposit'[o] = d
        /\ \A p \in Outs \ {o} : deposit'[p] = deposit[p]
    BY <1>1, <2>1, <2>2 DEF DepInv, DepTypeOK
  <2>6. DepTypeOK'
    BY <1>1, <1>3, <2>1, <2>2, <2>3, <2>5 DEF nodeVars, DepInv, DepTypeOK, ScriptType
  <2>7. HandInHand'
    BY <1>1, <1>3, <2>2, <2>3, <2>5 DEF DepInv, HandInHand
  <2>8. Accounted'
    <3> SUFFICES ASSUME NEW p \in Outs
                 PROVE  /\ p = o => deposit'[p].credited
                        /\ Raised(p) => credits[p] > 0
                        /\ p \notin torn \cup met' =>
                               /\ deposit'[p].credited =>
                                      /\ ~(block.dep = p /\ block.pays)
                                      /\ credits[p] <= IF p = o THEN 0 ELSE 1
                               /\ ~deposit'[p].credited =>
                                      credits[p] = IF Raised(p) THEN 1 ELSE 0
      BY <1>3, <2>4 DEF Accounted, Raised, Owed
    <3>1. CASE p # o
      BY <1>2, <2>1, <2>5, <3>1 DEF DepInv, Accounted, Owed
    <3>2. CASE p = o
      <4>1. p \notin met' => ~(block.dep = p /\ block.pays) /\ p \notin met
        BY <2>1, <3>2
      <4>2. p \notin met' => ~Raised(p)
        BY <4>1 DEF Raised
      <4> QED BY <1>5, <2>2, <2>5, <3>2, <4>1, <4>2 DEF DepInv, Accounted
    <3> QED BY <3>1, <3>2
  <2>9. MarkedIsPaid'
    BY <1>2, <1>3, <2>4, <2>5 DEF DepInv, MarkedIsPaid
  <2> QED BY <2>6, <2>7, <2>8, <2>9 DEF DepInv
<1> QED BY <1>4, <1>5

\* The balance is raised for the deposit the script owes, which was not paid
\* when the script marked it.
LEMMA PayKeeps ==
  ASSUME DepInv, PayDeposit
  PROVE  DepInv'
<1> DEFINE o == script.dep
<1>1. script \in ScriptType /\ script.at = "inc" /\ o \in Outs
  BY DEF PayDeposit, DepInv, DepTypeOK, ScriptType, HandInHand
<1>2. /\ UNCHANGED <<nodeVars, txMsgs, blockMsg, deposit, block, torn, met, lost, depFaults>>
      /\ credits' = [credits EXCEPT ![o] = credits[o] + 1]
      /\ script' = IdleScript
  BY DEF PayDeposit
<1>3. script' \in ScriptType /\ script'.at = "idle"
  BY <1>2 DEF IdleScript, ScriptType
<1>4. /\ \A p : script = [at |-> "inc", dep |-> p] <=> p = o
      /\ \A p : script' # [at |-> "inc", dep |-> p]
  BY <1>1, <1>3, OwedIs
<1> HIDE DEF o
<1>5. /\ credits \in [Outs -> Nat] /\ credits' \in [Outs -> Nat]
      /\ credits'[o] = credits[o] + 1
      /\ \A p \in Outs \ {o} : credits'[p] = credits[p]
  BY <1>1, <1>2 DEF DepInv, DepTypeOK
<1>6. DepTypeOK'
  BY <1>2, <1>3, <1>5 DEF nodeVars, DepInv, DepTypeOK, ScriptType
<1>7. HandInHand'
  BY <1>2, <1>3 DEF DepInv, HandInHand
<1>8. Accounted'
  BY <1>1, <1>2, <1>4, <1>5 DEF DepInv, Accounted, Raised, Owed
<1>9. MarkedIsPaid'
  BY <1>1, <1>2, <1>4, <1>5 DEF DepInv, MarkedIsPaid
<1> QED BY <1>6, <1>7, <1>8, <1>9 DEF DepInv

----------------------------------------------------------------------------
(* Faults. *)

\* The script stops: what it owed is lost.
LEMMA StopKeeps ==
  ASSUME DepInv, ScriptStops
  PROVE  DepInv'
<1> DEFINE owed == {o \in Outs : script = [at |-> "inc", dep |-> o]}
<1>1. /\ UNCHANGED <<nodeVars, txMsgs, blockMsg, deposit, credits, block, torn, met>>
      /\ lost' = lost \cup owed /\ script' = IdleScript
      /\ depFaults < MaxFaults /\ depFaults' = depFaults + 1
  BY DEF ScriptStops
<1>2. script' \in ScriptType /\ script'.at = "idle"
  BY <1>1 DEF IdleScript, ScriptType
<1>3. \A p : script' # [at |-> "inc", dep |-> p]
  BY <1>2, OwedIs
<1>4. depFaults' \in 0..MaxFaults
  BY <1>1, DepositsAssumption DEF DepInv, DepTypeOK
<1>5. DepTypeOK'
  BY <1>1, <1>2, <1>4 DEF nodeVars, DepInv, DepTypeOK, ScriptType
<1>6. HandInHand'
  BY <1>1, <1>2 DEF DepInv, HandInHand
<1>7. credits \in [Outs -> Nat]
  BY DEF DepInv, DepTypeOK
<1>8. Accounted'
  BY <1>1, <1>3, <1>7 DEF DepInv, Accounted, Raised, Owed
<1>9. MarkedIsPaid'
  BY <1>1, <1>3 DEF DepInv, MarkedIsPaid
<1> QED BY <1>5, <1>6, <1>8, <1>9 DEF DepInv

\* The handler is gone: a balance it raised has no saved row.
LEMMA HandlerGone ==
  ASSUME DepInv, block' = IdleBlock, torn' = torn \cup Unsaved,
         txMsgs' \subseteq Outs, blockMsg' \in BOOLEAN,
         depFaults < MaxFaults, depFaults' = depFaults + 1,
         UNCHANGED <<nodeVars, deposit, credits, script, met, lost>>
  PROVE  DepInv'
<1>1. block' \in BlockType /\ block'.at = "idle" /\ block'.todo = {} /\ ~block'.pays
  BY IdleBlockTyped
<1>2. torn' \subseteq Outs /\ \A o \in Outs : Raised(o) => o \in torn'
  BY DEF DepInv, DepTypeOK, Unsaved, Raised
<1>3. depFaults' \in 0..MaxFaults
  BY DepositsAssumption DEF DepInv, DepTypeOK
<1>4. DepTypeOK'
  BY <1>1, <1>2, <1>3 DEF nodeVars, DepInv, DepTypeOK, BlockType
<1>5. HandInHand'
  BY <1>1 DEF DepInv, HandInHand
<1>6. \A o \in Outs : o \notin torn' \cup met' => o \notin torn \cup met /\ ~Raised(o)
  BY <1>2
<1>7. Accounted'
  <2>1. \A o \in Outs : ~Raised(o)' /\ (Owed(o)' <=> Owed(o))
    BY <1>1 DEF Raised, Owed
  <2>2. \A o \in Outs : Owed(o) => deposit[o].credited
    BY DEF DepInv, Accounted
  <2>3. ASSUME NEW o \in Outs, o \notin torn' \cup met'
        PROVE  /\ deposit[o].credited => credits[o] <= IF Owed(o) THEN 0 ELSE 1
               /\ ~deposit[o].credited => credits[o] = 0
    BY <1>6, <2>3 DEF DepInv, Accounted
  <2> QED BY <1>1, <2>1, <2>2, <2>3 DEF Accounted
<1>8. MarkedIsPaid'
  BY DEF DepInv, MarkedIsPaid
<1> QED BY <1>4, <1>5, <1>7, <1>8 DEF DepInv

LEMMA FaultsKeep ==
  ASSUME DepInv, HandlerFails \/ WatcherRestarts
  PROVE  DepInv'
<1>1. CASE HandlerFails
  <2>1. txMsgs' \subseteq Outs /\ blockMsg' \in BOOLEAN
    BY <1>1 DEF HandlerFails, DepInv, DepTypeOK
  <2> QED BY <1>1, <2>1, HandlerGone DEF HandlerFails
<1>2. CASE WatcherRestarts
  BY <1>2, HandlerGone DEF WatcherRestarts
<1> QED BY <1>1, <1>2

----------------------------------------------------------------------------
LEMMA DepStepKeeps ==
  ASSUME DepInv, [DepNext]_depVars
  PROVE  DepInv'
<1>1. CASE NewBlock
  BY <1>1, NewBlockKeeps
<1>2. CASE RebuildWallet \/ MessageLost
  BY <1>2, NodeKeeps
<1>3. ASSUME NEW t \in Txs, Pay(t) \/ FindDeposit(t) \/ OrphanDeposit(t) PROVE DepInv'
  BY <1>3, NodeKeeps, FindKeeps, OrphanKeeps
<1>4. ASSUME NEW o \in Outs, Spend(o) \/ RecordOutput(o) PROVE DepInv'
  BY <1>4, NodeKeeps, RecordKeeps
<1>5. CASE HandleBlock
  BY <1>5, TakeKeeps, ListKeeps, LookKeeps, CreditKeeps, SweepKeeps, SaveKeeps
     DEF HandleBlock
<1>6. CASE MarkDeposit \/ PayDeposit
  BY <1>6, MarkKeeps, PayKeeps
<1>7. CASE HandlerFails \/ WatcherRestarts \/ ScriptStops
  BY <1>7, FaultsKeep, StopKeeps
<1>8. CASE UNCHANGED depVars
  <2>1. UNCHANGED <<Money, block, rec, depth, spent, txMsgs, blockMsg, depFaults>>
    BY <1>8 DEF depVars, nodeVars, Money
  <2>2. DepTypeOK'
    BY <2>1 DEF Money, DepInv, DepTypeOK
  <2> QED BY <2>1, <2>2, SameMoney
<1> QED BY <1>1, <1>2, <1>3, <1>4, <1>5, <1>6, <1>7, <1>8 DEF DepNext

\* What was paid for an output, what its row says and what handler and script
\* are about to write agree, whatever blocks, scripts and faults come in between.
THEOREM DepositsInvariant == DepSpec => []DepInv
<1>1. DepInit => DepInv
  BY DepInitInv
<1>2. DepInv /\ [DepNext]_depVars => DepInv'
  BY DepStepKeeps
<1> QED BY <1>1, <1>2, PTL DEF DepSpec

\* The variables of the deposits keep their types.
THEOREM DepositTypes == DepSpec => []DepTypeOK
<1>1. DepInv => DepTypeOK
  BY DEF DepInv
<1> QED BY <1>1, DepositsInvariant, PTL

\* updateConfirmationsForPending and credit-btc-deposit.js credit an output
\* twice only where one of them stopped half-way or they met.
THEOREM CreditsOnce == DepSpec => []CreditedOnce
<1>1. ASSUME DepInv PROVE CreditedOnce
  <2> SUFFICES ASSUME NEW o \in Outs, o \notin torn \cup met PROVE ~(credits[o] > 1)
    BY DEF CreditedOnce
  <2>1. credits[o] \in Nat
    BY <1>1 DEF DepInv, DepTypeOK
  <2>2. credits[o] <= 1
    BY <1>1, <2>1 DEF DepInv, Accounted
  <2> QED BY <2>1, <2>2
<1> QED BY <1>1, DepositsInvariant, PTL

\* A row says credited only if its money was paid or the script that marked it
\* still owes the payment or stopped before it.
THEOREM MarksArePaid == DepSpec => []MarkedIsPaid
<1>1. DepInv => MarkedIsPaid
  BY DEF DepInv
<1> QED BY <1>1, DepositsInvariant, PTL

\* What was paid for an output and what its row says agree, but for the gaps.
THEOREM CreditsAgree == DepSpec => []CreditsAreAccounted
BY CreditsOnce, MarksArePaid, PTL DEF CreditsAreAccounted

----------------------------------------------------------------------------
(* The gate. *)

Lately(n) == SumOf(recent, 0..n)

\* Every strike counted in the window is one of its age or younger.
StrikesAreRecent == strikes.age <= Window => strikes.count <= Lately(strikes.age)

GuardInv == GuardTypeOK /\ StrikesAreRecent /\ GateIsJust

VisitType == [at: {"none", "guard", "wait", "suspend", "add"},
              token: BOOLEAN, waited: BOOLEAN]

LEMMA MinIs ==
  ASSUME NEW a \in Int, NEW b \in Int
  PROVE  Min({a, b}) = IF a <= b THEN a ELSE b
<1>1. \E x \in {a, b} : \A y \in {a, b} : x <= y
  <2>1. CASE a <= b
    BY <2>1
  <2>2. CASE b <= a
    BY <2>2
  <2> QED BY <2>1, <2>2
<1>2. Min({a, b}) \in {a, b} /\ \A y \in {a, b} : Min({a, b}) <= y
  BY <1>1 DEF Min
<1> QED BY <1>2

LEMMA CountedStrikeIs ==
  ASSUME GuardTypeOK
  PROVE  LET s == CountedStrike(strikes) IN
         /\ s \in [age: GuardAges, count: 0..StrikeLimit]
         /\ strikes.age > Window => s.age = 0 /\ s.count = 1
         /\ strikes.age <= Window =>
              /\ s.age = strikes.age
              /\ s.count = IF strikes.count < StrikeLimit THEN strikes.count + 1
                           ELSE StrikeLimit
<1>0. /\ Window \in Nat /\ StrikeLimit \in Nat \ {0}
      /\ strikes \in [age: GuardAges, count: 0..StrikeLimit]
  BY GuardsAssumption DEF GuardTypeOK
<1>1. CASE strikes.age > Window
  BY <1>0, <1>1 DEF CountedStrike, GuardAges
<1>2. CASE strikes.age <= Window
  <2> DEFINE c == Min({strikes.count + 1, StrikeLimit})
  <2>1. c = IF strikes.count < StrikeLimit THEN strikes.count + 1 ELSE StrikeLimit
    BY <1>0, MinIs
  <2>2. c \in 0..StrikeLimit
    BY <1>0, <2>1
  <2> HIDE DEF c
  <2>3. CountedStrike(strikes) = [strikes EXCEPT !.count = c]
    BY <1>0, <1>2 DEF CountedStrike, GuardAges, c
  <2> DEFINE s == [strikes EXCEPT !.count = c]
  <2>4. /\ s \in [age: GuardAges, count: 0..StrikeLimit]
        /\ s.age = strikes.age /\ s.count = c
    BY <1>0, <2>2
  <2>5. ~(strikes.age > Window)
    BY <1>0, <1>2 DEF GuardAges
  <2> QED BY <2>1, <2>3, <2>4, <2>5
<1> QED BY <1>0, <1>1, <1>2 DEF GuardAges

LEMMA CountedVisitTyped ==
  ASSUME GuardTypeOK
  PROVE  CountedVisit(bucket) \in [age: GuardAges, count: 0..(MaxInWindow + 1)]
<1>0. /\ Window \in Nat /\ MaxInWindow \in Nat
      /\ bucket \in [age: GuardAges, count: 0..(MaxInWindow + 1)]
  BY GuardsAssumption DEF GuardTypeOK
<1> DEFINE c == Min({bucket.count + 1, MaxInWindow + 1})
<1>1. c \in 0..(MaxInWindow + 1)
  <2>1. c = IF bucket.count + 1 <= MaxInWindow + 1 THEN bucket.count + 1 ELSE MaxInWindow + 1
    BY <1>0, MinIs
  <2> QED BY <1>0, <2>1
<1> HIDE DEF c
<1>2. CountedVisit(bucket) = IF bucket.age > Window THEN [age |-> 0, count |-> 1]
                             ELSE [bucket EXCEPT !.count = c]
  BY DEF CountedVisit, c
<1> QED BY <1>0, <1>1, <1>2 DEF GuardAges

LEMMA LatelyIs ==
  ASSUME GuardTypeOK, NEW n \in 0..(Window + 1)
  PROVE  /\ Lately(n) \in Nat /\ recent[0] <= Lately(n)
         /\ \A m \in 0..n : Lately(m) <= Lately(n)
         /\ IsFiniteSet(0..n)
<1>0. Window \in Nat /\ n \in Nat /\ StrikeLimit \in Nat /\ recent \in [GuardAges -> 0..StrikeLimit]
  BY GuardsAssumption DEF GuardTypeOK
<1>1. IsFiniteSet(0..n)
  BY <1>0, FS_Interval
<1>2. \A a \in 0..n : recent[a] \in Nat /\ recent[a] \in Int /\ recent[a] >= 0
  BY <1>0 DEF GuardAges
<1>3. Lately(n) \in Nat
  BY <1>1, <1>2, SumType DEF Lately
<1>4. recent[0] <= Lately(n)
  <2>1. 0 \in 0..n
    BY <1>0
  <2> QED BY <1>1, <1>2, <2>1, SumMember DEF Lately
<1>5. ASSUME NEW m \in 0..n PROVE Lately(m) <= Lately(n)
  <2>1. 0..m \in SUBSET (0..n)
    BY <1>0
  <2> QED BY <1>1, <1>2, <2>1, SumSubset DEF Lately
<1> QED BY <1>1, <1>3, <1>4, <1>5

\* A new strike raises what was lately counted by one, up to the limit.
LEMMA StrikeSum ==
  ASSUME GuardTypeOK, recent' = [recent EXCEPT ![0] = Min({@ + 1, StrikeLimit})],
         NEW n \in 0..(Window + 1), NEW c \in 0..StrikeLimit, c <= Lately(n)
  PROVE  /\ recent' \in [GuardAges -> 0..StrikeLimit]
         /\ 1 <= SumOf(recent', 0..n)
         /\ (IF c < StrikeLimit THEN c + 1 ELSE StrikeLimit) <= SumOf(recent', 0..n)
<1>0. /\ Window \in Nat /\ n \in Nat /\ StrikeLimit \in Nat \ {0} /\ 0 \in GuardAges
      /\ recent \in [GuardAges -> 0..StrikeLimit] /\ Lately(n) \in Nat /\ IsFiniteSet(0..n)
  <2>1. Window \in Nat /\ StrikeLimit \in Nat \ {0}
    BY GuardsAssumption
  <2>2. n \in Nat /\ 0 \in GuardAges
    BY <2>1 DEF GuardAges
  <2>3. recent \in [GuardAges -> 0..StrikeLimit]
    BY DEF GuardTypeOK
  <2>4. Lately(n) \in Nat /\ IsFiniteSet(0..n)
    BY LatelyIs
  <2> QED BY <2>1, <2>2, <2>3, <2>4
<1> DEFINE x == recent[0]
           y == Min({x + 1, StrikeLimit})
           h == recent'
<1>1. y = IF x < StrikeLimit THEN x + 1 ELSE StrikeLimit
  BY <1>0, MinIs
<1>2. x \in 0..StrikeLimit /\ y \in 1..StrikeLimit
  BY <1>0, <1>1
<1> HIDE DEF y
<1>3. h = [recent EXCEPT ![0] = y]
  BY DEF y
<1>4. h \in [GuardAges -> 0..StrikeLimit] /\ h[0] = y
  BY <1>0, <1>2, <1>3
<1> HIDE DEF h
<1>5. /\ \A a \in 0..n : recent[a] \in Int /\ h[a] \in Int /\ h[a] \in Nat
      /\ \A a \in (0..n) \ {0} : h[a] = recent[a]
      /\ 0 \in 0..n
  <2>1. 0 \in 0..n /\ \A a \in 0..n : a \in GuardAges
    BY <1>0 DEF GuardAges
  <2>2. 0..StrikeLimit \subseteq Nat
    BY <1>0
  <2>3. \A a \in GuardAges : recent[a] \in 0..StrikeLimit /\ h[a] \in 0..StrikeLimit
    BY <1>0, <1>4
  <2>4. \A a \in GuardAges \ {0} : h[a] = recent[a]
    BY <1>0, <1>3
  <2> QED BY <2>1, <2>2, <2>3, <2>4
<1>6. SumOf(h, 0..n) = SumOf(recent, 0..n) + y - recent[0]
  <2>1. recent \in [GuardAges -> Int] /\ 0..n \in SUBSET GuardAges /\ 0 \in 0..n /\ y \in Int
    BY <1>0, <1>2 DEF GuardAges
  <2>2. IsFiniteSet(0..n) /\ h = [recent EXCEPT ![0] = y]
    BY <1>0, <1>3
  <2> QED BY <2>1, <2>2, SumReplace
<1>7. SumOf(h, 0..n) = Lately(n) + y - x
  BY <1>4, <1>6 DEF Lately
<1>8. y <= SumOf(h, 0..n)
  <2>1. h[0] <= SumOf(h, 0..n)
    BY <1>0, <1>5, SumMember
  <2> QED BY <1>4, <2>1
<1>9. CASE x < StrikeLimit
  BY <1>0, <1>1, <1>2, <1>4, <1>7, <1>8, <1>9 DEF h
<1>10. CASE ~(x < StrikeLimit)
  BY <1>0, <1>1, <1>2, <1>4, <1>7, <1>8, <1>10 DEF h
<1> QED BY <1>9, <1>10

\* An hour on, each strike is one unit older.
LEMMA AgesKeep ==
  ASSUME GuardInv, Ages
  PROVE  GuardInv'
<1>0. /\ Window \in Nat \ {0} /\ StrikeLimit \in Nat \ {0} /\ MaxInWindow \in Nat
      /\ strikes \in [age: GuardAges, count: 0..StrikeLimit]
      /\ bucket \in [age: GuardAges, count: 0..(MaxInWindow + 1)]
      /\ recent \in [GuardAges -> 0..StrikeLimit]
  BY GuardsAssumption DEF GuardInv, GuardTypeOK
<1>1. \A a \in GuardAges : /\ Min({a + 1, Window + 1}) = IF a <= Window THEN a + 1 ELSE Window + 1
                           /\ Min({a + 1, Window + 1}) \in GuardAges
  <2> SUFFICES ASSUME NEW a \in GuardAges
               PROVE  /\ Min({a + 1, Window + 1}) = IF a <= Window THEN a + 1 ELSE Window + 1
                      /\ Min({a + 1, Window + 1}) \in GuardAges
    OBVIOUS
  <2>1. Min({a + 1, Window + 1}) = IF a + 1 <= Window + 1 THEN a + 1 ELSE Window + 1
    <3>1. a + 1 \in Int /\ Window + 1 \in Int
      BY <1>0 DEF GuardAges
    <3> QED BY <3>1, MinIs
  <2> QED BY <1>0, <2>1 DEF GuardAges
<1> DEFINE bage == Min({bucket.age + 1, Window + 1})
           sage == Min({strikes.age + 1, Window + 1})
<1>2. bage \in GuardAges /\ sage \in GuardAges
      /\ sage = IF strikes.age <= Window THEN strikes.age + 1 ELSE Window + 1
  BY <1>0, <1>1
<1> HIDE DEF bage, sage
<1>3. bucket' = [bucket EXCEPT !.age = bage] /\ strikes' = [strikes EXCEPT !.age = sage]
  BY DEF Ages, bage, sage
<1>4. /\ bucket' \in [age: GuardAges, count: 0..(MaxInWindow + 1)]
      /\ strikes' \in [age: GuardAges, count: 0..StrikeLimit]
      /\ strikes'.age = sage /\ strikes'.count = strikes.count
  BY <1>0, <1>2, <1>3
<1>5. recent' = [a \in GuardAges |->
           IF a = 0 THEN 0 ELSE IF a > Window THEN 0 ELSE recent[a - 1]]
  BY DEF Ages
<1>6. recent' \in [GuardAges -> 0..StrikeLimit]
  <2>1. \A a \in GuardAges : a # 0 => a - 1 \in GuardAges
    BY <1>0 DEF GuardAges
  <2> QED BY <1>0, <1>5, <2>1
<1>7. cacheAge' \in 0..NeverLoaded
  BY DEF Ages, GuardInv, GuardTypeOK, NeverLoaded
<1>8. GuardTypeOK'
  BY <1>4, <1>6, <1>7 DEF Ages, GuardInv, GuardTypeOK
<1>9. StrikesAreRecent'
  <2> SUFFICES ASSUME strikes'.age <= Window
               PROVE  strikes'.count <= SumOf(recent', 0..strikes'.age)
    BY DEF StrikesAreRecent, Lately
  <2>1. PICK n \in Nat : n = strikes.age
    BY <1>0 DEF GuardAges
  <2>2. n <= Window /\ sage = n + 1 /\ n + 1 <= Window
    BY <1>0, <1>2, <1>4, <2>1 DEF GuardAges
  <2>3. strikes.count <= SumOf(recent, 0..n)
    BY <2>1, <2>2 DEF GuardInv, StrikesAreRecent, Lately
  <2> DEFINE h == recent'
  <2>4. h[0] = 0 /\ \A a \in 0..n : recent[a] \in Int /\ h[a + 1] = recent[a]
    <3>1. 0 \in GuardAges
      BY <1>0 DEF GuardAges
    <3>2. ASSUME NEW a \in 0..n PROVE recent[a] \in Int /\ h[a + 1] = recent[a]
      <4>1. a \in GuardAges /\ a + 1 \in GuardAges /\ a + 1 # 0 /\ a + 1 <= Window
            /\ (a + 1) - 1 = a
        BY <1>0, <2>2 DEF GuardAges
      <4> QED BY <1>0, <1>5, <4>1
    <3> QED BY <1>5, <3>1, <3>2
  <2> HIDE DEF h
  <2>5. SumOf(h, 0..(n + 1)) = SumOf(recent, 0..n)
    BY <2>4, SumShift
  <2> QED BY <1>4, <2>2, <2>3, <2>5 DEF h
<1> QED BY <1>8, <1>9 DEF Ages, GuardInv, GateIsJust, NobodySlips, SuspendedForCause

\* The strikes that suspend are recent ones.
LEMMA StrikesKeep ==
  ASSUME GuardInv, NEW v \in Visits, StrikesVisit(v)
  PROVE  GuardInv'
<1>0. /\ Window \in Nat \ {0} /\ StrikeLimit \in Nat \ {0}
      /\ strikes \in [age: GuardAges, count: 0..StrikeLimit] /\ GuardTypeOK
      /\ visit \in [Visits -> VisitType]
  BY GuardsAssumption DEF GuardInv, GuardTypeOK, VisitType
<1> DEFINE s == CountedStrike(strikes)
           lately == SumOf(recent, 0..Window) + 1
<1>1. /\ s \in [age: GuardAges, count: 0..StrikeLimit]
      /\ strikes.age > Window => s.age = 0 /\ s.count = 1
      /\ strikes.age <= Window =>
           /\ s.age = strikes.age
           /\ s.count = IF strikes.count < StrikeLimit THEN strikes.count + 1 ELSE StrikeLimit
  BY <1>0, CountedStrikeIs
<1>2. /\ strikes' = s
      /\ recent' = [recent EXCEPT ![0] = Min({@ + 1, StrikeLimit})]
      /\ bucket' = CountedVisit(bucket)
      /\ unjust' = (unjust \/ (s.count >= StrikeLimit /\ lately < StrikeLimit))
      /\ UNCHANGED <<isActive, suspended, cacheAge, slipped, switches, troubles>>
  BY DEF StrikesVisit, SumOf
<1> HIDE DEF s
<1>3. Lately(Window) \in Nat /\ lately = Lately(Window) + 1
  BY <1>0, LatelyIs DEF Lately
<1> HIDE DEF lately
<1>4. ~(s.count >= StrikeLimit /\ lately < StrikeLimit)
  <2>1. CASE strikes.age > Window
    BY <1>0, <1>1, <1>3, <2>1
  <2>2. CASE strikes.age <= Window
    <3>1. strikes.age \in 0..Window /\ Window \in 0..(Window + 1) /\ strikes.count \in Nat
      BY <1>0, <2>2 DEF GuardAges
    <3>2. Lately(strikes.age) <= Lately(Window) /\ Lately(strikes.age) \in Nat
      BY <1>0, <3>1, LatelyIs
    <3>3. strikes.count <= Lately(strikes.age)
      BY <2>2 DEF GuardInv, StrikesAreRecent
    <3> QED BY <1>0, <1>1, <1>3, <2>2, <3>1, <3>2, <3>3
  <2> QED BY <1>0, <2>1, <2>2 DEF GuardAges
<1>5. StrikesAreRecent' /\ recent' \in [GuardAges -> 0..StrikeLimit]
  <2>1. CASE strikes.age > Window
    <3>1. 0 \in 0..(Window + 1) /\ 0 \in 0..StrikeLimit /\ 0 <= Lately(0)
      <4>1. 0 \in 0..(Window + 1)
        BY <1>0
      <4>2. Lately(0) \in Nat
        BY <1>0, <4>1, LatelyIs
      <4> QED BY <1>0, <4>1, <4>2
    <3>2. recent' \in [GuardAges -> 0..StrikeLimit] /\ 1 <= SumOf(recent', 0..0)
      BY <1>0, <1>2, <3>1, StrikeSum
    <3> QED BY <1>1, <1>2, <2>1, <3>2 DEF StrikesAreRecent, Lately
  <2>2. CASE strikes.age <= Window
    <3>1. strikes.age \in 0..(Window + 1) /\ strikes.count \in 0..StrikeLimit
      BY <1>0, <2>2 DEF GuardAges
    <3>2. strikes.count <= Lately(strikes.age)
      BY <2>2 DEF GuardInv, StrikesAreRecent
    <3>3. /\ recent' \in [GuardAges -> 0..StrikeLimit]
          /\ (IF strikes.count < StrikeLimit THEN strikes.count + 1 ELSE StrikeLimit)
               <= SumOf(recent', 0..strikes.age)
      BY <1>0, <1>2, <3>1, <3>2, StrikeSum
    <3> QED BY <1>1, <1>2, <2>2, <3>3 DEF StrikesAreRecent, Lately
  <2> QED BY <1>0, <2>1, <2>2 DEF GuardAges
<1>6. bucket' \in [age: GuardAges, count: 0..(MaxInWindow + 1)]
  BY <1>0, <1>2, CountedVisitTyped
<1>7. /\ visit' \in [Visits -> VisitType]
      /\ (\E w \in Visits : visit'[w].at = "wait") => refreshing' # "none"
      /\ refreshing' \in {"none", "find", "active", "suspended"}
  <2>1. PICK at \in {"none", "suspend"}, r \in VisitType :
          r.at = at /\ visit' = [visit EXCEPT ![v] = r]
    <3>1. [visit[v] EXCEPT !.at = "suspend"] \in VisitType /\ NoVisit \in VisitType
      BY <1>0 DEF VisitType, NoVisit
    <3>2. [visit[v] EXCEPT !.at = "suspend"].at = "suspend" /\ NoVisit.at = "none"
      BY <1>0 DEF VisitType, NoVisit
    <3> QED BY <3>1, <3>2 DEF StrikesVisit, s
  <2>2. /\ refreshing' \in {refreshing, "find"}
        /\ refreshing # "none" => refreshing' # "none"
    BY DEF StrikesVisit, Refreshed
  <2> QED BY <1>0, <2>1, <2>2 DEF GuardTypeOK
<1>8. GuardTypeOK'
  BY <1>0, <1>1, <1>2, <1>5, <1>6, <1>7 DEF GuardTypeOK, VisitType
<1> QED BY <1>2, <1>4, <1>5, <1>8 DEF GuardInv, GateIsJust, NobodySlips, SuspendedForCause

\* The load, and the requests that wait for it.
LEMMA LoadKeeps ==
  ASSUME GuardInv, FindSuspended \/ KeepSuspended \/ LoadFails
  PROVE  GuardInv'
<1>0. visit \in [Visits -> VisitType] /\ GuardTypeOK
  BY DEF GuardInv, GuardTypeOK, VisitType
<1>1. CASE FindSuspended
  <2>1. GuardTypeOK'
    BY <1>0, <1>1 DEF FindSuspended, GuardTypeOK
  <2> QED BY <1>1, <2>1 DEF FindSuspended, GuardInv, StrikesAreRecent, Lately, GateIsJust,
                            NobodySlips, SuspendedForCause
<1>2. CASE KeepSuspended \/ LoadFails
  <2>1. visit' = [v \in Visits |-> GoOn(v)]
    BY <1>2 DEF KeepSuspended, LoadFails
  <2>2. \A v \in Visits : GoOn(v) \in VisitType /\ GoOn(v).at # "wait"
    BY <1>0 DEF GoOn, VisitType
  <2>3. visit' \in [Visits -> VisitType] /\ ~\E v \in Visits : visit'[v].at = "wait"
    BY <2>1, <2>2
  <2>4. /\ suspended' \in BOOLEAN /\ cacheAge' \in 0..NeverLoaded /\ refreshing' = "none"
        /\ troubles' \in 0..MaxTroubles
    <3>1. MaxTroubles \in Nat
      BY GuardsAssumption
    <3>2. CASE KeepSuspended
      BY <1>0, <3>2 DEF KeepSuspended, GuardTypeOK, Replaced, NeverLoaded
    <3>3. CASE LoadFails
      BY <1>0, <3>1, <3>3 DEF LoadFails, GuardTypeOK
    <3> QED BY <1>2, <3>2, <3>3
  <2>5. UNCHANGED <<isActive, bucket, strikes, recent, unjust, slipped, switches>>
    BY <1>2 DEF KeepSuspended, LoadFails
  <2>6. GuardTypeOK'
    BY <1>0, <2>3, <2>4, <2>5 DEF GuardTypeOK, VisitType
  <2> QED BY <2>5, <2>6 DEF GuardInv, StrikesAreRecent, Lately, GateIsJust,
                            NobodySlips, SuspendedForCause
<1> QED BY <1>1, <1>2

\* A request that is let through waited for the first load, or came after it.
LEMMA VisitKeeps ==
  ASSUME GuardInv, NEW v \in Visits,
         \/ WaitsForLoad(v) \/ RefusesVisit(v) \/ PassesVisit(v)
         \/ SuspendsUser(v) \/ AddsToCopy(v) \/ \E token \in BOOLEAN : Arrives(v, token)
  PROVE  GuardInv'
<1>0. visit \in [Visits -> VisitType] /\ GuardTypeOK /\ NoVisit \in VisitType
  BY DEF GuardInv, GuardTypeOK, VisitType, NoVisit
<1>1. UNCHANGED <<strikes, recent, unjust, switches, troubles>>
  BY DEF WaitsForLoad, RefusesVisit, PassesVisit, SuspendsUser, AddsToCopy, Arrives
<1>2. slipped' = slipped
  BY <1>0 DEF WaitsForLoad, RefusesVisit, PassesVisit, SuspendsUser, AddsToCopy, Arrives,
              MustWait, GuardTypeOK
<1>3. isActive' \in BOOLEAN /\ suspended' \in BOOLEAN /\ cacheAge' \in 0..NeverLoaded
  BY <1>0 DEF WaitsForLoad, RefusesVisit, PassesVisit, SuspendsUser, AddsToCopy, Arrives,
              GuardTypeOK
<1>4. bucket' \in [age: GuardAges, count: 0..(MaxInWindow + 1)]
  <2>1. bucket' \in {bucket, CountedVisit(bucket)}
    BY DEF WaitsForLoad, RefusesVisit, PassesVisit, SuspendsUser, AddsToCopy, Arrives
  <2> QED BY <1>0, <2>1, CountedVisitTyped DEF GuardTypeOK
<1>5. /\ refreshing' \in {refreshing, "find"}
      /\ refreshing # "none" => refreshing' # "none"
      /\ WaitsForLoad(v) => refreshing' # "none"
  BY DEF WaitsForLoad, RefusesVisit, PassesVisit, SuspendsUser, AddsToCopy, Arrives, Refreshed
<1>6. \E r \in VisitType : /\ visit' = [visit EXCEPT ![v] = r]
                           /\ r.at = "wait" => WaitsForLoad(v)
  <2>1. CASE WaitsForLoad(v)
    <3>1. [visit[v] EXCEPT !.at = "wait"] \in VisitType
      BY <1>0 DEF VisitType
    <3> QED BY <2>1, <3>1 DEF WaitsForLoad
  <2>2. CASE RefusesVisit(v) \/ PassesVisit(v) \/ AddsToCopy(v)
    <3>1. visit' = [visit EXCEPT ![v] = NoVisit]
      BY <2>2 DEF RefusesVisit, PassesVisit, AddsToCopy
    <3> QED BY <1>0, <3>1 DEF NoVisit
  <2>3. CASE SuspendsUser(v)
    <3>1. /\ [visit[v] EXCEPT !.at = "add"] \in VisitType
          /\ [visit[v] EXCEPT !.at = "add"].at = "add" /\ NoVisit.at = "none"
      BY <1>0 DEF VisitType, NoVisit
    <3> QED BY <1>0, <2>3, <3>1 DEF SuspendsUser
  <2>4. ASSUME NEW token \in BOOLEAN, Arrives(v, token)
        PROVE  \E r \in VisitType : visit' = [visit EXCEPT ![v] = r] /\ r.at # "wait"
    <3>1. [at |-> "guard", token |-> token, waited |-> FALSE] \in VisitType
      BY DEF VisitType
    <3> QED BY <2>4, <3>1 DEF Arrives
  <2> QED BY <2>1, <2>2, <2>3, <2>4
<1>7. PICK r \in VisitType : visit' = [visit EXCEPT ![v] = r] /\ (r.at = "wait" => WaitsForLoad(v))
  BY <1>6
<1>8. /\ visit' \in [Visits -> VisitType]
      /\ (\E w \in Visits : visit'[w].at = "wait") => refreshing' # "none"
  BY <1>0, <1>5, <1>7 DEF GuardTypeOK
<1>9. GuardTypeOK'
  BY <1>0, <1>1, <1>2, <1>3, <1>4, <1>5, <1>8 DEF GuardTypeOK, VisitType
<1> QED BY <1>1, <1>2, <1>9 DEF GuardInv, StrikesAreRecent, Lately, GateIsJust, NobodySlips,
                                SuspendedForCause

\* A restart forgets the window, but not that the strikes were made.
LEMMA RestartKeeps ==
  ASSUME GuardInv, SwitchesUser \/ GateRestarts
  PROVE  GuardInv'
<1>0. /\ Window \in Nat \ {0} /\ StrikeLimit \in Nat \ {0} /\ MaxInWindow \in Nat
      /\ MaxSwitches \in Nat /\ MaxTroubles \in Nat /\ GuardTypeOK
  BY GuardsAssumption DEF GuardInv
<1>1. CASE SwitchesUser
  <2>1. GuardTypeOK'
    BY <1>0, <1>1 DEF SwitchesUser, GuardTypeOK
  <2> QED BY <1>1, <2>1 DEF SwitchesUser, GuardInv, StrikesAreRecent, Lately, GateIsJust,
                            NobodySlips, SuspendedForCause
<1>2. CASE GateRestarts
  <2>1. /\ EmptyWindow \in [age: GuardAges, count: 0..(MaxInWindow + 1)]
        /\ EmptyWindow \in [age: GuardAges, count: 0..StrikeLimit]
        /\ ~(EmptyWindow.age <= Window) /\ NoVisit \in VisitType /\ NoVisit.at = "none"
    BY <1>0 DEF EmptyWindow, GuardAges, VisitType, NoVisit
  <2>2. GuardTypeOK'
    <3>1. /\ bucket' = EmptyWindow /\ strikes' = EmptyWindow
          /\ visit' = [w \in Visits |-> NoVisit]
          /\ troubles' \in 0..MaxTroubles /\ cacheAge' \in 0..NeverLoaded
      BY <1>0, <1>2 DEF GateRestarts, GuardTypeOK, NeverLoaded
    <3>2. /\ bucket' \in [age: GuardAges, count: 0..(MaxInWindow + 1)]
          /\ strikes' \in [age: GuardAges, count: 0..StrikeLimit]
          /\ visit' \in [Visits -> VisitType] /\ \A w \in Visits : visit'[w].at # "wait"
      BY <2>1, <3>1
    <3> QED BY <1>0, <1>2, <3>1, <3>2 DEF GateRestarts, GuardTypeOK, VisitType
  <2> QED BY <1>2, <2>1, <2>2 DEF GateRestarts, GuardInv, StrikesAreRecent, GateIsJust,
                                  NobodySlips, SuspendedForCause
<1> QED BY <1>1, <1>2

LEMMA GuardInitInv == GuardInit => GuardInv
<1> SUFFICES ASSUME GuardInit PROVE GuardInv
  OBVIOUS
<1>0. /\ Window \in Nat \ {0} /\ StrikeLimit \in Nat \ {0} /\ MaxInWindow \in Nat
      /\ MaxSwitches \in Nat /\ MaxTroubles \in Nat
  BY GuardsAssumption
<1>1. /\ EmptyWindow \in [age: GuardAges, count: 0..(MaxInWindow + 1)]
      /\ EmptyWindow \in [age: GuardAges, count: 0..StrikeLimit]
      /\ ~(EmptyWindow.age <= Window) /\ NoVisit \in VisitType /\ NoVisit.at = "none"
  BY <1>0 DEF EmptyWindow, GuardAges, VisitType, NoVisit
<1>2. GuardTypeOK
  <2>1. /\ bucket \in [age: GuardAges, count: 0..(MaxInWindow + 1)]
        /\ strikes \in [age: GuardAges, count: 0..StrikeLimit]
        /\ visit \in [Visits -> VisitType] /\ \A v \in Visits : visit[v].at # "wait"
    BY <1>1 DEF GuardInit
  <2>2. cacheAge \in 0..NeverLoaded /\ recent \in [GuardAges -> 0..StrikeLimit]
    BY <1>0 DEF GuardInit, NeverLoaded
  <2>3. /\ isActive \in BOOLEAN /\ suspended \in BOOLEAN /\ unjust \in BOOLEAN
        /\ slipped \in BOOLEAN /\ refreshing \in {"none", "find", "active", "suspended"}
    BY DEF GuardInit
  <2>4. switches \in 0..MaxSwitches /\ troubles \in 0..MaxTroubles
    BY <1>0 DEF GuardInit
  <2> QED BY <2>1, <2>2, <2>3, <2>4 DEF GuardTypeOK, VisitType
<1> QED BY <1>1, <1>2 DEF GuardInit, GuardInv, StrikesAreRecent, GateIsJust, NobodySlips,
                          SuspendedForCause

LEMMA GuardStepKeeps ==
  ASSUME GuardInv, [GuardNext]_guardVars
  PROVE  GuardInv'
<1>1. CASE UNCHANGED guardVars
  <2>1. GuardTypeOK'
    BY <1>1 DEF guardVars, GuardInv, GuardTypeOK
  <2> QED BY <1>1, <2>1 DEF guardVars, GuardInv, StrikesAreRecent, Lately, GateIsJust,
                            NobodySlips, SuspendedForCause
<1>2. CASE GuardNext
  BY <1>2, AgesKeep, StrikesKeep, LoadKeeps, VisitKeeps, RestartKeeps DEF GuardNext, VisitStep
<1> QED BY <1>1, <1>2

\* A suspension follows enough strikes within the window, whatever restarts and
\* windows came before, and no request passes before the first load was waited
\* for (abuseGuard.js).
THEOREM GateInvariant == GuardSpec => []GuardInv
<1> QED BY GuardInitInv, GuardStepKeeps, PTL DEF GuardSpec

\* Nobody slips through the gate and nobody is suspended without cause.
THEOREM GateStaysJust == GuardSpec => []GateIsJust
<1>1. GuardInv => GateIsJust
  BY DEF GuardInv
<1> QED BY <1>1, GateInvariant, PTL

----------------------------------------------------------------------------
(* The instance of both. *)

\* A step of either leaves the other at rest, so both invariants are kept.
THEOREM WatchersInvariant == WatchSpec => [](DepInv /\ GuardInv)
<1>1. WatchInit => DepInv /\ GuardInv
  BY DepInitInv, GuardInitInv DEF WatchInit
<1>2. DepInv /\ GuardInv /\ [WatchNext]_watchVars => (DepInv /\ GuardInv)'
  <2>1. [WatchNext]_watchVars => [DepNext]_depVars /\ [GuardNext]_guardVars
    BY DEF WatchNext, watchVars, Deposing, Guarding
  <2> QED BY <2>1, DepStepKeeps, GuardStepKeeps
<1> QED BY <1>1, <1>2, PTL DEF WatchSpec

\* The variables of the part that runs keep their types.
THEOREM WatchersTypes == WatchSpec => []WatchTypeOK
<1>1. DepInv /\ GuardInv => WatchTypeOK
  BY DEF DepInv, GuardInv, WatchTypeOK
<1> QED BY <1>1, WatchersInvariant, PTL
=============================================================================
