----------------------------- MODULE MCWatchers -----------------------------
(* The instance of Deposits and Guards that TLC checks.  The two share no     *)
(* state: a behaviour is one of either, with the other at rest.  Deposits has *)
(* three outputs, the first two of one transaction to two addresses, which    *)
(* the node or the server knows.                                              *)
EXTENDS Deposits, Guards

VARIABLE part

TwoTxs   == [o \in Outs |-> IF o = 3 THEN "t2" ELSE "t1"]
TwoAddrs == [o \in Outs |-> IF o = 1 THEN "a1" ELSE "a2"]
TxIds    == {"t1", "t2"}
SoundIds == {"a2"}
AddrIds  == {"a1", "a2"}

watchVars == <<depVars, guardVars, part>>

Deposing == part = "deposits" /\ UNCHANGED <<guardVars, part>>
Guarding == part = "guards" /\ UNCHANGED <<depVars, part>>

WatchInit ==
    /\ part \in {"deposits", "guards"}
    /\ DepInit /\ GuardInit
    /\ part = "deposits" => isActive
    /\ \A a \in Addrs : IF part = "guards" THEN rec[a].imported /\ rec[a].owned
                         ELSE rec[a].imported \/ rec[a].owned

WatchNext ==
    \/ Deposing /\ DepNext
    \/ Guarding /\ GuardNext

Handles == (Deposing /\ HandleBlock) \/ (Guarding /\ LoadGoesOn)
Passes  == (Deposing /\ NewBlock) \/ (Guarding /\ Ages)

\* The fairness of DepSpec and of GuardSpec.  As part never changes, a condition
\* on one action of each is one on the action of the part that runs.
WatchSpec ==
    /\ WatchInit /\ [][WatchNext]_watchVars
    /\ WF_watchVars(Handles) /\ WF_watchVars(Passes)
    /\ \A v \in Visits : WF_watchVars(Guarding /\ VisitGoesOn(v))

\* The types of the part that runs; the other stays as it starts.
WatchTypeOK == IF part = "deposits" THEN DepTypeOK ELSE GuardTypeOK

\* Both catch up: the balance with the node (updateConfirmationsForPending), the
\* gate with the status of a user (abuseGuard.js).
WatchersCatchUp == EventuallyCredited /\ CopyCatchesUp
=============================================================================
