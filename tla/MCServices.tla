----------------------------- MODULE MCServices -----------------------------
(* The instance of the smaller services that TLC checks.  They share no state *)
(* here: a behaviour is one of a single service, with the others as they      *)
(* start.                                                                     *)
EXTENDS Repairs, Rewards, Addresses, Reminders, LocalTime, Limits, Review, Tokens,
        DailyClaims, News, Mail, TLC

VARIABLE part

Parts == {"repairs", "rewards", "addresses", "reminders", "time", "limits", "review",
          "tokens", "claims", "news", "mail"}

\* Rewards: what the app does in a behaviour.
SomeUses == {{"game"}, {"privilege", "buy"}, {"super"}, {"add", "claim"}, {"game", "daily"},
             {"loss", "get"}}

\* Addresses: what a request asks for.
SomeTodos == {<<"BNB">>, <<"BTC", "BNB">>}

\* LocalTime: zones whose clocks stay, or move by an hour before, during, soon
\* after or long after the session's day.
SomeZones == {z \in [ahead: {-12, -3, 0, 5, 14}, at: {40, 47, 60, 200}, later: -13..15] :
                  z.later - z.ahead \in -1..1 /\ z.later \in -12..14}

\* Limits: a pair in order and one that is not.
SomePairs == {<<13, 14>>, <<15, 11>>}
Defaults  == <<6, 11>>

\* DailyClaims: two rewards of one day.
TwoOfADay == {"first", "second"}
OneDay    == [i \in TwoOfADay |-> 1]

servVars == <<repVars, rewardVars, addrVars, remVars, ltVars, limVars, revVars, tokVars,
              dailyVars, newsVars, mailVars, part>>

\* The parts that do not run have one initial state each.
RewardsFirst == screens = CHOOSE use \in Uses : TRUE
AddrFirst    == evmKey = "xpub" /\ btcKey = 0
RemFirst     == topic = CHOOSE t \in Topics : TRUE
TimeFirst    == /\ start = 24 /\ zone = CHOOSE z \in ClockZones : TRUE
                /\ clock = CHOOSE c \in [said: Said, sent: Offsets, stored: Offsets] : TRUE
LimitsFirst  == market = 8
ReviewFirst  == support = 0 /\ balance = 0 /\ power = 0
MailFirst    == configured = {}

ServInit ==
    /\ part \in Parts
    /\ RepInit /\ TokInit /\ DailyInit /\ NewsInit
    /\ RewardsInit /\ (part = "rewards"   \/ RewardsFirst)
    /\ AddrInit    /\ (part = "addresses" \/ AddrFirst)
    /\ RemInit     /\ (part = "reminders" \/ RemFirst)
    /\ LtInit      /\ (part = "time"      \/ TimeFirst)
    /\ LimInit     /\ (part = "limits"    \/ LimitsFirst)
    /\ RevInit     /\ (part = "review"    \/ ReviewFirst)
    /\ MailInit    /\ (part = "mail"      \/ MailFirst)

ServNext ==
    /\ UNCHANGED part
    /\ \/ /\ part = "repairs" /\ RepNext
          /\ UNCHANGED <<rewardVars, addrVars, remVars, ltVars, limVars, revVars,
                         tokVars, dailyVars, newsVars, mailVars>>
       \/ /\ part = "rewards" /\ RewardsNext
          /\ UNCHANGED <<repVars, addrVars, remVars, ltVars, limVars, revVars,
                         tokVars, dailyVars, newsVars, mailVars>>
       \/ /\ part = "addresses" /\ AddrNext
          /\ UNCHANGED <<repVars, rewardVars, remVars, ltVars, limVars, revVars,
                         tokVars, dailyVars, newsVars, mailVars>>
       \/ /\ part = "reminders" /\ RemNext
          /\ UNCHANGED <<repVars, rewardVars, addrVars, ltVars, limVars, revVars,
                         tokVars, dailyVars, newsVars, mailVars>>
       \/ /\ part = "time" /\ LtNext
          /\ UNCHANGED <<repVars, rewardVars, addrVars, remVars, limVars, revVars,
                         tokVars, dailyVars, newsVars, mailVars>>
       \/ /\ part = "limits" /\ LimNext
          /\ UNCHANGED <<repVars, rewardVars, addrVars, remVars, ltVars, revVars,
                         tokVars, dailyVars, newsVars, mailVars>>
       \/ /\ part = "review" /\ RevNext
          /\ UNCHANGED <<repVars, rewardVars, addrVars, remVars, ltVars, limVars,
                         tokVars, dailyVars, newsVars, mailVars>>
       \/ /\ part = "tokens" /\ TokNext
          /\ UNCHANGED <<repVars, rewardVars, addrVars, remVars, ltVars, limVars,
                         revVars, dailyVars, newsVars, mailVars>>
       \/ /\ part = "claims" /\ DailyNext
          /\ UNCHANGED <<repVars, rewardVars, addrVars, remVars, ltVars, limVars,
                         revVars, tokVars, newsVars, mailVars>>
       \/ /\ part = "news" /\ NewsNext
          /\ UNCHANGED <<repVars, rewardVars, addrVars, remVars, ltVars, limVars,
                         revVars, tokVars, dailyVars, mailVars>>
       \/ /\ part = "mail" /\ MailNext
          /\ UNCHANGED <<repVars, rewardVars, addrVars, remVars, ltVars, limVars,
                         revVars, tokVars, dailyVars, newsVars>>

ServSpec == ServInit /\ [][ServNext]_servVars

\* The types of the part that runs; the others stay as they start.
ServTypeOK ==
    /\ part = "repairs"   => RepTypeOK
    /\ part = "rewards"   => RewardsTypeOK
    /\ part = "addresses" => AddrTypeOK
    /\ part = "reminders" => RemTypeOK
    /\ part = "time"      => LtTypeOK
    /\ part = "limits"    => LimitsTypeOK
    /\ part = "review"    => RevTypeOK
    /\ part = "tokens"    => TokTypeOK
    /\ part = "claims"    => DailyTypeOK
    /\ part = "news"      => NewsTypeOK
    /\ part = "mail"      => MailTypeOK
=============================================================================
