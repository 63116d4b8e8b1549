------------------------------- MODULE Limits -------------------------------
(***************************************************************************)
(* The limits of a withdrawal: the pair the dashboard sets, the price of   *)
(* bitcoin and its cache, the minimum the payer accepts, and a user who    *)
(* asks for the amount shown (src/helpers/withdrawalLimits.js,             *)
(* src/helpers/btcPrice.js).                                               *)
(*                                                                         *)
(* Amounts and prices are whole numbers: an amount times a price is its    *)
(* worth, and the payer takes a worth of MinWorth.                         *)
(***************************************************************************)
EXTENDS Integers, FiniteSets, FiniteSetsExt

CONSTANTS
    Admins,       \* saves at work at a time
    Users,        \* requests at work at a time
    Pairs,        \* what admins enter: <<minimum, maximum>>
    Prices,       \* what the market may be
    MinWorth,     \* SPEED_MIN_USDT
    Default,      \* DEFAULT_MIN and DEFAULT_MAX
    MaxUpsets     \* bound: saves, finds, writes and sources that fail, moves of the price

ASSUME LimitsAssumption ==
    /\ Pairs \subseteq Nat \X Nat /\ Prices \subseteq Nat \ {0}
    /\ Default \in Nat \X Nat /\ Default[1] <= Default[2]
    /\ MinWorth \in Nat \ {0} /\ MaxUpsets \in Nat

VARIABLES
    limit,      \* AppSettings: withdrawalMinBtc and withdrawalMaxBtc
    saving,     \* saves at work
    mixed,      \* history: is the pair what two saves, or half a save, left
    saved,      \* history: was there a save
    market,     \* the price
    cached,     \* the price kept, 0 for none, and whether it is fresh
    fetch,      \* the fetch at work: "none", "gecko", "binance"
    user,       \* requests at work
    upsets

priceVars == <<market, cached, fetch>>
limVars   == <<limit, saving, mixed, saved, priceVars, user, upsets>>

Unread  == -1
NoSave  == [min |-> 0, max |-> 0, todo |-> {}]
NoUser  == [at |-> "none", min |-> Unread, max |-> Unread, price |-> 0,
            asked |-> Unread, shownAt |-> 0, paidAt |-> 0]

\* The types; whoever waits for a price waits for a fetch that is at work.
LimitsTypeOK ==
    /\ limit \in [min: Nat, max: Nat]
    /\ saving \in [Admins -> [min: Nat, max: Nat, todo: SUBSET {"min", "max"}]]
    /\ mixed \in BOOLEAN /\ saved \in BOOLEAN
    /\ market \in Prices
    /\ cached \in [price: Prices \cup {0}, fresh: BOOLEAN]
    /\ fetch \in {"none", "gecko", "binance"}
    /\ user \in [Users -> [at: {"none", "read", "price", "wait", "checks", "shown",
                                "paying", "below", "above", "paid", "refused"},
                           min: Nat \cup {Unread}, max: Nat \cup {Unread},
                           price: Prices \cup {0}, asked: Nat \cup {Unread},
                           shownAt: Prices \cup {0}, paidAt: Prices \cup {0}]]
    /\ upsets \in 0..MaxUpsets
    /\ (\E u \in Users : user[u].at = "wait") => fetch # "none"

\* Nothing has been set yet: the defaults.
LimInit ==
    /\ limit = [min |-> Default[1], max |-> Default[2]]
    /\ saving = [a \in Admins |-> NoSave]
    /\ mixed = FALSE /\ saved = FALSE
    /\ market \in Prices
    /\ cached = [price |-> 0, fresh |-> FALSE] /\ fetch = "none"
    /\ user = [u \in Users |-> NoUser]
    /\ upsets = 0

----------------------------------------------------------------------------
(* setWithdrawalLimits *)

Writing(a) == saving[a].todo # {}

\* Mutation of ValidPair: the order is not checked.
ValidPairAny(p) == TRUE

ValidPair(p) == p[1] <= p[2]

StartSave(a, p) ==
    /\ ~Writing(a) /\ ValidPair(p)
    /\ upsets < MaxUpsets /\ upsets' = upsets + 1
    /\ saved' = TRUE
    /\ saving' = [saving EXCEPT
           ![a] = [min |-> p[1], max |-> p[2], todo |-> {"min", "max"}]]
    /\ mixed' = \E b \in Admins : Writing(b)
    /\ UNCHANGED <<limit, priceVars, user>>

\* Two upserts, in either order.
WriteLimit(a, key) ==
    /\ key \in saving[a].todo
    /\ limit' = [limit EXCEPT ![key] = saving[a][key]]
    /\ saving' = [saving EXCEPT ![a].todo = saving[a].todo \ {key}]
    /\ UNCHANGED <<mixed, saved, priceVars, user, upsets>>

\* One of the two fails; the other may still come.
WriteFails(a, key) ==
    /\ key \in saving[a].todo
    /\ upsets < MaxUpsets /\ upsets' = upsets + 1
    /\ saving' = [saving EXCEPT ![a].todo = saving[a].todo \ {key}]
    /\ mixed' = TRUE
    /\ UNCHANGED <<limit, saved, priceVars, user>>

----------------------------------------------------------------------------
(* getEffectiveWithdrawalLimits, first for the app to show, then to check *)

Ceil(n, d) == (n + d - 1) \div d

\* speedMinimumBtc: MinWorth and a tenth on top, 0 without a price.
SpeedMinimum(p) == IF p = 0 THEN 0 ELSE Ceil(11 * MinWorth, 10 * p)

\* Mutation of EffectiveMin: the dashboard's minimum.
EffectiveMinPlain(u) == user[u].min

EffectiveMin(u) == Max({user[u].min, SpeedMinimum(user[u].price)})

AsksForLimits(u) ==
    /\ user[u].at = "none"
    /\ user' = [user EXCEPT ![u].at = "read"]
    /\ UNCHANGED <<limit, saving, mixed, saved, priceVars, upsets>>

\* The two finds, in either order.
ReadsLimit(u, key) ==
    /\ user[u].at = "read" /\ user[u][key] = Unread
    /\ LET found == [user[u] EXCEPT ![key] = limit[key]] IN
       user' = [user EXCEPT ![u] = IF found.min = Unread \/ found.max = Unread THEN found
                                   ELSE [found EXCEPT !.at = "price"]]
    /\ UNCHANGED <<limit, saving, mixed, saved, priceVars, upsets>>

\* A find fails: the defaults, both of them.
ReadFails(u) ==
    /\ user[u].at = "read"
    /\ upsets < MaxUpsets /\ upsets' = upsets + 1
    /\ user' = [user EXCEPT ![u].min = Default[1], ![u].max = Default[2], ![u].at = "price"]
    /\ UNCHANGED <<limit, saving, mixed, saved, priceVars>>

\* getBtcUsdPriceCached: the fresh price, the fetch at work, or a new one.
AsksForPrice(u) ==
    /\ user[u].at = "price"
    /\ IF cached.price # 0 /\ cached.fresh
       THEN /\ user' = [user EXCEPT ![u].at = "checks", ![u].price = cached.price]
            /\ UNCHANGED fetch
       ELSE /\ user' = [user EXCEPT ![u].at = "wait"]
            /\ fetch' = IF fetch = "none" THEN "gecko" ELSE fetch
    /\ UNCHANGED <<limit, saving, mixed, saved, market, cached, upsets>>

\* Mutation of Answered: only one of those who wait.
AnsweredOne(p) ==
    LET one == CHOOSE u \in Users : user[u].at = "wait" IN
    [user EXCEPT ![one].at = "checks", ![one].price = p]

\* The promise is shared: all who wait are answered.
Answered(p) ==
    [u \in Users |-> IF user[u].at = "wait"
                     THEN [user[u] EXCEPT !.at = "checks", !.price = p] ELSE user[u]]

SourceAnswers ==
    /\ fetch # "none"
    /\ cached' = [price |-> market, fresh |-> TRUE]
    /\ fetch' = "none"
    /\ user' = Answered(market)
    /\ UNCHANGED <<limit, saving, mixed, saved, market, upsets>>

FirstSourceFails ==
    /\ fetch = "gecko"
    /\ upsets < MaxUpsets /\ upsets' = upsets + 1
    /\ fetch' = "binance"
    /\ UNCHANGED <<limit, saving, mixed, saved, market, cached, user>>

\* Both failed: the old price, however old, or 0.
SecondSourceFails ==
    /\ fetch = "binance"
    /\ upsets < MaxUpsets /\ upsets' = upsets + 1
    /\ fetch' = "none"
    /\ user' = Answered(cached.price)
    /\ UNCHANGED <<limit, saving, mixed, saved, market, cached>>

----------------------------------------------------------------------------
(* The user asks for the minimum that was shown. *)

\* Mutation of ShowsLimits: the dashboard's minimum is shown.
ShowsDashboardMin(u) ==
    /\ user[u].at = "checks" /\ user[u].asked = Unread
    /\ user' = [user EXCEPT ![u].at = "shown", ![u].asked = user[u].min,
                            ![u].shownAt = user[u].price,
                            ![u].min = Unread, ![u].max = Unread]
    /\ UNCHANGED <<limit, saving, mixed, saved, priceVars, upsets>>

ShowsLimits(u) ==
    /\ user[u].at = "checks" /\ user[u].asked = Unread
    /\ user' = [user EXCEPT ![u].at = "shown", ![u].asked = EffectiveMin(u),
                            ![u].shownAt = user[u].price,
                            ![u].min = Unread, ![u].max = Unread]
    /\ UNCHANGED <<limit, saving, mixed, saved, priceVars, upsets>>

Submits(u) ==
    /\ user[u].at = "shown"
    /\ user' = [user EXCEPT ![u].at = "read", ![u].price = 0]
    /\ UNCHANGED <<limit, saving, mixed, saved, priceVars, upsets>>

Verdict(u) == IF user[u].asked < EffectiveMin(u) THEN "below"
              ELSE IF user[u].asked > user[u].max THEN "above" ELSE "paying"

ChecksAmount(u) ==
    /\ user[u].at = "checks" /\ user[u].asked # Unread
    /\ user' = [user EXCEPT ![u].at = Verdict(u), ![u].min = Unread, ![u].max = Unread]
    /\ UNCHANGED <<limit, saving, mixed, saved, priceVars, upsets>>

\* The payer takes it, if it is worth enough by now.
PayerDecides(u) ==
    /\ user[u].at = "paying"
    /\ user' = [user EXCEPT
           ![u] = IF user[u].asked * market >= MinWorth THEN [NoUser EXCEPT !.at = "paid"]
                  ELSE [user[u] EXCEPT !.at = "refused", !.paidAt = market]]
    /\ UNCHANGED <<limit, saving, mixed, saved, priceVars, upsets>>

----------------------------------------------------------------------------
PriceMoves(p) ==
    /\ p # market
    /\ upsets < MaxUpsets /\ upsets' = upsets + 1
    /\ market' = p
    /\ UNCHANGED <<limit, saving, mixed, saved, cached, fetch, user>>

\* The cache's time to live is over.
CacheExpires ==
    /\ cached.fresh
    /\ cached' = [cached EXCEPT !.fresh = FALSE]
    /\ UNCHANGED <<limit, saving, mixed, saved, market, fetch, user, upsets>>

LimNext ==
    \/ \E a \in Admins :
           \/ \E p \in Pairs : StartSave(a, p)
           \/ \E key \in {"min", "max"} : WriteLimit(a, key) \/ WriteFails(a, key)
    \/ \E u \in Users :
           \/ AsksForLimits(u) \/ AsksForPrice(u) \/ ShowsLimits(u) \/ Submits(u)
           \/ ChecksAmount(u) \/ PayerDecides(u) \/ ReadFails(u)
           \/ \E key \in {"min", "max"} : ReadsLimit(u, key)
    \/ SourceAnswers \/ FirstSourceFails \/ SecondSourceFails
    \/ CacheExpires \/ \E p \in Prices : PriceMoves(p)

LimSpec == LimInit /\ [][LimNext]_limVars

----------------------------------------------------------------------------
(* Properties *)

\* What is saved is in order, unless the last save crossed another or failed in
\* part (setWithdrawalLimits checks the pair and writes its halves apart).
LimitsInOrder ==
    (\A a \in Admins : ~Writing(a)) /\ ~mixed => limit.min <= limit.max

\* An amount that passed the check is refused by the payer as too small only
\* when the price was not known or has fallen by more than the cushion since
\* (withdrawalLimits.js:18-20, "so the app never shows a minimum the payout
\* provider then refuses", withdrawal_routes.js:386-388).
AcceptedIsPayable ==
    \A u \in Users :
        user[u].at = "refused" =>
            user[u].price = 0 \/ user[u].paidAt * 11 < user[u].price * 10

\* The minimum that was shown is enough when it is asked for, unless an admin
\* saved or the price was unknown then or has fallen since; a find that fails makes
\* no difference (both go through getEffectiveWithdrawalLimits, :74-93).
ShownIsEnough ==
    \A u \in Users :
        user[u].at = "below" =>
            saved \/ user[u].shownAt = 0 \/ user[u].price < user[u].shownAt

\* What is saved, shown, checked and paid goes together.
LimitsGoTogether == LimitsInOrder /\ AcceptedIsPayable /\ ShownIsEnough
=============================================================================
