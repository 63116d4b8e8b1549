------------------------------- MODULE Tokens -------------------------------
(***************************************************************************)
(* The AdMob tokens of the dashboard: one AppSettings row that the OAuth   *)
(* callback and the settings page replace, and that every report refreshes *)
(* when the access token has run out (src/helpers/admobAuth.js,            *)
(* src/routes/admin.js).                                                   *)
(***************************************************************************)
EXTENDS Naturals, FiniteSets

CONSTANTS
    Grants,       \* refresh tokens Google gives, one per consent
    Reports,      \* reports at work at a time
    Nothing,      \* no token
    MaxTurns      \* bound: tokens that run out, are refused, are revoked

ASSUME TokensAssumption == Nothing \notin Grants /\ MaxTurns \in Nat

VARIABLES
    stored,       \* the row: the refresh token, whose access token, is it fresh
    newest,       \* the grant an admin saved last
    crossedSave,      \* history: was a refresh at work when it was saved
    granted,      \* consents given so far
    revoked,      \* grants Google takes no more
    report,       \* reports at work
    turns

tokVars == <<stored, newest, crossedSave, granted, revoked, report, turns>>

NoReport == [at |-> "none", refresh |-> Nothing, access |-> Nothing]

TokTypeOK ==
    /\ stored \in [refresh: Grants \cup {Nothing}, access: Grants \cup {Nothing},
                   fresh: BOOLEAN]
    /\ newest \in Grants \cup {Nothing} /\ crossedSave \in BOOLEAN
    /\ granted \subseteq Grants /\ revoked \subseteq granted
    /\ report \in [Reports -> [at: {"none", "posts", "saves", "done"},
                               refresh: Grants \cup {Nothing},
                               access: Grants \cup {Nothing}]]
    /\ turns \in 0..MaxTurns
    /\ stored.fresh => stored.access # Nothing

TokInit ==
    /\ stored = [refresh |-> Nothing, access |-> Nothing, fresh |-> FALSE]
    /\ newest = Nothing /\ crossedSave = FALSE /\ granted = {} /\ revoked = {}
    /\ report = [r \in Reports |-> NoReport] /\ turns = 0

Turn == turns < MaxTurns /\ turns' = turns + 1

Refreshing(r) == report[r].at \in {"posts", "saves"}

----------------------------------------------------------------------------
(* saveAdMobTokens, from the callback or the settings page: with an access  *)
(* token, or, when it is pasted without one, none and expiry 0.             *)

\* Mutation of Save: what is pasted counts as fresh, with an access token or not.
SaveAlwaysFresh(g, access) ==
    /\ g \notin granted /\ granted' = granted \cup {g}
    /\ access \in {g, Nothing}
    /\ stored' = [refresh |-> g, access |-> access, fresh |-> TRUE]
    /\ newest' = g /\ crossedSave' = \E r \in Reports : Refreshing(r)
    /\ UNCHANGED <<revoked, report, turns>>

Save(g, access) ==
    /\ g \notin granted /\ granted' = granted \cup {g}
    /\ access \in {g, Nothing}
    /\ stored' = [refresh |-> g, access |-> access, fresh |-> access # Nothing]
    /\ newest' = g /\ crossedSave' = \E r \in Reports : Refreshing(r)
    /\ UNCHANGED <<revoked, report, turns>>

----------------------------------------------------------------------------
(* getValidAccessToken *)

\* Mutation of Load: a refresh token that was loaded once is kept in memory.
LoadKept(r) ==
    /\ report[r].at \in {"none", "done"}
    /\ LET kept == IF report[r].refresh = Nothing THEN stored.refresh ELSE report[r].refresh
       IN  report' = [report EXCEPT
           ![r] = IF kept = Nothing THEN [NoReport EXCEPT !.at = "done"]
                  ELSE IF stored.fresh THEN
                      [at |-> "done", refresh |-> kept, access |-> kept]
                  ELSE [at |-> "posts", refresh |-> kept, access |-> Nothing]]
    /\ UNCHANGED <<stored, newest, crossedSave, granted, revoked, turns>>

\* loadAdMobTokens: nothing without a refresh token, the access token while it
\* is fresh, and else Google is asked.
Load(r) ==
    /\ report[r].at \in {"none", "done"}
    /\ report' = [report EXCEPT
           ![r] = IF stored.refresh = Nothing THEN [NoReport EXCEPT !.at = "done"]
                  ELSE IF stored.fresh THEN
                      [at |-> "done", refresh |-> stored.refresh, access |-> stored.access]
                  ELSE [at |-> "posts", refresh |-> stored.refresh, access |-> Nothing]]
    /\ UNCHANGED <<stored, newest, crossedSave, granted, revoked, turns>>

GoogleAnswers(r) ==
    /\ report[r].at = "posts" /\ report[r].refresh \notin revoked
    /\ report' = [report EXCEPT ![r].at = "saves", ![r].access = report[r].refresh]
    /\ UNCHANGED <<stored, newest, crossedSave, granted, revoked, turns>>

\* Google refuses a revoked token, or the call or the save fails: null.
RefreshFails(r) ==
    /\ Refreshing(r)
    /\ \/ report[r].at = "posts" /\ report[r].refresh \in revoked /\ UNCHANGED turns
       \/ Turn
    /\ report' = [report EXCEPT ![r] = [NoReport EXCEPT !.at = "done"]]
    /\ UNCHANGED <<stored, newest, crossedSave, granted, revoked>>

\* Mutation of SaveRefreshed: the access token goes to the row as it is now.
SaveIntoRow(r) ==
    /\ report[r].at = "saves"
    /\ stored' = [stored EXCEPT !.access = report[r].access, !.fresh = TRUE]
    /\ report' = [report EXCEPT ![r].at = "done"]
    /\ UNCHANGED <<newest, crossedSave, granted, revoked, turns>>

\* The tokens that were loaded, with the new access token, replace the row.
SaveRefreshed(r) ==
    /\ report[r].at = "saves"
    /\ stored' = [refresh |-> report[r].refresh, access |-> report[r].access,
                  fresh |-> TRUE]
    /\ report' = [report EXCEPT ![r].at = "done"]
    /\ UNCHANGED <<newest, crossedSave, granted, revoked, turns>>

----------------------------------------------------------------------------
RunsOut ==
    /\ stored.fresh /\ Turn
    /\ stored' = [stored EXCEPT !.fresh = FALSE]
    /\ UNCHANGED <<newest, crossedSave, granted, revoked, report>>

Revoke(g) ==
    /\ g \in granted \ revoked /\ Turn
    /\ revoked' = revoked \cup {g}
    /\ UNCHANGED <<stored, newest, crossedSave, granted, report>>

TokNext ==
    \/ \E g \in Grants : Revoke(g) \/ \E access \in {g, Nothing} : Save(g, access)
    \/ \E r \in Reports : Load(r) \/ GoogleAnswers(r) \/ RefreshFails(r) \/ SaveRefreshed(r)
    \/ RunsOut

TokSpec == TokInit /\ [][TokNext]_tokVars

----------------------------------------------------------------------------
(* Properties *)

\* The tokens an admin saved stay, unless a refresh of the old ones was at work
\* just then: its answer puts the old refresh token back (admobAuth.js:92-97).
NewTokenKept == stored.refresh = newest \/ crossedSave

\* The access token that is stored, and every one a report goes on with, came
\* from the refresh token stored or read with it, however saves cross.
AccessOfRefresh ==
    /\ stored.access \in {stored.refresh, Nothing}
    /\ \A r \in Reports : report[r].access \in {report[r].refresh, Nothing}

\* The tokens at work are the ones saved last, and belong together.
TokensGoTogether == NewTokenKept /\ AccessOfRefresh
=============================================================================
