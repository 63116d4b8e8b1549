----------------------------- MODULE Reminders -----------------------------
(***************************************************************************)
(* What reminds one user: the mining session the app keeps with its three  *)
(* notices (src/routes/api_routes/mining-session-handles.js,               *)
(* src/models/MiningSession.js, src/cronJobs.js), the reminders of the     *)
(* games (src/helpers/engagementReminders.js), and the push token          *)
(* (src/services/notificationService.js, firebase_notifications.js).       *)
(*                                                                         *)
(* A session lasts two units of time and is about to end in the last one.  *)
(* Documents are read and saved later: a save writes the fields that were  *)
(* changed, whatever the others have become.  The warnings and the video   *)
(* reminders do not read what the other writes: a behaviour has one of     *)
(* them, beside the notices that end a session.                            *)
(***************************************************************************)
EXTENDS Integers, FiniteSets

CONSTANTS
    Topics,       \* subset of {"warning", "video", "games", "token"}
    Callers,      \* requests and game jobs at work at a time
    Ends,         \* bound: time
    MaxCalls,     \* bound: requests
    MaxFaults     \* bound: saves that fail and restarts

ASSUME RemindersAssumption ==
    /\ Topics \subseteq {"warning", "video", "games", "token"}
    /\ Ends \in Nat /\ MaxCalls \in Nat /\ MaxFaults \in Nat

VARIABLES
    topic,      \* what this behaviour is about
    hour,       \* time
    sessions,   \* MiningSession rows, by number
    calls,      \* requests at work; in games, jobs at work; in token, sends
    job,        \* the job of each notice: the rows it found and the one it is at
    slots,      \* ReminderLog: days whose slot is taken
    token,      \* the FCM token stored, 0 when none
    device,     \* the token of the user's device
    noticed,    \* history: when each session had its last notice of each kind
    repeated,   \* history: notices that say again what one said
    reminded,   \* history: reminders of each day
    outrun,     \* history: sessions extended across their notice
    overlapped, \* history: did two starts overlap
    lost,       \* history: was a token removed that is not dead
    crossed,    \* history: did a single send end after the token was replaced
    called,     \* requests so far
    faults      \* failed saves and restarts so far

remVars == <<topic, hour, sessions, calls, job, slots, token, device, noticed, repeated,
             reminded, outrun, overlapped, lost, crossed, called, faults>>

Ids     == 1..MaxCalls
Notices == {"warning", "expired", "video"}
NoSession == [status |-> "none"]
NoCall  == [at |-> "none"]
NoJob   == [found |-> {}, now |-> 0]

RemTypeOK ==
    /\ topic \in Topics /\ hour \in 0..Ends
    /\ \A i \in Ids : sessions[i].status \in {"none", "active", "expired", "stopped"}
    /\ \A c \in Callers : calls[c].at \in {"none", "save", "claim", "send", "sent", "start"}
    /\ \A n \in Notices : job[n].now # 0 => job[n].now \in {r.id : r \in job[n].found}
    /\ slots \subseteq 0..Ends
    /\ token \in 0..MaxCalls /\ device \in 0..MaxCalls
    /\ noticed \in [Ids -> [Notices -> (0 - 3)..Ends]] /\ repeated \in [Notices -> Nat]
    /\ reminded \in [0..Ends -> Nat]
    /\ outrun \subseteq Ids
    /\ overlapped \in BOOLEAN /\ lost \in BOOLEAN /\ crossed \in BOOLEAN
    /\ called \in 0..MaxCalls /\ faults \in 0..MaxFaults

RemInit ==
    /\ topic \in Topics
    /\ hour = 0
    /\ sessions = [i \in Ids |-> NoSession]
    /\ calls = [c \in Callers |-> NoCall]
    /\ job = [n \in Notices |-> NoJob]
    /\ slots = {}
    /\ token = 0 /\ device = 0
    /\ noticed = [i \in Ids |-> [n \in Notices |-> 0 - 3]]
    /\ repeated = [n \in Notices |-> 0]
    /\ reminded = [d \in 0..Ends |-> 0]
    /\ outrun = {}
    /\ overlapped = FALSE /\ lost = FALSE /\ crossed = FALSE
    /\ called = 0 /\ faults = 0

HourPasses ==
    /\ hour < Ends /\ hour' = hour + 1
    /\ UNCHANGED <<topic, sessions, calls, job, slots, token, device, noticed, repeated,
                   reminded, outrun, overlapped, lost, crossed, called, faults>>

----------------------------------------------------------------------------
(* The routes of the session: findOne, then save or create. *)

ActiveIds == {i \in Ids : sessions[i].status = "active"}

FindSession(c, kind) ==
    /\ topic \in {"warning", "video"} /\ calls[c].at = "none"
    /\ called < MaxCalls /\ called' = called + 1
    /\ \/ \E i \in ActiveIds :
              calls' = [calls EXCEPT ![c] = [at |-> "save", kind |-> kind, id |-> i]]
       \/ /\ ActiveIds = {} /\ kind = "start"
          /\ calls' = [calls EXCEPT ![c] = [at |-> "save", kind |-> kind, id |-> 0]]
    /\ UNCHANGED <<topic, hour, sessions, job, slots, token, device, noticed, repeated,
                   reminded, outrun, overlapped, lost, crossed, faults>>

NewSession == [status |-> "active", end |-> hour + 2, warned |-> FALSE, told |-> FALSE,
               video |-> 0 - 3]

\* Mutation of WhichSession: every start makes a session.
WhichSessionNew(id) == 0

\* The session that was found, 0 when there was none.
WhichSession(id) == id

\* POST /start, after its find.
SaveStart(c) ==
    LET i == WhichSession(calls[c].id)
        new == CHOOSE n \in Ids : sessions[n].status = "none" /\
                   \A k \in 1..(n - 1) : sessions[k].status # "none"
    IN  /\ calls[c].at = "save" /\ calls[c].kind = "start"
        /\ sessions' = IF i = 0 THEN [sessions EXCEPT ![new] = NewSession]
                       ELSE [sessions EXCEPT ![i].end = hour + 2]
        /\ overlapped' = (overlapped \/ \E d \in Callers \ {c} :
               calls[d].at = "save" /\ calls[d].kind = "start")
        /\ outrun' = IF i # 0 /\ sessions[i].status # "active" THEN outrun \cup {i} ELSE outrun
        /\ calls' = [calls EXCEPT ![c] = NoCall]
        /\ UNCHANGED <<topic, hour, job, slots, token, device, noticed, repeated, reminded,
                       lost, crossed, called, faults>>

\* POST /stop, after its find.  POST /update changes what no notice depends on
\* and is left out.
SaveStop(c) ==
    /\ calls[c].at = "save" /\ calls[c].kind = "stop"
    /\ sessions' = [sessions EXCEPT ![calls[c].id].status = "stopped"]
    /\ calls' = [calls EXCEPT ![c] = NoCall]
    /\ UNCHANGED <<topic, hour, job, slots, token, device, noticed, repeated, reminded,
                   outrun, overlapped, lost, crossed, called, faults>>

----------------------------------------------------------------------------
(* The notice jobs: each row is noticed, then the notice is recorded. *)

\* Mutation of IsExpired: a session is expired in its last hour.
IsExpiredEarly(s) == s.end <= hour + 1 /\ ~s.told

\* findExpiredNotNotified
IsExpired(s) == s.end < hour /\ ~s.told

\* findExpiringSoon
IsExpiring(s) == s.end \in hour..(hour + 1) /\ ~s.warned

\* findNeedingVideoReminder; the ads are left out.
NeedsVideo(s) == s.video < hour - 2

Needs(s, kind) ==
    CASE kind = "warning" -> IsExpiring(s)
      [] kind = "expired" -> IsExpired(s)
      [] OTHER            -> NeedsVideo(s)

FindRows(kind) ==
    /\ kind \in {topic, "expired"} /\ job[kind] = NoJob
    /\ LET found == {i \in ActiveIds : Needs(sessions[i], kind)}
       IN  /\ found # {}
           /\ job' = [job EXCEPT ![kind].found =
                  {[id |-> i, end |-> sessions[i].end] : i \in found}]
    /\ UNCHANGED <<topic, hour, sessions, calls, slots, token, device, noticed, repeated,
                   reminded, outrun, overlapped, lost, crossed, called, faults>>

\* The notice goes out, or fails quietly (sendNotificationToUser does not throw).
SendNotice(kind, i) ==
    LET again == noticed[i][kind] >= (IF kind = "video" THEN hour - 2 ELSE 0)
    IN  /\ job[kind].now = 0 /\ i \in {r.id : r \in job[kind].found}
        /\ noticed' = [noticed EXCEPT ![i][kind] = hour]
        /\ repeated' = IF again THEN [repeated EXCEPT ![kind] = @ + 1] ELSE repeated
        /\ job' = [job EXCEPT ![kind].now = i]
        /\ UNCHANGED <<topic, hour, sessions, calls, slots, token, device, reminded, outrun,
                       overlapped, lost, crossed, called, faults>>

\* Mutation of Recorded: only the status is set.
RecordedStatus(s, kind) == IF kind = "expired" THEN [s EXCEPT !.status = "expired"] ELSE s

\* Mutation of Recorded: every notice ends the session.
RecordedExpired(s, kind) ==
    [s EXCEPT !.warned = TRUE, !.told = TRUE, !.video = hour, !.status = "expired"]

\* recordNotification
Recorded(s, kind) ==
    CASE kind = "warning" -> [s EXCEPT !.warned = TRUE]
      [] kind = "expired" -> [s EXCEPT !.told = TRUE, !.status = "expired"]
      [] OTHER            -> [s EXCEPT !.video = hour]

\* Mutation of Done: the row is taken off the list and stays the current one.
DoneStays(kind) ==
    job' = [job EXCEPT ![kind] = [found |-> {r \in @.found : r.id # @.now}, now |-> @.now]]

\* The job goes on with the other rows it found.
Done(kind) ==
    job' = [job EXCEPT ![kind] = [found |-> {r \in @.found : r.id # @.now}, now |-> 0]]

RecordNotice(kind) ==
    LET i == job[kind].now IN
    /\ i # 0
    /\ sessions' = [sessions EXCEPT ![i] = Recorded(@, kind)]
    /\ outrun' = IF [id |-> i, end |-> sessions[i].end] \in job[kind].found
                 THEN outrun ELSE outrun \cup {i}
    /\ Done(kind)
    /\ UNCHANGED <<topic, hour, calls, slots, token, device, noticed, repeated, reminded,
                   overlapped, lost, crossed, called, faults>>

\* The save fails: the notice is not recorded and the job goes on.
RecordFails(kind) ==
    /\ job[kind].now # 0 /\ faults < MaxFaults /\ faults' = faults + 1
    /\ Done(kind)
    /\ UNCHANGED <<topic, hour, sessions, calls, slots, token, device, noticed, repeated,
                   reminded, outrun, overlapped, lost, crossed, called>>

----------------------------------------------------------------------------
(* The game reminders. *)

\* The user is found: local evening, streak running, not played today.
FindPlayer(c) ==
    /\ topic = "games" /\ calls[c].at = "none"
    /\ called < MaxCalls /\ called' = called + 1
    /\ calls' = [calls EXCEPT ![c] = [at |-> "claim", day |-> hour]]
    /\ UNCHANGED <<topic, hour, sessions, job, slots, token, device, noticed, repeated,
                   reminded, outrun, overlapped, lost, crossed, faults>>

\* Mutation of SlotIsTaken: no unique index.
SlotIsTakenNever(day) == FALSE

SlotIsTaken(day) == day \in slots

\* claimSlot; another error ends the run.
ClaimSlot(c) ==
    LET day == calls[c].day IN
    /\ calls[c].at = "claim"
    /\ slots' = slots \cup {day}
    /\ calls' = [calls EXCEPT ![c] = IF SlotIsTaken(day) THEN NoCall
                                     ELSE [calls[c] EXCEPT !.at = "send"]]
    /\ UNCHANGED <<topic, hour, sessions, job, token, device, noticed, repeated, reminded,
                   outrun, overlapped, lost, crossed, called, faults>>

SendReminder(c) ==
    /\ topic = "games" /\ calls[c].at = "send"
    /\ reminded' = [reminded EXCEPT ![calls[c].day] = @ + 1]
    /\ calls' = [calls EXCEPT ![c] = NoCall]
    /\ UNCHANGED <<topic, hour, sessions, job, slots, token, device, noticed, repeated,
                   outrun, overlapped, lost, crossed, called, faults>>

----------------------------------------------------------------------------
(* The token. *)

\* The app is installed again: its former token is dead.
Reinstall ==
    /\ topic = "token" /\ called < MaxCalls /\ called' = called + 1
    /\ device' = device + 1
    /\ UNCHANGED <<topic, hour, sessions, calls, job, slots, token, noticed, repeated,
                   reminded, outrun, overlapped, lost, crossed, faults>>

\* POST /create
StoreToken ==
    /\ topic = "token" /\ device # 0 /\ token # device
    /\ token' = device
    /\ UNCHANGED <<topic, hour, sessions, calls, job, slots, device, noticed, repeated,
                   reminded, outrun, overlapped, lost, crossed, called, faults>>

\* sendNotificationToUser or sendBulkNotifications reads the token.
ReadToken(c, bulk) ==
    /\ topic = "token" /\ calls[c].at = "none" /\ token # 0
    /\ calls' = [calls EXCEPT ![c] = [at |-> "send", bulk |-> bulk, token |-> token]]
    /\ UNCHANGED <<topic, hour, sessions, job, slots, token, device, noticed, repeated,
                   reminded, outrun, overlapped, lost, crossed, called, faults>>

\* Firebase answers: a token that is not the device's is dead.
SendPush(c) ==
    /\ topic = "token" /\ calls[c].at = "send"
    /\ calls' = [calls EXCEPT ![c] = IF calls[c].token = device THEN NoCall
                                     ELSE [calls[c] EXCEPT !.at = "sent"]]
    /\ UNCHANGED <<topic, hour, sessions, job, slots, token, device, noticed, repeated,
                   reminded, outrun, overlapped, lost, crossed, called, faults>>

\* Mutation of IsRemoved: a bulk send, too, removes by the user.
IsRemovedByUser(call) == TRUE

\* A bulk send removes the dead token, a single one whatever the user has.
IsRemoved(call) == call.bulk => token = call.token

RemoveToken(c) ==
    LET q == calls[c] IN
    /\ q.at = "sent"
    /\ token' = IF IsRemoved(q) THEN 0 ELSE token
    /\ lost' = (lost \/ (token' = 0 /\ token # 0 /\ token = device))
    /\ crossed' = (crossed \/ (~q.bulk /\ token # q.token))
    /\ calls' = [calls EXCEPT ![c] = NoCall]
    /\ UNCHANGED <<topic, hour, sessions, job, slots, device, noticed, repeated, reminded,
                   outrun, overlapped, called, faults>>

----------------------------------------------------------------------------

\* The process starts again.
ReminderRestart ==
    /\ faults < MaxFaults /\ faults' = faults + 1
    /\ calls' = [c \in Callers |-> NoCall]
    /\ job' = [n \in Notices |-> NoJob]
    /\ UNCHANGED <<topic, hour, sessions, slots, token, device, noticed, repeated,
                   reminded, outrun, overlapped, lost, crossed, called>>

RemNext ==
    \/ HourPasses \/ ReminderRestart
    \/ \E c \in Callers :
        \/ \E kind \in {"start", "stop"} : FindSession(c, kind)
        \/ SaveStart(c) \/ SaveStop(c)
        \/ FindPlayer(c) \/ ClaimSlot(c) \/ SendReminder(c)
        \/ \E bulk \in BOOLEAN : ReadToken(c, bulk)
        \/ SendPush(c) \/ RemoveToken(c)
    \/ \E kind \in Notices :
        \/ FindRows(kind) \/ RecordNotice(kind) \/ RecordFails(kind)
        \/ \E i \in Ids : SendNotice(kind, i)
    \/ Reinstall \/ StoreToken

RemSpec == RemInit /\ [][RemNext]_remVars

----------------------------------------------------------------------------
(* Properties *)

\* A session's notice is repeated only when a save failed or the process went
\* down between the notice and its record ("prevents duplicate notifications",
\* MiningSession.js:38).
RepeatsAreFaults == \A n \in Notices : repeated[n] <= faults

\* No session is expired that the user was not told of.
ExpiredIsTold ==
    \A i \in Ids : sessions[i].status = "expired" => noticed[i]["expired"] >= 0

\* A session that still has time is not expired, unless the app extended it
\* while the job or the request held an older document.
ExpiredIsOver ==
    \A i \in Ids : sessions[i].status = "expired" /\ i \notin outrun => sessions[i].end < hour

\* One session is active at a time, unless two starts overlapped.
OneSession == ~overlapped => Cardinality(ActiveIds) <= 1

\* "Each user gets each kind at most once per day" (engagementReminders.js:10),
\* also when runs overlap and across restarts.
RemindedOnce == \A d \in 0..Ends : reminded[d] <= 1

\* The token of the user's device is not removed because an older one is dead,
\* except by a single send that read the older one.
LiveTokenKept == lost => crossed

\* Users are told what is true, once, on the device they have.
RemindersAreTrue ==
    /\ RepeatsAreFaults /\ ExpiredIsTold /\ ExpiredIsOver
    /\ OneSession /\ RemindedOnce /\ LiveTokenKept
=============================================================================
