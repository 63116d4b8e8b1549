-------------------------------- MODULE Mail --------------------------------
(***************************************************************************)
(* Support mail: the acknowledgement of a ticket and the replies an admin  *)
(* sends, by Gmail and, when that fails, by Brevo                          *)
(* (src/routes/api_routes/support.js, src/helpers/ticketReplyEmail.js).    *)
(*                                                                         *)
(* There is one ticket; a reply is one request of the admin, who may send  *)
(* it again when it was not told to be sent.  What a mail says is left out,*)
(* but for whether it quotes the ticket.                                   *)
(***************************************************************************)
EXTENDS Integers, FiniteSets

CONSTANTS
    Replies,       \* the admin's requests
    MaxMailFaults  \* bound: failures of a provider, the database or the process

ASSUME MailAssumption == MaxMailFaults \in Nat /\ "ack" \notin Replies

Providers == {"Gmail", "Brevo"}

VARIABLES
    configured,  \* the providers with credentials in the environment
    ticket,      \* the ticket's row
    ack,         \* its acknowledgement
    reply,       \* request -> its place and what the admin was told
    box,         \* ghost: the mails delivered to the user
    failed,      \* ghost: request -> the providers whose send failed
    mailFaults   \* failures so far

mailVars == <<configured, ticket, ack, reply, box, failed, mailFaults>>

Untold == [sent |-> FALSE, by |-> "nobody", fellBack |-> FALSE]
Unsent == [at |-> "idle", quotes |-> FALSE, told |-> Untold]

MailInit ==
    /\ configured \in SUBSET Providers
    /\ ticket = "none" /\ ack = "none" /\ box = {} /\ mailFaults = 0
    /\ reply = [r \in Replies |-> Unsent]
    /\ failed = [r \in Replies |-> {}]

Mishap == mailFaults < MaxMailFaults /\ mailFaults' = mailFaults + 1

----------------------------------------------------------------------------
(* POST /create, DELETE /:id/delete *)

\* The ticket is saved and answered for before the acknowledgement is sent; a
\* save that fails is answered by an error and changes nothing.
CreateTicket ==
    /\ ticket = "none"
    /\ ticket' = "open"
    /\ ack' = IF "Gmail" \in configured THEN "sending" ELSE "none"
    /\ UNCHANGED <<configured, reply, box, failed, mailFaults>>

AckDelivered ==
    /\ ack = "sending"
    /\ ack' = "sent"
    /\ box' = box \cup {[of |-> "ack", by |-> "Gmail", quotes |-> TRUE]}
    /\ UNCHANGED <<configured, ticket, reply, failed, mailFaults>>

\* Nobody is told and nothing is tried again.
AckFails ==
    /\ ack = "sending" /\ Mishap
    /\ ack' = "none"
    /\ UNCHANGED <<configured, ticket, reply, box, failed>>

DeleteTicket ==
    /\ ticket = "open"
    /\ ticket' = "deleted"
    /\ UNCHANGED <<configured, ack, reply, box, failed, mailFaults>>

----------------------------------------------------------------------------
(* POST /reply, sendTicketReply *)

\* Mutation of NextProvider: Brevo stands in only where Gmail is not configured.
NextProviderOnce(tried) ==
    IF tried # {} THEN "nobody"
    ELSE IF "Gmail" \in configured THEN "Gmail"
    ELSE IF "Brevo" \in configured THEN "Brevo" ELSE "nobody"

\* The first of the providers, after a failure of those in tried.
NextProvider(tried) ==
    IF "Gmail" \in configured \ tried THEN "Gmail"
    ELSE IF "Brevo" \in configured \ tried THEN "Brevo" ELSE "nobody"

\* Without any provider the request is refused before anything is read.
StartReply(r) ==
    /\ reply[r].at = "idle" /\ configured # {}
    /\ \A q \in Replies : ~reply[q].told.sent
    /\ reply' = [reply EXCEPT ![r].at = "reads"]
    /\ UNCHANGED <<configured, ticket, ack, box, failed, mailFaults>>

\* A ticket deleted meanwhile is not quoted; the reply is sent without.
ReadTicket(r) ==
    /\ reply[r].at = "reads"
    /\ reply' = [reply EXCEPT ![r].at = NextProvider({}), ![r].quotes = ticket = "open"]
    /\ UNCHANGED <<configured, ticket, ack, box, failed, mailFaults>>

Deliver(r) == box \cup {[of |-> r, by |-> reply[r].at, quotes |-> reply[r].quotes]}

\* Mutation of FellBack: a provider that is not configured counts as a failure.
FellBackUnconfigured(r) == reply[r].at # "Gmail"

\* A provider before this one failed, not only was not configured.
FellBack(r) == failed[r] # {}

\* Mutation of Sent: a provider that succeeds does not end the request.
SentByAll(r) ==
    /\ reply[r].at \in Providers
    /\ box' = box \cup {[of |-> r, by |-> p, quotes |-> reply[r].quotes] : p \in configured}
    /\ reply' = [reply EXCEPT ![r].at = "done",
                   ![r].told = [sent |-> TRUE, by |-> reply[r].at,
                                fellBack |-> FellBack(r)]]
    /\ UNCHANGED <<configured, ticket, ack, failed, mailFaults>>

\* The provider took the mail: no other is tried.
Sent(r) ==
    /\ reply[r].at \in Providers
    /\ box' = Deliver(r)
    /\ reply' = [reply EXCEPT ![r].at = "done",
                   ![r].told = [sent |-> TRUE, by |-> reply[r].at,
                                fellBack |-> FellBack(r)]]
    /\ UNCHANGED <<configured, ticket, ack, failed, mailFaults>>

\* Mutation of AfterFailure: after the last provider the request stays.
AfterFailureStays(r) ==
    [reply[r] EXCEPT !.at = NextProvider(failed[r] \cup {reply[r].at})]

\* The next provider is tried; after the last the admin is told of an error.
AfterFailure(r) ==
    LET next == NextProvider(failed[r] \cup {reply[r].at}) IN
    [reply[r] EXCEPT !.at = IF next = "nobody" THEN "done" ELSE next]

\* A send fails, before the mail was taken or, when only the answer was lost, after.
SendFails(r) ==
    /\ reply[r].at \in Providers /\ Mishap
    /\ box' \in {box, Deliver(r)}
    /\ failed' = [failed EXCEPT ![r] = failed[r] \cup {reply[r].at}]
    /\ reply' = [reply EXCEPT ![r] = AfterFailure(r)]
    /\ UNCHANGED <<configured, ticket, ack>>

\* The ticket cannot be read: an error, and no mail.
ReadTicketFails(r) ==
    /\ reply[r].at = "reads" /\ Mishap
    /\ reply' = [reply EXCEPT ![r].at = "lost"]
    /\ UNCHANGED <<configured, ticket, ack, box, failed>>

\* The process restarts: what it was sending is not told of and not tried again.
MailRestart ==
    /\ Mishap
    /\ ack' = IF ack = "sending" THEN "none" ELSE ack
    /\ reply' = [r \in Replies |->
                   IF reply[r].at \in {"idle", "done"} THEN reply[r]
                   ELSE [reply[r] EXCEPT !.at = "lost"]]
    /\ UNCHANGED <<configured, ticket, box, failed>>

MailNext ==
    \/ CreateTicket \/ AckDelivered \/ AckFails \/ DeleteTicket \/ MailRestart
    \/ \E r \in Replies :
          StartReply(r) \/ ReadTicket(r) \/ ReadTicketFails(r) \/ Sent(r) \/ SendFails(r)

MailSpec == MailInit /\ [][MailNext]_mailVars

----------------------------------------------------------------------------
(* Properties *)

Mailed(r) == {mail \in box : mail.of = r}

MailTypeOK ==
    /\ configured \subseteq Providers /\ mailFaults \in 0..MaxMailFaults
    /\ ticket \in {"none", "open", "deleted"} /\ ack \in {"none", "sending", "sent"}
    /\ reply \in [Replies -> [at: {"idle", "reads", "done", "lost"} \cup configured,
                              quotes: BOOLEAN,
                              told: [sent: BOOLEAN, by: configured \cup {"nobody"},
                                     fellBack: BOOLEAN]]]
    /\ failed \in [Replies -> SUBSET configured]
    /\ box \subseteq [of: Replies \cup {"ack"}, by: configured, quotes: BOOLEAN]

\* The admin who is told that a reply was sent, and by whom, is told the truth; and
\* that Gmail failed only if it was tried (support.js:157-161).
ToldIsTrue ==
    \A r \in Replies :
        LET told == reply[r].told IN
        /\ told.sent => \E mail \in Mailed(r) : mail.by = told.by
        /\ told.fellBack => "Gmail" \in failed[r]

\* However often a reply is sent again and whichever provider falls back, each mail
\* the user has is one the admin was told of, or the work of a failure.
ExtraMailsAreFaults ==
    LET all == UNION {Mailed(r) : r \in Replies}
        told == {r \in Replies : reply[r].told.sent} IN
    Cardinality(all) <= Cardinality(told) + mailFaults

\* No reply is given up while a configured provider has not been tried.
AllWereTried ==
    \A r \in Replies : reply[r].at = "done" /\ ~reply[r].told.sent => failed[r] = configured

\* Mails and what the admin is told of them agree, but for failures.
MailIsAccounted == ToldIsTrue /\ ExtraMailsAreFaults /\ AllWereTried
=============================================================================
