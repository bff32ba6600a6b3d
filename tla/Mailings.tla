------------------------------ MODULE Mailings ------------------------------
(***************************************************************************)
(* Campaigns of messages to the holders of the tickets of events:          *)
(* src/backend/src/communication/communication.service.ts.                 *)
(*                                                                         *)
(* A sender is the daily round of the scheduler (Cron) or a request to     *)
(* send; both write recipients once, mail those not marked SENT, mark them *)
(* one by one and write the status of the campaign at the end.  The mail   *)
(* server takes a message or not, and its answer may be lost; the database *)
(* may refuse a read or a write; the process may die; a campaign is        *)
(* deleted with its recipients at any moment.  One process runs the daily  *)
(* round (docker-compose.prod.yml deploys one replica of the backend).     *)
(* A recipient is a ticket, as in the code: who bought two tickets has two *)
(* rows, and receives a message for each.                                  *)
(* Abstracted: the texts and templates, access rights, dates but for       *)
(* whether the time of a scheduled campaign has come.                      *)
(***************************************************************************)
EXTENDS Naturals, FiniteSets

CONSTANTS
    Campaigns,   \* campaigns of the events
    Tickets,     \* tickets whose holder has an address
    Audience,    \* Audience[c]: those of the event of the campaign
    Requests,    \* requests to send being served
    Cron         \* the daily round

ASSUME SendersAssumption == Cron \notin Requests
ASSUME AudienceAssumption == Audience \in [Campaigns -> SUBSET Tickets]

VARIABLES
    campaign,  \* NotificationCampaign: status, whether it is due;
               \* auxiliary, dead: a sender died or broke off at it since the
               \* status was written
    rows,      \* CampaignRecipient.status, by ticket and by the writing that made it
    job,       \* what each sender is doing
    queue,     \* campaigns the round has still to send
    mailed,    \* auxiliary: what was received of each campaign for each ticket
    overlap    \* auxiliary: campaigns two senders had in hand at once

vars == <<campaign, rows, job, queue, mailed, overlap>>

Senders == Requests \cup {Cron}
Batches == 1..Cardinality(Senders)
Recipients == Tickets \X Batches
Statuses == {"NONE", "DELETED", "DRAFT", "SCHEDULED", "SENDING", "SENT", "FAILED",
             "PARTIALLY_SENT"}
Idle == [at |-> "idle"]

Status(c) == campaign[c].status
Exists(c) == Status(c) \notin {"NONE", "DELETED"}
RowsOf(c) == {r \in Recipients : rows[c][r] # "none"}
DueNow == {c \in Campaigns : Status(c) = "SCHEDULED" /\ campaign[c].due}

(***************************************************************************)
(* Type invariant.                                                         *)
(***************************************************************************)
TypeOK ==
    /\ campaign \in [Campaigns -> [status : Statuses, due : BOOLEAN, dead : BOOLEAN]]
    /\ rows \in [Campaigns -> [Recipients -> {"none", "PENDING", "SENT", "FAILED"}]]
    /\ \A c \in Campaigns : ~Exists(c) => RowsOf(c) = {}
    /\ \A s \in Senders : LET j == job[s] IN
         \/ j = Idle
         \/ j.at \in {"mark", "count", "make"} /\ j.on \in Campaigns
         \/ /\ j.at = "mail" /\ j.on \in Campaigns /\ j.left \subseteq Recipients
            /\ j.sent \in BOOLEAN /\ j.failed \in BOOLEAN
    /\ queue \subseteq Campaigns
    /\ mailed \in [Campaigns -> [Tickets -> {"no", "once", "twice", "unsure"}]]
    /\ overlap \subseteq Campaigns

Init ==
    /\ campaign = [c \in Campaigns |-> [status |-> "NONE", due |-> FALSE, dead |-> FALSE]]
    /\ rows = [c \in Campaigns |-> [r \in Recipients |-> "none"]]
    /\ job = [s \in Senders |-> Idle]
    /\ queue = {}
    /\ mailed = [c \in Campaigns |-> [t \in Tickets |-> "no"]]
    /\ overlap = {}

At(s, step) == job[s].at = step
Goto(s, j) == job' = [job EXCEPT ![s] = j]
On(s) == job[s].on
InHand(s) == job[s].at \in {"count", "make", "mail"}
UnderWay(c) == \E s \in Senders : InHand(s) /\ On(s) = c

Write(c, status, due) ==
    campaign' = [campaign EXCEPT ![c] = [status |-> status, due |-> due, dead |-> FALSE]]

(***************************************************************************)
(* The organizer.                                                          *)
(***************************************************************************)
Others == <<rows, job, queue, mailed, overlap>>

\* createCampaign and setupAutoReminders
Create(c) ==
    /\ Status(c) = "NONE"
    /\ Write(c, "DRAFT", FALSE) \/ Write(c, "SCHEDULED", FALSE)
    /\ UNCHANGED Others

\* scheduleCampaign: whatever the status
Schedule(c) ==
    /\ Exists(c)
    /\ Write(c, "SCHEDULED", FALSE)
    /\ UNCHANGED Others

\* At once when the date is in the past
TimeComes(c) ==
    /\ Status(c) = "SCHEDULED" /\ ~campaign[c].due
    /\ Write(c, "SCHEDULED", TRUE)
    /\ UNCHANGED Others

Delete(c) ==
    /\ Exists(c)
    /\ Write(c, "DELETED", FALSE)
    /\ rows' = [rows EXCEPT ![c] = [r \in Recipients |-> "none"]]
    /\ mailed' = [mailed EXCEPT ![c] = [t \in Tickets |-> "no"]]
    /\ overlap' = overlap \ {c}
    /\ UNCHANGED <<job, queue>>

(***************************************************************************)
(* Sending.                                                                *)
(***************************************************************************)
\* Refused while it is being sent; the status is written later
StartSending(s, c) ==
    /\ s \in Requests /\ At(s, "idle") /\ Exists(c) /\ Status(c) # "SENDING"
    /\ Goto(s, [at |-> "mark", on |-> c])
    /\ UNCHANGED <<campaign, rows, queue, mailed, overlap>>

\* Nothing is promised of a campaign two senders have in hand
Take(s, c) ==
    /\ Goto(s, [at |-> "count", on |-> c])
    /\ IF UnderWay(c)
       THEN /\ overlap' = overlap \cup {c}
            /\ mailed' = [mailed EXCEPT ![c] = [t \in Tickets |-> "unsure"]]
       ELSE UNCHANGED <<overlap, mailed>>

\* A sender whose campaign is gone fails, and the round with it: the write of
\* its failure fails too
Fail(s) ==
    /\ Goto(s, Idle)
    /\ queue' = IF s = Cron THEN {} ELSE queue
    /\ UNCHANGED <<campaign, rows, mailed, overlap>>

\* The write of SENDING may be refused, before anything else is done
MarkSending(s) ==
    /\ At(s, "mark")
    /\ \/ Fail(s)
       \/ /\ Exists(On(s))
          /\ Write(On(s), "SENDING", FALSE)
          /\ Take(s, On(s))
          /\ UNCHANGED <<rows, queue>>

StartRound ==
    /\ At(Cron, "idle") /\ queue = {} /\ DueNow # {}
    /\ queue' = DueNow
    /\ UNCHANGED <<campaign, rows, job, mailed, overlap>>

\* Without writing SENDING, nor reading the status again
NextOfRound(c) ==
    /\ At(Cron, "idle") /\ c \in queue
    /\ queue' = queue \ {c}
    /\ Take(Cron, c)
    /\ UNCHANGED <<campaign, rows>>

\* Mutant: those already served are served again
MailEveryone(s, written) ==
    [at |-> "mail", on |-> On(s), left |-> {r \in Recipients : written[r] # "none"},
     sent |-> FALSE, failed |-> FALSE]

\* The recipients as they are read, but those already served
MailTo(s, written) ==
    [at |-> "mail", on |-> On(s), left |-> {r \in Recipients : written[r] \in {"PENDING", "FAILED"}},
     sent |-> FALSE, failed |-> FALSE]

\* buildRecipients: those written before
CountRows(s) ==
    /\ At(s, "count")
    /\ Goto(s, IF RowsOf(On(s)) # {} THEN MailTo(s, rows[On(s)])
               ELSE [job[s] EXCEPT !.at = "make"])
    /\ UNCHANGED <<campaign, rows, queue, mailed, overlap>>

NewBatch(c) == CHOOSE b \in Batches : /\ RowsOf(c) \cap (Tickets \X {b}) = {}
                                      /\ \A a \in 1..(b - 1) : RowsOf(c) \cap (Tickets \X {a}) # {}

\* A row for each holder whose ticket is VALID or PENDING now, if any
MakeRows(s) ==
    /\ At(s, "make")
    /\ \E holders \in SUBSET Audience[On(s)] :
         \/ holders # {} /\ ~Exists(On(s)) /\ Fail(s)
         \/ /\ holders = {} \/ Exists(On(s))
            /\ LET c == On(s)
                   written == [r \in Recipients |-> IF r \in holders \X {NewBatch(c)}
                                                    THEN "PENDING" ELSE rows[c][r]]
               IN /\ rows' = [rows EXCEPT ![c] = written]
                  /\ Goto(s, IF holders = {} THEN [MailTo(s, written) EXCEPT !.left = {}]
                             ELSE MailTo(s, written))
            /\ UNCHANGED <<campaign, queue, mailed, overlap>>

\* Once its answer or its record is lost, nothing is promised of a message
Received(c, t, known) ==
    mailed' = [mailed EXCEPT ![c][t] =
                IF ~known \/ @ = "unsure" THEN "unsure" ELSE IF @ = "no" THEN "once" ELSE "twice"]

Recorded(s, r, ok) ==
    /\ rows' = [rows EXCEPT ![On(s)][r] = IF ok THEN "SENT" ELSE "FAILED"]
    /\ Goto(s, [job[s] EXCEPT !.left = @ \ {r}, !.sent = @ \/ ok, !.failed = @ \/ ~ok])

\* dispatchCampaign, one message and its record: taken by the mail server, its
\* answer coming or not, or refused, or without an address for the channel
MailOne(s) ==
    /\ At(s, "mail")
    /\ \E r \in job[s].left :
         \/ ~Exists(On(s)) /\ Fail(s)
         \/ /\ Exists(On(s))
            /\ \/ \E answered \in BOOLEAN :
                    Recorded(s, r, answered) /\ Received(On(s), r[1], answered)
               \/ Recorded(s, r, FALSE) /\ UNCHANGED mailed
            /\ UNCHANGED <<campaign, queue, overlap>>

\* Mutants: failures are not counted; a status that does not exist
FinalSent(j) == "SENT"
FinalMisnamed(j) == IF j.failed THEN "PARTIAL" ELSE "SENT"

FinalStatus(j) ==
    IF ~j.failed THEN "SENT" ELSE IF ~j.sent THEN "FAILED" ELSE "PARTIALLY_SENT"

\* Mutant: only over SENDING, which the round never writes
FinishSending(s) ==
    /\ At(s, "mail") /\ job[s].left = {}
    /\ \/ ~Exists(On(s)) /\ Fail(s)
       \/ /\ Exists(On(s))
          /\ IF Status(On(s)) = "SENDING" THEN Write(On(s), FinalStatus(job[s]), FALSE)
             ELSE UNCHANGED campaign
          /\ Goto(s, Idle)
          /\ UNCHANGED <<rows, queue, mailed, overlap>>

\* The last write, whatever the status has become
Finish(s) ==
    /\ At(s, "mail") /\ job[s].left = {}
    /\ \/ ~Exists(On(s)) /\ Fail(s)
       \/ /\ Exists(On(s))
          /\ Write(On(s), FinalStatus(job[s]), FALSE)
          /\ Goto(s, Idle)
          /\ UNCHANGED <<rows, queue, mailed, overlap>>

\* A read or a write is refused, perhaps the record of a message that was taken.
\* The round writes FAILED and goes on, or ends if that write is refused too; a
\* campaign sent by hand keeps its status
Break(s) ==
    /\ InHand(s) /\ Exists(On(s)) /\ Goto(s, Idle)
    /\ \/ UNCHANGED mailed
       \/ At(s, "mail") /\ \E r \in job[s].left : Received(On(s), r[1], FALSE)
    /\ \/ s = Cron /\ Write(On(s), "FAILED", FALSE) /\ UNCHANGED queue
       \/ /\ campaign' = [campaign EXCEPT ![On(s)].dead = TRUE]
          /\ queue' = IF s = Cron THEN {} ELSE queue
    /\ UNCHANGED <<rows, overlap>>

(***************************************************************************)
(* The process dies: a campaign being sent stays SENDING.                  *)
(***************************************************************************)
Dies ==
    /\ job' = [s \in Senders |-> Idle] /\ queue' = {}
    /\ campaign' = [c \in Campaigns |-> [campaign[c] EXCEPT
                      !.dead = Exists(c) /\ (@ \/ UnderWay(c))]]
    /\ UNCHANGED <<rows, overlap>>

Crash == Dies /\ UNCHANGED mailed

\* The mail server took the message, its row does not say so
CrashBeforeRecord(s) ==
    /\ At(s, "mail") /\ Exists(On(s))
    /\ \E r \in job[s].left : Received(On(s), r[1], FALSE)
    /\ Dies

Step(s) ==
    \/ MarkSending(s) \/ CountRows(s) \/ MakeRows(s) \/ MailOne(s) \/ Finish(s)

Next ==
    \/ \E c \in Campaigns :
         \/ Create(c) \/ Schedule(c) \/ TimeComes(c) \/ Delete(c) \/ NextOfRound(c)
         \/ \E s \in Requests : StartSending(s, c)
    \/ \E s \in Senders : Step(s) \/ Break(s) \/ CrashBeforeRecord(s)
    \/ StartRound \/ Crash

\* The scheduler fires every day, a round goes on to the next campaign, a sender
\* that can go on does, and neither the process dies nor the database refuses for ever
Fairness ==
    /\ <>[][~(Crash \/ \E s \in Senders : Break(s) \/ CrashBeforeRecord(s))]_vars
    /\ WF_vars(StartRound) /\ WF_vars(\E c \in Campaigns : NextOfRound(c))
    /\ \A s \in Senders : WF_vars(Step(s))

Spec == Init /\ [][Next]_vars /\ Fairness

(***************************************************************************)
(* Properties.                                                             *)
(***************************************************************************)
\* Whatever is sent again, scheduled again or left by a dead process, a campaign is
\* not received twice for one ticket, unless two senders had it in hand together or
\* the mail server took a message whose answer, or record, was lost
OncePerTicket ==
    \A c \in Campaigns, t \in Tickets : mailed[c][t] # "twice"

\* The status tells the truth: SENT means, when no sender is at work nor broke off,
\* that every recipient was served; SENDING that a sender is, or died or broke off
StatusTellsTruth ==
    \A c \in Campaigns :
        /\ Status(c) = "SENT" /\ ~UnderWay(c) /\ ~campaign[c].dead /\ c \notin overlap =>
             \A r \in RowsOf(c) : rows[c][r] = "SENT" /\ mailed[c][r[1]] # "no"
        /\ Status(c) = "SENDING" /\ ~campaign[c].dead => UnderWay(c)

\* A scheduled campaign whose time has come is sent, or put off, or deleted,
\* even when a campaign of the same round is deleted under the scheduler
DueIsSent == \A c \in Campaigns : c \in DueNow ~> c \notin DueNow
=============================================================================
