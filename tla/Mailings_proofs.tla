--------------------------- MODULE Mailings_proofs ---------------------------
(***************************************************************************)
(* Proofs about Mailings for any number of campaigns, holders and senders, *)
(* in two layers: what each sender holds (TypeInv), and, campaign by       *)
(* campaign, what the one sender that has it in hand has still to mail     *)
(* (SendInv), without which neither property is inductive.                 *)
(***************************************************************************)
EXTENDS Mailings, TLAPS

-----------------------------------------------------------------------------
(***************************************************************************)
(* Layer 1: types.                                                         *)
(***************************************************************************)
Writings == [at : {"mark", "count", "make"}, on : Campaigns]
Rounds == [at : {"mail"}, on : Campaigns, left : SUBSET Recipients, sent : BOOLEAN,
           failed : BOOLEAN]
RowStatuses == {"none", "PENDING", "SENT", "FAILED"}
Deliveries == {"no", "once", "twice", "unsure"}

CampaignsOK ==
    /\ campaign \in [Campaigns -> [status : Statuses, due : BOOLEAN, dead : BOOLEAN]]
    /\ rows \in [Campaigns -> [Recipients -> RowStatuses]]
    /\ \A c \in Campaigns : ~Exists(c) => RowsOf(c) = {}
    /\ queue \subseteq Campaigns
    /\ mailed \in [Campaigns -> [Tickets -> Deliveries]]
    /\ overlap \subseteq Campaigns
JobsOK == job \in [Senders -> {Idle} \cup Writings \cup Rounds]

TypeInv == CampaignsOK /\ JobsOK

LEMMA JobAt ==
    ASSUME JobsOK, NEW s \in Senders
    PROVE  /\ job[s].at \in {"mark", "count", "make"} => job[s] \in Writings
           /\ job[s].at = "mail" => job[s] \in Rounds
           /\ job[s].at = "idle" => job[s] = Idle
           /\ job[s].at # "idle" => job[s] # Idle /\ On(s) \in Campaigns
<1>1. job[s] \in {Idle} \cup Writings \cup Rounds
  BY DEF JobsOK
<1>2. \A j \in Writings : j.at \in {"mark", "count", "make"} /\ j.on \in Campaigns
  BY DEF Writings
<1>3. \A j \in Rounds : j.at = "mail" /\ j.on \in Campaigns
  BY DEF Rounds
<1>4. Idle.at = "idle"
  BY DEF Idle
<1> QED
  BY <1>1, <1>2, <1>3, <1>4 DEF On

LEMMA TypeInvImplies == TypeInv => TypeOK
<1> SUFFICES ASSUME TypeInv PROVE TypeOK
  OBVIOUS
<1>1. \A s \in Senders : LET j == job[s] IN
         \/ j = Idle
         \/ j.at \in {"mark", "count", "make"} /\ j.on \in Campaigns
         \/ /\ j.at = "mail" /\ j.on \in Campaigns /\ j.left \subseteq Recipients
            /\ j.sent \in BOOLEAN /\ j.failed \in BOOLEAN
  BY DEF TypeInv, JobsOK, Writings, Rounds
<1> QED
  BY <1>1 DEF TypeInv, CampaignsOK, RowStatuses, Deliveries, TypeOK

LEMMA InitTypeInv == Init => TypeInv
<1> SUFFICES ASSUME Init PROVE TypeInv
  OBVIOUS
<1>1. \A c \in Campaigns : RowsOf(c) = {}
  BY DEF Init, RowsOf
<1> QED
  BY <1>1 DEF Init, TypeInv, CampaignsOK, JobsOK, Statuses, RowStatuses, Deliveries

LEMMA StepTypeInv == TypeInv /\ [Next]_vars => TypeInv'
<1> SUFFICES ASSUME TypeInv, [Next]_vars PROVE TypeInv'
  OBVIOUS
<1>a. CampaignsOK /\ JobsOK
  BY DEF TypeInv
\* What a step leaves alone, and the parts most steps change
<1>j. ASSUME NEW s \in Senders, NEW j \in {Idle} \cup Writings \cup Rounds, Goto(s, j)
      PROVE  JobsOK'
  BY <1>a, <1>j DEF JobsOK, Goto
<1>u. UNCHANGED job => JobsOK'
  BY <1>a DEF JobsOK
<1>c. ASSUME UNCHANGED <<campaign, rows>>, queue' \subseteq Campaigns, overlap' \subseteq Campaigns,
             mailed' \in [Campaigns -> [Tickets -> Deliveries]]
      PROVE  CampaignsOK'
  BY <1>a, <1>c DEF CampaignsOK, Exists, Status, RowsOf
<1>w. ASSUME NEW c \in Campaigns, NEW status \in Statuses, NEW due \in BOOLEAN,
             Write(c, status, due), status \notin {"NONE", "DELETED"} \/ RowsOf(c)' = {},
             queue' \subseteq Campaigns, overlap' \subseteq Campaigns,
             mailed' \in [Campaigns -> [Tickets -> Deliveries]],
             UNCHANGED rows \/ rows' = [rows EXCEPT ![c] = [r \in Recipients |-> "none"]]
      PROVE  CampaignsOK'
  <2>1. campaign' \in [Campaigns -> [status : Statuses, due : BOOLEAN, dead : BOOLEAN]]
    BY <1>a, <1>w DEF CampaignsOK, Write
  <2>0. campaign' = [campaign EXCEPT ![c] = [status |-> status, due |-> due, dead |-> FALSE]]
    BY <1>w DEF Write
  <2>2. campaign'[c].status = status /\ \A d \in Campaigns : d # c => campaign'[d] = campaign[d]
    BY <1>a, <2>0 DEF CampaignsOK
  <2>3. rows' \in [Campaigns -> [Recipients -> RowStatuses]]
        /\ \A d \in Campaigns : d # c => rows'[d] = rows[d]
    <3>1. CASE UNCHANGED rows
      BY <1>a, <3>1 DEF CampaignsOK
    <3>2. CASE rows' = [rows EXCEPT ![c] = [r \in Recipients |-> "none"]]
      BY <1>a, <3>2 DEF CampaignsOK, RowStatuses
    <3> QED
      BY <1>w, <3>1, <3>2
  <2>4. ASSUME NEW d \in Campaigns, ~Exists(d)' PROVE RowsOf(d)' = {}
    <3>1. CASE d = c
      BY <1>w, <2>2, <2>4, <3>1 DEF Exists, Status
    <3>2. CASE d # c
      BY <1>a, <2>2, <2>3, <2>4, <3>2 DEF CampaignsOK, Exists, Status, RowsOf
    <3> QED
      BY <3>1, <3>2
  <2> QED
    BY <1>w, <2>1, <2>3, <2>4 DEF CampaignsOK
<1>t. ASSUME NEW c \in Campaigns, NEW s \in Senders, Take(s, c)
      PROVE  /\ JobsOK'
             /\ overlap' \subseteq Campaigns /\ mailed' \in [Campaigns -> [Tickets -> Deliveries]]
  <2>1. [at |-> "count", on |-> c] \in Writings
    BY DEF Writings
  <2> QED
    BY <1>a, <1>j, <1>t, <2>1 DEF Take, CampaignsOK, Deliveries
<1>f. ASSUME NEW s \in Senders, Fail(s) PROVE TypeInv'
  BY <1>a, <1>f, <1>j, <1>c DEF Fail, CampaignsOK, TypeInv
<1>x. ASSUME NEW c \in Campaigns, Create(c) \/ Schedule(c) \/ TimeComes(c) PROVE TypeInv'
  <2>1. \E status \in Statuses \ {"NONE", "DELETED"}, due \in BOOLEAN : Write(c, status, due)
    BY <1>x DEF Create, Schedule, TimeComes, Statuses
  <2>2. UNCHANGED <<rows, job, queue, mailed, overlap>>
    BY <1>x DEF Create, Schedule, TimeComes, Others
  <2> QED
    BY <1>a, <1>w, <1>u, <2>1, <2>2 DEF TypeInv, CampaignsOK
<1>1. ASSUME NEW c \in Campaigns, Delete(c) PROVE TypeInv'
  <2>1. rows' = [rows EXCEPT ![c] = [r \in Recipients |-> "none"]] /\ Write(c, "DELETED", FALSE)
        /\ UNCHANGED <<job, queue>>
    BY <1>1 DEF Delete
  <2>2. RowsOf(c)' = {}
    BY <1>a, <2>1 DEF CampaignsOK, RowsOf
  <2>3. mailed' \in [Campaigns -> [Tickets -> Deliveries]] /\ overlap' \subseteq Campaigns
    BY <1>1, <1>a DEF Delete, CampaignsOK, Deliveries
  <2> QED
    BY <1>a, <1>w, <1>u, <2>1, <2>2, <2>3 DEF TypeInv, CampaignsOK, Statuses
<1>2. ASSUME NEW c \in Campaigns, NEW s \in Requests, StartSending(s, c) PROVE TypeInv'
  <2>1. [at |-> "mark", on |-> c] \in Writings
    BY DEF Writings
  <2> QED
    BY <1>2, <1>a, <1>j, <1>c, <2>1 DEF StartSending, TypeInv, CampaignsOK, Senders
<1>3. ASSUME NEW c \in Campaigns, NextOfRound(c) PROVE TypeInv'
  <2>1. Cron \in Senders
    BY DEF Senders
  <2> QED
    BY <1>3, <1>a, <1>t, <1>c, <2>1 DEF NextOfRound, TypeInv, CampaignsOK
<1>4. ASSUME NEW s \in Senders, MarkSending(s) PROVE TypeInv'
  <2>1. CASE Fail(s)
    BY <1>f, <2>1
  <2>2. CASE Exists(On(s)) /\ Write(On(s), "SENDING", FALSE) /\ Take(s, On(s)) /\ UNCHANGED <<rows, queue>>
    <3>1. On(s) \in Campaigns
      BY <1>4, <1>a, JobAt DEF MarkSending, At
    <3> QED
      BY <1>a, <1>t, <1>w, <2>2, <3>1 DEF TypeInv, CampaignsOK, Statuses
  <2> QED
    BY <1>4, <2>1, <2>2 DEF MarkSending
<1>m. ASSUME NEW s \in Senders, On(s) \in Campaigns, NEW written PROVE MailTo(s, written) \in Rounds
  BY <1>m DEF MailTo, Rounds, On
<1>5. ASSUME NEW s \in Senders, CountRows(s) PROVE TypeInv'
  <2>1. job[s] \in Writings /\ On(s) \in Campaigns
    BY <1>5, <1>a, JobAt DEF CountRows, At
  <2>2. [job[s] EXCEPT !.at = "make"] \in Writings
    BY <2>1 DEF Writings
  <2>3. MailTo(s, rows[On(s)]) \in Rounds
    BY <2>1, <1>m
  <2>4. JobsOK'
    BY <1>5, <1>j, <2>2, <2>3 DEF CountRows
  <2> QED
    BY <1>5, <1>a, <1>c, <2>4 DEF CountRows, TypeInv, CampaignsOK
<1>6. ASSUME NEW s \in Senders, MakeRows(s) PROVE TypeInv'
  <2> DEFINE c == On(s)
             made(holders) == [r \in Recipients |-> IF r \in holders \X {NewBatch(c)}
                                                    THEN "PENDING" ELSE rows[c][r]]
  <2>1. PICK holders \in SUBSET Audience[c] :
           \/ Fail(s)
           \/ /\ holders = {} \/ Exists(c)
              /\ rows' = [rows EXCEPT ![c] = made(holders)]
              /\ Goto(s, IF holders = {} THEN [MailTo(s, made(holders)) EXCEPT !.left = {}]
                         ELSE MailTo(s, made(holders)))
              /\ UNCHANGED <<campaign, queue, mailed, overlap>>
    BY <1>6 DEF MakeRows
  <2>2. c \in Campaigns
    BY <1>6, <1>a, JobAt DEF MakeRows, At
  <2>3. CASE Fail(s)
    BY <1>f, <2>3
  <2>4. CASE ~Fail(s)
    <3>1. made(holders) \in [Recipients -> RowStatuses]
      BY <1>a, <2>2 DEF CampaignsOK, RowStatuses
    <3>2. holders = {} => \A r \in Recipients : made(holders)[r] = rows[c][r]
      OBVIOUS
    <3>3. MailTo(s, made(holders)) \in Rounds
      BY <2>2, <1>m
    <3>4. [MailTo(s, made(holders)) EXCEPT !.left = {}] \in Rounds
      BY <3>3 DEF Rounds
    <3> HIDE DEF made
    <3>5. JobsOK'
      BY <1>j, <2>1, <2>4, <3>3, <3>4
    <3>6. rows' \in [Campaigns -> [Recipients -> RowStatuses]]
      BY <1>a, <2>1, <2>2, <2>4, <3>1 DEF CampaignsOK
    <3>7. \A d \in Campaigns : d # c => rows'[d] = rows[d]
      BY <1>a, <2>1, <2>4 DEF CampaignsOK
    <3>8. ~Exists(c) => \A r \in Recipients : rows'[c][r] = rows[c][r]
      BY <1>a, <2>1, <2>2, <2>4, <3>2 DEF CampaignsOK
    <3>9. ASSUME NEW d \in Campaigns, ~Exists(d)' PROVE RowsOf(d)' = {}
      <4>1. ~Exists(d) /\ RowsOf(d) = {}
        BY <1>a, <2>1, <2>4, <3>9 DEF CampaignsOK, Exists, Status
      <4> QED
        BY <3>7, <3>8, <4>1 DEF RowsOf
    <3> QED
      BY <1>a, <2>1, <2>4, <3>5, <3>6, <3>9 DEF TypeInv, CampaignsOK
  <2> QED
    BY <2>3, <2>4
<1>r. ASSUME NEW c \in Campaigns, NEW t \in Tickets, NEW known \in BOOLEAN, Received(c, t, known)
      PROVE  mailed' \in [Campaigns -> [Tickets -> Deliveries]]
  BY <1>a, <1>r DEF CampaignsOK, Received, Deliveries
<1>7. ASSUME NEW s \in Senders, MailOne(s) PROVE TypeInv'
  <2>1. PICK r \in job[s].left :
           \/ Fail(s)
           \/ /\ Exists(On(s))
              /\ \/ \E answered \in BOOLEAN :
                      Recorded(s, r, answered) /\ Received(On(s), r[1], answered)
                 \/ Recorded(s, r, FALSE) /\ UNCHANGED mailed
              /\ UNCHANGED <<campaign, queue, overlap>>
    BY <1>7 DEF MailOne
  <2>2. On(s) \in Campaigns /\ job[s] \in Rounds
    BY <1>7, <1>a, JobAt DEF MailOne, At
  <2>3. r \in Recipients /\ r[1] \in Tickets
    BY <2>2 DEF Rounds, Recipients
  <2>4. CASE Fail(s)
    BY <1>f, <2>4
  <2>5. CASE ~Fail(s)
    <3>1. PICK ok \in BOOLEAN : Recorded(s, r, ok)
      BY <2>1, <2>5
    <3>0. UNCHANGED mailed \/ \E known \in BOOLEAN : Received(On(s), r[1], known)
      BY <2>1, <2>5
    <3>2. mailed' \in [Campaigns -> [Tickets -> Deliveries]]
      BY <1>a, <1>r, <2>2, <2>3, <3>0 DEF CampaignsOK
    <3>3. [job[s] EXCEPT !.left = @ \ {r}, !.sent = @ \/ ok, !.failed = @ \/ ~ok] \in Rounds
      BY <2>2 DEF Rounds
    <3>4. JobsOK'
      BY <1>j, <3>1, <3>3 DEF Recorded
    <3>5. rows' \in [Campaigns -> [Recipients -> RowStatuses]]
          /\ \A d \in Campaigns : d # On(s) => rows'[d] = rows[d]
      BY <1>a, <2>2, <3>1 DEF Recorded, CampaignsOK, RowStatuses
    <3>6. \A d \in Campaigns : ~Exists(d)' => d # On(s) /\ ~Exists(d)
      BY <2>1, <2>5 DEF Exists, Status
    <3>7. \A d \in Campaigns : ~Exists(d)' => RowsOf(d)' = {}
      BY <1>a, <3>5, <3>6 DEF CampaignsOK, RowsOf
    <3> QED
      BY <1>a, <2>1, <2>5, <3>2, <3>4, <3>5, <3>7 DEF TypeInv, CampaignsOK
  <2> QED
    BY <2>4, <2>5
<1>8. ASSUME NEW s \in Senders, Finish(s) PROVE TypeInv'
  <2>1. CASE Fail(s)
    BY <1>f, <2>1
  <2>2. CASE Exists(On(s)) /\ Write(On(s), FinalStatus(job[s]), FALSE) /\ Goto(s, Idle)
             /\ UNCHANGED <<rows, queue, mailed, overlap>>
    <3>1. On(s) \in Campaigns
      BY <1>8, <1>a, JobAt DEF Finish, At
    <3>2. FinalStatus(job[s]) \in Statuses \ {"NONE", "DELETED"}
      BY DEF FinalStatus, Statuses
    <3> QED
      BY <1>a, <1>j, <1>w, <2>2, <3>1, <3>2 DEF TypeInv, CampaignsOK
  <2> QED
    BY <1>8, <2>1, <2>2 DEF Finish
<1>d. ASSUME Dies, mailed' \in [Campaigns -> [Tickets -> Deliveries]] PROVE TypeInv'
  <2>1. JobsOK'
    BY <1>d DEF Dies, JobsOK
  <2>2. campaign' \in [Campaigns -> [status : Statuses, due : BOOLEAN, dead : BOOLEAN]]
        /\ \A c \in Campaigns : campaign'[c].status = campaign[c].status
    <3>1. \A c \in Campaigns : campaign[c] \in [status : Statuses, due : BOOLEAN, dead : BOOLEAN]
      BY <1>a DEF CampaignsOK
    <3>2. campaign' = [c \in Campaigns |-> [campaign[c] EXCEPT
                         !.dead = Exists(c) /\ (@ \/ UnderWay(c))]]
      BY <1>d DEF Dies
    <3>3. ASSUME NEW x \in [status : Statuses, due : BOOLEAN, dead : BOOLEAN], NEW b \in BOOLEAN
          PROVE  [x EXCEPT !.dead = b] \in [status : Statuses, due : BOOLEAN, dead : BOOLEAN]
                 /\ [x EXCEPT !.dead = b].status = x.status
      OBVIOUS
    <3>4. \A c \in Campaigns : (Exists(c) /\ (campaign[c].dead \/ UnderWay(c))) \in BOOLEAN
      OBVIOUS
    <3> QED
      BY <3>1, <3>2, <3>3, <3>4
  <2>3. UNCHANGED <<rows, overlap>> /\ queue' = {}
    BY <1>d DEF Dies
  <2> QED
    BY <1>a, <1>d, <2>1, <2>2, <2>3 DEF TypeInv, CampaignsOK, Exists, Status, RowsOf
<1>9. CASE Crash
  BY <1>9, <1>a, <1>d DEF Crash, CampaignsOK
<1>10. ASSUME NEW s \in Senders, CrashBeforeRecord(s) PROVE TypeInv'
  <2>1. On(s) \in Campaigns /\ job[s] \in Rounds
    BY <1>10, <1>a, JobAt DEF CrashBeforeRecord, At
  <2>2. \A r \in job[s].left : r[1] \in Tickets
    BY <2>1 DEF Rounds, Recipients
  <2> QED
    BY <1>10, <1>d, <1>r, <2>1, <2>2 DEF CrashBeforeRecord
<1>b. ASSUME NEW s \in Senders, Break(s) PROVE TypeInv'
  <2> DEFINE d == On(s)
  <2>1. d \in Campaigns /\ (At(s, "mail") => job[s] \in Rounds)
    BY <1>b, <1>a, JobAt DEF Break, InHand, At
  <2>2. At(s, "mail") => \A r \in job[s].left : r[1] \in Tickets
    BY <2>1 DEF Rounds, Recipients
  <2>3. mailed' \in [Campaigns -> [Tickets -> Deliveries]]
    <3>1. UNCHANGED mailed \/ (At(s, "mail") /\ \E r \in job[s].left : Received(d, r[1], FALSE))
      BY <1>b DEF Break
    <3>2. CASE UNCHANGED mailed
      BY <1>a, <3>2 DEF CampaignsOK
    <3>3. CASE At(s, "mail") /\ \E r \in job[s].left : Received(d, r[1], FALSE)
      BY <1>r, <2>1, <2>2, <3>3
    <3> QED
      BY <3>1, <3>2, <3>3
  <2>4. JobsOK' /\ UNCHANGED <<rows, overlap>> /\ Exists(d)
    BY <1>b, <1>j DEF Break
  <2>5. \/ Write(d, "FAILED", FALSE) /\ UNCHANGED queue
        \/ /\ campaign' = [campaign EXCEPT ![d].dead = TRUE]
           /\ queue' \subseteq Campaigns
    BY <1>b, <1>a DEF Break, CampaignsOK
  <2>6. CASE Write(d, "FAILED", FALSE) /\ UNCHANGED queue
    BY <1>a, <1>w, <2>1, <2>3, <2>4, <2>6 DEF TypeInv, CampaignsOK, Statuses
  <2>7. CASE campaign' = [campaign EXCEPT ![d].dead = TRUE] /\ queue' \subseteq Campaigns
    <3>1. \A c \in Campaigns : campaign[c] \in [status : Statuses, due : BOOLEAN, dead : BOOLEAN]
      BY <1>a DEF CampaignsOK
    <3>2. campaign' \in [Campaigns -> [status : Statuses, due : BOOLEAN, dead : BOOLEAN]]
          /\ \A c \in Campaigns : campaign'[c].status = campaign[c].status
      BY <1>a, <2>1, <2>7, <3>1 DEF CampaignsOK
    <3> QED
      BY <1>a, <2>3, <2>4, <2>7, <3>2 DEF TypeInv, CampaignsOK, Exists, Status, RowsOf
  <2> QED
    BY <2>5, <2>6, <2>7
<1>11. CASE StartRound
  BY <1>11, <1>a, <1>u, <1>c DEF StartRound, DueNow, TypeInv, CampaignsOK
<1>12. CASE UNCHANGED vars
  BY <1>12, <1>a, <1>u, <1>c DEF vars, TypeInv, CampaignsOK
<1> QED
  BY <1>x, <1>1, <1>2, <1>3, <1>4, <1>5, <1>6, <1>7, <1>8, <1>9, <1>10, <1>b, <1>11, <1>12 DEF Next, Step

\* Every variable of the campaigns holds what the code stores in it.
THEOREM TypeCorrect == Spec => []TypeOK
<1>1. Spec => Init /\ [][Next]_vars
  BY DEF Spec
<1>2. Spec => []TypeInv
  BY <1>1, InitTypeInv, StepTypeInv, PTL
<1> QED
  BY <1>2, TypeInvImplies, PTL

-----------------------------------------------------------------------------
(***************************************************************************)
(* Layer 2: what is left to mail.  A campaign that never was in two hands  *)
(* has one sender, which alone writes its rows: one row for each holder,   *)
(* the rows left to it not served, the others served or counted as failed. *)
(***************************************************************************)
\* Nobody works at a campaign before it exists
Untouched(c) == Status(c) = "NONE" => c \notin queue /\ \A s \in Senders : job[s] = Idle \/ On(s) # c
\* What is known of the messages
Unsure(c) == c \in overlap => \A t \in Tickets : mailed[c][t] = "unsure"
NotTwice(c) == \A t \in Tickets : mailed[c][t] # "twice"
NotOnce(c) == ~Exists(c) => \A t \in Tickets : mailed[c][t] \in {"no", "unsure"}
Served(c) == \A r \in Recipients : rows[c][r] = "SENT" => mailed[c][r[1]] # "no"

OneSender(c) == \A s, z \in Senders :
    InHand(s) /\ On(s) = c /\ InHand(z) /\ On(z) = c => s = z
NoneMade(c) == \A s \in Senders : At(s, "make") /\ On(s) = c => RowsOf(c) = {}
OneRow(c) == \A r, q \in RowsOf(c) : r[1] = q[1] => r = q
Left(c) == \A s \in Senders : At(s, "mail") /\ On(s) = c =>
    /\ \A r \in job[s].left : rows[c][r] \in {"PENDING", "FAILED"}
    /\ \A r \in RowsOf(c) \ job[s].left : rows[c][r] = "SENT" \/ (rows[c][r] = "FAILED" /\ job[s].failed)
Once(c) == \A t \in Tickets : mailed[c][t] = "once" =>
    \E r \in Recipients : r[1] = t /\ rows[c][r] = "SENT"
Alone(c) == Exists(c) /\ c \notin overlap =>
    OneSender(c) /\ NoneMade(c) /\ OneRow(c) /\ Left(c) /\ Once(c)

Truth(c) ==
    /\ Status(c) = "SENT" /\ ~UnderWay(c) /\ ~campaign[c].dead /\ c \notin overlap =>
         \A r \in RowsOf(c) : rows[c][r] = "SENT" /\ mailed[c][r[1]] # "no"
    /\ Status(c) = "SENDING" /\ ~campaign[c].dead => UnderWay(c)

Good(c) ==
    /\ Untouched(c) /\ Unsure(c) /\ NotTwice(c) /\ NotOnce(c) /\ Served(c)
    /\ Alone(c) /\ Truth(c)
SendInv == \A c \in Campaigns : Good(c)

LEMMA SendInvImplies == SendInv => OncePerTicket /\ StatusTellsTruth
  BY DEF SendInv, Good, NotTwice, Truth, OncePerTicket, StatusTellsTruth

LEMMA InitSendInv == Init => SendInv
<1> SUFFICES ASSUME Init, NEW c \in Campaigns PROVE Good(c)
  BY DEF SendInv
<1>1. Status(c) = "NONE" /\ ~Exists(c) /\ \A s \in Senders : job[s] = Idle
  BY DEF Init, Status, Exists
<1> QED
  BY <1>1 DEF Init, Good, Untouched, Unsure, NotTwice, NotOnce, Served, Alone, Truth

\* A campaign a step has nothing to do with
Keeps(c) ==
    /\ campaign'[c] = campaign[c] /\ rows'[c] = rows[c] /\ mailed'[c] = mailed[c]
    /\ c \in overlap' <=> c \in overlap
    /\ c \in queue' => c \in queue
    /\ \A s \in Senders : \/ job'[s] = job[s]
                          \/ (job[s] = Idle \/ On(s) # c) /\ (job'[s] = Idle \/ job'[s].on # c)

LEMMA KeptIsGood == ASSUME NEW c \in Campaigns, Good(c), Keeps(c) PROVE Good(c)'
<1>1. (Exists(c)' <=> Exists(c)) /\ Status(c)' = Status(c) /\ RowsOf(c)' = RowsOf(c)
  BY DEF Keeps, Exists, Status, RowsOf
<1>2. \A s \in Senders, step \in {"make", "mail", "count"} :
         job'[s].at = step /\ job'[s].on = c => job'[s] = job[s]
  BY DEF Keeps, Idle
<1>3. \A s \in Senders, step \in {"make", "mail", "count"} :
         job[s].at = step /\ job[s].on = c => job'[s] = job[s]
  BY DEF Keeps, Idle, On
<1>4. UnderWay(c)' <=> UnderWay(c)
  BY <1>2, <1>3 DEF UnderWay, InHand, On
<1>5. Untouched(c)'
  BY <1>1 DEF Good, Keeps, Untouched, On
<1>6. Unsure(c)' /\ NotTwice(c)' /\ NotOnce(c)' /\ Served(c)'
  BY <1>1 DEF Good, Keeps, Unsure, NotTwice, NotOnce, Served
<1>7. Truth(c)'
  BY <1>1, <1>4 DEF Good, Keeps, Truth
<1>8. Alone(c)'
  <2> SUFFICES ASSUME Exists(c)', ~(c \in overlap')
               PROVE  OneSender(c)' /\ NoneMade(c)' /\ OneRow(c)' /\ Left(c)' /\ Once(c)'
    BY DEF Alone
  <2>1. OneSender(c) /\ NoneMade(c) /\ OneRow(c) /\ Left(c) /\ Once(c)
    BY <1>1 DEF Good, Alone, Keeps
  <2>2. OneSender(c)'
    BY <1>2, <2>1 DEF OneSender, InHand, On
  <2>3. NoneMade(c)'
    BY <1>1, <1>2, <2>1 DEF NoneMade, At, On
  <2>4. OneRow(c)' /\ Once(c)'
    BY <1>1, <2>1 DEF OneRow, Once, Keeps
  <2>5. Left(c)'
    BY <1>1, <1>2, <2>1 DEF Left, At, On, Keeps
  <2> QED
    BY <2>2, <2>3, <2>4, <2>5
<1> QED
  BY <1>5, <1>6, <1>7, <1>8 DEF Good

\* A sender takes a campaign in hand, having written SENDING or not.
LEMMA TakenIsGood ==
    ASSUME TypeInv, NEW c \in Campaigns, NEW s \in Senders, Good(c), Take(s, c), ~InHand(s),
           UNCHANGED rows, c \in queue' => c \in queue,
           Status(c)' # "NONE", Exists(c)' <=> Exists(c)
    PROVE  Good(c)'
<1>a. CampaignsOK /\ JobsOK
  BY DEF TypeInv
<1>1. job'[s] = [at |-> "count", on |-> c] /\ \A z \in Senders : z # s => job'[z] = job[z]
  BY <1>a DEF Take, Goto, JobsOK
<1>2. RowsOf(c)' = RowsOf(c)
  BY DEF RowsOf
<1>3. UnderWay(c)'
  BY <1>1 DEF UnderWay, InHand, On
<1>4. Untouched(c)' /\ Truth(c)'
  BY <1>2, <1>3 DEF Untouched, Truth
<1>5. CASE UnderWay(c)
  <2>1. c \in overlap' /\ \A t \in Tickets : mailed'[c][t] = "unsure"
    BY <1>a, <1>5 DEF Take, CampaignsOK
  <2> QED
    BY <1>4, <2>1 DEF Good, Unsure, NotTwice, NotOnce, Served, Alone, Recipients
<1>6. CASE ~UnderWay(c)
  <2>1. UNCHANGED <<overlap, mailed>>
    BY <1>6 DEF Take
  <2>2. \A z \in Senders : InHand(z)' /\ On(z)' = c => z = s
    BY <1>1, <1>6 DEF UnderWay, InHand, On
  <2>3. Unsure(c)' /\ NotTwice(c)' /\ NotOnce(c)' /\ Served(c)'
    BY <2>1 DEF Good, Unsure, NotTwice, NotOnce, Served
  <2>4. Alone(c)'
    <3> SUFFICES ASSUME Exists(c)', ~(c \in overlap')
                 PROVE  OneSender(c)' /\ NoneMade(c)' /\ OneRow(c)' /\ Left(c)' /\ Once(c)'
      BY DEF Alone
    <3>1. OneRow(c) /\ Once(c)
      BY <2>1 DEF Good, Alone
    <3>2. OneRow(c)' /\ Once(c)'
      BY <1>2, <2>1, <3>1 DEF OneRow, Once
    <3>3. OneSender(c)'
      BY <2>2 DEF OneSender
    <3>4. \A z \in Senders : At(z, "make")' \/ At(z, "mail")' => ~(On(z)' = c)
      BY <1>1, <2>2 DEF At, InHand, On
    <3> QED
      BY <3>2, <3>3, <3>4 DEF NoneMade, Left
  <2> QED
    BY <1>4, <2>3, <2>4 DEF Good
<1> QED
  BY <1>5, <1>6

LEMMA StepSendInv == TypeInv /\ SendInv /\ [Next]_vars => SendInv'
<1> SUFFICES ASSUME TypeInv, SendInv, [Next]_vars, NEW c \in Campaigns PROVE Good(c)'
  BY DEF SendInv
<1>a. CampaignsOK /\ JobsOK
  BY DEF TypeInv
<1>t. TypeInv'
  BY StepTypeInv
<1>g. Good(c)
  BY DEF SendInv
<1>e. ~Exists(c) => RowsOf(c) = {}
  BY <1>a DEF CampaignsOK
\* A step of one sender, for the other campaigns
<1>o. ASSUME NEW s \in Senders, NEW j, Goto(s, j), job[s] = Idle \/ On(s) # c, j = Idle \/ j.on # c,
             campaign'[c] = campaign[c], rows'[c] = rows[c], mailed'[c] = mailed[c],
             c \in overlap' <=> c \in overlap, c \in queue' => c \in queue
      PROVE  Good(c)'
  <2>1. job'[s] = j /\ \A z \in Senders : z # s => job'[z] = job[z]
    BY <1>a, <1>o DEF JobsOK, Goto
  <2> QED
    BY <1>g, <1>o, <2>1, KeptIsGood DEF Keeps
\* A status written, and nothing else
<1>w. ASSUME NEW d \in Campaigns, NEW status, NEW due, Write(d, status, due)
      PROVE  /\ d # c => campaign'[c] = campaign[c]
             /\ d = c => Status(c)' = status /\ campaign'[c].dead = FALSE
  BY <1>a, <1>w DEF CampaignsOK, Write, Status
<1>q. ASSUME campaign'[c] = campaign[c], rows'[c] = rows[c], mailed'[c] = mailed[c],
             UNCHANGED <<job, overlap>>, c \in queue' => c \in queue
      PROVE  Good(c)'
  BY <1>g, <1>q, KeptIsGood DEF Keeps
<1>1. ASSUME NEW d \in Campaigns, Create(d) \/ Schedule(d) \/ TimeComes(d) PROVE Good(c)'
  <2>1. PICK status \in {"DRAFT", "SCHEDULED"}, due \in BOOLEAN : Write(d, status, due)
    BY <1>1 DEF Create, Schedule, TimeComes
  <2>2. UNCHANGED <<rows, job, queue, mailed, overlap>>
    BY <1>1 DEF Create, Schedule, TimeComes, Others
  <2>3. CASE d # c
    BY <1>w, <1>q, <2>1, <2>2, <2>3
  <2>4. CASE d = c
    <3>1. Status(c)' = status /\ RowsOf(c)' = RowsOf(c)
      BY <1>w, <2>1, <2>2, <2>4 DEF RowsOf
    <3>2. Untouched(c)' /\ Unsure(c)' /\ NotTwice(c)' /\ NotOnce(c)' /\ Served(c)' /\ Truth(c)'
      BY <1>g, <2>1, <2>2, <3>1
         DEF Good, Untouched, Unsure, NotTwice, NotOnce, Served, Truth, Exists
    <3>3. CASE Exists(c)
      BY <1>g, <2>2, <3>1, <3>2, <3>3
         DEF Good, Alone, OneSender, NoneMade, OneRow, Left, Once, InHand, At, On
    <3>4. CASE ~Exists(c)
      <4>1. Status(c) = "NONE"
        BY <1>1, <2>4, <3>4 DEF Create, Schedule, TimeComes, Exists
      <4>2. \A s \in Senders : job[s] = Idle \/ On(s) # c
        BY <1>g, <4>1 DEF Good, Untouched
      <4>3. RowsOf(c)' = {} /\ \A t \in Tickets : mailed'[c][t] # "once"
        BY <1>e, <1>g, <2>2, <3>1, <3>4 DEF Good, NotOnce
      <4>4. \A s \in Senders : ~(InHand(s)' /\ On(s)' = c)
        BY <2>2, <4>2 DEF InHand, On, Idle
      <4>5. Alone(c)'
        BY <4>3, <4>4 DEF Alone, OneSender, NoneMade, OneRow, Left, Once, InHand, At
      <4> QED
        BY <3>2, <4>5 DEF Good
    <3> QED
      BY <3>3, <3>4
  <2> QED
    BY <2>3, <2>4
<1>2. ASSUME NEW d \in Campaigns, Delete(d) PROVE Good(c)'
  <2>1. /\ Write(d, "DELETED", FALSE)
        /\ rows' = [rows EXCEPT ![d] = [r \in Recipients |-> "none"]]
        /\ mailed' = [mailed EXCEPT ![d] = [t \in Tickets |-> "no"]]
        /\ overlap' = overlap \ {d}
        /\ UNCHANGED <<job, queue>>
    BY <1>2 DEF Delete
  <2>2. CASE d # c
    <3>1. campaign'[c] = campaign[c] /\ rows'[c] = rows[c] /\ mailed'[c] = mailed[c]
          /\ (c \in overlap' <=> c \in overlap)
      BY <1>a, <1>w, <2>1, <2>2 DEF CampaignsOK
    <3> QED
      BY <1>g, <2>1, <3>1, KeptIsGood DEF Keeps
  <2>3. CASE d = c
    <3>1. Status(c)' = "DELETED" /\ ~Exists(c)'
      BY <1>w, <2>1, <2>3 DEF Exists, Status
    <3>2. (\A r \in Recipients : rows'[c][r] = "none") /\ (\A t \in Tickets : mailed'[c][t] = "no")
          /\ c \notin overlap'
      BY <1>a, <2>1, <2>3 DEF CampaignsOK
    <3> QED
      BY <3>1, <3>2 DEF Good, Untouched, Unsure, NotTwice, NotOnce, Served, Alone, Truth
  <2> QED
    BY <2>2, <2>3
<1>3. ASSUME NEW d \in Campaigns, NEW s \in Requests, StartSending(s, d) PROVE Good(c)'
  <2>1. s \in Senders /\ job[s] = Idle /\ Exists(d) /\ Goto(s, [at |-> "mark", on |-> d])
        /\ UNCHANGED <<campaign, rows, queue, mailed, overlap>>
    BY <1>3, <1>a, JobAt DEF StartSending, Senders, At
  <2>2. CASE d # c
    BY <1>o, <2>1, <2>2
  <2>3. CASE d = c
    <3>1. job'[s] = [at |-> "mark", on |-> c] /\ \A z \in Senders : z # s => job'[z] = job[z]
      BY <1>a, <2>1, <2>3 DEF JobsOK, Goto
    <3>2. \A z \in Senders : InHand(z)' /\ On(z)' = c => InHand(z) /\ On(z) = c /\ job'[z] = job[z]
      BY <3>1 DEF InHand, On
    <3>3. UnderWay(c)' <=> UnderWay(c)
      BY <2>1, <3>1, <3>2 DEF UnderWay, InHand, On, Idle
    <3>4. Untouched(c)' /\ Unsure(c)' /\ NotTwice(c)' /\ NotOnce(c)' /\ Served(c)' /\ Truth(c)'
      BY <1>g, <2>1, <2>3, <3>3
         DEF Good, Untouched, Unsure, NotTwice, NotOnce, Served, Truth, Exists, Status, RowsOf
    <3>5. RowsOf(c)' = RowsOf(c)
      BY <2>1 DEF RowsOf
    <3>6. Alone(c)'
      BY <1>g, <2>1, <2>3, <3>2, <3>5
         DEF Good, Alone, OneSender, NoneMade, OneRow, Left, Once, InHand, At, On
    <3> QED
      BY <3>4, <3>6 DEF Good
  <2> QED
    BY <2>2, <2>3
\* A sender whose campaign is gone
<1>f. ASSUME NEW s \in Senders, Fail(s), On(s) \in Campaigns, ~Exists(On(s)) PROVE Good(c)'
  <2>1. Goto(s, Idle) /\ UNCHANGED <<campaign, rows, mailed, overlap>> /\ (c \in queue' => c \in queue)
    BY <1>f DEF Fail
  <2>2. CASE On(s) # c
    BY <1>o, <2>1, <2>2
  <2>3. CASE On(s) = c
    <3>1. ~Exists(c)' /\ Status(c)' = Status(c)
      BY <1>f, <2>1, <2>3 DEF Exists, Status
    <3>2. \A z \in Senders : job'[z] = job[z] \/ job'[z] = Idle
      BY <1>a, <2>1 DEF JobsOK, Goto
    <3>3. Untouched(c)'
      BY <1>g, <2>1, <3>1, <3>2 DEF Good, Untouched, On
    <3> QED
      BY <1>g, <1>f, <2>1, <3>1, <3>3
         DEF Good, Unsure, NotTwice, NotOnce, Served, Alone, Truth, Exists
  <2> QED
    BY <2>2, <2>3
\* Another campaign of a sender that takes one in hand
<1>k. ASSUME NEW d \in Campaigns, d # c, NEW s \in Senders, Take(s, d), job[s] = Idle \/ On(s) = d,
             UNCHANGED rows, c \in queue' => c \in queue, campaign'[c] = campaign[c]
      PROVE  Good(c)'
  <2>1. mailed'[c] = mailed[c] /\ (c \in overlap' <=> c \in overlap)
    BY <1>a, <1>k DEF Take, CampaignsOK
  <2> QED
    BY <1>k, <1>o, <2>1 DEF Take
<1>4. ASSUME NEW s \in Senders, MarkSending(s) PROVE Good(c)'
  <2>1. On(s) \in Campaigns /\ ~InHand(s)
    BY <1>4, <1>a, JobAt DEF MarkSending, At, InHand
  <2>2. CASE Fail(s)
    <3>1. Goto(s, Idle) /\ UNCHANGED <<campaign, rows, mailed, overlap>> /\ (c \in queue' => c \in queue)
      BY <2>2 DEF Fail
    <3>2. CASE On(s) # c
      BY <1>o, <3>1, <3>2
    <3>3. CASE On(s) = c
      <4>1. job'[s] = Idle /\ \A z \in Senders : z # s => job'[z] = job[z]
        BY <1>a, <3>1 DEF JobsOK, Goto
      <4>2. \A z \in Senders : (InHand(z)' <=> InHand(z)) /\ (InHand(z) => job'[z] = job[z])
        BY <2>1, <4>1 DEF InHand, Idle
      <4>3. UnderWay(c)' <=> UnderWay(c)
        BY <4>2 DEF UnderWay, On
      <4>4. Status(c)' = Status(c) /\ (Exists(c)' <=> Exists(c)) /\ RowsOf(c)' = RowsOf(c)
        BY <3>1 DEF Status, Exists, RowsOf
      <4>5. Untouched(c)'
        BY <1>g, <3>1, <4>1, <4>4 DEF Good, Untouched, On
      <4>6. Unsure(c)' /\ NotTwice(c)' /\ NotOnce(c)' /\ Served(c)'
        BY <1>g, <3>1, <4>4 DEF Good, Unsure, NotTwice, NotOnce, Served
      <4>7. Truth(c)'
        BY <1>g, <3>1, <4>3, <4>4 DEF Good, Truth
      <4>8. Alone(c)'
        <5> SUFFICES ASSUME Exists(c), ~(c \in overlap)
                     PROVE  OneSender(c)' /\ NoneMade(c)' /\ OneRow(c)' /\ Left(c)' /\ Once(c)'
          BY <3>1, <4>4 DEF Alone
        <5>1. OneSender(c) /\ NoneMade(c) /\ OneRow(c) /\ Left(c) /\ Once(c)
          BY <1>g DEF Good, Alone
        <5>2. OneSender(c)'
          BY <4>2, <5>1 DEF OneSender, On
        <5>3. NoneMade(c)' /\ Left(c)'
          BY <3>1, <4>2, <4>4, <5>1 DEF NoneMade, Left, At, InHand, On
        <5>4. OneRow(c)' /\ Once(c)'
          BY <3>1, <4>4, <5>1 DEF OneRow, Once
        <5> QED
          BY <5>2, <5>3, <5>4
      <4> QED
        BY <4>5, <4>6, <4>7, <4>8 DEF Good
    <3> QED
      BY <3>2, <3>3
  <2>3. CASE Exists(On(s)) /\ Write(On(s), "SENDING", FALSE) /\ Take(s, On(s)) /\ UNCHANGED <<rows, queue>>
    <3>1. CASE On(s) # c
      BY <1>k, <1>w, <2>1, <2>3, <3>1
    <3>2. CASE On(s) = c
      <4>1. Status(c)' = "SENDING"
        BY <1>w, <2>3, <3>2
      <4> QED
        BY <1>g, <2>1, <2>3, <3>2, <4>1, TakenIsGood DEF Exists
    <3> QED
      BY <3>1, <3>2
  <2> QED
    BY <1>4, <2>2, <2>3 DEF MarkSending
<1>5. ASSUME NEW d \in Campaigns, NextOfRound(d) PROVE Good(c)'
  <2>1. Cron \in Senders /\ job[Cron] = Idle /\ ~InHand(Cron) /\ d \in queue /\ queue' = queue \ {d}
        /\ Take(Cron, d) /\ UNCHANGED <<campaign, rows>>
    BY <1>5, <1>a, JobAt DEF NextOfRound, Senders, At, InHand
  <2>2. CASE d # c
    BY <1>k, <2>1, <2>2
  <2>3. CASE d = c
    <3>1. Status(c)' # "NONE" /\ (Exists(c)' <=> Exists(c))
      BY <1>g, <2>1, <2>3 DEF Good, Untouched, Status, Exists
    <3> QED
      BY <1>g, <2>1, <2>3, <3>1, TakenIsGood
  <2> QED
    BY <2>2, <2>3
\* A sender that has the campaign in hand goes on, and keeps it in hand or not
<1>h. ASSUME NEW s \in Senders, InHand(s), On(s) = c, NEW j, Goto(s, j), j = Idle \/ j.on = c
      PROVE  /\ job'[s] = j /\ \A z \in Senders : z # s => job'[z] = job[z]
             /\ Exists(c) /\ c \notin overlap =>
                  \A z \in Senders : z # s => ~(InHand(z) /\ On(z) = c) /\ ~(InHand(z)' /\ On(z)' = c)
             /\ Untouched(c) /\ UNCHANGED campaign /\ (c \in queue' => c \in queue) => Untouched(c)'
  <2>1. job'[s] = j /\ \A z \in Senders : z # s => job'[z] = job[z]
    BY <1>a, <1>h DEF JobsOK, Goto
  <2>2. Exists(c) /\ c \notin overlap => \A z \in Senders : z # s => ~(InHand(z) /\ On(z) = c)
    BY <1>g, <1>h DEF Good, Alone, OneSender
  <2>3. Exists(c) /\ c \notin overlap => \A z \in Senders : z # s => ~(InHand(z)' /\ On(z)' = c)
    BY <2>1, <2>2 DEF InHand, On
  <2>4. job[s] # Idle
    BY <1>h DEF InHand, Idle
  <2>5. Untouched(c) /\ UNCHANGED campaign /\ (c \in queue' => c \in queue) => Untouched(c)'
    BY <1>h, <2>1, <2>4 DEF Untouched, Status, On
  <2> QED
    BY <2>1, <2>2, <2>3, <2>5
<1>6. ASSUME NEW s \in Senders, CountRows(s) PROVE Good(c)'
  <2> DEFINE j == IF RowsOf(On(s)) # {} THEN MailTo(s, rows[On(s)]) ELSE [job[s] EXCEPT !.at = "make"]
  <2>1. On(s) \in Campaigns /\ job[s] \in Writings /\ job[s] # Idle /\ InHand(s)
    BY <1>6, <1>a, JobAt DEF CountRows, At, InHand
  <2>2. Goto(s, j) /\ UNCHANGED <<campaign, rows, queue, mailed, overlap>>
    BY <1>6 DEF CountRows
  <2>3. j.on = On(s) /\ j.at \in {"make", "mail"} /\ (j.at = "make" => RowsOf(On(s)) = {})
        /\ (j.at = "mail" => j.left = {r \in Recipients : rows[On(s)][r] \in {"PENDING", "FAILED"}})
    BY <2>1 DEF Writings, MailTo, On
  <2> HIDE DEF j
  <2>4. CASE On(s) # c
    BY <1>o, <2>2, <2>3, <2>4
  <2>5. CASE On(s) = c
    <3>1. /\ job'[s] = j
          /\ Exists(c) /\ c \notin overlap => \A z \in Senders : z # s => ~(InHand(z)' /\ On(z)' = c)
          /\ Untouched(c)'
      BY <1>g, <1>h, <2>1, <2>2, <2>3, <2>5 DEF Good
    <3>2. Unsure(c)' /\ NotTwice(c)' /\ NotOnce(c)' /\ Served(c)'
      BY <1>g, <2>2 DEF Good, Unsure, NotTwice, NotOnce, Served, Exists, Status
    <3>3. UnderWay(c)'
      BY <2>3, <2>5, <3>1 DEF UnderWay, InHand, On
    <3>4. Truth(c)'
      BY <3>3 DEF Truth
    <3>5. RowsOf(c)' = RowsOf(c)
      BY <2>2 DEF RowsOf
    <3>6. ASSUME Exists(c), c \notin overlap
          PROVE  OneSender(c)' /\ NoneMade(c)' /\ OneRow(c)' /\ Left(c)' /\ Once(c)'
      <4>1. OneSender(c)'
        BY <3>1, <3>6 DEF OneSender
      <4>2. NoneMade(c)'
        BY <2>3, <2>5, <3>1, <3>5, <3>6 DEF NoneMade, At, InHand
      <4>3. OneRow(c)' /\ Once(c)'
        BY <1>g, <2>2, <3>5, <3>6 DEF Good, Alone, OneRow, Once
      <4>4. \A r \in RowsOf(c) : rows[c][r] \in {"PENDING", "SENT", "FAILED"}
        BY <1>a DEF CampaignsOK, RowsOf, RowStatuses
      <4>5. RowsOf(c) \subseteq Recipients
        BY DEF RowsOf
      <4>6. Left(c)'
        BY <2>2, <2>3, <2>5, <3>1, <3>5, <3>6, <4>4, <4>5 DEF Left, At, InHand
      <4> QED
        BY <4>1, <4>2, <4>3, <4>6
    <3>7. Alone(c)'
      BY <2>2, <3>6 DEF Alone, Exists, Status
    <3> QED
      BY <3>1, <3>2, <3>4, <3>7 DEF Good
  <2> QED
    BY <2>4, <2>5
<1>7. ASSUME NEW s \in Senders, MakeRows(s) PROVE Good(c)'
  <2> DEFINE d == On(s)
             made(holders) == [r \in Recipients |-> IF r \in holders \X {NewBatch(d)}
                                                    THEN "PENDING" ELSE rows[d][r]]
  <2>1. PICK holders \in SUBSET Audience[d] :
           \/ ~Exists(d) /\ Fail(s)
           \/ /\ holders = {} \/ Exists(d)
              /\ rows' = [rows EXCEPT ![d] = made(holders)]
              /\ Goto(s, IF holders = {} THEN [MailTo(s, made(holders)) EXCEPT !.left = {}]
                         ELSE MailTo(s, made(holders)))
              /\ UNCHANGED <<campaign, queue, mailed, overlap>>
    BY <1>7 DEF MakeRows
  <2>2. d \in Campaigns /\ job[s] # Idle /\ InHand(s) /\ At(s, "make")
    BY <1>7, <1>a, JobAt DEF MakeRows, At, InHand
  <2>3. CASE ~Exists(d) /\ Fail(s)
    BY <1>f, <2>2, <2>3
  <2>4. CASE ~(~Exists(d) /\ Fail(s))
    <3> DEFINE w == made(holders)
               j == IF holders = {} THEN [MailTo(s, w) EXCEPT !.left = {}] ELSE MailTo(s, w)
    <3>1. rows' = [rows EXCEPT ![d] = w] /\ Goto(s, j) /\ UNCHANGED <<campaign, queue, mailed, overlap>>
      BY <2>1, <2>4
    <3>2. j.on = d /\ j.at = "mail"
          /\ j.left = (IF holders = {} THEN {} ELSE {r \in Recipients : w[r] \in {"PENDING", "FAILED"}})
      BY DEF MailTo
    <3>3. \A r \in Recipients : w[r] = IF r \in holders \X {NewBatch(d)} THEN "PENDING" ELSE rows[d][r]
      OBVIOUS
    <3>4. holders = {} => \A r \in Recipients : w[r] = rows[d][r]
      OBVIOUS
    <3> HIDE DEF j, w
    <3>5. CASE d # c
      <4>1. rows'[c] = rows[c]
        BY <1>a, <3>1, <3>5 DEF CampaignsOK
      <4> QED
        BY <1>o, <3>1, <3>2, <3>5, <4>1
    <3>6. CASE d = c
      <4>1. /\ job'[s] = j
            /\ Exists(c) /\ c \notin overlap => \A z \in Senders : z # s => ~(InHand(z)' /\ On(z)' = c)
            /\ Untouched(c)'
        BY <1>g, <1>h, <2>2, <3>1, <3>2, <3>6 DEF Good
      <4>2. \A r \in Recipients : rows'[c][r] = w[r]
        BY <1>a, <3>1, <3>6 DEF CampaignsOK
      <4>3. Served(c)'
        BY <1>g, <3>1, <3>3, <3>6, <4>2 DEF Good, Served
      <4>4. Unsure(c)' /\ NotTwice(c)' /\ NotOnce(c)'
        BY <1>g, <3>1 DEF Good, Unsure, NotTwice, NotOnce, Exists, Status
      <4>5. UnderWay(c)'
        BY <3>2, <3>6, <4>1 DEF UnderWay, InHand, On
      <4>6. Truth(c)'
        BY <4>5 DEF Truth
      <4>7. ASSUME Exists(c), c \notin overlap
            PROVE  OneSender(c)' /\ NoneMade(c)' /\ OneRow(c)' /\ Left(c)' /\ Once(c)'
        <5>1. RowsOf(c) = {}
          BY <1>g, <2>2, <3>6, <4>7 DEF Good, Alone, NoneMade
        <5>2. \A r \in Recipients : rows[c][r] = "none"
          BY <5>1 DEF RowsOf
        <5>3. RowsOf(c)' = {r \in Recipients : r \in holders \X {NewBatch(d)}}
          BY <3>3, <3>6, <4>2, <5>2 DEF RowsOf
        <5>4. \A r \in RowsOf(c)' : rows'[c][r] = "PENDING" /\ r \in holders \X {NewBatch(d)}
                                    /\ r \in Recipients
          BY <3>3, <4>2, <5>3
        <5>5. OneSender(c)' /\ NoneMade(c)'
          BY <3>2, <4>1, <4>7 DEF OneSender, NoneMade, At, InHand
        <5>6. OneRow(c)'
          BY <5>4 DEF OneRow
        <5>7. Once(c)'
          BY <1>g, <3>1, <4>7, <5>2 DEF Good, Alone, Once
        <5>8. holders = {} => RowsOf(c)' = {}
          BY <5>3
        <5>9. \A r \in j.left : rows'[c][r] \in {"PENDING", "FAILED"}
          BY <3>2, <4>2
        <5>10. RowsOf(c)' \subseteq j.left
          BY <3>2, <4>2, <5>4, <5>8
        <5>11. Left(c)'
          BY <4>1, <4>7, <5>9, <5>10 DEF Left, At, InHand
        <5> QED
          BY <5>5, <5>6, <5>7, <5>11
      <4>8. Alone(c)'
        BY <3>1, <4>7 DEF Alone, Exists, Status
      <4> QED
        BY <4>1, <4>3, <4>4, <4>6, <4>8 DEF Good
    <3> QED
      BY <3>5, <3>6
  <2> QED
    BY <2>3, <2>4
<1>8. ASSUME NEW s \in Senders, MailOne(s) PROVE Good(c)'
  <2> DEFINE d == On(s)
  <2>1. PICK r \in job[s].left :
           \/ ~Exists(d) /\ Fail(s)
           \/ /\ Exists(d)
              /\ \/ \E answered \in BOOLEAN : Recorded(s, r, answered) /\ Received(d, r[1], answered)
                 \/ Recorded(s, r, FALSE) /\ UNCHANGED mailed
              /\ UNCHANGED <<campaign, queue, overlap>>
    BY <1>8 DEF MailOne
  <2>2. d \in Campaigns /\ job[s] \in Rounds /\ job[s] # Idle /\ InHand(s) /\ At(s, "mail")
    BY <1>8, <1>a, JobAt DEF MailOne, At, InHand
  <2>3. r \in Recipients /\ r[1] \in Tickets
    BY <2>2 DEF Rounds, Recipients
  <2>4. CASE ~Exists(d) /\ Fail(s)
    BY <1>f, <2>2, <2>4
  <2>5. CASE ~(~Exists(d) /\ Fail(s))
    <3>1. PICK ok \in BOOLEAN : /\ Recorded(s, r, ok)
                                /\ Received(d, r[1], ok) \/ (~ok /\ UNCHANGED mailed)
      BY <2>1, <2>5
    <3>u. Exists(d) /\ UNCHANGED <<campaign, queue, overlap>>
      BY <2>1, <2>5
    <3> DEFINE j == [job[s] EXCEPT !.left = @ \ {r}, !.sent = @ \/ ok, !.failed = @ \/ ~ok]
    <3>2. j.on = d /\ j.at = "mail" /\ j.left = job[s].left \ {r}
          /\ (job[s].failed \/ ~ok => j.failed)
      BY <2>2 DEF Rounds, On
    <3>3. Goto(s, j) /\ rows' = [rows EXCEPT ![d][r] = IF ok THEN "SENT" ELSE "FAILED"]
      BY <3>1 DEF Recorded
    <3> HIDE DEF j
    <3>4. \A e \in Campaigns, t \in Tickets : e # d \/ t # r[1] => mailed'[e][t] = mailed[e][t]
      BY <1>a, <3>1 DEF CampaignsOK, Received
    <3>5. \/ mailed'[d][r[1]] = mailed[d][r[1]] /\ ~ok
          \/ mailed'[d][r[1]] = (IF ~ok \/ mailed[d][r[1]] = "unsure" THEN "unsure"
                                   ELSE IF mailed[d][r[1]] = "no" THEN "once" ELSE "twice")
      BY <1>a, <2>2, <2>3, <3>1 DEF CampaignsOK, Received
    <3>6. CASE d # c
      <4>1. rows'[c] = rows[c]
        BY <1>a, <3>3, <3>6 DEF CampaignsOK
      <4>2. mailed'[c] = mailed[c]
        BY <1>a, <3>1, <3>6 DEF CampaignsOK, Received
      <4> QED
        BY <1>o, <3>u, <3>2, <3>3, <3>6, <4>1, <4>2
    <3>7. CASE d = c
      <4>1. /\ job'[s] = j
            /\ Exists(c) /\ c \notin overlap => \A z \in Senders : z # s => ~(InHand(z)' /\ On(z)' = c)
            /\ Untouched(c)'
        BY <1>g, <1>h, <2>2, <3>u, <3>2, <3>3, <3>7 DEF Good
      <4>2. \A q \in Recipients : rows'[c][q] = IF q = r THEN (IF ok THEN "SENT" ELSE "FAILED")
                                                ELSE rows[c][q]
        BY <1>a, <2>3, <3>3, <3>7 DEF CampaignsOK
      <4>3. mailed[c][r[1]] \in Deliveries
        BY <1>a, <2>3 DEF CampaignsOK
      <4>4. UnderWay(c)' /\ Truth(c)'
        BY <3>2, <3>7, <4>1 DEF UnderWay, InHand, On, Truth
      <4>5. NotOnce(c)'
        BY <3>u, <3>7 DEF NotOnce, Exists, Status
      <4>6. Unsure(c)'
        BY <1>g, <3>u, <3>4, <3>5, <3>7 DEF Good, Unsure
      <4>7. Served(c)'
        <5>1. ok => mailed'[c][r[1]] # "no"
          BY <3>5, <3>7, <4>3 DEF Deliveries
        <5>2. mailed[c][r[1]] # "no" => mailed'[c][r[1]] # "no"
          BY <3>5, <3>7, <4>3 DEF Deliveries
        <5>3. \A q \in Recipients : q[1] \in Tickets
          BY DEF Recipients
        <5> QED
          BY <1>g, <3>4, <4>2, <5>1, <5>2, <5>3 DEF Good, Served
      <4>8. CASE c \in overlap
        <5>1. NotTwice(c)'
          BY <3>u, <4>6, <4>8 DEF Unsure, NotTwice
        <5> QED
          BY <3>u, <4>1, <4>4, <4>5, <4>6, <4>7, <4>8, <5>1 DEF Good, Alone
      <4>9. CASE c \notin overlap
        <5>1. OneRow(c) /\ Left(c) /\ Once(c)
          BY <1>g, <3>u, <3>7, <4>9 DEF Good, Alone
        <5>2. rows[c][r] \in {"PENDING", "FAILED"} /\ r \in RowsOf(c)
          BY <2>2, <2>3, <3>7, <5>1 DEF Left, RowsOf
        <5>3. mailed[c][r[1]] # "once"
          <6>1. SUFFICES ASSUME mailed[c][r[1]] = "once" PROVE FALSE
            OBVIOUS
          <6>2. PICK q \in Recipients : q[1] = r[1] /\ rows[c][q] = "SENT"
            BY <2>3, <5>1, <6>1 DEF Once
          <6>3. q \in RowsOf(c)
            BY <6>2 DEF RowsOf
          <6> QED
            BY <5>1, <5>2, <6>2, <6>3 DEF OneRow
        <5>4. mailed[c][r[1]] \in {"no", "unsure"}
          BY <1>g, <2>3, <4>3, <5>3 DEF Good, NotTwice, Deliveries
        <5>5. mailed'[c][r[1]] # "twice" /\ (mailed'[c][r[1]] = "once" => ok)
          <6>1. CASE ~ok
            BY <3>5, <3>7, <5>4, <6>1
          <6>2. CASE ok
            <7>1. mailed[c][r[1]] = "unsure" => mailed'[c][r[1]] = "unsure"
              BY <3>5, <3>7, <6>2
            <7>2. mailed[c][r[1]] = "no" => mailed'[c][r[1]] = "once"
              BY <3>5, <3>7, <6>2
            <7> QED
              BY <5>4, <6>2, <7>1, <7>2
          <6> QED
            BY <6>1, <6>2
        <5>6. NotTwice(c)'
          BY <1>g, <3>4, <5>5 DEF Good, NotTwice
        <5>7. RowsOf(c)' = RowsOf(c)
          BY <4>2, <5>2 DEF RowsOf
        <5>8. OneRow(c)'
          BY <5>1, <5>7 DEF OneRow
        <5>9. OneSender(c)' /\ NoneMade(c)'
          BY <3>u, <3>2, <3>7, <4>1, <4>9 DEF OneSender, NoneMade, At, InHand
        <5>10. Once(c)'
          <6>1. ASSUME NEW t \in Tickets, mailed'[c][t] = "once"
                PROVE  \E q \in Recipients : q[1] = t /\ rows'[c][q] = "SENT"
            <7>1. CASE t = r[1]
              BY <2>3, <4>2, <5>5, <6>1, <7>1
            <7>2. CASE t # r[1]
              BY <3>4, <4>2, <5>1, <6>1, <7>2 DEF Once
            <7> QED
              BY <7>1, <7>2
          <6> QED
            BY <6>1 DEF Once
        <5>11. \A q \in RowsOf(c) \ job[s].left : rows[c][q] = "SENT" \/ (rows[c][q] = "FAILED" /\ job[s].failed)
          BY <2>2, <3>7, <5>1 DEF Left
        <5>12. \A q \in job[s].left : rows[c][q] \in {"PENDING", "FAILED"} /\ q \in Recipients
          BY <2>2, <3>7, <5>1 DEF Left, Rounds
        <5>13. \A q \in j.left : rows'[c][q] \in {"PENDING", "FAILED"}
          BY <3>2, <4>2, <5>12
        <5>14. \A q \in RowsOf(c)' \ j.left : rows'[c][q] = "SENT" \/ (rows'[c][q] = "FAILED" /\ j.failed)
          <6> SUFFICES ASSUME NEW q \in RowsOf(c), q \notin j.left
                       PROVE  rows'[c][q] = "SENT" \/ (rows'[c][q] = "FAILED" /\ j.failed)
            BY <5>7
          <6>1. q \in Recipients
            BY DEF RowsOf
          <6>2. CASE q = r
            BY <3>2, <4>2, <6>1, <6>2
          <6>3. CASE q # r
            BY <3>2, <4>2, <5>11, <6>1, <6>3
          <6> QED
            BY <6>2, <6>3
        <5>15. Left(c)'
          BY <3>u, <3>7, <4>1, <4>9, <5>13, <5>14 DEF Left, At, InHand
        <5> QED
          BY <4>1, <4>4, <4>5, <4>6, <4>7, <5>6, <5>8, <5>9, <5>10, <5>15 DEF Good, Alone
      <4> QED
        BY <4>8, <4>9
    <3> QED
      BY <3>6, <3>7
  <2> QED
    BY <2>4, <2>5
<1>9. ASSUME NEW s \in Senders, Finish(s) PROVE Good(c)'
  <2> DEFINE d == On(s)
  <2>1. d \in Campaigns /\ job[s] \in Rounds /\ job[s] # Idle /\ InHand(s) /\ At(s, "mail")
        /\ job[s].left = {}
    BY <1>9, <1>a, JobAt DEF Finish, At, InHand
  <2>2. CASE ~Exists(d) /\ Fail(s)
    BY <1>f, <2>1, <2>2
  <2>3. CASE Exists(d) /\ Write(d, FinalStatus(job[s]), FALSE) /\ Goto(s, Idle)
             /\ UNCHANGED <<rows, queue, mailed, overlap>>
    <3>1. CASE d # c
      BY <1>o, <1>w, <2>1, <2>3, <3>1
    <3>2. CASE d = c
      <4>1. Status(c)' = FinalStatus(job[s]) /\ Status(c)' \in {"SENT", "FAILED", "PARTIALLY_SENT"}
        BY <1>w, <2>1, <2>3, <3>2 DEF FinalStatus
      <4>2. /\ job'[s] = Idle /\ \A z \in Senders : z # s => job'[z] = job[z]
            /\ Exists(c) /\ c \notin overlap => \A z \in Senders : z # s => ~(InHand(z)' /\ On(z)' = c)
        BY <1>h, <2>1, <2>3, <3>2
      <4>3. Exists(c) /\ Exists(c)' /\ RowsOf(c)' = RowsOf(c)
        BY <2>3, <3>2, <4>1 DEF Exists, RowsOf, Status
      <4>4. Untouched(c)' /\ Unsure(c)' /\ NotTwice(c)' /\ NotOnce(c)' /\ Served(c)'
        BY <1>g, <2>3, <4>1, <4>3 DEF Good, Untouched, Unsure, NotTwice, NotOnce, Served
      <4>5. \A z \in Senders : InHand(z)' => job'[z] = job[z] /\ InHand(z)
        BY <4>2 DEF InHand, Idle
      <4>6. Alone(c)'
        <5> SUFFICES ASSUME c \notin overlap
                     PROVE  OneSender(c)' /\ NoneMade(c)' /\ OneRow(c)' /\ Left(c)' /\ Once(c)'
          BY <2>3 DEF Alone
        <5>1. OneRow(c) /\ Once(c)
          BY <1>g, <4>3 DEF Good, Alone
        <5>2. \A z \in Senders : ~(InHand(z)' /\ On(z)' = c)
          BY <4>2, <4>3 DEF InHand, Idle
        <5> QED
          BY <2>3, <4>3, <5>1, <5>2 DEF OneSender, NoneMade, OneRow, Left, Once, At, InHand
      <4>7. Truth(c)'
        <5> SUFFICES ASSUME Status(c)' = "SENT", ~(c \in overlap), NEW r \in RowsOf(c)
                     PROVE  rows[c][r] = "SENT" /\ mailed[c][r[1]] # "no"
          BY <2>3, <4>1, <4>3 DEF Truth
        <5>1. ~job[s].failed
          BY <4>1 DEF FinalStatus
        <5>2. Left(c) /\ Served(c)
          BY <1>g, <4>3 DEF Good, Alone
        <5>3. rows[c][r] = "SENT"
          BY <2>1, <3>2, <5>1, <5>2 DEF Left
        <5> QED
          BY <5>2, <5>3 DEF Served, RowsOf
      <4> QED
        BY <4>4, <4>6, <4>7 DEF Good
    <3> QED
      BY <3>1, <3>2
  <2> QED
    BY <1>9, <2>2, <2>3 DEF Finish
\* A sender breaks off: the other senders, if any, go on
<1>b. ASSUME NEW s \in Senders, Break(s) PROVE Good(c)'
  <2> DEFINE d == On(s)
  <2>1. d \in Campaigns /\ InHand(s) /\ Exists(d) /\ job[s] # Idle /\ Goto(s, Idle)
        /\ UNCHANGED <<rows, overlap>> /\ (c \in queue' => c \in queue)
    BY <1>b, <1>a, JobAt DEF Break, InHand, At
  <2>2. UNCHANGED mailed \/ \E r \in job[s].left : Received(d, r[1], FALSE)
    BY <1>b DEF Break
  <2>3. \/ Write(d, "FAILED", FALSE)
        \/ campaign' = [campaign EXCEPT ![d].dead = TRUE]
    BY <1>b DEF Break
  <2>4. CASE d # c
    <3>1. mailed'[c] = mailed[c]
      BY <1>a, <2>2, <2>4 DEF CampaignsOK, Received
    <3>2. campaign'[c] = campaign[c]
      BY <1>a, <1>w, <2>1, <2>3, <2>4 DEF CampaignsOK
    <3> QED
      BY <1>o, <2>1, <2>4, <3>1, <3>2
  <2>5. CASE d = c
    <3>1. \A t \in Tickets : mailed'[c][t] \in {mailed[c][t], "unsure"}
      <4>1. CASE UNCHANGED mailed
        BY <4>1
      <4>2. CASE \E r \in job[s].left : Received(d, r[1], FALSE)
        <5>1. PICK r \in job[s].left : mailed' = [mailed EXCEPT ![c] = [@ EXCEPT ![r[1]] = "unsure"]]
          BY <2>5, <4>2 DEF Received
        <5>2. mailed'[c] = [mailed[c] EXCEPT ![r[1]] = "unsure"] /\ mailed[c] \in [Tickets -> Deliveries]
          BY <1>a, <5>1 DEF CampaignsOK
        <5> QED
          BY <5>2
      <4> QED
        BY <2>2, <4>1, <4>2
    <3>2. campaign[c] \in [status : Statuses, due : BOOLEAN, dead : BOOLEAN]
      BY <1>a DEF CampaignsOK
    <3>3. Exists(c) /\ Exists(c)' /\ (Status(c)' = "FAILED" \/ campaign'[c].dead)
      <4>1. CASE Write(d, "FAILED", FALSE)
        <5>1. campaign'[c] = [status |-> "FAILED", due |-> FALSE, dead |-> FALSE]
          BY <1>a, <2>5, <4>1 DEF CampaignsOK, Write
        <5>2. campaign'[c].status = "FAILED"
          BY <5>1
        <5> QED
          BY <2>1, <2>5, <5>2 DEF Exists, Status
      <4>2. CASE campaign' = [campaign EXCEPT ![d].dead = TRUE]
        <5>1. campaign'[c] = [campaign[c] EXCEPT !.dead = TRUE]
          BY <1>a, <2>5, <4>2 DEF CampaignsOK
        <5>2. campaign'[c].dead /\ campaign'[c].status = campaign[c].status
          BY <3>2, <5>1
        <5> QED
          BY <2>1, <2>5, <5>2 DEF Exists, Status
      <4> QED
        BY <2>3, <4>1, <4>2
    <3>4. /\ job'[s] = Idle
          /\ c \notin overlap => \A z \in Senders : z # s => ~(InHand(z)' /\ On(z)' = c)
      BY <1>h, <2>1, <2>5, <3>3
    <3>5. Untouched(c)' /\ NotOnce(c)' /\ Truth(c)'
      BY <3>3 DEF Untouched, NotOnce, Truth, Exists
    <3>6. \A r \in Recipients : r[1] \in Tickets
      BY DEF Recipients
    <3>7. Unsure(c)' /\ NotTwice(c)' /\ Served(c)'
      BY <1>g, <2>1, <3>1, <3>6 DEF Good, Unsure, NotTwice, Served
    <3>8. Alone(c)'
      <4> SUFFICES ASSUME c \notin overlap
                   PROVE  OneSender(c)' /\ NoneMade(c)' /\ OneRow(c)' /\ Left(c)' /\ Once(c)'
        BY <2>1 DEF Alone
      <4>1. OneRow(c) /\ Once(c)
        BY <1>g, <3>3 DEF Good, Alone
      <4>2. \A z \in Senders : ~(InHand(z)' /\ On(z)' = c)
        BY <3>4 DEF InHand, Idle
      <4>3. OneSender(c)' /\ NoneMade(c)' /\ Left(c)'
        BY <4>2 DEF OneSender, NoneMade, Left, At, InHand
      <4>4. OneRow(c)'
        BY <2>1, <4>1 DEF OneRow, RowsOf
      <4>5. Once(c)'
        BY <2>1, <3>1, <4>1 DEF Once
      <4> QED
        BY <4>3, <4>4, <4>5
    <3> QED
      BY <3>5, <3>7, <3>8 DEF Good
  <2> QED
    BY <2>4, <2>5
\* The process dies, the record of a message with it or not
<1>d. ASSUME Dies,
             \/ mailed'[c] = mailed[c]
             \/ Exists(c) /\ \A t \in Tickets : mailed'[c][t] \in {mailed[c][t], "unsure"}
      PROVE  Good(c)'
  <2>1. /\ \A s \in Senders : job'[s] = Idle
        /\ queue' = {} /\ UNCHANGED <<rows, overlap>>
        /\ campaign'[c] = [campaign[c] EXCEPT !.dead = Exists(c) /\ (@ \/ UnderWay(c))]
    BY <1>d DEF Dies
  <2>2. campaign[c] \in [status : Statuses, due : BOOLEAN, dead : BOOLEAN]
    BY <1>a DEF CampaignsOK
  <2>3. Status(c)' = Status(c) /\ (Exists(c)' <=> Exists(c)) /\ RowsOf(c)' = RowsOf(c)
        /\ (campaign'[c].dead <=> Exists(c) /\ (campaign[c].dead \/ UnderWay(c)))
    BY <2>1, <2>2 DEF Status, Exists, RowsOf
  <2>4. \A s \in Senders : ~InHand(s)'
    BY <2>1 DEF InHand, Idle
  <2>5. \A t \in Tickets : mailed'[c][t] = mailed[c][t] \/ (mailed'[c][t] = "unsure" /\ Exists(c))
    BY <1>d
  <2>6. \A r \in Recipients : r[1] \in Tickets
    BY DEF Recipients
  <2>7. Untouched(c)'
    BY <2>1 DEF Untouched
  <2>8. Unsure(c)' /\ NotTwice(c)' /\ NotOnce(c)' /\ Served(c)'
    BY <1>g, <2>1, <2>3, <2>5, <2>6 DEF Good, Unsure, NotTwice, NotOnce, Served
  <2>9. Alone(c)'
    <3>1. Alone(c)
      BY <1>g DEF Good
    <3>2. OneSender(c)' /\ NoneMade(c)' /\ Left(c)'
      BY <2>4 DEF OneSender, NoneMade, Left, At, InHand
    <3>3. OneRow(c) => OneRow(c)'
      BY <2>3 DEF OneRow
    <3>4. Once(c) => Once(c)'
      BY <2>1, <2>5 DEF Once
    <3> QED
      BY <2>1, <2>3, <3>1, <3>2, <3>3, <3>4 DEF Alone
  <2>10. Truth(c)'
    <3>1. Truth(c)
      BY <1>g DEF Good
    <3>2. Status(c) \in {"SENT", "SENDING"} => Exists(c)
      BY DEF Exists
    <3>3. \A r \in RowsOf(c) : r \in Recipients
      BY DEF RowsOf
    <3> QED
      BY <2>1, <2>3, <2>5, <2>6, <3>1, <3>2, <3>3 DEF Truth
  <2> QED
    BY <2>7, <2>8, <2>9, <2>10 DEF Good
<1>10. CASE Crash
  BY <1>10, <1>d DEF Crash
<1>11. ASSUME NEW s \in Senders, CrashBeforeRecord(s) PROVE Good(c)'
  <2>1. PICK r \in job[s].left : Received(On(s), r[1], FALSE)
    BY <1>11 DEF CrashBeforeRecord
  <2>2. Exists(On(s)) /\ Dies
    BY <1>11 DEF CrashBeforeRecord
  <2>3. On(s) # c => mailed'[c] = mailed[c]
    BY <1>a, <2>1 DEF Received, CampaignsOK
  <2>4. On(s) = c => \A t \in Tickets : mailed'[c][t] \in {mailed[c][t], "unsure"}
    <3>1. mailed' = [mailed EXCEPT ![On(s)] = [@ EXCEPT ![r[1]] = "unsure"]]
      BY <2>1 DEF Received
    <3>2. mailed \in [Campaigns -> [Tickets -> Deliveries]]
      BY <1>a DEF CampaignsOK
    <3>3. On(s) = c => mailed'[c] = [mailed[c] EXCEPT ![r[1]] = "unsure"]
      BY <3>1, <3>2
    <3>4. mailed[c] \in [Tickets -> Deliveries]
      BY <3>2
    <3> QED
      BY <3>3, <3>4
  <2> QED
    BY <1>d, <2>2, <2>3, <2>4
<1>12. CASE StartRound
  <2>1. queue' = DueNow /\ UNCHANGED <<campaign, rows, job, mailed, overlap>>
    BY <1>12 DEF StartRound
  <2>2. Untouched(c)'
    BY <1>g, <2>1 DEF Good, Untouched, DueNow, Status, On
  <2>3. Unsure(c)' /\ NotTwice(c)' /\ NotOnce(c)' /\ Served(c)'
    BY <1>g, <2>1 DEF Good, Unsure, NotTwice, NotOnce, Served, Exists, Status
  <2>4. Alone(c)'
    BY <1>g, <2>1 DEF Good, Alone, OneSender, NoneMade, OneRow, Left, Once, Exists, Status, RowsOf,
       InHand, At, On
  <2>5. Truth(c)'
    BY <1>g, <2>1 DEF Good, Truth, Status, RowsOf, InHand, UnderWay, On
  <2> QED
    BY <2>2, <2>3, <2>4, <2>5 DEF Good
<1>13. CASE UNCHANGED vars
  BY <1>13, <1>q DEF vars
<1> QED
  BY <1>1, <1>2, <1>3, <1>4, <1>5, <1>6, <1>7, <1>8, <1>9, <1>b, <1>10, <1>11, <1>12, <1>13 DEF Next, Step

\* Every step keeps what is left to mail in order.
LEMMA SendInvHolds == Spec => []SendInv
<1>1. Spec => Init /\ [][Next]_vars
  BY DEF Spec
<1> QED
  BY <1>1, InitTypeInv, StepTypeInv, InitSendInv, StepSendInv, PTL

\* Whatever is sent again, scheduled again or left by a dead process, a campaign is not
\* received twice for one ticket (dispatchCampaign), unless two senders had it in hand
\* together or a message was taken whose answer, or record, was lost.
THEOREM TicketMailedOnce == Spec => []OncePerTicket
  BY SendInvHolds, SendInvImplies, PTL

\* SENT means that every recipient was served, SENDING that a sender is at work, or
\* died or broke off: the last write of sendCampaign and of the daily round tell the truth.
THEOREM StatusIsTrue == Spec => []StatusTellsTruth
  BY SendInvHolds, SendInvImplies, PTL
=============================================================================
