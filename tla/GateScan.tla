------------------------------ MODULE GateScan ------------------------------
(***************************************************************************)
(* Tickets at the gates: scanTicket and syncOfflineScans of                *)
(* src/backend/src/validation/validation.service.ts, the offline list of   *)
(* controllers-mgmt/controller-space.service.ts, and the scanner app of    *)
(* src/mobile/lib, which falls back to its list when the network is cut or *)
(* slow, queues the entries made without the server and uploads them.      *)
(*                                                                         *)
(* Every phone has downloaded the list before the doors open.  A batch of  *)
(* queued entries is uploaded entry by entry.  Times are so coarse that    *)
(* two of them are equal exactly when less than a minute apart (the app's  *)
(* tolerance); the clocks of the phones and of the server agree, and an    *)
(* online scan is recorded within the minute of its claim.  A tariff has   *)
(* one ticket.  Abstracted: holders, signatures, refused scans, the days a *)
(* tariff excludes, access rights; fraudulent tickets are as cancelled.    *)
(***************************************************************************)
EXTENDS Integers, FiniteSets

CONSTANTS
    Phones,        \* scanner phones
    Tickets,       \* tickets of the event
    Requests,      \* requests under way at once
    MaxMoves,      \* bound on the scans and the changes by the organizer
    MaxTime,       \* bound on the clock
    Day,           \* Day[m]: the day of time m
    MaxAge,        \* MAX_OFFLINE_AGE_MS: the time of an older entry is not kept
    MaxTries,      \* maxSyncRetries
    OrganizerActs  \* statuses the organizer or a refund gives to tickets meanwhile,
                   \* "days": the organizer edits the days of a tariff

Times == 1..MaxTime
Never == 0
Statuses == {"VALID", "PENDING", "USED", "CANCELLED"}

ASSUME TimeAssumption == MaxTime \in Nat \ {0} /\ Day \in [0..MaxTime -> Nat]
ASSUME BoundAssumption == MaxTries \in Nat \ {0} /\ MaxMoves \in Nat /\ MaxAge \in Nat
ASSUME OrganizerAssumption == OrganizerActs \subseteq Statuses \cup {"days"}
ASSUME WriterAssumption == Requests \cap Tickets = {}

VARIABLES
    passes,    \* tickets whose tariff lasts several days
    editing,   \* tickets touched by an edit of the days that are not written yet
    office,    \* office[t]: the organizer's write of t under way
    listed,    \* listed[p]: tickets that last several days in the list of phone p
    now,       \* the clock
    server,    \* server[t]: Ticket.status and checkedInAt
    valid,     \* valid[t]: VALID records of scans of t, by their time; that of a
               \* request at "date" is still with the request
    local,     \* local[p][t]: status and time of t in the list of phone p
    changed,   \* changed[p]: tickets dated after the list p holds (updatedAt)
    early,     \* early[p]: writes under way when the list p holds was read
    queue,     \* queue[p]: entries p made offline, not uploaded yet
    scan,      \* the scan under way on phone p
    sync,      \* what the sync of phone p is doing
    moves,     \* the scans and the changes by the organizer so far
    req,       \* the requests
    entries,   \* auxiliary: <<p, t, m>>, phone p let t in at time m
    reported,  \* auxiliary: tickets with an offline entry the app reported
    restored,  \* auxiliary: tickets made unused again, or whose days were edited
    torn,      \* auxiliary: <<t, m>>, the record of an entry was cut short
    hidden,    \* auxiliary: hidden[p], tickets last written after a list of p was
               \* read, under an earlier date
    exposed    \* auxiliary: exposed[p], tickets put back by a list just before they
               \* were queued

history == <<entries, reported, restored, torn>>
vars == <<passes, editing, office, listed, now, server, valid, local, changed, early, queue,
          scan, sync, moves, req, history, hidden, exposed>>
tariffs == <<passes, editing, listed>>
dates == <<changed, early, hidden>>
phoneVars == <<local, queue, scan, exposed>>

Free == [step |-> "free"]
NoSync == [step |-> "no"]
NoScan == [step |-> "no"]
NoAct == [act |-> "none", at |-> Never]
Unused == {"VALID", "PENDING"}
Marks == [status : Statuses, at : 0..MaxTime]
Entry == [ticket : Tickets, at : Times, tries : 0..MaxTries]
Writers == Requests \cup Tickets

(***************************************************************************)
(* Type invariant.                                                         *)
(***************************************************************************)
TypeOK ==
    /\ passes \subseteq Tickets /\ editing \subseteq Tickets /\ now \in Times
    /\ office \in [Tickets -> [act : OrganizerActs \cup {"none"}, at : 0..MaxTime]]
    /\ listed \in [Phones -> SUBSET Tickets]
    /\ server \in [Tickets -> Marks]
    /\ valid \in [Tickets -> [Times -> Nat]]
    /\ local \in [Phones -> [Tickets -> Marks]]
    /\ changed \in [Phones -> SUBSET Tickets]
    /\ early \in [Phones -> SUBSET Writers]
    /\ queue \in [Phones -> SUBSET Entry]
    /\ \A p \in Phones : LET s == scan[p] IN
         \/ s = NoScan
         \/ s.step = "wait" /\ s.request \in Requests
         \/ s.step \in {"mark", "queue"} /\ s.ticket \in Tickets /\ s.at \in Times
    /\ \A p \in Phones : LET s == sync[p] IN
         \/ s = NoSync
         \/ s.step = "wait" /\ s.request \in Requests /\ s.entry \in queue[p]
         \/ s.step = "pack" /\ s.since \subseteq Tickets /\ s.early \subseteq Writers
            /\ s.passes \subseteq DOMAIN s.list /\ DOMAIN s.list \subseteq Tickets
            /\ \A t \in DOMAIN s.list : s.list[t] \in Marks
    /\ moves \in 0..MaxMoves
    /\ \A r \in Requests : LET q == req[r] IN
         \/ q = Free
         \/ /\ q.step \in {"sent", "claim", "pass", "record", "date", "answer"}
            /\ q.ticket \in Tickets /\ q.at \in 0..MaxTime /\ q.seenAt \in 0..MaxTime
            /\ q.awaited \in BOOLEAN
            /\ q.result \in {"NONE", "VALID", "ALREADY_USED", "INVALID", "ERROR"}
    /\ entries \subseteq Phones \X Tickets \X Times
    /\ reported \subseteq Tickets /\ restored \subseteq Tickets
    /\ torn \subseteq Tickets \X Times
    /\ hidden \in [Phones -> SUBSET Tickets] /\ exposed \in [Phones -> SUBSET Tickets]

Init ==
    /\ passes \in SUBSET Tickets
    /\ editing = {} /\ listed = [p \in Phones |-> passes]
    /\ office = [t \in Tickets |-> NoAct]
    /\ now = 1
    /\ server = [t \in Tickets |-> [status |-> "VALID", at |-> Never]]
    /\ valid = [t \in Tickets |-> [m \in Times |-> 0]]
    /\ local = [p \in Phones |-> server]
    /\ changed = [p \in Phones |-> {}] /\ early = [p \in Phones |-> {}]
    /\ queue = [p \in Phones |-> {}]
    /\ scan = [p \in Phones |-> NoScan]
    /\ sync = [p \in Phones |-> NoSync]
    /\ moves = 0
    /\ req = [r \in Requests |-> Free]
    /\ entries = {} /\ reported = {} /\ restored = {} /\ torn = {}
    /\ hidden = [p \in Phones |-> {}] /\ exposed = [p \in Phones |-> {}]

Tick ==
    /\ now < MaxTime
    /\ now' = now + 1
    /\ UNCHANGED <<tariffs, office, server, valid, dates, phoneVars, sync, moves, req, history>>

(***************************************************************************)
(* The server.  A write of a ticket is dated when its statement is built   *)
(* and is seen when it is committed: a list read in between is dated after *)
(* the write and lacks it.                                                 *)
(***************************************************************************)
\* The phones with a list read since writer w began
Late(w) == {p \in Phones : \/ w \in early[p]
                           \/ sync[p].step = "pack" /\ w \in sync[p].early}

\* The list on its way to p, once writer w has ended
Ended(p, w) == IF sync[p].step = "pack" THEN [sync[p] EXCEPT !.early = @ \ {w}] ELSE sync[p]

\* Writer w commits ticket t, dated before the lists of the late phones
CommitDated(w, t, mark, late) ==
    /\ server' = [server EXCEPT ![t] = mark]
    /\ changed' = [p \in Phones |-> IF p \in late /\ w \in early[p] THEN changed[p] \ {t}
                                    ELSE changed[p] \cup {t}]
    /\ sync' = [p \in Phones |-> IF sync[p].step = "pack"
                                 THEN [Ended(p, w) EXCEPT !.since =
                                         IF p \in late THEN @ \ {t} ELSE @ \cup {t}]
                                 ELSE sync[p]]
    /\ hidden' = [p \in Phones |-> IF p \in late THEN hidden[p] \cup {t} ELSE hidden[p] \ {t}]
    /\ early' = [p \in Phones |-> early[p] \ {w}]

Commit(w, t, mark) == \E late \in SUBSET Late(w) : CommitDated(w, t, mark, late)

\* Writer w ends without a write
WriteNothing(w) ==
    /\ sync' = [p \in Phones |-> Ended(p, w)]
    /\ early' = [p \in Phones |-> early[p] \ {w}]
    /\ UNCHANGED <<server, changed, hidden>>

Move == moves < MaxMoves /\ moves' = moves + 1

\* The answer goes to the phone, unless it has given up
Answer(r, result, at) ==
    req' = [req EXCEPT ![r] =
              IF @.awaited THEN [@ EXCEPT !.step = "answer", !.result = result, !.seenAt = at]
              ELSE Free]

\* The entry a request is recording, and its time
Enters(q) == q.step \in {"record", "date"}
Meant(q) == IF q.step = "record" THEN q.seenAt ELSE q.at
Recording(t, m) == \E r \in Requests :
    Enters(req[r]) /\ req[r].ticket = t /\ Meant(req[r]) = m

\* The times of the entries recorded on a day, as they are in the records
RecordedAt(t) == {m \in Times : valid[t][m] > 0}
    \cup {req[r].seenAt : r \in {o \in Requests : req[o].step = "date" /\ req[o].ticket = t}}
EnteredAt(t, day) == {m \in RecordedAt(t) : Day[m] = day}

\* The phone's time of an entry made offline is kept unless it is too old
KeptTime(q) == IF now - q.at <= MaxAge THEN q.at ELSE Never

\* The time of the scan: the phone's for an entry made offline
ScanTime(q) == IF q.at = Never THEN now ELSE q.at

\* scanTicket reads the ticket, and the entries of the day for a pass
ReadTicket(r) ==
    LET q == [req[r] EXCEPT !.at = KeptTime(req[r])]
        t == q.ticket
        s == server[t].status
        today == EnteredAt(t, Day[ScanTime(q)])
        Goes(step) == req' = [req EXCEPT ![r] = [q EXCEPT !.step = step, !.seenAt = server[t].at]]
    IN
    /\ req[r].step = "sent"
    /\ \/ s = "CANCELLED" /\ Answer(r, "INVALID", Never) /\ UNCHANGED torn
       \/ s = "USED" /\ t \notin passes /\ Answer(r, "ALREADY_USED", server[t].at)
          /\ UNCHANGED torn
       \/ /\ s # "CANCELLED" /\ t \in passes
          /\ \E m \in today :
               /\ Answer(r, "ALREADY_USED", m)
               /\ torn' = IF valid[t][m] > 0 \/ Recording(t, m) THEN torn
                          ELSE torn \cup {<<t, m>>}
       \/ s # "CANCELLED" /\ t \in passes /\ today = {} /\ Goes("pass") /\ UNCHANGED torn
       \/ s \in Unused /\ t \notin passes /\ Goes("claim") /\ UNCHANGED torn
    /\ UNCHANGED <<tariffs, office, now, server, valid, dates, phoneVars, sync, moves, entries,
                   reported, restored>>

GoesOn(r, at) == req' = [req EXCEPT ![r].step = "record", ![r].seenAt = at]

\* Mutant: the claim does not look at the status again
ClaimUnguarded(r) ==
    LET q == req[r] IN
    /\ q.step = "claim"
    /\ Commit(r, q.ticket, [status |-> "USED", at |-> ScanTime(q)])
    /\ GoesOn(r, ScanTime(q))
    /\ UNCHANGED <<tariffs, office, now, valid, phoneVars, moves, history>>

\* An ordinary ticket is claimed by one conditional update ...
Claim(r) ==
    LET q == req[r]
        t == q.ticket
    IN
    /\ q.step = "claim"
    /\ \/ /\ server[t].status \in Unused
          /\ Commit(r, t, [status |-> "USED", at |-> ScanTime(q)])
          /\ GoesOn(r, ScanTime(q))
       \/ /\ server[t].status \notin Unused
          /\ WriteNothing(r)
          /\ Answer(r, "ALREADY_USED", q.seenAt)
    /\ UNCHANGED <<tariffs, office, now, valid, phoneVars, moves, history>>

\* ... a pass is written whatever it has become ...
EnterPass(r) ==
    LET q == req[r] IN
    /\ q.step = "pass"
    /\ Commit(r, q.ticket, [status |-> "USED", at |-> ScanTime(q)])
    /\ GoesOn(r, ScanTime(q))
    /\ UNCHANGED <<tariffs, office, now, valid, phoneVars, moves, history>>

IsRecorded(t, m) == valid' = [valid EXCEPT ![t][m] = @ + 1]

\* ... then the entry is recorded, that of an upload under the time of the upload
\* (the audit row written next may still fail) ...
Record(r) ==
    LET q == req[r] IN
    /\ q.step = "record"
    /\ \/ /\ q.at = Never
          /\ IsRecorded(q.ticket, q.seenAt)
          /\ \E result \in {"VALID", "ERROR"} : Answer(r, result, q.seenAt)
       \/ /\ q.at # Never
          /\ req' = [req EXCEPT ![r].step = "date", ![r].seenAt = now]
          /\ UNCHANGED valid
    /\ UNCHANGED <<tariffs, office, now, server, dates, phoneVars, sync, moves, history>>

\* ... and its record is given the time of the phone
Date(r) ==
    LET q == req[r] IN
    /\ q.step = "date"
    /\ IsRecorded(q.ticket, q.at)
    /\ Answer(r, "VALID", q.at)
    /\ UNCHANGED <<tariffs, office, now, server, dates, phoneVars, sync, moves, history>>

\* An error while the request is served, what it wrote so far stays written; a second
\* entry of a ticket in the same batch is answered nothing, an error for the phone.
\* A request whose phone has given up may also never arrive
FailRequest(r) ==
    LET q == req[r] IN
    /\ q.step \in {"sent", "claim", "pass", "record", "date"}
    /\ torn' = IF Enters(q) THEN torn \cup {<<q.ticket, Meant(q)>>} ELSE torn
    /\ IF q.step = "date" THEN IsRecorded(q.ticket, q.seenAt) ELSE UNCHANGED valid
    /\ WriteNothing(r)
    /\ Answer(r, "ERROR", Never)
    /\ UNCHANGED <<tariffs, office, now, phoneVars, moves, entries, reported, restored>>

\* The organizer gives a ticket a status, whatever it has, a refund cancels it, or
\* the tickets of a tariff are touched before its days are written, so that the
\* phones fetch them again: the write is dated ...
Act(t, act) ==
    /\ office[t] = NoAct /\ Move
    /\ server[t].status # act /\ (act = "days" => t \notin editing)
    /\ office' = [office EXCEPT ![t] = [act |-> act, at |-> IF act = "USED" THEN now ELSE Never]]
    /\ UNCHANGED <<tariffs, now, server, valid, dates, phoneVars, sync, req, history>>

\* ... and committed
CommitAct(t) ==
    LET do == office[t] IN
    /\ do # NoAct
    /\ office' = [office EXCEPT ![t] = NoAct]
    /\ \/ /\ do.act \in Statuses
          /\ Commit(t, t, [status |-> do.act,
                           at |-> IF do.act = "USED" THEN do.at ELSE server[t].at])
          /\ restored' = IF do.act \in Unused THEN restored \cup {t} ELSE restored
          /\ UNCHANGED editing
       \/ /\ do.act = "days"
          /\ Commit(t, t, server[t])
          /\ editing' = editing \cup {t}
          /\ UNCHANGED restored
    /\ UNCHANGED <<passes, listed, now, valid, phoneVars, moves, req, entries, reported, torn>>

\* The days are written after the tickets were touched
WriteDays(t) ==
    /\ t \in editing
    /\ editing' = editing \ {t}
    /\ passes' = IF t \in passes THEN passes \ {t} ELSE passes \cup {t}
    /\ restored' = restored \cup {t}
    /\ UNCHANGED <<office, listed, now, server, valid, dates, phoneVars, sync, moves, req, entries,
                   reported, torn>>

(***************************************************************************)
(* The network: a request or an answer is lost, a phone stops waiting      *)
(* while its request may still be served.                                  *)
(***************************************************************************)
Send(r, t, at) ==
    /\ req[r] = Free
    /\ req' = [req EXCEPT ![r] = [step |-> "sent", ticket |-> t, at |-> at, awaited |-> TRUE,
                                  result |-> "NONE", seenAt |-> Never]]

\* A request its phone no longer waits for: an answer on its way is lost
Abandoned(r) == [req EXCEPT ![r] = IF @.step = "answer" THEN Free
                                  ELSE [@ EXCEPT !.awaited = FALSE]]
Received(r) == [req EXCEPT ![r] = Free]

(***************************************************************************)
(* The scanner: one scan at a time on a phone.                             *)
(***************************************************************************)
LetIn(p, t, m) == entries' = entries \cup {<<p, t, m>>}
SetScan(p, step) == scan' = [scan EXCEPT ![p] = step]
MarkUsed(p, t, m) ==
    /\ local' = [local EXCEPT ![p][t] = [status |-> "USED", at |-> m]]
    /\ exposed' = [exposed EXCEPT ![p] = @ \ {t}]

ScanOnline(p, t, r) ==
    /\ scan[p] = NoScan /\ Move
    /\ Send(r, t, Never)
    /\ SetScan(p, [step |-> "wait", request |-> r])
    /\ UNCHANGED <<tariffs, office, now, server, valid, dates, local, queue, exposed, sync, history>>

\* The answer of the server: the list of the phone knows it at once
TakeAnswer(p) ==
    LET r == scan[p].request
        q == req[r]
    IN
    /\ scan[p].step = "wait" /\ q.step = "answer"
    /\ IF q.result = "VALID" THEN LetIn(p, q.ticket, q.seenAt) ELSE UNCHANGED entries
    /\ IF q.result \in {"VALID", "ALREADY_USED"} THEN MarkUsed(p, q.ticket, now)
       ELSE UNCHANGED <<local, exposed>>
    /\ SetScan(p, NoScan)
    /\ req' = Received(r)
    /\ UNCHANGED <<tariffs, office, now, server, valid, dates, queue, sync, moves, reported,
                   restored, torn>>

\* Whether the list lets the ticket in
Accepts(p, t) ==
    LET mark == local[p][t] IN
    \/ mark.status \in Unused
    \/ mark.status = "USED" /\ t \in listed[p] /\ Day[mark.at] # Day[now]

\* validateTicketOffline reads the ticket in the list ...
CheckList(p, t) ==
    SetScan(p, IF Accepts(p, t) THEN [step |-> "mark", ticket |-> t, at |-> now] ELSE NoScan)

ScanOffline(p, t) ==
    /\ scan[p] = NoScan /\ Move
    /\ CheckList(p, t)
    /\ UNCHANGED <<tariffs, office, now, server, valid, dates, local, queue, exposed, sync, req,
                   history>>

\* No answer after scanTimeout, or no network after all
TimeOut(p) ==
    LET r == scan[p].request IN
    /\ scan[p].step = "wait"
    /\ CheckList(p, req[r].ticket)
    /\ req' = Abandoned(r)
    /\ UNCHANGED <<tariffs, office, now, server, valid, dates, local, queue, exposed, sync, moves,
                   history>>

\* ... marks it used there ...
MarkScan(p) ==
    /\ scan[p].step = "mark"
    /\ MarkUsed(p, scan[p].ticket, scan[p].at)
    /\ SetScan(p, [scan[p] EXCEPT !.step = "queue"])
    /\ UNCHANGED <<tariffs, office, now, server, valid, dates, queue, sync, moves, req, history>>

\* ... and queues the entry for the server: the person is let in
QueueScan(p) ==
    LET t == scan[p].ticket
        m == scan[p].at
    IN
    /\ scan[p].step = "queue"
    /\ queue' = [queue EXCEPT ![p] = @ \cup {[ticket |-> t, at |-> m, tries |-> 0]}]
    /\ LetIn(p, t, m)
    /\ exposed' = IF local[p][t].status \in Unused THEN [exposed EXCEPT ![p] = @ \cup {t}]
                  ELSE exposed
    /\ SetScan(p, NoScan)
    /\ UNCHANGED <<tariffs, office, now, server, valid, dates, local, sync, moves, req, reported,
                   restored, torn>>

\* A write of the list fails, or the app is closed: nobody is let in
DropScan(p) ==
    /\ scan[p].step \in {"mark", "queue"}
    /\ SetScan(p, NoScan)
    /\ UNCHANGED <<tariffs, office, now, server, valid, dates, local, queue, exposed, sync, moves,
                   req, history>>

(***************************************************************************)
(* Upload of the entries made offline, then refresh of the list: one sync  *)
(* at a time on a phone.                                                   *)
(***************************************************************************)
SetSync(p, step) == sync' = [sync EXCEPT ![p] = step]

\* Mutant: entries are sent however often they failed
UploadForever(p, e, r) ==
    /\ sync[p] = NoSync
    /\ Send(r, e.ticket, e.at)
    /\ SetSync(p, [step |-> "wait", request |-> r, entry |-> e])
    /\ UNCHANGED <<tariffs, office, now, server, valid, dates, phoneVars, moves, history>>

Upload(p, e, r) ==
    /\ sync[p] = NoSync /\ e.tries < MaxTries
    /\ Send(r, e.ticket, e.at)
    /\ SetSync(p, [step |-> "wait", request |-> r, entry |-> e])
    /\ UNCHANGED <<tariffs, office, now, server, valid, dates, phoneVars, moves, history>>

\* Mutant: an entry the server already had is never a conflict
AlwaysSame(e, q) == q.result = "ALREADY_USED"

\* The server had this entry already: an earlier attempt reached it
SameEntry(e, q) == q.result = "ALREADY_USED" /\ q.seenAt = e.at

TakeUpload(p) ==
    LET e == sync[p].entry
        q == req[sync[p].request]
    IN
    /\ sync[p].step = "wait" /\ q.step = "answer"
    /\ IF q.result = "ERROR"
       THEN /\ queue' = [queue EXCEPT ![p] = (@ \ {e}) \cup {[e EXCEPT !.tries = @ + 1]}]
            /\ UNCHANGED reported
       ELSE /\ queue' = [queue EXCEPT ![p] = @ \ {e}]
            /\ reported' = IF q.result = "VALID" \/ SameEntry(e, q) THEN reported
                           ELSE reported \cup {e.ticket}
    /\ req' = Received(sync[p].request)
    /\ SetSync(p, NoSync)
    /\ UNCHANGED <<tariffs, office, now, server, valid, dates, local, scan, exposed, moves, entries,
                   restored, torn>>

\* Network lost: the queue is kept for the next attempt
UploadLost(p) ==
    /\ sync[p].step = "wait"
    /\ req' = Abandoned(sync[p].request)
    /\ SetSync(p, NoSync)
    /\ UNCHANGED <<tariffs, office, now, server, valid, dates, phoneVars, moves, history>>

\* The network is lost while the list is fetched
ListLost(p) ==
    /\ sync[p].step = "pack"
    /\ SetSync(p, NoSync)
    /\ UNCHANGED <<tariffs, office, now, server, valid, dates, phoneVars, moves, req, history>>

\* The writes dated and not yet committed
UnderWay == {r \in Requests : req[r].step \in {"claim", "pass"}}
            \cup {t \in Tickets : office[t] # NoAct}

\* After the uploads, offlineTickets: the tickets dated after the list the phone has
FetchList(p) ==
    /\ sync[p] = NoSync
    /\ SetSync(p, [step |-> "pack", since |-> {}, early |-> UnderWay,
                   passes |-> passes \cap changed[p], list |-> [t \in changed[p] |-> server[t]]])
    /\ UNCHANGED <<tariffs, office, now, server, valid, dates, phoneVars, moves, req, history>>

Queued(p, t) == \E e \in queue[p] : e.ticket = t

\* Mutant: the list of the server replaces every ticket
KeepNone(p, t) == FALSE

\* A ticket whose entry is not uploaded yet stays used
Keep(p, t) == Queued(p, t) /\ sync[p].list[t].status = "VALID"

SaveRows(p, still) ==
    LET saved == {t \in DOMAIN sync[p].list : ~Keep(p, t)} IN
    /\ sync[p].step = "pack"
    /\ local' = [local EXCEPT ![p] = [t \in Tickets |->
                    IF t \in saved THEN sync[p].list[t] ELSE @[t]]]
    /\ listed' = [listed EXCEPT ![p] = (@ \ saved) \cup (sync[p].passes \cap saved)]
    /\ exposed' = [exposed EXCEPT ![p] = @ \ saved]
    /\ changed' = [changed EXCEPT ![p] = still]
    /\ early' = [early EXCEPT ![p] = sync[p].early]
    /\ SetSync(p, NoSync)
    /\ UNCHANGED <<passes, editing, office, now, server, valid, hidden, queue, scan, moves, req,
                   history>>

\* Mutant: the list is dated when it is saved
SaveDatedNow(p) == SaveRows(p, {})

\* saveOfflinePack: the list is dated when its rows were read
SaveList(p) == SaveRows(p, sync[p].since)

Server(r) ==
    ReadTicket(r) \/ Claim(r) \/ EnterPass(r) \/ Record(r) \/ Date(r) \/ FailRequest(r)

Scanner(p) ==
    \/ \E t \in Tickets, r \in Requests : ScanOnline(p, t, r)
    \/ TakeAnswer(p) \/ TimeOut(p)
    \/ \E t \in Tickets : ScanOffline(p, t)
    \/ MarkScan(p) \/ QueueScan(p) \/ DropScan(p)

Sync(p) ==
    \/ \E e \in queue[p], r \in Requests : Upload(p, e, r)
    \/ TakeUpload(p) \/ UploadLost(p)
    \/ FetchList(p) \/ ListLost(p) \/ SaveList(p)

Organizer == \E t \in Tickets :
    \/ \E act \in OrganizerActs : Act(t, act)
    \/ CommitAct(t) \/ WriteDays(t)

Next ==
    \/ Tick \/ Organizer
    \/ \E r \in Requests : Server(r)
    \/ \E p \in Phones : Scanner(p) \/ Sync(p)

Spec == Init /\ [][Next]_vars

(***************************************************************************)
(* Properties.                                                             *)
(***************************************************************************)
\* The server lets an ordinary ticket in once, whatever scans, late requests,
\* repeated uploads and cancellations reach it, unless the organizer has made it
\* unused again or edited its days
ValidOnce ==
    \A t \in Tickets \ (passes \cup restored) : \A m, n \in Times :
        valid[t][m] <= 1 /\ (valid[t][m] + valid[t][n] = 2 => m = n)

\* What the server knows of an entry: its record, under its time or, when it was
\* uploaded too late, under the time of the upload
Known(t, m) == \E n \in Times : valid[t][n] > 0 /\ (n = m \/ n - m > MaxAge)

Queues(p, t, m) == \E e \in queue[p] : e.ticket = t /\ e.at = m

\* No entry goes unnoticed: once its phone has uploaded it, a person let in is, or
\* is about to be, in the server's records, or the phone reported it - except where a
\* request failed between the writes of the server, or its record was read before it
\* was given its time
EntriesRecorded ==
    \A p \in Phones, t \in Tickets, m \in Times : <<p, t, m>> \in entries =>
        Known(t, m) \/ t \in reported \/ Queues(p, t, m) \/ Recording(t, m) \/ <<t, m>> \in torn

\* A phone does not let an ordinary ticket in again before it has uploaded the
\* entry it made offline, however its list is refreshed meanwhile - unless a list put
\* the ticket back between the mark and the queueing of the entry
QueuedIsUsed ==
    \A p \in Phones, t \in Tickets :
        Queued(p, t) /\ t \notin exposed[p] => local[p][t].status \notin Unused

\* A phone whose list would let in a ticket that the server no longer admits fetches
\* it again at its next refresh: a list that arrives after a newer answer, or after
\* a change made while it was on its way, is never the last word - unless the change
\* was dated before the list and committed after it
StaleIsFetchedAgain ==
    \A p \in Phones, t \in Tickets :
        local[p][t].status \in Unused /\ server[t].status \notin Unused
        => t \in changed[p] \cup hidden[p]

\* ticket-template.service.ts, update: "touch the tickets of this tariff so their
\* new days reach the scanners": once the days are written, a phone has them or will
\* fetch the tickets again
DaysReachScanners ==
    \A p \in Phones, t \in Tickets \ editing :
        (t \in listed[p] <=> t \in passes) \/ t \in changed[p] \/ Queued(p, t)
=============================================================================
