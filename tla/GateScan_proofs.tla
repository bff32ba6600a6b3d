--------------------------- MODULE GateScan_proofs ---------------------------
(***************************************************************************)
(* Proofs about GateScan for any number of phones, tickets and requests,   *)
(* in layers: what each record holds and which request each phone waits    *)
(* for (TypeInv), when a ticket has been entered (EnteredInv), what a list *)
(* on its way may miss (ListInv), and that every time of entry anybody     *)
(* has read is in the server's records (RecordInv).                        *)
(***************************************************************************)
EXTENDS GateScan, TLAPS

-----------------------------------------------------------------------------
(***************************************************************************)
(* Layer 1: types, and whose request is whose.                             *)
(***************************************************************************)
Busy == [step : {"sent", "claim", "pass", "record", "date", "answer"}, ticket : Tickets,
         at : 0..MaxTime, awaited : BOOLEAN,
         result : {"NONE", "VALID", "ALREADY_USED", "INVALID", "ERROR"}, seenAt : 0..MaxTime]
Asking == [step : {"wait"}, request : Requests]
Marking == [step : {"mark", "queue"}, ticket : Tickets, at : Times]
Waits == [step : {"wait"}, request : Requests, entry : Entry]
Lists == UNION {[D -> Marks] : D \in SUBSET Tickets}
Packs == [step : {"pack"}, since : SUBSET Tickets, early : SUBSET Writers,
          passes : SUBSET Tickets, list : Lists]
Acts == [act : OrganizerActs \cup {"none"}, at : 0..MaxTime]

\* An entry being recorded and a person let in have a time, the phone's if it is kept
TimesFit(k) ==
    /\ k.step = "record" => k.seenAt \in Times /\ (k.at = Never \/ k.seenAt = k.at)
    /\ k.step = "date" => k.at \in Times /\ k.seenAt \in Times
    /\ k.step = "answer" /\ k.result = "VALID" =>
         k.seenAt \in Times /\ (k.at = Never \/ k.seenAt = k.at)

\* A phone uploads an entry it still has, that it may send again
WaitFits(p) ==
    sync[p].step = "wait" => sync[p].entry \in queue[p] /\ sync[p].entry.tries < MaxTries
PackFits(p) == sync[p].step = "pack" => sync[p].passes \subseteq DOMAIN sync[p].list

ServerOK ==
    /\ passes \subseteq Tickets /\ editing \subseteq Tickets /\ restored \subseteq Tickets
    /\ torn \subseteq Tickets \X Times
    /\ office \in [Tickets -> Acts]
    /\ now \in Times /\ moves \in 0..MaxMoves
    /\ server \in [Tickets -> Marks]
    /\ valid \in [Tickets -> [Times -> Nat]]

PhonesOK ==
    /\ listed \in [Phones -> SUBSET Tickets]
    /\ local \in [Phones -> [Tickets -> Marks]]
    /\ exposed \in [Phones -> SUBSET Tickets]
    /\ entries \subseteq Phones \X Tickets \X Times
    /\ reported \subseteq Tickets

DatesOK ==
    /\ changed \in [Phones -> SUBSET Tickets]
    /\ early \in [Phones -> SUBSET Writers]
    /\ hidden \in [Phones -> SUBSET Tickets]

SyncOK ==
    /\ queue \in [Phones -> SUBSET Entry]
    /\ sync \in [Phones -> {NoSync} \cup Waits \cup Packs]
    /\ \A p \in Phones : WaitFits(p) /\ PackFits(p)

RequestsOK ==
    /\ req \in [Requests -> {Free} \cup Busy]
    /\ \A r \in Requests : TimesFit(req[r])

\* The request a phone waits for is its own, and is not freed before it gives up
ScanOwned(p) ==
    scan[p].step = "wait" =>
        /\ req[scan[p].request] # Free /\ req[scan[p].request].awaited
        /\ \A o \in Phones \ {p} : scan[o].step = "wait" => scan[o].request # scan[p].request
        /\ \A o \in Phones : sync[o].step = "wait" => sync[o].request # scan[p].request
UploadOwned(p) ==
    sync[p].step = "wait" =>
        /\ req[sync[p].request] # Free /\ req[sync[p].request].awaited
        /\ req[sync[p].request].ticket = sync[p].entry.ticket
        /\ \A o \in Phones \ {p} : sync[o].step = "wait" => sync[o].request # sync[p].request

OwnersOK ==
    /\ scan \in [Phones -> {NoScan} \cup Asking \cup Marking]
    /\ \A p \in Phones : ScanOwned(p) /\ UploadOwned(p)

TypeInv == ServerOK /\ PhonesOK /\ DatesOK /\ SyncOK /\ RequestsOK /\ OwnersOK

LEMMA TypeInvImplies == TypeInv => TypeOK
<1> SUFFICES ASSUME TypeInv PROVE TypeOK
  OBVIOUS
<1>1. \A r \in Requests : LET q == req[r] IN
         \/ q = Free
         \/ /\ q.step \in {"sent", "claim", "pass", "record", "date", "answer"}
            /\ q.ticket \in Tickets /\ q.at \in 0..MaxTime /\ q.seenAt \in 0..MaxTime
            /\ q.awaited \in BOOLEAN
            /\ q.result \in {"NONE", "VALID", "ALREADY_USED", "INVALID", "ERROR"}
  BY DEF TypeInv, RequestsOK, Busy
<1>2. \A p \in Phones : LET s == sync[p] IN
         \/ s = NoSync
         \/ s.step = "wait" /\ s.request \in Requests /\ s.entry \in queue[p]
         \/ s.step = "pack" /\ s.since \subseteq Tickets /\ s.early \subseteq Writers
            /\ s.passes \subseteq DOMAIN s.list /\ DOMAIN s.list \subseteq Tickets
            /\ \A t \in DOMAIN s.list : s.list[t] \in Marks
  <2> SUFFICES ASSUME NEW p \in Phones
               PROVE  LET s == sync[p] IN
         \/ s = NoSync
         \/ s.step = "wait" /\ s.request \in Requests /\ s.entry \in queue[p]
         \/ s.step = "pack" /\ s.since \subseteq Tickets /\ s.early \subseteq Writers
            /\ s.passes \subseteq DOMAIN s.list /\ DOMAIN s.list \subseteq Tickets
            /\ \A t \in DOMAIN s.list : s.list[t] \in Marks
    OBVIOUS
  <2>1. sync[p] \in {NoSync} \cup Waits \cup Packs /\ WaitFits(p) /\ PackFits(p)
    BY DEF TypeInv, SyncOK
  <2>2. CASE sync[p] \in Waits
    BY <2>1, <2>2 DEF Waits, WaitFits
  <2>3. CASE sync[p] \in Packs
    <3>1. sync[p].step = "pack" /\ sync[p].since \subseteq Tickets
          /\ sync[p].early \subseteq Writers /\ sync[p].list \in Lists
      BY <2>3 DEF Packs
    <3>2. DOMAIN sync[p].list \subseteq Tickets /\ \A t \in DOMAIN sync[p].list : sync[p].list[t] \in Marks
      BY <3>1 DEF Lists
    <3> QED
      BY <2>1, <3>1, <3>2 DEF PackFits
  <2> QED
    BY <2>1, <2>2, <2>3
<1>3. \A p \in Phones : LET s == scan[p] IN
         \/ s = NoScan
         \/ s.step = "wait" /\ s.request \in Requests
         \/ s.step \in {"mark", "queue"} /\ s.ticket \in Tickets /\ s.at \in Times
  BY DEF TypeInv, OwnersOK, Asking, Marking
<1> QED
  BY <1>1, <1>2, <1>3 DEF TypeInv, ServerOK, PhonesOK, DatesOK, SyncOK, Acts, TypeOK

LEMMA InitTypeInv == Init => TypeInv
<1> SUFFICES ASSUME Init PROVE TypeInv
  OBVIOUS
<1>1. Never \in 0..MaxTime /\ 0 \in 0..MaxMoves /\ 0 \in Nat /\ 1 \in Times
  BY TimeAssumption, BoundAssumption DEF Never, Times
<1>2. [status |-> "VALID", at |-> Never] \in Marks /\ NoAct \in Acts
  BY <1>1 DEF Marks, Statuses, NoAct, Acts
<1>3. ServerOK
  BY <1>1, <1>2 DEF Init, ServerOK
<1>4. PhonesOK /\ DatesOK
  BY <1>1, <1>2 DEF Init, PhonesOK, DatesOK
<1>5. SyncOK
  BY DEF Init, SyncOK, WaitFits, PackFits, NoSync
<1>6. RequestsOK
  BY DEF Init, RequestsOK, TimesFit, Free
<1>7. OwnersOK
  BY DEF Init, OwnersOK, ScanOwned, UploadOwned, NoSync, NoScan
<1> QED
  BY <1>3, <1>4, <1>5, <1>6, <1>7 DEF TypeInv

-----------------------------------------------------------------------------
(***************************************************************************)
(* What the steps have in common.                                          *)
(***************************************************************************)
\* The server takes the request of r a step further, or drops it once its phone
\* has given up
Continues(r, k) ==
    /\ req[r] \in Busy /\ k \in {Free} \cup Busy /\ TimesFit(k)
    /\ req' = [req EXCEPT ![r] = k]
    /\ k = Free => ~req[r].awaited
    /\ k # Free => k.ticket = req[r].ticket /\ k.awaited = req[r].awaited

\* The lists on their way only learn what was written since, the uploads go on
SameSync ==
    /\ sync' \in [Phones -> {NoSync} \cup Waits \cup Packs]
    /\ \A p \in Phones :
         IF sync[p].step = "pack"
         THEN /\ sync'[p].step = "pack" /\ sync'[p].list = sync[p].list
              /\ sync'[p].passes = sync[p].passes
         ELSE sync'[p] = sync[p]

\* After a write of t only t is dated anew: after each list, or it is hidden from it
DatedAnew(t) ==
    \A p \in Phones :
        /\ changed'[p] \subseteq changed[p] \cup {t} /\ changed[p] \subseteq changed'[p] \cup {t}
        /\ hidden'[p] \subseteq hidden[p] \cup {t} /\ hidden[p] \subseteq hidden'[p] \cup {t}
        /\ t \in changed'[p] \cup hidden'[p]
        /\ sync[p].step = "pack" => /\ sync[p].since \subseteq sync'[p].since \cup {t}
                                    /\ t \in sync'[p].since \cup hidden'[p]

\* A request that is not free is under way
LEMMA StepIsBusy ==
    ASSUME TypeInv, NEW r \in Requests, req[r].step # "free"
    PROVE  req[r] \in Busy
  BY DEF TypeInv, RequestsOK, Free

LEMMA FreeStep == Free.step = "free" /\ NoSync.step = "no" /\ NoScan.step = "no"
  BY DEF Free, NoSync, NoScan

LEMMA TimesAreMarks == Times \subseteq 0..MaxTime /\ Never \in 0..MaxTime /\ Never \notin Times
  BY TimeAssumption DEF Times, Never

LEMMA ScanTimeFits ==
    ASSUME TypeInv, NEW q \in Busy
    PROVE  /\ ScanTime(q) \in Times /\ ScanTime(q) \in 0..MaxTime
           /\ q.at = Never \/ ScanTime(q) = q.at
           /\ q.at = Never => ScanTime(q) = now
           /\ [status |-> "USED", at |-> ScanTime(q)] \in Marks
<1>1. now \in Times /\ q.at \in 0..MaxTime
  BY DEF TypeInv, ServerOK, Busy
<1>2. q.at = Never \/ q.at \in Times
  BY <1>1, TimeAssumption DEF Times, Never
<1> QED
  BY <1>1, <1>2, TimesAreMarks DEF ScanTime, Marks, Statuses

\* What an answer makes of the request.
LEMMA AnswerContinues ==
    ASSUME TypeInv, NEW r \in Requests, req[r] \in Busy,
           NEW result \in {"VALID", "ALREADY_USED", "INVALID", "ERROR"}, NEW at \in 0..MaxTime,
           result = "VALID" => at \in Times /\ (req[r].at = Never \/ at = req[r].at),
           Answer(r, result, at)
    PROVE  \E k : /\ Continues(r, k)
                  /\ k # Free => k.step = "answer" /\ k.result = result /\ k.seenAt = at
                                 /\ k.at = req[r].at
<1> DEFINE a == [req[r] EXCEPT !.step = "answer", !.result = result, !.seenAt = at]
<1>1. a \in Busy /\ a.step = "answer" /\ a.result = result /\ a.seenAt = at /\ a.at = req[r].at
      /\ a.ticket = req[r].ticket /\ a.awaited = req[r].awaited
  BY DEF Busy
<1>3. TimesFit(a)
  <2> HIDE DEF a
  <2> QED
    BY <1>1 DEF TimesFit
<1>4. CASE req[r].awaited
  <2>1. req' = [req EXCEPT ![r] = a]
    BY <1>4 DEF Answer
  <2> HIDE DEF a
  <2>2. a # Free
    BY <1>1, FreeStep
  <2> QED
    BY <1>1, <1>3, <2>1, <2>2 DEF Continues
<1>5. CASE ~req[r].awaited
  <2>1. req' = [req EXCEPT ![r] = Free]
    BY <1>5 DEF Answer
  <2>2. TimesFit(Free)
    BY DEF TimesFit, Free
  <2> QED
    BY <1>5, <2>1, <2>2 DEF Continues
<1>6. req[r].awaited \in BOOLEAN
  BY DEF Busy
<1> QED
  BY <1>4, <1>5, <1>6

\* What a write does to the rows, to the dates of the lists and to the lists on
\* their way.
LEMMA CommitFits ==
    ASSUME TypeInv, NEW w \in Writers, NEW t \in Tickets, NEW mark \in Marks, Commit(w, t, mark)
    PROVE  /\ server' = [server EXCEPT ![t] = mark] /\ server' \in [Tickets -> Marks]
           /\ DatesOK' /\ SameSync /\ DatedAnew(t)
<1>1. PICK late \in SUBSET Late(w) : CommitDated(w, t, mark, late)
  BY DEF Commit
<1>2. /\ server \in [Tickets -> Marks] /\ changed \in [Phones -> SUBSET Tickets]
      /\ early \in [Phones -> SUBSET Writers] /\ hidden \in [Phones -> SUBSET Tickets]
      /\ sync \in [Phones -> {NoSync} \cup Waits \cup Packs]
  BY DEF TypeInv, ServerOK, DatesOK, SyncOK
<1>3. /\ server' = [server EXCEPT ![t] = mark]
      /\ changed' = [p \in Phones |-> IF p \in late /\ w \in early[p] THEN changed[p] \ {t}
                                      ELSE changed[p] \cup {t}]
      /\ hidden' = [p \in Phones |-> IF p \in late THEN hidden[p] \cup {t} ELSE hidden[p] \ {t}]
      /\ early' = [p \in Phones |-> early[p] \ {w}]
      /\ sync' = [p \in Phones |-> IF sync[p].step = "pack"
                                   THEN [Ended(p, w) EXCEPT !.since =
                                           IF p \in late THEN @ \ {t} ELSE @ \cup {t}]
                                   ELSE sync[p]]
  BY <1>1 DEF CommitDated
<1>4. DatesOK'
  BY <1>2, <1>3 DEF DatesOK
<1>5. \A s \in Waits : s.step = "wait"
  BY DEF Waits
<1>6. \A p \in Phones : sync[p].step = "pack" => sync[p] \in Packs
  BY <1>2, <1>5, FreeStep
<1>7. ASSUME NEW p \in Phones, sync[p].step = "pack"
      PROVE  /\ sync'[p] \in Packs /\ sync'[p].step = "pack" /\ sync'[p].list = sync[p].list
             /\ sync'[p].passes = sync[p].passes
             /\ p \in late => sync'[p].since = sync[p].since \ {t}
             /\ p \notin late => sync'[p].since = sync[p].since \cup {t}
  <2>1. sync'[p] = [[sync[p] EXCEPT !.early = @ \ {w}] EXCEPT !.since =
                      IF p \in late THEN @ \ {t} ELSE @ \cup {t}]
    BY <1>3, <1>7 DEF Ended
  <2> DEFINE s == [sync[p] EXCEPT !.early = @ \ {w}]
  <2>2. s \in Packs /\ s.step = "pack" /\ s.list = sync[p].list /\ s.passes = sync[p].passes
        /\ s.since = sync[p].since
    BY <1>6, <1>7 DEF Packs
  <2>3. sync'[p] = [s EXCEPT !.since = IF p \in late THEN @ \ {t} ELSE @ \cup {t}]
    BY <2>1
  <2> HIDE DEF s
  <2> QED
    BY <2>2, <2>3 DEF Packs
<1>8. \A p \in Phones : sync[p].step # "pack" => sync'[p] = sync[p]
  BY <1>3
<1>9. \A p \in Phones : sync'[p] \in {NoSync} \cup Waits \cup Packs
  BY <1>2, <1>7, <1>8
<1>10. sync' \in [Phones -> {NoSync} \cup Waits \cup Packs]
  BY <1>3, <1>9
<1>11. SameSync
  BY <1>7, <1>8, <1>10 DEF SameSync
<1>12. DatedAnew(t)
  BY <1>2, <1>3, <1>7 DEF DatedAnew
<1> QED
  BY <1>2, <1>3, <1>4, <1>11, <1>12

LEMMA NothingFits ==
    ASSUME TypeInv, NEW w \in Writers, WriteNothing(w)
    PROVE  /\ UNCHANGED <<server, changed, hidden>> /\ DatesOK' /\ SameSync
           /\ \A p \in Phones : sync[p].step = "pack" => sync'[p].since = sync[p].since
<1>1. /\ early \in [Phones -> SUBSET Writers]
      /\ sync \in [Phones -> {NoSync} \cup Waits \cup Packs]
  BY DEF TypeInv, DatesOK, SyncOK
<1>2. /\ sync' = [p \in Phones |-> Ended(p, w)] /\ early' = [p \in Phones |-> early[p] \ {w}]
      /\ UNCHANGED <<server, changed, hidden>>
  BY DEF WriteNothing
<1>3. DatesOK'
  BY <1>1, <1>2 DEF TypeInv, DatesOK
<1>4. \A s \in Waits : s.step = "wait"
  BY DEF Waits
<1>5. ASSUME NEW p \in Phones, sync[p].step = "pack"
      PROVE  /\ sync'[p] \in Packs /\ sync'[p].step = "pack" /\ sync'[p].list = sync[p].list
             /\ sync'[p].passes = sync[p].passes /\ sync'[p].since = sync[p].since
  <2>1. sync[p] \in Packs /\ sync'[p] = [sync[p] EXCEPT !.early = @ \ {w}]
    BY <1>1, <1>2, <1>4, <1>5, FreeStep DEF Ended
  <2> QED
    BY <2>1 DEF Packs
<1>6. \A p \in Phones : sync[p].step # "pack" => sync'[p] = sync[p]
  BY <1>2 DEF Ended
<1>7. \A p \in Phones : sync'[p] \in {NoSync} \cup Waits \cup Packs
  BY <1>1, <1>5, <1>6
<1>8. sync' \in [Phones -> {NoSync} \cup Waits \cup Packs]
  BY <1>2, <1>7
<1>9. SameSync
  BY <1>5, <1>6, <1>8 DEF SameSync
<1> QED
  BY <1>2, <1>3, <1>5, <1>9

\* What scanTicket makes of the request when it has read the ticket: an ordinary
\* ticket or a pass goes on, an entry it tells of is in the records, or being recorded.
ReadAs(r, k) ==
    \/ k = Free
    \/ /\ k.step = "answer" /\ k.result # "VALID" /\ k.at = req[r].at
       /\ \/ k.seenAt = Never
          \/ k.seenAt = server[req[r].ticket].at
          \/ \/ valid[req[r].ticket][k.seenAt] > 0
             \/ Recording(req[r].ticket, k.seenAt)
             \/ <<req[r].ticket, k.seenAt>> \in torn'
    \/ /\ k.step = "pass" /\ req[r].ticket \in passes /\ k.at = KeptTime(req[r])
    \/ /\ k.step = "claim" /\ req[r].ticket \notin passes /\ k.at = KeptTime(req[r])
       /\ k.seenAt = server[req[r].ticket].at

LEMMA ReadContinues ==
    ASSUME TypeInv, NEW r \in Requests, ReadTicket(r)
    PROVE  /\ \E k : Continues(r, k) /\ ReadAs(r, k)
           /\ torn \subseteq torn' /\ torn' \subseteq Tickets \X Times
<1> DEFINE q == req[r]
           g == [q EXCEPT !.at = KeptTime(q)]
           t == q.ticket
           today == EnteredAt(t, Day[ScanTime(g)])
           Goes(step) == req' = [req EXCEPT ![r] = [g EXCEPT !.step = step, !.seenAt = server[t].at]]
<1>1. q \in Busy /\ q.step = "sent" /\ t \in Tickets
  BY StepIsBusy DEF ReadTicket, Busy
<1>2. server[t] \in Marks /\ server[t].at \in 0..MaxTime /\ torn \subseteq Tickets \X Times
  BY <1>1 DEF TypeInv, ServerOK, Marks
<1>g. g \in Busy /\ g.ticket = t /\ g.awaited = q.awaited /\ g.at = KeptTime(q)
  <2>1. KeptTime(q) \in 0..MaxTime
    BY <1>1, TimesAreMarks DEF KeptTime, Busy
  <2> QED
    BY <1>1, <2>1 DEF Busy
<1>3. CASE Answer(r, "INVALID", Never) /\ UNCHANGED torn
  <2>1. PICK k : /\ Continues(r, k)
                 /\ k # Free => k.step = "answer" /\ k.result = "INVALID" /\ k.seenAt = Never
                                /\ k.at = q.at
    BY <1>1, <1>3, AnswerContinues, TimesAreMarks
  <2> QED
    BY <1>2, <1>3, <2>1 DEF ReadAs
<1>4. CASE Answer(r, "ALREADY_USED", server[t].at) /\ UNCHANGED torn
  <2>1. PICK k : /\ Continues(r, k)
                 /\ k # Free => k.step = "answer" /\ k.result = "ALREADY_USED"
                                /\ k.seenAt = server[t].at /\ k.at = q.at
    BY <1>1, <1>2, <1>4, AnswerContinues
  <2> QED
    BY <1>2, <1>4, <2>1 DEF ReadAs
<1>5. ASSUME NEW m \in today, Answer(r, "ALREADY_USED", m),
             torn' = IF valid[t][m] > 0 \/ Recording(t, m) THEN torn ELSE torn \cup {<<t, m>>}
      PROVE  /\ \E k : Continues(r, k) /\ ReadAs(r, k)
             /\ torn \subseteq torn' /\ torn' \subseteq Tickets \X Times
  <2>1. m \in RecordedAt(t)
    BY <1>5 DEF EnteredAt
  <2>2. m \in Times
    BY <2>1 DEF RecordedAt, TypeInv, RequestsOK, TimesFit
  <2>3. m \in 0..MaxTime
    BY <2>2, TimesAreMarks
  <2> HIDE DEF today
  <2>4. PICK k : /\ Continues(r, k)
                 /\ k # Free => k.step = "answer" /\ k.result = "ALREADY_USED" /\ k.seenAt = m
                                /\ k.at = q.at
    BY <1>1, <1>5, <2>3, AnswerContinues
  <2>5. torn \subseteq torn' /\ torn' \subseteq Tickets \X Times
        /\ (valid[t][m] > 0 \/ Recording(t, m) \/ <<t, m>> \in torn')
    BY <1>1, <1>2, <1>5, <2>2
  <2> QED
    BY <2>4, <2>5 DEF ReadAs
<1>6. ASSUME NEW step \in {"claim", "pass"}, Goes(step)
      PROVE  \E k : /\ Continues(r, k) /\ k # Free /\ k.step = step /\ k.at = KeptTime(q)
                    /\ k.seenAt = server[t].at
  <2> DEFINE k == [g EXCEPT !.step = step, !.seenAt = server[t].at]
  <2>1. k \in Busy /\ k.step = step /\ k.ticket = t /\ k.awaited = q.awaited
        /\ k.at = KeptTime(q) /\ k.seenAt = server[t].at
    <3> HIDE DEF g
    <3> QED
      BY <1>2, <1>6, <1>g DEF Busy
  <2>2. req' = [req EXCEPT ![r] = k]
    BY <1>6
  <2> HIDE DEF k
  <2>3. TimesFit(k) /\ k # Free
    BY <1>6, <2>1, FreeStep DEF TimesFit
  <2> QED
    BY <1>1, <2>1, <2>2, <2>3 DEF Continues
<1>7. CASE Goes("pass") /\ t \in passes /\ UNCHANGED torn
  BY <1>2, <1>6, <1>7 DEF ReadAs
<1>8. CASE Goes("claim") /\ t \notin passes /\ UNCHANGED torn
  BY <1>2, <1>6, <1>8 DEF ReadAs
<1>9. \/ Answer(r, "INVALID", Never) /\ UNCHANGED torn
      \/ Answer(r, "ALREADY_USED", server[t].at) /\ UNCHANGED torn
      \/ \E m \in today :
           /\ Answer(r, "ALREADY_USED", m)
           /\ torn' = IF valid[t][m] > 0 \/ Recording(t, m) THEN torn ELSE torn \cup {<<t, m>>}
      \/ Goes("pass") /\ t \in passes /\ UNCHANGED torn
      \/ Goes("claim") /\ t \notin passes /\ UNCHANGED torn
  <2> USE <1>g DEF ReadTicket
  <2> QED
    OBVIOUS
<1> QED
  BY <1>3, <1>4, <1>5, <1>7, <1>8, <1>9

\* What a step at "record" or "date" makes of the request.
LEMMA RecordContinues ==
    ASSUME TypeInv, NEW r \in Requests, Record(r)
    PROVE  /\ req[r] \in Busy /\ req[r].step = "record" /\ req[r].ticket \in Tickets
           /\ req[r].seenAt \in Times
           /\ \/ /\ req[r].at = Never /\ IsRecorded(req[r].ticket, req[r].seenAt)
                 /\ \E k : /\ Continues(r, k)
                           /\ k # Free => k.step = "answer" /\ k.seenAt = req[r].seenAt
                                          /\ k.at = Never
              \/ /\ req[r].at \in Times /\ req[r].seenAt = req[r].at /\ UNCHANGED valid
                 /\ \E k : /\ Continues(r, k) /\ k # Free /\ k.step = "date"
                           /\ k.at = req[r].at /\ k.ticket = req[r].ticket
<1> DEFINE q == req[r]
<1>1. q \in Busy /\ q.step = "record" /\ q.ticket \in Tickets
  BY StepIsBusy DEF Record, Busy
<1>2. q.seenAt \in Times /\ q.seenAt \in 0..MaxTime /\ (q.at = Never \/ q.seenAt = q.at)
  BY <1>1, TimesAreMarks DEF TypeInv, RequestsOK, TimesFit
<1>3. CASE q.at = Never
  <2>1. PICK result \in {"VALID", "ERROR"} : Answer(r, result, q.seenAt)
    BY <1>3 DEF Record
  <2>2. \E k : /\ Continues(r, k)
               /\ k # Free => k.step = "answer" /\ k.seenAt = q.seenAt /\ k.at = q.at
    BY <1>1, <1>2, <1>3, <2>1, AnswerContinues
  <2>3. IsRecorded(q.ticket, q.seenAt)
    BY <1>3 DEF Record
  <2> QED
    BY <1>1, <1>2, <1>3, <2>2, <2>3
<1>4. CASE q.at # Never
  <2> DEFINE k == [q EXCEPT !.step = "date", !.seenAt = now]
  <2>1. now \in Times /\ now \in 0..MaxTime
    BY TimesAreMarks DEF TypeInv, ServerOK
  <2>2. k \in Busy /\ k.step = "date" /\ k.seenAt = now /\ k.at = q.at /\ k.ticket = q.ticket
        /\ k.awaited = q.awaited
    BY <1>1, <2>1 DEF Busy
  <2>3. req' = [req EXCEPT ![r] = k] /\ UNCHANGED valid
    BY <1>4 DEF Record, TypeInv, RequestsOK
  <2> HIDE DEF k
  <2>4. TimesFit(k) /\ k # Free
    BY <1>2, <1>4, <2>1, <2>2, FreeStep DEF TimesFit
  <2>5. Continues(r, k)
    BY <1>1, <2>2, <2>3, <2>4 DEF Continues
  <2> QED
    BY <1>1, <1>2, <1>4, <2>2, <2>3, <2>4, <2>5
<1> QED
  BY <1>3, <1>4

LEMMA DateContinues ==
    ASSUME TypeInv, NEW r \in Requests, Date(r)
    PROVE  /\ req[r] \in Busy /\ req[r].step = "date" /\ req[r].ticket \in Tickets
           /\ req[r].at \in Times /\ IsRecorded(req[r].ticket, req[r].at)
           /\ \E k : /\ Continues(r, k)
                     /\ k # Free => k.step = "answer" /\ k.seenAt = req[r].at /\ k.at = req[r].at
<1>1. req[r] \in Busy /\ req[r].step = "date" /\ req[r].ticket \in Tickets
  BY StepIsBusy DEF Date, Busy
<1>2. req[r].at \in Times /\ req[r].at \in 0..MaxTime
  BY <1>1, TimesAreMarks DEF TypeInv, RequestsOK, TimesFit
<1>3. Answer(r, "VALID", req[r].at) /\ IsRecorded(req[r].ticket, req[r].at)
  BY DEF Date
<1>4. \E k : /\ Continues(r, k)
             /\ k # Free => k.step = "answer" /\ k.seenAt = req[r].at /\ k.at = req[r].at
  BY <1>1, <1>2, <1>3, AnswerContinues
<1> QED
  BY <1>1, <1>2, <1>3, <1>4

LEMMA FailContinues ==
    ASSUME TypeInv, NEW r \in Requests, FailRequest(r)
    PROVE  /\ req[r] \in Busy /\ req[r].ticket \in Tickets
           /\ \E k : /\ Continues(r, k)
                     /\ k # Free => k.step = "answer" /\ k.result = "ERROR" /\ k.seenAt = Never
                                    /\ k.at = req[r].at
           /\ WriteNothing(r)
           /\ Enters(req[r]) => torn' = torn \cup {<<req[r].ticket, Meant(req[r])>>}
                                /\ Meant(req[r]) \in Times
           /\ ~Enters(req[r]) => torn' = torn
           /\ req[r].step = "date" => IsRecorded(req[r].ticket, req[r].seenAt)
                                      /\ req[r].seenAt \in Times
           /\ req[r].step # "date" => valid' = valid
<1>1. req[r] \in Busy /\ req[r].ticket \in Tickets
  BY StepIsBusy DEF FailRequest, Busy
<1>2. \E k : /\ Continues(r, k)
             /\ k # Free => k.step = "answer" /\ k.result = "ERROR" /\ k.seenAt = Never
                            /\ k.at = req[r].at
  BY <1>1, AnswerContinues, TimesAreMarks DEF FailRequest
<1>3. TimesFit(req[r])
  BY DEF TypeInv, RequestsOK
<1> QED
  BY <1>1, <1>2, <1>3 DEF FailRequest, Enters, Meant, TimesFit

\* What a claim and the entry of a pass make of the request.
LEMMA EnterContinues ==
    ASSUME TypeInv, NEW r \in Requests, req[r] \in Busy, GoesOn(r, ScanTime(req[r]))
    PROVE  \E k : /\ Continues(r, k) /\ k # Free /\ k.step = "record" /\ k.at = req[r].at
                  /\ k.seenAt = ScanTime(req[r]) /\ k.ticket = req[r].ticket
<1> DEFINE q == req[r]
           k == [q EXCEPT !.step = "record", !.seenAt = ScanTime(q)]
<1>1. ScanTime(q) \in Times /\ ScanTime(q) \in 0..MaxTime /\ (q.at = Never \/ ScanTime(q) = q.at)
  BY ScanTimeFits
<1>2. k \in Busy /\ k.step = "record" /\ k.at = q.at /\ k.ticket = q.ticket
      /\ k.awaited = q.awaited /\ k.seenAt = ScanTime(q)
  BY <1>1 DEF Busy
<1>3. req' = [req EXCEPT ![r] = k]
  BY DEF GoesOn, TypeInv, RequestsOK
<1> HIDE DEF k
<1>4. TimesFit(k) /\ k # Free
  BY <1>1, <1>2, FreeStep DEF TimesFit
<1> QED
  BY <1>2, <1>3, <1>4 DEF Continues

LEMMA StepTypeInv == TypeInv /\ [Next]_vars => TypeInv'
<1> SUFFICES ASSUME TypeInv, [Next]_vars PROVE TypeInv'
  OBVIOUS
<1> USE DEF history
<1>a. ServerOK /\ PhonesOK /\ DatesOK /\ SyncOK /\ RequestsOK /\ OwnersOK
  BY DEF TypeInv
<1>m. Move => moves' \in 0..MaxMoves
  BY <1>a, BoundAssumption DEF Move, ServerOK
\* What a step leaves alone
<1>k. UNCHANGED <<passes, editing, restored, torn, office, now, moves, server, valid>> => ServerOK'
  BY <1>a DEF ServerOK
<1>l. UNCHANGED <<listed, local, exposed, entries, reported>> => PhonesOK'
  BY <1>a DEF PhonesOK
<1>d. UNCHANGED dates => DatesOK'
  BY <1>a DEF DatesOK, dates
<1>s. UNCHANGED <<queue, sync>> => SyncOK'
  BY <1>a DEF SyncOK, WaitFits, PackFits
<1>q. UNCHANGED req => RequestsOK'
  BY <1>a DEF RequestsOK
<1>o. UNCHANGED <<req, scan, sync>> => OwnersOK'
  BY <1>a DEF OwnersOK, ScanOwned, UploadOwned
<1>v. \A p \in Phones : sync[p].step = "wait" => sync[p] \in Waits /\ sync[p].request \in Requests
  BY <1>a, FreeStep DEF SyncOK, Waits, Packs
<1>w. \A p \in Phones : scan[p].step = "wait" => scan[p] \in Asking /\ scan[p].request \in Requests
  BY <1>a, FreeStep DEF OwnersOK, Asking, Marking
\* A request goes on
<1>r. ASSUME NEW r \in Requests, NEW k \in {Free} \cup Busy, TimesFit(k),
             req' = [req EXCEPT ![r] = k]
      PROVE  RequestsOK'
  BY <1>a, <1>r DEF RequestsOK
<1>c. ASSUME NEW r \in Requests, NEW k, Continues(r, k), UNCHANGED <<scan, queue>>,
             UNCHANGED sync \/ SameSync
      PROVE  RequestsOK' /\ OwnersOK' /\ SyncOK'
  <2>1. RequestsOK'
    BY <1>c, <1>r DEF Continues
  <2>2. \A o \in Requests : req[o] # Free /\ req[o].awaited =>
           /\ req'[o] # Free /\ req'[o].awaited /\ req'[o].ticket = req[o].ticket
    BY <1>a, <1>c DEF RequestsOK, Continues
  <2>3. \A p \in Phones : sync'[p].step = "wait" => sync[p].step = "wait" /\ sync'[p] = sync[p]
    BY <1>c DEF SameSync
  <2>4. \A p \in Phones : ScanOwned(p)'
    BY <1>a, <1>c, <1>w, <2>2, <2>3 DEF OwnersOK, ScanOwned
  <2>5. \A p \in Phones : UploadOwned(p)'
    <3> SUFFICES ASSUME NEW p \in Phones, sync'[p].step = "wait"
                 PROVE  /\ req'[sync'[p].request] # Free
                        /\ req'[sync'[p].request].awaited
                        /\ req'[sync'[p].request].ticket = sync'[p].entry.ticket
                        /\ \A o \in Phones \ {p} :
                             sync'[o].step = "wait" => sync'[o].request # sync'[p].request
      BY DEF UploadOwned
    <3>1. UploadOwned(p) /\ sync[p].step = "wait" /\ sync'[p] = sync[p]
      BY <1>a, <2>3 DEF OwnersOK
    <3>2. \A o \in Phones \ {p} : sync'[o].step = "wait" => sync'[o].request # sync'[p].request
      BY <2>3, <3>1 DEF UploadOwned
    <3> QED
      BY <1>v, <2>2, <3>1, <3>2 DEF UploadOwned
  <2>6. SyncOK'
    <3>1. CASE UNCHANGED sync
      BY <1>c, <1>s, <3>1
    <3>2. CASE SameSync
      <4>1. sync' \in [Phones -> {NoSync} \cup Waits \cup Packs]
        BY <3>2 DEF SameSync
      <4>2. \A p \in Phones : sync'[p].step = "pack" => sync[p].step = "pack"
             /\ sync'[p].list = sync[p].list /\ sync'[p].passes = sync[p].passes
        BY <3>2 DEF SameSync
      <4>3. \A p \in Phones : WaitFits(p)' /\ PackFits(p)'
        BY <1>a, <1>c, <2>3, <4>2 DEF SyncOK, WaitFits, PackFits
      <4> QED
        BY <1>a, <1>c, <4>1, <4>3 DEF SyncOK
    <3> QED
      BY <1>c, <3>1, <3>2
  <2> QED
    BY <1>a, <1>c, <2>1, <2>4, <2>5, <2>6 DEF OwnersOK
\* A phone sends a request nobody else has
<1>e. ASSUME NEW r \in Requests, NEW t \in Tickets, NEW at \in 0..MaxTime, Send(r, t, at)
      PROVE  /\ RequestsOK'
             /\ \A o \in Phones : /\ scan[o].step = "wait" => scan[o].request # r
                                  /\ sync[o].step = "wait" => sync[o].request # r
             /\ req'[r] # Free /\ req'[r].awaited /\ req'[r].ticket = t
             /\ \A o \in Requests \ {r} : req'[o] = req[o]
  <2> DEFINE k == [step |-> "sent", ticket |-> t, at |-> at, awaited |-> TRUE,
                   result |-> "NONE", seenAt |-> Never]
  <2>1. k \in Busy /\ TimesFit(k)
    BY <1>e, TimesAreMarks DEF Busy, TimesFit
  <2>2. k # Free /\ k.awaited /\ k.ticket = t
    BY FreeStep
  <2>3. req' = [req EXCEPT ![r] = k] /\ req[r] = Free
    BY <1>e DEF Send
  <2> HIDE DEF k
  <2>4. \A o \in Phones : /\ scan[o].step = "wait" => scan[o].request # r
                          /\ sync[o].step = "wait" => sync[o].request # r
    BY <1>a, <2>3 DEF OwnersOK, ScanOwned, UploadOwned
  <2> QED
    BY <1>a, <1>r, <2>1, <2>2, <2>3, <2>4 DEF RequestsOK
\* A request nobody waits for any more
<1>f. ASSUME NEW r \in Requests, \A o \in Requests \ {r} : req'[o] = req[o],
             scan' \in [Phones -> {NoScan} \cup Asking \cup Marking],
             \A o \in Phones : scan'[o].step = "wait" => scan'[o] = scan[o] /\ scan[o].request # r,
             \A o \in Phones : sync'[o].step = "wait" => sync'[o] = sync[o] /\ sync[o].request # r
      PROVE  OwnersOK'
  <2>1. \A p \in Phones : ScanOwned(p)'
    BY <1>a, <1>f, <1>w DEF OwnersOK, ScanOwned
  <2>3. \A p \in Phones : UploadOwned(p)'
    BY <1>a, <1>f, <1>v DEF OwnersOK, UploadOwned
  <2> QED
    BY <1>f, <2>1, <2>3 DEF OwnersOK
<1>g. ASSUME NEW r \in Requests, req[r] \in Busy, req' = Abandoned(r) \/ req' = Received(r)
      PROVE  RequestsOK' /\ \A o \in Requests \ {r} : req'[o] = req[o]
  <2>1. TimesFit(Free)
    BY DEF TimesFit, Free
  <2>2. CASE req' = [req EXCEPT ![r] = Free]
    BY <1>a, <1>r, <2>1, <2>2 DEF RequestsOK
  <2>3. CASE req' = [req EXCEPT ![r] = [req[r] EXCEPT !.awaited = FALSE]]
    <3> DEFINE k == [req[r] EXCEPT !.awaited = FALSE]
    <3>1. k \in Busy /\ k.step = req[r].step /\ k.at = req[r].at
          /\ k.result = req[r].result /\ k.seenAt = req[r].seenAt
      BY <1>g DEF Busy
    <3>2. TimesFit(req[r]) /\ req[r].step # "free"
      BY <1>a, <1>g DEF RequestsOK, Busy
    <3> HIDE DEF k
    <3>3. TimesFit(k)
      BY <3>1, <3>2 DEF TimesFit
    <3> QED
      BY <1>a, <1>r, <2>3, <3>1, <3>3 DEF RequestsOK, k
  <2> QED
    BY <1>a, <1>g, <2>2, <2>3 DEF Abandoned, Received
\* One cell of the records of the entries
<1>i. ASSUME NEW t \in Tickets, NEW m \in Times, IsRecorded(t, m)
      PROVE  valid' \in [Tickets -> [Times -> Nat]]
  BY <1>a, <1>i DEF ServerOK, IsRecorded
<1>j. ASSUME NEW p \in Phones, NEW t \in Tickets, NEW m \in Times, MarkUsed(p, t, m)
      PROVE  local' \in [Phones -> [Tickets -> Marks]] /\ exposed' \in [Phones -> SUBSET Tickets]
  <2>1. [status |-> "USED", at |-> m] \in Marks
    BY <1>a, TimesAreMarks DEF ServerOK, Marks, Statuses
  <2> QED
    BY <1>a, <1>j, <2>1 DEF PhonesOK, MarkUsed
\* The server
<1>1. CASE Tick
  <2>1. now' \in Times
    BY <1>1, <1>a, TimeAssumption DEF Tick, ServerOK, Times
  <2> QED
    BY <1>1, <2>1, <1>a, <1>l, <1>d, <1>s, <1>q, <1>o DEF Tick, tariffs, phoneVars, TypeInv, ServerOK
<1>2. ASSUME NEW r \in Requests, ReadTicket(r) PROVE TypeInv'
  <2>1. UNCHANGED <<tariffs, office, now, server, valid, dates, phoneVars, sync, moves, entries,
                   reported, restored>>
    BY <1>2 DEF ReadTicket
  <2>2. PICK k : Continues(r, k)
    BY <1>2, ReadContinues
  <2>3. torn' \subseteq Tickets \X Times
    BY <1>2, ReadContinues
  <2>4. ServerOK'
    BY <1>a, <2>1, <2>3 DEF ServerOK, tariffs
  <2> QED
    BY <2>1, <2>2, <2>4, <1>l, <1>d, <1>c DEF tariffs, phoneVars, TypeInv
\* A ticket is entered: the write of the claim, or that of a pass
<1>n. ASSUME NEW r \in Requests, req[r] \in Busy, NEW k, Continues(r, k),
             Commit(r, req[r].ticket, [status |-> "USED", at |-> ScanTime(req[r])]),
             UNCHANGED <<tariffs, office, now, valid, phoneVars, moves, history>>
      PROVE  TypeInv'
  <2>1. req[r].ticket \in Tickets /\ r \in Writers
    BY <1>n DEF Busy, Writers
  <2>2. [status |-> "USED", at |-> ScanTime(req[r])] \in Marks
    BY <1>n, ScanTimeFits
  <2>3. server' \in [Tickets -> Marks] /\ DatesOK' /\ SameSync
    BY <1>n, <2>1, <2>2, CommitFits
  <2>4. ServerOK'
    BY <1>a, <1>n, <2>3 DEF ServerOK, tariffs
  <2> QED
    BY <1>n, <1>c, <1>l, <2>3, <2>4 DEF tariffs, phoneVars, TypeInv
<1>3. ASSUME NEW r \in Requests, Claim(r) PROVE TypeInv'
  <2> DEFINE q == req[r]
  <2>1. q \in Busy /\ q.seenAt \in 0..MaxTime /\ r \in Writers
    BY <1>3, StepIsBusy DEF Claim, Busy, Writers
  <2>u. UNCHANGED <<tariffs, office, now, valid, phoneVars, moves, history>>
    BY <1>3 DEF Claim
  <2>3. CASE server[q.ticket].status \in Unused
    <3>1. Commit(r, q.ticket, [status |-> "USED", at |-> ScanTime(q)]) /\ GoesOn(r, ScanTime(q))
      BY <1>3, <2>3 DEF Claim
    <3>2. PICK k : Continues(r, k)
      BY <2>1, <3>1, EnterContinues
    <3> QED
      BY <1>n, <2>1, <2>u, <3>1, <3>2
  <2>4. CASE server[q.ticket].status \notin Unused
    <3>1. WriteNothing(r) /\ Answer(r, "ALREADY_USED", q.seenAt)
      BY <1>3, <2>4 DEF Claim
    <3>2. PICK k : Continues(r, k)
      BY <2>1, <3>1, AnswerContinues
    <3>3. UNCHANGED server /\ DatesOK' /\ SameSync
      BY <2>1, <3>1, NothingFits
    <3> QED
      BY <2>u, <3>2, <3>3, <1>k, <1>l, <1>c DEF tariffs, phoneVars, TypeInv
  <2> QED
    BY <2>3, <2>4
<1>4. ASSUME NEW r \in Requests, EnterPass(r) PROVE TypeInv'
  <2>1. req[r] \in Busy
    BY <1>4, StepIsBusy DEF EnterPass
  <2>2. PICK k : Continues(r, k)
    BY <1>4, <2>1, EnterContinues DEF EnterPass
  <2> QED
    BY <1>4, <1>n, <2>1, <2>2 DEF EnterPass
<1>5. ASSUME NEW r \in Requests, Record(r) \/ Date(r) PROVE TypeInv'
  <2>1. UNCHANGED <<tariffs, office, now, server, dates, phoneVars, sync, moves, history>>
    BY <1>5 DEF Record, Date
  <2>2. \E k : Continues(r, k)
    BY <1>5, RecordContinues, DateContinues
  <2>3. valid' \in [Tickets -> [Times -> Nat]]
    BY <1>5, <1>a, <1>i, RecordContinues, DateContinues DEF ServerOK
  <2>4. ServerOK'
    BY <1>a, <2>1, <2>3 DEF ServerOK, tariffs
  <2> QED
    BY <2>1, <2>2, <2>4, <1>l, <1>d, <1>c DEF tariffs, phoneVars, TypeInv
<1>6. ASSUME NEW r \in Requests, FailRequest(r) PROVE TypeInv'
  <2>1. req[r].ticket \in Tickets /\ WriteNothing(r) /\ \E k : Continues(r, k)
    BY <1>6, FailContinues
  <2>2. valid' \in [Tickets -> [Times -> Nat]]
    BY <1>6, <1>a, <1>i, FailContinues DEF ServerOK
  <2>3. torn' \subseteq Tickets \X Times
    BY <1>6, <1>a, FailContinues DEF ServerOK
  <2>4. UNCHANGED server /\ DatesOK' /\ SameSync
    BY <2>1, NothingFits DEF Writers
  <2>5. UNCHANGED <<tariffs, office, now, phoneVars, moves, entries, reported, restored>>
    BY <1>6 DEF FailRequest
  <2>6. ServerOK'
    BY <1>a, <2>2, <2>3, <2>4, <2>5 DEF ServerOK, tariffs
  <2> QED
    BY <2>1, <2>4, <2>5, <2>6, <1>l, <1>c DEF tariffs, phoneVars, TypeInv
\* The organizer
<1>8. ASSUME NEW t \in Tickets, NEW act \in OrganizerActs, Act(t, act) PROVE TypeInv'
  <2>1. [act |-> act, at |-> IF act = "USED" THEN now ELSE Never] \in Acts
    BY <1>a, TimesAreMarks DEF ServerOK, Acts
  <2>2. office' \in [Tickets -> Acts] /\ moves' \in 0..MaxMoves
        /\ UNCHANGED <<tariffs, now, server, valid, dates, phoneVars, sync, req, history>>
    BY <1>8, <1>a, <1>m, <2>1 DEF Act, ServerOK
  <2> QED
    BY <1>a, <1>l, <1>d, <1>s, <1>q, <1>o, <2>2 DEF tariffs, phoneVars, TypeInv, ServerOK
<1>9. ASSUME NEW t \in Tickets, CommitAct(t) PROVE TypeInv'
  <2> DEFINE do == office[t]
             given == [status |-> do.act, at |-> IF do.act = "USED" THEN do.at ELSE server[t].at]
  <2>1. t \in Writers /\ server[t] \in Marks /\ do \in Acts
    BY <1>a DEF ServerOK, Writers
  <2>2. do.act \in Statuses => given \in Marks
    BY <2>1 DEF Marks, Acts
  <2>3. office' \in [Tickets -> Acts]
    BY <1>9, <1>a, TimesAreMarks DEF CommitAct, ServerOK, NoAct, Acts
  <2>4. \E mark \in Marks : Commit(t, t, mark)
    BY <1>9, <2>1, <2>2 DEF CommitAct
  <2>5. server' \in [Tickets -> Marks] /\ DatesOK' /\ SameSync
    BY <2>1, <2>4, CommitFits
  <2>6. restored' \subseteq Tickets /\ editing' \subseteq Tickets
        /\ UNCHANGED <<passes, listed, now, valid, phoneVars, moves, req, entries, reported, torn>>
    BY <1>9, <1>a DEF CommitAct, ServerOK
  <2>7. ServerOK'
    BY <1>a, <2>3, <2>5, <2>6 DEF ServerOK
  <2>8. SyncOK' /\ OwnersOK'
    <3>1. \A p \in Phones : sync'[p].step = "wait" => sync[p].step = "wait" /\ sync'[p] = sync[p]
      BY <2>5 DEF SameSync
    <3>2. \A p \in Phones : sync'[p].step = "pack" => sync[p].step = "pack"
           /\ sync'[p].list = sync[p].list /\ sync'[p].passes = sync[p].passes
      BY <2>5 DEF SameSync
    <3>3. SyncOK'
      BY <1>a, <2>5, <2>6, <3>1, <3>2 DEF SyncOK, WaitFits, PackFits, SameSync, phoneVars
    <3>4. OwnersOK'
      BY <1>a, <2>6, <3>1 DEF OwnersOK, ScanOwned, UploadOwned, phoneVars
    <3> QED
      BY <3>3, <3>4
  <2> QED
    BY <1>l, <1>q, <2>5, <2>6, <2>7, <2>8 DEF phoneVars, TypeInv
<1>10. ASSUME NEW t \in Tickets, WriteDays(t) PROVE TypeInv'
  BY <1>10, <1>a, <1>l, <1>d, <1>s, <1>q, <1>o DEF WriteDays, phoneVars, TypeInv, ServerOK
\* The scanner
<1>11. ASSUME NEW p \in Phones, NEW t \in Tickets, NEW r \in Requests, ScanOnline(p, t, r)
       PROVE  TypeInv'
  <2> DEFINE x == [step |-> "wait", request |-> r]
  <2>1. Send(r, t, Never) /\ scan' = [scan EXCEPT ![p] = x] /\ moves' \in 0..MaxMoves
        /\ UNCHANGED <<tariffs, office, now, server, valid, dates, local, queue, exposed, sync, history>>
    BY <1>11, <1>m DEF ScanOnline, SetScan
  <2>2. /\ RequestsOK'
        /\ \A o \in Phones : /\ scan[o].step = "wait" => scan[o].request # r
                             /\ sync[o].step = "wait" => sync[o].request # r
        /\ req'[r] # Free /\ req'[r].awaited
        /\ \A o \in Requests \ {r} : req'[o] = req[o]
    BY <2>1, <1>e, TimesAreMarks
  <2>3. x \in Asking /\ x.step = "wait" /\ x.request = r
    BY DEF Asking
  <2> HIDE DEF x
  <2>4. scan' \in [Phones -> {NoScan} \cup Asking \cup Marking]
        /\ \A o \in Phones : scan'[o] = IF o = p THEN x ELSE scan[o]
    BY <1>a, <2>1, <2>3 DEF OwnersOK
  <2>5. \A o \in Phones : ScanOwned(o)'
    BY <1>a, <1>w, <2>1, <2>2, <2>3, <2>4 DEF OwnersOK, ScanOwned
  <2>6. \A o \in Phones : UploadOwned(o)'
    BY <1>a, <1>v, <2>1, <2>2 DEF OwnersOK, UploadOwned
  <2>7. OwnersOK'
    BY <2>4, <2>5, <2>6 DEF OwnersOK
  <2> QED
    BY <1>a, <1>l, <1>d, <1>s, <2>1, <2>2, <2>7 DEF tariffs, TypeInv, ServerOK
\* The request a phone gives up, or whose answer it takes
<1>x. ASSUME NEW p \in Phones, scan[p].step = "wait"
      PROVE  scan[p].request \in Requests /\ req[scan[p].request] \in Busy
             /\ req[scan[p].request].ticket \in Tickets
  <2>1. scan[p].request \in Requests /\ req[scan[p].request] \in Busy
    BY <1>a, <1>w, <1>x DEF OwnersOK, ScanOwned, RequestsOK
  <2> QED
    BY <2>1 DEF Busy
<1>y. ASSUME NEW p \in Phones, NEW x \in {NoScan} \cup Marking, SetScan(p, x)
      PROVE  /\ scan' \in [Phones -> {NoScan} \cup Asking \cup Marking]
             /\ \A o \in Phones : scan'[o].step = "wait" => o # p /\ scan'[o] = scan[o]
  <2>1. x.step # "wait"
    BY FreeStep DEF Marking
  <2> QED
    BY <1>a, <1>y, <2>1 DEF OwnersOK, SetScan
<1>z. ASSUME NEW p \in Phones, scan[p].step = "wait", UNCHANGED sync,
             NEW x \in {NoScan} \cup Marking, SetScan(p, x),
             req' = Abandoned(scan[p].request) \/ req' = Received(scan[p].request)
      PROVE  RequestsOK' /\ OwnersOK'
  <2>1. RequestsOK' /\ \A o \in Requests \ {scan[p].request} : req'[o] = req[o]
    BY <1>z, <1>x, <1>g
  <2>2. /\ scan' \in [Phones -> {NoScan} \cup Asking \cup Marking]
        /\ \A o \in Phones : scan'[o].step = "wait" => o # p /\ scan'[o] = scan[o]
    BY <1>z, <1>y
  <2>3. ScanOwned(p)
    BY <1>a DEF OwnersOK
  <2>4. \A o \in Phones : scan'[o].step = "wait" =>
           scan'[o] = scan[o] /\ scan[o].request # scan[p].request
    BY <1>z, <2>2, <2>3 DEF ScanOwned
  <2>5. \A o \in Phones : sync'[o].step = "wait" =>
           sync'[o] = sync[o] /\ sync[o].request # scan[p].request
    BY <1>z, <2>3 DEF ScanOwned
  <2> QED
    BY <1>z, <1>x, <1>f, <2>1, <2>2, <2>4, <2>5
\* A scan that goes on without a request
<1>h. ASSUME NEW p \in Phones, scan[p].step # "wait" \/ scan[p] = NoScan,
             NEW x \in {NoScan} \cup Marking, SetScan(p, x), UNCHANGED <<req, sync>>
      PROVE  OwnersOK'
  <2>2. /\ scan' \in [Phones -> {NoScan} \cup Asking \cup Marking]
        /\ \A o \in Phones : scan'[o].step = "wait" => o # p /\ scan'[o] = scan[o]
    BY <1>h, <1>y
  <2> QED
    BY <1>a, <1>h, <2>2 DEF OwnersOK, ScanOwned, UploadOwned
\* What a phone decides from its list
<1>b. ASSUME NEW p \in Phones, NEW t \in Tickets, CheckList(p, t)
      PROVE  \E x \in {NoScan} \cup Marking : SetScan(p, x)
  <2>1. [step |-> "mark", ticket |-> t, at |-> now] \in Marking
    BY <1>a DEF Marking, ServerOK
  <2> QED
    BY <1>b, <2>1 DEF CheckList
<1>12. ASSUME NEW p \in Phones, TakeAnswer(p) PROVE TypeInv'
  <2> DEFINE q == req[scan[p].request]
  <2>1. scan[p].step = "wait" /\ q.step = "answer" /\ SetScan(p, NoScan)
        /\ req' = Received(scan[p].request)
        /\ UNCHANGED <<tariffs, office, now, server, valid, dates, queue, sync, moves, reported,
                       restored, torn>>
        /\ ((q.result = "VALID" /\ LetIn(p, q.ticket, q.seenAt)) \/ UNCHANGED entries)
        /\ (MarkUsed(p, q.ticket, now) \/ UNCHANGED <<local, exposed>>)
    BY <1>12 DEF TakeAnswer
  <2>2. RequestsOK' /\ OwnersOK'
    BY <2>1, <1>z
  <2>3. q.ticket \in Tickets /\ TimesFit(q) /\ now \in Times
    BY <2>1, <1>a, <1>x DEF RequestsOK, ServerOK
  <2>4. entries' \subseteq Phones \X Tickets \X Times
    BY <1>a, <2>1, <2>3 DEF LetIn, PhonesOK, TimesFit
  <2>5. local' \in [Phones -> [Tickets -> Marks]] /\ exposed' \in [Phones -> SUBSET Tickets]
    BY <1>a, <1>j, <2>1, <2>3 DEF PhonesOK
  <2> QED
    BY <1>a, <1>s, <1>d, <1>k, <2>1, <2>2, <2>4, <2>5 DEF tariffs, TypeInv, PhonesOK
<1>13. ASSUME NEW p \in Phones, TimeOut(p) PROVE TypeInv'
  <2>1. scan[p].step = "wait" /\ CheckList(p, req[scan[p].request].ticket)
        /\ req' = Abandoned(scan[p].request)
        /\ UNCHANGED <<tariffs, office, now, server, valid, dates, local, queue, exposed, sync,
                       moves, history>>
    BY <1>13 DEF TimeOut
  <2>2. PICK x \in {NoScan} \cup Marking : SetScan(p, x)
    BY <2>1, <1>b, <1>x
  <2>3. RequestsOK' /\ OwnersOK'
    BY <2>1, <2>2, <1>z
  <2> QED
    BY <1>k, <1>l, <1>d, <1>s, <2>1, <2>3 DEF tariffs, TypeInv
<1>14. ASSUME NEW p \in Phones, NEW t \in Tickets, ScanOffline(p, t) PROVE TypeInv'
  <2>1. scan[p] = NoScan /\ CheckList(p, t) /\ moves' \in 0..MaxMoves
        /\ UNCHANGED <<tariffs, office, now, server, valid, dates, local, queue, exposed, sync, req,
                       history>>
    BY <1>14, <1>m DEF ScanOffline
  <2>2. PICK x \in {NoScan} \cup Marking : SetScan(p, x)
    BY <2>1, <1>b
  <2>3. OwnersOK'
    BY <2>1, <2>2, <1>h
  <2> QED
    BY <1>a, <1>q, <1>l, <1>d, <1>s, <2>1, <2>3 DEF tariffs, TypeInv, ServerOK
\* The scan of a phone is at "mark" or "queue"
<1>t. ASSUME NEW p \in Phones, scan[p].step \in {"mark", "queue"}
      PROVE  scan[p] \in Marking /\ scan[p].ticket \in Tickets /\ scan[p].at \in Times
             /\ scan[p].step # "wait"
  <2>1. scan[p] \in Marking
    BY <1>a, <1>t, FreeStep DEF OwnersOK, Asking
  <2> QED
    BY <1>t, <2>1 DEF Marking
<1>30. ASSUME NEW p \in Phones, MarkScan(p) PROVE TypeInv'
  <2> DEFINE x == [scan[p] EXCEPT !.step = "queue"]
  <2>1. scan[p].step = "mark" /\ MarkUsed(p, scan[p].ticket, scan[p].at) /\ SetScan(p, x)
        /\ UNCHANGED <<tariffs, office, now, server, valid, dates, queue, sync, moves, req, history>>
    BY <1>30 DEF MarkScan
  <2>2. scan[p] \in Marking /\ scan[p].ticket \in Tickets /\ scan[p].at \in Times
    BY <2>1, <1>t
  <2>3. x \in Marking
    BY <2>2 DEF Marking
  <2> HIDE DEF x
  <2>4. OwnersOK'
    BY <2>1, <2>3, <1>h
  <2>5. local' \in [Phones -> [Tickets -> Marks]] /\ exposed' \in [Phones -> SUBSET Tickets]
    BY <2>1, <2>2, <1>j
  <2> QED
    BY <1>a, <1>k, <1>q, <1>d, <1>s, <2>1, <2>4, <2>5 DEF tariffs, TypeInv, PhonesOK
<1>31. ASSUME NEW p \in Phones, QueueScan(p) PROVE TypeInv'
  <2> DEFINE t == scan[p].ticket
             e == [ticket |-> t, at |-> scan[p].at, tries |-> 0]
  <2>1. scan[p].step = "queue" /\ queue' = [queue EXCEPT ![p] = @ \cup {e}]
        /\ LetIn(p, t, scan[p].at) /\ SetScan(p, NoScan)
        /\ (exposed' = [exposed EXCEPT ![p] = @ \cup {t}] \/ exposed' = exposed)
        /\ UNCHANGED <<tariffs, office, now, server, valid, dates, local, sync, moves, req, reported,
                       restored, torn>>
    BY <1>31 DEF QueueScan
  <2>2. t \in Tickets /\ scan[p].at \in Times
    BY <2>1, <1>t
  <2>3. e \in Entry
    BY <2>2, BoundAssumption DEF Entry
  <2> HIDE DEF e
  <2>4. queue' \in [Phones -> SUBSET Entry] /\ \A o \in Phones : queue[o] \subseteq queue'[o]
    BY <1>a, <2>1, <2>3 DEF SyncOK
  <2>5. SyncOK'
    BY <1>a, <2>1, <2>4 DEF SyncOK, WaitFits, PackFits
  <2>6. PhonesOK'
    BY <1>a, <2>1, <2>2 DEF PhonesOK, LetIn, tariffs
  <2>7. OwnersOK'
    BY <2>1, <1>h
  <2> QED
    BY <1>k, <1>q, <1>d, <2>1, <2>5, <2>6, <2>7 DEF tariffs, TypeInv
<1>32. ASSUME NEW p \in Phones, DropScan(p) PROVE TypeInv'
  <2>1. scan[p].step \in {"mark", "queue"} /\ SetScan(p, NoScan)
        /\ UNCHANGED <<tariffs, office, now, server, valid, dates, local, queue, exposed, sync, moves,
                       req, history>>
    BY <1>32 DEF DropScan
  <2>2. OwnersOK'
    BY <2>1, <1>h
  <2> QED
    BY <1>k, <1>q, <1>l, <1>d, <1>s, <2>1, <2>2 DEF tariffs, TypeInv
\* The sync
<1>15. ASSUME NEW p \in Phones, NEW e \in queue[p], NEW r \in Requests, Upload(p, e, r)
       PROVE  TypeInv'
  <2> DEFINE x == [step |-> "wait", request |-> r, entry |-> e]
  <2>0. e \in Entry
    BY <1>a DEF SyncOK
  <2>1. e.ticket \in Tickets /\ e.at \in Times /\ e.at \in 0..MaxTime
    BY <2>0, TimesAreMarks DEF Entry
  <2>2. Send(r, e.ticket, e.at) /\ sync' = [sync EXCEPT ![p] = x] /\ e.tries < MaxTries
        /\ sync[p] = NoSync
        /\ UNCHANGED <<tariffs, office, now, server, valid, dates, phoneVars, moves, history>>
    BY <1>15 DEF Upload, SetSync
  <2>3. /\ RequestsOK'
        /\ \A o \in Phones : /\ scan[o].step = "wait" => scan[o].request # r
                             /\ sync[o].step = "wait" => sync[o].request # r
        /\ req'[r] # Free /\ req'[r].awaited /\ req'[r].ticket = e.ticket
        /\ \A o \in Requests \ {r} : req'[o] = req[o]
    BY <2>1, <2>2, <1>e
  <2>4. x \in Waits /\ x.step = "wait" /\ x.request = r /\ x.entry = e
    BY <2>0 DEF Waits
  <2> HIDE DEF x
  <2>5. SyncOK'
    BY <1>a, <2>2, <2>4 DEF SyncOK, WaitFits, PackFits, phoneVars
  <2>8. \A o \in Phones : o # p => sync'[o] = sync[o]
    BY <1>a, <2>2 DEF SyncOK
  <2>9. sync'[p] = x
    BY <1>a, <2>2 DEF SyncOK
  <2>6. \A o \in Phones : ScanOwned(o)'
    BY <1>a, <1>w, <2>2, <2>3, <2>4, <2>8, <2>9 DEF OwnersOK, ScanOwned, phoneVars
  <2>10. \A o \in Phones : UploadOwned(o)'
    BY <1>a, <1>v, <2>3, <2>4, <2>8, <2>9 DEF OwnersOK, UploadOwned
  <2>11. OwnersOK'
    BY <1>a, <2>2, <2>6, <2>10 DEF OwnersOK, phoneVars
  <2> QED
    BY <1>k, <1>l, <1>d, <2>2, <2>3, <2>5, <2>11 DEF tariffs, phoneVars, TypeInv
\* The upload a phone gives up, or whose answer it takes
<1>u. ASSUME NEW p \in Phones, sync[p].step = "wait"
      PROVE  /\ sync[p].request \in Requests /\ req[sync[p].request] \in Busy
             /\ sync[p].entry \in queue[p] /\ sync[p].entry \in Entry
             /\ sync[p].entry.tries < MaxTries
             /\ \A o \in Phones : /\ scan[o].step = "wait" => scan[o].request # sync[p].request
                                  /\ o # p => (sync[o].step = "wait" => sync[o].request # sync[p].request)
  <2>1. sync[p] \in Waits /\ sync[p].request \in Requests
    BY <1>u, <1>v
  <2>2. sync[p].entry \in queue[p] /\ sync[p].entry.tries < MaxTries /\ sync[p].entry \in Entry
    BY <1>a, <1>u DEF SyncOK, WaitFits
  <2>3. UploadOwned(p) /\ \A o \in Phones : ScanOwned(o)
    BY <1>a DEF OwnersOK
  <2>4. req[sync[p].request] \in Busy
    BY <1>a, <1>u, <2>1, <2>3 DEF UploadOwned, RequestsOK
  <2>5. \A o \in Phones : scan[o].step = "wait" => scan[o].request # sync[p].request
    BY <1>u, <2>3 DEF ScanOwned
  <2> QED
    BY <1>u, <2>1, <2>2, <2>3, <2>4, <2>5 DEF UploadOwned
<1>V. ASSUME NEW p \in Phones, sync[p].step = "wait", UNCHANGED scan, SetSync(p, NoSync),
             req' = Abandoned(sync[p].request) \/ req' = Received(sync[p].request)
      PROVE  RequestsOK' /\ OwnersOK'
  <2>1. RequestsOK' /\ \A o \in Requests \ {sync[p].request} : req'[o] = req[o]
    BY <1>V, <1>u, <1>g
  <2>2. \A o \in Phones : sync'[o].step = "wait" =>
           sync'[o] = sync[o] /\ sync[o].request # sync[p].request
    BY <1>a, <1>V, <1>u, FreeStep DEF SyncOK, SetSync
  <2>3. scan' \in [Phones -> {NoScan} \cup Asking \cup Marking]
        /\ \A o \in Phones : scan'[o].step = "wait" =>
              scan'[o] = scan[o] /\ scan[o].request # sync[p].request
    BY <1>a, <1>V, <1>u DEF OwnersOK
  <2> QED
    BY <1>V, <1>u, <1>f, <2>1, <2>2, <2>3
\* The sync of a phone ends, whatever becomes of its own queue
<1>N. ASSUME NEW p \in Phones, SetSync(p, NoSync), queue' \in [Phones -> SUBSET Entry],
             \A o \in Phones : o # p => queue'[o] = queue[o]
      PROVE  SyncOK'
  <2>0. sync \in [Phones -> {NoSync} \cup Waits \cup Packs] /\ sync' = [sync EXCEPT ![p] = NoSync]
    BY <1>a, <1>N DEF SyncOK, SetSync
  <2>1. sync' \in [Phones -> {NoSync} \cup Waits \cup Packs]
        /\ \A o \in Phones : sync'[o] = NoSync \/ (o # p /\ sync'[o] = sync[o])
    BY <2>0
  <2> QED
    BY <1>a, <1>N, <2>1, FreeStep DEF SyncOK, WaitFits, PackFits
<1>16. ASSUME NEW p \in Phones, TakeUpload(p) PROVE TypeInv'
  <2> DEFINE e == sync[p].entry
             q == req[sync[p].request]
             again == [e EXCEPT !.tries = @ + 1]
  <2>1. sync[p].step = "wait" /\ req' = Received(sync[p].request) /\ SetSync(p, NoSync)
        /\ UNCHANGED <<tariffs, office, now, server, valid, dates, local, scan, exposed, moves,
                       entries, restored, torn>>
        /\ (\/ queue' = [queue EXCEPT ![p] = (@ \ {e}) \cup {again}] /\ UNCHANGED reported
            \/ queue' = [queue EXCEPT ![p] = @ \ {e}] /\ reported' \subseteq reported \cup {e.ticket})
    BY <1>16 DEF TakeUpload
  <2>2. e \in Entry /\ e.tries < MaxTries /\ e.ticket \in Tickets
    BY <2>1, <1>u DEF Entry
  <2>3. again \in Entry
    BY <2>2, BoundAssumption DEF Entry
  <2> HIDE DEF e, again
  <2>4. queue' \in [Phones -> SUBSET Entry] /\ \A o \in Phones : o # p => queue'[o] = queue[o]
    BY <1>a, <2>1, <2>3 DEF SyncOK
  <2>5. PhonesOK'
    BY <1>a, <2>1, <2>2 DEF PhonesOK, tariffs
  <2> QED
    BY <1>k, <1>d, <1>V, <1>N, <2>1, <2>4, <2>5 DEF tariffs, TypeInv
<1>17. ASSUME NEW p \in Phones, UploadLost(p) PROVE TypeInv'
  BY <1>17, <1>a, <1>k, <1>l, <1>d, <1>V, <1>N DEF UploadLost, tariffs, phoneVars, TypeInv, SyncOK
\* A list fetched, saved or lost: nobody waits for a request any less
<1>p. ASSUME NEW p \in Phones, NEW x \in {NoSync} \cup Packs, SetSync(p, x),
             sync[p].step # "wait", UNCHANGED <<req, scan>>
      PROVE  OwnersOK'
  <2>1. x.step # "wait"
    BY DEF Packs, NoSync
  <2>2. \A o \in Phones : sync'[o] = x \/ sync'[o] = sync[o]
    BY <1>a, <1>p DEF SyncOK, SetSync
  <2> QED
    BY <1>a, <1>p, <2>1, <2>2 DEF OwnersOK, ScanOwned, UploadOwned
<1>18. ASSUME NEW p \in Phones, ListLost(p) PROVE TypeInv'
  BY <1>18, <1>a, <1>k, <1>l, <1>d, <1>q, <1>p, <1>N
     DEF ListLost, tariffs, phoneVars, TypeInv, SyncOK
<1>19. ASSUME NEW p \in Phones, FetchList(p) PROVE TypeInv'
  <2> DEFINE x == [step |-> "pack", since |-> {}, early |-> UnderWay,
                   passes |-> passes \cap changed[p], list |-> [t \in changed[p] |-> server[t]]]
  <2>1. sync[p] = NoSync /\ SetSync(p, x)
        /\ UNCHANGED <<tariffs, office, now, server, valid, dates, phoneVars, moves, req, history>>
    BY <1>19 DEF FetchList
  <2>2. changed[p] \subseteq Tickets /\ server \in [Tickets -> Marks] /\ UnderWay \subseteq Writers
    BY <1>a DEF DatesOK, ServerOK, UnderWay, Writers
  <2>3. [t \in changed[p] |-> server[t]] \in Lists
    BY <2>2 DEF Lists
  <2>4. x \in Packs /\ x.step = "pack" /\ x.passes \subseteq DOMAIN x.list
    BY <1>a, <2>2, <2>3 DEF Packs, ServerOK
  <2> HIDE DEF x
  <2>5. SyncOK'
    BY <1>a, <2>1, <2>4 DEF SyncOK, SetSync, WaitFits, PackFits, phoneVars
  <2> QED
    BY <1>k, <1>l, <1>d, <1>q, <1>p, <2>1, <2>4, <2>5, FreeStep DEF tariffs, phoneVars, TypeInv
<1>20. ASSUME NEW p \in Phones, SaveList(p) PROVE TypeInv'
  <2> DEFINE x == sync[p]
             saved == {t \in DOMAIN x.list : ~Keep(p, t)}
  <2>1. x.step = "pack" /\ SetSync(p, NoSync)
        /\ local' = [local EXCEPT ![p] = [t \in Tickets |-> IF t \in saved THEN x.list[t] ELSE @[t]]]
        /\ listed' = [listed EXCEPT ![p] = (@ \ saved) \cup (x.passes \cap saved)]
        /\ exposed' = [exposed EXCEPT ![p] = @ \ saved]
        /\ changed' = [changed EXCEPT ![p] = x.since]
        /\ early' = [early EXCEPT ![p] = x.early]
        /\ UNCHANGED <<passes, editing, office, now, server, valid, hidden, queue, scan, moves, req,
                       history>>
    BY <1>20 DEF SaveList, SaveRows
  <2>2. x \in Packs
    <3>1. \A o \in Waits : o.step = "wait"
      BY DEF Waits
    <3> QED
      BY <1>a, <2>1, <3>1, FreeStep DEF SyncOK
  <2>3. x.list \in Lists /\ x.since \subseteq Tickets /\ x.passes \subseteq Tickets
        /\ x.early \subseteq Writers
    BY <2>2 DEF Packs
  <2>4. \A t \in DOMAIN x.list : x.list[t] \in Marks
    BY <2>3 DEF Lists
  <2>5. saved \subseteq DOMAIN x.list
    OBVIOUS
  <2> HIDE DEF x, saved
  <2>6. local[p] \in [Tickets -> Marks]
    BY <1>a DEF PhonesOK
  <2>7. [t \in Tickets |-> IF t \in saved THEN x.list[t] ELSE local[p][t]] \in [Tickets -> Marks]
    BY <2>4, <2>5, <2>6
  <2>8. PhonesOK' /\ DatesOK'
    BY <1>a, <2>1, <2>3, <2>7 DEF PhonesOK, DatesOK
  <2>9. SyncOK'
    BY <1>a, <1>N, <2>1 DEF SyncOK
  <2>10. OwnersOK'
    BY <1>p, <2>1 DEF x
  <2> QED
    BY <1>k, <1>q, <2>1, <2>8, <2>9, <2>10 DEF TypeInv
<1>21. CASE UNCHANGED vars
  BY <1>21, <1>k, <1>l, <1>d, <1>s, <1>q, <1>o DEF vars, dates, TypeInv
<1>22. CASE \E r \in Requests : Server(r)
  BY <1>22, <1>2, <1>3, <1>4, <1>5, <1>6 DEF Server
<1>23. CASE Organizer
  BY <1>23, <1>8, <1>9, <1>10 DEF Organizer
<1>24. CASE \E p \in Phones : Scanner(p) \/ Sync(p)
  BY <1>24, <1>11, <1>12, <1>13, <1>14, <1>30, <1>31, <1>32, <1>15, <1>16, <1>17, <1>18, <1>19, <1>20
     DEF Scanner, Sync
<1> QED
  BY <1>1, <1>21, <1>22, <1>23, <1>24 DEF Next

\* Every variable of the gates holds what the code stores in it.
THEOREM TypeCorrect == Spec => []TypeOK
<1>1. Spec => []TypeInv
  BY InitTypeInv, StepTypeInv, PTL DEF Spec
<1> QED
  BY <1>1, TypeInvImplies, PTL

-----------------------------------------------------------------------------
(***************************************************************************)
(* What the phones do to the requests: they send new ones and give up or   *)
(* take away others, and no entry being recorded is among those.           *)
(***************************************************************************)
SameBut(k, q) == k.step = q.step /\ k.ticket = q.ticket /\ k.at = q.at
                 /\ k.result = q.result /\ k.seenAt = q.seenAt
Relays == \A o \in Requests :
    /\ \/ req'[o] = Free
       \/ req[o] = Free /\ req'[o].step = "sent"
       \/ SameBut(req'[o], req[o])
    /\ Enters(req[o]) => SameBut(req'[o], req[o])

LEMMA PhonesRelay ==
    ASSUME TypeInv, NEW p \in Phones, Scanner(p) \/ Sync(p)
    PROVE  /\ Relays
           /\ UNCHANGED <<passes, editing, office, now, server, valid, restored, torn, hidden>>
<1> USE DEF history
<1>a. req \in [Requests -> {Free} \cup Busy]
  BY DEF TypeInv, RequestsOK
<1>s. SUFFICES Relays
  BY DEF Scanner, Sync, ScanOnline, TakeAnswer, TimeOut, ScanOffline, MarkScan, QueueScan, DropScan,
     Upload, TakeUpload, UploadLost, FetchList, ListLost, SaveList, SaveRows, tariffs, dates
<1>1. UNCHANGED req => Relays
  BY <1>a DEF Relays, SameBut
<1>2. ASSUME NEW r \in Requests, NEW t, NEW at, Send(r, t, at) PROVE Relays
  <2>1. req[r] = Free /\ req'[r].step = "sent" /\ \A o \in Requests \ {r} : req'[o] = req[o]
    BY <1>a, <1>2, FreeStep DEF Send
  <2> QED
    BY <2>1, FreeStep DEF Relays, SameBut, Enters
<1>3. ASSUME NEW r \in Requests, req[r] # Free,
             req' = Abandoned(r) \/ (req' = Received(r) /\ req[r].step = "answer")
      PROVE  Relays
  <2>0. req[r] \in Busy
    BY <1>a, <1>3
  <2>1. \A o \in Requests \ {r} : req'[o] = req[o]
    BY <1>a, <1>3 DEF Abandoned, Received
  <2>2. (req[r].step = "answer" /\ req'[r] = Free)
        \/ (req[r].step # "answer" /\ req'[r] = [req[r] EXCEPT !.awaited = FALSE])
    BY <1>a, <1>3 DEF Abandoned, Received
  <2>3. SameBut([req[r] EXCEPT !.awaited = FALSE], req[r])
    BY <2>0 DEF Busy, SameBut
  <2> QED
    BY <2>1, <2>2, <2>3, FreeStep DEF Relays, SameBut, Enters
<1>4. scan[p].step = "wait" => scan[p].request \in Requests /\ req[scan[p].request] # Free
  BY FreeStep DEF TypeInv, OwnersOK, ScanOwned, Asking, Marking
<1>5. sync[p].step = "wait" => sync[p].request \in Requests /\ req[sync[p].request] # Free
  BY FreeStep DEF TypeInv, OwnersOK, SyncOK, UploadOwned, Waits, Packs
<1>6. ASSUME NEW t \in Tickets, NEW r \in Requests, ScanOnline(p, t, r) PROVE Relays
  BY <1>2, <1>6 DEF ScanOnline
<1>7. CASE TakeAnswer(p) \/ TimeOut(p)
  BY <1>3, <1>4, <1>7 DEF TakeAnswer, TimeOut
<1>8. ASSUME NEW e \in queue[p], NEW r \in Requests, Upload(p, e, r) PROVE Relays
  BY <1>2, <1>8 DEF Upload
<1>9. CASE TakeUpload(p) \/ UploadLost(p)
  BY <1>3, <1>5, <1>9 DEF TakeUpload, UploadLost
<1>10. CASE UNCHANGED req
  BY <1>1, <1>10
<1> QED
  BY <1>6, <1>7, <1>8, <1>9, <1>10
     DEF Scanner, Sync, ScanOffline, MarkScan, QueueScan, DropScan, FetchList, ListLost, SaveList,
         SaveRows

-----------------------------------------------------------------------------
(***************************************************************************)
(* Layer 2: an ordinary ticket that may still be let in has never been,    *)
(* and no request is about to record that it was: the one conditional      *)
(* update that claims it counts its first entry.                           *)
(***************************************************************************)
\* Tickets that are passes, were one, or were made unused again
Several == passes \cup restored

Entering(r, t) == Enters(req[r]) /\ req[r].ticket = t
NoneYet(t) == \A m \in Times : valid[t][m] = 0

\* Only these are entered without a claim
PassesGoOn == \A r \in Requests : req[r].step = "pass" => req[r].ticket \in Several
UnusedNotEntered == \A t \in Tickets \ Several :
    server[t].status \in Unused => NoneYet(t) /\ \A r \in Requests : ~Entering(r, t)
OneAtATime == \A t \in Tickets \ Several, r \in Requests :
    Entering(r, t) => NoneYet(t) /\ \A s \in Requests : Entering(s, t) => s = r

EnteredInv == PassesGoOn /\ UnusedNotEntered /\ OneAtATime /\ ValidOnce

LEMMA StepEnteredInv == TypeInv /\ EnteredInv /\ [Next]_vars => EnteredInv'
<1> SUFFICES ASSUME TypeInv, EnteredInv, [Next]_vars PROVE EnteredInv'
  OBVIOUS
<1> USE DEF history
<1>a. /\ req \in [Requests -> {Free} \cup Busy]
      /\ server \in [Tickets -> Marks] /\ valid \in [Tickets -> [Times -> Nat]]
  BY DEF TypeInv, RequestsOK, ServerOK
<1>i. PassesGoOn /\ UnusedNotEntered /\ OneAtATime /\ ValidOnce
  BY DEF EnteredInv
\* Steps that start no entry and record none of an ordinary ticket
<1>e. ASSUME Several \subseteq Several',
             \A t \in Tickets \ Several' : valid'[t] = valid[t]
                /\ (server'[t].status \in Unused => server[t].status \in Unused),
             \A o \in Requests, t \in Tickets \ Several' : Entering(o, t)' => Entering(o, t)
      PROVE  UnusedNotEntered' /\ OneAtATime' /\ ValidOnce'
  <2>1. \A t \in Tickets \ Several' : t \in Tickets \ Several
                                      /\ (NoneYet(t) => NoneYet(t)')
    BY <1>e DEF NoneYet
  <2>2. UnusedNotEntered'
    BY <1>e, <1>i, <2>1 DEF UnusedNotEntered
  <2>3. OneAtATime'
    BY <1>e, <1>i, <2>1 DEF OneAtATime
  <2>4. ValidOnce'
    BY <1>e, <1>i, <2>1 DEF ValidOnce, Several
  <2> QED
    BY <2>2, <2>3, <2>4
<1>g. ASSUME Several \subseteq Several',
             \A o \in Requests : req'[o].step = "pass" =>
                \/ req'[o].ticket \in Several
                \/ req[o].step = "pass" /\ req'[o].ticket = req[o].ticket
      PROVE  PassesGoOn'
  BY <1>g, <1>i DEF PassesGoOn
<1>c. ASSUME NEW r \in Requests, NEW k, Continues(r, k), Several \subseteq Several'
      PROVE  /\ req'[r] = k /\ \A o \in Requests \ {r} : req'[o] = req[o]
             /\ (k.step = "pass" => k.ticket \in Several) => PassesGoOn'
  <2>1. req'[r] = k /\ \A o \in Requests \ {r} : req'[o] = req[o]
    BY <1>a, <1>c DEF Continues
  <2> QED
    BY <1>c, <1>g, <2>1
<1>p. ASSUME NEW p \in Phones, Scanner(p) \/ Sync(p) PROVE EnteredInv'
  <2>1. Relays /\ UNCHANGED <<passes, restored, server, valid>>
    BY <1>p, PhonesRelay
  <2>2. \A o \in Requests, t \in Tickets : Entering(o, t)' => Entering(o, t)
    BY <2>1, FreeStep DEF Entering, Enters, Relays, SameBut
  <2> QED
    BY <1>e, <1>g, <2>1, <2>2, FreeStep DEF EnteredInv, Relays, SameBut, Several
<1>1. CASE Tick \/ UNCHANGED vars
  <2>1. UNCHANGED <<passes, restored, server, valid, req>>
    BY <1>1 DEF Tick, vars, tariffs
  <2> QED
    BY <1>e, <1>g, <2>1 DEF EnteredInv, Several, Entering
<1>2. ASSUME NEW r \in Requests, ReadTicket(r) PROVE EnteredInv'
  <2>1. PICK k : Continues(r, k) /\ ReadAs(r, k)
    BY <1>2, ReadContinues
  <2>2. UNCHANGED <<passes, restored, server, valid>>
    BY <1>2 DEF ReadTicket, tariffs
  <2>3. (k.step = "pass" => k.ticket \in Several) /\ ~Enters(k)
    BY <2>1, FreeStep DEF ReadAs, Continues, Several, Enters
  <2>4. PassesGoOn' /\ \A o \in Requests, t \in Tickets : Entering(o, t)' => Entering(o, t)
    BY <1>c, <2>1, <2>2, <2>3 DEF Several, Entering
  <2> QED
    BY <1>e, <2>2, <2>4 DEF EnteredInv, Several
<1>3. ASSUME NEW r \in Requests, Claim(r) PROVE EnteredInv'
  <2> DEFINE q == req[r]
             t == q.ticket
  <2>1. q \in Busy /\ t \in Tickets /\ q.step = "claim" /\ q.seenAt \in 0..MaxTime
        /\ r \in Writers
    BY <1>3, StepIsBusy DEF Claim, Busy, Writers
  <2>2. UNCHANGED <<passes, restored, valid>>
    BY <1>3 DEF Claim, tariffs
  <2>5. CASE server[t].status \in Unused
    <3> DEFINE used == [status |-> "USED", at |-> ScanTime(q)]
    <3>1. Commit(r, t, used) /\ GoesOn(r, ScanTime(q))
      BY <1>3, <2>5 DEF Claim
    <3>2. PICK k : /\ Continues(r, k) /\ k # Free /\ k.step = "record" /\ k.ticket = t
      BY <2>1, <3>1, EnterContinues
    <3>3. used \in Marks /\ used.status = "USED"
      BY <2>1, ScanTimeFits
    <3> HIDE DEF used
    <3>4. server' = [server EXCEPT ![t] = used]
      BY <2>1, <3>1, <3>3, CommitFits
    <3>5. PassesGoOn' /\ req'[r] = k /\ \A o \in Requests \ {r} : req'[o] = req[o]
      BY <1>c, <2>2, <3>2 DEF Several
    <3> HIDE DEF t
    <3>6. \A o \in Requests, u \in Tickets : Entering(o, u)' => Entering(o, u) \/ (o = r /\ u = t)
      BY <3>2, <3>5 DEF Entering
    <3>7. t \notin Several => NoneYet(t) /\ \A o \in Requests : ~Entering(o, t)
      BY <1>i, <2>1, <2>5 DEF UnusedNotEntered
    <3>8. server'[t].status \notin Unused /\ \A u \in Tickets : u # t => server'[u] = server[u]
      BY <1>a, <2>1, <3>3, <3>4 DEF Unused
    <3>9. Several' = Several /\ \A u \in Tickets : NoneYet(u)' <=> NoneYet(u)
      BY <2>2 DEF Several, NoneYet
    <3>10. UnusedNotEntered'
      BY <1>i, <3>6, <3>8, <3>9 DEF UnusedNotEntered
    <3>11. OneAtATime'
      BY <1>i, <3>6, <3>7, <3>9 DEF OneAtATime
    <3>12. ValidOnce'
      BY <1>i, <2>2 DEF ValidOnce
    <3> QED
      BY <3>5, <3>10, <3>11, <3>12 DEF EnteredInv
  <2>6. CASE server[t].status \notin Unused
    <3>1. WriteNothing(r) /\ Answer(r, "ALREADY_USED", q.seenAt)
      BY <1>3, <2>6 DEF Claim
    <3>2. PICK k : Continues(r, k) /\ (k # Free => k.step = "answer")
      BY <2>1, <3>1, AnswerContinues
    <3>3. UNCHANGED server
      BY <2>1, <3>1, NothingFits
    <3>4. PassesGoOn' /\ \A o \in Requests, u \in Tickets : Entering(o, u)' => Entering(o, u)
      BY <1>c, <2>2, <3>2, FreeStep DEF Several, Entering, Enters
    <3> QED
      BY <1>e, <2>2, <3>3, <3>4 DEF EnteredInv, Several
  <2> QED
    BY <2>5, <2>6
<1>4. ASSUME NEW r \in Requests, EnterPass(r) PROVE EnteredInv'
  <2> DEFINE q == req[r]
             t == q.ticket
             used == [status |-> "USED", at |-> ScanTime(q)]
  <2>1. q \in Busy /\ t \in Tickets /\ t \in Several /\ r \in Writers
    BY <1>4, <1>i, StepIsBusy DEF EnterPass, Busy, PassesGoOn, Writers
  <2>2. Commit(r, t, used) /\ GoesOn(r, ScanTime(q)) /\ UNCHANGED <<passes, restored, valid>>
    BY <1>4 DEF EnterPass, tariffs
  <2>3. used \in Marks
    BY <2>1, ScanTimeFits
  <2>4. PICK k : /\ Continues(r, k) /\ k # Free /\ k.step = "record" /\ k.ticket = t
    BY <2>1, <2>2, EnterContinues
  <2> HIDE DEF used
  <2>5. server' = [server EXCEPT ![t] = used]
    BY <2>1, <2>2, <2>3, CommitFits
  <2>6. PassesGoOn' /\ req'[r] = k /\ \A o \in Requests \ {r} : req'[o] = req[o]
    BY <1>c, <2>2, <2>4 DEF Several
  <2> HIDE DEF t
  <2>7. \A u \in Tickets \ Several : server'[u] = server[u]
    BY <1>a, <2>1, <2>5
  <2>8. \A o \in Requests, u \in Tickets \ Several : Entering(o, u)' => Entering(o, u)
    BY <2>1, <2>4, <2>6 DEF Entering
  <2> QED
    BY <1>e, <2>2, <2>6, <2>7, <2>8 DEF EnteredInv, Several
\* An entry is recorded: for an ordinary ticket it is the first, and the only one
\* under way
<1>r. ASSUME NEW r \in Requests, NEW t \in Tickets, NEW m \in Times, Entering(r, t),
             IsRecorded(t, m), NEW k, Continues(r, k), k # Free => k.step = "answer",
             UNCHANGED <<passes, restored, server>>
      PROVE  EnteredInv'
  <2>1. ~Enters(k) /\ k.step # "pass"
    BY <1>r, FreeStep DEF Enters
  <2>2. PassesGoOn' /\ req'[r] = k /\ \A o \in Requests \ {r} : req'[o] = req[o]
    BY <1>c, <1>r, <2>1 DEF Several
  <2>3. \A o \in Requests, u \in Tickets : Entering(o, u)' => Entering(o, u) /\ o # r
    BY <2>1, <2>2 DEF Entering
  <2>4. Several' = Several /\ \A u \in Tickets : u # t => valid'[u] = valid[u]
    BY <1>a, <1>r DEF Several, IsRecorded
  <2>5. t \notin Several => NoneYet(t) /\ \A o \in Requests : Entering(o, t) => o = r
    BY <1>i, <1>r DEF OneAtATime
  <2>6. \A x \in Times : valid'[t][x] = IF x = m THEN valid[t][m] + 1 ELSE valid[t][x]
    BY <1>a, <1>r DEF IsRecorded
  <2>7. t \notin Several => valid'[t][m] = 1 /\ \A x \in Times : x # m => valid'[t][x] = 0
    BY <2>5, <2>6 DEF NoneYet
  <2>8. \A o \in Requests : t \notin Several => ~Entering(o, t)'
    BY <2>3, <2>5
  <2>9. \A u \in Tickets : u # t => (NoneYet(u) => NoneYet(u)')
    BY <2>4 DEF NoneYet
  <2>10. UnusedNotEntered'
    <3>1. t \notin Several => server[t].status \notin Unused
      BY <1>i, <1>r DEF UnusedNotEntered
    <3> QED
      BY <1>i, <1>r, <2>3, <2>4, <2>9, <3>1 DEF UnusedNotEntered
  <2>11. OneAtATime'
    BY <1>i, <2>3, <2>4, <2>8, <2>9 DEF OneAtATime
  <2>12. ASSUME NEW u \in Tickets \ Several, NEW x \in Times, NEW y \in Times
         PROVE  valid'[u][x] <= 1 /\ (valid'[u][x] + valid'[u][y] = 2 => x = y)
    <3>1. CASE u = t
      BY <2>7, <2>12, <3>1
    <3>2. CASE u # t
      BY <1>i, <2>4, <2>12, <3>2 DEF ValidOnce, Several
    <3> QED
      BY <3>1, <3>2
  <2>13. ValidOnce'
    BY <2>4, <2>12 DEF ValidOnce, Several
  <2> QED
    BY <2>2, <2>10, <2>11, <2>13 DEF EnteredInv
<1>5. ASSUME NEW r \in Requests, Record(r) PROVE EnteredInv'
  <2> DEFINE q == req[r]
             t == q.ticket
  <2>1. q.step = "record" /\ t \in Tickets /\ q.seenAt \in Times /\ Entering(r, t)
    BY <1>5, RecordContinues DEF Entering, Enters
  <2>2. UNCHANGED <<passes, restored, server>>
    BY <1>5 DEF Record, tariffs
  <2>3. CASE IsRecorded(t, q.seenAt) /\ \E k : Continues(r, k) /\ (k # Free => k.step = "answer")
    <3>1. PICK k : Continues(r, k) /\ (k # Free => k.step = "answer")
      BY <2>3
    <3> HIDE DEF t
    <3> QED
      BY <1>r, <2>1, <2>2, <2>3, <3>1
  <2>4. CASE UNCHANGED valid /\ \E k : Continues(r, k) /\ k.step = "date" /\ k.ticket = t
    <3>1. PICK k : Continues(r, k) /\ k.step = "date" /\ k.ticket = t
      BY <2>4
    <3>2. PassesGoOn' /\ req'[r] = k /\ \A o \in Requests \ {r} : req'[o] = req[o]
      BY <1>c, <2>2, <3>1 DEF Several
    <3>3. \A o \in Requests, u \in Tickets : Entering(o, u)' => Entering(o, u)
      BY <2>1, <3>1, <3>2 DEF Entering
    <3> QED
      BY <1>e, <2>2, <2>4, <3>2, <3>3 DEF EnteredInv, Several
  <2> QED
    BY <1>5, <2>3, <2>4, RecordContinues
<1>6. ASSUME NEW r \in Requests, Date(r) PROVE EnteredInv'
  <2>1. PICK k : Continues(r, k) /\ (k # Free => k.step = "answer")
    BY <1>6, DateContinues
  <2>2. req[r].ticket \in Tickets /\ req[r].at \in Times /\ IsRecorded(req[r].ticket, req[r].at)
        /\ Entering(r, req[r].ticket)
    BY <1>6, DateContinues DEF Entering, Enters
  <2>3. UNCHANGED <<passes, restored, server>>
    BY <1>6 DEF Date, tariffs
  <2> QED
    BY <1>r, <2>1, <2>2, <2>3
<1>7. ASSUME NEW r \in Requests, FailRequest(r) PROVE EnteredInv'
  <2>1. PICK k : Continues(r, k) /\ (k # Free => k.step = "answer")
    BY <1>7, FailContinues
  <2>2. req[r].ticket \in Tickets /\ UNCHANGED <<passes, restored>> /\ WriteNothing(r)
    BY <1>7, FailContinues DEF FailRequest, tariffs
  <2>3. UNCHANGED server
    BY <2>2, NothingFits DEF Writers
  <2>4. CASE req[r].step = "date"
    <3>1. IsRecorded(req[r].ticket, req[r].seenAt) /\ req[r].seenAt \in Times
          /\ Entering(r, req[r].ticket)
      BY <1>7, <2>4, FailContinues DEF Entering, Enters
    <3> QED
      BY <1>r, <2>1, <2>2, <2>3, <3>1
  <2>5. CASE req[r].step # "date"
    <3>1. UNCHANGED valid
      BY <1>7, <2>5, FailContinues
    <3>2. PassesGoOn' /\ \A o \in Requests, u \in Tickets : Entering(o, u)' => Entering(o, u)
      BY <1>c, <2>1, <2>2, FreeStep DEF Several, Entering, Enters
    <3> QED
      BY <1>e, <2>2, <2>3, <3>1, <3>2 DEF EnteredInv, Several
  <2> QED
    BY <2>4, <2>5
<1>8. ASSUME NEW t \in Tickets, NEW act \in OrganizerActs, Act(t, act) PROVE EnteredInv'
  <2>1. UNCHANGED <<passes, restored, server, valid, req>>
    BY <1>8 DEF Act, tariffs
  <2> QED
    BY <1>e, <1>g, <2>1 DEF EnteredInv, Several, Entering
<1>9. ASSUME NEW t \in Tickets, CommitAct(t) PROVE EnteredInv'
  <2>0. t \in Writers /\ office[t] \in Acts /\ server[t] \in Marks
    BY <1>a DEF TypeInv, ServerOK, Writers
  <2>1. UNCHANGED <<passes, valid, req>> /\ restored \subseteq restored'
    BY <1>9 DEF CommitAct
  <2>2. PICK mark \in Marks : /\ Commit(t, t, mark)
                              /\ mark = server[t] \/ (mark.status \in Unused => t \in restored')
    <3>1. CASE office[t].act \in Statuses
      <4> DEFINE mark == [status |-> office[t].act,
                          at |-> IF office[t].act = "USED" THEN office[t].at ELSE server[t].at]
      <4>1. mark \in Marks /\ mark.status = office[t].act
        BY <2>0, <3>1 DEF Marks, Acts
      <4>2. "days" \notin Statuses
        BY DEF Statuses
      <4>3. Commit(t, t, mark)
            /\ restored' = (IF office[t].act \in Unused THEN restored \cup {t} ELSE restored)
        BY <1>9, <3>1, <4>2 DEF CommitAct
      <4> HIDE DEF mark
      <4> QED
        BY <4>1, <4>3
    <3>2. CASE office[t].act \notin Statuses
      BY <1>9, <2>0, <3>2 DEF CommitAct
    <3> QED
      BY <3>1, <3>2
  <2>3. server' = [server EXCEPT ![t] = mark]
    BY <2>0, <2>2, CommitFits
  <2>4. \A u \in Tickets \ Several' : server'[u].status \in Unused => server[u].status \in Unused
    BY <1>a, <2>2, <2>3 DEF Several
  <2>5. Several \subseteq Several'
    BY <2>1 DEF Several
  <2>6. PassesGoOn'
    BY <1>g, <2>1, <2>5
  <2> QED
    BY <1>e, <2>1, <2>4, <2>5, <2>6 DEF EnteredInv, Entering
<1>10. ASSUME NEW t \in Tickets, WriteDays(t) PROVE EnteredInv'
  <2>1. Several \subseteq Several' /\ UNCHANGED <<server, valid, req>>
    BY <1>10 DEF WriteDays, Several
  <2> QED
    BY <1>e, <1>g, <2>1 DEF EnteredInv, Entering
<1> QED
  BY <1>p, <1>1, <1>2, <1>3, <1>4, <1>5, <1>6, <1>7, <1>8, <1>9, <1>10 DEF Next, Server, Organizer

\* The server lets an ordinary ticket in once, whatever late requests, repeated
\* uploads, failures and cancellations reach it (the conditional update of scanTicket),
\* unless the organizer has made it unused again or edited its days.
THEOREM EnteredOnce == Spec => []ValidOnce
<1>1. Init => EnteredInv
  <2> SUFFICES ASSUME Init PROVE EnteredInv
    OBVIOUS
  <2>1. \A r \in Requests : req[r].step = "free"
    BY FreeStep DEF Init
  <2> QED
    BY <2>1 DEF Init, EnteredInv, PassesGoOn, UnusedNotEntered, OneAtATime, NoneYet, Entering,
                Enters, ValidOnce
<1>2. EnteredInv => ValidOnce
  BY DEF EnteredInv
<1> QED
  BY <1>1, <1>2, InitTypeInv, StepTypeInv, StepEnteredInv, PTL DEF Spec

-----------------------------------------------------------------------------
(***************************************************************************)
(* Layer 3: a list on its way, and the list a phone has, are right but for *)
(* the tickets changed since.  That a phone keeps the entries it has not   *)
(* uploaded rests on no ticket being PENDING: the phone keeps a ticket     *)
(* used only against a row that says VALID, and the scanner lets PENDING   *)
(* tickets in too.                                                         *)
(***************************************************************************)
NoPending == \A t \in Tickets : server[t].status # "PENDING"
OnItsWay(p) == sync[p].step = "pack" =>
    /\ changed[p] \subseteq DOMAIN sync[p].list \cup sync[p].since \cup hidden[p]
    /\ \A t \in DOMAIN sync[p].list :
         /\ sync[p].list[t].status # "PENDING"
         /\ sync[p].list[t] = server[t] \/ t \in sync[p].since \cup hidden[p]

ListInv ==
    /\ NoPending
    /\ \A p \in Phones : OnItsWay(p)
    /\ QueuedIsUsed
    /\ StaleIsFetchedAgain

LEMMA StepListInv ==
    ASSUME "PENDING" \notin OrganizerActs
    PROVE  TypeInv /\ ListInv /\ [Next]_vars => ListInv'
<1> SUFFICES ASSUME TypeInv, ListInv, [Next]_vars PROVE ListInv'
  OBVIOUS
<1> USE DEF history
<1>a. /\ sync \in [Phones -> {NoSync} \cup Waits \cup Packs] /\ queue \in [Phones -> SUBSET Entry]
      /\ server \in [Tickets -> Marks] /\ local \in [Phones -> [Tickets -> Marks]]
      /\ changed \in [Phones -> SUBSET Tickets] /\ exposed \in [Phones -> SUBSET Tickets]
  BY DEF TypeInv, PhonesOK, SyncOK, ServerOK, DatesOK
<1>i. NoPending /\ QueuedIsUsed /\ StaleIsFetchedAgain /\ \A p \in Phones : OnItsWay(p)
  BY DEF ListInv
\* The lists on their way when nothing is written
<1>o. ASSUME UNCHANGED <<server, changed, hidden>>,
             \A p \in Phones : sync'[p] = sync[p] \/ sync'[p].step # "pack"
      PROVE  NoPending' /\ \A p \in Phones : OnItsWay(p)'
  BY <1>o, <1>i DEF NoPending, OnItsWay
\* Nothing but the mark of a ticket in the list of a phone
<1>u. ASSUME NEW p \in Phones, NEW t \in Tickets, NEW m,
             MarkUsed(p, t, m) \/ UNCHANGED <<local, exposed>>,
             UNCHANGED <<server, changed, hidden>>,
             \A o \in Phones, u \in Tickets : Queued(o, u)' => Queued(o, u)
      PROVE  QueuedIsUsed' /\ StaleIsFetchedAgain'
  <2>1. \A o \in Phones, u \in Tickets :
           (local'[o][u] = local[o][u] /\ (u \in exposed[o] => u \in exposed'[o]))
           \/ local'[o][u].status = "USED"
    BY <1>a, <1>u DEF MarkUsed
  <2>2. QueuedIsUsed'
    BY <1>i, <1>u, <2>1 DEF QueuedIsUsed, Unused
  <2>3. StaleIsFetchedAgain'
    BY <1>i, <1>u, <2>1 DEF StaleIsFetchedAgain, Unused
  <2> QED
    BY <2>2, <2>3
<1>n. UNCHANGED <<server, changed, hidden, local, exposed, queue>> =>
        QueuedIsUsed' /\ StaleIsFetchedAgain'
  BY <1>i DEF QueuedIsUsed, StaleIsFetchedAgain, Queued
\* A ticket is written
<1>w. ASSUME NEW w \in Writers, NEW t \in Tickets, NEW mark \in Marks, mark.status # "PENDING",
             Commit(w, t, mark), UNCHANGED <<local, exposed, queue>>
      PROVE  ListInv'
  <2>1. server' = [server EXCEPT ![t] = mark] /\ SameSync /\ DatedAnew(t)
    BY <1>w, CommitFits
  <2>2. NoPending'
    BY <1>a, <1>i, <1>w, <2>1 DEF NoPending
  <2>3. \A u : u # t => server'[u] = server[u]
    BY <1>a, <2>1
  <2>4. ASSUME NEW p \in Phones, sync'[p].step = "pack"
        PROVE  /\ changed'[p] \subseteq DOMAIN sync'[p].list \cup sync'[p].since \cup hidden'[p]
               /\ \A u \in DOMAIN sync'[p].list :
                    /\ sync'[p].list[u].status # "PENDING"
                    /\ sync'[p].list[u] = server'[u] \/ u \in sync'[p].since \cup hidden'[p]
    <3>1. sync[p].step = "pack" /\ sync'[p].list = sync[p].list
      BY <2>1, <2>4 DEF SameSync
    <3>2. /\ changed'[p] \subseteq changed[p] \cup {t} /\ hidden[p] \subseteq hidden'[p] \cup {t}
          /\ sync[p].since \subseteq sync'[p].since \cup {t}
          /\ t \in sync'[p].since \cup hidden'[p]
      BY <2>1, <3>1 DEF DatedAnew
    <3>3. changed[p] \subseteq DOMAIN sync[p].list \cup sync[p].since \cup hidden[p]
          /\ \A u \in DOMAIN sync[p].list :
               /\ sync[p].list[u].status # "PENDING"
               /\ sync[p].list[u] = server[u] \/ u \in sync[p].since \cup hidden[p]
      BY <1>i, <3>1 DEF OnItsWay
    <3> QED
      BY <2>3, <3>1, <3>2, <3>3
  <2>5. \A p \in Phones : OnItsWay(p)'
    BY <2>4 DEF OnItsWay
  <2>6. QueuedIsUsed'
    BY <1>i, <1>w DEF QueuedIsUsed, Queued
  <2>7. StaleIsFetchedAgain'
    BY <1>i, <1>w, <2>1, <2>3 DEF StaleIsFetchedAgain, DatedAnew
  <2> QED
    BY <2>2, <2>5, <2>6, <2>7 DEF ListInv
\* A request ends without a write
<1>d. ASSUME NEW r \in Requests, WriteNothing(r), UNCHANGED <<local, exposed, queue>>
      PROVE  ListInv'
  <2>1. UNCHANGED <<server, changed, hidden>> /\ SameSync
        /\ \A p \in Phones : sync[p].step = "pack" => sync'[p].since = sync[p].since
    BY <1>d, NothingFits DEF Writers
  <2>2. \A p \in Phones : sync'[p].step = "pack" =>
           /\ sync[p].step = "pack" /\ sync'[p].list = sync[p].list
           /\ sync'[p].since = sync[p].since
    BY <2>1 DEF SameSync
  <2>3. \A p \in Phones : OnItsWay(p)'
    BY <1>i, <2>1, <2>2 DEF OnItsWay
  <2> QED
    BY <1>i, <1>n, <1>d, <2>1, <2>3 DEF ListInv, NoPending
<1>1. CASE Tick \/ UNCHANGED vars
  BY <1>1, <1>o, <1>n DEF Tick, vars, dates, phoneVars, ListInv
<1>2. ASSUME NEW r \in Requests, Server(r) PROVE ListInv'
  <2>1. ASSUME req[r] \in Busy,
               Commit(r, req[r].ticket, [status |-> "USED", at |-> ScanTime(req[r])]),
               UNCHANGED phoneVars
        PROVE  ListInv'
    <3>1. req[r].ticket \in Tickets /\ r \in Writers
      BY <2>1 DEF Busy, Writers
    <3>2. [status |-> "USED", at |-> ScanTime(req[r])] \in Marks
      BY <2>1, ScanTimeFits
    <3> QED
      BY <1>w, <2>1, <3>1, <3>2 DEF phoneVars
  <2>2. CASE Claim(r) \/ EnterPass(r)
    <3>1. req[r] \in Busy
      BY <2>2, StepIsBusy DEF Claim, EnterPass
    <3> QED
      BY <1>d, <2>1, <2>2, <3>1 DEF Claim, EnterPass, phoneVars
  <2>3. CASE FailRequest(r)
    BY <1>d, <2>3 DEF FailRequest, phoneVars
  <2>4. CASE UNCHANGED <<server, dates, phoneVars, sync>>
    BY <1>o, <1>n, <2>4 DEF ListInv, dates, phoneVars
  <2> QED
    BY <1>2, <2>2, <2>3, <2>4 DEF Server, ReadTicket, Record, Date
<1>3. ASSUME NEW t \in Tickets, CommitAct(t) PROVE ListInv'
  <2> DEFINE given == [status |-> office[t].act,
                       at |-> IF office[t].act = "USED" THEN office[t].at ELSE server[t].at]
  <2>1. t \in Writers /\ server[t] \in Marks /\ office[t] \in Acts /\ server[t].status # "PENDING"
    BY <1>a, <1>i DEF TypeInv, ServerOK, Writers, NoPending
  <2>2. office[t].act # "PENDING"
    BY <2>1 DEF Acts
  <2>3. office[t].act \in Statuses => given \in Marks /\ given.status # "PENDING"
    BY <2>1, <2>2 DEF Marks, Acts
  <2>4. UNCHANGED <<local, exposed, queue>>
        /\ (\/ office[t].act \in Statuses /\ Commit(t, t, given)
            \/ Commit(t, t, server[t]))
    BY <1>3 DEF CommitAct, phoneVars
  <2> HIDE DEF given
  <2> QED
    BY <1>w, <2>1, <2>3, <2>4
<1>4. ASSUME NEW t \in Tickets, NEW act \in OrganizerActs, Act(t, act) PROVE ListInv'
  BY <1>4, <1>o, <1>n DEF Act, dates, phoneVars, ListInv
<1>5. ASSUME NEW t \in Tickets, WriteDays(t) PROVE ListInv'
  BY <1>5, <1>o, <1>n DEF WriteDays, dates, phoneVars, ListInv
<1>t. ASSUME NEW p \in Phones, scan[p].step \in {"mark", "queue"}
      PROVE  scan[p].ticket \in Tickets
  BY <1>t, FreeStep DEF TypeInv, OwnersOK, Asking, Marking
<1>6. ASSUME NEW p \in Phones, Scanner(p) PROVE ListInv'
  <2>1. scan[p].step = "wait" => req[scan[p].request].ticket \in Tickets
    BY FreeStep DEF TypeInv, OwnersOK, ScanOwned, RequestsOK, Asking, Marking, Busy
  <2>2. CASE UNCHANGED <<server, dates, local, queue, exposed, sync>>
    BY <2>2, <1>o, <1>n DEF dates, ListInv
  <2>3. CASE TakeAnswer(p)
    <3> DEFINE t == req[scan[p].request].ticket
    <3>1. t \in Tickets /\ (MarkUsed(p, t, now) \/ UNCHANGED <<local, exposed>>)
          /\ UNCHANGED <<server, changed, hidden, queue, sync>>
      BY <2>1, <2>3 DEF TakeAnswer, dates
    <3> HIDE DEF t
    <3> QED
      BY <1>o, <1>u, <3>1 DEF ListInv, Queued
  <2>4. CASE MarkScan(p)
    <3>1. scan[p].ticket \in Tickets /\ MarkUsed(p, scan[p].ticket, scan[p].at)
          /\ UNCHANGED <<server, changed, hidden, queue, sync>>
      BY <1>t, <2>4 DEF MarkScan, dates
    <3> QED
      BY <1>o, <1>u, <3>1 DEF ListInv, Queued
  <2>5. CASE QueueScan(p)
    <3> DEFINE t == scan[p].ticket
               e == [ticket |-> t, at |-> scan[p].at, tries |-> 0]
    <3>1. queue' = [queue EXCEPT ![p] = @ \cup {e}]
          /\ exposed' = (IF local[p][t].status \in Unused THEN [exposed EXCEPT ![p] = @ \cup {t}]
                         ELSE exposed)
          /\ UNCHANGED <<server, changed, hidden, local, sync>>
      BY <2>5 DEF QueueScan, dates
    <3>2. t \in Tickets /\ e.ticket = t
      BY <1>t, <2>5 DEF QueueScan
    <3> HIDE DEF e, t
    <3>3. \A o \in Phones, u \in Tickets : Queued(o, u)' => Queued(o, u) \/ (o = p /\ u = t)
      BY <1>a, <3>1, <3>2 DEF Queued
    <3>4. \A o \in Phones : exposed[o] \subseteq exposed'[o]
      BY <1>a, <3>1
    <3>5. local[p][t].status \in Unused => t \in exposed'[p]
      BY <1>a, <3>1
    <3>6. QueuedIsUsed'
      BY <1>i, <3>1, <3>3, <3>4, <3>5 DEF QueuedIsUsed
    <3>7. StaleIsFetchedAgain'
      BY <1>i, <3>1 DEF StaleIsFetchedAgain
    <3> QED
      BY <1>o, <3>1, <3>6, <3>7 DEF ListInv
  <2> QED
    BY <1>6, <2>2, <2>3, <2>4, <2>5 DEF Scanner, ScanOnline, TimeOut, ScanOffline, DropScan
\* The sync of a phone that waits for no list
<1>s. ASSUME NEW p \in Phones, NEW x, x.step # "pack", SetSync(p, x)
      PROVE  \A o \in Phones : sync'[o] = sync[o] \/ sync'[o].step # "pack"
  BY <1>a, <1>s DEF SetSync
<1>7. ASSUME NEW p \in Phones, NEW e \in queue[p], NEW r \in Requests, Upload(p, e, r) PROVE ListInv'
  BY <1>7, <1>o, <1>n, <1>s DEF Upload, dates, phoneVars, ListInv
<1>8. ASSUME NEW p \in Phones, UploadLost(p) \/ ListLost(p) PROVE ListInv'
  BY <1>8, <1>o, <1>n, <1>s, FreeStep DEF UploadLost, ListLost, dates, phoneVars, ListInv
<1>9. ASSUME NEW p \in Phones, TakeUpload(p) PROVE ListInv'
  <2> DEFINE e == sync[p].entry
             again == [e EXCEPT !.tries = @ + 1]
  <2>1. sync[p].step = "wait" /\ SetSync(p, NoSync)
        /\ UNCHANGED <<server, changed, hidden, local, exposed>>
        /\ (\/ queue' = [queue EXCEPT ![p] = (@ \ {e}) \cup {again}]
            \/ queue' = [queue EXCEPT ![p] = @ \ {e}])
    BY <1>9 DEF TakeUpload, dates
  <2>2. e \in queue[p] /\ e \in Entry
    BY <1>a, <2>1 DEF TypeInv, SyncOK, WaitFits
  <2>3. again.ticket = e.ticket
    BY <2>2 DEF Entry
  <2> HIDE DEF e, again
  <2>4. ASSUME NEW o \in Phones, NEW u \in Tickets, NEW f \in queue'[o], f.ticket = u
        PROVE  Queued(o, u)
    <3>1. o # p => f \in queue[o]
      BY <1>a, <2>1, <2>4
    <3>2. o = p => f \in queue[p] \/ f = again
      BY <1>a, <2>1, <2>4
    <3> QED
      BY <2>2, <2>3, <2>4, <3>1, <3>2 DEF Queued
  <2>5. QueuedIsUsed' /\ StaleIsFetchedAgain'
    BY <1>i, <2>1, <2>4 DEF QueuedIsUsed, StaleIsFetchedAgain, Queued
  <2> QED
    BY <1>o, <1>s, <2>1, <2>5, FreeStep DEF ListInv
<1>10. ASSUME NEW p \in Phones, FetchList(p) PROVE ListInv'
  <2> DEFINE x == [step |-> "pack", since |-> {}, early |-> UnderWay,
                   passes |-> passes \cap changed[p], list |-> [t \in changed[p] |-> server[t]]]
  <2>1. SetSync(p, x) /\ UNCHANGED <<server, changed, hidden, local, exposed, queue>>
    BY <1>10 DEF FetchList, dates, phoneVars
  <2>2. x.list = [t \in changed[p] |-> server[t]]
    OBVIOUS
  <2> HIDE DEF x
  <2>3. \A o \in Phones : sync'[o] = IF o = p THEN x ELSE sync[o]
    BY <1>a, <2>1 DEF SetSync
  <2>4. OnItsWay(p)'
    BY <1>a, <1>i, <2>1, <2>2, <2>3 DEF OnItsWay, NoPending
  <2>5. \A o \in Phones : OnItsWay(o)'
    BY <1>i, <2>1, <2>3, <2>4 DEF OnItsWay
  <2> QED
    BY <1>i, <1>n, <2>1, <2>5 DEF ListInv, NoPending
<1>11. ASSUME NEW p \in Phones, SaveList(p) PROVE ListInv'
  <2> DEFINE x == sync[p]
             saved == {t \in DOMAIN x.list : ~Keep(p, t)}
  <2>1. x.step = "pack" /\ SetSync(p, NoSync)
        /\ local' = [local EXCEPT ![p] = [t \in Tickets |-> IF t \in saved THEN x.list[t] ELSE @[t]]]
        /\ exposed' = [exposed EXCEPT ![p] = @ \ saved]
        /\ changed' = [changed EXCEPT ![p] = x.since]
        /\ UNCHANGED <<server, hidden, queue>>
    BY <1>11 DEF SaveList, SaveRows
  <2>2. \A o \in Phones : o # p =>
           local'[o] = local[o] /\ changed'[o] = changed[o] /\ exposed'[o] = exposed[o]
    BY <1>a, <2>1
  <2>3. changed'[p] = x.since /\ exposed'[p] = exposed[p] \ saved /\ \A t \in Tickets :
           local'[p][t] = IF t \in saved THEN x.list[t] ELSE local[p][t]
    BY <1>a, <2>1
  <2>4. OnItsWay(p)
    BY <1>i
  <2>5. ASSUME NEW t \in Tickets, Queued(p, t), t \notin exposed'[p]
        PROVE  local'[p][t].status \notin Unused
    <3>1. CASE t \in saved
      <4>1. x.list[t].status \notin {"VALID", "PENDING"}
        BY <2>1, <2>4, <2>5, <3>1 DEF Keep, OnItsWay
      <4> QED
        BY <2>3, <3>1, <4>1 DEF Unused
    <3>2. CASE t \notin saved
      BY <1>i, <2>3, <2>5, <3>2 DEF QueuedIsUsed
    <3> QED
      BY <3>1, <3>2
  <2>6. ASSUME NEW t \in Tickets, local'[p][t].status \in Unused, server[t].status \notin Unused
        PROVE  t \in x.since \cup hidden[p]
    <3>1. CASE t \in saved
      BY <2>1, <2>3, <2>4, <2>6, <3>1 DEF OnItsWay
    <3>2. CASE t \notin saved
      <4>1. local[p][t].status \in Unused
        BY <2>3, <2>6, <3>2
      <4>2. t \in changed[p] \cup hidden[p]
        BY <1>i, <2>6, <4>1 DEF StaleIsFetchedAgain
      <4>3. t \in DOMAIN x.list => x.list[t].status = "VALID"
        BY <3>2 DEF Keep
      <4>4. t \in DOMAIN x.list => x.list[t] # server[t]
        BY <2>6, <4>3 DEF Unused
      <4> QED
        BY <2>1, <2>4, <4>2, <4>4 DEF OnItsWay
    <3> QED
      BY <3>1, <3>2
  <2>7. QueuedIsUsed'
    <3>1. \A o \in Phones, t \in Tickets : Queued(o, t)' => Queued(o, t)
      BY <2>1 DEF Queued
    <3> QED
      BY <1>i, <2>2, <2>5, <3>1 DEF QueuedIsUsed
  <2>8. StaleIsFetchedAgain'
    BY <1>i, <2>1, <2>2, <2>3, <2>6 DEF StaleIsFetchedAgain
  <2>9. \A o \in Phones : sync'[o].step = "pack" => o # p /\ sync'[o] = sync[o]
    BY <1>a, <2>1, FreeStep DEF SetSync
  <2>10. \A o \in Phones : OnItsWay(o)'
    BY <1>i, <2>1, <2>2, <2>9 DEF OnItsWay
  <2> QED
    BY <1>i, <2>1, <2>7, <2>8, <2>10 DEF ListInv, NoPending
<1> QED
  BY <1>1, <1>2, <1>3, <1>4, <1>5, <1>6, <1>7, <1>8, <1>9, <1>10, <1>11 DEF Next, Organizer, Sync

LEMMA InitListInv == Init => ListInv
  BY DEF Init, ListInv, NoPending, OnItsWay, QueuedIsUsed, StaleIsFetchedAgain, Queued, NoSync

\* A phone does not let an ordinary ticket in again before it has uploaded the entry
\* it made offline, however its list is refreshed meanwhile (saveOfflinePack), unless
\* the refresh fell between the mark and the queueing of the entry, and as long as no
\* ticket is PENDING: nothing in the repository makes one so.
THEOREM QueuedStayUsed ==
    ASSUME "PENDING" \notin OrganizerActs
    PROVE  Spec => []QueuedIsUsed
<1>1. ListInv => QueuedIsUsed
  BY DEF ListInv
<1>2. TypeInv /\ ListInv /\ [Next]_vars => ListInv'
  BY StepListInv
<1> QED
  BY <1>1, <1>2, InitTypeInv, StepTypeInv, InitListInv, PTL DEF Spec

\* A list that arrives after a newer answer, or after a change made while it was on
\* its way, is never the last word: the tickets it is wrong about are fetched again,
\* but for those whose change was dated before the list and committed after it.
THEOREM ListsCatchUp ==
    ASSUME "PENDING" \notin OrganizerActs
    PROVE  Spec => []StaleIsFetchedAgain
<1>1. ListInv => StaleIsFetchedAgain
  BY DEF ListInv
<1>2. TypeInv /\ ListInv /\ [Next]_vars => ListInv'
  BY StepListInv
<1> QED
  BY <1>1, <1>2, InitTypeInv, StepTypeInv, InitListInv, PTL DEF Spec

-----------------------------------------------------------------------------
(***************************************************************************)
(* Layer 4: every time of entry that a ticket, a request or an answer      *)
(* carries is in the records, about to be, or torn.  It rests on the       *)
(* organizer not marking tickets used: that leaves a time without record.  *)
(***************************************************************************)
Rec(t, m) == valid[t][m] > 0 \/ Recording(t, m) \/ <<t, m>> \in torn

RecNext(t, m) ==
    \/ valid'[t][m] > 0
    \/ \E r \in Requests : Enters(req'[r]) /\ req'[r].ticket = t /\ Meant(req'[r]) = m
    \/ <<t, m>> \in torn'

\* Nothing that was in the records leaves them
Grows == \A t \in Tickets, m \in Times :
    (valid[t][m] > 0 => valid'[t][m] > 0) /\ (Rec(t, m) => RecNext(t, m))

MarksRecorded == \A t \in Tickets : server[t].at \in Times => Rec(t, server[t].at)
SeenRecorded == \A r \in Requests :
    req[r].step \in {"claim", "answer"} /\ req[r].seenAt \in Times
        => Rec(req[r].ticket, req[r].seenAt)
AnswersRecorded == \A r \in Requests :
    req[r].step = "answer" /\ req[r].result = "VALID" => valid[req[r].ticket][req[r].seenAt] > 0

\* What is left of the time of an entry e in the request q that uploads it, at time n
Means(q, e, n) ==
    \/ q.at = e.at
    \/ /\ q.at = Never /\ n - e.at > MaxAge
       /\ q.step = "record" \/ (q.step = "answer" /\ q.result = "VALID") =>
            q.seenAt - e.at > MaxAge
UploadMeans(p) ==
    sync[p].step = "wait" => Means(req[sync[p].request], sync[p].entry, now)

RecordInv == /\ MarksRecorded /\ SeenRecorded /\ AnswersRecorded
             /\ \A p \in Phones : UploadMeans(p)
             /\ EntriesRecorded

\* Where an entry made by a phone is known
Traced(p, t, m) == Known(t, m) \/ t \in reported \/ Queues(p, t, m) \/ Rec(t, m)

LEMMA EntriesTraced ==
    EntriesRecorded <=> \A p \in Phones, t \in Tickets, m \in Times :
        <<p, t, m>> \in entries => Traced(p, t, m)
<1>1. \A t \in Tickets, m \in Times : valid[t][m] > 0 => Known(t, m)
  BY DEF Known
<1> QED
  BY <1>1 DEF EntriesRecorded, Traced, Rec

\* The same of the next state
LEMMA EntriesTracedNext ==
    EntriesRecorded' <=> \A p \in Phones, t \in Tickets, m \in Times :
        <<p, t, m>> \in entries' => Traced(p, t, m)'
<1>1. \A t \in Tickets, m \in Times : valid'[t][m] > 0 => Known(t, m)'
  BY DEF Known
<1> QED
  BY <1>1 DEF EntriesRecorded, Traced, Rec

LEMMA MarksNext ==
    MarksRecorded' <=> \A t \in Tickets : server'[t].at \in Times => RecNext(t, server'[t].at)
  BY DEF MarksRecorded, Rec, RecNext, Recording

LEMMA SeenNext ==
    SeenRecorded' <=> \A r \in Requests :
        req'[r].step \in {"claim", "answer"} /\ req'[r].seenAt \in Times
            => RecNext(req'[r].ticket, req'[r].seenAt)
  BY DEF SeenRecorded, Rec, RecNext, Recording

LEMMA TracedNext ==
    ASSUME NEW p \in Phones, NEW t \in Tickets, NEW m \in Times
    PROVE  Traced(p, t, m)' <=> \/ Known(t, m)' \/ t \in reported' \/ Queues(p, t, m)'
                               \/ RecNext(t, m)
  BY DEF Traced, Rec, RecNext, Recording

LEMMA StepRecordInv ==
    ASSUME "USED" \notin OrganizerActs
    PROVE  TypeInv /\ RecordInv /\ [Next]_vars => RecordInv'
<1> SUFFICES ASSUME TypeInv, RecordInv, [Next]_vars PROVE RecordInv'
  OBVIOUS
<1> USE DEF history
<1>a. /\ req \in [Requests -> {Free} \cup Busy] /\ \A r \in Requests : TimesFit(req[r])
      /\ server \in [Tickets -> Marks] /\ valid \in [Tickets -> [Times -> Nat]]
      /\ queue \in [Phones -> SUBSET Entry] /\ now \in Times
  BY DEF TypeInv, RequestsOK, ServerOK, SyncOK
<1>i. /\ MarksRecorded /\ SeenRecorded /\ AnswersRecorded /\ EntriesRecorded
      /\ \A p \in Phones : UploadMeans(p)
  BY DEF RecordInv
<1>b. \A o \in Requests : req[o].step # "free" => req[o].ticket \in Tickets
  BY <1>a, FreeStep DEF Busy
\* A step that takes no request from its entry
<1>g. ASSUME UNCHANGED valid, torn \subseteq torn',
             \A o \in Requests : Enters(req[o]) =>
                /\ Enters(req'[o]) /\ req'[o].ticket = req[o].ticket
                /\ Meant(req'[o]) = Meant(req[o])
      PROVE  Grows
  <2> QED
    BY <1>g DEF Recording, Rec, RecNext, Grows
\* An entry is recorded, or torn
<1>v. ASSUME NEW r \in Requests, NEW t \in Tickets, NEW m \in Times,
             IsRecorded(t, m) \/ UNCHANGED valid, torn \subseteq torn',
             \A o \in Requests \ {r} : req'[o] = req[o],
             Enters(req[r]) => /\ req[r].ticket = t
                               /\ \/ IsRecorded(t, m) /\ Meant(req[r]) = m
                                  \/ <<t, Meant(req[r])>> \in torn'
      PROVE  Grows /\ (IsRecorded(t, m) => valid'[t][m] > 0 /\ RecNext(t, m))
  <2>1. \A u \in Tickets, x \in Times : valid[u][x] \in Nat
           /\ (valid'[u][x] = valid[u][x] \/ valid'[u][x] = valid[u][x] + 1)
    BY <1>a, <1>v DEF IsRecorded
  <2>2. \A u \in Tickets, x \in Times : valid[u][x] > 0 => valid'[u][x] > 0
    BY <2>1
  <2>3. IsRecorded(t, m) => valid'[t][m] = valid[t][m] + 1 /\ valid[t][m] \in Nat
    BY <1>a, <1>v DEF IsRecorded
  <2>4. IsRecorded(t, m) => valid'[t][m] > 0
    BY <2>3
  <2>5. ASSUME NEW u \in Tickets, NEW x \in Times, Recording(u, x) PROVE RecNext(u, x)
    <3>1. PICK o \in Requests : Enters(req[o]) /\ req[o].ticket = u /\ Meant(req[o]) = x
      BY <2>5 DEF Recording
    <3>2. CASE o # r
      BY <1>v, <3>1, <3>2 DEF RecNext
    <3>3. CASE o = r
      BY <1>v, <2>4, <3>1, <3>3 DEF RecNext
    <3> QED
      BY <3>2, <3>3
  <2>6. \A u \in Tickets, x \in Times : Rec(u, x) => RecNext(u, x)
    BY <1>v, <2>2, <2>5 DEF Rec, RecNext
  <2> QED
    BY <2>2, <2>4, <2>6 DEF Grows, RecNext
<1>m. Grows /\ (\A t \in Tickets : server'[t].at = server[t].at) => MarksRecorded'
  <2> SUFFICES ASSUME Grows, \A t \in Tickets : server'[t].at = server[t].at,
                      NEW t \in Tickets, server'[t].at \in Times
               PROVE  RecNext(t, server'[t].at)
    BY MarksNext
  <2>1. Rec(t, server[t].at) /\ server[t].at \in Times
    BY <1>i DEF MarksRecorded
  <2> QED
    BY <2>1 DEF Grows
\* Nobody loses sight of an entry
<1>e. ASSUME Grows, reported \subseteq reported',
             \A p \in Phones, t \in Tickets, m \in Times :
                Queues(p, t, m) => Traced(p, t, m)',
             \A p \in Phones, t \in Tickets, m \in Times :
                <<p, t, m>> \in entries' => <<p, t, m>> \in entries \/ Traced(p, t, m)'
      PROVE  EntriesRecorded'
  <2>1. \A t \in Tickets, m \in Times : Known(t, m) => Known(t, m)'
    BY <1>e DEF Known, Grows
  <2>2. \A p \in Phones, t \in Tickets, m \in Times : Traced(p, t, m) => Traced(p, t, m)'
    BY <1>e, <2>1, TracedNext DEF Traced, Grows
  <2> QED
    BY <1>e, <1>i, <2>2, EntriesTraced, EntriesTracedNext
<1>E. Grows /\ UNCHANGED <<entries, reported, queue>> => EntriesRecorded'
  <2>1. ASSUME UNCHANGED queue, NEW p \in Phones, NEW t \in Tickets, NEW m \in Times,
               Queues(p, t, m)
        PROVE  Traced(p, t, m)'
    BY <2>1, TracedNext DEF Queues
  <2> QED
    BY <1>e, <2>1
\* The uploads under way: where the server does not take their request further ...
<1>U. ASSUME NEW p \in Phones, sync[p].step = "wait"
      PROVE  /\ sync[p].request \in Requests /\ sync[p].entry \in Entry
             /\ req[sync[p].request] \in Busy /\ req[sync[p].request].awaited
             /\ sync[p].entry \in queue[p]
             /\ req[sync[p].request].ticket = sync[p].entry.ticket
  <2>1. sync[p] \in Waits
    BY <1>U, FreeStep DEF TypeInv, SyncOK, Packs
  <2>2. WaitFits(p) /\ UploadOwned(p)
    BY DEF TypeInv, SyncOK, OwnersOK
  <2>3. sync[p].request \in Requests /\ sync[p].entry \in Entry
    BY <2>1 DEF Waits
  <2> QED
    BY <1>a, <1>U, <2>2, <2>3 DEF WaitFits, UploadOwned
\* ... and where it does
<1>h. ASSUME NEW r \in Requests, NEW k, Continues(r, k), UNCHANGED now,
             UNCHANGED sync \/ SameSync,
             k # Free => \A e \in Entry : Means(req[r], e, now) => Means(k, e, now)
      PROVE  \A p \in Phones : UploadMeans(p)'
  <2> SUFFICES ASSUME NEW p \in Phones, sync'[p].step = "wait"
               PROVE  Means(req'[sync'[p].request], sync'[p].entry, now')
    BY DEF UploadMeans
  <2>1. sync[p].step = "wait" /\ sync'[p] = sync[p]
    BY <1>h DEF SameSync
  <2>2. req'[r] = k /\ \A o \in Requests \ {r} : req'[o] = req[o]
    BY <1>a, <1>h DEF Continues
  <2>3. Means(req[sync[p].request], sync[p].entry, now)
    BY <1>i, <2>1 DEF UploadMeans
  <2>4. sync[p].request = r => k # Free
    BY <1>h, <1>U, <2>1 DEF Continues
  <2> QED
    BY <1>h, <1>U, <2>1, <2>2, <2>3, <2>4
\* A request that goes on
<1>k. ASSUME NEW r \in Requests, NEW k, Continues(r, k), Grows, UNCHANGED now,
             UNCHANGED sync \/ SameSync,
             k.step \in {"claim", "answer"} /\ k.seenAt \in Times => RecNext(req[r].ticket, k.seenAt),
             k.step = "answer" /\ k.result = "VALID" => valid'[req[r].ticket][k.seenAt] > 0,
             k # Free => \A e \in Entry : Means(req[r], e, now) => Means(k, e, now)
      PROVE  SeenRecorded' /\ AnswersRecorded' /\ \A p \in Phones : UploadMeans(p)'
  <2>1. req'[r] = k /\ \A o \in Requests \ {r} : req'[o] = req[o]
    BY <1>a, <1>k DEF Continues
  <2>2. k.step \in {"claim", "answer"} => k.ticket = req[r].ticket
    BY <1>k, FreeStep DEF Continues
  <2>3. ASSUME NEW o \in Requests, req'[o].step \in {"claim", "answer"}, req'[o].seenAt \in Times
        PROVE  RecNext(req'[o].ticket, req'[o].seenAt)
    <3>1. CASE o = r
      BY <1>k, <2>1, <2>2, <2>3, <3>1
    <3>2. CASE o # r
      <4>1. Rec(req[o].ticket, req[o].seenAt) /\ req[o].ticket \in Tickets /\ req[o].seenAt \in Times
        BY <1>b, <1>i, <2>1, <2>3, <3>2 DEF SeenRecorded
      <4>2. \A t \in Tickets, m \in Times : Rec(t, m) => RecNext(t, m)
        BY <1>k DEF Grows
      <4> QED
        BY <2>1, <3>2, <4>1, <4>2
    <3> QED
      BY <3>1, <3>2
  <2>4. SeenRecorded'
    BY <2>3, SeenNext
  <2>5. ASSUME NEW o \in Requests, req'[o].step = "answer", req'[o].result = "VALID"
        PROVE  valid'[req'[o].ticket][req'[o].seenAt] > 0
    <3>1. CASE o = r
      BY <1>k, <2>1, <2>2, <2>5, <3>1
    <3>2. CASE o # r
      <4>1. req[o].ticket \in Tickets /\ req[o].seenAt \in Times
            /\ valid[req[o].ticket][req[o].seenAt] > 0
        BY <1>a, <1>b, <1>i, <2>1, <2>5, <3>2 DEF AnswersRecorded, TimesFit
      <4> QED
        BY <1>k, <2>1, <3>2, <4>1 DEF Grows
    <3> QED
      BY <3>1, <3>2
  <2>6. AnswersRecorded'
    BY <2>5 DEF AnswersRecorded
  <2>7. \A p \in Phones : UploadMeans(p)'
    BY <1>h, <1>k
  <2> QED
    BY <2>4, <2>6, <2>7
\* The same but for the requests of the phones
<1>p. ASSUME NEW p \in Phones, Scanner(p) \/ Sync(p)
      PROVE  Grows /\ MarksRecorded' /\ SeenRecorded' /\ AnswersRecorded'
  <2>1. Relays /\ UNCHANGED <<server, valid, torn>>
    BY <1>p, PhonesRelay
  <2>2. Grows
    BY <1>g, <2>1 DEF Relays, SameBut, Enters, Meant
  <2>3. MarksRecorded'
    BY <1>m, <2>1, <2>2
  <2>4. ASSUME NEW o \in Requests, req'[o].step \in {"claim", "answer"}
        PROVE  SameBut(req'[o], req[o])
    BY <2>1, <2>4, FreeStep DEF Relays
  <2>5. ASSUME NEW o \in Requests, req'[o].step \in {"claim", "answer"}, req'[o].seenAt \in Times
        PROVE  RecNext(req'[o].ticket, req'[o].seenAt)
    <3>1. SameBut(req'[o], req[o])
      BY <2>4, <2>5
    <3>2. Rec(req[o].ticket, req[o].seenAt) /\ req[o].ticket \in Tickets
      BY <1>b, <1>i, <2>5, <3>1 DEF SeenRecorded, SameBut
    <3> QED
      BY <2>2, <2>5, <3>1, <3>2 DEF Grows, SameBut
  <2>6. SeenRecorded'
    BY <2>5, SeenNext
  <2>7. AnswersRecorded'
    BY <1>i, <2>1, <2>4 DEF AnswersRecorded, SameBut
  <2> QED
    BY <2>2, <2>3, <2>6, <2>7
\* An upload that goes on waiting keeps its request
<1>r. ASSUME NEW p \in Phones, Scanner(p) \/ Sync(p), NEW o \in Phones, sync'[o] = sync[o]
      PROVE  UploadMeans(o)'
  <2> SUFFICES ASSUME sync[o].step = "wait"
               PROVE  Means(req'[sync[o].request], sync[o].entry, now)
    <3>1. UNCHANGED now
      BY <1>r, PhonesRelay
    <3> QED
      BY <1>r, <3>1 DEF UploadMeans
  <2> DEFINE x == sync[o].request
  <2>1. x \in Requests /\ req[x] # Free
    BY <1>U, FreeStep DEF Busy
  <2>2. req'[x] # Free
    <3>1. TypeInv'
      BY StepTypeInv
    <3> QED
      BY <1>r, <3>1 DEF TypeInv, OwnersOK, UploadOwned
  <2>3. SameBut(req'[x], req[x])
    BY <1>r, <2>1, <2>2, PhonesRelay DEF Relays
  <2>4. Means(req[x], sync[o].entry, now)
    BY <1>i DEF UploadMeans
  <2> QED
    BY <2>3, <2>4 DEF Means, SameBut
<1>R. ASSUME NEW p \in Phones, Scanner(p) \/ Sync(p),
             \A o \in Phones : sync'[o] = sync[o] \/ sync'[o].step # "wait"
      PROVE  \A o \in Phones : UploadMeans(o)'
  <2> SUFFICES ASSUME NEW o \in Phones, sync'[o].step = "wait" PROVE UploadMeans(o)'
    BY DEF UploadMeans
  <2> QED
    BY <1>R, <1>r
\* What the phones do to the entries
<1>q. ASSUME NEW p \in Phones, Scanner(p) \/ Sync(p), reported \subseteq reported',
             \A o \in Phones : queue[o] \subseteq queue'[o],
             \A o \in Phones : UploadMeans(o)',
             \A o \in Phones, t \in Tickets, m \in Times :
                <<o, t, m>> \in entries' => <<o, t, m>> \in entries \/ Traced(o, t, m)'
      PROVE  RecordInv'
  <2>1. ASSUME NEW o \in Phones, NEW t \in Tickets, NEW m \in Times, Queues(o, t, m)
        PROVE  Traced(o, t, m)'
    <3>1. Queues(o, t, m)'
      BY <1>q, <2>1 DEF Queues
    <3> QED
      BY <3>1, TracedNext
  <2>2. Grows
    BY <1>p, <1>q
  <2>3. EntriesRecorded'
    BY <1>e, <1>q, <2>1, <2>2
  <2> QED
    BY <1>p, <1>q, <2>3 DEF RecordInv
<1>1. CASE Tick \/ UNCHANGED vars
  <2>1. UNCHANGED <<server, valid, torn, req, sync, entries, reported, queue>>
        /\ (now' = now + 1 \/ now' = now)
    BY <1>1 DEF Tick, vars, phoneVars
  <2>2. Grows
    BY <1>g, <2>1
  <2>3. SeenRecorded' /\ AnswersRecorded'
    BY <1>i, <2>1, SeenNext DEF SeenRecorded, AnswersRecorded, Rec, RecNext, Recording
  <2>4. ASSUME NEW p \in Phones PROVE UploadMeans(p)'
    <3> SUFFICES ASSUME sync[p].step = "wait"
                 PROVE  Means(req[sync[p].request], sync[p].entry, now')
      BY <2>1 DEF UploadMeans
    <3>1. Means(req[sync[p].request], sync[p].entry, now)
      BY <1>i DEF UploadMeans
    <3>2. sync[p].entry.at \in Int /\ now \in Int /\ MaxAge \in Int
      BY <1>a, <1>U, BoundAssumption DEF Entry, Times
    <3>3. now - sync[p].entry.at > MaxAge => now' - sync[p].entry.at > MaxAge
      BY <2>1, <3>2
    <3> QED
      BY <3>1, <3>3 DEF Means
  <2> QED
    BY <1>m, <1>E, <2>1, <2>2, <2>3, <2>4 DEF RecordInv
<1>2. ASSUME NEW r \in Requests, ReadTicket(r) PROVE RecordInv'
  <2> DEFINE q == req[r]
             t == q.ticket
  <2>1. PICK k : Continues(r, k) /\ ReadAs(r, k)
    BY <1>2, ReadContinues
  <2>2. UNCHANGED <<now, server, valid, sync, entries, reported, queue>> /\ q.step = "sent"
    BY <1>2 DEF ReadTicket, phoneVars
  <2>3. req'[r] = k /\ \A o \in Requests : o # r => req'[o] = req[o]
    BY <1>a, <2>1 DEF Continues
  <2>4. torn \subseteq torn'
    BY <1>2, ReadContinues
  <2>5. Grows
    <3>1. ~Enters(q)
      BY <2>2 DEF Enters
    <3> QED
      BY <1>g, <2>2, <2>3, <2>4, <3>1
  <2>6. t \in Tickets
    BY <1>b, <2>2
  <2>7. k.step \in {"claim", "answer"} /\ k.seenAt \in Times => RecNext(t, k.seenAt)
    <3>1. k.step \in {"claim", "answer"} /\ k.seenAt \in Times =>
             Rec(t, k.seenAt) \/ <<t, k.seenAt>> \in torn'
      BY <1>i, <2>1, <2>6, FreeStep, TimesAreMarks DEF ReadAs, MarksRecorded, Rec
    <3> QED
      BY <2>5, <2>6, <3>1 DEF Grows, RecNext
  <2>8. k.step = "answer" => k.result # "VALID"
    BY <2>1, FreeStep DEF ReadAs
  <2>9. ASSUME k # Free, NEW e \in Entry, Means(q, e, now) PROVE Means(k, e, now)
    <3>1. k.step # "record" /\ (k.at = q.at \/ k.at = KeptTime(q))
      BY <2>1, <2>9 DEF ReadAs
    <3>2. e.at \in Int /\ now \in Int /\ MaxAge \in Int
      BY <1>a, <2>9, BoundAssumption DEF Entry, Times
    <3>3. KeptTime(q) = q.at \/ (KeptTime(q) = Never /\ ~(now - q.at <= MaxAge))
      BY DEF KeptTime
    <3>4. CASE q.at = e.at
      <4>1. ~(now - e.at <= MaxAge) => now - e.at > MaxAge
        BY <3>2
      <4> QED
        BY <2>8, <3>1, <3>3, <3>4, <4>1 DEF Means
    <3>5. CASE q.at # e.at
      BY <2>8, <2>9, <3>1, <3>3, <3>5 DEF Means
    <3> QED
      BY <3>4, <3>5
  <2>10. SeenRecorded' /\ AnswersRecorded' /\ \A p \in Phones : UploadMeans(p)'
    BY <1>k, <2>1, <2>2, <2>5, <2>7, <2>8, <2>9
  <2> QED
    BY <1>m, <1>E, <2>2, <2>5, <2>10 DEF RecordInv
\* A ticket is entered: its mark has the time that is about to be recorded
<1>n. ASSUME NEW r \in Requests, req[r] \in Busy, req[r].step \in {"claim", "pass"},
             GoesOn(r, ScanTime(req[r])),
             Commit(r, req[r].ticket, [status |-> "USED", at |-> ScanTime(req[r])]),
             UNCHANGED <<now, valid, torn, entries, reported, queue>>
      PROVE  RecordInv'
  <2> DEFINE q == req[r]
             t == q.ticket
             m == ScanTime(q)
             used == [status |-> "USED", at |-> m]
  <2>1. t \in Tickets /\ m \in Times /\ used \in Marks /\ used.at = m /\ r \in Writers
        /\ (q.at = Never => m = now)
    BY <1>n, ScanTimeFits DEF Busy, Writers
  <2>2. PICK k : /\ Continues(r, k) /\ k # Free /\ k.step = "record" /\ k.at = q.at
                 /\ k.seenAt = m /\ k.ticket = t
    BY <1>n, EnterContinues
  <2> HIDE DEF used
  <2>3. server' = [server EXCEPT ![t] = used] /\ SameSync
    BY <1>n, <2>1, CommitFits DEF used
  <2> HIDE DEF m, t
  <2>4. req'[r] = k /\ \A o \in Requests : o # r => req'[o] = req[o]
    BY <1>a, <2>2 DEF Continues
  <2>5. Grows
    <3>1. ~Enters(q)
      BY <1>n DEF Enters
    <3> QED
      BY <1>n, <1>g, <2>4, <3>1
  <2>6. RecNext(t, m)
    BY <2>2, <2>4 DEF RecNext, Enters, Meant
  <2>7. \A u \in Tickets : server'[u].at = server[u].at \/ (u = t /\ server'[u].at = m)
    BY <1>a, <2>1, <2>3
  <2>8. MarksRecorded'
    BY <1>i, <2>5, <2>6, <2>7, MarksNext DEF MarksRecorded, Grows
  <2>9. ASSUME NEW e \in Entry, Means(q, e, now) PROVE Means(k, e, now)
    BY <2>1, <2>2, <2>9 DEF Means
  <2>10. SeenRecorded' /\ AnswersRecorded' /\ \A p \in Phones : UploadMeans(p)'
    BY <1>k, <1>n, <2>2, <2>3, <2>5, <2>9
  <2> QED
    BY <1>n, <1>E, <2>5, <2>8, <2>10 DEF RecordInv
<1>3. ASSUME NEW r \in Requests, Claim(r) PROVE RecordInv'
  <2> DEFINE q == req[r]
             t == q.ticket
  <2>1. q \in Busy /\ q.step = "claim" /\ t \in Tickets /\ q.seenAt \in 0..MaxTime /\ r \in Writers
    BY <1>3, StepIsBusy DEF Claim, Busy, Writers
  <2>2. UNCHANGED <<now, valid, torn, entries, reported, queue>>
    BY <1>3 DEF Claim, phoneVars
  <2>3. CASE server[t].status \in Unused
    BY <1>3, <1>n, <2>1, <2>2, <2>3 DEF Claim
  <2>4. CASE server[t].status \notin Unused
    <3>1. WriteNothing(r) /\ Answer(r, "ALREADY_USED", q.seenAt)
      BY <1>3, <2>4 DEF Claim
    <3>2. UNCHANGED server /\ SameSync
      BY <2>1, <3>1, NothingFits
    <3>3. PICK k : /\ Continues(r, k)
                   /\ k # Free => k.step = "answer" /\ k.result = "ALREADY_USED"
                                  /\ k.seenAt = q.seenAt /\ k.at = q.at
      BY <2>1, <3>1, AnswerContinues
    <3>4. \A o \in Requests : o # r => req'[o] = req[o]
      BY <1>a, <3>3 DEF Continues
    <3>5. ~Enters(q)
      BY <2>1 DEF Enters
    <3>6. Grows
      BY <1>g, <2>2, <3>4, <3>5
    <3>7. q.seenAt \in Times => RecNext(t, q.seenAt)
      BY <1>i, <2>1, <3>6 DEF SeenRecorded, Grows
    <3>8. ASSUME k # Free, NEW e \in Entry, Means(q, e, now) PROVE Means(k, e, now)
      BY <3>3, <3>8 DEF Means
    <3>9. SeenRecorded' /\ AnswersRecorded' /\ \A p \in Phones : UploadMeans(p)'
      BY <1>k, <2>2, <3>2, <3>3, <3>6, <3>7, <3>8, FreeStep
    <3> QED
      BY <1>m, <1>E, <2>2, <3>2, <3>6, <3>9 DEF RecordInv
  <2> QED
    BY <2>3, <2>4
<1>4. ASSUME NEW r \in Requests, EnterPass(r) PROVE RecordInv'
  <2>1. req[r] \in Busy
    BY <1>4, StepIsBusy DEF EnterPass
  <2> QED
    BY <1>4, <1>n, <2>1 DEF EnterPass, phoneVars
<1>5. ASSUME NEW r \in Requests, Record(r) PROVE RecordInv'
  <2> DEFINE q == req[r]
             t == q.ticket
  <2>1. q \in Busy /\ q.step = "record" /\ t \in Tickets /\ q.seenAt \in Times
    BY <1>5, RecordContinues
  <2>2. UNCHANGED <<now, server, sync, torn, entries, reported, queue>>
    BY <1>5 DEF Record, phoneVars
  <2>3. CASE /\ q.at = Never /\ IsRecorded(t, q.seenAt)
             /\ \E k : /\ Continues(r, k)
                       /\ k # Free => k.step = "answer" /\ k.seenAt = q.seenAt /\ k.at = Never
    <3>1. PICK k : /\ Continues(r, k)
                   /\ k # Free => k.step = "answer" /\ k.seenAt = q.seenAt /\ k.at = Never
      BY <2>3
    <3>2. \A o \in Requests \ {r} : req'[o] = req[o]
      BY <1>a, <3>1 DEF Continues
    <3>3. Grows /\ valid'[t][q.seenAt] > 0 /\ RecNext(t, q.seenAt)
      <4>1. Enters(q) => Meant(q) = q.seenAt
        BY <2>1 DEF Meant
      <4> QED
        BY <1>v, <2>1, <2>2, <2>3, <3>2, <4>1
    <3>4. ASSUME k # Free, NEW e \in Entry, Means(q, e, now) PROVE Means(k, e, now)
      BY <2>1, <2>3, <3>1, <3>4 DEF Means
    <3>5. SeenRecorded' /\ AnswersRecorded' /\ \A p \in Phones : UploadMeans(p)'
      BY <1>k, <2>2, <3>1, <3>3, <3>4, FreeStep
    <3> QED
      BY <1>m, <1>E, <2>2, <3>3, <3>5 DEF RecordInv
  <2>4. CASE /\ q.at \in Times /\ q.seenAt = q.at /\ UNCHANGED valid
             /\ \E k : /\ Continues(r, k) /\ k # Free /\ k.step = "date"
                       /\ k.at = q.at /\ k.ticket = t
    <3>1. PICK k : /\ Continues(r, k) /\ k # Free /\ k.step = "date" /\ k.at = q.at /\ k.ticket = t
      BY <2>4
    <3>2. req'[r] = k /\ \A o \in Requests \ {r} : req'[o] = req[o]
      BY <1>a, <3>1 DEF Continues
    <3>3. Grows
      <4>1. Enters(k) /\ Meant(k) = Meant(q)
        BY <2>1, <2>4, <3>1 DEF Enters, Meant
      <4> QED
        BY <1>g, <2>2, <2>4, <3>1, <3>2, <4>1
    <3>4. ASSUME NEW e \in Entry, Means(q, e, now) PROVE Means(k, e, now)
      BY <3>1, <3>4 DEF Means
    <3>5. SeenRecorded' /\ AnswersRecorded' /\ \A p \in Phones : UploadMeans(p)'
      BY <1>k, <2>2, <3>1, <3>3, <3>4
    <3> QED
      BY <1>m, <1>E, <2>2, <3>3, <3>5 DEF RecordInv
  <2> QED
    BY <1>5, <2>3, <2>4, RecordContinues
<1>6. ASSUME NEW r \in Requests, Date(r) PROVE RecordInv'
  <2> DEFINE q == req[r]
             t == q.ticket
  <2>1. q \in Busy /\ q.step = "date" /\ t \in Tickets /\ q.at \in Times /\ IsRecorded(t, q.at)
    BY <1>6, DateContinues
  <2>2. UNCHANGED <<now, server, sync, torn, entries, reported, queue>>
    BY <1>6 DEF Date, phoneVars
  <2>3. PICK k : /\ Continues(r, k)
                 /\ k # Free => k.step = "answer" /\ k.seenAt = q.at /\ k.at = q.at
    BY <1>6, DateContinues
  <2>4. \A o \in Requests \ {r} : req'[o] = req[o]
    BY <1>a, <2>3 DEF Continues
  <2>5. Grows /\ valid'[t][q.at] > 0 /\ RecNext(t, q.at)
    <3>1. Enters(q) => Meant(q) = q.at
      BY <2>1 DEF Meant
    <3> QED
      BY <1>v, <2>1, <2>2, <2>4, <3>1
  <2>6. ASSUME k # Free, NEW e \in Entry, Means(q, e, now) PROVE Means(k, e, now)
    BY <2>1, <2>3, <2>6, TimesAreMarks DEF Means
  <2>7. SeenRecorded' /\ AnswersRecorded' /\ \A p \in Phones : UploadMeans(p)'
    BY <1>k, <2>2, <2>3, <2>5, <2>6, FreeStep
  <2> QED
    BY <1>m, <1>E, <2>2, <2>5, <2>7 DEF RecordInv
<1>7. ASSUME NEW r \in Requests, FailRequest(r) PROVE RecordInv'
  <2> DEFINE q == req[r]
             t == q.ticket
  <2>1. t \in Tickets /\ WriteNothing(r)
        /\ UNCHANGED <<now, entries, reported, queue>>
    BY <1>7, FailContinues DEF FailRequest, phoneVars
  <2>2. UNCHANGED server /\ SameSync
    BY <2>1, NothingFits DEF Writers
  <2>3. PICK k : /\ Continues(r, k)
                 /\ k # Free => k.step = "answer" /\ k.result = "ERROR" /\ k.seenAt = Never
                                /\ k.at = q.at
    BY <1>7, FailContinues
  <2>4. \A o \in Requests \ {r} : req'[o] = req[o]
    BY <1>a, <2>3 DEF Continues
  <2>5. /\ torn \subseteq torn' /\ (Enters(q) => <<t, Meant(q)>> \in torn')
        /\ (q.step = "date" => IsRecorded(t, q.seenAt) /\ q.seenAt \in Times)
        /\ (q.step # "date" => UNCHANGED valid)
    BY <1>7, FailContinues
  <2>6. Grows
    <3>1. CASE q.step = "date"
      BY <1>v, <2>1, <2>4, <2>5, <3>1
    <3>2. CASE q.step # "date"
      BY <1>v, <1>a, <2>1, <2>4, <2>5, <3>2
    <3> QED
      BY <3>1, <3>2
  <2>7. ASSUME k # Free, NEW e \in Entry, Means(q, e, now) PROVE Means(k, e, now)
    BY <2>3, <2>7 DEF Means
  <2>8. SeenRecorded' /\ AnswersRecorded' /\ \A p \in Phones : UploadMeans(p)'
    BY <1>k, <2>1, <2>2, <2>3, <2>6, <2>7, FreeStep, TimesAreMarks
  <2> QED
    BY <1>m, <1>E, <2>1, <2>2, <2>6, <2>8 DEF RecordInv
<1>8. ASSUME Organizer PROVE RecordInv'
  <2>1. UNCHANGED <<now, valid, torn, req, entries, reported, queue>>
    BY <1>8 DEF Organizer, Act, CommitAct, WriteDays, phoneVars
  <2>2. (\A t \in Tickets : server'[t].at = server[t].at) /\ (UNCHANGED sync \/ SameSync)
    <3>1. ASSUME NEW t \in Tickets, CommitAct(t)
          PROVE  (\A u \in Tickets : server'[u].at = server[u].at) /\ SameSync
      <4> DEFINE given == [status |-> office[t].act,
                           at |-> IF office[t].act = "USED" THEN office[t].at ELSE server[t].at]
      <4>1. t \in Writers /\ server[t] \in Marks /\ office[t] \in Acts
        BY DEF TypeInv, ServerOK, Writers
      <4>2. office[t].act # "USED"
        BY <4>1 DEF Acts
      <4>3. office[t].act \in Statuses => given \in Marks /\ given.at = server[t].at
        BY <4>1, <4>2 DEF Marks, Acts
      <4>4. \/ office[t].act \in Statuses /\ Commit(t, t, given)
            \/ Commit(t, t, server[t])
        BY <3>1 DEF CommitAct
      <4> HIDE DEF given
      <4>5. PICK mark \in Marks : mark.at = server[t].at /\ Commit(t, t, mark)
        BY <4>1, <4>3, <4>4
      <4>6. server' = [server EXCEPT ![t] = mark] /\ SameSync
        BY <4>1, <4>5, CommitFits
      <4> QED
        BY <1>a, <4>5, <4>6
    <3>2. (\E t \in Tickets : CommitAct(t)) \/ UNCHANGED <<server, sync>>
      BY <1>8 DEF Organizer, Act, WriteDays
    <3> QED
      BY <3>1, <3>2
  <2>3. Grows
    BY <1>g, <2>1
  <2>4. SeenRecorded' /\ AnswersRecorded'
    BY <1>i, <2>1, SeenNext DEF SeenRecorded, AnswersRecorded, Rec, RecNext, Recording
  <2>5. \A p \in Phones : UploadMeans(p)'
    BY <1>i, <2>1, <2>2 DEF UploadMeans, SameSync
  <2> QED
    BY <1>m, <1>E, <2>1, <2>2, <2>3, <2>4, <2>5 DEF RecordInv
\* The phones
<1>9. ASSUME NEW p \in Phones, Scanner(p) PROVE RecordInv'
  <2>0. UNCHANGED sync
    BY <1>9 DEF Scanner, ScanOnline, TakeAnswer, TimeOut, ScanOffline, MarkScan, QueueScan, DropScan
  <2>1. \A o \in Phones : UploadMeans(o)'
    BY <1>9, <1>R, <2>0
  <2>2. CASE UNCHANGED <<entries, reported, queue>>
    BY <1>9, <1>q, <2>1, <2>2
  <2>3. CASE TakeAnswer(p)
    <3> DEFINE q == req[scan[p].request]
    <3>1. scan[p].step = "wait" /\ q.step = "answer" /\ UNCHANGED <<reported, queue>>
          /\ (UNCHANGED entries \/ (q.result = "VALID" /\ LetIn(p, q.ticket, q.seenAt)))
      BY <2>3 DEF TakeAnswer
    <3>2. scan[p].request \in Requests
      BY <3>1, FreeStep DEF TypeInv, OwnersOK, Asking, Marking
    <3>3. q.result = "VALID" => /\ q.seenAt \in Times /\ q.ticket \in Tickets
                                /\ valid[q.ticket][q.seenAt] > 0
      BY <1>a, <1>b, <1>i, <3>1, <3>2 DEF TimesFit, AnswersRecorded
    <3>4. CASE q.result = "VALID" /\ LetIn(p, q.ticket, q.seenAt)
      <4>1. PICK t \in Tickets, m \in Times : t = q.ticket /\ m = q.seenAt
        BY <3>3, <3>4
      <4>2. entries' = entries \cup {<<p, t, m>>} /\ valid[t][m] > 0
        BY <3>3, <3>4, <4>1 DEF LetIn
      <4>3. RecNext(t, m)
        BY <1>9, <1>p, <4>2 DEF Grows, RecNext
      <4>4. Traced(p, t, m)'
        BY <4>3, TracedNext
      <4> QED
        BY <1>9, <1>q, <2>1, <3>1, <4>2, <4>4
    <3> QED
      BY <2>2, <3>1, <3>4
  <2>4. CASE QueueScan(p)
    <3>1. scan[p].ticket \in Tickets /\ scan[p].at \in Times
      BY <2>4, FreeStep DEF QueueScan, TypeInv, OwnersOK, Asking, Marking
    <3>2. PICK t \in Tickets, m \in Times : t = scan[p].ticket /\ m = scan[p].at
      BY <3>1
    <3> DEFINE e == [ticket |-> t, at |-> m, tries |-> 0]
    <3>3. queue' = [queue EXCEPT ![p] = @ \cup {e}] /\ entries' = entries \cup {<<p, t, m>>}
          /\ UNCHANGED reported
      BY <2>4, <3>2 DEF QueueScan, LetIn
    <3>4. e.ticket = t /\ e.at = m
      OBVIOUS
    <3> HIDE DEF e
    <3>5. e \in queue'[p] /\ \A o \in Phones : queue[o] \subseteq queue'[o]
      BY <1>a, <3>3
    <3>6. Traced(p, t, m)'
      BY <3>4, <3>5, TracedNext DEF Queues
    <3> QED
      BY <1>9, <1>q, <2>1, <3>3, <3>5, <3>6
  <2> QED
    BY <1>9, <2>2, <2>3, <2>4 DEF Scanner, ScanOnline, TimeOut, ScanOffline, MarkScan, DropScan
<1>s. ASSUME NEW p \in Phones, NEW x, SetSync(p, x)
      PROVE  sync'[p] = x /\ \A o \in Phones : o # p => sync'[o] = sync[o]
  BY <1>s DEF SetSync, TypeInv, SyncOK
<1>10. ASSUME NEW p \in Phones, TakeUpload(p) PROVE RecordInv'
  <2>1. PICK e \in Entry : e = sync[p].entry
    BY <1>10, <1>U DEF TakeUpload
  <2> DEFINE q == req[sync[p].request]
             again == [e EXCEPT !.tries = @ + 1]
  <2>2. sync[p].step = "wait" /\ q.step = "answer" /\ UNCHANGED entries /\ SetSync(p, NoSync)
        /\ (\/ queue' = [queue EXCEPT ![p] = (@ \ {e}) \cup {again}] /\ UNCHANGED reported
            \/ /\ queue' = [queue EXCEPT ![p] = @ \ {e}]
               /\ reported' = IF q.result = "VALID" \/ SameEntry(e, q) THEN reported
                              ELSE reported \cup {e.ticket})
    BY <1>10, <2>1 DEF TakeUpload
  <2>3. e \in queue[p] /\ e.ticket \in Tickets /\ e.at \in Times
        /\ sync[p].request \in Requests /\ q.ticket = e.ticket
    BY <1>U, <2>1, <2>2 DEF Entry
  <2>4. again.ticket = e.ticket /\ again.at = e.at
    BY DEF Entry
  <2>5. Grows /\ MarksRecorded' /\ SeenRecorded' /\ AnswersRecorded'
    BY <1>10, <1>p DEF Sync
  <2>6. \A o \in Phones : UploadMeans(o)'
    BY <1>10, <1>R, <1>s, <2>2, FreeStep DEF Sync
  \* An entry that leaves the queue is in the records, or reported
  <2>7. Rec(e.ticket, e.at) => Traced(p, e.ticket, e.at)'
    <3>1. Rec(e.ticket, e.at) => RecNext(e.ticket, e.at)
      BY <2>3, <2>5 DEF Grows
    <3> QED
      BY <2>3, <3>1, TracedNext
  <2>8. SameEntry(e, q) => Rec(e.ticket, e.at)
    BY <1>i, <2>2, <2>3 DEF SameEntry, SeenRecorded
  <2>9. q.result = "VALID" => Known(e.ticket, e.at)
    <3> SUFFICES ASSUME q.result = "VALID" PROVE Known(e.ticket, e.at)
      OBVIOUS
    <3>1. q.seenAt \in Times /\ (q.at = Never \/ q.seenAt = q.at) /\ valid[e.ticket][q.seenAt] > 0
      BY <1>a, <1>i, <2>2, <2>3 DEF TimesFit, AnswersRecorded
    <3>2. Means(q, e, now)
      BY <1>i, <2>1, <2>2 DEF UploadMeans
    <3>3. q.seenAt = e.at \/ q.seenAt - e.at > MaxAge
      BY <2>2, <2>3, <3>1, <3>2, TimesAreMarks DEF Means
    <3> QED
      BY <3>1, <3>3 DEF Known
  <2>10. q.result = "VALID" => Traced(p, e.ticket, e.at)'
    <3>1. Known(e.ticket, e.at) => Known(e.ticket, e.at)'
      BY <2>3, <2>5 DEF Known, Grows
    <3> QED
      BY <2>3, <2>9, <3>1, TracedNext
  <2> HIDE DEF again, q
  <2>11. e.ticket \in reported' \/ again \in queue'[p] \/ Traced(p, e.ticket, e.at)'
    <3>1. queue' = [queue EXCEPT ![p] = (@ \ {e}) \cup {again}] => again \in queue'[p]
      BY <1>a
    <3> QED
      BY <2>2, <2>7, <2>8, <2>10, <3>1
  <2>12. Traced(p, e.ticket, e.at)'
    <3>1. again \in queue'[p] => Queues(p, e.ticket, e.at)'
      BY <2>4 DEF Queues
    <3> QED
      BY <2>3, <2>11, <3>1, TracedNext
  <2>13. ASSUME NEW o \in Phones, NEW t \in Tickets, NEW m \in Times, Queues(o, t, m)
         PROVE  Traced(o, t, m)'
    <3>1. PICK f \in queue[o] : f.ticket = t /\ f.at = m
      BY <2>13 DEF Queues
    <3>2. o # p \/ f # e => f \in queue'[o]
      BY <1>a, <2>2, <3>1
    <3>3. f \in queue'[o] => Traced(o, t, m)'
      BY <3>1, TracedNext DEF Queues
    <3> QED
      BY <2>12, <3>1, <3>2, <3>3
  <2>14. EntriesRecorded'
    <3>1. reported \subseteq reported'
      BY <2>2
    <3> QED
      BY <1>e, <2>2, <2>5, <2>13, <3>1
  <2> QED
    BY <2>5, <2>6, <2>14 DEF RecordInv
<1>11. ASSUME NEW p \in Phones, NEW e \in queue[p], NEW r \in Requests, Upload(p, e, r)
       PROVE  RecordInv'
  <2> DEFINE x == [step |-> "wait", request |-> r, entry |-> e]
  <2>1. Send(r, e.ticket, e.at) /\ SetSync(p, x) /\ UNCHANGED <<now, entries, reported, queue>>
    BY <1>11 DEF Upload, phoneVars
  <2>2. req'[r].at = e.at
    BY <1>a, <2>1 DEF Send
  <2>3. x.request = r /\ x.entry = e
    OBVIOUS
  <2> HIDE DEF x
  <2>4. ASSUME NEW o \in Phones PROVE UploadMeans(o)'
    <3>1. CASE o = p
      BY <1>s, <2>1, <2>2, <2>3, <3>1 DEF UploadMeans, Means
    <3>2. CASE o # p
      <4>1. sync'[o] = sync[o] /\ Sync(p)
        BY <1>11, <1>s, <2>1, <3>2 DEF Sync
      <4> QED
        BY <1>r, <4>1
    <3> QED
      BY <3>1, <3>2
  <2> QED
    BY <1>11, <1>q, <2>1, <2>4 DEF Sync
<1>12. ASSUME NEW p \in Phones, UploadLost(p) \/ FetchList(p) \/ ListLost(p) \/ SaveList(p)
       PROVE  RecordInv'
  <2>1. UNCHANGED <<entries, reported, queue>>
    BY <1>12 DEF UploadLost, FetchList, ListLost, SaveList, SaveRows, phoneVars
  <2>2. \E x : x.step # "wait" /\ SetSync(p, x)
    BY <1>12, FreeStep DEF UploadLost, FetchList, ListLost, SaveList, SaveRows
  <2>3. \A o \in Phones : UploadMeans(o)'
    BY <1>12, <1>R, <1>s, <2>2 DEF Sync
  <2> QED
    BY <1>12, <1>q, <2>1, <2>3 DEF Sync
<1> QED
  BY <1>1, <1>2, <1>3, <1>4, <1>5, <1>6, <1>7, <1>8, <1>9, <1>10, <1>11, <1>12 DEF Next, Server, Sync

\* No entry goes unnoticed: once its phone has uploaded it, a person let in is in the
\* records under the time of the entry (under the time of the upload when that came too
\* late), or is being recorded, or the phone reported the entry, or a request failed
\* between the writes of the server, or the record was read before it had the time of the
\* entry (scanTicket, syncOfflineScans and the sync of the phone) - as long as the
\* organizer marks no ticket used: bulkStatusUpdate may, and nothing calls it.
THEOREM EntriesAreRecorded ==
    ASSUME "USED" \notin OrganizerActs
    PROVE  Spec => []EntriesRecorded
<1>1. Init => RecordInv
  <2> SUFFICES ASSUME Init PROVE RecordInv
    OBVIOUS
  <2>1. (\A r \in Requests : req[r].step = "free") /\ \A p \in Phones : sync[p].step = "no"
    BY FreeStep DEF Init
  <2> QED
    BY <2>1, TimesAreMarks DEF Init, RecordInv, MarksRecorded, SeenRecorded, AnswersRecorded,
       UploadMeans, EntriesRecorded
<1>2. RecordInv => EntriesRecorded
  BY DEF RecordInv
<1>3. TypeInv /\ RecordInv /\ [Next]_vars => RecordInv'
  BY StepRecordInv
<1> QED
  BY <1>1, <1>2, <1>3, InitTypeInv, StepTypeInv, PTL DEF Spec
=============================================================================
