------------------------------ MODULE Sessions ------------------------------
(***************************************************************************)
(* Signed-in sessions of one account, in src/backend/src/auth/             *)
(* auth.service.ts and its strategies, users.service.ts, and the clients   *)
(* that renew them: the tabs of a browser, which share one cookie, and     *)
(* phones, each with its own store.                                        *)
(*                                                                         *)
(* A call is one request: the server handles it in the steps its awaits    *)
(* allow, and the client may have stopped waiting for its answer.  A token *)
(* is its session and a number; its hash is the number.  Abstracted: the   *)
(* second factor, access tokens (they expire at any moment), other         *)
(* accounts of the browser, and the single slot used before sessions.      *)
(***************************************************************************)
EXTENDS Integers, FiniteSets

CONSTANTS
    Sids,          \* UserSession rows
    Tabs,          \* tabs of one browser
    Phones,        \* phones
    Browser,       \* the cookie jar the tabs share
    Calls,         \* requests under way
    MaxTokens,     \* bound on the refresh tokens made
    MaxPasswords,  \* bound on the changes of password
    None

ASSUME BoundAssumption == MaxTokens \in Nat /\ MaxPasswords \in Nat
ASSUME ClientAssumption == Tabs \cap Phones = {} /\ Browser \notin Phones
ASSUME NoneAssumption == None \notin Sids

VARIABLES
    row,       \* UserSession rows
    active,    \* User.isActive
    password,  \* which password is the current one
    purging,   \* a new password is stored, the sessions are not deleted yet
    made,      \* refresh tokens made
    jar,       \* the refresh token each browser or phone stores
    view,      \* what each tab or phone shows, and the session of its access token
    call,      \* the requests
    missed     \* auxiliary: stores that missed an answer, or whose renewals raced

vars == <<row, active, password, purging, made, jar, view, call, missed>>
account == <<active, password, purging>>

Clients == Tabs \cup Phones
JarOf(c) == IF c \in Tabs THEN Browser ELSE c
NoToken == [sid |-> None, n |-> 0]
Tokens == [sid : Sids, n : 1..MaxTokens]
Out == [at |-> "out", sid |-> None]
Idle == [at |-> "idle"]

\* A row; "spared" (auxiliary): a change of password could not end it
Row(state, pw, spared) ==
    [state |-> state, hash |-> 0, fresh |-> FALSE, password |-> pw, spared |-> spared]

(***************************************************************************)
(* Type invariant.                                                         *)
(***************************************************************************)
TypeOK ==
    /\ row \in [Sids -> [state : {"none", "live", "gone"}, hash : 0..MaxTokens,
                         fresh : BOOLEAN, password : 0..MaxPasswords, spared : BOOLEAN]]
    /\ active \in BOOLEAN /\ purging \in BOOLEAN
    /\ password \in 0..MaxPasswords /\ made \in 0..MaxTokens
    /\ jar \in [{Browser} \cup Phones -> Tokens \cup {NoToken}]
    /\ view \in [Clients -> [at : {"out", "expelled", "in"}, sid : Sids \cup {None}]]
    /\ missed \subseteq {Browser} \cup Phones
    /\ \A r \in Calls : LET k == call[r] IN
         \/ k = Idle
         \/ /\ k.at \in {"create", "check", "rotate", "answer", "refuse", "end", "ended"}
            /\ k.kind \in {"login", "renew", "load", "again", "logout", "left"}
            /\ k.client \in Clients
            /\ k.token \in Tokens \cup {NoToken} \cup [sid : Sids, n : {0}]
            /\ k.password \in 0..MaxPasswords /\ k.seen \in 0..MaxTokens
            /\ k.why \in {"", "older", "ended"}

Init ==
    /\ row = [s \in Sids |-> Row("none", 0, FALSE)]
    /\ active = TRUE /\ password = 0 /\ purging = FALSE /\ made = 0
    /\ jar = [j \in {Browser} \cup Phones |-> NoToken]
    /\ view = [c \in Clients |-> Out]
    /\ call = [r \in Calls |-> Idle]
    /\ missed = {}

Live(s) == row[s].state = "live"
At(r, step) == call[r].at = step
Goto(r, step) == call' = [call EXCEPT ![r] = step]
Show(c, v) == view' = [view EXCEPT ![c] = v]
Store(c, t) == jar' = [jar EXCEPT ![JarOf(c)] = t]
\* A call whose client has left is handled all the same
Awaited(r) == call[r] # Idle /\ call[r].kind # "left"
Waiting(c) == \E r \in Calls : Awaited(r) /\ call[r].client = c

\* The token is the last one made for a session that is alive and not expired
Current(t) ==
    /\ t # NoToken /\ Live(t.sid)
    /\ row[t.sid].fresh /\ row[t.sid].hash = t.n

(***************************************************************************)
(* Clients: a person signs in, a page loads, a request meets an expired    *)
(* access token, a person signs out.                                       *)
(***************************************************************************)
Send(r, c, kind, at, token) ==
    /\ At(r, "idle")
    /\ Goto(r, [at |-> at, kind |-> kind, client |-> c, token |-> token,
                password |-> IF kind = "login" THEN password ELSE 0, seen |-> 0, why |-> ""])

\* login up to startSession: the person is known by the password read here
SignIn(r, c) ==
    /\ view[c].at \in {"out", "expelled"} /\ ~Waiting(c) /\ active
    /\ Send(r, c, "login", "create", NoToken)
    /\ UNCHANGED <<row, made, jar, view, missed, account>>

\* One renewal at a time per tab or phone; the other requests wait for it
Renew(r, c) ==
    /\ view[c].at = "in" /\ ~Waiting(c)
    /\ Send(r, c, "renew", "check", jar[JarOf(c)])
    /\ UNCHANGED <<row, made, jar, view, missed, account>>

\* silentRefresh; a request still awaited by the page is abandoned with it
LoadPage(r, c) ==
    /\ c \in Tabs
    /\ At(r, "idle")
    /\ call' = [q \in Calls |->
                  IF q = r THEN [at |-> "check", kind |-> "load", client |-> c,
                                 token |-> jar[Browser], password |-> 0, seen |-> 0, why |-> ""]
                  ELSE IF Awaited(q) /\ call[q].client = c
                       THEN [call[q] EXCEPT !.kind = "left"] ELSE call[q]]
    /\ missed' = IF Waiting(c) THEN missed \cup {Browser} ELSE missed
    /\ Show(c, Out)
    /\ UNCHANGED <<row, made, jar, account>>

SignOut(r, c) ==
    /\ view[c].at = "in" /\ ~Waiting(c)
    /\ Send(r, c, "logout", "end", [sid |-> view[c].sid, n |-> 0])
    /\ UNCHANGED <<row, made, jar, view, missed, account>>

(***************************************************************************)
(* The server.                                                             *)
(***************************************************************************)
\* startSession: the row exists, expired and without a token
CreateSession(r, s) ==
    /\ At(r, "create") /\ row[s].state = "none"
    /\ row' = [row EXCEPT ![s] = Row("live", call[r].password, call[r].password # password)]
    /\ Goto(r, [call[r] EXCEPT !.at = "rotate", !.token = [sid |-> s, n |-> 0], !.password = 0])
    /\ UNCHANGED <<made, jar, view, missed, account>>

\* Mutant: any token of the session is accepted
AcceptAnyToken(r) ==
    LET t == call[r].token IN
    /\ At(r, "check")
    /\ Goto(r, IF active /\ t # NoToken /\ Live(t.sid) /\ row[t.sid].fresh
               THEN [call[r] EXCEPT !.at = "rotate", !.seen = row[t.sid].hash]
               ELSE [call[r] EXCEPT !.at = "refuse", !.why = "ended"])
    /\ UNCHANGED <<row, made, jar, view, missed, account>>

\* JwtRefreshStrategy.validate: refused, an older token ends nothing
CheckToken(r) ==
    LET t == call[r].token IN
    /\ At(r, "check")
    /\ \/ /\ active /\ Current(t)
          /\ Goto(r, [call[r] EXCEPT !.at = "rotate", !.seen = t.n])
       \/ /\ ~(active /\ Current(t))
          /\ Goto(r, [call[r] EXCEPT !.at = "refuse",
                      !.why = IF active /\ t # NoToken /\ Live(t.sid) /\ row[t.sid].fresh
                              THEN "older" ELSE "ended"])
    /\ UNCHANGED <<row, made, jar, view, missed, account>>

\* Mutant: the row is created again when it is not there any more
UpsertSession(r) ==
    LET s == call[r].token.sid IN
    /\ At(r, "rotate") /\ made < MaxTokens
    /\ made' = made + 1
    /\ row' = [row EXCEPT ![s].state = "live", ![s].hash = made + 1, ![s].fresh = TRUE]
    /\ Goto(r, [call[r] EXCEPT !.at = "answer", !.token.n = made + 1])
    /\ UNCHANGED <<jar, view, missed, account>>

\* rotateSession: the update throws when the row is gone
RotateSession(r) ==
    LET s == call[r].token.sid IN
    /\ At(r, "rotate")
    /\ \/ /\ Live(s) /\ made < MaxTokens
          /\ made' = made + 1
          /\ row' = [row EXCEPT ![s].hash = made + 1, ![s].fresh = TRUE]
          /\ missed' = IF row[s].hash # call[r].seen
                       THEN missed \cup {JarOf(call[r].client)} ELSE missed
          /\ Goto(r, [call[r] EXCEPT !.at = "answer", !.token.n = made + 1, !.seen = 0])
       \/ /\ ~Live(s)
          /\ Goto(r, [call[r] EXCEPT !.at = "refuse", !.why = "ended"])
          /\ UNCHANGED <<row, made, missed>>
    /\ UNCHANGED <<jar, view, account>>

Delete(which) ==
    row' = [s \in Sids |-> IF Live(s) /\ s \in which THEN Row("gone", 0, FALSE) ELSE row[s]]

\* logout: only this device's session ends
EndSession(r) ==
    /\ At(r, "end")
    /\ Delete({call[r].token.sid})
    /\ Goto(r, [call[r] EXCEPT !.at = "ended"])
    /\ UNCHANGED <<made, jar, view, missed, account>>

(***************************************************************************)
(* Answers.                                                                *)
(***************************************************************************)
\* The browser stores the cookie even when the page that asked is gone
Signed(r) ==
    LET c == call[r].client IN
    /\ At(r, "answer")
    /\ IF Awaited(r) \/ c \in Tabs THEN Store(c, call[r].token) ELSE UNCHANGED jar
    /\ IF Awaited(r) THEN Show(c, [at |-> "in", sid |-> call[r].token.sid])
                          ELSE UNCHANGED view
    /\ Goto(r, Idle)
    /\ UNCHANGED <<row, made, missed, account>>

\* Mutant: the token is emptied instead of removed
EmptiedToken(r) ==
    /\ At(r, "ended")
    /\ Store(call[r].client, call[r].token)
    /\ Goto(r, Idle)
    /\ UNCHANGED <<row, made, view, missed, account>>

SignedOut(r) ==
    LET c == call[r].client IN
    /\ At(r, "ended")
    /\ IF Awaited(r) \/ c \in Tabs THEN Store(c, NoToken) ELSE UNCHANGED jar
    /\ IF Awaited(r) THEN Show(c, Out) ELSE UNCHANGED view
    /\ Goto(r, Idle)
    /\ UNCHANGED <<row, made, missed, account>>

\* A failed call: the client goes to its sign-in page, a phone forgets its token
LeaveToSignIn(c, kind, v) ==
    /\ Show(c, v)
    /\ IF c \in Phones /\ kind \in {"renew", "logout"} THEN Store(c, NoToken) ELSE UNCHANGED jar

\* A page that loads looks for a session still current before it gives up
Refused(r) ==
    LET c == call[r].client IN
    /\ At(r, "refuse")
    /\ IF Awaited(r) /\ call[r].kind = "load" /\ active /\ Current(jar[Browser])
       THEN /\ Goto(r, [call[r] EXCEPT !.at = "check", !.kind = "again",
                                       !.token = jar[Browser], !.why = ""])
            /\ UNCHANGED <<jar, view>>
       ELSE /\ Goto(r, Idle)
            /\ IF Awaited(r)
               THEN LeaveToSignIn(c, call[r].kind,
                      IF call[r].why = "older" /\ call[r].kind = "renew"
                      THEN [at |-> "expelled", sid |-> None] ELSE Out)
               ELSE UNCHANGED <<jar, view>>
    /\ UNCHANGED <<row, made, missed, account>>

\* The client stops waiting: no network, no answer in time, or the answer is lost
GiveUp(r) ==
    LET c == call[r].client IN
    /\ Awaited(r)
    /\ Goto(r, IF At(r, "refuse") THEN Idle ELSE [call[r] EXCEPT !.kind = "left"])
    /\ LeaveToSignIn(c, call[r].kind, Out)
    /\ missed' = missed \cup {JarOf(c)}
    /\ UNCHANGED <<row, made, account>>

\* Nobody waits for the answer and it reaches no browser, or the process dies
Vanish(r) ==
    /\ call[r] # Idle /\ ~Awaited(r)
    /\ Goto(r, Idle)
    /\ UNCHANGED <<row, made, jar, view, missed, account>>

(***************************************************************************)
(* The account: a new password, deactivation, closing, the passing of time.*)
(***************************************************************************)
\* changePassword and resetPassword
ChangePassword ==
    /\ password < MaxPasswords /\ ~purging
    /\ password' = password + 1 /\ purging' = TRUE
    /\ UNCHANGED <<row, active, made, jar, view, call, missed>>

\* Mutant: the sessions that have expired are left to the nightly job
DeleteUnexpired ==
    /\ purging /\ purging' = FALSE
    /\ Delete({s \in Sids : row[s].fresh})
    /\ UNCHANGED <<active, password, made, jar, view, call, missed>>

DeleteSessions ==
    /\ purging /\ purging' = FALSE
    /\ Delete(Sids)
    /\ UNCHANGED <<active, password, made, jar, view, call, missed>>

\* The process dies between the new password and the sessions
DeletionDies ==
    /\ purging /\ purging' = FALSE
    /\ row' = [s \in Sids |-> [row[s] EXCEPT !.spared = Live(s)]]
    /\ UNCHANGED <<active, password, made, jar, view, call, missed>>

\* deactivateAccount and activateUser leave the sessions as they are
SetActive ==
    /\ active' = ~active
    /\ UNCHANGED <<row, password, purging, made, jar, view, call, missed>>

\* anonymizeAccount: one transaction
CloseAccount ==
    /\ active' = FALSE
    /\ Delete(Sids)
    /\ UNCHANGED <<password, purging, made, jar, view, call, missed>>

\* A week without a renewal
Expire(s) ==
    /\ Live(s) /\ row[s].fresh
    /\ \A r \in Calls : call[r] # Idle => call[r].token.sid # s
    /\ row' = [row EXCEPT ![s].fresh = FALSE]
    /\ UNCHANGED <<made, jar, view, call, missed, account>>

\* The nightly job; a session being created has expired as well
PurgeExpired ==
    /\ \E s \in Sids : Live(s) /\ ~row[s].fresh
    /\ Delete({s \in Sids : ~row[s].fresh})
    /\ UNCHANGED <<made, jar, view, call, missed, account>>

Handle(r) ==
    \/ \E s \in Sids : CreateSession(r, s)
    \/ CheckToken(r) \/ RotateSession(r) \/ EndSession(r)
    \/ Signed(r) \/ SignedOut(r) \/ Refused(r) \/ GiveUp(r) \/ Vanish(r)

Next ==
    \/ \E r \in Calls, c \in Clients :
         SignIn(r, c) \/ Renew(r, c) \/ LoadPage(r, c) \/ SignOut(r, c)
    \/ \E r \in Calls : Handle(r)
    \/ ChangePassword \/ DeleteSessions \/ DeletionDies
    \/ SetActive \/ CloseAccount \/ PurgeExpired
    \/ \E s \in Sids : Expire(s)

Spec == Init /\ [][Next]_vars

(***************************************************************************)
(* Properties.                                                             *)
(***************************************************************************)
\* A session that was signed out, deleted with a password or purged never
\* comes back, whatever renewal or sign-in was under way when it ended
EndedStaysEnded ==
    [][\A s \in Sids : row[s].state = "gone" => row'[s].state = "gone"]_vars

\* A change of password ends every session opened with the former one, also
\* those being opened; it misses only a sign-in that read the former password
\* and creates its row afterwards, or all of them when the process dies
SessionsFollowPassword ==
    \A s \in Sids :
        Live(s) => row[s].password = password \/ purging \/ row[s].spared

\* A browser or a phone that missed no answer, and whose renewals did not race
\* each other, holds the token its session expects or is about to receive it:
\* the other devices, sign-ins and refused tabs never make it an older one
StoredTokenIsCurrent ==
    \A j \in DOMAIN jar : LET t == jar[j] IN
        t # NoToken /\ Live(t.sid) /\ j \notin missed =>
            \/ row[t.sid].hash = t.n
            \/ \E r \in Calls : /\ At(r, "answer") /\ JarOf(call[r].client) = j
                                /\ call[r].token = [sid |-> t.sid, n |-> row[t.sid].hash]
=============================================================================
