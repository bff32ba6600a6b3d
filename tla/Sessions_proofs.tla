--------------------------- MODULE Sessions_proofs ---------------------------
(***************************************************************************)
(* Proofs about Sessions for any number of sessions, tabs, phones and      *)
(* calls, in two layers: what each call and each client holds (TypeInv),   *)
(* and where the tokens of a session may be (TokenInv), without which      *)
(* StoredTokenIsCurrent is not inductive.                                  *)
(***************************************************************************)
EXTENDS Sessions, TLAPS

-----------------------------------------------------------------------------
(***************************************************************************)
(* Layer 1: types.                                                         *)
(***************************************************************************)
Jars == {Browser} \cup Phones
HomeOf(r) == JarOf(call[r].client)
AnyToken == Tokens \cup {NoToken} \cup [sid : Sids, n : {0}]
Busy == [at : {"create", "check", "rotate", "answer", "refuse", "end", "ended"},
         kind : {"login", "renew", "load", "again", "logout", "left"},
         client : Clients, token : AnyToken, password : 0..MaxPasswords,
         seen : 0..MaxTokens, why : {"", "older", "ended"}]

\* A token is shown as it was stored, and a session named before it is renewed
TokensFit ==
    \A r \in Calls :
        /\ At(r, "check") => call[r].token \in Tokens \cup {NoToken}
        /\ At(r, "rotate") => call[r].token.sid \in Sids
        /\ At(r, "answer") => call[r].token \in Tokens

\* Who is signed in knows the session
ViewsFit == \A c \in Clients : view[c].at = "in" => view[c].sid \in Sids

AccountOK ==
    /\ row \in [Sids -> [state : {"none", "live", "gone"}, hash : 0..MaxTokens,
                         fresh : BOOLEAN, password : 0..MaxPasswords, spared : BOOLEAN]]
    /\ active \in BOOLEAN /\ purging \in BOOLEAN
    /\ password \in 0..MaxPasswords /\ made \in 0..MaxTokens

ClientsOK ==
    /\ jar \in [Jars -> Tokens \cup {NoToken}]
    /\ view \in [Clients -> [at : {"out", "expelled", "in"}, sid : Sids \cup {None}]]
    /\ missed \subseteq Jars
    /\ ViewsFit

CallsOK == call \in [Calls -> {Idle} \cup Busy] /\ TokensFit

TypeInv == AccountOK /\ ClientsOK /\ CallsOK

LEMMA TypeInvImplies == TypeInv => TypeOK
<1> SUFFICES ASSUME TypeInv PROVE TypeOK
  OBVIOUS
<1>1. \A r \in Calls : LET k == call[r] IN
         \/ k = Idle
         \/ /\ k.at \in {"create", "check", "rotate", "answer", "refuse", "end", "ended"}
            /\ k.kind \in {"login", "renew", "load", "again", "logout", "left"}
            /\ k.client \in Clients
            /\ k.token \in Tokens \cup {NoToken} \cup [sid : Sids, n : {0}]
            /\ k.password \in 0..MaxPasswords /\ k.seen \in 0..MaxTokens
            /\ k.why \in {"", "older", "ended"}
  BY DEF TypeInv, CallsOK, Busy, AnyToken
<1> QED
  BY <1>1 DEF TypeInv, AccountOK, ClientsOK, Jars, TypeOK

\* Each client has a place for its token.
LEMMA JarOfClient == \A c \in Clients : JarOf(c) \in Jars
  BY DEF Clients, JarOf, Jars

LEMMA InitTypeInv == Init => TypeInv
<1> SUFFICES ASSUME Init PROVE TypeInv
  OBVIOUS
<1>1. AccountOK
  <2>1. 0 \in 0..MaxPasswords /\ 0 \in 0..MaxTokens
    BY BoundAssumption
  <2>2. Row("none", 0, FALSE) \in [state : {"none", "live", "gone"}, hash : 0..MaxTokens,
                                   fresh : BOOLEAN, password : 0..MaxPasswords, spared : BOOLEAN]
    BY <2>1 DEF Row
  <2> QED
    BY <2>1, <2>2 DEF Init, AccountOK
<1>2. ClientsOK
  BY DEF Init, ClientsOK, ViewsFit, Out, Jars
<1>3. CallsOK
  BY DEF Init, CallsOK, TokensFit, Idle, At
<1> QED
  BY <1>1, <1>2, <1>3 DEF TypeInv

LEMMA StepTypeInv == TypeInv /\ [Next]_vars => TypeInv'
<1> SUFFICES ASSUME TypeInv, [Next]_vars PROVE TypeInv'
  OBVIOUS
<1>a. AccountOK /\ ClientsOK /\ CallsOK
  BY DEF TypeInv
<1>b. ASSUME NEW r \in Calls, call[r] # Idle
      PROVE  call[r] \in Busy /\ call[r].client \in Clients /\ HomeOf(r) \in Jars
  BY <1>a, <1>b, JarOfClient DEF CallsOK, Busy, HomeOf
<1>z. 0 \in 0..MaxPasswords /\ 0 \in 0..MaxTokens
  BY BoundAssumption
<1>i. \A r \in Calls, step \in {"create", "check", "rotate", "answer", "refuse", "end", "ended"} :
         At(r, step) => call[r] # Idle
  BY DEF At, Idle
\* A call goes on, or starts
<1>g. ASSUME NEW r \in Calls, NEW k \in {Idle} \cup Busy, Goto(r, k),
             k.at = "check" => k.token \in Tokens \cup {NoToken},
             k.at = "rotate" => k.token.sid \in Sids,
             k.at = "answer" => k.token \in Tokens
      PROVE  CallsOK'
  BY <1>a, <1>g DEF CallsOK, TokensFit, At, Goto
<1>c. UNCHANGED call => CallsOK'
  BY <1>a DEF CallsOK, TokensFit, At
<1>e. UNCHANGED <<row, made, account>> => AccountOK'
  BY <1>a DEF AccountOK, account
<1>v. UNCHANGED <<jar, view, missed>> => ClientsOK'
  BY <1>a DEF ClientsOK, ViewsFit
<1>d. ASSUME NEW which, Delete(which), UNCHANGED <<purging, password, made>>, active' \in BOOLEAN
      PROVE  AccountOK'
  BY <1>a, <1>d, BoundAssumption DEF AccountOK, Delete, Row
\* What a client shows and stores
<1>s. ASSUME NEW c \in Clients, NEW v \in [at : {"out", "expelled", "in"}, sid : Sids \cup {None}],
             v.at = "in" => v.sid \in Sids, NEW t \in Tokens \cup {NoToken},
             UNCHANGED jar \/ Store(c, t), UNCHANGED view \/ Show(c, v), missed' \subseteq Jars
      PROVE  ClientsOK'
  BY <1>a, <1>s, JarOfClient DEF ClientsOK, ViewsFit, Store, Show
<1>n. NoToken \in AnyToken /\ Idle.at = "idle"
  BY DEF AnyToken, Idle
\* A client sends a call
<1>f. ASSUME NEW r \in Calls, NEW c \in Clients,
             NEW kind \in {"login", "renew", "load", "logout"}, NEW at \in {"create", "check", "end"},
             NEW t \in AnyToken, at = "check" => t \in Tokens \cup {NoToken}, Send(r, c, kind, at, t)
      PROVE  CallsOK'
  <2> DEFINE k == [at |-> at, kind |-> kind, client |-> c, token |-> t,
                   password |-> IF kind = "login" THEN password ELSE 0, seen |-> 0, why |-> ""]
  <2>1. (IF kind = "login" THEN password ELSE 0) \in 0..MaxPasswords
    BY <1>a, <1>z DEF AccountOK
  <2>2. k \in Busy /\ Goto(r, k)
    BY <1>f, <1>z, <2>1 DEF Busy, Send
  <2> QED
    BY <1>f, <1>g, <2>2
<1>1. ASSUME NEW r \in Calls, NEW c \in Clients, SignIn(r, c) PROVE TypeInv'
  BY <1>1, <1>e, <1>v, <1>f, <1>n DEF SignIn, TypeInv
<1>2. ASSUME NEW r \in Calls, NEW c \in Clients, Renew(r, c) PROVE TypeInv'
  <2>1. jar[JarOf(c)] \in Tokens \cup {NoToken} /\ jar[JarOf(c)] \in AnyToken
    BY <1>a, JarOfClient DEF ClientsOK, AnyToken
  <2> QED
    BY <1>2, <1>e, <1>v, <1>f, <2>1 DEF Renew, TypeInv
<1>3. ASSUME NEW r \in Calls, NEW c \in Clients, LoadPage(r, c) PROVE TypeInv'
  <2> DEFINE k == [at |-> "check", kind |-> "load", client |-> c, token |-> jar[Browser],
                   password |-> 0, seen |-> 0, why |-> ""]
  <2>1. jar[Browser] \in Tokens \cup {NoToken} /\ k \in Busy
    BY <1>a, BoundAssumption DEF ClientsOK, AnyToken, Jars, Busy
  <2>2. ASSUME NEW q \in Calls, q # r, Awaited(q)
        PROVE  LET m == [call[q] EXCEPT !.kind = "left"] IN
               m \in Busy /\ m.at = call[q].at /\ m.token = call[q].token
    BY <1>b, <2>2 DEF Awaited, Busy
  <2>3. \A q \in Calls :
           \/ q = r /\ call'[q] = k
           \/ q # r /\ Awaited(q) /\ call'[q] = [call[q] EXCEPT !.kind = "left"]
           \/ q # r /\ call'[q] = call[q]
    BY <1>3 DEF LoadPage
  <2>4. call' = [q \in Calls |-> call'[q]]
    BY <1>3 DEF LoadPage
  <2>5. ASSUME NEW q \in Calls
        PROVE  /\ call'[q] \in {Idle} \cup Busy
               /\ call'[q].at = "check" => call'[q].token \in Tokens \cup {NoToken}
               /\ call'[q].at = "rotate" => call'[q].token.sid \in Sids
               /\ call'[q].at = "answer" => call'[q].token \in Tokens
    <3>1. CASE q = r /\ call'[q] = k
      <4>1. k.at = "check" /\ k.token = jar[Browser]
        OBVIOUS
      <4> HIDE DEF k
      <4> QED
        BY <2>1, <3>1, <4>1
    <3>2. CASE q # r /\ Awaited(q) /\ call'[q] = [call[q] EXCEPT !.kind = "left"]
      BY <1>a, <2>2, <3>2 DEF CallsOK, TokensFit, At
    <3>3. CASE call'[q] = call[q]
      BY <1>a, <3>3 DEF CallsOK, TokensFit, At
    <3> QED
      BY <2>3, <3>1, <3>2, <3>3
  <2>6. CallsOK'
    BY <2>4, <2>5 DEF CallsOK, TokensFit, At
  <2>7. ClientsOK'
    <3>1. Out \in [at : {"out", "expelled", "in"}, sid : Sids \cup {None}] /\ Out.at # "in"
      BY DEF Out
    <3>2. missed' \subseteq Jars
      BY <1>3, <1>a DEF LoadPage, ClientsOK, Jars
    <3>3. UNCHANGED jar /\ Show(c, Out)
      BY <1>3 DEF LoadPage
    <3> QED
      BY <1>s, <3>1, <3>2, <3>3
  <2> QED
    BY <1>3, <1>e, <2>6, <2>7 DEF LoadPage, TypeInv
<1>4. ASSUME NEW r \in Calls, NEW c \in Clients, SignOut(r, c) PROVE TypeInv'
  <2>1. [sid |-> view[c].sid, n |-> 0] \in AnyToken
    BY <1>a, <1>4 DEF ClientsOK, ViewsFit, AnyToken, SignOut
  <2> QED
    BY <1>4, <1>e, <1>v, <1>f, <2>1 DEF SignOut, TypeInv
<1>5. ASSUME NEW r \in Calls, NEW s \in Sids, CreateSession(r, s) PROVE TypeInv'
  <2> DEFINE k == [call[r] EXCEPT !.at = "rotate", !.token = [sid |-> s, n |-> 0], !.password = 0]
  <2>1. call[r] \in Busy
    BY <1>5, <1>b, <1>i DEF CreateSession
  <2>2. k \in Busy /\ k.at = "rotate" /\ k.token.sid = s
    <3>1. [sid |-> s, n |-> 0] \in AnyToken
      BY DEF AnyToken
    <3> QED
      BY <1>z, <2>1, <3>1 DEF Busy
  <2>3. AccountOK'
    <3>1. call[r].password \in 0..MaxPasswords
      BY <2>1 DEF Busy
    <3>2. \A spared \in BOOLEAN : Row("live", call[r].password, spared)
            \in [state : {"none", "live", "gone"}, hash : 0..MaxTokens,
                 fresh : BOOLEAN, password : 0..MaxPasswords, spared : BOOLEAN]
      BY <1>z, <3>1 DEF Row
    <3> QED
      BY <1>5, <1>a, <3>2 DEF CreateSession, AccountOK, account
  <2> QED
    BY <1>5, <1>g, <1>v, <2>2, <2>3 DEF CreateSession, TypeInv
<1>6. ASSUME NEW r \in Calls, CheckToken(r) PROVE TypeInv'
  <2> DEFINE t == call[r].token
  <2>1. call[r] \in Busy /\ t \in Tokens \cup {NoToken}
    BY <1>6, <1>a, <1>b, <1>i DEF CheckToken, CallsOK, TokensFit
  <2>2. CASE Current(t) /\ Goto(r, [call[r] EXCEPT !.at = "rotate", !.seen = t.n])
    <3> DEFINE k == [call[r] EXCEPT !.at = "rotate", !.seen = t.n]
    <3>1. t.n \in 0..MaxTokens /\ t.sid \in Sids
      BY <2>1, <2>2, BoundAssumption DEF Current, Tokens
    <3>2. k \in Busy /\ k.at = "rotate" /\ k.token = t
      BY <2>1, <3>1 DEF Busy
    <3> QED
      BY <1>6, <1>e, <1>g, <1>v, <2>2, <3>1, <3>2 DEF CheckToken, TypeInv
  <2>3. CASE \E why \in {"older", "ended"} :
               Goto(r, [call[r] EXCEPT !.at = "refuse", !.why = why])
    <3>1. PICK why \in {"older", "ended"} : Goto(r, [call[r] EXCEPT !.at = "refuse", !.why = why])
      BY <2>3
    <3> DEFINE k == [call[r] EXCEPT !.at = "refuse", !.why = why]
    <3>2. k \in Busy /\ k.at = "refuse"
      BY <2>1 DEF Busy
    <3> QED
      BY <1>6, <1>e, <1>g, <1>v, <3>1, <3>2 DEF CheckToken, TypeInv
  <2> QED
    BY <1>6, <2>2, <2>3 DEF CheckToken
<1>7. ASSUME NEW r \in Calls, RotateSession(r) PROVE TypeInv'
  <2> DEFINE s == call[r].token.sid
  <2>1. call[r] \in Busy /\ s \in Sids /\ HomeOf(r) \in Jars
    BY <1>7, <1>a, <1>b, <1>i DEF RotateSession, CallsOK, TokensFit
  <2>2. CASE Live(s) /\ made < MaxTokens
    <3> DEFINE k == [call[r] EXCEPT !.at = "answer", !.token.n = made + 1, !.seen = 0]
    <3>1. made + 1 \in 1..MaxTokens /\ made + 1 \in 0..MaxTokens
      BY <1>a, <2>2, BoundAssumption DEF AccountOK
    <3>2. call[r].token \in AnyToken
      BY <2>1 DEF Busy
    <3>3. [call[r].token EXCEPT !.n = made + 1] = [sid |-> s, n |-> made + 1]
      BY <3>2 DEF AnyToken, Tokens, NoToken
    <3>4. [sid |-> s, n |-> made + 1] \in Tokens
      BY <2>1, <3>1 DEF Tokens
    <3>5. k \in Busy /\ k.at = "answer" /\ k.token = [sid |-> s, n |-> made + 1]
      <4>1. k = [call[r] EXCEPT !.at = "answer", !.token = [sid |-> s, n |-> made + 1],
                                !.seen = 0]
        BY <2>1, <3>3 DEF Busy
      <4>2. [sid |-> s, n |-> made + 1] \in AnyToken
        BY <3>4 DEF AnyToken
      <4> QED
        BY <1>z, <2>1, <4>1, <4>2 DEF Busy
    <3>6. /\ Goto(r, k) /\ made' = made + 1 /\ UNCHANGED <<jar, view, account>>
          /\ row' = [row EXCEPT ![s].hash = made + 1, ![s].fresh = TRUE]
          /\ missed' \subseteq missed \cup {HomeOf(r)}
      BY <1>7, <2>2 DEF RotateSession, HomeOf
    <3>7. AccountOK'
      BY <1>a, <2>1, <3>1, <3>6 DEF AccountOK, account
    <3>8. ClientsOK'
      BY <1>a, <2>1, <3>6 DEF ClientsOK, ViewsFit
    <3> QED
      BY <1>g, <3>4, <3>5, <3>6, <3>7, <3>8 DEF TypeInv
  <2>3. CASE ~Live(s)
    <3> DEFINE k == [call[r] EXCEPT !.at = "refuse", !.why = "ended"]
    <3>1. k \in Busy /\ k.at = "refuse"
      BY <2>1 DEF Busy
    <3> QED
      BY <1>7, <1>e, <1>g, <1>v, <2>3, <3>1 DEF RotateSession, TypeInv
  <2> QED
    BY <1>7, <2>2, <2>3 DEF RotateSession
<1>8. ASSUME NEW r \in Calls, EndSession(r) PROVE TypeInv'
  <2> DEFINE k == [call[r] EXCEPT !.at = "ended"]
  <2>1. call[r] \in Busy
    BY <1>8, <1>b, <1>i DEF EndSession
  <2>2. k \in Busy /\ k.at = "ended"
    BY <2>1 DEF Busy
  <2>3. AccountOK'
    BY <1>8, <1>a, <1>d DEF EndSession, AccountOK, account
  <2> QED
    BY <1>8, <1>g, <1>v, <2>2, <2>3 DEF EndSession, TypeInv
<1>9. ASSUME NEW r \in Calls, Signed(r) PROVE TypeInv'
  <2> DEFINE c == call[r].client
             t == call[r].token
             v == [at |-> "in", sid |-> t.sid]
  <2>1. c \in Clients /\ t \in Tokens
    BY <1>9, <1>a, <1>b, <1>i DEF Signed, CallsOK, TokensFit
  <2>2. v \in [at : {"out", "expelled", "in"}, sid : Sids \cup {None}] /\ v.sid \in Sids
    BY <2>1 DEF Tokens
  <2>3. UNCHANGED jar \/ Store(c, t)
    BY <1>9 DEF Signed
  <2>4. UNCHANGED view \/ Show(c, v)
    BY <1>9 DEF Signed
  <2>5. missed' \subseteq Jars
    BY <1>9, <1>a DEF Signed, ClientsOK
  <2>6. ClientsOK'
    BY <1>s, <2>1, <2>2, <2>3, <2>4, <2>5
  <2> QED
    BY <1>9, <1>e, <1>g, <1>n, <2>6 DEF Signed, TypeInv
<1>o. Out \in [at : {"out", "expelled", "in"}, sid : Sids \cup {None}] /\ Out.at # "in"
  BY DEF Out
<1>10. ASSUME NEW r \in Calls, SignedOut(r) PROVE TypeInv'
  <2> DEFINE c == call[r].client
  <2>1. c \in Clients
    BY <1>10, <1>b, <1>i DEF SignedOut
  <2>2. /\ UNCHANGED jar \/ Store(c, NoToken)
        /\ UNCHANGED view \/ Show(c, Out)
    BY <1>10 DEF SignedOut
  <2>3. missed' \subseteq Jars
    BY <1>10, <1>a DEF SignedOut, ClientsOK
  <2>4. ClientsOK'
    BY <1>s, <1>o, <2>1, <2>2, <2>3
  <2> QED
    BY <1>10, <1>e, <1>g, <1>n, <2>4 DEF SignedOut, TypeInv
<1>11. ASSUME NEW r \in Calls, Refused(r) PROVE TypeInv'
  <2> DEFINE c == call[r].client
             k == [call[r] EXCEPT !.at = "check", !.kind = "again",
                                  !.token = jar[Browser], !.why = ""]
             e == [at |-> "expelled", sid |-> None]
  <2>1. call[r] \in Busy /\ c \in Clients
    BY <1>11, <1>b, <1>i DEF Refused
  <2>2. CASE Goto(r, k) /\ UNCHANGED <<jar, view>>
    <3>1. jar[Browser] \in Tokens \cup {NoToken}
      BY <1>a DEF ClientsOK, Jars
    <3>2. k \in Busy /\ k.at = "check" /\ k.token = jar[Browser]
      BY <2>1, <3>1 DEF Busy, AnyToken
    <3> QED
      BY <1>11, <1>e, <1>g, <1>v, <2>2, <3>1, <3>2 DEF Refused, TypeInv
  <2>3. CASE Goto(r, Idle) /\ (UNCHANGED <<jar, view>> \/
                               \E v \in {Out, e} : LeaveToSignIn(c, call[r].kind, v))
    <3>1. \/ UNCHANGED <<jar, view>>
          \/ \E v \in {Out, e} : Show(c, v) /\ (UNCHANGED jar \/ Store(c, NoToken))
      BY <2>3 DEF LeaveToSignIn
    <3>2. missed' \subseteq Jars /\ UNCHANGED missed
      BY <1>11, <1>a DEF Refused, ClientsOK
    <3>3. e \in [at : {"out", "expelled", "in"}, sid : Sids \cup {None}] /\ e.at # "in"
      OBVIOUS
    <3>4. ClientsOK'
      BY <1>s, <1>o, <1>v, <2>1, <3>1, <3>2, <3>3
    <3> QED
      BY <1>11, <1>e, <1>g, <1>n, <2>3, <3>4 DEF Refused, TypeInv
  <2> QED
    BY <1>11, <2>2, <2>3 DEF Refused
<1>12. ASSUME NEW r \in Calls, GiveUp(r) PROVE TypeInv'
  <2> DEFINE c == call[r].client
             k == [call[r] EXCEPT !.kind = "left"]
  <2>1. call[r] \in Busy /\ c \in Clients /\ HomeOf(r) \in Jars
    BY <1>12, <1>b DEF GiveUp, Awaited
  <2>2. k \in Busy /\ k.at = call[r].at /\ k.token = call[r].token
    BY <2>1 DEF Busy
  <2>3. CallsOK'
    <3>1. CASE Goto(r, Idle)
      BY <1>g, <1>n, <3>1
    <3>2. CASE Goto(r, k)
      BY <1>a, <1>g, <2>2, <3>2 DEF CallsOK, TokensFit, At
    <3> QED
      BY <1>12, <3>1, <3>2 DEF GiveUp
  <2>4. Show(c, Out) /\ (UNCHANGED jar \/ Store(c, NoToken))
    BY <1>12 DEF GiveUp, LeaveToSignIn
  <2>5. missed' \subseteq Jars
    BY <1>12, <1>a, <2>1 DEF GiveUp, ClientsOK, HomeOf
  <2>6. ClientsOK'
    BY <1>s, <1>o, <2>1, <2>4, <2>5
  <2> QED
    BY <1>12, <1>e, <2>3, <2>6 DEF GiveUp, TypeInv
<1>13. ASSUME NEW r \in Calls, Vanish(r) PROVE TypeInv'
  BY <1>13, <1>e, <1>g, <1>n, <1>v DEF Vanish, TypeInv
<1>14. ASSUME ChangePassword PROVE TypeInv'
  <2>1. AccountOK'
    BY <1>14, <1>a, BoundAssumption DEF ChangePassword, AccountOK
  <2> QED
    BY <1>14, <1>c, <1>v, <2>1 DEF ChangePassword, TypeInv
<1>15. ASSUME DeleteSessions PROVE TypeInv'
  <2>1. AccountOK'
    <3>1. Row("gone", 0, FALSE)
            \in [state : {"none", "live", "gone"}, hash : 0..MaxTokens,
                 fresh : BOOLEAN, password : 0..MaxPasswords, spared : BOOLEAN]
      BY <1>z DEF Row
    <3> QED
      BY <1>15, <1>a, <3>1 DEF DeleteSessions, AccountOK, Delete
  <2> QED
    BY <1>15, <1>c, <1>v, <2>1 DEF DeleteSessions, TypeInv
<1>16. ASSUME DeletionDies PROVE TypeInv'
  <2>1. AccountOK'
    BY <1>16, <1>a DEF DeletionDies, AccountOK, Live
  <2> QED
    BY <1>16, <1>c, <1>v, <2>1 DEF DeletionDies, TypeInv
<1>17. ASSUME SetActive PROVE TypeInv'
  <2>1. AccountOK'
    BY <1>17, <1>a DEF SetActive, AccountOK
  <2> QED
    BY <1>17, <1>c, <1>v, <2>1 DEF SetActive, TypeInv
<1>18. ASSUME CloseAccount PROVE TypeInv'
  BY <1>18, <1>c, <1>d, <1>v DEF CloseAccount, TypeInv
<1>19. ASSUME PurgeExpired PROVE TypeInv'
  <2>1. AccountOK'
    BY <1>19, <1>a, <1>d DEF PurgeExpired, AccountOK, account
  <2> QED
    BY <1>19, <1>c, <1>v, <2>1 DEF PurgeExpired, TypeInv
<1>20. ASSUME NEW s \in Sids, Expire(s) PROVE TypeInv'
  <2>1. AccountOK'
    BY <1>20, <1>a DEF Expire, AccountOK, account
  <2> QED
    BY <1>20, <1>c, <1>v, <2>1 DEF Expire, TypeInv
<1>21. CASE UNCHANGED vars
  BY <1>21, <1>c, <1>e, <1>v DEF vars, account, TypeInv
<1> QED
  BY <1>1, <1>2, <1>3, <1>4, <1>5, <1>6, <1>7, <1>8, <1>9, <1>10, <1>11, <1>12, <1>13,
     <1>14, <1>15, <1>16, <1>17, <1>18, <1>19, <1>20, <1>21
  DEF Next, Handle

\* The sessions, the clients and the calls have their types in every reachable
\* state, whatever the numbers of tabs, phones and calls under way.
THEOREM TypeCorrect == Spec => []TypeOK
<1>1. Spec => []TypeInv
  BY InitTypeInv, StepTypeInv, PTL DEF Spec
<1> QED
  BY <1>1, TypeInvImplies, PTL

-----------------------------------------------------------------------------
(***************************************************************************)
(* The rows alone.                                                         *)
(***************************************************************************)
\* Signed out, deleted or purged, a session never comes back: every write that
\* makes a row live finds it live or new, in one step with it.
THEOREM GoneForGood == Spec => EndedStaysEnded
<1>1. AccountOK /\ [Next]_vars =>
        [\A s \in Sids : row[s].state = "gone" => row'[s].state = "gone"]_vars
  <2> SUFFICES ASSUME AccountOK, Next, NEW s \in Sids, row[s].state = "gone"
               PROVE  row'[s].state = "gone"
    OBVIOUS
  <2>1. ASSUME NEW r \in Calls, Handle(r) PROVE row'[s].state = "gone"
    <3>1. ASSUME NEW q \in Sids, CreateSession(r, q) PROVE row'[s].state = "gone"
      BY <3>1 DEF CreateSession, AccountOK, Row
    <3>2. CASE RotateSession(r)
      BY <3>2 DEF RotateSession, AccountOK, Live
    <3>3. CASE EndSession(r)
      BY <3>3 DEF EndSession, Delete, Live
    <3> QED
      BY <2>1, <3>1, <3>2, <3>3
      DEF Handle, CheckToken, Signed, SignedOut, Refused, GiveUp, Vanish
  <2>2. CASE DeleteSessions
    BY <2>2 DEF DeleteSessions, Delete, Live
  <2>3. CASE DeletionDies
    BY <2>3 DEF DeletionDies, AccountOK
  <2>4. CASE CloseAccount
    BY <2>4 DEF CloseAccount, Delete, Live
  <2>5. CASE PurgeExpired
    BY <2>5 DEF PurgeExpired, Delete, Live
  <2>6. ASSUME NEW q \in Sids, Expire(q) PROVE row'[s].state = "gone"
    BY <2>6 DEF Expire, AccountOK
  <2> QED
    BY <2>1, <2>2, <2>3, <2>4, <2>5, <2>6
    DEF Next, SignIn, Renew, LoadPage, SignOut, ChangePassword, SetActive
<1>2. TypeInv => AccountOK
  BY DEF TypeInv
<1> QED
  BY <1>1, <1>2, InitTypeInv, StepTypeInv, PTL DEF Spec, EndedStaysEnded

LEMMA StepPassword ==
  ASSUME TypeInv, SessionsFollowPassword, [Next]_vars
  PROVE  SessionsFollowPassword'
<1>t. AccountOK
  BY DEF TypeInv
\* A step that leaves the rows, or ends some, and the passwords
<1>d. ASSUME UNCHANGED <<password, purging>>,
             \A s \in Sids : row'[s] = row[s] \/ row'[s].state # "live"
                             \/ /\ row'[s].password = row[s].password
                                /\ row'[s].spared = row[s].spared
                                /\ row[s].state = "live"
      PROVE  SessionsFollowPassword'
  BY <1>d DEF SessionsFollowPassword, Live
<1>r. UNCHANGED <<row, password, purging>> => SessionsFollowPassword'
  BY <1>d
<1>w. ASSUME NEW which, Delete(which), UNCHANGED <<password, purging>>
      PROVE  SessionsFollowPassword'
  BY <1>d, <1>w DEF Delete, Row
<1>1. ASSUME NEW r \in Calls, NEW c \in Clients,
             SignIn(r, c) \/ Renew(r, c) \/ LoadPage(r, c) \/ SignOut(r, c)
      PROVE  SessionsFollowPassword'
  BY <1>1, <1>r DEF SignIn, Renew, LoadPage, SignOut, account
<1>2. ASSUME NEW r \in Calls, Handle(r) PROVE SessionsFollowPassword'
  <2>1. ASSUME NEW s \in Sids, CreateSession(r, s) PROVE SessionsFollowPassword'
    \* The sign-in read the current password, or the row is known to be spared
    BY <1>t, <2>1 DEF CreateSession, SessionsFollowPassword, Live, Row, AccountOK, account
  <2>2. CASE RotateSession(r)
    BY <1>d, <1>t, <2>2 DEF RotateSession, Live, AccountOK, account
  <2>3. CASE EndSession(r)
    BY <1>w, <2>3 DEF EndSession, account
  <2> QED
    BY <1>2, <1>r, <2>1, <2>2, <2>3
    DEF Handle, CheckToken, Signed, SignedOut, Refused, GiveUp, Vanish, account
<1>3. CASE ChangePassword
  BY <1>3 DEF ChangePassword, SessionsFollowPassword
<1>4. CASE DeleteSessions
  BY <1>4 DEF DeleteSessions, Delete, Row, SessionsFollowPassword, Live
<1>5. CASE DeletionDies
  BY <1>5, <1>t DEF DeletionDies, SessionsFollowPassword, Live, AccountOK
<1>6. CASE SetActive
  BY <1>6, <1>r DEF SetActive
<1>7. CASE CloseAccount
  BY <1>7, <1>w DEF CloseAccount
<1>8. CASE PurgeExpired
  BY <1>8, <1>w DEF PurgeExpired, account
<1>9. ASSUME NEW s \in Sids, Expire(s) PROVE SessionsFollowPassword'
  BY <1>9, <1>d, <1>t DEF Expire, AccountOK, account, Live
<1>10. CASE UNCHANGED vars
  BY <1>10, <1>r DEF vars, account
<1> QED
  BY <1>1, <1>2, <1>3, <1>4, <1>5, <1>6, <1>7, <1>8, <1>9, <1>10 DEF Next

\* A live session was opened with the current password, unless its deletion is
\* under way or was cut short, or its sign-in read the former one.
THEOREM PasswordEndsSessions == Spec => []SessionsFollowPassword
<1>1. Init => TypeInv /\ SessionsFollowPassword
  BY InitTypeInv DEF Init, Row, SessionsFollowPassword, Live
<1>2. TypeInv /\ SessionsFollowPassword /\ [Next]_vars => (TypeInv /\ SessionsFollowPassword)'
  BY StepTypeInv, StepPassword
<1> QED
  BY <1>1, <1>2, PTL DEF Spec

-----------------------------------------------------------------------------
(***************************************************************************)
(* Layer 2: tokens.                                                        *)
(***************************************************************************)
\* The tokens met so far were made
MadeBefore ==
    /\ \A j \in Jars : jar[j].n <= made
    /\ \A r \in Calls : call[r] # Idle => call[r].token.n <= made /\ call[r].seen <= made

Carries(r, s) ==
    /\ At(r, "check") \/ At(r, "rotate") \/ At(r, "answer")
    /\ call[r].token # NoToken /\ call[r].token.sid = s
Stores(j, s) == jar[j] # NoToken /\ jar[j].sid = s

\* A session lives in one browser or phone, from its creation on
OneJar ==
    \A s \in Sids :
        /\ \A r, q \in Calls : Carries(r, s) /\ Carries(q, s) => HomeOf(r) = HomeOf(q)
        /\ \A r \in Calls, j \in Jars : Carries(r, s) /\ Stores(j, s) => HomeOf(r) = j
        /\ \A i, j \in Jars : Stores(i, s) /\ Stores(j, s) => i = j
        /\ row[s].state = "none" =>
              /\ \A r \in Calls : ~Carries(r, s)
              /\ \A j \in Jars : ~Stores(j, s)

\* A token on its way to its client is nowhere else yet
OnItsWay ==
    \A r \in Calls : At(r, "answer") => LET t == call[r].token IN
        /\ \A j \in Jars : jar[j] # t
        /\ \A q \in Calls :
              /\ At(q, "check") => call[q].token # t
              /\ At(q, "rotate") /\ call[q].token.sid = t.sid => call[q].seen # t.n
              /\ At(q, "answer") /\ call[q].token = t => q = r

\* ... and it is the one its session expects
AnswerIsCurrent ==
    \A r \in Calls :
        At(r, "answer") /\ Live(call[r].token.sid) /\ HomeOf(r) \notin missed =>
            call[r].token.n = row[call[r].token.sid].hash

\* A client that has left may have missed the answer
LeftMissed == \A r \in Calls : call[r] # Idle /\ ~Awaited(r) => HomeOf(r) \in missed

TokenInv ==
    /\ MadeBefore
    /\ OneJar
    /\ OnItsWay
    /\ AnswerIsCurrent
    /\ LeftMissed
    /\ StoredTokenIsCurrent

\* What most steps do to tokens: nothing is made, no store gets one, a call
\* drops its token or shows the stored one, and who loses an answer is known.
LEMMA TokenFrame ==
  ASSUME TypeInv, TypeInv', TokenInv, made' = made, missed \subseteq missed',
         \A s \in Sids : /\ row'[s].state = "live" => /\ row[s].state = "live"
                                                      /\ row'[s].hash = row[s].hash
                         /\ row'[s].state = "none" => row[s].state = "none",
         \A j \in Jars : jar'[j] = jar[j] \/ jar'[j] = NoToken,
         \A q \in Calls :
            \/ call'[q] = call[q]
            \/ /\ call[q] # Idle
               /\ call'[q].at = call[q].at /\ call'[q].token = call[q].token
               /\ call'[q].seen = call[q].seen /\ call'[q].client = call[q].client
               /\ call'[q].kind = call[q].kind \/ HomeOf(q) \in missed'
            \/ call'[q] = Idle
            \/ /\ call'[q].at \in {"create", "refuse", "end", "ended"}
               /\ call'[q].token.n <= made /\ call'[q].seen <= made
               /\ call'[q].kind = "left" => JarOf(call'[q].client) \in missed'
            \/ /\ call'[q].at = "check" /\ call'[q].token = jar[JarOf(call'[q].client)]
               /\ call'[q].seen <= made /\ call'[q].kind # "left",
         \A q \in Calls : At(q, "answer") /\ HomeOf(q) \notin missed' =>
            /\ call'[q].at = "answer" /\ call'[q].token = call[q].token
            /\ call'[q].client = call[q].client
  PROVE  TokenInv'
<1>t. /\ \A q \in Calls : call'[q] # Idle => call'[q].client \in Clients
      /\ \A q \in Calls : At(q, "answer") => call[q].token \in Tokens
      /\ \A j \in Jars : jar[j] \in Tokens \cup {NoToken}
      /\ DOMAIN jar = Jars /\ DOMAIN jar' = Jars
      /\ made \in Nat /\ NoToken.n = 0
  <2>1. \A q \in Calls : call'[q] # Idle => call'[q].client \in Clients
    BY DEF TypeInv, CallsOK, Busy
  <2>2. \A q \in Calls : At(q, "answer") => call[q].token \in Tokens
    BY DEF TypeInv, CallsOK, TokensFit
  <2>3. \A j \in Jars : jar[j] \in Tokens \cup {NoToken}
    BY DEF TypeInv, ClientsOK
  <2>4. DOMAIN jar = Jars /\ DOMAIN jar' = Jars
    <3>1. Jars' = Jars
      BY DEF Jars
    <3> QED
      BY <3>1 DEF TypeInv, ClientsOK
  <2>5. made \in Nat /\ NoToken.n = 0
    BY BoundAssumption DEF TypeInv, AccountOK, NoToken
  <2> QED
    BY <2>1, <2>2, <2>3, <2>4, <2>5
<1>h. \A q \in Calls : call'[q] # Idle => JarOf(call'[q].client) \in Jars
  BY <1>t, JarOfClient
\* Who carries a token did before, or has it from its store
<1>c. ASSUME NEW q \in Calls, NEW s, Carries(q, s)'
      PROVE  \/ Carries(q, s) /\ HomeOf(q)' = HomeOf(q)
             \/ HomeOf(q)' \in Jars /\ Stores(HomeOf(q)', s)
  <2>1. call'[q].at \in {"check", "rotate", "answer"} /\ call'[q].token # NoToken
        /\ call'[q].token.sid = s
    BY <1>c DEF Carries, At
  <2>2. call'[q] # Idle
    BY <2>1 DEF Idle
  <2> QED
    BY <1>h, <2>1, <2>2 DEF Carries, At, HomeOf, Stores, Idle
<1>s. ASSUME NEW j \in Jars, NEW s, Stores(j, s)' PROVE Stores(j, s)
  BY <1>s DEF Stores
<1>1. MadeBefore'
  <2>1. \A j \in Jars : jar'[j].n <= made'
    BY <1>t DEF TokenInv, MadeBefore
  <2>2. ASSUME NEW q \in Calls, call'[q] # Idle
        PROVE  call'[q].token.n <= made' /\ call'[q].seen <= made'
    BY <1>h, <2>2 DEF TokenInv, MadeBefore
  <2> QED
    BY <2>1, <2>2 DEF MadeBefore
<1>2. OneJar'
  <2> SUFFICES ASSUME NEW s \in Sids
               PROVE  (/\ \A r, q \in Calls : Carries(r, s) /\ Carries(q, s) => HomeOf(r) = HomeOf(q)
                       /\ \A r \in Calls, j \in Jars : Carries(r, s) /\ Stores(j, s) => HomeOf(r) = j
                       /\ \A i, j \in Jars : Stores(i, s) /\ Stores(j, s) => i = j
                       /\ row[s].state = "none" =>
                             /\ \A r \in Calls : ~Carries(r, s)
                             /\ \A j \in Jars : ~Stores(j, s))'
    BY DEF OneJar
  <2>1. ASSUME NEW r \in Calls, NEW q \in Calls, Carries(r, s)', Carries(q, s)'
        PROVE  HomeOf(r)' = HomeOf(q)'
    BY <1>c, <2>1 DEF TokenInv, OneJar
  <2>2. ASSUME NEW r \in Calls, NEW j \in Jars, Carries(r, s)', Stores(j, s)'
        PROVE  HomeOf(r)' = j
    BY <1>c, <1>s, <2>2 DEF TokenInv, OneJar
  <2>3. ASSUME NEW i \in Jars, NEW j \in Jars, Stores(i, s)', Stores(j, s)'
        PROVE  i = j
    BY <1>s, <2>3 DEF TokenInv, OneJar
  <2>4. ASSUME row'[s].state = "none"
        PROVE  /\ \A r \in Calls : ~Carries(r, s)'
               /\ \A j \in Jars : ~Stores(j, s)'
    BY <1>c, <1>s, <2>4 DEF TokenInv, OneJar
  <2> QED
    BY <2>1, <2>2, <2>3, <2>4 DEF Jars
\* A call with an answer had it already
<1>a. ASSUME NEW r \in Calls, call'[r].at = "answer"
      PROVE  /\ At(r, "answer") /\ call'[r].token = call[r].token
             /\ call[r] # Idle /\ call'[r].client = call[r].client
  BY <1>a DEF At, Idle
<1>3. OnItsWay'
  <2> SUFFICES ASSUME NEW r \in Calls, call'[r].at = "answer"
               PROVE  /\ \A j \in Jars : jar'[j] # call'[r].token
                      /\ \A q \in Calls :
                            /\ call'[q].at = "check" => call'[q].token # call'[r].token
                            /\ call'[q].at = "rotate" /\ call'[q].token.sid = call'[r].token.sid
                                 => call'[q].seen # call'[r].token.n
                            /\ call'[q].at = "answer" /\ call'[q].token = call'[r].token => q = r
    BY DEF OnItsWay, At
  <2>1. At(r, "answer") /\ call'[r].token = call[r].token /\ call[r].token \in Tokens
    BY <1>a, <1>t
  <2>2. call[r].token # NoToken
    BY <2>1, BoundAssumption DEF Tokens, NoToken
  <2>3. \A j \in Jars : jar'[j] # call[r].token
    BY <2>1, <2>2 DEF TokenInv, OnItsWay
  <2>4. ASSUME NEW q \in Calls, call'[q].at = "check" PROVE call'[q].token # call[r].token
    <3>1. call'[q] # Idle
      BY <2>4 DEF Idle
    <3>2. \/ At(q, "check") /\ call'[q].token = call[q].token
          \/ \E j \in Jars : call'[q].token = jar[j]
      BY <1>h, <2>4, <3>1 DEF At
    <3> QED
      BY <2>1, <3>2 DEF TokenInv, OnItsWay
  <2>5. ASSUME NEW q \in Calls, call'[q].at = "rotate", call'[q].token.sid = call[r].token.sid
        PROVE  call'[q].seen # call[r].token.n
    <3>1. At(q, "rotate") /\ call'[q].token = call[q].token /\ call'[q].seen = call[q].seen
      BY <2>5 DEF At, Idle
    <3> QED
      BY <2>1, <2>5, <3>1 DEF TokenInv, OnItsWay
  <2>6. ASSUME NEW q \in Calls, call'[q].at = "answer", call'[q].token = call[r].token
        PROVE  q = r
    BY <1>a, <2>1, <2>6 DEF TokenInv, OnItsWay
  <2> QED
    BY <2>1, <2>3, <2>4, <2>5, <2>6
<1>4. AnswerIsCurrent'
  <2> SUFFICES ASSUME NEW r \in Calls, call'[r].at = "answer",
                      row'[call'[r].token.sid].state = "live", JarOf(call'[r].client) \notin missed'
               PROVE  call'[r].token.n = row'[call'[r].token.sid].hash
    BY DEF AnswerIsCurrent, At, Live, HomeOf
  <2>1. /\ At(r, "answer") /\ call'[r].token = call[r].token /\ call[r].token.sid \in Sids
        /\ HomeOf(r) \notin missed
    BY <1>a, <1>t DEF Tokens, HomeOf
  <2> QED
    BY <2>1 DEF TokenInv, AnswerIsCurrent, Live
<1>5. LeftMissed'
  <2> SUFFICES ASSUME NEW r \in Calls, call'[r] # Idle, call'[r].kind = "left"
               PROVE  JarOf(call'[r].client) \in missed'
    BY DEF LeftMissed, Awaited, HomeOf
  <2> QED
    BY DEF TokenInv, LeftMissed, Awaited, HomeOf
<1>6. StoredTokenIsCurrent'
  <2> SUFFICES ASSUME NEW j \in Jars, jar'[j] # NoToken, row'[jar'[j].sid].state = "live",
                      j \notin missed'
               PROVE  \/ row'[jar'[j].sid].hash = jar'[j].n
                      \/ \E r \in Calls :
                            /\ call'[r].at = "answer" /\ JarOf(call'[r].client) = j
                            /\ call'[r].token = [sid |-> jar'[j].sid, n |-> row'[jar'[j].sid].hash]
    BY <1>t DEF StoredTokenIsCurrent, At, Live
  <2>1. jar'[j] = jar[j] /\ jar[j].sid \in Sids /\ j \notin missed
    BY <1>t DEF Tokens
  <2>2. \/ row[jar[j].sid].hash = jar[j].n
        \/ \E r \in Calls : /\ At(r, "answer") /\ JarOf(call[r].client) = j
                            /\ call[r].token = [sid |-> jar[j].sid, n |-> row[jar[j].sid].hash]
    BY <1>t, <2>1 DEF TokenInv, StoredTokenIsCurrent, Live
  <2> QED
    BY <2>1, <2>2 DEF HomeOf
<1> QED
  BY <1>1, <1>2, <1>3, <1>4, <1>5, <1>6 DEF TokenInv

LEMMA InitTokenInv == Init => TokenInv
<1> SUFFICES ASSUME Init PROVE TokenInv
  OBVIOUS
<1>1. /\ \A r \in Calls : call[r] = Idle
      /\ \A j \in Jars : jar[j] = NoToken
      /\ DOMAIN jar = Jars /\ made = 0 /\ NoToken.n = 0
  BY DEF Init, Jars, NoToken
<1>2. MadeBefore
  BY <1>1 DEF MadeBefore
<1>3. OneJar
  BY <1>1 DEF OneJar, Carries, Stores, At, Idle
<1>4. OnItsWay /\ AnswerIsCurrent /\ LeftMissed
  BY <1>1 DEF OnItsWay, AnswerIsCurrent, LeftMissed, Awaited, At, Idle
<1>5. StoredTokenIsCurrent
  BY <1>1 DEF StoredTokenIsCurrent
<1> QED
  BY <1>2, <1>3, <1>4, <1>5 DEF TokenInv

\* A session that is created is new to every client and call.
LEMMA CreateTokens ==
  ASSUME TypeInv, TypeInv', TokenInv, NEW r \in Calls, NEW s \in Sids, CreateSession(r, s)
  PROVE  TokenInv'
<1>1. /\ call[r] \in Busy /\ At(r, "create") /\ row[s].state = "none" /\ made \in Nat
      /\ jar \in [Jars -> Tokens \cup {NoToken}]
  BY BoundAssumption DEF CreateSession, At, Idle, TypeInv, CallsOK, AccountOK, ClientsOK
<1>2. /\ call'[r].at = "rotate" /\ call'[r].token = [sid |-> s, n |-> 0]
      /\ call'[r].seen = call[r].seen /\ call'[r].client = call[r].client
      /\ call'[r].kind = call[r].kind
      /\ \A q \in Calls : q # r => call'[q] = call[q]
      /\ UNCHANGED <<made, jar, missed>>
      /\ \A q \in Sids : q # s => row'[q] = row[q]
  BY <1>1 DEF CreateSession, Goto, TypeInv, CallsOK, Busy, AccountOK
<1>3. row'[s].state = "live" /\ row'[s].hash = 0
  BY <1>1 DEF CreateSession, Row, TypeInv, AccountOK
<1>4. /\ \A q \in Calls : ~Carries(q, s)
      /\ \A j \in Jars : ~Stores(j, s)
  BY <1>1 DEF TokenInv, OneJar
<1>5. /\ \A q \in Calls : q # r => HomeOf(q)' = HomeOf(q) /\ \A p : Carries(q, p)' <=> Carries(q, p)
      /\ \A p : Carries(r, p)' => p = s
      /\ \A j \in Jars : \A p : Stores(j, p)' <=> Stores(j, p)
  BY <1>2 DEF Carries, Stores, At, HomeOf
<1>6. MadeBefore'
  <2>1. call[r] # Idle
    BY <1>1 DEF At, Idle
  <2> QED
    BY <1>1, <1>2, <2>1 DEF TokenInv, MadeBefore
<1>7. OneJar'
  <2> SUFFICES ASSUME NEW p \in Sids
               PROVE  (/\ \A i, q \in Calls : Carries(i, p) /\ Carries(q, p) => HomeOf(i) = HomeOf(q)
                       /\ \A i \in Calls, j \in Jars : Carries(i, p) /\ Stores(j, p) => HomeOf(i) = j
                       /\ \A i, j \in Jars : Stores(i, p) /\ Stores(j, p) => i = j
                       /\ row[p].state = "none" =>
                             /\ \A i \in Calls : ~Carries(i, p)
                             /\ \A j \in Jars : ~Stores(j, p))'
    BY DEF OneJar
  <2>1. ASSUME NEW i \in Calls, NEW q \in Calls, Carries(i, p)', Carries(q, p)'
        PROVE  HomeOf(i)' = HomeOf(q)'
    BY <1>4, <1>5, <2>1 DEF TokenInv, OneJar
  <2>2. ASSUME NEW i \in Calls, NEW j \in Jars, Carries(i, p)', Stores(j, p)'
        PROVE  HomeOf(i)' = j
    BY <1>4, <1>5, <2>2 DEF TokenInv, OneJar
  <2>3. ASSUME NEW i \in Jars, NEW j \in Jars, Stores(i, p)', Stores(j, p)'
        PROVE  i = j
    BY <1>5, <2>3 DEF TokenInv, OneJar
  <2>4. ASSUME row'[p].state = "none"
        PROVE  /\ \A i \in Calls : ~Carries(i, p)'
               /\ \A j \in Jars : ~Stores(j, p)'
    BY <1>2, <1>3, <1>5, <2>4 DEF TokenInv, OneJar
  <2> QED
    BY <2>1, <2>2, <2>3, <2>4 DEF Jars
<1>8. \A q \in Calls : At(q, "answer") => call[q].token \in Tokens /\ call[q].token.sid # s
  <2>1. \A q \in Calls : At(q, "answer") => call[q].token \in Tokens /\ call[q].token # NoToken
    BY BoundAssumption DEF TypeInv, CallsOK, TokensFit, Tokens, NoToken
  <2> QED
    BY <1>4, <2>1 DEF Carries
<1>9. OnItsWay'
  BY <1>2, <1>8 DEF TokenInv, OnItsWay, At
<1>10. AnswerIsCurrent'
  BY <1>2, <1>8 DEF TokenInv, AnswerIsCurrent, At, HomeOf, Live, Tokens
<1>11. LeftMissed'
  BY <1>1, <1>2 DEF TokenInv, LeftMissed, Awaited, HomeOf, At, Idle
<1>12. StoredTokenIsCurrent'
  <2> SUFFICES ASSUME NEW j \in Jars, jar[j] # NoToken, row'[jar[j].sid].state = "live",
                      j \notin missed
               PROVE  \/ row'[jar[j].sid].hash = jar[j].n
                      \/ \E q \in Calls :
                            /\ call'[q].at = "answer" /\ JarOf(call'[q].client) = j
                            /\ call'[q].token = [sid |-> jar[j].sid, n |-> row'[jar[j].sid].hash]
    BY <1>1, <1>2 DEF StoredTokenIsCurrent, At, Live
  <2>1. jar[j].sid \in Sids /\ jar[j].sid # s
    BY <1>1, <1>4 DEF Tokens, Stores
  <2>2. row'[jar[j].sid] = row[jar[j].sid]
    BY <1>2, <2>1
  <2>3. \/ row[jar[j].sid].hash = jar[j].n
        \/ \E q \in Calls : /\ At(q, "answer") /\ JarOf(call[q].client) = j
                            /\ call[q].token = [sid |-> jar[j].sid, n |-> row[jar[j].sid].hash]
    BY <1>1, <2>2 DEF TokenInv, StoredTokenIsCurrent, Live
  <2> QED
    BY <1>1, <1>2, <2>2, <2>3 DEF At
<1> QED
  BY <1>6, <1>7, <1>9, <1>10, <1>11, <1>12 DEF TokenInv

\* A token that is accepted was shown by one call and is nobody's answer.
LEMMA AcceptTokens ==
  ASSUME TypeInv, TypeInv', TokenInv, NEW r \in Calls, At(r, "check"), call[r].token # NoToken,
         Goto(r, [call[r] EXCEPT !.at = "rotate", !.seen = call[r].token.n]),
         UNCHANGED <<row, made, jar, missed>>
  PROVE  TokenInv'
<1>1. /\ call[r] \in Busy /\ call[r] # Idle /\ call[r].token \in Tokens
      /\ jar \in [Jars -> Tokens \cup {NoToken}]
  BY DEF At, Idle, TypeInv, CallsOK, TokensFit, ClientsOK
<1>2. /\ call'[r].at = "rotate" /\ call'[r].token = call[r].token
      /\ call'[r].seen = call[r].token.n /\ call'[r].client = call[r].client
      /\ call'[r].kind = call[r].kind
      /\ \A q \in Calls : q # r => call'[q] = call[q]
  BY <1>1 DEF Goto, TypeInv, CallsOK, Busy
<1>3. /\ \A q \in Calls : \A p : Carries(q, p)' <=> Carries(q, p)
      /\ \A q \in Calls : HomeOf(q)' = HomeOf(q)
      /\ \A j \in Jars : \A p : Stores(j, p)' <=> Stores(j, p)
  BY <1>2 DEF Carries, Stores, At, HomeOf
<1>4. MadeBefore'
  BY <1>1, <1>2 DEF TokenInv, MadeBefore
<1>5. OneJar'
  BY <1>3 DEF TokenInv, OneJar, Jars
<1>6. OnItsWay'
  <2> SUFFICES ASSUME NEW q \in Calls, call'[q].at = "answer"
               PROVE  /\ \A j \in Jars : jar[j] # call'[q].token
                      /\ \A i \in Calls :
                            /\ call'[i].at = "check" => call'[i].token # call'[q].token
                            /\ call'[i].at = "rotate" /\ call'[i].token.sid = call'[q].token.sid
                                 => call'[i].seen # call'[q].token.n
                            /\ call'[i].at = "answer" /\ call'[i].token = call'[q].token => i = q
    BY DEF OnItsWay, At
  <2>1. q # r /\ At(q, "answer") /\ call'[q] = call[q] /\ call[q].token \in Tokens
    BY <1>2 DEF At, TypeInv, CallsOK, TokensFit
  <2>2. call[r].token # call[q].token
    BY <2>1 DEF TokenInv, OnItsWay
  <2>3. call[r].token.sid = call[q].token.sid => call[r].token.n # call[q].token.n
    BY <1>1, <2>1, <2>2 DEF Tokens
  <2> QED
    BY <1>2, <2>1, <2>3 DEF TokenInv, OnItsWay, At
<1>7. AnswerIsCurrent'
  BY <1>2 DEF TokenInv, AnswerIsCurrent, At, HomeOf, Live
<1>8. LeftMissed'
  BY <1>1, <1>2 DEF TokenInv, LeftMissed, Awaited, HomeOf
<1>9. StoredTokenIsCurrent'
  BY <1>2 DEF TokenInv, StoredTokenIsCurrent, At, Live
<1> QED
  BY <1>4, <1>5, <1>6, <1>7, <1>8, <1>9 DEF TokenInv

\* A new token goes to the home of its session, which expected the one shown or
\* else missed an answer.
LEMMA RotateTokens ==
  ASSUME TypeInv, TypeInv', TokenInv, NEW r \in Calls, At(r, "rotate"),
         Live(call[r].token.sid), RotateSession(r)
  PROVE  TokenInv'
<1> DEFINE s == call[r].token.sid
           t == [sid |-> s, n |-> made + 1]
<1>1. /\ call[r] \in Busy /\ call[r] # Idle /\ s \in Sids /\ made \in Nat
      /\ jar \in [Jars -> Tokens \cup {NoToken}] /\ HomeOf(r) \in Jars
      /\ call[r].token # NoToken /\ call[r].token \in AnyToken
      /\ \A q \in Calls : At(q, "answer") => call[q].token \in Tokens
  <2>1. call[r] \in Busy /\ call[r] # Idle
    BY DEF At, Idle, TypeInv, CallsOK
  <2>2. s \in Sids /\ \A q \in Calls : At(q, "answer") => call[q].token \in Tokens
    BY DEF TypeInv, CallsOK, TokensFit
  <2>3. jar \in [Jars -> Tokens \cup {NoToken}] /\ made \in Nat
    BY BoundAssumption DEF TypeInv, ClientsOK, AccountOK
  <2>4. HomeOf(r) \in Jars /\ call[r].token \in AnyToken
    BY <2>1, JarOfClient DEF Busy, HomeOf
  <2>5. call[r].token # NoToken
    BY <2>2, NoneAssumption DEF NoToken
  <2> QED
    BY <2>1, <2>2, <2>3, <2>4, <2>5
<1>2. /\ call'[r].at = "answer" /\ call'[r].token = t /\ call'[r].seen = 0
      /\ call'[r].client = call[r].client /\ call'[r].kind = call[r].kind
      /\ \A q \in Calls : q # r => call'[q] = call[q]
  <2>1. Goto(r, [call[r] EXCEPT !.at = "answer", !.token.n = made + 1, !.seen = 0])
    BY DEF RotateSession
  <2>2. [call[r].token EXCEPT !.n = made + 1] = t
    BY <1>1 DEF AnyToken, Tokens, NoToken
  <2>3. [call[r] EXCEPT !.at = "answer", !.token.n = made + 1, !.seen = 0]
          = [call[r] EXCEPT !.at = "answer", !.token = t, !.seen = 0]
    BY <1>1, <2>2 DEF Busy
  <2> QED
    BY <1>1, <2>1, <2>3 DEF Goto, TypeInv, CallsOK, Busy
<1>3. /\ row'[s].hash = made + 1 /\ row'[s].state = "live" /\ made' = made + 1
      /\ \A p \in Sids : p # s => row'[p] = row[p]
      /\ \A p \in Sids : row'[p].state = row[p].state
      /\ UNCHANGED jar /\ missed \subseteq missed'
      /\ row[s].hash # call[r].seen => HomeOf(r) \in missed'
  <2>1. row' = [row EXCEPT ![s].hash = made + 1, ![s].fresh = TRUE] /\ row[s].state = "live"
    BY DEF RotateSession, Live
  <2>2. /\ row'[s].hash = made + 1 /\ row'[s].state = "live"
        /\ \A p \in Sids : p # s => row'[p] = row[p]
        /\ \A p \in Sids : row'[p].state = row[p].state
    <3>1. s \in Sids
      BY <1>1
    <3>2. row \in [Sids -> [state : {"none", "live", "gone"}, hash : 0..MaxTokens,
                            fresh : BOOLEAN, password : 0..MaxPasswords, spared : BOOLEAN]]
      BY DEF TypeInv, AccountOK
    <3>3. row'[s] = [row[s] EXCEPT !.hash = made + 1, !.fresh = TRUE]
      BY ONLY <2>1, <3>1, <3>2
    <3>4. \A p \in Sids : p # s => row'[p] = row[p]
      BY ONLY <2>1, <3>1, <3>2
    <3>5. row'[s].hash = made + 1 /\ row'[s].state = row[s].state
      BY ONLY <3>1, <3>2, <3>3
    <3> QED
      BY ONLY <2>1, <3>1, <3>4, <3>5
  <2>3. /\ made' = made + 1 /\ UNCHANGED jar /\ missed \subseteq missed'
        /\ row[s].hash # call[r].seen => HomeOf(r) \in missed'
    BY DEF RotateSession, HomeOf
  <2> QED
    BY <2>1, <2>2, <2>3
<1>4. /\ \A q \in Calls : \A p : Carries(q, p)' <=> Carries(q, p)
      /\ \A q \in Calls : HomeOf(q)' = HomeOf(q)
      /\ \A j \in Jars : \A p : Stores(j, p)' <=> Stores(j, p)
  <2>1. t # NoToken
    BY <1>1, NoneAssumption DEF NoToken
  <2> QED
    BY <1>1, <1>2, <1>3, <2>1 DEF Carries, Stores, At, HomeOf
<1>n. \A q \in Calls : call[q] # Idle => call[q].token.n \in Nat /\ call[q].seen \in Nat
  <2>1. \A q \in Calls : call[q] # Idle => call[q].token \in AnyToken /\ call[q].seen \in 0..MaxTokens
    BY DEF TypeInv, CallsOK, Busy
  <2>2. \A x \in AnyToken : x.n \in Nat
    BY BoundAssumption DEF AnyToken, Tokens, NoToken
  <2> QED
    BY <2>1, <2>2, BoundAssumption
<1>5. MadeBefore'
  <2>1. \A j \in Jars : jar[j].n \in Nat /\ jar[j].n <= made
    BY <1>1, BoundAssumption DEF TokenInv, MadeBefore, Tokens, NoToken
  <2>2. \A q \in Calls : q # r /\ call'[q] # Idle =>
           call'[q].token.n <= made + 1 /\ call'[q].seen <= made + 1
    BY <1>1, <1>2, <1>n DEF TokenInv, MadeBefore
  <2>3. call'[r].token.n <= made + 1 /\ call'[r].seen <= made + 1
    BY <1>1, <1>2
  <2>4. \A j \in Jars : jar'[j].n <= made + 1
    BY <1>1, <1>3, <2>1
  <2> QED
    BY <1>3, <2>2, <2>3, <2>4 DEF MadeBefore
<1>6. OneJar'
  BY <1>3, <1>4 DEF TokenInv, OneJar, Jars
<1>7. OnItsWay'
  <2> SUFFICES ASSUME NEW q \in Calls, call'[q].at = "answer"
               PROVE  /\ \A j \in Jars : jar[j] # call'[q].token
                      /\ \A i \in Calls :
                            /\ call'[i].at = "check" => call'[i].token # call'[q].token
                            /\ call'[i].at = "rotate" /\ call'[i].token.sid = call'[q].token.sid
                                 => call'[i].seen # call'[q].token.n
                            /\ call'[i].at = "answer" /\ call'[i].token = call'[q].token => i = q
    BY <1>3 DEF OnItsWay, At
  <2>1. CASE q = r
    <3>1. \A j \in Jars : jar[j].n # made + 1
      BY <1>1, BoundAssumption DEF TokenInv, MadeBefore, Tokens, NoToken
    <3>2. \A i \in Calls : call[i] # Idle => call[i].token.n # made + 1 /\ call[i].seen # made + 1
      BY <1>1, <1>n DEF TokenInv, MadeBefore
    <3>3. \A i \in Calls : call'[i].at \in {"check", "rotate", "answer"} /\ i # r
             => call[i] # Idle /\ call'[i] = call[i]
      BY <1>2 DEF Idle
    <3> QED
      BY <1>2, <2>1, <3>1, <3>2, <3>3
  <2>2. CASE q # r
    <3>1. At(q, "answer") /\ call'[q] = call[q] /\ call[q].token.n # made + 1
      <4>1. At(q, "answer") /\ call'[q] = call[q] /\ call[q] # Idle
        BY <1>2, <2>2 DEF At, Idle
      <4>2. call[q].token.n <= made /\ call[q].token.n \in Nat
        BY <1>1, <4>1, BoundAssumption DEF TokenInv, MadeBefore, Tokens
      <4> QED
        BY <1>1, <4>1, <4>2
    <3> QED
      BY <1>2, <2>2, <3>1 DEF TokenInv, OnItsWay, At
  <2> QED
    BY <2>1, <2>2
\* The answers to the same session go to the same home, and none is expected
<1>8. ASSUME NEW q \in Calls, q # r, At(q, "answer"), call[q].token.sid = s,
             HomeOf(q) \notin missed'
      PROVE  FALSE
  <2>1. call[q].token \in Tokens /\ call[q].token # NoToken
    BY <1>1, <1>8, BoundAssumption DEF Tokens, NoToken
  <2>2. Carries(q, s) /\ Carries(r, s)
    BY <1>1, <1>8, <2>1 DEF Carries
  <2>3. HomeOf(q) = HomeOf(r)
    BY <1>1, <2>2 DEF TokenInv, OneJar
  <2>4. row[s].hash = call[r].seen /\ HomeOf(q) \notin missed
    BY <1>3, <1>8, <2>3
  <2>5. call[q].token.n = row[s].hash
    BY <1>8, <2>4 DEF TokenInv, AnswerIsCurrent
  <2>6. call[r].seen # call[q].token.n
    BY <1>8 DEF TokenInv, OnItsWay
  <2> QED
    BY <2>4, <2>5, <2>6
<1>9. AnswerIsCurrent'
  <2> SUFFICES ASSUME NEW q \in Calls, call'[q].at = "answer",
                      row'[call'[q].token.sid].state = "live", JarOf(call'[q].client) \notin missed'
               PROVE  call'[q].token.n = row'[call'[q].token.sid].hash
    BY DEF AnswerIsCurrent, At, Live, HomeOf
  <2>1. CASE q = r
    BY <1>2, <1>3, <2>1
  <2>2. CASE q # r
    <3>1. call'[q] = call[q] /\ At(q, "answer") /\ HomeOf(q) \notin missed'
          /\ call[q].token.sid \in Sids
      BY <1>1, <1>2, <2>2 DEF At, HomeOf, Tokens
    <3>2. call[q].token.sid # s
      BY <1>8, <2>2, <3>1
    <3> QED
      BY <1>3, <3>1, <3>2 DEF TokenInv, AnswerIsCurrent, Live
  <2> QED
    BY <2>1, <2>2
<1>10. LeftMissed'
  BY <1>1, <1>2, <1>3 DEF TokenInv, LeftMissed, Awaited, HomeOf
<1>11. StoredTokenIsCurrent'
  <2> SUFFICES ASSUME NEW j \in Jars, jar[j] # NoToken, row'[jar[j].sid].state = "live",
                      j \notin missed'
               PROVE  \/ row'[jar[j].sid].hash = jar[j].n
                      \/ \E q \in Calls :
                            /\ call'[q].at = "answer" /\ JarOf(call'[q].client) = j
                            /\ call'[q].token = [sid |-> jar[j].sid, n |-> row'[jar[j].sid].hash]
    BY <1>1, <1>3 DEF StoredTokenIsCurrent, At, Live
  <2>1. jar[j].sid \in Sids
    BY <1>1 DEF Tokens
  <2>2. CASE jar[j].sid = s
    <3>1. Stores(j, s) /\ Carries(r, s)
      BY <1>1, <2>2 DEF Stores, Carries
    <3>2. HomeOf(r) = j
      BY <1>1, <3>1 DEF TokenInv, OneJar
    <3> QED
      BY <1>2, <1>3, <2>2, <3>2 DEF HomeOf
  <2>3. CASE jar[j].sid # s
    <3>1. row'[jar[j].sid] = row[jar[j].sid] /\ j \notin missed
      BY <1>3, <2>1, <2>3
    <3>2. \/ row[jar[j].sid].hash = jar[j].n
          \/ \E q \in Calls : /\ At(q, "answer") /\ JarOf(call[q].client) = j
                              /\ call[q].token = [sid |-> jar[j].sid, n |-> row[jar[j].sid].hash]
      BY <1>1, <3>1 DEF TokenInv, StoredTokenIsCurrent, Live
    <3> QED
      BY <1>2, <3>1, <3>2 DEF At
  <2> QED
    BY <2>2, <2>3
<1> QED
  BY <1>5, <1>6, <1>7, <1>9, <1>10, <1>11 DEF TokenInv

\* The answer is stored where its session lives.
LEMMA StoreTokens ==
  ASSUME TypeInv, TypeInv', TokenInv, NEW r \in Calls, At(r, "answer"),
         Store(call[r].client, call[r].token), Goto(r, Idle), UNCHANGED <<row, made, missed>>
  PROVE  TokenInv'
<1> DEFINE t == call[r].token
           s == t.sid
           h == HomeOf(r)
<1>1. /\ call[r] \in Busy /\ call[r] # Idle /\ t \in Tokens /\ t # NoToken /\ h \in Jars
      /\ s \in Sids /\ jar \in [Jars -> Tokens \cup {NoToken}]
  <2>1. call[r] \in Busy /\ call[r] # Idle
    BY DEF At, Idle, TypeInv, CallsOK
  <2>2. t \in Tokens
    BY DEF TypeInv, CallsOK, TokensFit
  <2>3. t # NoToken /\ s \in Sids
    BY <2>2, BoundAssumption DEF Tokens, NoToken
  <2>4. h \in Jars
    BY <2>1, JarOfClient DEF Busy, HomeOf
  <2> QED
    BY <2>1, <2>2, <2>3, <2>4 DEF TypeInv, ClientsOK
<1>2. /\ call'[r] = Idle /\ jar'[h] = t /\ DOMAIN jar' = Jars
      /\ \A q \in Calls : q # r => call'[q] = call[q]
      /\ \A j \in Jars : j # h => jar'[j] = jar[j]
  BY <1>1 DEF Goto, Store, HomeOf, TypeInv, CallsOK
<1>3. Carries(r, s)
  BY <1>1 DEF Carries
<1>4. /\ \A q \in Calls : \A p : Carries(q, p)' => q # r /\ Carries(q, p) /\ HomeOf(q)' = HomeOf(q)
      /\ \A j \in Jars : \A p : Stores(j, p)' => Stores(j, p) \/ (j = h /\ p = s)
  BY <1>2 DEF Carries, Stores, At, HomeOf, Idle
<1>5. MadeBefore'
  BY <1>1, <1>2 DEF TokenInv, MadeBefore
<1>6. OneJar'
  <2> SUFFICES ASSUME NEW p \in Sids
               PROVE  (/\ \A i, q \in Calls : Carries(i, p) /\ Carries(q, p) => HomeOf(i) = HomeOf(q)
                       /\ \A i \in Calls, j \in Jars : Carries(i, p) /\ Stores(j, p) => HomeOf(i) = j
                       /\ \A i, j \in Jars : Stores(i, p) /\ Stores(j, p) => i = j
                       /\ row[p].state = "none" =>
                             /\ \A i \in Calls : ~Carries(i, p)
                             /\ \A j \in Jars : ~Stores(j, p))'
    BY DEF OneJar
  <2>1. ASSUME NEW i \in Calls, NEW q \in Calls, Carries(i, p)', Carries(q, p)'
        PROVE  HomeOf(i)' = HomeOf(q)'
    BY <1>4, <2>1 DEF TokenInv, OneJar
  <2>2. ASSUME NEW i \in Calls, NEW j \in Jars, Carries(i, p)', Stores(j, p)'
        PROVE  HomeOf(i)' = j
    BY <1>1, <1>3, <1>4, <2>2 DEF TokenInv, OneJar
  <2>3. ASSUME NEW i \in Jars, NEW j \in Jars, Stores(i, p)', Stores(j, p)'
        PROVE  i = j
    BY <1>1, <1>3, <1>4, <2>3 DEF TokenInv, OneJar
  <2>4. ASSUME row[p].state = "none"
        PROVE  /\ \A i \in Calls : ~Carries(i, p)'
               /\ \A j \in Jars : ~Stores(j, p)'
    BY <1>1, <1>3, <1>4, <2>4 DEF TokenInv, OneJar
  <2> QED
    BY <2>1, <2>2, <2>3, <2>4 DEF Jars
<1>7. OnItsWay'
  <2> SUFFICES ASSUME NEW q \in Calls, call'[q].at = "answer"
               PROVE  /\ \A j \in Jars : jar'[j] # call'[q].token
                      /\ \A i \in Calls :
                            /\ call'[i].at = "check" => call'[i].token # call'[q].token
                            /\ call'[i].at = "rotate" /\ call'[i].token.sid = call'[q].token.sid
                                 => call'[i].seen # call'[q].token.n
                            /\ call'[i].at = "answer" /\ call'[i].token = call'[q].token => i = q
    BY DEF OnItsWay, At
  <2>1. q # r /\ At(q, "answer") /\ call'[q] = call[q]
    BY <1>2 DEF At, Idle
  <2>2. call[q].token # t
    BY <2>1 DEF TokenInv, OnItsWay
  <2>3. \A i \in Calls : call'[i] = call[i] \/ call'[i].at = "idle"
    BY <1>2 DEF Idle
  <2>4. \A j \in Jars : jar'[j] # call[q].token
    BY <1>2, <2>1, <2>2 DEF TokenInv, OnItsWay
  <2>5. \A i \in Calls :
           /\ At(i, "check") => call[i].token # call[q].token
           /\ At(i, "rotate") /\ call[i].token.sid = call[q].token.sid
                => call[i].seen # call[q].token.n
           /\ At(i, "answer") /\ call[i].token = call[q].token => i = q
    BY <2>1 DEF TokenInv, OnItsWay
  <2> HIDE DEF t
  <2> QED
    BY <2>1, <2>3, <2>4, <2>5 DEF At
<1>8. AnswerIsCurrent'
  <2>1. \A q \in Calls : call'[q].at = "answer" => call'[q] = call[q]
    BY <1>2 DEF Idle
  <2> QED
    BY <2>1 DEF TokenInv, AnswerIsCurrent, At, HomeOf, Live
<1>9. LeftMissed'
  BY <1>2 DEF TokenInv, LeftMissed, Awaited, HomeOf
<1>10. StoredTokenIsCurrent'
  <2> SUFFICES ASSUME NEW j \in Jars, jar'[j] # NoToken, Live(jar'[j].sid), j \notin missed
               PROVE  \/ row[jar'[j].sid].hash = jar'[j].n
                      \/ \E q \in Calls :
                            /\ call'[q].at = "answer" /\ JarOf(call'[q].client) = j
                            /\ call'[q].token = [sid |-> jar'[j].sid, n |-> row[jar'[j].sid].hash]
    BY <1>2 DEF StoredTokenIsCurrent, At, Live
  <2>1. CASE j = h
    <3>1. jar'[j] = t /\ Live(t.sid) /\ HomeOf(r) \notin missed
      BY <1>2, <2>1
    <3>2. t.n = row[t.sid].hash
      BY <3>1 DEF TokenInv, AnswerIsCurrent
    <3> HIDE DEF t
    <3> QED
      BY <3>1, <3>2
  <2>2. CASE j # h
    <3>1. \/ row[jar[j].sid].hash = jar[j].n
          \/ \E q \in Calls : /\ At(q, "answer") /\ JarOf(call[q].client) = j
                              /\ call[q].token = [sid |-> jar[j].sid, n |-> row[jar[j].sid].hash]
      BY <1>1, <1>2, <2>2 DEF TokenInv, StoredTokenIsCurrent
    <3>2. \A q \in Calls : JarOf(call[q].client) = j => call'[q] = call[q]
      BY <1>2, <2>2 DEF HomeOf
    <3>3. jar'[j] = jar[j]
      BY <1>2, <2>2
    <3> HIDE DEF t, h
    <3> QED
      BY <3>1, <3>2, <3>3 DEF At
  <2> QED
    BY <2>1, <2>2
<1> QED
  BY <1>5, <1>6, <1>7, <1>8, <1>9, <1>10 DEF TokenInv

\* Pages load in tabs: the token a page shows, and shows again, is the browser's
LoadsFit == \A r \in Calls : call[r] # Idle /\ call[r].kind = "load" => call[r].client \in Tabs

LEMMA StepLoadsFit == TypeInv /\ LoadsFit /\ [Next]_vars => LoadsFit'
<1> SUFFICES ASSUME TypeInv, LoadsFit, [Next]_vars PROVE LoadsFit'
  OBVIOUS
<1>b. /\ \A r \in Calls : call[r] # Idle => call[r] \in Busy
      /\ \A r \in Calls : call[r] # Idle \/ At(r, "idle")
      /\ DOMAIN call = Calls /\ Idle.at = "idle"
  BY DEF TypeInv, CallsOK, At, Idle
<1>f. ASSUME NEW r \in Calls, NEW k, Goto(r, k),
             \/ k = Idle
             \/ k.kind # "load"
             \/ k.client \in Tabs
             \/ call[r] # Idle /\ k.kind = call[r].kind /\ k.client = call[r].client
      PROVE  LoadsFit'
  BY <1>b, <1>f DEF LoadsFit, Goto
<1>c. UNCHANGED call => LoadsFit'
  BY DEF LoadsFit
<1>1. ASSUME NEW r \in Calls, NEW c \in Clients,
             SignIn(r, c) \/ Renew(r, c) \/ SignOut(r, c)
      PROVE  LoadsFit'
  BY <1>1, <1>f DEF SignIn, Renew, SignOut, Send
<1>2. ASSUME NEW r \in Calls, NEW c \in Clients, LoadPage(r, c) PROVE LoadsFit'
  <2>1. \A q \in Calls : call'[q] =
           IF q = r THEN [at |-> "check", kind |-> "load", client |-> c, token |-> jar[Browser],
                          password |-> 0, seen |-> 0, why |-> ""]
           ELSE IF Awaited(q) /\ call[q].client = c
                THEN [call[q] EXCEPT !.kind = "left"] ELSE call[q]
    BY <1>2 DEF LoadPage
  <2>2. \A q \in Calls : Awaited(q) => [call[q] EXCEPT !.kind = "left"].kind # "load"
    BY <1>b DEF Awaited, Busy
  <2> QED
    BY <1>2, <2>1, <2>2 DEF LoadPage, LoadsFit
<1>3. ASSUME NEW r \in Calls, call[r] # Idle,
             \/ Goto(r, Idle)
             \/ Goto(r, [call[r] EXCEPT !.kind = "left"])
             \/ Goto(r, [call[r] EXCEPT !.at = "check", !.kind = "again",
                                        !.token = jar[Browser], !.why = ""])
             \/ \E why \in {"older", "ended"} :
                   Goto(r, [call[r] EXCEPT !.at = "refuse", !.why = why])
             \/ Goto(r, [call[r] EXCEPT !.at = "ended"])
             \/ \E n : Goto(r, [call[r] EXCEPT !.at = "rotate", !.seen = n])
             \/ \E t : Goto(r, [call[r] EXCEPT !.at = "rotate", !.token = t, !.password = 0])
             \/ \E n : Goto(r, [call[r] EXCEPT !.at = "answer", !.token.n = n, !.seen = 0])
      PROVE  LoadsFit'
  <2>1. call[r] \in Busy
    BY <1>b, <1>3
  <2>2. ASSUME NEW k, Goto(r, k), k.kind = call[r].kind, k.client = call[r].client
        PROVE  LoadsFit'
    BY <1>3, <1>f, <2>2
  <2>3. ASSUME NEW k, Goto(r, k), k.kind \in {"left", "again"}
        PROVE  LoadsFit'
    BY <1>f, <2>3
  <2>4. CASE Goto(r, Idle)
    BY <1>f, <2>4
  <2>5. CASE Goto(r, [call[r] EXCEPT !.kind = "left"])
    BY <2>1, <2>3, <2>5 DEF Busy
  <2>6. CASE Goto(r, [call[r] EXCEPT !.at = "check", !.kind = "again",
                                     !.token = jar[Browser], !.why = ""])
    BY <2>1, <2>3, <2>6 DEF Busy
  <2>7. CASE \E why \in {"older", "ended"} :
               Goto(r, [call[r] EXCEPT !.at = "refuse", !.why = why])
    BY <2>1, <2>2, <2>7 DEF Busy
  <2>8. CASE Goto(r, [call[r] EXCEPT !.at = "ended"])
    BY <2>1, <2>2, <2>8 DEF Busy
  <2>9. CASE \E n : Goto(r, [call[r] EXCEPT !.at = "rotate", !.seen = n])
    BY <2>1, <2>2, <2>9 DEF Busy
  <2>10. CASE \E t : Goto(r, [call[r] EXCEPT !.at = "rotate", !.token = t, !.password = 0])
    BY <2>1, <2>2, <2>10 DEF Busy
  <2>11. CASE \E n : Goto(r, [call[r] EXCEPT !.at = "answer", !.token.n = n, !.seen = 0])
    BY <2>1, <2>2, <2>11 DEF Busy
  <2> QED
    BY <1>3, <2>4, <2>5, <2>6, <2>7, <2>8, <2>9, <2>10, <2>11, Zenon
<1>4. ASSUME NEW r \in Calls, Handle(r) PROVE LoadsFit'
  <2>1. call[r] # Idle
    <3>1. \A step : At(r, step) /\ step # "idle" => call[r] # Idle
      BY DEF At, Idle
    <3>2. CASE \E s \in Sids : CreateSession(r, s)
      BY <3>1, <3>2 DEF CreateSession
    <3>3. CASE CheckToken(r) \/ RotateSession(r) \/ EndSession(r)
      BY <3>1, <3>3 DEF CheckToken, RotateSession, EndSession
    <3>4. CASE Signed(r) \/ SignedOut(r) \/ Refused(r)
      BY <3>1, <3>4 DEF Signed, SignedOut, Refused
    <3>5. CASE GiveUp(r) \/ Vanish(r)
      BY <3>5 DEF GiveUp, Vanish, Awaited
    <3> QED
      BY <1>4, <3>2, <3>3, <3>4, <3>5 DEF Handle
  <2>2. CASE \E s \in Sids : CreateSession(r, s)
    BY <1>3, <2>1, <2>2 DEF CreateSession
  <2>3. CASE CheckToken(r)
    BY <1>3, <2>1, <2>3 DEF CheckToken
  <2>4. CASE RotateSession(r)
    BY <1>3, <2>1, <2>4 DEF RotateSession
  <2>5. CASE EndSession(r)
    BY <1>3, <2>1, <2>5 DEF EndSession
  <2>6. CASE Signed(r) \/ SignedOut(r) \/ Vanish(r)
    BY <1>3, <2>1, <2>6 DEF Signed, SignedOut, Vanish
  <2>7. CASE Refused(r)
    BY <1>3, <2>1, <2>7 DEF Refused
  <2>8. CASE GiveUp(r)
    BY <1>3, <2>1, <2>8 DEF GiveUp
  <2> QED
    BY <1>4, <2>2, <2>3, <2>4, <2>5, <2>6, <2>7, <2>8 DEF Handle
<1>5. CASE \/ ChangePassword \/ DeleteSessions \/ DeletionDies
           \/ SetActive \/ CloseAccount \/ PurgeExpired \/ \E s \in Sids : Expire(s)
  BY <1>5, <1>c DEF ChangePassword, DeleteSessions, DeletionDies, SetActive, CloseAccount,
                    PurgeExpired, Expire
<1>6. CASE UNCHANGED vars
  BY <1>6, <1>c DEF vars
<1> QED
  BY <1>1, <1>2, <1>4, <1>5, <1>6 DEF Next

LEMMA StepTokenInv == TypeInv /\ TypeInv' /\ LoadsFit /\ TokenInv /\ [Next]_vars => TokenInv'
<1> SUFFICES ASSUME TypeInv, TypeInv', LoadsFit, TokenInv, [Next]_vars PROVE TokenInv'
  OBVIOUS
<1>a. AccountOK /\ ClientsOK /\ CallsOK
  BY DEF TypeInv
<1>m. /\ \A r \in Calls : call[r] # Idle => call[r].token.n <= made /\ call[r].seen <= made
      /\ made \in Nat /\ 0 <= made /\ NoToken.n = 0
  <2>1. \A r \in Calls : call[r] # Idle => call[r].token.n <= made /\ call[r].seen <= made
    BY DEF TokenInv, MadeBefore
  <2>2. made \in Nat /\ 0 <= made /\ NoToken.n = 0
    BY <1>a, BoundAssumption DEF AccountOK, NoToken
  <2> QED
    BY <2>1, <2>2
<1>b. \A r \in Calls : call[r] # Idle => call[r] \in Busy /\ call[r].client \in Clients
  BY <1>a DEF CallsOK, Busy
<1>i. \A r \in Calls : call[r] = Idle <=> At(r, "idle")
  <2>1. \A r \in Calls : call[r] = Idle \/ call[r] \in Busy
    BY <1>a DEF CallsOK
  <2>2. Idle.at = "idle" /\ \A k \in Busy : k.at # "idle"
    BY DEF Idle, Busy
  <2> QED
    BY <2>1, <2>2 DEF At
<1>l. \A r \in Calls : call[r] # Idle /\ ~Awaited(r) => HomeOf(r) \in missed
  BY DEF TokenInv, LeftMissed
<1>d. DOMAIN call = Calls /\ DOMAIN jar = Jars
  BY <1>a DEF CallsOK, ClientsOK
\* Steps that touch one call, and perhaps empty a store
<1>f. ASSUME NEW r \in Calls, NEW k, Goto(r, k), UNCHANGED made, missed \subseteq missed',
             \A s \in Sids : /\ row'[s].state = "live" => /\ row[s].state = "live"
                                                          /\ row'[s].hash = row[s].hash
                             /\ row'[s].state = "none" => row[s].state = "none",
             \A j \in Jars : jar'[j] = jar[j] \/ jar'[j] = NoToken,
             \/ /\ k.at = call[r].at /\ k.token = call[r].token /\ k.seen = call[r].seen
                /\ k.client = call[r].client
                /\ call[r] # Idle /\ (k.kind = call[r].kind \/ HomeOf(r) \in missed')
             \/ k = Idle
             \/ /\ k.at \in {"create", "refuse", "end", "ended"}
                /\ k.token.n <= made /\ k.seen <= made
                /\ k.kind = "left" => JarOf(k.client) \in missed'
             \/ /\ k.at = "check" /\ k.token = jar[JarOf(k.client)]
                /\ k.seen <= made /\ k.kind # "left",
             At(r, "answer") /\ HomeOf(r) \notin missed' =>
                k.at = "answer" /\ k.token = call[r].token /\ k.client = call[r].client
      PROVE  TokenInv'
  <2>1. call'[r] = k /\ \A q \in Calls : q # r => call'[q] = call[q]
    BY <1>d, <1>f DEF Goto
  <2>2. \A q \in Calls : At(q, "answer") /\ HomeOf(q) \notin missed' =>
            /\ call'[q].at = "answer" /\ call'[q].token = call[q].token
            /\ call'[q].client = call[q].client
    BY <1>f, <2>1 DEF At
  <2>3. \A q \in Calls :
            \/ call'[q] = call[q]
            \/ /\ call[q] # Idle
               /\ call'[q].at = call[q].at /\ call'[q].token = call[q].token
               /\ call'[q].seen = call[q].seen /\ call'[q].client = call[q].client
               /\ call'[q].kind = call[q].kind \/ HomeOf(q) \in missed'
            \/ call'[q] = Idle
            \/ /\ call'[q].at \in {"create", "refuse", "end", "ended"}
               /\ call'[q].token.n <= made /\ call'[q].seen <= made
               /\ call'[q].kind = "left" => JarOf(call'[q].client) \in missed'
            \/ /\ call'[q].at = "check" /\ call'[q].token = jar[JarOf(call'[q].client)]
               /\ call'[q].seen <= made /\ call'[q].kind # "left"
    BY <1>f, <2>1
  <2> QED
    BY <1>f, <2>2, <2>3, TokenFrame
\* Steps that touch no call
<1>n. ASSUME UNCHANGED <<call, made, jar, missed>>,
             \A s \in Sids : /\ row'[s].state = "live" => /\ row[s].state = "live"
                                                          /\ row'[s].hash = row[s].hash
                             /\ row'[s].state = "none" => row[s].state = "none"
      PROVE  TokenInv'
  BY <1>n, TokenFrame DEF At
<1>e. ASSUME NEW which, Delete(which), NEW s \in Sids
      PROVE  /\ row'[s].state = "live" => row[s].state = "live" /\ row'[s].hash = row[s].hash
             /\ row'[s].state = "none" => row[s].state = "none"
  BY <1>e DEF Delete, Row
<1>1. ASSUME NEW r \in Calls, NEW c \in Clients, SignIn(r, c) PROVE TokenInv'
  BY <1>1, <1>f, <1>i, <1>m DEF SignIn, Send, At
<1>2. ASSUME NEW r \in Calls, NEW c \in Clients, Renew(r, c) PROVE TokenInv'
  BY <1>2, <1>f, <1>i, <1>m DEF Renew, Send, At
<1>3. ASSUME NEW r \in Calls, NEW c \in Clients, LoadPage(r, c) PROVE TokenInv'
  <2> DEFINE k == [at |-> "check", kind |-> "load", client |-> c, token |-> jar[Browser],
                   password |-> 0, seen |-> 0, why |-> ""]
  <2>1. /\ At(r, "idle") /\ JarOf(c) = Browser /\ UNCHANGED <<made, row, jar>>
        /\ missed \subseteq missed'
    BY <1>3 DEF LoadPage, JarOf, account
  <2>2. ASSUME NEW q \in Calls, Awaited(q), call[q].client = c
        PROVE  HomeOf(q) \in missed'
    BY <1>3, <2>1, <2>2 DEF LoadPage, Waiting, HomeOf
  <2>3. ASSUME NEW q \in Calls
        PROVE  \/ q = r /\ call'[q] = k
               \/ call'[q] = call[q] /\ q # r
               \/ /\ call[q] # Idle /\ HomeOf(q) \in missed' /\ q # r
                  /\ call'[q] = [call[q] EXCEPT !.kind = "left"]
    <3>1. call'[q] = IF q = r THEN k
                     ELSE IF Awaited(q) /\ call[q].client = c
                          THEN [call[q] EXCEPT !.kind = "left"] ELSE call[q]
      BY <1>3 DEF LoadPage
    <3> QED
      BY <2>2, <3>1 DEF Awaited
  <2>4. ASSUME NEW q \in Calls, call[q] # Idle
        PROVE  LET m == [call[q] EXCEPT !.kind = "left"] IN
               /\ m.at = call[q].at /\ m.token = call[q].token /\ m.seen = call[q].seen
               /\ m.client = call[q].client
    BY <1>b, <2>4 DEF Busy
  <2>5. k.at = "check" /\ k.token = jar[JarOf(k.client)] /\ k.seen <= made /\ k.kind # "left"
    BY <1>m, <2>1
  <2>6. call[r].at # "answer"
    BY <2>1 DEF At
  <2> HIDE DEF k
  <2> QED
    BY <2>1, <2>3, <2>4, <2>5, <2>6, TokenFrame DEF At
<1>4. ASSUME NEW r \in Calls, NEW c \in Clients, SignOut(r, c) PROVE TokenInv'
  BY <1>4, <1>f, <1>i, <1>m DEF SignOut, Send, At
<1>5. ASSUME NEW r \in Calls, CheckToken(r) PROVE TokenInv'
  <2>1. call[r] \in Busy /\ call[r] # Idle
    BY <1>5, <1>b, <1>i DEF CheckToken, At
  <2>2. CASE active /\ Current(call[r].token)
    <3>1. call[r].token # NoToken
             /\ Goto(r, [call[r] EXCEPT !.at = "rotate", !.seen = call[r].token.n])
      BY <1>5, <2>2 DEF CheckToken, Current
    <3> QED
      BY <1>5, <3>1, AcceptTokens DEF CheckToken
  <2>3. CASE ~(active /\ Current(call[r].token))
    <3>1. PICK w \in {"older", "ended"} :
             Goto(r, [call[r] EXCEPT !.at = "refuse", !.why = w])
      BY <1>5, <2>3 DEF CheckToken
    <3> DEFINE k == [call[r] EXCEPT !.at = "refuse", !.why = w]
    <3>2. k.at = "refuse" /\ k.token = call[r].token /\ k.seen = call[r].seen
          /\ k.client = call[r].client /\ k.kind = call[r].kind
      BY <2>1 DEF Busy
    <3>3. k.kind = "left" => JarOf(k.client) \in missed
      BY <1>l, <2>1, <3>2 DEF Awaited, HomeOf
    <3>4. Goto(r, k) /\ ~At(r, "answer") /\ UNCHANGED <<row, made, jar, missed>>
      BY <1>5, <3>1 DEF CheckToken, At
    <3> HIDE DEF k
    <3> QED
      BY <1>f, <1>m, <2>1, <3>2, <3>3, <3>4
  <2> QED
    BY <2>2, <2>3
<1>6. ASSUME NEW r \in Calls, RotateSession(r) PROVE TokenInv'
  <2>1. At(r, "rotate") /\ call[r] # Idle /\ call[r] \in Busy
    BY <1>6, <1>b, <1>i DEF RotateSession, At
  <2>2. CASE Live(call[r].token.sid)
    BY <1>6, <2>1, <2>2, RotateTokens
  <2>3. CASE ~Live(call[r].token.sid)
    <3> DEFINE k == [call[r] EXCEPT !.at = "refuse", !.why = "ended"]
    <3>2. k.at = "refuse" /\ k.token = call[r].token /\ k.seen = call[r].seen
          /\ k.client = call[r].client /\ k.kind = call[r].kind
      BY <2>1 DEF Busy
    <3>3. k.kind = "left" => JarOf(k.client) \in missed
      BY <1>l, <2>1, <3>2 DEF Awaited, HomeOf
    <3>4. Goto(r, k) /\ ~At(r, "answer") /\ UNCHANGED <<row, made, jar, missed>>
      BY <1>6, <2>1, <2>3 DEF RotateSession, At
    <3> HIDE DEF k
    <3> QED
      BY <1>f, <1>m, <2>1, <3>2, <3>3, <3>4
  <2> QED
    BY <2>2, <2>3
<1>7. ASSUME NEW r \in Calls, EndSession(r) PROVE TokenInv'
  <2> DEFINE k == [call[r] EXCEPT !.at = "ended"]
  <2>1. At(r, "end") /\ call[r] # Idle /\ call[r] \in Busy
    BY <1>7, <1>b, <1>i DEF EndSession, At
  <2>2. k.at = "ended" /\ k.token = call[r].token /\ k.seen = call[r].seen
        /\ k.client = call[r].client /\ k.kind = call[r].kind
    BY <2>1 DEF Busy
  <2>3. k.kind = "left" => JarOf(k.client) \in missed
    BY <1>l, <2>1, <2>2 DEF Awaited, HomeOf
  <2>4. Goto(r, k) /\ ~At(r, "answer") /\ UNCHANGED <<made, jar, missed>>
    BY <1>7 DEF EndSession, At
  <2>5. Delete({call[r].token.sid})
    BY <1>7 DEF EndSession
  <2> HIDE DEF k
  <2> QED
    BY <1>e, <1>f, <1>m, <2>1, <2>2, <2>3, <2>4, <2>5
<1>8. ASSUME NEW r \in Calls, Signed(r) PROVE TokenInv'
  <2>1. At(r, "answer") /\ call[r] # Idle /\ Goto(r, Idle) /\ UNCHANGED <<row, made, missed>>
    BY <1>8, <1>i DEF Signed, At
  <2>2. CASE Store(call[r].client, call[r].token)
    BY <2>1, <2>2, StoreTokens
  <2>3. CASE ~Awaited(r) /\ UNCHANGED jar
    <3>1. HomeOf(r) \in missed
      BY <1>l, <2>1, <2>3
    <3> QED
      BY <1>f, <2>1, <2>3, <3>1
  <2> QED
    BY <1>8, <2>2, <2>3 DEF Signed
\* A store that is emptied
<1>o. ASSUME NEW c, Store(c, NoToken), NEW j \in Jars PROVE jar'[j] = jar[j] \/ jar'[j] = NoToken
  BY <1>d, <1>o DEF Store
<1>9. ASSUME NEW r \in Calls, SignedOut(r) PROVE TokenInv'
  <2>1. Goto(r, Idle) /\ ~At(r, "answer") /\ UNCHANGED <<row, made, missed>>
    BY <1>9 DEF SignedOut, At
  <2>2. \A j \in Jars : jar'[j] = jar[j] \/ jar'[j] = NoToken
    BY <1>9, <1>o DEF SignedOut
  <2> QED
    BY <1>f, <2>1, <2>2
<1>10. ASSUME NEW r \in Calls, Refused(r) PROVE TokenInv'
  <2>1. At(r, "refuse") /\ call[r] # Idle /\ call[r] \in Busy /\ ~At(r, "answer")
        /\ UNCHANGED <<row, made, missed>>
    BY <1>10, <1>b, <1>i DEF Refused, At
  <2>2. \A j \in Jars : jar'[j] = jar[j] \/ jar'[j] = NoToken
    BY <1>10, <1>o DEF Refused, LeaveToSignIn
  <2>3. CASE Goto(r, Idle)
    BY <1>f, <2>1, <2>2, <2>3
  <2>4. CASE ~Goto(r, Idle)
    <3> DEFINE k == [call[r] EXCEPT !.at = "check", !.kind = "again",
                                    !.token = jar[Browser], !.why = ""]
    <3>1. Goto(r, k) /\ call[r].kind = "load"
      BY <1>10, <2>4 DEF Refused
    <3>2. k.at = "check" /\ k.kind = "again" /\ k.token = jar[Browser]
          /\ k.client = call[r].client /\ k.seen = call[r].seen
      BY <2>1 DEF Busy
    <3>3. JarOf(call[r].client) = Browser
      BY <2>1, <3>1 DEF LoadsFit, JarOf
    <3> HIDE DEF k
    <3> QED
      BY <1>f, <1>m, <2>1, <2>2, <3>1, <3>2, <3>3
  <2> QED
    BY <2>3, <2>4
<1>11. ASSUME NEW r \in Calls, GiveUp(r) PROVE TokenInv'
  <2>1. call[r] # Idle /\ call[r] \in Busy /\ HomeOf(r) \in missed' /\ missed \subseteq missed'
        /\ UNCHANGED <<row, made>>
    BY <1>11, <1>b DEF GiveUp, Awaited, HomeOf
  <2>2. \A j \in Jars : jar'[j] = jar[j] \/ jar'[j] = NoToken
    BY <1>11, <1>o DEF GiveUp, LeaveToSignIn
  <2>3. CASE Goto(r, Idle)
    BY <1>f, <2>1, <2>2, <2>3
  <2>4. CASE Goto(r, [call[r] EXCEPT !.kind = "left"])
    <3> DEFINE k == [call[r] EXCEPT !.kind = "left"]
    <3>1. k.at = call[r].at /\ k.token = call[r].token /\ k.seen = call[r].seen
          /\ k.client = call[r].client
      BY <2>1 DEF Busy
    <3> HIDE DEF k
    <3> QED
      BY <1>f, <2>1, <2>2, <2>4, <3>1 DEF k
  <2> QED
    BY <1>11, <2>3, <2>4 DEF GiveUp
<1>12. ASSUME NEW r \in Calls, Vanish(r) PROVE TokenInv'
  <2>1. HomeOf(r) \in missed
    BY <1>12, <1>l DEF Vanish
  <2> QED
    BY <1>12, <1>f, <2>1 DEF Vanish
<1>13. ASSUME NEW r \in Calls, Handle(r) PROVE TokenInv'
  BY <1>5, <1>6, <1>7, <1>8, <1>9, <1>10, <1>11, <1>12, <1>13, CreateTokens DEF Handle
<1>14. CASE ChangePassword \/ SetActive
  BY <1>14, <1>n DEF ChangePassword, SetActive
<1>15. CASE DeleteSessions \/ CloseAccount \/ PurgeExpired
  BY <1>15, <1>e, <1>n DEF DeleteSessions, CloseAccount, PurgeExpired
<1>16. CASE DeletionDies
  BY <1>a, <1>16, <1>n DEF DeletionDies, AccountOK
<1>17. ASSUME NEW s \in Sids, Expire(s) PROVE TokenInv'
  BY <1>a, <1>17, <1>n DEF Expire, AccountOK
<1>18. CASE UNCHANGED vars
  BY <1>18, <1>n DEF vars
<1> QED
  BY <1>1, <1>2, <1>3, <1>4, <1>13, <1>14, <1>15, <1>16, <1>17, <1>18 DEF Next

(***************************************************************************)
(* A browser or a phone that missed no answer, and whose renewals did not  *)
(* race each other, holds the token its session expects or is about to     *)
(* receive it, whatever other devices, sign-ins and refused tabs do.       *)
(***************************************************************************)
THEOREM StoresStayCurrent == Spec => []StoredTokenIsCurrent
<1>1. TokenInv => StoredTokenIsCurrent
  BY DEF TokenInv
<1>2. Init => LoadsFit
  BY DEF Init, LoadsFit
<1> QED
  BY <1>1, <1>2, InitTypeInv, StepTypeInv, StepLoadsFit, InitTokenInv, StepTokenInv, PTL DEF Spec
=============================================================================
