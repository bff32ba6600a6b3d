------------------------- MODULE ProjectBoard_proofs -------------------------
(***************************************************************************)
(* Proofs about ProjectBoard for any number of people, links and workers.  *)
(* Over the types of the board, the team and the work at hand (TypeInv),   *)
(* two invariants: what a save has left to write (SaveInv), of which       *)
(* AsSaved is the end, and where an invitation that admitted can be        *)
(* (LinkInv), for AdmitsOnce.                                              *)
(***************************************************************************)
EXTENDS ProjectBoard, FiniteSetTheorems, TLAPS

-----------------------------------------------------------------------------
(***************************************************************************)
(* Layer 1: types.                                                         *)
(***************************************************************************)
Saves == [at : {"form", "check", "sync", "clear", "fill"}, ids : SUBSET People,
          emails : SUBSET People, new : BOOLEAN]
Arrivals == [at : {"join", "claim", "commit", "mark"}, by : Invitations \cup {"signin"},
             who : People, row : {0} \cup Rows, known : BOOLEAN]

BoardOK ==
    /\ task \in {"none", "open", "deleted"}
    /\ assigned \subseteq People /\ waiting \in [People -> {0} \cup Rows]
    /\ task # "open" => assigned = {} /\ \A p \in People : waiting[p] = 0
    /\ named \subseteq People /\ mixed \in BOOLEAN

TeamOK ==
    /\ Organizer \in account /\ account \subseteq People
    /\ member \subseteq account \ {Organizer}
    /\ invitation \in [Invitations -> {"none", "PENDING", "ACCEPTED", "EXPIRED"}]
    /\ collaborator \in [People -> {"no", "invited", "linked"}]
    /\ \A p \in People : collaborator[p] = "linked" => p \in account
    /\ admitted \in [Invitations -> {"nobody", "once", "again", "unsure"}]

\* A link is accepted for the person it was sent to, and a row in hand exists
ArrivalsFit ==
    \A w \in Workers :
        /\ At(w, "join") \/ At(w, "mark") => work[w].by \in Invitations
        /\ At(w, "join") => work[w].who # Organizer
        /\ At(w, "commit") => work[w].row # 0

WorkOK == work \in [Workers -> {Idle} \cup Saves \cup Arrivals] /\ ArrivalsFit

TypeInv == BoardOK /\ TeamOK /\ WorkOK

LEMMA TypeInvImplies == TypeInv => TypeOK
<1> SUFFICES ASSUME TypeInv PROVE TypeOK
  OBVIOUS
<1>1. \A w \in Workers : LET j == work[w] IN
         \/ j = Idle
         \/ /\ j.at \in {"form", "check", "sync", "clear", "fill"}
            /\ j.ids \subseteq People /\ j.emails \subseteq People /\ j.new \in BOOLEAN
         \/ /\ j.at \in {"join", "claim", "commit", "mark"}
            /\ j.by \in Invitations \cup {"signin"} /\ j.who \in People /\ j.row \in {0} \cup Rows
  BY DEF TypeInv, WorkOK, Saves, Arrivals
<1> QED
  BY <1>1 DEF TypeInv, BoardOK, TeamOK, TypeOK, Waiting

\* What each worker's record is, by the step it is at.
LEMMA WorkTypes ==
  ASSUME WorkOK, NEW w \in Workers
  PROVE  /\ work[w] = Idle \/ work[w] \in Saves \/ work[w] \in Arrivals
         /\ work[w].at \in {"form", "check", "sync", "clear", "fill"} => work[w] \in Saves
         /\ work[w].at \in {"join", "claim", "commit", "mark"} => work[w] \in Arrivals
  BY DEF WorkOK, Idle, Saves, Arrivals

\* A row that nobody has in hand can always be made: there are more rows than
\* workers.
LEMMA FreshRowExists == \A p \in People : FreshRow(p) \in Rows /\ FreshRow(p) # 0
<1>1. IsFiniteSet(Workers) /\ Cardinality(Workers) \in Nat
  BY WorkersAssumption, FS_CardinalityType
<1> DEFINE InHand == {work[w].row : w \in Workers}
<1>2. IsFiniteSet(InHand) /\ Cardinality(InHand) <= Cardinality(Workers)
  <2> DEFINE f == [w \in Workers |-> work[w].row]
  <2>1. f \in [Workers -> InHand] /\ \A n \in InHand : \E w \in Workers : f[w] = n
    OBVIOUS
  <2>2. f \in Surjection(Workers, InHand)
    BY <2>1 DEF Surjection
  <2> QED
    BY <1>1, <2>2, FS_Surjection
<1>3. IsFiniteSet(Rows) /\ Cardinality(Rows) = Cardinality(Workers) + 1
  BY <1>1, FS_Interval DEF Rows
<1>4. \E n \in Rows : n \notin InHand
  <2>1. SUFFICES ASSUME Rows \subseteq InHand PROVE FALSE
    OBVIOUS
  <2>2. Cardinality(Rows) <= Cardinality(InHand)
    BY <1>2, <2>1, FS_Subset
  <2>3. Cardinality(InHand) \in Nat
    BY <1>2, FS_CardinalityType
  <2> HIDE DEF InHand
  <2> QED
    BY <1>1, <1>2, <1>3, <2>2, <2>3
<1>5. \E n \in Rows : \A w \in Workers : At(w, "commit") => work[w].row # n
  BY <1>4
<1>6. \A p \in People : FreshRow(p) \in Rows
  BY <1>5 DEF FreshRow
<1> QED
  BY <1>1, <1>6 DEF Rows

LEMMA InitTypeInv == Init => TypeInv
<1> SUFFICES ASSUME Init PROVE TypeInv
  OBVIOUS
<1>1. BoardOK
  BY DEF Init, BoardOK
<1>2. TeamOK
  BY OrganizerAssumption DEF Init, TeamOK
<1>3. WorkOK
  BY DEF Init, WorkOK, ArrivalsFit, Idle, At
<1> QED
  BY <1>1, <1>2, <1>3 DEF TypeInv

\* Those offered by the form are persons.
LEMMA OfferedArePeople ==
  ASSUME TeamOK PROVE Users \subseteq People /\ Invited \subseteq People
<1>1. \A i \in Invitations : Addressee[i] \in People
  BY AddresseeAssumption
<1> QED
  BY <1>1, OrganizerAssumption DEF TeamOK, Users, Invited

LEMMA StepTypeInv == TypeInv /\ [Next]_vars => TypeInv'
<1> SUFFICES ASSUME TypeInv, [Next]_vars PROVE TypeInv'
  OBVIOUS
<1>a. BoardOK /\ TeamOK /\ WorkOK
  BY DEF TypeInv
<1>b. UNCHANGED board => BoardOK'
  BY <1>a DEF board, BoardOK, Rows
<1>t. UNCHANGED team => TeamOK'
  BY <1>a DEF team, TeamOK
<1>w. UNCHANGED work => WorkOK'
  BY <1>a DEF WorkOK, ArrivalsFit, At, Rows, Saves, Arrivals
\* A worker goes on, or stops
<1>g. ASSUME NEW w \in Workers, NEW j \in {Idle} \cup Saves \cup Arrivals, Goto(w, j),
             j.at \in {"join", "mark"} => j.by \in Invitations,
             j.at = "join" => j.who # Organizer,
             j.at = "commit" => j.row # 0
      PROVE  WorkOK'
  BY <1>a, <1>g DEF WorkOK, ArrivalsFit, At, Goto
<1>i. ASSUME NEW w \in Workers, Stop(w) PROVE WorkOK'
  BY <1>g, <1>i DEF Stop, Idle
<1>s. ASSUME NEW w \in Workers, NEW step \in {"check", "sync", "clear", "fill"}, GoOn(w, step),
             work[w].at \in {"form", "check", "sync", "clear", "fill"}
      PROVE  WorkOK'
  <2>1. [work[w] EXCEPT !.at = step] \in Saves /\ [work[w] EXCEPT !.at = step].at = step
    BY <1>a, <1>s, WorkTypes DEF Saves
  <2> QED
    BY <1>g, <1>s, <2>1 DEF GoOn
<1>c. ASSUME NEW w \in Workers, Claimed(w), work[w].at \in {"claim", "commit"}
      PROVE  WorkOK'
  <2>1. CASE Stop(w)
    BY <1>i, <2>1
  <2>2. CASE GoOn(w, "mark") /\ work[w].by # "signin"
    <3>1. work[w] \in Arrivals
      BY <1>a, <1>c, WorkTypes
    <3>2. /\ [work[w] EXCEPT !.at = "mark"] \in Arrivals
          /\ [work[w] EXCEPT !.at = "mark"].at = "mark"
          /\ [work[w] EXCEPT !.at = "mark"].by = work[w].by /\ work[w].by \in Invitations
      BY <2>2, <3>1 DEF Arrivals
    <3> QED
      BY <1>g, <2>2, <3>2 DEF GoOn
  <2> QED
    BY <1>c, <2>1, <2>2 DEF Claimed
<1>f. ASSUME NEW p \in People, NEW step \in {"join", "claim"}, NEW by \in Invitations \cup {"signin"}
      PROVE  Coming(p, step, by) \in Arrivals /\ Coming(p, step, by).at = step
             /\ Coming(p, step, by).by = by /\ Coming(p, step, by).who = p
  BY <1>f DEF Coming, Arrivals
<1>1. ASSUME NEW i \in Invitations, Invite(i) \/ Expire(i) PROVE TypeInv'
  <2>1. TeamOK'
    BY <1>1, <1>a DEF Invite, Expire, TeamOK
  <2> QED
    BY <1>1, <1>b, <1>w, <2>1 DEF Invite, Expire, TypeInv
<1>2. ASSUME NEW p \in People,
             \/ RemoveMember(p) \/ InviteCollaborator(p) \/ OpenWorkspace(p)
             \/ RemoveCollaborator(p) \/ Register(p)
      PROVE  TypeInv'
  <2>1. CASE RemoveMember(p) \/ Register(p)
    <3>1. TeamOK'
      BY <2>1, <1>a DEF RemoveMember, Register, TeamOK
    <3> QED
      BY <2>1, <1>b, <1>w, <3>1 DEF RemoveMember, Register, TypeInv
  <2>2. CASE InviteCollaborator(p) \/ OpenWorkspace(p) \/ RemoveCollaborator(p)
    <3>1. TeamOK'
      BY <2>2, <1>a DEF InviteCollaborator, OpenWorkspace, RemoveCollaborator, TeamOK
    <3> QED
      BY <2>2, <1>b, <1>w, <3>1 DEF InviteCollaborator, OpenWorkspace, RemoveCollaborator, TypeInv
  <2> QED
    BY <1>2, <2>1, <2>2
<1>3. ASSUME NEW w \in Workers, OpenForm(w) PROVE TypeInv'
  <2>1. PICK ids \in SUBSET (Users \cup assigned), emails \in SUBSET (Invited \cup Waiting) :
           Goto(w, [at |-> "form", ids |-> ids, emails |-> emails, new |-> task = "none"])
    BY <1>3 DEF OpenForm
  <2>2. ids \subseteq People /\ emails \subseteq People
    BY <1>a, OfferedArePeople DEF BoardOK, Waiting
  <2>3. [at |-> "form", ids |-> ids, emails |-> emails, new |-> task = "none"] \in Saves
    BY <2>2 DEF Saves
  <2>4. WorkOK'
    BY <1>g, <2>1, <2>3
  <2> QED
    BY <1>3, <1>b, <1>t, <2>4 DEF OpenForm, TypeInv
<1>4. ASSUME NEW w \in Workers, Submit(w) \/ Close(w) PROVE TypeInv'
  BY <1>4, <1>b, <1>i, <1>s, <1>t DEF Submit, Close, At, TypeInv
<1>5. ASSUME NEW w \in Workers, CheckTask(w) PROVE TypeInv'
  <2>1. WorkOK'
    BY <1>5, <1>i, <1>s DEF CheckTask, At
  <2>2. BoardOK'
    BY <1>5, <1>a DEF CheckTask, BoardOK, Rows
  <2> QED
    BY <1>5, <1>t, <2>1, <2>2 DEF CheckTask, TypeInv
<1>6. ASSUME NEW w \in Workers, SyncWaiting(w) PROVE TypeInv'
  <2>1. WorkOK'
    BY <1>6, <1>i, <1>s DEF SyncWaiting, At
  <2>2. CASE UNCHANGED board
    BY <1>6, <1>b, <1>t, <2>1, <2>2 DEF SyncWaiting, TypeInv
  <2>3. CASE /\ task = "open" /\ waiting' = Synced(work[w]) /\ UNCHANGED <<task, assigned>>
             /\ named' = work[w].ids \cup work[w].emails /\ mixed' \in BOOLEAN
    <3>1. waiting' \in [People -> {0} \cup Rows]
      BY <1>a, <2>3, FreshRowExists DEF BoardOK, Synced
    <3>2. work[w].ids \subseteq People /\ work[w].emails \subseteq People
      BY <1>6, <1>a, WorkTypes DEF SyncWaiting, At, Saves
    <3>3. BoardOK'
      BY <1>a, <2>3, <3>1, <3>2 DEF BoardOK, Rows
    <3> QED
      BY <1>6, <1>t, <2>1, <3>3 DEF SyncWaiting, TypeInv
  <2> QED
    BY <1>6, <2>2, <2>3 DEF SyncWaiting
<1>7. ASSUME NEW w \in Workers, ClearAssignees(w) PROVE TypeInv'
  <2>1. WorkOK'
    BY <1>7, <1>s DEF ClearAssignees, At
  <2>2. BoardOK'
    BY <1>7, <1>a DEF ClearAssignees, BoardOK, Rows
  <2> QED
    BY <1>7, <1>t, <2>1, <2>2 DEF ClearAssignees, TypeInv
<1>8. ASSUME NEW w \in Workers, FillAssignees(w) PROVE TypeInv'
  <2>1. work[w].ids \subseteq People
    BY <1>8, <1>a, WorkTypes DEF FillAssignees, At, Saves
  <2>2. BoardOK'
    BY <1>8, <1>a, <2>1 DEF FillAssignees, BoardOK, Rows
  <2> QED
    BY <1>8, <1>i, <1>t, <2>2 DEF FillAssignees, TypeInv
<1>9. ASSUME NEW w \in Workers, NEW p \in People, SignIn(w, p) PROVE TypeInv'
  BY <1>9, <1>b, <1>f, <1>g, <1>t DEF SignIn, TypeInv
<1>10. ASSUME NEW w \in Workers, NEW i \in Invitations, AcceptInvitation(w, i) PROVE TypeInv'
  <2>1. TeamOK'
    BY <1>10, <1>a DEF AcceptInvitation, TeamOK
  <2>2. Addressee[i] \in People /\ Addressee[i] # Organizer
    BY AddresseeAssumption
  <2>3. WorkOK'
    BY <1>10, <1>f, <1>g, <2>2 DEF AcceptInvitation
  <2> QED
    BY <1>10, <1>b, <2>1, <2>3 DEF AcceptInvitation, TypeInv
<1>11. ASSUME NEW w \in Workers, Join(w) PROVE TypeInv'
  <2>1. work[w] \in Arrivals /\ work[w].by \in Invitations /\ work[w].who # Organizer
    BY <1>11, <1>a, WorkTypes DEF Join, At, WorkOK, ArrivalsFit
  <2>2. CASE Stop(w) /\ UNCHANGED <<account, member, admitted>>
    BY <1>11, <1>b, <1>i, <1>t, <2>2 DEF Join, team, TypeInv
  <2>3. CASE /\ account' = account \cup {work[w].who} /\ member' = member \cup {work[w].who}
             /\ Admit(work[w].by, work[w].who) /\ GoOn(w, "claim")
    <3>1. [work[w] EXCEPT !.at = "claim"] \in Arrivals /\ [work[w] EXCEPT !.at = "claim"].at = "claim"
      BY <2>1 DEF Arrivals
    <3>2. WorkOK'
      BY <1>g, <2>3, <3>1 DEF GoOn
    <3>3. work[w].who \in People
      BY <2>1 DEF Arrivals
    <3>4. admitted' \in [Invitations -> {"nobody", "once", "again", "unsure"}]
      BY <1>a, <2>1, <2>3 DEF Admit, TeamOK
    <3>5. TeamOK'
      BY <1>11, <1>a, <2>1, <2>3, <3>3, <3>4 DEF Join, TeamOK
    <3> QED
      BY <1>11, <1>b, <3>2, <3>5 DEF Join, TypeInv
  <2> QED
    BY <1>11, <2>2, <2>3 DEF Join
<1>12. ASSUME NEW w \in Workers, ReadWaiting(w) PROVE TypeInv'
  <2>1. work[w] \in Arrivals /\ work[w].who \in People
    BY <1>12, <1>a, WorkTypes DEF ReadWaiting, At, Arrivals
  <2>2. CASE Claimed(w)
    BY <1>12, <1>b, <1>c, <1>t, <2>2 DEF ReadWaiting, At, TypeInv
  <2>3. CASE waiting[work[w].who] # 0 /\
             Goto(w, [work[w] EXCEPT !.at = "commit", !.row = waiting[work[w].who]])
    <3> DEFINE k == [work[w] EXCEPT !.at = "commit", !.row = waiting[work[w].who]]
    <3>1. waiting[work[w].who] \in {0} \cup Rows
      BY <1>a, <2>1 DEF BoardOK
    <3>2. k \in Arrivals /\ k.at = "commit" /\ k.row = waiting[work[w].who]
      BY <2>1, <3>1 DEF Arrivals
    <3>3. WorkOK'
      BY <1>g, <2>3, <3>2
    <3> QED
      BY <1>12, <1>b, <1>t, <3>3 DEF ReadWaiting, TypeInv
  <2> QED
    BY <1>12, <2>2, <2>3 DEF ReadWaiting
<1>13. ASSUME NEW w \in Workers, CommitClaim(w) PROVE TypeInv'
  <2>1. work[w] \in Arrivals /\ work[w].who \in People
    BY <1>13, <1>a, WorkTypes DEF CommitClaim, At, Arrivals
  <2>2. CASE task = "open"
    <3>1. Claimed(w) /\ UNCHANGED team
      BY <1>13, <2>2 DEF CommitClaim
    <3>2. mixed' \in BOOLEAN
      BY <1>13, <1>a, <2>2 DEF CommitClaim, Crossed, BoardOK
    <3>3. BoardOK'
      BY <1>13, <1>a, <2>1, <2>2, <3>2 DEF CommitClaim, BoardOK, Rows
    <3> QED
      BY <1>13, <1>c, <1>t, <3>1, <3>3 DEF CommitClaim, At, TypeInv
  <2>3. CASE task = "deleted"
    <3>1. TeamOK'
      BY <1>13, <1>a, <2>3 DEF CommitClaim, TeamOK
    <3>2. Stop(w) /\ UNCHANGED board
      BY <1>13, <2>3 DEF CommitClaim
    <3> QED
      BY <1>b, <1>i, <3>1, <3>2 DEF TypeInv
  <2> QED
    BY <1>13, <2>2, <2>3 DEF CommitClaim
<1>14. ASSUME NEW w \in Workers, MarkAccepted(w) PROVE TypeInv'
  <2>1. TeamOK'
    BY <1>14, <1>a DEF MarkAccepted, TeamOK
  <2> QED
    BY <1>14, <1>b, <1>i, <2>1 DEF MarkAccepted, TypeInv
<1>15. CASE DeleteTask
  <2>1. BoardOK'
    BY <1>15, <1>a DEF DeleteTask, BoardOK, Rows
  <2> QED
    BY <1>15, <1>t, <1>w, <2>1 DEF DeleteTask, TypeInv
<1>16. CASE Crash
  <2>1. WorkOK'
    BY <1>16, <1>a DEF Crash, WorkOK, ArrivalsFit, At, Idle, Saves, Arrivals, Rows
  <2>2. BoardOK'
    <3>1. mixed' \in BOOLEAN
      BY <1>16, <1>a DEF Crash, BoardOK
    <3> QED
      BY <1>16, <1>a, <3>1 DEF Crash, BoardOK, Rows
  <2>3. TeamOK'
    BY <1>16, <1>a DEF Crash, TeamOK
  <2> QED
    BY <2>1, <2>2, <2>3 DEF TypeInv
<1>17. CASE UNCHANGED vars
  BY <1>17, <1>b, <1>t, <1>w DEF vars, board, team, TypeInv
<1> QED
  BY <1>1, <1>2, <1>3, <1>4, <1>5, <1>6, <1>7, <1>8, <1>9, <1>10, <1>11, <1>12, <1>13,
     <1>14, <1>15, <1>16, <1>17
  DEF Next

\* The board, the team and the work at hand have their types in every reachable
\* state; in particular a task that is gone keeps no one.
THEOREM TypeCorrect == Spec => []TypeOK
<1>1. Spec => []TypeInv
  BY InitTypeInv, StepTypeInv, PTL DEF Spec
<1> QED
  BY <1>1, TypeInvImplies, PTL

-----------------------------------------------------------------------------
(***************************************************************************)
(* Layer 2: saves.                                                         *)
(***************************************************************************)
\* Saves that crossed are known to have
OneSave == ~mixed => \A v, w \in Workers : Rewriting(v) /\ Rewriting(w) => v = w

\* What is saved exists, or existed
SavedExists == \A w \in Workers : work[w].at \in {"sync", "clear", "fill"} => task # "none"

\* A new task has no one until its save names them
NewIsEmpty ==
    task = "open" /\ ~mixed =>
        \A w \in Workers : At(w, "sync") /\ work[w].new => assigned = {} /\ Waiting = {}

\* The addresses are written first: the assignees listed before are to go
AddressesSaved ==
    task = "open" /\ ~mixed =>
        \A w \in Workers : At(w, "clear") => Waiting \cup work[w].ids = named

\* ... and those listed now are to come
AssigneesGone ==
    task = "open" /\ ~mixed =>
        \A w \in Workers : At(w, "fill") => assigned \cup Waiting \cup work[w].ids = named

SaveInv == OneSave /\ SavedExists /\ NewIsEmpty /\ AddressesSaved /\ AssigneesGone /\ AsSaved


\* What most steps do to saves: the board is left alone, and no worker begins or
\* ends a rewriting.
LEMMA SaveFrame ==
  ASSUME SaveInv, UNCHANGED board,
         \A v \in Workers :
            \/ work'[v] = work[v]
            \/ /\ ~Rewriting(v) /\ ~Rewriting(v)'
               /\ work'[v].at = "sync" => task # "none"
  PROVE  SaveInv'
<1>1. /\ \A v \in Workers : Rewriting(v)' <=> Rewriting(v)
      /\ \A v \in Workers : Rewriting(v) => work'[v] = work[v]
      /\ UNCHANGED <<task, assigned, waiting, named, mixed, Waiting>>
  BY DEF Rewriting, At, board, Waiting
<1>2. OneSave'
  BY <1>1 DEF SaveInv, OneSave
<1>3. SavedExists'
  <2> SUFFICES ASSUME NEW w \in Workers, work'[w].at \in {"sync", "clear", "fill"}
               PROVE  task # "none"
    BY <1>1 DEF SavedExists
  <2>1. CASE work'[w] = work[w]
    BY <2>1 DEF SaveInv, SavedExists
  <2>2. CASE ~Rewriting(w)' /\ (work'[w].at = "sync" => task # "none")
    BY <2>2 DEF Rewriting, At
  <2> QED
    BY <2>1, <2>2
<1>4. \A w \in Workers :
         /\ At(w, "sync")' /\ work'[w].new => At(w, "sync") /\ work[w].new
         /\ At(w, "clear")' => At(w, "clear") /\ work'[w] = work[w]
         /\ At(w, "fill")' => At(w, "fill") /\ work'[w] = work[w]
  <2>1. \A w \in Workers :
           (At(w, "sync")' /\ work'[w].new) \/ At(w, "clear")' \/ At(w, "fill")' => Rewriting(w)'
    BY DEF Rewriting, At
  <2> QED
    BY <1>1, <2>1 DEF At
<1>5. NewIsEmpty' /\ AddressesSaved' /\ AssigneesGone'
  <2>1. NewIsEmpty'
    BY <1>1, <1>4 DEF SaveInv, NewIsEmpty
  <2>2. AddressesSaved'
    BY <1>1, <1>4 DEF SaveInv, AddressesSaved
  <2>3. AssigneesGone'
    BY <1>1, <1>4 DEF SaveInv, AssigneesGone
  <2> QED
    BY <2>1, <2>2, <2>3
<1>6. AsSaved'
  BY <1>1 DEF SaveInv, AsSaved
<1> QED
  BY <1>2, <1>3, <1>5, <1>6 DEF SaveInv

\* Once the task is gone, saves only end.
LEMMA GoneFrame ==
  ASSUME SaveInv, task' # "open", task # "none" => task' # "none", mixed => mixed',
         \A v \in Workers :
            /\ Rewriting(v)' => Rewriting(v)
            /\ work'[v].at \in {"sync", "clear", "fill"} => work[v].at \in {"sync", "clear", "fill"}
  PROVE  SaveInv'
<1>1. OneSave'
  BY DEF SaveInv, OneSave
<1>2. SavedExists'
  BY DEF SaveInv, SavedExists
<1>3. NewIsEmpty' /\ AddressesSaved' /\ AssigneesGone' /\ AsSaved'
  BY DEF NewIsEmpty, AddressesSaved, AssigneesGone, AsSaved
<1> QED
  BY <1>1, <1>2, <1>3 DEF SaveInv

LEMMA InitSaveInv == Init => SaveInv
<1> SUFFICES ASSUME Init PROVE SaveInv
  OBVIOUS
<1>1. task = "none" /\ \A w \in Workers : work[w].at = "idle"
  BY DEF Init, Idle
<1>2. OneSave /\ SavedExists
  BY <1>1 DEF OneSave, SavedExists, Rewriting, At
<1>3. NewIsEmpty /\ AddressesSaved /\ AssigneesGone /\ AsSaved
  BY <1>1 DEF NewIsEmpty, AddressesSaved, AssigneesGone, AsSaved
<1> QED
  BY <1>2, <1>3 DEF SaveInv

LEMMA StepSaveInv == TypeInv /\ SaveInv /\ [Next]_vars => SaveInv'
<1> SUFFICES ASSUME TypeInv, SaveInv, [Next]_vars PROVE SaveInv'
  OBVIOUS
<1>a. BoardOK /\ TeamOK /\ WorkOK
  BY DEF TypeInv
<1>d. DOMAIN work = Workers /\ Idle.at = "idle"
  BY <1>a DEF WorkOK, Idle
<1>k. ASSUME NEW w \in Workers, work[w] # Idle, NEW step
      PROVE  /\ [work[w] EXCEPT !.at = step].at = step
             /\ work[w].at \in {"form", "check", "sync", "clear", "fill"} =>
                  LET k == [work[w] EXCEPT !.at = step] IN
                  k.ids = work[w].ids /\ k.emails = work[w].emails /\ k.new = work[w].new
  BY <1>a, <1>k, WorkTypes DEF Saves, Arrivals
\* A worker whose step is not one of a save
<1>f. ASSUME NEW w \in Workers, NEW j, Goto(w, j), UNCHANGED board, ~Rewriting(w),
             j.at \notin {"sync", "clear", "fill"}
      PROVE  SaveInv'
  <2>1. work'[w] = j /\ \A v \in Workers \ {w} : work'[v] = work[v]
    BY <1>d, <1>f DEF Goto
  <2>2. ~Rewriting(w)'
    BY <1>f, <2>1 DEF Rewriting, At
  <2> QED
    BY <1>f, <2>1, <2>2, SaveFrame
<1>o. ASSUME NEW w \in Workers, NEW step, GoOn(w, step), UNCHANGED board, ~Rewriting(w),
             work[w] # Idle, step \notin {"sync", "clear", "fill"}
      PROVE  SaveInv'
  <2>1. [work[w] EXCEPT !.at = step].at \notin {"sync", "clear", "fill"}
    BY <1>k, <1>o
  <2>2. Goto(w, [work[w] EXCEPT !.at = step])
    BY <1>o DEF GoOn
  <2> QED
    BY <1>f, <1>o, <2>1, <2>2
<1>i. ASSUME NEW w \in Workers, Stop(w), UNCHANGED board, ~Rewriting(w)
      PROVE  SaveInv'
  BY <1>d, <1>f, <1>i DEF Stop
<1>c. ASSUME NEW w \in Workers, work[w].at \in {"claim", "commit"}, Claimed(w)
      PROVE  /\ work'[w].at \in {"idle", "mark"}
             /\ \A v \in Workers \ {w} : work'[v] = work[v]
  <2>1. work[w] # Idle
    BY <1>c, <1>d
  <2>2. [work[w] EXCEPT !.at = "mark"].at = "mark"
    BY <1>k, <2>1
  <2> QED
    BY <1>c, <1>d, <2>2 DEF Claimed, Stop, GoOn, Goto
<1>1. ASSUME NEW i \in Invitations, Invite(i) \/ Expire(i) PROVE SaveInv'
  BY <1>1, SaveFrame DEF Invite, Expire
<1>2. ASSUME NEW p \in People,
             \/ RemoveMember(p) \/ InviteCollaborator(p) \/ OpenWorkspace(p)
             \/ RemoveCollaborator(p) \/ Register(p)
      PROVE  SaveInv'
  <2>1. UNCHANGED <<board, work>>
    BY <1>2 DEF RemoveMember, InviteCollaborator, OpenWorkspace, RemoveCollaborator, Register
  <2> QED
    BY <2>1, SaveFrame
<1>3. ASSUME NEW w \in Workers, OpenForm(w) PROVE SaveInv'
  <2>1. PICK ids, emails, new :
           Goto(w, [at |-> "form", ids |-> ids, emails |-> emails, new |-> new])
    BY <1>3 DEF OpenForm
  <2>2. ~Rewriting(w) /\ UNCHANGED board
    BY <1>3 DEF OpenForm, Rewriting, At
  <2> QED
    BY <1>f, <2>1, <2>2
<1>4. ASSUME NEW w \in Workers, Submit(w) \/ Close(w) PROVE SaveInv'
  <2>1. ~Rewriting(w) /\ UNCHANGED board /\ work[w] # Idle
    BY <1>4, <1>d DEF Submit, Close, Rewriting, At
  <2> QED
    BY <1>4, <1>i, <1>o, <2>1 DEF Submit, Close
<1>5. ASSUME NEW w \in Workers, CheckTask(w) PROVE SaveInv'
  <2>1. ~Rewriting(w) /\ work[w] # Idle /\ work[w] \in Saves
    BY <1>5, <1>a, <1>d, WorkTypes DEF CheckTask, Rewriting, At
  <2> DEFINE k == [work[w] EXCEPT !.at = "sync"]
  <2>2. k.at = "sync" /\ k.new = work[w].new /\ k.new \in BOOLEAN
    BY <2>1 DEF Saves
  <2>3. CASE Stop(w) /\ UNCHANGED task
    BY <1>5, <1>i, <2>1, <2>3 DEF CheckTask, board
  <2>4. CASE task = "open" /\ task' = "open" /\ Goto(w, k) /\ ~work[w].new
    <3>1. work'[w] = k /\ \A v \in Workers \ {w} : work'[v] = work[v]
      BY <1>d, <2>4 DEF Goto
    <3>2. ~Rewriting(w)'
      BY <2>2, <2>4, <3>1 DEF Rewriting, At
    <3> QED
      BY <1>5, <2>1, <2>4, <3>1, <3>2, SaveFrame DEF CheckTask, board
  <2>5. CASE task = "none" /\ task' = "open" /\ Goto(w, k) /\ work[w].new
    <3>1. work'[w] = k /\ \A v \in Workers \ {w} : work'[v] = work[v]
      BY <1>d, <2>5 DEF Goto
    <3>2. \A v \in Workers : work[v].at \notin {"sync", "clear", "fill"}
      BY <2>5 DEF SaveInv, SavedExists
    <3>3. \A v \in Workers \ {w} : work'[v].at \notin {"sync", "clear", "fill"}
      BY <3>1, <3>2
    <3>4. work'[w].at = "sync" /\ Rewriting(w)'
      BY <2>2, <2>5, <3>1 DEF Rewriting, At
    <3>5. \A v \in Workers : Rewriting(v)' => v = w
      BY <3>3 DEF Rewriting, At
    <3>6. assigned' = {} /\ Waiting' = {}
      BY <1>5, <1>a, <2>5 DEF CheckTask, BoardOK, Waiting
    <3>7. OneSave'
      BY <3>5 DEF OneSave
    <3>8. SavedExists'
      BY <2>5 DEF SavedExists
    <3>9. NewIsEmpty' /\ AddressesSaved' /\ AssigneesGone'
      BY <3>3, <3>4, <3>6 DEF NewIsEmpty, AddressesSaved, AssigneesGone, At
    <3>10. AsSaved'
      BY <3>4 DEF AsSaved
    <3> QED
      BY <3>7, <3>8, <3>9, <3>10 DEF SaveInv
  <2> QED
    BY <1>5, <2>2, <2>3, <2>4, <2>5 DEF CheckTask, GoOn
<1>6. ASSUME NEW w \in Workers, SyncWaiting(w) PROVE SaveInv'
  <2>1. work[w] # Idle /\ work[w] \in Saves /\ work[w].at = "sync"
    BY <1>6, <1>a, <1>d, WorkTypes DEF SyncWaiting, At
  <2>2. CASE task = "deleted" /\ Stop(w) /\ UNCHANGED board
    <3>1. work'[w] = Idle /\ \A v \in Workers \ {w} : work'[v] = work[v]
      BY <1>d, <2>2 DEF Stop, Goto
    <3>2. /\ \A v \in Workers : Rewriting(v)' => Rewriting(v)
          /\ \A v \in Workers : work'[v].at \in {"sync", "clear", "fill"} =>
                work[v].at \in {"sync", "clear", "fill"}
      BY <1>d, <3>1 DEF Rewriting, At
    <3> QED
      BY <2>2, <3>2, GoneFrame DEF board
  <2>3. CASE task = "open"
    <3> DEFINE j == work[w]
               k == [work[w] EXCEPT !.at = IF work[w].new THEN "fill" ELSE "clear"]
    <3>1. /\ waiting' = Synced(j) /\ named' = j.ids \cup j.emails
          /\ mixed' = ((j.new /\ mixed) \/ \E o \in Workers \ {w} : Rewriting(o))
          /\ Goto(w, k) /\ task' = "open" /\ assigned' = assigned
      BY <1>6, <2>3 DEF SyncWaiting, GoOn
    <3>2. /\ work'[w] = k /\ \A v \in Workers \ {w} : work'[v] = work[v]
          /\ k.at = (IF j.new THEN "fill" ELSE "clear") /\ k.ids = j.ids
          /\ j.emails \subseteq People /\ j.new \in BOOLEAN
      BY <1>d, <2>1, <3>1 DEF Goto, Saves
    <3>3. Waiting' = j.emails
      <4>1. \A p \in People : waiting'[p] # 0 <=> p \in j.emails
        BY <3>1, FreshRowExists DEF Synced
      <4> QED
        BY <3>2, <4>1 DEF Waiting
    <3>4. Rewriting(w)'
      BY <3>2 DEF Rewriting, At
    <3>5. ~mixed' => /\ \A v \in Workers \ {w} : ~Rewriting(v) /\ ~Rewriting(v)'
                     /\ j.new => ~mixed
      BY <3>1, <3>2 DEF Rewriting, At
    <3>6. ~mixed' => \A v \in Workers \ {w} :
             /\ ~(At(v, "sync")' /\ work'[v].new) /\ ~At(v, "clear")' /\ ~At(v, "fill")'
      BY <3>5 DEF Rewriting, At
    <3>7. OneSave'
      BY <3>5 DEF OneSave
    <3>8. SavedExists'
      BY <3>1 DEF SavedExists
    <3>9. NewIsEmpty' /\ AddressesSaved'
      <4>1. /\ ~(At(w, "sync")' /\ work'[w].new)
            /\ At(w, "clear")' => Waiting' \cup work'[w].ids = named'
        <5> HIDE DEF k
        <5> QED
          BY <3>1, <3>2, <3>3 DEF At
      <4> QED
        BY <3>6, <4>1 DEF NewIsEmpty, AddressesSaved
    <3>10. AssigneesGone'
      <4>1. ASSUME ~mixed', j.new PROVE assigned = {}
        BY <2>1, <2>3, <3>5, <4>1 DEF SaveInv, NewIsEmpty, At
      <4>2. ~mixed' /\ At(w, "fill")' => assigned' \cup Waiting' \cup work'[w].ids = named'
        <5> HIDE DEF k
        <5> QED
          BY <3>1, <3>2, <3>3, <4>1 DEF At
      <4> QED
        BY <3>6, <4>2 DEF AssigneesGone
    <3>11. AsSaved'
      BY <3>4 DEF AsSaved
    <3> QED
      BY <3>7, <3>8, <3>9, <3>10, <3>11 DEF SaveInv
  <2> QED
    BY <1>6, <2>2, <2>3 DEF SyncWaiting, board
<1>7. ASSUME NEW w \in Workers, ClearAssignees(w) PROVE SaveInv'
  <2> DEFINE j == work[w]
             k == [work[w] EXCEPT !.at = "fill"]
  <2>1. /\ work[w] # Idle /\ work[w] \in Saves /\ work[w].at = "clear" /\ Rewriting(w)
        /\ assigned' = {} /\ Goto(w, k) /\ UNCHANGED <<task, waiting, named, mixed>>
    BY <1>7, <1>a, <1>d, WorkTypes DEF ClearAssignees, At, Rewriting, GoOn
  <2>2. /\ work'[w] = k /\ \A v \in Workers \ {w} : work'[v] = work[v]
        /\ k.at = "fill" /\ k.ids = j.ids
    BY <1>d, <2>1 DEF Goto, Saves
  <2>3. \A v \in Workers : Rewriting(v)' <=> Rewriting(v)
    BY <2>1, <2>2 DEF Rewriting, At
  <2>4. CASE task # "open"
    BY <2>1, <2>2, <2>3, <2>4, GoneFrame
  <2>5. CASE task = "open"
    <3>1. OneSave'
      BY <2>1, <2>3 DEF SaveInv, OneSave
    <3>2. SavedExists'
      BY <2>1, <2>5 DEF SavedExists
    <3>3. ~mixed => \A v \in Workers \ {w} : ~Rewriting(v)'
      BY <2>1, <2>3 DEF SaveInv, OneSave
    <3>4. ~mixed => \A v \in Workers \ {w} :
             /\ ~(At(v, "sync")' /\ work'[v].new) /\ ~At(v, "clear")' /\ ~At(v, "fill")'
      BY <3>3 DEF Rewriting, At
    <3>5. NewIsEmpty' /\ AddressesSaved'
      BY <2>1, <2>2, <3>4 DEF NewIsEmpty, AddressesSaved, At
    <3>6. ~mixed => Waiting \cup j.ids = named
      BY <2>1, <2>5 DEF SaveInv, AddressesSaved, At
    <3>7. Waiting' = Waiting
      BY <2>1 DEF Waiting
    <3>8. AssigneesGone'
      BY <2>1, <2>2, <3>4, <3>6, <3>7 DEF AssigneesGone, At
    <3>9. AsSaved'
      BY <2>1, <2>3 DEF AsSaved
    <3> QED
      BY <3>1, <3>2, <3>5, <3>8, <3>9 DEF SaveInv
  <2> QED
    BY <2>4, <2>5
<1>8. ASSUME NEW w \in Workers, FillAssignees(w) PROVE SaveInv'
  <2>1. /\ work[w].at = "fill" /\ Rewriting(w) /\ Stop(w) /\ UNCHANGED <<task, waiting, named, mixed>>
        /\ assigned' = IF task = "open" THEN assigned \cup work[w].ids ELSE assigned
    BY <1>8 DEF FillAssignees, At, Rewriting
  <2>2. work'[w] = Idle /\ \A v \in Workers \ {w} : work'[v] = work[v]
    BY <1>d, <2>1 DEF Stop, Goto
  <2>3. /\ \A v \in Workers : Rewriting(v)' => Rewriting(v) /\ v # w
        /\ \A v \in Workers : work'[v].at \in {"sync", "clear", "fill"} =>
              work[v].at \in {"sync", "clear", "fill"}
    BY <1>d, <2>2 DEF Rewriting, At
  <2>4. CASE task # "open"
    BY <2>1, <2>3, <2>4, GoneFrame
  <2>5. CASE task = "open"
    <3>1. OneSave'
      BY <2>1, <2>3 DEF SaveInv, OneSave
    <3>2. SavedExists'
      BY <2>1, <2>5 DEF SavedExists
    <3>3. ~mixed => \A v \in Workers : ~Rewriting(v)'
      BY <2>1, <2>3 DEF SaveInv, OneSave
    <3>4. ~mixed => \A v \in Workers :
             /\ ~(At(v, "sync")' /\ work'[v].new) /\ ~At(v, "clear")' /\ ~At(v, "fill")'
      BY <3>3 DEF Rewriting, At
    <3>5. NewIsEmpty' /\ AddressesSaved' /\ AssigneesGone'
      BY <2>1, <3>4 DEF NewIsEmpty, AddressesSaved, AssigneesGone
    <3>6. ~mixed => assigned \cup Waiting \cup work[w].ids = named
      BY <2>1, <2>5 DEF SaveInv, AssigneesGone, At
    <3>7. Waiting' = Waiting
      BY <2>1 DEF Waiting
    <3>8. AsSaved'
      BY <2>1, <2>5, <3>6, <3>7 DEF AsSaved
    <3> QED
      BY <3>1, <3>2, <3>5, <3>8 DEF SaveInv
  <2> QED
    BY <2>4, <2>5
<1>9. ASSUME NEW w \in Workers, NEW p \in People, SignIn(w, p) PROVE SaveInv'
  <2>1. ~Rewriting(w) /\ UNCHANGED board /\ Goto(w, Coming(p, "claim", "signin"))
    BY <1>9 DEF SignIn, Rewriting, At
  <2>2. Coming(p, "claim", "signin").at = "claim"
    BY DEF Coming
  <2> QED
    BY <1>f, <2>1, <2>2
<1>10. ASSUME NEW w \in Workers, NEW i \in Invitations, AcceptInvitation(w, i) PROVE SaveInv'
  <2>1. ~Rewriting(w) /\ UNCHANGED board /\ Goto(w, Coming(Addressee[i], "join", i))
    BY <1>10 DEF AcceptInvitation, Rewriting, At
  <2>2. Coming(Addressee[i], "join", i).at = "join"
    BY DEF Coming
  <2> QED
    BY <1>f, <2>1, <2>2
<1>11. ASSUME NEW w \in Workers, Join(w) PROVE SaveInv'
  <2>1. ~Rewriting(w) /\ UNCHANGED board /\ work[w] # Idle
    BY <1>11, <1>d DEF Join, Rewriting, At
  <2> QED
    BY <1>11, <1>i, <1>o, <2>1 DEF Join
<1>12. ASSUME NEW w \in Workers, ReadWaiting(w) PROVE SaveInv'
  <2>1. ~Rewriting(w) /\ UNCHANGED board /\ work[w].at = "claim"
    BY <1>12 DEF ReadWaiting, Rewriting, At
  <2>2. CASE Claimed(w)
    <3>1. /\ work'[w].at \in {"idle", "mark"}
          /\ \A v \in Workers \ {w} : work'[v] = work[v]
      BY <1>c, <2>1, <2>2
    <3>2. ~Rewriting(w)'
      BY <3>1 DEF Rewriting, At
    <3> QED
      BY <2>1, <3>1, <3>2, SaveFrame
  <2>3. CASE Goto(w, [work[w] EXCEPT !.at = "commit", !.row = waiting[work[w].who]])
    <3>1. [work[w] EXCEPT !.at = "commit", !.row = waiting[work[w].who]].at = "commit"
      BY <1>a, <2>1, WorkTypes DEF Arrivals
    <3> QED
      BY <1>f, <2>1, <2>3, <3>1
  <2> QED
    BY <1>12, <2>2, <2>3 DEF ReadWaiting
<1>13. ASSUME NEW w \in Workers, CommitClaim(w) PROVE SaveInv'
  <2> DEFINE p == work[w].who
  <2>1. /\ work[w].at = "commit" /\ ~Rewriting(w) /\ p \in People /\ work[w].row # 0
    BY <1>13, <1>a, WorkTypes DEF CommitClaim, At, Rewriting, Arrivals, WorkOK, ArrivalsFit
  <2>2. CASE task = "deleted"
    BY <1>13, <1>i, <2>1, <2>2 DEF CommitClaim
  <2>3. CASE task = "open"
    <3>1. /\ task' = "open" /\ named' = named /\ assigned' = assigned \cup {p}
          /\ waiting' = [waiting EXCEPT ![p] = IF @ = work[w].row THEN 0 ELSE @]
          /\ mixed' = Crossed(p, work[w].row) /\ Claimed(w)
      BY <1>13, <2>3 DEF CommitClaim
    <3>2. /\ work'[w].at \in {"idle", "mark"} /\ \A v \in Workers \ {w} : work'[v] = work[v]
      BY <1>c, <2>1, <3>1
    <3>3. /\ \A v \in Workers : Rewriting(v)' <=> Rewriting(v)
          /\ \A v \in Workers : Rewriting(v) => work'[v] = work[v]
      BY <2>1, <3>2 DEF Rewriting, At
    <3>4. ASSUME ~mixed'
          PROVE  /\ ~mixed /\ waiting[p] = work[w].row /\ \A o \in Workers : ~At(o, "clear")
                 /\ p \in Waiting /\ assigned' \cup Waiting' = assigned \cup Waiting
      <4>1. ~mixed /\ waiting[p] = work[w].row /\ \A o \in Workers : ~At(o, "clear")
        BY <3>1, <3>4 DEF Crossed
      <4>2. p \in Waiting
        BY <2>1, <4>1 DEF Waiting
      <4>3. Waiting' = Waiting \ {p}
        BY <1>a, <2>1, <3>1, <4>1 DEF Waiting, BoardOK
      <4> QED
        BY <3>1, <4>1, <4>2, <4>3
    <3>5. OneSave'
      BY <3>3, <3>4 DEF SaveInv, OneSave
    <3>6. SavedExists'
      BY <3>1 DEF SavedExists
    <3>7. \A v \in Workers :
             /\ At(v, "sync")' /\ work'[v].new => At(v, "sync") /\ work[v].new
             /\ At(v, "clear")' => At(v, "clear")
             /\ At(v, "fill")' => At(v, "fill") /\ work'[v] = work[v]
      BY <3>2 DEF At
    <3>8. NewIsEmpty'
      BY <2>3, <3>4, <3>7 DEF SaveInv, NewIsEmpty
    <3>9. AddressesSaved'
      BY <3>4, <3>7 DEF AddressesSaved
    <3>10. AssigneesGone'
      BY <2>3, <3>1, <3>4, <3>7 DEF SaveInv, AssigneesGone
    <3>11. AsSaved'
      BY <2>3, <3>1, <3>3, <3>4 DEF SaveInv, AsSaved
    <3> QED
      BY <3>5, <3>6, <3>8, <3>9, <3>10, <3>11 DEF SaveInv
  <2> QED
    BY <1>13, <2>2, <2>3 DEF CommitClaim
<1>14. ASSUME NEW w \in Workers, MarkAccepted(w) PROVE SaveInv'
  BY <1>14, <1>i DEF MarkAccepted, Rewriting, At
<1>15. CASE DeleteTask
  <2>1. task' = "deleted" /\ UNCHANGED <<mixed, work>>
    BY <1>15 DEF DeleteTask
  <2> QED
    BY <2>1, GoneFrame DEF Rewriting, At
<1>16. CASE Crash
  <2>1. \A v \in Workers : work'[v].at \in {"form", "idle"}
    BY <1>16, <1>d DEF Crash, At
  <2>2. \A v \in Workers : ~Rewriting(v)'
    BY <2>1 DEF Rewriting, At
  <2>3. OneSave' /\ SavedExists' /\ NewIsEmpty' /\ AddressesSaved' /\ AssigneesGone'
    BY <2>1, <2>2 DEF OneSave, SavedExists, NewIsEmpty, AddressesSaved, AssigneesGone, At
  <2>4. /\ ~mixed' => ~mixed /\ \A w \in Workers : ~Rewriting(w)
        /\ UNCHANGED <<task, assigned, waiting, named>>
    BY <1>16 DEF Crash
  <2>5. Waiting' = Waiting
    BY <2>4 DEF Waiting
  <2>6. AsSaved'
    BY <2>4, <2>5 DEF SaveInv, AsSaved
  <2> QED
    BY <2>3, <2>6 DEF SaveInv
<1>17. CASE UNCHANGED vars
  BY <1>17, SaveFrame DEF vars, board
<1> QED
  BY <1>1, <1>2, <1>3, <1>4, <1>5, <1>6, <1>7, <1>8, <1>9, <1>10, <1>11, <1>12, <1>13,
     <1>14, <1>15, <1>16, <1>17
  DEF Next

(***************************************************************************)
(* Once no save is at work, the persons on a task, by account or by        *)
(* address, are those the last save named, however many of them signed in  *)
(* or joined before, during or after it; unless two saves, or a save and a *)
(* claim, crossed.                                                         *)
(***************************************************************************)
THEOREM SavedAsNamed == Spec => []AsSaved
<1>1. SaveInv => AsSaved
  BY DEF SaveInv
<1> QED
  BY <1>1, InitTypeInv, StepTypeInv, InitSaveInv, StepSaveInv, PTL DEF Spec

-----------------------------------------------------------------------------
(***************************************************************************)
(* Layer 3: links.                                                         *)
(***************************************************************************)
Follows(w, i) == Accepting(w) /\ work[w].by = i

\* A link being followed was sent
FollowedWasSent == \A w \in Workers : Accepting(w) => invitation[work[w].by] # "none"

\* Two who follow the same link are known to
FollowedOnce ==
    \A i \in Invitations, v, w \in Workers :
        Follows(v, i) /\ Follows(w, i) /\ v # w => admitted[i] = "unsure"

\* A link that admitted is no longer open, or its acceptance is under way
AdmittedIsClosed ==
    \A i \in Invitations : admitted[i] = "once" =>
        \/ invitation[i] \in {"ACCEPTED", "EXPIRED"}
        \/ \E w \in Workers : Follows(w, i) /\ ~At(w, "join")

\* A link that is about to admit has not
JoiningIsFirst ==
    \A w \in Workers : At(w, "join") => admitted[work[w].by] \in {"nobody", "unsure"}

LinkInv == FollowedWasSent /\ FollowedOnce /\ AdmittedIsClosed /\ JoiningIsFirst /\ AdmitsOnce

\* Who follows a link is at one of four steps, and the link is one of those sent.
FollowersOK ==
    \A w \in Workers :
        /\ Accepting(w) => work[w].by \in Invitations /\ Follows(w, work[w].by)
        /\ At(w, "join") => Accepting(w)

LEMMA FollowersFit == TypeInv => FollowersOK
<1> SUFFICES ASSUME TypeInv, NEW w \in Workers
             PROVE  /\ Accepting(w) => work[w].by \in Invitations /\ Follows(w, work[w].by)
                    /\ At(w, "join") => Accepting(w)
  BY DEF FollowersOK
<1>1. ASSUME Accepting(w) PROVE work[w].by \in Invitations
  BY <1>1, WorkTypes DEF TypeInv, Accepting, Arrivals
<1>2. ASSUME At(w, "join") PROVE Accepting(w)
  <2>1. work[w].by \in Invitations
    BY <1>2 DEF TypeInv, WorkOK, ArrivalsFit
  <2> QED
    BY <1>2, <2>1, LinksAssumption DEF Accepting, At
<1> QED
  BY <1>1, <1>2 DEF Follows

LEMMA FollowersFitNext == TypeInv' => FollowersOK'
  BY FollowersFit, PTL

\* What most steps do to links: none is reopened, none is followed anew, and a
\* follower leaves only before it was admitted, once the link is closed, or to
\* leave its outcome unknown.
LEMMA LinkFrame ==
  ASSUME TypeInv, TypeInv', LinkInv,
         \A v \in Workers, i \in Invitations :
            /\ Follows(v, i)' => Follows(v, i) /\ (At(v, "join")' => At(v, "join"))
            /\ Follows(v, i) /\ ~At(v, "join") =>
                  \/ Follows(v, i)' /\ ~At(v, "join")'
                  \/ admitted'[i] # "once" \/ invitation'[i] \in {"ACCEPTED", "EXPIRED"},
         \A i \in Invitations :
            /\ invitation[i] # "none" => invitation'[i] # "none"
            /\ invitation[i] \in {"ACCEPTED", "EXPIRED"} =>
                  invitation'[i] \in {"ACCEPTED", "EXPIRED"}
            /\ admitted'[i] = admitted[i] \/ admitted'[i] = "unsure"
  PROVE  LinkInv'
<1>1. FollowedWasSent'
  BY FollowersFitNext DEF LinkInv, FollowersOK, FollowedWasSent, Follows
<1>2. FollowedOnce'
  BY DEF LinkInv, FollowedOnce
<1>3. AdmittedIsClosed'
  <2> SUFFICES ASSUME NEW i \in Invitations, admitted'[i] = "once",
                      invitation'[i] \notin {"ACCEPTED", "EXPIRED"}
               PROVE  \E w \in Workers : Follows(w, i)' /\ ~At(w, "join")'
    BY DEF AdmittedIsClosed
  <2>1. PICK w \in Workers : Follows(w, i) /\ ~At(w, "join")
    BY DEF LinkInv, AdmittedIsClosed
  <2> QED
    BY <2>1
<1>4. JoiningIsFirst'
  <2> SUFFICES ASSUME NEW w \in Workers, At(w, "join")'
               PROVE  admitted'[work'[w].by] \in {"nobody", "unsure"}
    BY DEF JoiningIsFirst
  <2>1. work'[w].by \in Invitations /\ Accepting(w)'
    BY FollowersFitNext DEF FollowersOK
  <2>2. PICK i \in Invitations : i = work'[w].by /\ Follows(w, i)'
    BY <2>1 DEF Follows
  <2>3. Follows(w, i) /\ At(w, "join")
    BY <2>2
  <2>4. admitted[i] \in {"nobody", "unsure"}
    BY <2>3 DEF LinkInv, JoiningIsFirst, Follows
  <2> QED
    BY <2>2, <2>4
<1>5. AdmitsOnce'
  BY DEF LinkInv, AdmitsOnce
<1> QED
  BY <1>1, <1>2, <1>3, <1>4, <1>5 DEF LinkInv

LEMMA InitLinkInv == Init => LinkInv
<1> SUFFICES ASSUME Init PROVE LinkInv
  OBVIOUS
<1>1. /\ \A w \in Workers : work[w].at = "idle"
      /\ \A i \in Invitations : admitted[i] = "nobody"
  BY DEF Init, Idle
<1>2. \A w \in Workers : ~Accepting(w) /\ ~At(w, "join")
  BY <1>1 DEF Accepting, At
<1> QED
  BY <1>1, <1>2 DEF LinkInv, FollowedWasSent, FollowedOnce, AdmittedIsClosed, JoiningIsFirst,
                    AdmitsOnce, Follows

LEMMA StepLinkInv == TypeInv /\ TypeInv' /\ LinkInv /\ [Next]_vars => LinkInv'
<1> SUFFICES ASSUME TypeInv, TypeInv', LinkInv, [Next]_vars PROVE LinkInv'
  OBVIOUS
<1>a. TeamOK /\ WorkOK
  BY DEF TypeInv
<1>d. DOMAIN work = Workers /\ Idle.at = "idle"
  BY <1>a DEF WorkOK, Idle
\* Nobody's acceptance goes on
<1>n. ASSUME \A v \in Workers : work'[v] = work[v] \/ (~Accepting(v) /\ ~Accepting(v)'),
             UNCHANGED admitted,
             \A i \in Invitations :
                /\ invitation[i] # "none" => invitation'[i] # "none"
                /\ invitation[i] \in {"ACCEPTED", "EXPIRED"} =>
                      invitation'[i] \in {"ACCEPTED", "EXPIRED"}
      PROVE  LinkInv'
  <2>1. \A v \in Workers, i \in Invitations :
           /\ Follows(v, i)' => Follows(v, i) /\ (At(v, "join")' => At(v, "join"))
           /\ Follows(v, i) /\ ~At(v, "join") => Follows(v, i)' /\ ~At(v, "join")'
    BY <1>n DEF Follows, Accepting, At
  <2> QED
    BY <1>n, <2>1, LinkFrame
\* One acceptance goes on after it joined, or another call does
<1>f. ASSUME NEW w \in Workers, NEW j, Goto(w, j), UNCHANGED team, ~At(w, "join"),
             \/ /\ work[w].at \in {"claim", "commit", "mark"}
                /\ j.at \in {"claim", "commit", "mark"} /\ j.by = work[w].by
             \/ /\ ~Accepting(w)
                /\ j.at \notin {"join", "claim", "commit", "mark"} \/ j.by = "signin"
      PROVE  LinkInv'
  <2>1. work'[w] = j /\ \A v \in Workers \ {w} : work'[v] = work[v]
    BY <1>d, <1>f DEF Goto
  <2>2. CASE /\ work[w].at \in {"claim", "commit", "mark"}
             /\ j.at \in {"claim", "commit", "mark"} /\ j.by = work[w].by
    <3>1. \A v \in Workers, i \in Invitations :
             /\ Follows(v, i)' => Follows(v, i) /\ (At(v, "join")' => At(v, "join"))
             /\ Follows(v, i) /\ ~At(v, "join") => Follows(v, i)' /\ ~At(v, "join")'
      BY <2>1, <2>2 DEF Follows, Accepting, At
    <3> QED
      BY <1>f, <3>1, LinkFrame DEF team
  <2>3. CASE ~Accepting(w) /\ (j.at \notin {"join", "claim", "commit", "mark"} \/ j.by = "signin")
    <3>1. ~Accepting(w)'
      BY <2>1, <2>3 DEF Accepting
    <3> QED
      BY <1>f, <1>n, <2>1, <2>3, <3>1 DEF team
  <2> QED
    BY <1>f, <2>2, <2>3
\* A worker that saves, or is idle, accepts nothing
<1>s. ASSUME NEW w \in Workers, work[w].at \in {"idle", "form", "check", "sync", "clear", "fill"}
      PROVE  ~Accepting(w) /\ ~At(w, "join")
  <2>1. work[w].at \notin {"join", "claim", "commit", "mark"}
    BY <1>s
  <2> QED
    BY <2>1 DEF Accepting, At
<1>o. ASSUME NEW w \in Workers, UNCHANGED team,
             work[w].at \in {"form", "check", "sync", "clear", "fill"},
             Stop(w) \/ \E step \in {"check", "sync", "clear", "fill"} : GoOn(w, step)
      PROVE  LinkInv'
  <2>1. CASE Stop(w)
    BY <1>d, <1>f, <1>o, <1>s, <2>1 DEF Stop
  <2>2. ASSUME NEW step \in {"check", "sync", "clear", "fill"}, GoOn(w, step) PROVE LinkInv'
    <3>1. work[w] \in Saves
      BY <1>a, <1>o, WorkTypes
    <3>2. [work[w] EXCEPT !.at = step].at = step
      BY <3>1 DEF Saves
    <3>3. Goto(w, [work[w] EXCEPT !.at = step])
      BY <2>2 DEF GoOn
    <3> QED
      BY <1>f, <1>o, <1>s, <3>2, <3>3
  <2> QED
    BY <1>o, <2>1, <2>2
\* A claim that goes on
<1>c. ASSUME NEW w \in Workers, work[w].at \in {"claim", "commit"}, Claimed(w), UNCHANGED team
      PROVE  LinkInv'
  <2>1. ~At(w, "join") /\ work[w] \in Arrivals
    BY <1>a, <1>c, WorkTypes DEF At
  <2>2. CASE work[w].by = "signin"
    <3>1. ~Accepting(w) /\ Goto(w, Idle)
      BY <1>c, <2>2 DEF Accepting, Claimed, Stop
    <3> QED
      BY <1>c, <1>d, <1>f, <2>1, <3>1
  <2>3. CASE work[w].by # "signin"
    <3>1. Goto(w, [work[w] EXCEPT !.at = "mark"])
      BY <1>c, <2>3 DEF Claimed, GoOn
    <3>2. /\ [work[w] EXCEPT !.at = "mark"].at = "mark"
          /\ [work[w] EXCEPT !.at = "mark"].by = work[w].by
      BY <2>1 DEF Arrivals
    <3> QED
      BY <1>c, <1>f, <2>1, <3>1, <3>2
  <2> QED
    BY <2>2, <2>3
<1>1. ASSUME NEW i \in Invitations, Invite(i) \/ Expire(i) PROVE LinkInv'
  <2>1. UNCHANGED <<work, admitted>>
    BY <1>1 DEF Invite, Expire
  <2>2. \A k \in Invitations :
           /\ invitation[k] # "none" => invitation'[k] # "none"
           /\ invitation[k] \in {"ACCEPTED", "EXPIRED"} =>
                 invitation'[k] \in {"ACCEPTED", "EXPIRED"}
    BY <1>1, <1>a DEF Invite, Expire, TeamOK
  <2> QED
    BY <1>n, <2>1, <2>2
<1>2. ASSUME NEW p \in People,
             \/ RemoveMember(p) \/ InviteCollaborator(p) \/ OpenWorkspace(p)
             \/ RemoveCollaborator(p) \/ Register(p)
      PROVE  LinkInv'
  <2>1. UNCHANGED <<work, admitted, invitation>>
    BY <1>2 DEF RemoveMember, InviteCollaborator, OpenWorkspace, RemoveCollaborator, Register
  <2> QED
    BY <1>n, <2>1
<1>3. ASSUME NEW w \in Workers, OpenForm(w) PROVE LinkInv'
  <2>1. PICK ids, emails, new :
           Goto(w, [at |-> "form", ids |-> ids, emails |-> emails, new |-> new])
    BY <1>3 DEF OpenForm
  <2>2. work[w].at = "idle" /\ UNCHANGED team
    BY <1>3 DEF OpenForm, At
  <2> QED
    BY <1>f, <1>s, <2>1, <2>2
<1>4. ASSUME NEW w \in Workers,
             \/ Submit(w) \/ Close(w) \/ CheckTask(w) \/ SyncWaiting(w)
             \/ ClearAssignees(w) \/ FillAssignees(w)
      PROVE  LinkInv'
  <2>1. CASE Submit(w) \/ Close(w)
    BY <1>o, <2>1 DEF Submit, Close, At
  <2>2. CASE CheckTask(w)
    BY <1>o, <2>2 DEF CheckTask, At
  <2>3. CASE SyncWaiting(w)
    <3>1. Stop(w) \/ GoOn(w, "fill") \/ GoOn(w, "clear")
      BY <2>3 DEF SyncWaiting
    <3> QED
      BY <1>o, <2>3, <3>1 DEF SyncWaiting, At
  <2>4. CASE ClearAssignees(w) \/ FillAssignees(w)
    BY <1>o, <2>4 DEF ClearAssignees, FillAssignees, At
  <2> QED
    BY <1>4, <2>1, <2>2, <2>3, <2>4
<1>5. ASSUME NEW w \in Workers, NEW p \in People, SignIn(w, p) PROVE LinkInv'
  <2>1. work[w].at = "idle" /\ UNCHANGED team /\ Goto(w, Coming(p, "claim", "signin"))
    BY <1>5 DEF SignIn, At
  <2>2. Coming(p, "claim", "signin").by = "signin"
    BY DEF Coming
  <2> QED
    BY <1>f, <1>s, <2>1, <2>2
<1>6. ASSUME NEW w \in Workers, NEW i \in Invitations, AcceptInvitation(w, i) PROVE LinkInv'
  <2> DEFINE k == Coming(Addressee[i], "join", i)
  <2>1. /\ work[w].at = "idle" /\ invitation[i] = "PENDING" /\ Goto(w, k) /\ UNCHANGED invitation
        /\ k.at = "join" /\ k.by = i
    BY <1>6 DEF AcceptInvitation, At, Coming
  <2>2. work'[w] = k /\ \A v \in Workers \ {w} : work'[v] = work[v]
    BY <1>d, <2>1 DEF Goto
  <2>3. /\ \A v \in Workers \ {w}, m \in Invitations :
              (Follows(v, m)' <=> Follows(v, m)) /\ (At(v, "join")' <=> At(v, "join"))
        /\ \A m \in Invitations : ~Follows(w, m) /\ (Follows(w, m)' => m = i)
    <3> HIDE DEF k
    <3> QED
      BY <2>1, <2>2 DEF Follows, Accepting, At
  <2>4. /\ \A m \in Invitations \ {i} : admitted'[m] = admitted[m]
        /\ admitted'[i] = IF \E o \in Workers : Follows(o, i) THEN "unsure" ELSE admitted[i]
    BY <1>6, <1>a DEF AcceptInvitation, TeamOK, Follows
  <2>5. admitted'[i] \in {"nobody", "unsure"}
    BY <1>a, <2>1, <2>4 DEF LinkInv, AdmittedIsClosed, AdmitsOnce, TeamOK
  <2>6. FollowedWasSent'
    <3> SUFFICES ASSUME NEW v \in Workers, Accepting(v)' PROVE invitation'[work'[v].by] # "none"
      BY DEF FollowedWasSent
    <3>1. CASE v = w
      BY <2>1, <2>2, <3>1
    <3>2. CASE v # w
      BY <2>1, <2>2, <3>2 DEF LinkInv, FollowedWasSent, Accepting
    <3> QED
      BY <3>1, <3>2
  <2>7. FollowedOnce'
    <3> SUFFICES ASSUME NEW m \in Invitations, NEW u \in Workers, NEW v \in Workers,
                        Follows(u, m)', Follows(v, m)', u # v
                 PROVE  admitted'[m] = "unsure"
      BY DEF FollowedOnce
    <3>1. CASE u = w \/ v = w
      BY <2>3, <2>4, <3>1
    <3>2. CASE u # w /\ v # w
      BY <2>3, <2>4, <3>2 DEF LinkInv, FollowedOnce
    <3> QED
      BY <3>1, <3>2
  <2>8. AdmittedIsClosed'
    <3> SUFFICES ASSUME NEW m \in Invitations, admitted'[m] = "once"
                 PROVE  \/ invitation'[m] \in {"ACCEPTED", "EXPIRED"}
                        \/ \E v \in Workers : Follows(v, m)' /\ ~At(v, "join")'
      BY DEF AdmittedIsClosed
    <3>1. m # i /\ admitted[m] = "once"
      BY <2>4, <2>5
    <3>2. \/ invitation[m] \in {"ACCEPTED", "EXPIRED"}
          \/ \E v \in Workers : Follows(v, m) /\ ~At(v, "join")
      BY <3>1 DEF LinkInv, AdmittedIsClosed
    <3> QED
      BY <2>1, <2>3, <3>2
  <2>9. JoiningIsFirst'
    <3> SUFFICES ASSUME NEW v \in Workers, At(v, "join")'
                 PROVE  admitted'[work'[v].by] \in {"nobody", "unsure"}
      BY DEF JoiningIsFirst
    <3>1. CASE v = w
      BY <2>1, <2>2, <2>5, <3>1
    <3>2. CASE v # w
      <4>1. At(v, "join") /\ work'[v] = work[v] /\ work[v].by \in Invitations
        BY <1>a, <2>2, <3>2 DEF At, WorkOK, ArrivalsFit
      <4>2. admitted[work[v].by] \in {"nobody", "unsure"}
        BY <4>1 DEF LinkInv, JoiningIsFirst
      <4> QED
        BY <2>4, <2>5, <4>1, <4>2
    <3> QED
      BY <3>1, <3>2
  <2>10. AdmitsOnce'
    BY <2>4, <2>5 DEF LinkInv, AdmitsOnce
  <2> QED
    BY <2>6, <2>7, <2>8, <2>9, <2>10 DEF LinkInv
<1>7. ASSUME NEW w \in Workers, Join(w) PROVE LinkInv'
  <2> DEFINE i == work[w].by
  <2>1. /\ work[w] \in Arrivals /\ work[w].at = "join" /\ i \in Invitations /\ Follows(w, i)
        /\ UNCHANGED invitation
    BY <1>7, <1>a, WorkTypes, FollowersFit DEF Join, At, FollowersOK
  <2>2. CASE Stop(w) /\ UNCHANGED admitted
    <3>1. work'[w] = Idle /\ \A v \in Workers \ {w} : work'[v] = work[v]
      BY <1>d, <2>2 DEF Stop, Goto
    <3>2. \A v \in Workers, m \in Invitations :
             /\ Follows(v, m)' => Follows(v, m) /\ (At(v, "join")' => At(v, "join"))
             /\ Follows(v, m) /\ ~At(v, "join") => Follows(v, m)' /\ ~At(v, "join")'
      BY <1>d, <2>1, <3>1 DEF Follows, Accepting, At
    <3> QED
      BY <2>1, <2>2, <3>2, LinkFrame
  <2>3. CASE Admit(i, work[w].who) /\ GoOn(w, "claim")
    <3> DEFINE k == [work[w] EXCEPT !.at = "claim"]
    <3>1. k.at = "claim" /\ k.by = i
      BY <2>1 DEF Arrivals
    <3>2. work'[w] = k /\ \A v \in Workers \ {w} : work'[v] = work[v]
      BY <1>d, <2>3 DEF GoOn, Goto
    <3>3. /\ \A v \in Workers, m \in Invitations : Follows(v, m)' <=> Follows(v, m)
          /\ \A v \in Workers \ {w} : At(v, "join")' <=> At(v, "join")
          /\ ~At(w, "join")'
      <4>1. Accepting(w)' /\ Accepting(w) /\ work'[w].by = work[w].by /\ ~At(w, "join")'
        BY <2>1, <3>1, <3>2 DEF Follows, Accepting, At
      <4> HIDE DEF k
      <4> QED
        BY <3>2, <4>1 DEF Follows, Accepting, At
    <3>4. /\ \A m \in Invitations \ {i} : admitted'[m] = admitted[m]
          /\ admitted[i] \in {"nobody", "unsure"}
          /\ admitted'[i] = admitted[i] \/ (admitted[i] = "nobody" /\ admitted'[i] = "once")
      <4>1. admitted[i] \in {"nobody", "unsure"}
        BY <2>1 DEF LinkInv, JoiningIsFirst, At
      <4> QED
        BY <1>a, <2>1, <2>3, <4>1 DEF Admit, TeamOK
    <3>5. FollowedWasSent'
      BY <2>1, <3>3, FollowersFitNext DEF LinkInv, FollowersOK, FollowedWasSent, Follows
    <3>6. FollowedOnce'
      BY <3>3, <3>4 DEF LinkInv, FollowedOnce
    <3>7. AdmittedIsClosed'
      <4> SUFFICES ASSUME NEW m \in Invitations, admitted'[m] = "once"
                   PROVE  \/ invitation'[m] \in {"ACCEPTED", "EXPIRED"}
                          \/ \E v \in Workers : Follows(v, m)' /\ ~At(v, "join")'
        BY DEF AdmittedIsClosed
      <4>1. CASE m = i
        BY <2>1, <3>3, <4>1
      <4>2. CASE m # i
        <5>1. \/ invitation[m] \in {"ACCEPTED", "EXPIRED"}
              \/ \E v \in Workers : Follows(v, m) /\ ~At(v, "join")
          BY <3>4, <4>2 DEF LinkInv, AdmittedIsClosed
        <5> QED
          BY <2>1, <3>3, <5>1
      <4> QED
        BY <4>1, <4>2
    <3>8. JoiningIsFirst'
      <4> SUFFICES ASSUME NEW v \in Workers, At(v, "join")'
                   PROVE  admitted'[work'[v].by] \in {"nobody", "unsure"}
        BY DEF JoiningIsFirst
      <4>1. v # w /\ At(v, "join") /\ work'[v] = work[v] /\ work[v].by \in Invitations
            /\ Follows(v, work[v].by)
        BY <3>2, <3>3, FollowersFit DEF FollowersOK, At
      <4>2. admitted[work[v].by] \in {"nobody", "unsure"}
        BY <4>1 DEF LinkInv, JoiningIsFirst
      <4>3. work[v].by = i => admitted[i] = "unsure"
        BY <2>1, <4>1 DEF LinkInv, FollowedOnce
      <4> QED
        BY <3>4, <4>1, <4>2, <4>3
    <3>9. AdmitsOnce'
      BY <3>4 DEF LinkInv, AdmitsOnce
    <3> QED
      BY <3>5, <3>6, <3>7, <3>8, <3>9 DEF LinkInv
  <2> QED
    BY <1>7, <2>2, <2>3 DEF Join
<1>8. ASSUME NEW w \in Workers, ReadWaiting(w) PROVE LinkInv'
  <2>1. work[w] \in Arrivals /\ work[w].at = "claim" /\ ~At(w, "join") /\ UNCHANGED team
    BY <1>8, <1>a, WorkTypes DEF ReadWaiting, At
  <2>2. CASE Claimed(w)
    BY <1>c, <2>1, <2>2
  <2>3. CASE Goto(w, [work[w] EXCEPT !.at = "commit", !.row = waiting[work[w].who]])
    <3> DEFINE k == [work[w] EXCEPT !.at = "commit", !.row = waiting[work[w].who]]
    <3>1. k.at = "commit" /\ k.by = work[w].by
      BY <2>1 DEF Arrivals
    <3> HIDE DEF k
    <3> QED
      BY <1>f, <2>1, <2>3, <3>1 DEF k
  <2> QED
    BY <1>8, <2>2, <2>3 DEF ReadWaiting
<1>9. ASSUME NEW w \in Workers, CommitClaim(w) PROVE LinkInv'
  <2>1. work[w].at = "commit"
    BY <1>9 DEF CommitClaim, At
  <2>2. CASE task = "open"
    BY <1>9, <1>c, <2>1, <2>2 DEF CommitClaim
  <2>3. CASE task = "deleted"
    <3>1. /\ work'[w] = Idle /\ \A v \in Workers \ {w} : work'[v] = work[v]
          /\ \A m \in Invitations : admitted'[m] = IF m = work[w].by THEN "unsure" ELSE admitted[m]
          /\ UNCHANGED invitation
      BY <1>9, <1>d, <2>3 DEF CommitClaim, Stop, Goto
    <3>2. \A v \in Workers, m \in Invitations :
             /\ Follows(v, m)' => Follows(v, m) /\ (At(v, "join")' => At(v, "join"))
             /\ Follows(v, m) /\ ~At(v, "join") =>
                   (Follows(v, m)' /\ ~At(v, "join")') \/ admitted'[m] # "once"
      BY <1>d, <3>1 DEF Follows, Accepting, At
    <3> QED
      BY <3>1, <3>2, LinkFrame
  <2> QED
    BY <1>9, <2>2, <2>3 DEF CommitClaim
<1>10. ASSUME NEW w \in Workers, MarkAccepted(w) PROVE LinkInv'
  <2>1. /\ work'[w] = Idle /\ \A v \in Workers \ {w} : work'[v] = work[v]
        /\ UNCHANGED admitted /\ work[w].by \in Invitations
        /\ invitation'[work[w].by] = "ACCEPTED"
        /\ \A m \in Invitations : m # work[w].by => invitation'[m] = invitation[m]
    BY <1>10, <1>a, <1>d DEF MarkAccepted, Stop, Goto, TeamOK, WorkOK, ArrivalsFit
  <2>2. \A v \in Workers, m \in Invitations :
           /\ Follows(v, m)' => Follows(v, m) /\ (At(v, "join")' => At(v, "join"))
           /\ Follows(v, m) /\ ~At(v, "join") =>
                 (Follows(v, m)' /\ ~At(v, "join")') \/ invitation'[m] = "ACCEPTED"
    BY <1>d, <2>1 DEF Follows, Accepting, At
  <2>3. \A m \in Invitations :
           /\ invitation[m] # "none" => invitation'[m] # "none"
           /\ invitation[m] \in {"ACCEPTED", "EXPIRED"} =>
                 invitation'[m] \in {"ACCEPTED", "EXPIRED"}
    BY <2>1
  <2> QED
    BY <2>1, <2>2, <2>3, LinkFrame
<1>11. CASE DeleteTask
  BY <1>11, <1>n DEF DeleteTask, team
<1>12. CASE Crash
  <2>1. /\ \A v \in Workers : work'[v].at \in {"idle", "form"}
        /\ \A m \in Invitations : admitted'[m] = IF \E v \in Workers : Follows(v, m)
                                                 THEN "unsure" ELSE admitted[m]
        /\ UNCHANGED invitation
    BY <1>12, <1>d DEF Crash, At, Follows
  <2>2. \A v \in Workers, m \in Invitations : ~Follows(v, m)'
    BY <2>1 DEF Follows, Accepting
  <2>3. \A v \in Workers, m \in Invitations : Follows(v, m) => admitted'[m] # "once"
    BY <2>1
  <2> QED
    BY <2>1, <2>2, <2>3, LinkFrame
<1>13. CASE UNCHANGED vars
  BY <1>13, <1>n DEF vars
<1> QED
  BY <1>1, <1>2, <1>3, <1>4, <1>5, <1>6, <1>7, <1>8, <1>9, <1>10, <1>11, <1>12, <1>13 DEF Next

(***************************************************************************)
(* A link admits to the project once: who was removed does not come back   *)
(* by the link they joined with, unless it was followed twice at once or   *)
(* its acceptance was cut short.                                           *)
(***************************************************************************)
THEOREM LinksAdmitOnce == Spec => []AdmitsOnce
<1>1. LinkInv => AdmitsOnce
  BY DEF LinkInv
<1> QED
  BY <1>1, InitTypeInv, StepTypeInv, InitLinkInv, StepLinkInv, PTL DEF Spec
=============================================================================
