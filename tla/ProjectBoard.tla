---------------------------- MODULE ProjectBoard ----------------------------
(***************************************************************************)
(* The board of an event: who a task is assigned to and who is a member of *)
(* the project: src/backend/src/project/project.service.ts.                *)
(*                                                                         *)
(* A task is assigned to users and, by their address, to persons invited   *)
(* but not there yet; those become assignees when they sign in or accept   *)
(* the invitation.  Saving a task rewrites the two lists in three commits  *)
(* that others may come between, or that a dead process leaves half done.  *)
(* Abstracted: every field of the task but these, who may write on the     *)
(* board, the messages sent, passwords.  Accounts are only added: closing  *)
(* an account, which takes its assignments with it, is left out.           *)
(***************************************************************************)
EXTENDS Naturals, FiniteSets

CONSTANTS
    People,       \* those a task may be assigned to
    Organizer,    \* of the event
    Invitations,  \* links to join the project
    Addressee,    \* Addressee[i]: who the link is sent to
    Workers       \* requests being served, and the forms they come from

ASSUME OrganizerAssumption == Organizer \in People
ASSUME AddresseeAssumption == Addressee \in [Invitations -> People \ {Organizer}]
ASSUME LinksAssumption == "signin" \notin Invitations
ASSUME WorkersAssumption == IsFiniteSet(Workers)

VARIABLES
    task,          \* EventTask, one
    assigned,      \* TaskAssignee
    waiting,       \* TaskPendingAssignee: number of the row of each person, 0: none
    account,       \* people with an account
    member,        \* ProjectMember
    invitation,    \* ProjectInvitation.status
    collaborator,  \* AccountMember of the organizer's account, by person
    work,          \* what each worker is doing
    named,         \* auxiliary: the persons the last save named
    mixed,         \* auxiliary: two saves, or a save and a claim, crossed since,
                   \* or one died half done
    admitted       \* auxiliary: what became of each invitation

vars == <<task, assigned, waiting, account, member, invitation, collaborator, work,
          named, mixed, admitted>>
board == <<task, assigned, waiting, named, mixed>>
team == <<account, member, invitation, collaborator, admitted>>

Rows == 1..(Cardinality(Workers) + 1)
Idle == [at |-> "idle"]
At(w, step) == work[w].at = step
Goto(w, j) == work' = [work EXCEPT ![w] = j]
GoOn(w, step) == Goto(w, [work[w] EXCEPT !.at = step])
Stop(w) == Goto(w, Idle)
Waiting == {p \in People : waiting[p] # 0}

\* Those a save has begun to write and not finished
Rewriting(w) == work[w].at \in {"clear", "fill"} \/ (At(w, "sync") /\ work[w].new)
Accepting(w) == work[w].at \in {"join", "claim", "commit", "mark"} /\ work[w].by # "signin"

(***************************************************************************)
(* Type invariant.                                                         *)
(***************************************************************************)
TypeOK ==
    /\ task \in {"none", "open", "deleted"}
    /\ assigned \subseteq People /\ waiting \in [People -> {0} \cup Rows]
    /\ task # "open" => assigned = {} /\ Waiting = {}
    /\ Organizer \in account /\ account \subseteq People
    /\ member \subseteq account \ {Organizer}
    /\ invitation \in [Invitations -> {"none", "PENDING", "ACCEPTED", "EXPIRED"}]
    /\ collaborator \in [People -> {"no", "invited", "linked"}]
    /\ \A p \in People : collaborator[p] = "linked" => p \in account
    /\ \A w \in Workers : LET j == work[w] IN
         \/ j = Idle
         \/ /\ j.at \in {"form", "check", "sync", "clear", "fill"}
            /\ j.ids \subseteq People /\ j.emails \subseteq People /\ j.new \in BOOLEAN
         \/ /\ j.at \in {"join", "claim", "commit", "mark"}
            /\ j.by \in Invitations \cup {"signin"} /\ j.who \in People /\ j.row \in {0} \cup Rows
    /\ named \subseteq People /\ mixed \in BOOLEAN
    /\ admitted \in [Invitations -> {"nobody", "once", "again", "unsure"}]

Init ==
    /\ task = "none" /\ assigned = {} /\ waiting = [p \in People |-> 0]
    /\ \E some \in SUBSET People : account = some \cup {Organizer}
    /\ member = {}
    /\ invitation = [i \in Invitations |-> "none"]
    /\ collaborator = [p \in People |-> "no"]
    /\ work = [w \in Workers |-> Idle]
    /\ named = {} /\ mixed = FALSE
    /\ admitted = [i \in Invitations |-> "nobody"]

(***************************************************************************)
(* The team.                                                               *)
(***************************************************************************)
Invite(i) ==
    /\ invitation[i] = "none" /\ Addressee[i] \notin member
    /\ invitation' = [invitation EXCEPT ![i] = "PENDING"]
    /\ UNCHANGED <<board, account, member, collaborator, work, admitted>>

\* A week later
Expire(i) ==
    /\ invitation[i] = "PENDING"
    /\ invitation' = [invitation EXCEPT ![i] = "EXPIRED"]
    /\ UNCHANGED <<board, account, member, collaborator, work, admitted>>

\* The tasks stay assigned to them
RemoveMember(p) ==
    /\ p \in member
    /\ member' = member \ {p}
    /\ UNCHANGED <<board, account, invitation, collaborator, work, admitted>>

InviteCollaborator(p) ==
    /\ p # Organizer /\ collaborator[p] = "no"
    /\ collaborator' = [collaborator EXCEPT ![p] = IF p \in account THEN "linked" ELSE "invited"]
    /\ UNCHANGED <<board, account, member, invitation, work, admitted>>

\* Invited before the account existed: linked on first use
OpenWorkspace(p) ==
    /\ p \in account /\ collaborator[p] = "invited"
    /\ collaborator' = [collaborator EXCEPT ![p] = "linked"]
    /\ UNCHANGED <<board, account, member, invitation, work, admitted>>

RemoveCollaborator(p) ==
    /\ collaborator[p] # "no"
    /\ collaborator' = [collaborator EXCEPT ![p] = "no"]
    /\ UNCHANGED <<board, account, member, invitation, work, admitted>>

Register(p) ==
    /\ p \notin account
    /\ account' = account \cup {p}
    /\ UNCHANGED <<board, member, invitation, collaborator, work, admitted>>

(***************************************************************************)
(* Saving a task.                                                          *)
(***************************************************************************)
\* listAssignees: those with an account, the others by their address
Users == {Organizer} \cup member \cup {p \in People : collaborator[p] = "linked"}
Invited == ({p \in People : collaborator[p] = "invited"}
            \cup {Addressee[i] : i \in {j \in Invitations : invitation[j] = "PENDING"}}) \ Users

\* TaskModal: the boxes ticked, of those the lists show as the form opens
OpenForm(w) ==
    /\ At(w, "idle") /\ task # "deleted"
    /\ \E ids \in SUBSET (Users \cup assigned), emails \in SUBSET (Invited \cup Waiting) :
         Goto(w, [at |-> "form", ids |-> ids, emails |-> emails, new |-> task = "none"])
    /\ UNCHANGED <<board, team>>

Submit(w) == At(w, "form") /\ GoOn(w, "check") /\ UNCHANGED <<board, team>>
Close(w) == At(w, "form") /\ Stop(w) /\ UNCHANGED <<board, team>>

\* validateAssignees: those offered now, or on the task already
Allowed(j) ==
    /\ j.ids \subseteq Users \cup (IF j.new THEN {} ELSE assigned)
    /\ j.emails \subseteq Invited \cup (IF j.new THEN {} ELSE Waiting)

\* Another task than this one is left out
CheckTask(w) ==
    /\ At(w, "check")
    /\ LET found == task = (IF work[w].new THEN "none" ELSE "open")
       IN IF found /\ Allowed(work[w])
          THEN task' = "open" /\ GoOn(w, "sync")
          ELSE UNCHANGED task /\ Stop(w)
    /\ UNCHANGED <<assigned, waiting, named, mixed, team>>

\* Rows are numbered by the database: one nobody has in hand
FreshRow(p) == CHOOSE n \in Rows : \A w \in Workers : At(w, "commit") => work[w].row # n

\* Mutant: the addresses unticked stay
SyncAdding(j) ==
    [p \in People |-> IF p \in j.emails /\ waiting[p] = 0 THEN FreshRow(p) ELSE waiting[p]]

\* syncPendingAssignees: the others are deleted, those missing created
Synced(j) ==
    [p \in People |-> IF p \notin j.emails THEN 0
                      ELSE IF waiting[p] = 0 THEN FreshRow(p) ELSE waiting[p]]

SyncWaiting(w) ==
    /\ At(w, "sync")
    /\ \/ task = "deleted" /\ Stop(w) /\ UNCHANGED board
       \/ /\ task = "open"
          /\ waiting' = Synced(work[w])
          /\ named' = work[w].ids \cup work[w].emails
          /\ mixed' = ((work[w].new /\ mixed) \/ \E o \in Workers \ {w} : Rewriting(o))
          /\ GoOn(w, IF work[w].new THEN "fill" ELSE "clear")
          /\ UNCHANGED <<task, assigned>>
    /\ UNCHANGED team

ClearAssignees(w) ==
    /\ At(w, "clear")
    /\ assigned' = {}
    /\ GoOn(w, "fill")
    /\ UNCHANGED <<task, waiting, named, mixed, team>>

\* Mutant: nothing refuses them
FillAnyway(w) ==
    /\ At(w, "fill")
    /\ assigned' = assigned \cup work[w].ids
    /\ Stop(w)
    /\ UNCHANGED <<task, waiting, named, mixed, team>>

\* Refused by the database when the task is gone
FillAssignees(w) ==
    /\ At(w, "fill")
    /\ assigned' = IF task = "open" THEN assigned \cup work[w].ids ELSE assigned
    /\ Stop(w)
    /\ UNCHANGED <<task, waiting, named, mixed, team>>

DeleteTask ==
    /\ task = "open"
    /\ task' = "deleted" /\ assigned' = {} /\ waiting' = [p \in People |-> 0]
    /\ UNCHANGED <<named, mixed, team, work>>

(***************************************************************************)
(* Claiming the tasks assigned to an address: at each sign-in, and when an *)
(* invitation is accepted.                                                 *)
(***************************************************************************)
Coming(p, step, by) == [at |-> step, by |-> by, who |-> p, row |-> 0, known |-> p \in account]

SignIn(w, p) ==
    /\ At(w, "idle") /\ p \in account
    /\ Goto(w, Coming(p, "claim", "signin"))
    /\ UNCHANGED <<board, team>>

\* Mutant: the link is not checked
AcceptAny(w, i) ==
    /\ At(w, "idle") /\ invitation[i] # "none"
    /\ Goto(w, Coming(Addressee[i], "join", i))
    /\ UNCHANGED <<board, team>>

\* acceptInvitation: the link is read here, and not again.  Nothing is promised of
\* one accepted twice at once
AcceptInvitation(w, i) ==
    /\ At(w, "idle") /\ invitation[i] = "PENDING"
    /\ Goto(w, Coming(Addressee[i], "join", i))
    /\ admitted' = [admitted EXCEPT ![i] =
         IF \E o \in Workers : Accepting(o) /\ work[o].by = i THEN "unsure" ELSE @]
    /\ UNCHANGED <<board, account, member, invitation, collaborator>>

Admit(i, p) ==
    admitted' = [admitted EXCEPT ![i] =
        IF @ = "unsure" \/ p \in member THEN @ ELSE IF @ = "nobody" THEN "once" ELSE "again"]

Join(w) ==
    /\ At(w, "join")
    /\ LET j == work[w] IN
         \/ \* the account was made by another request meanwhile
            /\ ~j.known /\ j.who \in account
            /\ Stop(w) /\ UNCHANGED <<account, member, admitted>>
         \/ /\ account' = account \cup {j.who}
            /\ member' = member \cup {j.who}
            /\ Admit(j.by, j.who)
            /\ GoOn(w, "claim")
    /\ UNCHANGED <<board, invitation, collaborator>>

Claimed(w) ==
    IF work[w].by = "signin" THEN Stop(w) ELSE GoOn(w, "mark")

ReadWaiting(w) ==
    /\ At(w, "claim")
    /\ IF waiting[work[w].who] = 0 THEN Claimed(w)
       ELSE Goto(w, [work[w] EXCEPT !.at = "commit", !.row = waiting[work[w].who]])
    /\ UNCHANGED <<board, team>>

\* Nothing is promised once a claim falls within a save, or follows one that
\* took the person off
Crossed(p, row) ==
    mixed \/ waiting[p] # row \/ \E o \in Workers : At(o, "clear")

\* One transaction; it fails when the task is gone, and an acceptance with it
CommitClaim(w) ==
    /\ At(w, "commit")
    /\ LET p == work[w].who IN
         \/ /\ task = "open"
            /\ assigned' = assigned \cup {p}
            /\ waiting' = [waiting EXCEPT ![p] = IF @ = work[w].row THEN 0 ELSE @]
            /\ mixed' = Crossed(p, work[w].row)
            /\ Claimed(w)
            /\ UNCHANGED <<task, named, team>>
         \/ /\ task = "deleted"
            /\ admitted' = [i \in Invitations |-> IF i = work[w].by THEN "unsure" ELSE admitted[i]]
            /\ Stop(w)
            /\ UNCHANGED <<board, account, member, invitation, collaborator>>

MarkAccepted(w) ==
    /\ At(w, "mark")
    /\ invitation' = [invitation EXCEPT ![work[w].by] = "ACCEPTED"]
    /\ Stop(w)
    /\ UNCHANGED <<board, account, member, collaborator, admitted>>

\* The process dies; the forms stay open
Crash ==
    /\ work' = [w \in Workers |-> IF At(w, "form") THEN work[w] ELSE Idle]
    /\ mixed' = (mixed \/ \E w \in Workers : Rewriting(w))
    /\ admitted' = [i \in Invitations |->
         IF \E w \in Workers : Accepting(w) /\ work[w].by = i THEN "unsure" ELSE admitted[i]]
    /\ UNCHANGED <<task, assigned, waiting, named, account, member, invitation, collaborator>>

Next ==
    \/ \E i \in Invitations : Invite(i) \/ Expire(i)
    \/ \E p \in People :
         \/ RemoveMember(p) \/ InviteCollaborator(p) \/ OpenWorkspace(p)
         \/ RemoveCollaborator(p) \/ Register(p)
    \/ \E w \in Workers :
         \/ OpenForm(w) \/ Submit(w) \/ Close(w) \/ CheckTask(w) \/ SyncWaiting(w)
         \/ ClearAssignees(w) \/ FillAssignees(w)
         \/ \E p \in People : SignIn(w, p)
         \/ \E i \in Invitations : AcceptInvitation(w, i)
         \/ Join(w) \/ ReadWaiting(w) \/ CommitClaim(w) \/ MarkAccepted(w)
    \/ DeleteTask \/ Crash

Spec == Init /\ [][Next]_vars

(***************************************************************************)
(* Properties.                                                             *)
(***************************************************************************)
\* Once no save is at work, the persons on a task, by account or by address, are
\* those the last save named, however many of them signed in or joined before,
\* during or after it; unless two saves, or a save and a claim, crossed
AsSaved ==
    task = "open" /\ ~mixed /\ ~(\E w \in Workers : Rewriting(w)) =>
        assigned \cup Waiting = named

\* A link admits to the project once: who was removed does not come back by the
\* link they joined with, unless it was followed twice at once or its acceptance
\* was cut short
AdmitsOnce == \A i \in Invitations : admitted[i] # "again"
=============================================================================
