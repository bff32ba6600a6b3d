----------------------------- MODULE Fulfilment -----------------------------
(***************************************************************************)
(* What a paid order promises its buyer, whatever callbacks, polls, cron  *)
(* jobs and crashes happen underneath: an order is closed without a       *)
(* ticket, or the money is taken first, each line is then served exactly   *)
(* once, and only an order served in full can be returned, once.           *)
(* PaymentFlow implements it.                                              *)
(***************************************************************************)
EXTENDS Naturals

CONSTANTS
    Orders,     \* the orders
    Templates,  \* ticket categories
    Lines       \* Lines[o]: the categories of order o

VARIABLES
    phase,    \* of each order
    taken,    \* the orders whose money was taken
    given,    \* given[o][t]: times line t of order o was served
    returned  \* times the money of the order was given back

vars == <<phase, taken, given, returned>>

Init ==
    /\ phase = [o \in Orders |-> "none"]
    /\ taken = {}
    /\ given = [o \in Orders |-> [t \in Templates |-> 0]]
    /\ returned = [o \in Orders |-> 0]

Move(o, from, to) ==
    /\ phase[o] = from
    /\ phase' = [phase EXCEPT ![o] = to]

Open(o) == Move(o, "none", "open") /\ UNCHANGED <<taken, given, returned>>

\* The money may be taken whatever the shop thinks of the order
TakeMoney(o) ==
    /\ o \notin taken
    /\ taken' = taken \cup {o}
    /\ UNCHANGED <<phase, given, returned>>

Lose(o) == Move(o, "open", "lost") /\ UNCHANGED <<taken, given, returned>>

Accept(o) ==
    /\ o \in taken
    /\ Move(o, "open", "owed")
    /\ UNCHANGED <<taken, given, returned>>

Give(o, t) ==
    /\ phase[o] = "owed"
    /\ t \in Lines[o] /\ given[o][t] = 0
    /\ given' = [given EXCEPT ![o][t] = 1]
    /\ UNCHANGED <<phase, taken, returned>>

Serve(o) ==
    /\ \A t \in Lines[o] : given[o][t] = 1
    /\ Move(o, "owed", "served")
    /\ UNCHANGED <<taken, given, returned>>

Return(o) ==
    /\ Move(o, "served", "returned")
    /\ returned' = [returned EXCEPT ![o] = 1]
    /\ UNCHANGED <<taken, given>>

Next ==
    \E o \in Orders :
        \/ Open(o) \/ TakeMoney(o) \/ Lose(o) \/ Accept(o) \/ Serve(o) \/ Return(o)
        \/ \E t \in Templates : Give(o, t)

Spec == Init /\ [][Next]_vars
=============================================================================
