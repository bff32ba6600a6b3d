----------------------------- MODULE MCGateScan -----------------------------
(* A small instance of GateScan for TLC. *)
EXTENDS GateScan, TLC

\* Every time of the clock is on a day of its own
Days == [m \in 0..MaxTime |-> m]

Twins == Permutations(Phones) \cup Permutations(Requests)

\* A phone that has not begun
Unopened(p) ==
    /\ scan[p] = NoScan /\ sync[p] = NoSync /\ queue[p] = {}
    /\ \A t \in Tickets : local[p][t].status = "VALID"

\* Neither the lists nor the tickets change but by the scans
OnlyScans ==
    /\ \A p \in Phones : sync[p].step # "pack"
    /\ \A t \in Tickets : office[t] = NoAct /\ t \notin editing \cup restored
                          /\ server[t].status # "CANCELLED"

\* Bound: two phones scan, or one phone does, one request at a time, while the lists and
\* the tickets change
TwoGatesOrLists ==
    \/ OnlyScans
    \/ (\E p \in Phones : Unopened(p)) /\ \E r \in Requests : req[r] = Free

\* Bound: the uploads of a pass cut short leave at most two records of a time
FewRecords == \A t \in Tickets, m \in Times : valid[t][m] <= 2
=============================================================================
