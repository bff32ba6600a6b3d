---------------------------- MODULE MCSessions ----------------------------
(* Small instances of Sessions for TLC. *)
EXTENDS Sessions, TLC

\* One fault at a time: a store that misses answers, a new password, a deactivation
FewFaults ==
    /\ Cardinality(missed) <= 1
    /\ active \/ missed = {}
    /\ password = 0 \/ (active /\ missed = {})

AnyOne == Permutations(Calls) \cup Permutations(Sids) \cup Permutations(Tabs)
=============================================================================
