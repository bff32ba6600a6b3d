--------------------------- MODULE MCProjectBoard ---------------------------
(* A small instance of ProjectBoard for TLC. *)
EXTENDS ProjectBoard, TLC

CONSTANT ann

\* Every link is sent to the same person
AllToAnn == [i \in Invitations |-> ann]
EitherWorker == Permutations(Workers)
=============================================================================
