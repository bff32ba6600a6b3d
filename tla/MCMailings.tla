----------------------------- MODULE MCMailings -----------------------------
(* A small instance of Mailings for TLC. *)
EXTENDS Mailings

CONSTANTS c1, c2

\* A campaign to every holder; one of an event without any
Audiences == [c \in Campaigns |-> IF c = c1 THEN Tickets ELSE {}]
=============================================================================
