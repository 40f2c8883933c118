------------------------------ MODULE MCOutbox ------------------------------
(***************************************************************************)
(* A small instance of Outbox: two notifications, runs that overlap.       *)
(***************************************************************************)
EXTENDS Outbox, TLC

CONSTANTS n1, n2, d1, d2

OneDelay == <<1>>
=============================================================================
