------------------------------ MODULE MCMembers ------------------------------
(***************************************************************************)
(* A small instance of Members: an admin, another whom the configuration   *)
(* names, and two people at the door.                                      *)
(***************************************************************************)
EXTENDS Members, TLC

CONSTANTS a, b, x, y, i1, t1, t2

Symmetry == Permutations(Txs) \cup Permutations({x, y})

Strangers == [i \in Invites |-> {x, y}]
=============================================================================
