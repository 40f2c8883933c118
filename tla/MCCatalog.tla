------------------------------ MODULE MCCatalog ------------------------------
(***************************************************************************)
(* A small instance of Catalog.                                            *)
(***************************************************************************)
EXTENDS Catalog, TLC

CONSTANTS m1, m2, p1, p2, o1, o2, r1, r2, n1, n2, t1, t2, t3

Symmetry == Permutations(Members) \cup Permutations(Products) \cup Permutations(Offers)
                \cup Permutations(Rsvs) \cup Permutations(Names) \cup Permutations(Txs)
=============================================================================
