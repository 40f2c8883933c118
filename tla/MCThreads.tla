------------------------------ MODULE MCThreads ------------------------------
(***************************************************************************)
(* A small instance of Threads.                                            *)
(***************************************************************************)
EXTENDS Threads, TLC

CONSTANTS requester, producer, m1, m2, m3, t1, t2, t3

Symmetry == Permutations(Messages) \cup Permutations(Txs)
=============================================================================
