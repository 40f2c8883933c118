------------------------------- MODULE MCBot --------------------------------
(***************************************************************************)
(* Bot for TLC: one subject of each kind, and weeks of a few days, with    *)
(* both changes of the clocks.                                             *)
(***************************************************************************)
EXTENDS Bot, TLC

CONSTANTS o1, r1, a1, h1, h2

Symmetry == Permutations(Handlers)

\* nextDailyOccurrence returns the first hour that reads as asked for, also for
\* an hour that is skipped or repeated.
ASSUME NextDailyIsNext ==
    \A from \in 0 .. Horizon, hour \in 0 .. Day - 1 :
        LET next == NextDaily(from, hour) IN
        /\ next > from /\ Reads(next, hour)
        /\ \A at \in from + 1 .. next - 1 : ~Reads(at, hour)
=============================================================================
