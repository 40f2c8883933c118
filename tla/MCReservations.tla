--------------------------- MODULE MCReservations ---------------------------
(***************************************************************************)
(* Small instances of Reservations for TLC.  Ids are interchangeable model *)
(* values, so states that differ by a permutation of ids are checked once. *)
(* Each instance runs the operations of one question (Ops).                *)
(***************************************************************************)
EXTENDS Reservations, TLC

CONSTANTS m1, m2, p1, o1, o2, r1, r2, t1, t2

Symmetry == Permutations(Members) \cup Permutations(Offers)
                \cup Permutations(Rsvs) \cup Permutations(Txs)

\* Who may take what is left, and of which offer: reservations and deliveries
\* against publishing, editing and withdrawing.
StockOps == {"publish", "create", "edit", "withdraw", "confirm-and-deliver"}

\* The life of one reservation and its offer: every answer against the
\* deadlines of both.
LifeOps == {"publish", "edit", "offers.expire", "create", "confirm", "reject",
            "deliver", "cancel", "expire", "remind"}
=============================================================================
