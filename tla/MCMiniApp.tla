------------------------------ MODULE MCMiniApp -----------------------------
(***************************************************************************)
(* A Mini App for TLC: one thread, two connections that may overlap, every *)
(* screen, and one thing each that others commit, that the member opens,   *)
(* that the member does and that fails.                                    *)
(***************************************************************************)
EXTENDS MiniApp, TLC

CONSTANTS c1, c2

AllRoutes == {"board", "offers", "offer", "reservations",
              "reservation", "settings", "members", "catalog"}

\* A link opens the app on the board, on an offer, a reservation, the members
\* or the catalogue (telegram.ts, routeForStartParam).
LinkedRoutes == {"board", "offer", "reservation", "members", "catalog"}

\* Connections are alike.
Symmetry == Permutations(Conns)
=============================================================================
