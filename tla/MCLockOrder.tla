----------------------------- MODULE MCLockOrder -----------------------------
(***************************************************************************)
(* A small instance of LockOrder: two members who sell to each other, an   *)
(* admin, a proposed product that both sell and one of the sheet that      *)
(* nobody sells, a reservation on each offer.                              *)
(***************************************************************************)
EXTENDS LockOrder, TLC

CONSTANTS m1, m2, admin, o1, o2, r1, r2, p1, p2, t1, t2, t3

Symmetry == Permutations(Sessions)

ProducerFn == o1 :> m1 @@ o2 :> m2
ProductFn == o1 :> p1 @@ o2 :> p1
OfferFn == r1 :> o1 @@ r2 :> o2
RequesterFn == r1 :> m2 @@ r2 :> m1

\* The paths ARCH section 6 speaks of, and those of the catalogue that keep its order.
DocumentedPaths == {"create", "act", "deliver", "rejectProduct", "rename", "sync"}
MergePaths == {"deliver", "merge"}
=============================================================================
