------------------------------- MODULE Stock -------------------------------
(***************************************************************************)
(* What offers and reservations promise each other, without transactions,  *)
(* members, deadlines or messages: an offer has a quantity, a reservation  *)
(* holds part of it until it is delivered (which takes that part away, and *)
(* only then) or released (which gives it back).  ARCH section 5:          *)
(* "delivered deducts, everything else releases".  Reservations.tla is     *)
(* shown to implement this specification.                                  *)
(***************************************************************************)
EXTENDS Integers, FiniteSets

CONSTANTS Offers,   \* offer ids
          Rsvs,     \* reservation ids
          MaxQty,   \* the largest quantity (numeric(10,2), bounded for TLC)
          None      \* no offer

VARIABLES stock,    \* offer -> quantity not yet delivered
          hold      \* reservation -> what it holds and whether it still does

stockVars == <<stock, hold>>

Qty == 0..MaxQty

States == {"none", "held", "released", "delivered"}

NoHold == [state |-> "none", offer |-> None, quantity |-> 0]

StockTypeOK ==
    /\ stock \in [Offers -> Qty]
    /\ hold \in [Rsvs -> [state: States, offer: Offers \cup {None}, quantity: Qty]]

(* The units held on offer o, one element per reservation and unit; their  *)
(* number is the sum of the quantities of the holding reservations.        *)
HeldUnits(o) ==
    {ru \in Rsvs \X (1..MaxQty) :
        /\ hold[ru[1]].state = "held"
        /\ hold[ru[1]].offer = o
        /\ ru[2] <= hold[ru[1]].quantity}

Held(o) == Cardinality(HeldUnits(o))

StockInit ==
    /\ stock = [o \in Offers |-> 0]
    /\ hold = [r \in Rsvs |-> NoHold]

(* The producer decides the quantity, never below what is held.            *)
Restock(o, q) ==
    /\ Held(o) <= q
    /\ stock' = [stock EXCEPT ![o] = q]
    /\ UNCHANGED hold

(* A new reservation holds q units of o, never more than are left.         *)
Reserve(r, o, q) ==
    /\ hold[r].state = "none"
    /\ q > 0
    /\ Held(o) + q <= stock[o]
    /\ hold' = [hold EXCEPT ![r] = [state |-> "held", offer |-> o, quantity |-> q]]
    /\ UNCHANGED stock

(* Several holds end at once without anything leaving the offer.           *)
Release(R) ==
    /\ \A r \in R : hold[r].state = "held"
    /\ hold' = [r \in Rsvs |->
                  IF r \in R THEN [hold[r] EXCEPT !.state = "released"] ELSE hold[r]]
    /\ UNCHANGED stock

(* The goods change hands: the hold ends and its quantity leaves the offer *)
(* in the same step.                                                       *)
Deliver(r) ==
    /\ hold[r].state = "held"
    /\ hold' = [hold EXCEPT ![r].state = "delivered"]
    /\ stock' = [stock EXCEPT ![hold[r].offer] = @ - hold[r].quantity]

StockNext ==
    \/ \E o \in Offers, q \in Qty : Restock(o, q)
    \/ \E r \in Rsvs, o \in Offers, q \in Qty : Reserve(r, o, q)
    \/ \E R \in SUBSET Rsvs : Release(R)
    \/ \E r \in Rsvs : Deliver(r)

StockSpec == StockInit /\ [][StockNext]_stockVars

(* Never more is held on an offer than it still has.                       *)
NeverOversold == \A o \in Offers : Held(o) <= stock[o]
=============================================================================
