------------------------------ MODULE Delivery ------------------------------
(***************************************************************************)
(* What the delivery of payments promises, without saying how: a payment   *)
(* that is due is delivered, then settled, and settled for good.  It may   *)
(* be delivered again only for an excuse (somebody lost sight of a         *)
(* delivery); what is keyed by the payment is never delivered twice.       *)
(* PaymentEffect implements it.                                            *)
(***************************************************************************)
EXTENDS Naturals

CONSTANTS
    Records,    \* payments
    Keyed       \* those whose product exists once per payment

VARIABLES
    due,        \* payments that are owed a delivery
    delivered,  \* how often each has been delivered
    settled,    \* payments nobody need deliver any more
    excused     \* how often sight of a delivery was lost

Init ==
    /\ due = {}
    /\ delivered = [r \in Records |-> 0]
    /\ settled = [r \in Records |-> FALSE]
    /\ excused = [r \in Records |-> 0]

Owe(r) ==
    /\ r \notin due
    /\ due' = due \union {r}
    /\ UNCHANGED <<delivered, settled, excused>>

(* The first delivery needs no excuse, the one after it needs one, and so   *)
(* on.  Sight of a delivery may be lost in the very step that makes it.     *)
Deliver(r) ==
    /\ r \in due
    /\ IF r \in Keyed THEN delivered[r] = 0 ELSE delivered[r] <= excused[r]
    /\ delivered' = [delivered EXCEPT ![r] = @ + 1]
    /\ excused' \in {excused, [excused EXCEPT ![r] = @ + 1]}
    /\ UNCHANGED <<due, settled>>

Settle(r) ==
    /\ r \in due /\ ~settled[r] /\ delivered[r] > 0
    /\ settled' = [settled EXCEPT ![r] = TRUE]
    /\ UNCHANGED <<due, delivered, excused>>

LoseSight(r) ==
    /\ r \in due
    /\ excused' = [excused EXCEPT ![r] = @ + 1]
    /\ UNCHANGED <<due, delivered, settled>>

Next == \E r \in Records : Owe(r) \/ Deliver(r) \/ Settle(r) \/ LoseSight(r)

Spec == Init /\ [][Next]_<<due, delivered, settled, excused>>
=============================================================================
