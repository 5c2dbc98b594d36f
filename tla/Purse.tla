------------------------------- MODULE Purse --------------------------------
(***************************************************************************)
(* What a buyer's balance promises, without saying who writes what when.   *)
(* Some of it is set aside for payments, never more than there is.  It     *)
(* grows by credits and shrinks only by settling a payment, by as much as  *)
(* that payment is charged with; a payment settled again, because its      *)
(* settlement was lost, is charged with what its price leaves at most.     *)
(* PaymentRecords implements it.                                           *)
(***************************************************************************)
EXTENDS Naturals

CONSTANTS
    Payments,   \* payments
    Price,      \* of each
    Opening     \* the balance at the start

VARIABLES
    funds,      \* the balance
    aside,      \* what is set aside of it
    charged,    \* what each payment has taken from it
    settled     \* payments that are settled

Init ==
    /\ funds = Opening /\ aside = 0
    /\ charged = [r \in Payments |-> 0]
    /\ settled = {}

Credit ==
    /\ funds' > funds
    /\ UNCHANGED <<aside, charged, settled>>

SetAside ==
    /\ aside' \in aside..funds
    /\ UNCHANGED <<funds, charged, settled>>

(* A payment is settled from what was set aside, or from what is free. *)
Settle(r) ==
    /\ r \notin settled /\ settled' = settled \union {r}
    /\ \E n \in 0..(Price[r] - charged[r]) :
          /\ charged' = [charged EXCEPT ![r] = @ + n]
          /\ n <= funds /\ funds' = funds - n
          /\ \/ n <= aside /\ aside' = aside - n
             \/ n + aside <= funds /\ aside' = aside

(* Whoever gives up a payment gives back what was set aside, and may take   *)
(* settlements back that came in between.                                   *)
LetGo ==
    /\ aside' \in 0..aside /\ settled' \subseteq settled
    /\ UNCHANGED <<funds, charged>>

(* A payment starts over, what it was charged with forgotten.  Only one     *)
(* that is not settled can.                                                 *)
StartOver(r) ==
    /\ r \notin settled
    /\ charged' = [charged EXCEPT ![r] = 0]
    /\ UNCHANGED <<funds, aside, settled>>

Next == Credit \/ SetAside \/ LetGo \/ \E r \in Payments : Settle(r) \/ StartOver(r)

Spec == Init /\ [][Next]_<<funds, aside, charged, settled>>
=============================================================================
