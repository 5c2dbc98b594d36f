------------------------------ MODULE MCAccess ------------------------------
(***************************************************************************)
(* The two halves of a user's access for TLC: the clock with the devices   *)
(* of the older kind, and the slots of the subscription page.  A behaviour *)
(* is about one of them; the other rests in its initial state.             *)
(***************************************************************************)
EXTENDS AccessSync, SubscriptionSlots, TLC

CONSTANTS phone, laptop, bot, panel, view

VARIABLE part

MCCountries == <<"de", "dk">>
MCSymmetry == Permutations({phone, laptop}) \union Permutations({bot, panel})

Init == /\ AccessInit /\ SlotInit
        /\ \/ part = "clock" /\ client = {}
           \/ part = "slots" /\ paid = 0 /\ trial = 0
Next == /\ \/ part = "clock" /\ AccessNext /\ UNCHANGED slotVars
           \/ part = "slots" /\ SlotNext /\ UNCHANGED accessVars
        /\ UNCHANGED part
Spec == Init /\ [][Next]_<<part, accessVars, slotVars>>
=============================================================================
