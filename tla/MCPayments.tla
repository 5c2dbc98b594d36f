----------------------------- MODULE MCPayments -----------------------------
(***************************************************************************)
(* The payments for TLC: their delivery, and their records with the        *)
(* buyer's balance.  A behaviour is about one of them, the other rests in  *)
(* its initial state.  The two handlers that deliver payments are, in the  *)
(* other half, the two writers that do not lock what they read.            *)
(***************************************************************************)
EXTENDS MCPaymentEffect, MCPaymentRecords

VARIABLE part

PaymentsInit == /\ Init /\ RecordsInit
                /\ part \in {"delivery", "records"}
PaymentsNext ==
    /\ \/ part = "delivery" /\ Next /\ UNCHANGED recordVars
       \/ part = "records" /\ RecordsNext /\ UNCHANGED vars
    /\ UNCHANGED part
PaymentsSpec == PaymentsInit /\ [][PaymentsNext]_<<part, vars, recordVars>>
=============================================================================
