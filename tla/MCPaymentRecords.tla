-------------------------- MODULE MCPaymentRecords --------------------------
(***************************************************************************)
(* Instances of PaymentRecords for TLC: a manual and a Platega payment     *)
(* whose prices together exceed the balance.                               *)
(***************************************************************************)
EXTENDS PaymentRecords, TLC

CONSTANTS manual, platega, w1

BothPayments == {manual, platega}
OnlyManual == {manual}
NoPayments == {}
OnlyPlatega == {platega}
OneWriter == {w1}
Prices == [r \in Payments |-> IF r = manual THEN 1 ELSE 2]
=============================================================================
