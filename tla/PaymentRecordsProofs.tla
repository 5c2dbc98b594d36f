------------------------ MODULE PaymentRecordsProofs ------------------------
(***************************************************************************)
(* Proofs about PaymentRecords for every set of payments, prices, opening  *)
(* balance and number of unlocked writers.                                 *)
(*                                                                         *)
(* The properties lean on each other: the reserve of a new record is a     *)
(* natural number because the account is solvent, and a price is not       *)
(* exceeded because a record that was never opened has cost nothing and    *)
(* Platega is never asked for more than the price.  MoneyInv is all of it. *)
(* BookInv adds that the reserve of the account is the sum of its payments'*)
(* reserves, which takes lemmas about sums: what one changed value, or a   *)
(* set of values dropped to zero, does to the sum of a function; and that  *)
(* the money Platega collects differs from what the record says of it by   *)
(* what the balance moved between quote and record.  Last, every step of   *)
(* the writers is one of Purse.                                            *)
(***************************************************************************)
EXTENDS PaymentRecords, FiniteSetTheorems, WellFoundedInduction, TLAPS

(* A payment nobody opened has cost its buyer nothing. *)
Unopened ==
    \A r \in Payments : status[r] \in {"none", "quoted"}
        => amount[r] = 0 /\ res[r] = 0 /\ app[r] = 0 /\ freed[r] = 0 /\ moved[r] = 0

(* Platega is asked for a part of the price, and only by a quote. *)
AskedInPrice ==
    \A r \in Payments : /\ asked[r] <= Price[r]
                        /\ status[r] = "none" => asked[r] = 0
                        /\ status[r] = "quoted" => asked[r] > 0

(* What the record says of a payment never exceeds its price. *)
RowInPrice == \A r \in Payments : amount[r] + res[r] + app[r] <= Price[r]

MoneyInv == RecordsTypeOK /\ Solvent /\ Unopened /\ AskedInPrice /\ RowInPrice

-----------------------------------------------------------------------------
(* Giving back, whatever the writer believes it holds, only shrinks the     *)
(* account's reserve and stops at zero.                                     *)
LEMMA GiveBackShrinks ==
  ASSUME NEW total, reserved \in Nat, GiveBack(total)
  PROVE  reserved' \in Nat /\ reserved' <= reserved
BY DEF GiveBack

(* Freeing a record shrinks its reserve and the account's. *)
LEMMA FreeShrinks ==
  ASSUME NEW r \in Payments, RecordsTypeOK, Free(r)
  PROVE  /\ reserved' \in Nat /\ reserved' <= reserved
         /\ res' \in [Payments -> Nat]
         /\ \A q \in Payments : res'[q] <= res[q]
         /\ freed' \in [Payments -> Nat]
         /\ \A q \in Payments \ {r} : freed'[q] = freed[q]
<1>1. reserved' \in Nat /\ reserved' <= reserved
  BY GiveBackShrinks DEF Free, RecordsTypeOK
<1>2. QED
  BY <1>1 DEF Free, RecordsTypeOK

(* The debit moves money from the record's reserve to its applied part, and *)
(* leaves the account solvent.                                              *)
LEMMA ApplyMoves ==
  ASSUME NEW r \in Payments, RecordsTypeOK, Solvent, ApplyReserve(r)
  PROVE  /\ balance' \in Nat /\ reserved' \in Nat /\ reserved' <= balance'
         /\ res' \in [Payments -> Nat] /\ app' \in [Payments -> Nat]
         /\ \A q \in Payments : res'[q] + app'[q] <= res[q] + app[q]
<1> DEFINE n == LesserOf(LesserOf(res[r], reserved), balance)
<1>1. n \in Nat /\ n <= res[r] /\ n <= reserved /\ n <= balance
  BY DEF RecordsTypeOK, LesserOf
<1>2. /\ reserved' = reserved - n /\ balance' = balance - n
      /\ app' = [app EXCEPT ![r] = @ + n]
      /\ res' = [res EXCEPT ![r] = IF n = 0 THEN 0 ELSE @ - n]
  BY DEF ApplyReserve
<1> HIDE DEF n
<1>3. res[r] \in Nat /\ app[r] \in Nat /\ reserved \in Nat /\ balance \in Nat
  BY DEF RecordsTypeOK
<1>4. /\ balance' \in Nat /\ reserved' \in Nat /\ reserved' <= balance'
  BY <1>1, <1>2, <1>3 DEF Solvent
<1>5. app' \in [Payments -> Nat] /\ app'[r] = app[r] + n
  BY <1>1, <1>2, <1>3 DEF RecordsTypeOK
<1>6. res' \in [Payments -> Nat] /\ res'[r] <= res[r] - n
  BY <1>1, <1>2, <1>3 DEF RecordsTypeOK
<1>7. \A q \in Payments \ {r} : res'[q] = res[q] /\ app'[q] = app[q]
  BY <1>2 DEF RecordsTypeOK
<1>8. ASSUME NEW q \in Payments PROVE res'[q] + app'[q] <= res[q] + app[q]
  <2>1. CASE q = r
    BY <1>1, <1>3, <1>5, <1>6, <2>1
  <2>2. CASE q # r
    BY <1>7, <2>2 DEF RecordsTypeOK
  <2>3. QED
    BY <2>1, <2>2
<1>9. QED
  BY <1>4, <1>5, <1>6, <1>8

(* What a new record reserves is available and within its price. *)
LEMMA ReserveFits ==
  ASSUME NEW r \in Payments, RecordsTypeOK, Solvent
  PROVE  /\ ReserveOf(r) \in Nat /\ ReserveOf(r) <= Price[r]
         /\ reserved + ReserveOf(r) <= balance
BY RecordAssumption DEF ReserveOf, LesserOf, Available, RecordsTypeOK, Solvent

-----------------------------------------------------------------------------
(* A record opened with its reserve is solvent and within its price. *)
LEMMA OpenFits ==
  ASSUME NEW r \in Payments, NEW s \in Statuses \ {"none", "quoted"}, MoneyInv,
         status[r] \in {"none", "quoted"}, OpenWithReserve(r, s),
         NEW m \in Int, moved' = [moved EXCEPT ![r] = m]
  PROVE  MoneyInv'
<1> DEFINE n == ReserveOf(r)
<1>1. n \in Nat /\ n <= Price[r] /\ reserved + n <= balance
  BY ReserveFits DEF MoneyInv
<1>2. /\ status' = [status EXCEPT ![r] = s]
      /\ amount' = [amount EXCEPT ![r] = Price[r] - n]
      /\ res' = [res EXCEPT ![r] = n] /\ reserved' = reserved + n
      /\ UNCHANGED <<balance, credits, app, asked, overdue, hand, freed, loose>>
  BY DEF OpenWithReserve, SetStatus
<1> HIDE DEF n
<1>3. Price[r] \in Nat /\ Price[r] - n \in Nat
  BY <1>1, RecordAssumption
<1>4. RecordsTypeOK'
  BY <1>1, <1>2, <1>3 DEF MoneyInv, RecordsTypeOK
<1>5. Solvent'
  BY <1>1, <1>2 DEF Solvent
<1>6. Unopened' /\ AskedInPrice'
  BY <1>2 DEF MoneyInv, RecordsTypeOK, Unopened, AskedInPrice
<1>7. app[r] = 0
  BY DEF MoneyInv, Unopened
<1>8. RowInPrice'
  BY <1>1, <1>2, <1>3, <1>7 DEF MoneyInv, RecordsTypeOK, RowInPrice
<1>9. QED
  BY <1>4, <1>5, <1>6, <1>8 DEF MoneyInv

(* Any end of a payment that frees its reserve or keeps it. *)
LEMMA EndFits ==
  ASSUME NEW r \in Payments, NEW s \in Statuses \ {"none", "quoted"}, MoneyInv,
         SetStatus(r, s), Free(r) \/ Keep,
         overdue' \subseteq Payments, loose' \subseteq Payments,
         UNCHANGED <<balance, credits, amount, app, asked, hand, moved>>
  PROVE  MoneyInv'
<1>1. /\ reserved' \in Nat /\ reserved' <= reserved /\ res' \in [Payments -> Nat]
      /\ \A q \in Payments : res'[q] <= res[q]
      /\ freed' \in [Payments -> Nat]
      /\ \A q \in Payments \ {r} : freed'[q] = freed[q]
  <2>1. CASE Free(r)
    BY <2>1, FreeShrinks DEF MoneyInv
  <2>2. CASE Keep
    BY <2>2 DEF Keep, MoneyInv, RecordsTypeOK
  <2>3. QED
    BY <2>1, <2>2
<1>2. RecordsTypeOK'
  BY <1>1 DEF MoneyInv, RecordsTypeOK, SetStatus
<1>3. Solvent'
  BY <1>1 DEF MoneyInv, RecordsTypeOK, Solvent
<1>4. \A q \in Payments : res[q] = 0 => res'[q] = 0
  BY <1>1 DEF MoneyInv, RecordsTypeOK
<1>5. Unopened' /\ AskedInPrice'
  BY <1>1, <1>4 DEF MoneyInv, RecordsTypeOK, Unopened, AskedInPrice, SetStatus
<1>6. RowInPrice'
  BY <1>1, RecordAssumption DEF MoneyInv, RecordsTypeOK, RowInPrice
<1>7. QED
  BY <1>2, <1>3, <1>5, <1>6 DEF MoneyInv

(* A confirmation. *)
LEMMA ConfirmFits ==
  ASSUME NEW r \in Payments, MoneyInv, ConfirmRecord(r)
  PROVE  MoneyInv'
<1>1. /\ balance' \in Nat /\ reserved' \in Nat /\ reserved' <= balance'
      /\ res' \in [Payments -> Nat] /\ app' \in [Payments -> Nat]
      /\ \A q \in Payments : res'[q] + app'[q] <= res[q] + app[q]
  BY ApplyMoves DEF ConfirmRecord, MoneyInv
<1>2. RecordsTypeOK'
  BY <1>1 DEF ConfirmRecord, SetStatus, MoneyInv, RecordsTypeOK, Statuses, history
<1>3. Solvent'
  BY <1>1 DEF Solvent
<1>4. AskedInPrice'
  BY DEF ConfirmRecord, SetStatus, MoneyInv, RecordsTypeOK, AskedInPrice
<1>5. ASSUME NEW q \in Payments, app[q] = 0 /\ res[q] = 0 PROVE app'[q] = 0 /\ res'[q] = 0
  <2>1. app'[q] \in Nat /\ res'[q] \in Nat
    BY <1>1
  <2>2. res'[q] + app'[q] <= res[q] + app[q]
    BY <1>1
  <2>3. QED
    BY <1>5, <2>1, <2>2
<1>6. Unopened'
  BY <1>5 DEF ConfirmRecord, SetStatus, MoneyInv, RecordsTypeOK, Unopened, history
<1>7. RowInPrice'
  BY <1>1, RecordAssumption DEF ConfirmRecord, MoneyInv, RecordsTypeOK, RowInPrice
<1>8. QED
  BY <1>2, <1>3, <1>4, <1>6, <1>7 DEF MoneyInv

(* The write of an unlocked writer, on whatever became of its records. *)
LEMMA WriteFits ==
  ASSUME NEW w \in Writers, MoneyInv, Write(w)
  PROVE  MoneyInv'
<1> DEFINE S == DOMAIN hand[w].seen
<1>1. hand[w] # NoTask /\ S \subseteq Payments
      /\ hand[w].op \in {"cancelled", "awaiting_admin_review", "expired"}
  BY DEF Write, MoneyInv, RecordsTypeOK
<1>2. /\ DOMAIN hand' = Writers
      /\ \A v \in Writers : hand'[v] = NoTask \/ hand'[v] = hand[v]
      /\ UNCHANGED <<credits, amount, app, asked, overdue, moved>>
  BY DEF Write, MoneyInv, RecordsTypeOK
<1>3. /\ reserved' \in Nat /\ reserved' <= reserved /\ res' \in [Payments -> Nat]
      /\ \A q \in Payments : res'[q] <= res[q]
      /\ freed' \in [Payments -> Nat] /\ loose' \subseteq Payments
      /\ balance' = balance
      /\ status' \in [Payments -> Statuses]
      /\ \A q \in Payments : \/ status'[q] = status[q] /\ freed'[q] = freed[q]
                             \/ status'[q] \notin {"none", "quoted"}
  <2>1. CASE \E r \in S : status[r] = "deleted"
    <3>1. UNCHANGED <<account, status, res, freed, loose>>
      BY <2>1 DEF Write
    <3>2. QED
      BY <3>1 DEF account, MoneyInv, RecordsTypeOK
  <2>2. CASE ~ \E r \in S : status[r] = "deleted"
    <3>1. status' = [r \in Payments |-> IF r \in S THEN hand[w].op ELSE status[r]]
      BY <2>2 DEF Write
    <3>2. /\ status' \in [Payments -> Statuses]
          /\ \A q \in Payments : \/ q \notin S /\ status'[q] = status[q]
                                 \/ status'[q] \notin {"none", "quoted"}
      BY <1>1, <3>1 DEF MoneyInv, RecordsTypeOK, Statuses, Holding, Open
    <3>3. CASE hand[w].op = "awaiting_admin_review"
      <4>1. UNCHANGED <<account, res, freed, loose>>
        BY <2>2, <3>3 DEF Write
      <4>2. QED
        BY <3>2, <4>1 DEF account, MoneyInv, RecordsTypeOK
    <3>4. CASE hand[w].op # "awaiting_admin_review"
      <4>1. /\ GiveBack(Sum(hand[w].seen))
            /\ res' = [r \in Payments |-> IF r \in S THEN 0 ELSE res[r]]
            /\ freed' = [r \in Payments |-> freed[r] + IF r \in S THEN res[r] ELSE 0]
            /\ loose' = loose \union {r \in S : res[r] # hand[w].seen[r]}
            /\ UNCHANGED balance
        BY <2>2, <3>4 DEF Write
      <4>2. reserved' \in Nat /\ reserved' <= reserved
        BY <4>1, GiveBackShrinks DEF MoneyInv, RecordsTypeOK
      <4> HIDE DEF S
      <4>3. freed' \in [Payments -> Nat] /\ \A q \in Payments \ S : freed'[q] = freed[q]
        BY <4>1 DEF MoneyInv, RecordsTypeOK
      <4>4. QED
        BY <1>1, <3>2, <4>1, <4>2, <4>3 DEF MoneyInv, RecordsTypeOK
    <3>5. QED
      BY <3>3, <3>4
  <2>3. QED
    BY <2>1, <2>2
<1> HIDE DEF S
<1>4. RecordsTypeOK'
  BY <1>2, <1>3 DEF MoneyInv, RecordsTypeOK
<1>5. Solvent'
  BY <1>3 DEF MoneyInv, RecordsTypeOK, Solvent
<1>6. Unopened' /\ AskedInPrice'
  BY <1>2, <1>3 DEF MoneyInv, RecordsTypeOK, Unopened, AskedInPrice
<1>7. RowInPrice'
  BY <1>2, <1>3, RecordAssumption DEF MoneyInv, RecordsTypeOK, RowInPrice
<1>8. QED
  BY <1>4, <1>5, <1>6, <1>7 DEF MoneyInv

-----------------------------------------------------------------------------
LEMMA InitIsFair == RecordsInit => MoneyInv
BY AccountAssumption, RecordAssumption
   DEF RecordsInit, MoneyInv, RecordsTypeOK, Statuses, Absent, Solvent, Unopened,
       AskedInPrice, RowInPrice

(* Every step of every actor keeps the account and the prices. *)
LEMMA MoneyStep == MoneyInv /\ [RecordsNext]_recordVars => MoneyInv'
<1> SUFFICES ASSUME MoneyInv, [RecordsNext]_recordVars PROVE MoneyInv'
  OBVIOUS
<1> USE DEF Statuses, Holding, Open, Absent
<1>1. CASE UNCHANGED recordVars
  BY <1>1 DEF recordVars, account, columns, history, MoneyInv, RecordsTypeOK, Solvent, Unopened,
              AskedInPrice, RowInPrice
<1>2. ASSUME NEW r \in Payments, OpenManual(r) PROVE MoneyInv'
  <2>1. moved' = [moved EXCEPT ![r] = moved[r]] /\ moved[r] \in Int
    BY <1>2 DEF OpenManual, MoneyInv, RecordsTypeOK
  <2>2. QED
    BY <1>2, <2>1, OpenFits DEF OpenManual
<1>3. ASSUME NEW r \in Payments, Quote(r) PROVE MoneyInv'
  <2>1. /\ Available \in Nat /\ Price[r] - Available \in Nat
        /\ Price[r] - Available <= Price[r] /\ Price[r] - Available > 0
    <3>1. balance \in Nat /\ reserved \in Nat /\ reserved <= balance
      BY DEF MoneyInv, RecordsTypeOK, Solvent
    <3>2. Price[r] \in Nat /\ Price[r] > balance - reserved
      BY <1>3, RecordAssumption DEF Quote, Available
    <3>3. QED
      BY <3>1, <3>2 DEF Available
  <2>2. /\ status' = [status EXCEPT ![r] = "quoted"]
        /\ asked' = [asked EXCEPT ![r] = Price[r] - Available]
        /\ UNCHANGED <<balance, reserved, credits, amount, res, app, overdue,
                       hand, freed, loose, moved>>
    BY <1>3 DEF Quote, SetStatus, account, columns, history
  <2>3. RecordsTypeOK' /\ Solvent'
    BY <2>1, <2>2 DEF MoneyInv, RecordsTypeOK, Solvent
  <2>4. AskedInPrice'
    BY <2>1, <2>2 DEF MoneyInv, RecordsTypeOK, AskedInPrice
  <2>5. Unopened' /\ RowInPrice'
    BY <1>3, <2>2 DEF Quote, MoneyInv, RecordsTypeOK, Unopened, RowInPrice
  <2>6. QED
    BY <2>3, <2>4, <2>5 DEF MoneyInv
<1>4. ASSUME NEW r \in Payments, OpenProvider(r) PROVE MoneyInv'
  <2>1. PICK m : m = ReserveOf(r) - (Price[r] - asked[r])
    OBVIOUS
  <2>2. m \in Int
    BY <2>1, ReserveFits, RecordAssumption DEF MoneyInv, RecordsTypeOK
  <2>3. QED
    BY <1>4, <2>1, <2>2, OpenFits DEF OpenProvider
<1>5. ASSUME NEW r \in Payments, OpenByCallback(r) PROVE MoneyInv'
  <2>1. /\ status' = [status EXCEPT ![r] = "pending"]
        /\ amount' = [amount EXCEPT ![r] = asked[r]]
        /\ res' = [res EXCEPT ![r] = Price[r] - asked[r]]
        /\ app' = [app EXCEPT ![r] = 0]
        /\ freed' = [freed EXCEPT ![r] = 0] /\ moved' = [moved EXCEPT ![r] = 0]
        /\ loose' \subseteq Payments
        /\ UNCHANGED <<balance, reserved, credits, asked, overdue, hand>>
    BY <1>5 DEF OpenByCallback, SetStatus, account, MoneyInv, RecordsTypeOK
  <2>2. asked[r] \in Nat /\ Price[r] \in Nat /\ Price[r] - asked[r] \in Nat
    BY RecordAssumption DEF MoneyInv, RecordsTypeOK, AskedInPrice
  <2>3. RecordsTypeOK' /\ Solvent' /\ AskedInPrice'
    BY <2>1, <2>2 DEF MoneyInv, RecordsTypeOK, Solvent, AskedInPrice
  <2>4. Unopened'
    BY <2>1 DEF MoneyInv, RecordsTypeOK, Unopened
  <2>5. RowInPrice'
    BY <2>1, <2>2 DEF MoneyInv, RecordsTypeOK, RowInPrice
  <2>6. QED
    BY <2>3, <2>4, <2>5 DEF MoneyInv
<1>6. ASSUME NEW r \in Payments, PayFromBalance(r) PROVE MoneyInv'
  <2>1. Price[r] \in Nat /\ amount[r] = 0 /\ res[r] = 0
        /\ balance - Price[r] \in Nat /\ reserved <= balance - Price[r]
    <3>1. balance \in Nat /\ reserved \in Nat
      BY DEF MoneyInv, RecordsTypeOK
    <3>2. Price[r] \in Nat /\ balance - reserved >= Price[r]
      BY <1>6, RecordAssumption DEF PayFromBalance, Available
    <3>3. amount[r] = 0 /\ res[r] = 0
      BY <1>6 DEF PayFromBalance, MoneyInv, Unopened
    <3>4. QED
      BY <3>1, <3>2, <3>3
  <2>2. /\ status' = [status EXCEPT ![r] = "confirmed"]
        /\ app' = [app EXCEPT ![r] = Price[r]] /\ balance' = balance - Price[r]
        /\ UNCHANGED <<reserved, credits, amount, res, asked, overdue, hand,
                       freed, loose, moved>>
    BY <1>6 DEF PayFromBalance, SetStatus, history
  <2>3. RecordsTypeOK' /\ Solvent' /\ AskedInPrice'
    BY <2>1, <2>2 DEF MoneyInv, RecordsTypeOK, Solvent, AskedInPrice
  <2>4. Unopened'
    BY <2>2 DEF MoneyInv, RecordsTypeOK, Unopened
  <2>5. RowInPrice'
    BY <2>1, <2>2 DEF MoneyInv, RecordsTypeOK, RowInPrice
  <2>6. QED
    BY <2>3, <2>4, <2>5 DEF MoneyInv
<1>7. CASE CreditBalance
  <2>1. /\ balance' = balance + 1 /\ credits' = credits + 1
        /\ UNCHANGED <<reserved, status, amount, res, app, asked, overdue,
                       hand, freed, loose, moved>>
    BY <1>7 DEF CreditBalance, columns, history
  <2>2. RecordsTypeOK' /\ Solvent'
    BY <2>1 DEF MoneyInv, RecordsTypeOK, Solvent
  <2>3. Unopened' /\ AskedInPrice' /\ RowInPrice'
    BY <2>1 DEF MoneyInv, Unopened, AskedInPrice, RowInPrice
  <2>4. QED
    BY <2>2, <2>3 DEF MoneyInv
<1>8. ASSUME NEW r \in Payments, ReviewConfirm(r) \/ ProviderConfirm(r)
      PROVE  MoneyInv'
  BY <1>8, ConfirmFits DEF ReviewConfirm, ProviderConfirm
<1>9. ASSUME NEW r \in Payments, ReviewReject(r) PROVE MoneyInv'
  <2>1. overdue' \subseteq Payments /\ loose' \subseteq Payments
    BY <1>9 DEF ReviewReject, MoneyInv, RecordsTypeOK
  <2>2. QED
    BY <1>9, <2>1, EndFits DEF ReviewReject
<1>10. ASSUME NEW r \in Payments,
              NEW s \in {"pending", "expired", "disputed", "error"},
              ProviderSays(r, s)
       PROVE  MoneyInv'
  <2>1. /\ SetStatus(r, s) /\ (Free(r) \/ Keep)
        /\ overdue' \subseteq Payments /\ loose' \subseteq Payments
        /\ UNCHANGED <<balance, credits, amount, app, asked, hand, moved>>
    BY <1>10 DEF ProviderSays, MoneyInv, RecordsTypeOK
  <2>2. s \in Statuses \ {"none", "quoted"}
    OBVIOUS
  <2>3. QED
    BY <2>1, <2>2, EndFits
<1>11. ASSUME NEW r \in Payments,
              NEW s \in Open \union {"rejected", "expired", "disputed", "error"},
              SetByAdmin(r, s)
       PROVE  MoneyInv'
  <2>1. /\ SetStatus(r, s) /\ (Free(r) \/ Keep)
        /\ overdue' \subseteq Payments /\ loose' \subseteq Payments
        /\ UNCHANGED <<balance, credits, amount, app, asked, hand, moved>>
    BY <1>11 DEF SetByAdmin, MoneyInv, RecordsTypeOK
  <2>2. s \in Statuses \ {"none", "quoted"}
    OBVIOUS
  <2>3. QED
    BY <2>1, <2>2, EndFits
<1>12. ASSUME NEW r \in Payments, Delete(r) PROVE MoneyInv'
  <2>1. /\ SetStatus(r, "deleted") /\ overdue' = overdue
        /\ UNCHANGED <<balance, credits, amount, app, asked, hand, moved>>
    BY <1>12 DEF Delete
  <2>2. CASE status[r] \in Holding
    <3>1. Free(r) /\ loose' = loose
      BY <1>12, <2>2 DEF Delete
    <3>2. QED
      BY <2>1, <3>1, EndFits DEF MoneyInv, RecordsTypeOK
  <2>3. CASE status[r] \notin Holding
    <3>1. /\ res' = [res EXCEPT ![r] = 0] /\ UNCHANGED <<reserved, freed>>
          /\ loose' \subseteq Payments
      BY <1>12, <2>3 DEF Delete, MoneyInv, RecordsTypeOK
    <3>2. RecordsTypeOK' /\ Solvent' /\ AskedInPrice'
      BY <2>1, <3>1 DEF SetStatus, MoneyInv, RecordsTypeOK, Solvent, AskedInPrice
    <3>3. Unopened'
      BY <2>1, <3>1 DEF SetStatus, MoneyInv, RecordsTypeOK, Unopened
    <3>4. res' \in [Payments -> Nat] /\ \A q \in Payments : res'[q] <= res[q]
      BY <3>1 DEF MoneyInv, RecordsTypeOK
    <3>5. RowInPrice'
      BY <2>1, <3>4, RecordAssumption DEF MoneyInv, RecordsTypeOK, RowInPrice
    <3>6. QED
      BY <3>2, <3>3, <3>5 DEF MoneyInv
  <2>4. QED
    BY <2>2, <2>3
<1>13. ASSUME NEW r \in Payments, Expire(r) PROVE MoneyInv'
  BY <1>13 DEF Expire, account, columns, history, MoneyInv, RecordsTypeOK, Solvent, Unopened,
               AskedInPrice, RowInPrice
<1>14. ASSUME NEW w \in Writers, NEW S \in SUBSET Payments,
              NEW op \in {"cancelled", "awaiting_admin_review", "expired"},
              Read(w, op, S)
       PROVE  MoneyInv'
  <2>1. RecordsTypeOK'
    BY <1>14 DEF Read, account, columns, history, MoneyInv, RecordsTypeOK
  <2>2. QED
    BY <1>14, <2>1 DEF Read, account, columns, history, MoneyInv, Solvent, Unopened,
                       AskedInPrice, RowInPrice
<1>15. ASSUME NEW w \in Writers, NEW r \in Payments,
              NEW op \in {"cancelled", "awaiting_admin_review"},
              ReadOpen(w, op, r)
       PROVE  MoneyInv'
  BY <1>14, <1>15 DEF ReadOpen
<1>16. ASSUME NEW w \in Writers, ReadDue(w) PROVE MoneyInv'
  BY <1>14, <1>16 DEF ReadDue, Due
<1>17. ASSUME NEW w \in Writers, Write(w) PROVE MoneyInv'
  BY <1>17, WriteFits
<1>18. QED
  BY <1>1, <1>2, <1>3, <1>4, <1>5, <1>6, <1>7, <1>8, <1>9, <1>10, <1>11,
     <1>12, <1>13, <1>15, <1>16, <1>17
     DEF RecordsNext, Opened, Settled, Unlocked

LEMMA MoneyInvariant == RecordsSpec => []MoneyInv
BY InitIsFair, MoneyStep, PTL DEF RecordsSpec

-----------------------------------------------------------------------------
(* Type correctness, for any payments and prices: no amount, reserve or     *)
(* balance is ever negative.                                                *)
THEOREM TypeCorrect == RecordsSpec => []RecordsTypeOK
<1>1. MoneyInv => RecordsTypeOK
  BY DEF MoneyInv
<1>2. QED
  BY <1>1, MoneyInvariant, PTL

(* What the account has reserved is always there: the locks around the      *)
(* account are enough, whatever the unlocked writers do to the records.     *)
THEOREM AlwaysSolvent == RecordsSpec => []Solvent
<1>1. MoneyInv => Solvent
  BY DEF MoneyInv
<1>2. QED
  BY <1>1, MoneyInvariant, PTL

-----------------------------------------------------------------------------
(* Sums.  ReservesBacked adds up a function with a fold of the library.     *)
(* What is true of the empty set, and of a set whenever it is true of every *)
(* set one element smaller, is true of every part of a finite set: that is  *)
(* proved from the well-founded order of the naturals, for a set of parts.  *)
LEMMA LeastExists ==
    ASSUME NEW S, S \subseteq Nat, S # {}
    PROVE  \E x \in S : \A y \in S : x <= y
<1>1. \E x \in S : \A y \in S : ~(<<y, x>> \in OpToRel(<, Nat))
  BY NatLessThanWellFounded, WFMin
<1>2. PICK x \in S : \A y \in S : ~(y < x)
  BY <1>1 DEF OpToRel
<1>3. \A y \in S : x <= y
  BY <1>2
<1> QED BY <1>3

(* The parts of a finite set, and what is left of them without an element. *)
LEMMA Counted ==
    ASSUME NEW S, IsFiniteSet(S), NEW u \in SUBSET S
    PROVE  /\ IsFiniteSet(u) /\ Cardinality(u) \in Nat /\ (Cardinality(u) = 0 <=> u = {})
           /\ \A x \in u : u \ {x} \in SUBSET S /\ Cardinality(u \ {x}) = Cardinality(u) - 1
<1>1. IsFiniteSet(u) BY FS_Subset
<1> QED BY <1>1, FS_CardinalityType, FS_EmptySet, FS_RemoveElement

(* Induction over the parts of a finite set. *)
LEMMA BySmaller ==
    ASSUME NEW S, IsFiniteSet(S), NEW Good, {} \in Good,
           \A u \in SUBSET S : u # {} /\ (\A x \in u : u \ {x} \in Good) => u \in Good
    PROVE  SUBSET S \subseteq Good
<1> DEFINE Bad == (SUBSET S) \ Good
           Sizes == {Cardinality(u) : u \in Bad}
<1> SUFFICES ASSUME Bad # {} PROVE FALSE
  OBVIOUS
<1>1. Sizes \subseteq Nat /\ Sizes # {}
  <2>1. \A u \in Bad : Cardinality(u) \in Nat BY Counted
  <2> QED BY <2>1
<1>2. PICK n \in Sizes : \A m \in Sizes : n <= m BY <1>1, LeastExists
<1>3. PICK u \in Bad : n = Cardinality(u) BY <1>2
<1>4. \A x \in u : u \ {x} \in Good
  <2> SUFFICES ASSUME NEW x \in u, u \ {x} \notin Good PROVE FALSE
    OBVIOUS
  <2>1. u \ {x} \in Bad /\ Cardinality(u \ {x}) = n - 1 /\ n \in Nat BY <1>1, <1>3, Counted
  <2>2. n - 1 \in Sizes BY <2>1
  <2> QED BY <1>2, <2>1, <2>2
<1>5. u \in SUBSET S /\ u \notin Good
  BY <1>3
<1>6. u # {} BY <1>5
<1> QED BY <1>4, <1>5, <1>6

(* What the fold over a function adds up, part after part.                  *)
Pick(s) == CHOOSE x \in s : TRUE
IsSum(g, f, S) ==
    g = [s \in SUBSET S |-> IF s = {} THEN 0 ELSE f[Pick(s)] + g[s \ {Pick(s)}]]
Total(f, S) == CHOOSE g : IsSum(g, f, S)
UpTo(n, g, f, S) ==
    \A u \in SUBSET S : Cardinality(u) <= n =>
        g[u] = IF u = {} THEN 0 ELSE f[Pick(u)] + g[u \ {Pick(u)}]

(* The sum is the total of the whole domain. *)
LEMMA Unfold ==
    ASSUME NEW f
    PROVE  Sum(f) = Total(f, DOMAIN f)[DOMAIN f]
  BY DEF Sum, FoldFunction, FoldFunctionOnSet, MapThenFoldSet, Total, IsSum, Pick

(* A fold right for the parts of n elements gives one right for n + 1. *)
LEMMA OneMore ==
    ASSUME NEW S, IsFiniteSet(S), NEW f \in [S -> Nat], NEW n \in Nat,
           NEW g \in [SUBSET S -> Nat], UpTo(n, g, f, S)
    PROVE  \E h \in [SUBSET S -> Nat] : UpTo(n + 1, h, f, S)
<1>1. \A u \in SUBSET S : u # {} =>
         /\ Pick(u) \in u /\ u \ {Pick(u)} \in SUBSET S /\ f[Pick(u)] \in Nat
         /\ Cardinality(u) \in Nat /\ Cardinality(u \ {Pick(u)}) = Cardinality(u) - 1
  BY Counted DEF Pick
<1> DEFINE h == [u \in SUBSET S |-> IF u = {} THEN 0 ELSE f[Pick(u)] + g[u \ {Pick(u)}]]
<1>2. h \in [SUBSET S -> Nat]
  <2>1. ASSUME NEW u \in SUBSET S, u # {} PROVE f[Pick(u)] + g[u \ {Pick(u)}] \in Nat
    <3>1. f[Pick(u)] \in Nat /\ u \ {Pick(u)} \in SUBSET S BY <1>1, <2>1
    <3>2. g[u \ {Pick(u)}] \in Nat BY <3>1
    <3> QED BY <3>1, <3>2
  <2> QED BY <2>1
<1>3. \A u \in SUBSET S : h[u] = IF u = {} THEN 0 ELSE f[Pick(u)] + g[u \ {Pick(u)}]
  OBVIOUS
<1> HIDE DEF h
<1>4. \A u \in SUBSET S : Cardinality(u) <= n => h[u] = g[u] BY <1>3 DEF UpTo
<1>5. ASSUME NEW u \in SUBSET S, Cardinality(u) <= n + 1, u # {}
      PROVE  h[u] = f[Pick(u)] + h[u \ {Pick(u)}]
  <2>1. Cardinality(u \ {Pick(u)}) <= n BY <1>1, <1>5
  <2>2. h[u \ {Pick(u)}] = g[u \ {Pick(u)}] BY <1>1, <1>4, <1>5, <2>1
  <2> QED BY <1>3, <1>5, <2>2
<1>6. UpTo(n + 1, h, f, S) BY <1>3, <1>5 DEF UpTo
<1> QED BY <1>2, <1>6

(* There is such a fold: it is built up to one cardinality after the other. *)
LEMMA TotalExists ==
    ASSUME NEW S, IsFiniteSet(S), NEW f \in [S -> Nat]
    PROVE  \E g \in [SUBSET S -> Nat] : IsSum(g, f, S)
<1> DEFINE Bad == {n \in Nat : ~\E g \in [SUBSET S -> Nat] : UpTo(n, g, f, S)}
<1>1. 0 \notin Bad
  <2> DEFINE g == [u \in SUBSET S |-> 0]
  <2>1. g \in [SUBSET S -> Nat] OBVIOUS
  <2>2. UpTo(0, g, f, S) BY Counted DEF UpTo
  <2> QED BY <2>1, <2>2
<1>2. \A n \in Nat : n \notin Bad => n + 1 \notin Bad BY OneMore
<1> HIDE DEF Bad
<1>3. Bad = {}
  <2> SUFFICES ASSUME Bad # {} PROVE FALSE
    OBVIOUS
  <2>1. Bad \subseteq Nat BY DEF Bad
  <2>2. PICK n \in Bad : \A m \in Bad : n <= m BY <2>1, LeastExists
  <2>3. n \in Nat /\ n # 0 BY <1>1, <2>1
  <2>4. n - 1 \in Nat /\ n - 1 \notin Bad /\ (n - 1) + 1 = n BY <2>1, <2>2, <2>3
  <2> QED BY <1>2, <2>4
<1>4. Cardinality(S) \in Nat BY Counted
<1>5. PICK g \in [SUBSET S -> Nat] : UpTo(Cardinality(S), g, f, S) BY <1>3, <1>4 DEF Bad
<1>6. \A u \in SUBSET S : Cardinality(u) <= Cardinality(S) BY FS_Subset
<1>7. IsSum(g, f, S) BY <1>5, <1>6 DEF UpTo, IsSum
<1> QED BY <1>7

(* What a total does, for natural numbers. *)
LEMMA TotalAdds ==
    ASSUME NEW S, IsFiniteSet(S), NEW f \in [S -> Nat]
    PROVE  /\ Total(f, S) \in [SUBSET S -> Nat] /\ Total(f, S)[{}] = 0
           /\ \A u \in SUBSET S : u # {} =>
                 /\ Pick(u) \in u
                 /\ Total(f, S)[u] = f[Pick(u)] + Total(f, S)[u \ {Pick(u)}]
<1> DEFINE g == Total(f, S)
<1>1. IsSum(g, f, S) BY TotalExists DEF Total
<1> HIDE DEF g
<1>2. g = [s \in SUBSET S |-> IF s = {} THEN 0 ELSE f[Pick(s)] + g[s \ {Pick(s)}]]
  BY <1>1 DEF IsSum
<1>3. g[{}] = 0 /\ \A u \in SUBSET S : u # {} => g[u] = f[Pick(u)] + g[u \ {Pick(u)}]
  <2>1. \A u \in SUBSET S : g[u] = IF u = {} THEN 0 ELSE f[Pick(u)] + g[u \ {Pick(u)}]
    <3> SUFFICES ASSUME NEW u \in SUBSET S
                 PROVE  g[u] = IF u = {} THEN 0 ELSE f[Pick(u)] + g[u \ {Pick(u)}]
      OBVIOUS
    <3>1. [s \in SUBSET S |-> IF s = {} THEN 0 ELSE f[Pick(s)] + g[s \ {Pick(s)}]][u]
          = IF u = {} THEN 0 ELSE f[Pick(u)] + g[u \ {Pick(u)}]
      BY Zenon
    <3> QED BY <1>2, <3>1, Zenon
  <2> QED BY <2>1
<1>4. \A u \in SUBSET S : u # {} => Pick(u) \in u BY DEF Pick
<1>5. SUBSET S \subseteq {u \in SUBSET S : g[u] \in Nat}
  <2> DEFINE Good == {u \in SUBSET S : g[u] \in Nat}
  <2>1. {} \in Good BY <1>3
  <2>2. ASSUME NEW u \in SUBSET S, u # {}, \A x \in u : u \ {x} \in Good
        PROVE  u \in Good
    <3>1. Pick(u) \in u /\ g[u] = f[Pick(u)] + g[u \ {Pick(u)}] BY <1>3, <1>4, <2>2
    <3>2. f[Pick(u)] \in Nat BY <3>1
    <3>3. g[u \ {Pick(u)}] \in Nat BY <2>2, <3>1
    <3> QED BY <3>1, <3>2, <3>3
  <2> HIDE DEF Good
  <2>3. SUBSET S \subseteq Good BY <2>1, <2>2, BySmaller
  <2> QED BY <2>3 DEF Good
<1>6. g \in [SUBSET S -> Nat] BY <1>2, <1>5
<1> QED BY <1>3, <1>4, <1>6 DEF g

(* Any element can be taken out first: the sum does not depend on order.    *)
LEMMA TakeOut ==
    ASSUME NEW S, IsFiniteSet(S), NEW f \in [S -> Nat]
    PROVE  \A u \in SUBSET S : \A x \in u : Total(f, S)[u] = f[x] + Total(f, S)[u \ {x}]
<1> DEFINE g == Total(f, S)
           Good == {u \in SUBSET S : \A x \in u : g[u] = f[x] + g[u \ {x}]}
<1>1. /\ g \in [SUBSET S -> Nat]
      /\ \A u \in SUBSET S : u # {} => Pick(u) \in u /\ g[u] = f[Pick(u)] + g[u \ {Pick(u)}]
  BY TotalAdds
<1> HIDE DEF g
<1>2. {} \in Good OBVIOUS
<1>3. ASSUME NEW u \in SUBSET S, u # {}, \A x \in u : u \ {x} \in Good
      PROVE  u \in Good
  <2> DEFINE p == Pick(u)
  <2>1. p \in u /\ g[u] = f[p] + g[u \ {p}] BY <1>1, <1>3
  <2> HIDE DEF p
  <2>2. ASSUME NEW x \in u, x # p PROVE g[u] = f[x] + g[u \ {x}]
    <3>1. g[u \ {p}] = f[x] + g[(u \ {p}) \ {x}]
      <4>1. x \in u \ {p} /\ u \ {p} \in Good BY <1>3, <2>1, <2>2
      <4> QED BY <4>1
    <3>2. g[u \ {x}] = f[p] + g[(u \ {x}) \ {p}]
      <4>1. p \in u \ {x} /\ u \ {x} \in Good BY <1>3, <2>1, <2>2
      <4> QED BY <4>1
    <3>3. (u \ {x}) \ {p} = (u \ {p}) \ {x} OBVIOUS
    <3>4. f[x] \in Nat /\ f[p] \in Nat /\ g[(u \ {p}) \ {x}] \in Nat
      <4>1. x \in S /\ p \in S /\ (u \ {p}) \ {x} \in SUBSET S BY <2>1
      <4> QED BY <1>1, <4>1
    <3> QED BY <2>1, <3>1, <3>2, <3>3, <3>4
  <2>3. \A x \in u : g[u] = f[x] + g[u \ {x}] BY <2>1, <2>2
  <2> QED BY <2>3
<1> HIDE DEF Good
<1>4. SUBSET S \subseteq Good BY <1>2, <1>3, BySmaller
<1>5. \A u \in SUBSET S : \A x \in u : g[u] = f[x] + g[u \ {x}] BY <1>4 DEF Good
<1> QED BY <1>5 DEF g

(* A sum is a natural number no smaller than any of its terms. *)
LEMMA SumIsNat ==
    ASSUME NEW S, IsFiniteSet(S), NEW f \in [S -> Nat]
    PROVE  /\ Sum(f) \in Nat /\ Sum(f) = Total(f, S)[S]
           /\ \A x \in S : f[x] <= Sum(f) /\ Sum(f) = f[x] + Total(f, S)[S \ {x}]
<1>1. Sum(f) = Total(f, S)[S] BY Unfold
<1>2. Total(f, S) \in [SUBSET S -> Nat] BY TotalAdds
<1>3. Sum(f) \in Nat BY <1>1, <1>2
<1>4. ASSUME NEW x \in S PROVE f[x] <= Sum(f) /\ Sum(f) = f[x] + Total(f, S)[S \ {x}]
  <2>1. Sum(f) = f[x] + Total(f, S)[S \ {x}] BY <1>1, TakeOut
  <2>2. Total(f, S)[S \ {x}] \in Nat BY <1>2
  <2> QED BY <2>1, <2>2
<1> QED BY <1>1, <1>3, <1>4

(* Parts of equal values have equal sums. *)
LEMMA SameParts ==
    ASSUME NEW S, IsFiniteSet(S), NEW f \in [S -> Nat], NEW g \in [S -> Nat],
           NEW w \in SUBSET S, \A x \in w : f[x] = g[x]
    PROVE  Total(f, S)[w] = Total(g, S)[w]
<1> DEFINE F == Total(f, S)
           G == Total(g, S)
           Good == {u \in SUBSET S : u \subseteq w => F[u] = G[u]}
<1>1. F[{}] = 0 /\ \A u \in SUBSET S : u # {} => Pick(u) \in u /\ F[u] = f[Pick(u)] + F[u \ {Pick(u)}]
  BY TotalAdds
<1>2. G[{}] = 0 /\ \A u \in SUBSET S : u # {} => Pick(u) \in u /\ G[u] = g[Pick(u)] + G[u \ {Pick(u)}]
  BY TotalAdds
<1> HIDE DEF F, G
<1>3. {} \in Good BY <1>1, <1>2
<1>4. ASSUME NEW u \in SUBSET S, u # {}, \A x \in u : u \ {x} \in Good
      PROVE  u \in Good
  <2> SUFFICES ASSUME u \subseteq w PROVE F[u] = G[u]
    OBVIOUS
  <2>1. Pick(u) \in u /\ F[u] = f[Pick(u)] + F[u \ {Pick(u)}]
        /\ G[u] = g[Pick(u)] + G[u \ {Pick(u)}] BY <1>1, <1>2, <1>4
  <2>2. F[u \ {Pick(u)}] = G[u \ {Pick(u)}] BY <1>4, <2>1
  <2>3. f[Pick(u)] = g[Pick(u)] BY <2>1
  <2> QED BY <2>1, <2>2, <2>3
<1> HIDE DEF Good
<1>5. SUBSET S \subseteq Good BY <1>3, <1>4, BySmaller
<1>6. F[w] = G[w] BY <1>5 DEF Good
<1> QED BY <1>6 DEF F, G

(* Nothing adds up to nothing. *)
LEMMA SumOfZeros ==
    ASSUME NEW S, IsFiniteSet(S), NEW f \in [S -> Nat], \A x \in S : f[x] = 0
    PROVE  Sum(f) = 0
<1> DEFINE F == Total(f, S)
           Good == {u \in SUBSET S : F[u] = 0}
<1>1. F[{}] = 0 /\ \A u \in SUBSET S : u # {} => Pick(u) \in u /\ F[u] = f[Pick(u)] + F[u \ {Pick(u)}]
  BY TotalAdds
<1> HIDE DEF F
<1>2. {} \in Good BY <1>1
<1>3. ASSUME NEW u \in SUBSET S, u # {}, \A x \in u : u \ {x} \in Good
      PROVE  u \in Good
  <2>1. Pick(u) \in u /\ F[u] = f[Pick(u)] + F[u \ {Pick(u)}] BY <1>1, <1>3
  <2>2. F[u \ {Pick(u)}] = 0 BY <1>3, <2>1
  <2>3. f[Pick(u)] = 0 BY <2>1
  <2> QED BY <2>1, <2>2, <2>3
<1> HIDE DEF Good
<1>4. SUBSET S \subseteq Good BY <1>2, <1>3, BySmaller
<1>5. F[S] = 0 BY <1>4 DEF Good
<1> QED BY <1>5, SumIsNat DEF F

(* One value changes. *)
LEMMA SumMoves ==
    ASSUME NEW S, IsFiniteSet(S), NEW f \in [S -> Nat], NEW r \in S, NEW v \in Nat,
           NEW g \in [S -> Nat], g[r] = v, \A x \in S \ {r} : g[x] = f[x]
    PROVE  Sum(g) + f[r] = Sum(f) + v
<1>2. Total(f, S)[S \ {r}] = Total(g, S)[S \ {r}]
  <2>1. PICK w \in SUBSET S : w = S \ {r} OBVIOUS
  <2>2. \A x \in w : f[x] = g[x] BY <2>1
  <2>3. Total(f, S)[w] = Total(g, S)[w] BY <2>2, SameParts
  <2> QED BY <2>1, <2>3
<1>3. Sum(f) = f[r] + Total(f, S)[S \ {r}] BY SumIsNat
<1>4. Sum(g) = g[r] + Total(g, S)[S \ {r}] BY SumIsNat
<1>5. Total(f, S)[S \ {r}] \in Nat /\ f[r] \in Nat
  <2>1. Total(f, S) \in [SUBSET S -> Nat] BY TotalAdds
  <2> QED BY <2>1
<1> QED BY <1>2, <1>3, <1>4, <1>5

(* Some values drop to zero: the sum loses exactly theirs. *)
LEMMA SumSplits ==
    ASSUME NEW R, IsFiniteSet(R), NEW f \in [R -> Nat], NEW S \in SUBSET R,
           NEW g \in [S -> Nat], NEW h \in [R -> Nat]
    PROVE  /\ \A x \in S : g[x] = f[x] /\ h[x] = 0
           /\ \A x \in R \ S : h[x] = f[x]
           => Sum(f) = Sum(h) + Sum(g)
<1> DEFINE F == Total(f, R)
           G == Total(g, S)
           H == Total(h, R)
           Good == {u \in SUBSET R : F[u] = H[u] + G[u \cap S]}
<1>1. IsFiniteSet(S) BY FS_Subset
<1>2. F \in [SUBSET R -> Nat] /\ F[{}] = 0 /\ \A u \in SUBSET R : \A x \in u : F[u] = f[x] + F[u \ {x}]
  <2>1. F \in [SUBSET R -> Nat] /\ F[{}] = 0 BY TotalAdds
  <2>2. \A u \in SUBSET R : \A x \in u : F[u] = f[x] + F[u \ {x}] BY TakeOut
  <2> QED BY <2>1, <2>2
<1>3. G \in [SUBSET S -> Nat] /\ G[{}] = 0 /\ \A u \in SUBSET S : \A x \in u : G[u] = g[x] + G[u \ {x}]
  <2>1. G \in [SUBSET S -> Nat] /\ G[{}] = 0 BY <1>1, TotalAdds
  <2>2. IsFiniteSet(S) BY <1>1
  <2>3. \A u \in SUBSET S : \A x \in u : G[u] = g[x] + G[u \ {x}]
    BY <2>2, TakeOut
  <2> QED BY <2>1, <2>3
<1>4. H \in [SUBSET R -> Nat] /\ H[{}] = 0 /\ \A u \in SUBSET R : \A x \in u : H[u] = h[x] + H[u \ {x}]
  <2>1. H \in [SUBSET R -> Nat] /\ H[{}] = 0 BY <1>1, TotalAdds
  <2>2. IsFiniteSet(R) OBVIOUS
  <2>3. \A u \in SUBSET R : \A x \in u : H[u] = h[x] + H[u \ {x}]
    BY <2>2, TakeOut
  <2> QED BY <2>1, <2>3
<1>5. Sum(f) = F[R] /\ Sum(g) = G[S] /\ Sum(h) = H[R] BY <1>1, SumIsNat
<1> HIDE DEF F, G, H
<1> SUFFICES ASSUME \A x \in S : g[x] = f[x] /\ h[x] = 0, \A x \in R \ S : h[x] = f[x]
             PROVE  F[R] = H[R] + G[S]
  BY <1>5
<1>6. {} \in Good
  <2>1. {} \cap S = {} OBVIOUS
  <2> QED BY <1>2, <1>3, <1>4, <2>1
<1>7. ASSUME NEW u \in SUBSET R, u # {}, \A x \in u : u \ {x} \in Good
      PROVE  u \in Good
  <2>1. PICK p \in u : TRUE BY <1>7
  <2>2. p \in R /\ u \ {p} \in SUBSET R /\ u \cap S \in SUBSET S OBVIOUS
  <2>3. F[u] = f[p] + F[u \ {p}] BY <1>2
  <2>4. H[u] = h[p] + H[u \ {p}] BY <1>4
  <2>5. F[u \ {p}] = H[u \ {p}] + G[(u \ {p}) \cap S] BY <1>7
  <2>6. f[p] \in Nat /\ H[u \ {p}] \in Nat BY <1>4, <2>2
  <2>7. CASE p \in S
    <3>1. (u \ {p}) \cap S = (u \cap S) \ {p} /\ p \in u \cap S BY <2>7
    <3>2. G[u \cap S] = g[p] + G[(u \cap S) \ {p}] BY <1>3, <2>2, <3>1
    <3>3. h[p] = 0 /\ g[p] = f[p] BY <2>7
    <3>4. G[(u \cap S) \ {p}] \in Nat
      <4>1. (u \cap S) \ {p} \in SUBSET S OBVIOUS
      <4> QED BY <1>3, <4>1
    <3>5. PICK x \in Nat, y \in Nat, z \in Nat :
             x = f[p] /\ y = H[u \ {p}] /\ z = G[(u \cap S) \ {p}]
      BY <2>6, <3>4
    <3>6. F[u] = x + (y + z) BY <2>3, <2>5, <3>1, <3>5
    <3>7. H[u] = 0 + y /\ G[u \cap S] = x + z BY <2>4, <3>2, <3>3, <3>5
    <3>8. F[u] = H[u] + G[u \cap S] BY <3>6, <3>7
    <3> QED BY <3>8
  <2>8. CASE p \notin S
    <3>1. (u \ {p}) \cap S = u \cap S BY <2>8
    <3>2. h[p] = f[p] BY <2>2, <2>8
    <3>3. G[u \cap S] \in Nat BY <1>3, <2>2
    <3>5. PICK x \in Nat, y \in Nat, z \in Nat :
             x = f[p] /\ y = H[u \ {p}] /\ z = G[u \cap S]
      BY <2>6, <3>3
    <3>6. F[u] = x + (y + z) BY <2>3, <2>5, <3>1, <3>5
    <3>7. H[u] = x + y BY <2>4, <3>2, <3>5
    <3>8. F[u] = H[u] + G[u \cap S] BY <3>5, <3>6, <3>7
    <3> QED BY <3>8
  <2> QED BY <2>7, <2>8
<1> HIDE DEF Good
<1>8. SUBSET R \subseteq Good BY <1>6, <1>7, BySmaller
<1>9. F[R] = H[R] + G[R \cap S] BY <1>8 DEF Good
<1>10. R \cap S = S OBVIOUS
<1> QED BY <1>9, <1>10

-----------------------------------------------------------------------------
(* The books.  A deleted payment reserves nothing. *)
Gone == \A r \in Payments : status[r] = "deleted" => res[r] = 0

(* An unlocked writer holds what it read of payments that were opened. *)
Handy ==
    \A w \in Writers : hand[w] # NoTask =>
        /\ hand[w].seen \in [DOMAIN hand[w].seen -> Nat]
        /\ \A r \in DOMAIN hand[w].seen : status[r] \notin {"none", "quoted"}

(* What a payment asks, reserves, was charged and gave back adds up to its  *)
(* price, and nothing is reserved once it is confirmed.                     *)
WholePrice ==
    loose = {} => \A r \in Payments : status[r] \notin Absent =>
        /\ amount[r] + res[r] + app[r] + freed[r] = Price[r]
        /\ status[r] = "confirmed" => res[r] = 0

(* The money collected for a payment is what its record says, but for what  *)
(* the balance could pay when the record was made and not at the quote.     *)
Made ==
    \A r \in Payments : status[r] \notin {"none", "quoted"}
        => Collected(r) = amount[r] + moved[r]

(* What makes ReservesBacked, NeverOvercharged and SettledInFull inductive. *)
BookInv == MoneyInv /\ Gone /\ Handy /\ WholePrice /\ ReservesBacked /\ Made

(* One reserve changes, and the account's with it. *)
LEMMA BackedAfter ==
    ASSUME RecordsTypeOK, ReservesBacked, loose = {}, NEW r \in Payments, NEW v \in Nat,
           res' = [res EXCEPT ![r] = v], reserved' = (reserved - res[r]) + v
    PROVE  reserved' = Sum(res')
<1>1. res \in [Payments -> Nat] /\ IsFiniteSet(Payments) BY RecordAssumption DEF RecordsTypeOK
<1>2. res' \in [Payments -> Nat] /\ res'[r] = v /\ \A q \in Payments \ {r} : res'[q] = res[q]
  BY <1>1
<1>3. PICK new : new = res' OBVIOUS
<1>4. new \in [Payments -> Nat] /\ new[r] = v /\ \A q \in Payments \ {r} : new[q] = res[q]
  BY <1>2, <1>3
<1>5. Sum(new) + res[r] = Sum(res) + v
  <2>1. PICK old : old = res OBVIOUS
  <2>2. old \in [Payments -> Nat] /\ \A q \in Payments \ {r} : new[q] = old[q] BY <1>1, <1>4, <2>1
  <2>3. Sum(new) + old[r] = Sum(old) + v BY <1>1, <1>4, <2>2, SumMoves
  <2> QED BY <2>1, <2>3
<1>6. Sum(new) \in Nat /\ Sum(res) \in Nat /\ res[r] \in Nat BY <1>1, <1>4, SumIsNat
<1>7. reserved = Sum(res) BY DEF ReservesBacked
<1> QED BY <1>3, <1>5, <1>6, <1>7

(* While the books agree no reserve exceeds the account's, so a release or  *)
(* a debit is never cut short.                                              *)
LEMMA BackedReserve ==
    ASSUME MoneyInv, ReservesBacked, loose = {}, NEW r \in Payments
    PROVE  /\ reserved \in Nat /\ balance \in Nat /\ res[r] \in Nat
           /\ res[r] <= reserved /\ reserved <= balance
<1>1. res \in [Payments -> Nat] /\ IsFiniteSet(Payments)
  BY RecordAssumption DEF MoneyInv, RecordsTypeOK
<1>2. res[r] <= Sum(res) BY <1>1, SumIsNat
<1> QED BY <1>1, <1>2 DEF MoneyInv, RecordsTypeOK, Solvent, ReservesBacked

(* A record is opened: its reserve is the account's. *)
LEMMA OpenBooks ==
    ASSUME NEW r \in Payments, NEW s \in Open \union {"pending"}, BookInv,
           status[r] \in {"none", "quoted"}, OpenWithReserve(r, s)
    PROVE  Gone' /\ Handy' /\ WholePrice' /\ ReservesBacked'
<1> DEFINE n == ReserveOf(r)
<1>1. n \in Nat /\ n <= Price[r] BY ReserveFits DEF BookInv, MoneyInv
<1>2. /\ status' = [status EXCEPT ![r] = s]
      /\ amount' = [amount EXCEPT ![r] = Price[r] - n]
      /\ res' = [res EXCEPT ![r] = n] /\ reserved' = reserved + n
      /\ UNCHANGED <<balance, credits, app, asked, overdue, hand, freed, loose>>
  BY DEF OpenWithReserve, SetStatus
<1>3. res[r] = 0 /\ app[r] = 0 /\ freed[r] = 0 BY DEF BookInv, MoneyInv, Unopened
<1> HIDE DEF n
<1>4. s \notin Absent /\ s # "confirmed" BY DEF Open, Absent
<1>5. Gone' BY <1>2, <1>4 DEF BookInv, MoneyInv, RecordsTypeOK, Gone, Absent
<1>6. Handy' BY <1>2, <1>4 DEF BookInv, MoneyInv, RecordsTypeOK, Handy, Absent
<1>7. WholePrice'
  <2>1. Price[r] \in Nat BY RecordAssumption
  <2>2. amount'[r] + res'[r] + app'[r] + freed'[r] = Price[r]
    BY <1>1, <1>2, <1>3, <2>1 DEF BookInv, MoneyInv, RecordsTypeOK
  <2>3. status'[r] = s BY <1>2 DEF BookInv, MoneyInv, RecordsTypeOK
  <2>4. \A q \in Payments \ {r} : status'[q] = status[q] /\ amount'[q] = amount[q]
           /\ res'[q] = res[q] /\ app'[q] = app[q]
    BY <1>2 DEF BookInv, MoneyInv, RecordsTypeOK
  <2>5. loose' = loose /\ freed' = freed BY <1>2
  <2> QED BY <1>4, <2>2, <2>3, <2>4, <2>5 DEF BookInv, WholePrice
<1>8. ReservesBacked'
  <2> SUFFICES ASSUME loose' = {} PROVE reserved' = Sum(res')
    BY DEF ReservesBacked
  <2>1. loose = {} BY <1>2
  <2>2. reserved' = (reserved - res[r]) + n BY <1>1, <1>2, <1>3 DEF BookInv, MoneyInv, RecordsTypeOK
  <2> QED BY <1>1, <1>2, <2>1, <2>2, BackedAfter DEF BookInv, MoneyInv
<1> QED BY <1>5, <1>6, <1>7, <1>8

(* A record ends, freeing its reserve or keeping it. *)
LEMMA EndBooks ==
    ASSUME NEW r \in Payments, NEW s \in Statuses \ {"none", "quoted", "confirmed"}, BookInv,
           SetStatus(r, s), status[r] \notin Absent,
           Free(r) \/ (Keep /\ s # "deleted"),
           UNCHANGED <<amount, app, hand, loose>>
    PROVE  Gone' /\ Handy' /\ WholePrice' /\ ReservesBacked'
<1> USE DEF Absent
<1>1. /\ status' = [status EXCEPT ![r] = s]
      /\ UNCHANGED <<amount, app, hand, loose>>
  BY DEF SetStatus
<1>2. status' \in [Payments -> Statuses] /\ status'[r] = s
      /\ \A q \in Payments \ {r} : status'[q] = status[q]
  BY <1>1 DEF BookInv, MoneyInv, RecordsTypeOK
<1>3. Handy' BY <1>1, <1>2 DEF BookInv, Handy
<1>4. CASE Free(r)
  <2>1. /\ res' = [res EXCEPT ![r] = 0] /\ freed' = [freed EXCEPT ![r] = @ + res[r]]
        /\ reserved' = reserved - LesserOf(res[r], reserved)
    BY <1>4 DEF Free, GiveBack
  <2>2. /\ res'[r] = 0 /\ freed'[r] = freed[r] + res[r]
        /\ \A q \in Payments \ {r} : res'[q] = res[q] /\ freed'[q] = freed[q]
    BY <2>1 DEF BookInv, MoneyInv, RecordsTypeOK
  <2>3. Gone' BY <1>2, <2>2 DEF BookInv, Gone
  <2>4. WholePrice'
    <3> SUFFICES ASSUME loose' = {}, NEW q \in Payments, status'[q] \notin Absent
                 PROVE  /\ amount'[q] + res'[q] + app'[q] + freed'[q] = Price[q]
                        /\ status'[q] = "confirmed" => res'[q] = 0
      BY DEF WholePrice
    <3>1. status[q] \notin Absent BY <1>2
    <3>2. amount[q] + res[q] + app[q] + freed[q] = Price[q]
          /\ (status[q] = "confirmed" => res[q] = 0)
      BY <1>1, <3>1 DEF BookInv, WholePrice
    <3>3. amount[q] \in Nat /\ res[q] \in Nat /\ app[q] \in Nat /\ freed[q] \in Nat
      BY DEF BookInv, MoneyInv, RecordsTypeOK
    <3> QED BY <1>1, <1>2, <2>2, <3>2, <3>3
  <2>5. ReservesBacked'
    <3> SUFFICES ASSUME loose' = {} PROVE reserved' = Sum(res')
      BY DEF ReservesBacked
    <3>1. loose = {} BY <1>1
    <3>2. reserved' = (reserved - res[r]) + 0
      BY <2>1, <3>1, BackedReserve DEF BookInv, LesserOf
    <3> QED BY <2>1, <3>1, <3>2, BackedAfter DEF BookInv, MoneyInv
  <2> QED BY <1>3, <2>3, <2>4, <2>5
<1>5. CASE Keep /\ s # "deleted"
  <2>1. UNCHANGED <<reserved, res, freed>> BY <1>5 DEF Keep
  <2>2. Gone' BY <1>2, <1>5, <2>1 DEF BookInv, Gone
  <2>3. WholePrice' BY <1>1, <1>2, <2>1 DEF BookInv, WholePrice
  <2>4. ReservesBacked' BY <1>1, <2>1 DEF BookInv, ReservesBacked
  <2> QED BY <1>3, <2>2, <2>3, <2>4
<1> QED BY <1>4, <1>5

(* A confirmation turns the whole reserve into a debit. *)
LEMMA ConfirmBooks ==
    ASSUME NEW r \in Payments, BookInv, status[r] \notin Absent, ConfirmRecord(r)
    PROVE  Gone' /\ Handy' /\ WholePrice' /\ ReservesBacked'
<1> USE DEF Absent
<1> DEFINE n == LesserOf(LesserOf(res[r], reserved), balance)
<1>1. /\ reserved' = reserved - n /\ app' = [app EXCEPT ![r] = @ + n]
      /\ res' = [res EXCEPT ![r] = IF n = 0 THEN 0 ELSE @ - n]
      /\ status' = [status EXCEPT ![r] = "confirmed"]
      /\ UNCHANGED <<amount, hand, freed, loose>>
  BY DEF ConfirmRecord, ApplyReserve, SetStatus, history
<1>2. ASSUME loose = {} PROVE n = res[r] /\ res[r] \in Nat
  BY <1>2, BackedReserve DEF BookInv, LesserOf
<1> HIDE DEF n
<1>3. status'[r] = "confirmed" /\ \A q \in Payments \ {r} : status'[q] = status[q]
  BY <1>1 DEF BookInv, MoneyInv, RecordsTypeOK
<1>4. \A q \in Payments \ {r} : res'[q] = res[q] /\ app'[q] = app[q]
  BY <1>1 DEF BookInv, MoneyInv, RecordsTypeOK
<1>5. Gone' BY <1>3, <1>4 DEF BookInv, Gone
<1>6. Handy' BY <1>1, <1>3 DEF BookInv, Handy
<1>7. ASSUME loose = {} PROVE res' = [res EXCEPT ![r] = 0] /\ res'[r] = 0 /\ app'[r] = app[r] + res[r]
  <2>1. n = res[r] /\ res[r] \in Nat BY <1>2, <1>7
  <2>2. (IF n = 0 THEN 0 ELSE res[r] - n) = 0 BY <2>1
  <2>3. res' = [res EXCEPT ![r] = 0] BY <1>1, <2>2
  <2> QED BY <1>1, <2>1, <2>3 DEF BookInv, MoneyInv, RecordsTypeOK
<1>8. WholePrice'
  <2> SUFFICES ASSUME loose' = {}, NEW q \in Payments, status'[q] \notin Absent
               PROVE  /\ amount'[q] + res'[q] + app'[q] + freed'[q] = Price[q]
                      /\ status'[q] = "confirmed" => res'[q] = 0
    BY DEF WholePrice
  <2>1. loose = {} /\ amount'[q] = amount[q] /\ freed'[q] = freed[q] BY <1>1
  <2>2. CASE q = r
    <3>1. amount[r] + res[r] + app[r] + freed[r] = Price[r]
      BY <2>1, <2>2 DEF BookInv, WholePrice
    <3>2. amount[r] \in Nat /\ res[r] \in Nat /\ app[r] \in Nat /\ freed[r] \in Nat
      BY DEF BookInv, MoneyInv, RecordsTypeOK
    <3> QED BY <1>7, <2>1, <2>2, <3>1, <3>2
  <2>3. CASE q # r
    BY <1>3, <1>4, <2>1, <2>3 DEF BookInv, WholePrice
  <2> QED BY <2>2, <2>3
<1>9. ReservesBacked'
  <2> SUFFICES ASSUME loose' = {} PROVE reserved' = Sum(res')
    BY DEF ReservesBacked
  <2>1. loose = {} BY <1>1
  <2>2. reserved' = (reserved - res[r]) + 0
    BY <1>1, <1>2, <2>1, BackedReserve DEF BookInv
  <2> QED BY <1>7, <2>1, <2>2, BackedAfter DEF BookInv, MoneyInv
<1> QED BY <1>5, <1>6, <1>8, <1>9

(* The write of a stale reader: nothing comes apart only if what it read is *)
(* still so, and then the account gives back exactly what the records do.   *)
LEMMA WriteBooks ==
    ASSUME NEW w \in Writers, BookInv, Write(w)
    PROVE  Gone' /\ Handy' /\ WholePrice' /\ ReservesBacked'
<1> USE DEF Absent
<1> DEFINE S == DOMAIN hand[w].seen
<1>1. /\ hand[w] # NoTask /\ S \subseteq Payments /\ hand[w].seen \in [S -> Nat]
      /\ hand[w].op \in {"cancelled", "awaiting_admin_review", "expired"}
      /\ \A r \in S : status[r] \notin {"none", "quoted"}
  BY DEF Write, BookInv, MoneyInv, RecordsTypeOK, Handy
<1>2. /\ \A v \in Writers : hand'[v] = NoTask \/ hand'[v] = hand[v]
      /\ UNCHANGED <<amount, app>>
  BY DEF Write, BookInv, MoneyInv, RecordsTypeOK
<1>3. CASE \E r \in S : status[r] = "deleted"
  <2>1. UNCHANGED <<reserved, status, res, freed, loose>> BY <1>3 DEF Write, account
  <2> QED BY <1>2, <2>1 DEF BookInv, Gone, Handy, WholePrice, ReservesBacked
<1>4. CASE ~ \E r \in S : status[r] = "deleted"
  <2>1. status' = [r \in Payments |-> IF r \in S THEN hand[w].op ELSE status[r]]
    BY <1>4 DEF Write
  <2>2. \A r \in Payments : status'[r] = IF r \in S THEN hand[w].op ELSE status[r]
    BY <2>1
  <2>3. CASE hand[w].op = "awaiting_admin_review"
    <3>1. UNCHANGED <<reserved, res, freed, loose>> BY <1>4, <2>3 DEF Write, account
    <3> HIDE DEF S
    <3>2. Gone' BY <1>1, <2>2, <3>1 DEF BookInv, Gone
    <3>3. Handy' BY <1>1, <1>2, <2>2, <2>3 DEF BookInv, MoneyInv, RecordsTypeOK, Handy
    <3>4. WholePrice' BY <1>1, <1>2, <1>4, <2>2, <2>3, <3>1 DEF BookInv, WholePrice
    <3>5. ReservesBacked' BY <3>1 DEF BookInv, ReservesBacked
    <3> QED BY <3>2, <3>3, <3>4, <3>5
  <2>4. CASE hand[w].op # "awaiting_admin_review"
    <3>1. /\ reserved' = reserved - LesserOf(Sum(hand[w].seen), reserved)
          /\ res' = [r \in Payments |-> IF r \in S THEN 0 ELSE res[r]]
          /\ freed' = [r \in Payments |-> freed[r] + IF r \in S THEN res[r] ELSE 0]
          /\ loose' = loose \union {r \in S : res[r] # hand[w].seen[r]}
      BY <1>4, <2>4 DEF Write, GiveBack
    <3>2. PICK seen \in [S -> Nat] : seen = hand[w].seen BY <1>1
    <3> HIDE DEF S
    <3>3. \A r \in Payments : res'[r] = IF r \in S THEN 0 ELSE res[r] BY <3>1
    <3>4. Gone' BY <1>1, <2>2, <3>3 DEF BookInv, Gone
    <3>5. Handy' BY <1>1, <1>2, <2>2 DEF BookInv, MoneyInv, RecordsTypeOK, Handy
    <3>6. WholePrice'
      <4> SUFFICES ASSUME loose' = {}, NEW q \in Payments, status'[q] \notin Absent
                   PROVE  /\ amount'[q] + res'[q] + app'[q] + freed'[q] = Price[q]
                          /\ status'[q] = "confirmed" => res'[q] = 0
        BY DEF WholePrice
      <4>1. loose = {} /\ status[q] \notin Absent BY <1>1, <1>4, <2>2, <3>1
      <4>2. amount[q] + res[q] + app[q] + freed[q] = Price[q]
            /\ (status[q] = "confirmed" => res[q] = 0)
        BY <4>1 DEF BookInv, WholePrice
      <4>3. amount[q] \in Nat /\ res[q] \in Nat /\ app[q] \in Nat /\ freed[q] \in Nat
        BY DEF BookInv, MoneyInv, RecordsTypeOK
      <4>4. freed'[q] = freed[q] + IF q \in S THEN res[q] ELSE 0 BY <3>1
      <4>5. CASE q \in S BY <1>1, <1>2, <2>2, <3>3, <4>2, <4>3, <4>4, <4>5
      <4>6. CASE q \notin S BY <1>2, <2>2, <3>3, <4>2, <4>3, <4>4, <4>6
      <4> QED BY <4>5, <4>6
    <3>7. ReservesBacked'
      <4> SUFFICES ASSUME loose' = {} PROVE reserved' = Sum(res')
        BY DEF ReservesBacked
      <4>1. loose = {} /\ \A r \in S : seen[r] = res[r] BY <3>1, <3>2
      <4>2. PICK old, new : old = res /\ new = res' OBVIOUS
      <4>3. old \in [Payments -> Nat] /\ IsFiniteSet(Payments) /\ S \in SUBSET Payments
        BY <1>1, <4>2, RecordAssumption DEF BookInv, MoneyInv, RecordsTypeOK
      <4>4. /\ new \in [Payments -> Nat] /\ \A x \in S : new[x] = 0
            /\ \A x \in Payments \ S : new[x] = old[x]
        <5>1. \A x \in Payments : (IF x \in S THEN 0 ELSE old[x]) \in Nat BY <4>3
        <5>2. new = [r \in Payments |-> IF r \in S THEN 0 ELSE old[r]] BY <3>1, <4>2
        <5> QED BY <1>1, <5>1, <5>2
      <4>5. \A x \in S : seen[x] = old[x] BY <4>1, <4>2
      <4>6. Sum(old) = Sum(new) + Sum(seen) BY <4>3, <4>4, <4>5, SumSplits
      <4>7. Sum(old) \in Nat /\ Sum(new) \in Nat BY <4>3, <4>4, SumIsNat
      <4>8. Sum(seen) \in Nat
        <5>1. IsFiniteSet(S) BY <4>3, FS_Subset
        <5> QED BY <5>1, SumIsNat
      <4>9. reserved = Sum(old) BY <4>1, <4>2 DEF BookInv, ReservesBacked
      <4>10. LesserOf(Sum(seen), reserved) = Sum(seen) BY <4>6, <4>7, <4>8, <4>9 DEF LesserOf
      <4>11. reserved' = reserved - Sum(seen) BY <3>1, <3>2, <4>10
      <4> QED BY <4>2, <4>6, <4>7, <4>8, <4>9, <4>11
    <3> QED BY <3>4, <3>5, <3>6, <3>7
  <2> QED BY <2>3, <2>4
<1> QED BY <1>3, <1>4

LEMMA InitBooks == RecordsInit => Gone /\ Handy /\ WholePrice /\ ReservesBacked
<1> SUFFICES ASSUME RecordsInit PROVE Gone /\ Handy /\ WholePrice /\ ReservesBacked
  OBVIOUS
<1>1. Gone /\ Handy /\ WholePrice BY DEF RecordsInit, Gone, Handy, WholePrice, Absent
<1>2. ReservesBacked
  <2>1. res \in [Payments -> Nat] /\ (\A r \in Payments : res[r] = 0) /\ IsFiniteSet(Payments)
    BY RecordAssumption DEF RecordsInit
  <2>2. Sum(res) = 0 BY <2>1, SumOfZeros
  <2>3. reserved = 0 BY DEF RecordsInit
  <2> QED BY <2>2, <2>3 DEF ReservesBacked
<1> QED BY <1>1, <1>2

(* Every step of every actor keeps the books. *)
LEMMA BookStep == BookInv /\ [RecordsNext]_recordVars => Gone' /\ Handy' /\ WholePrice' /\ ReservesBacked'
<1> SUFFICES ASSUME BookInv, [RecordsNext]_recordVars
             PROVE  Gone' /\ Handy' /\ WholePrice' /\ ReservesBacked'
  OBVIOUS
<1> USE DEF Absent, Holding, Open, Statuses
<1>1. ASSUME UNCHANGED <<reserved, status, amount, res, app, hand, freed, loose>>
      PROVE  Gone' /\ Handy' /\ WholePrice' /\ ReservesBacked'
  BY <1>1 DEF BookInv, Gone, Handy, WholePrice, ReservesBacked
<1>2. CASE UNCHANGED recordVars
  BY <1>1, <1>2 DEF recordVars, account, columns, history
<1>3. ASSUME NEW r \in Payments, OpenManual(r) \/ OpenProvider(r)
      PROVE  Gone' /\ Handy' /\ WholePrice' /\ ReservesBacked'
  <2>1. PICK s \in Open \union {"pending"} : OpenWithReserve(r, s)
    BY <1>3 DEF OpenManual, OpenProvider
  <2> QED BY <1>3, <2>1, OpenBooks DEF OpenManual, OpenProvider
<1>4. ASSUME NEW r \in Payments, Quote(r)
      PROVE  Gone' /\ Handy' /\ WholePrice' /\ ReservesBacked'
  <2>1. /\ status' = [status EXCEPT ![r] = "quoted"] /\ status[r] = "none"
        /\ UNCHANGED <<reserved, amount, res, app, hand, freed, loose>>
    BY <1>4 DEF Quote, SetStatus, account, columns, history
  <2>2. status'[r] = "quoted" /\ \A q \in Payments \ {r} : status'[q] = status[q]
    BY <2>1 DEF BookInv, MoneyInv, RecordsTypeOK
  <2>3. \A v \in Writers : hand[v] # NoTask => DOMAIN hand[v].seen \subseteq Payments
    BY DEF BookInv, MoneyInv, RecordsTypeOK
  <2>4. Gone' BY <2>1, <2>2 DEF BookInv, Gone
  <2>5. Handy' BY <2>1, <2>2, <2>3 DEF BookInv, Handy
  <2>6. WholePrice' BY <2>1, <2>2 DEF BookInv, WholePrice
  <2>7. ReservesBacked' BY <2>1 DEF BookInv, ReservesBacked
  <2> QED BY <2>4, <2>5, <2>6, <2>7
<1>5. ASSUME NEW r \in Payments, OpenByCallback(r)
      PROVE  Gone' /\ Handy' /\ WholePrice' /\ ReservesBacked'
  <2>1. /\ status' = [status EXCEPT ![r] = "pending"]
        /\ amount' = [amount EXCEPT ![r] = asked[r]]
        /\ res' = [res EXCEPT ![r] = Price[r] - asked[r]]
        /\ app' = [app EXCEPT ![r] = 0]
        /\ loose' = IF asked[r] < Price[r] THEN loose \union {r} ELSE loose
        /\ freed' = [freed EXCEPT ![r] = 0]
        /\ status[r] \in {"quoted", "deleted"}
        /\ UNCHANGED <<reserved, hand>>
    BY <1>5 DEF OpenByCallback, SetStatus, account
  <2>2. asked[r] \in Nat /\ Price[r] \in Nat /\ asked[r] <= Price[r]
    BY RecordAssumption DEF BookInv, MoneyInv, RecordsTypeOK, AskedInPrice
  <2>3. /\ status'[r] = "pending" /\ amount'[r] = asked[r]
        /\ res'[r] = Price[r] - asked[r] /\ app'[r] = 0 /\ freed'[r] = 0
        /\ \A q \in Payments \ {r} : status'[q] = status[q] /\ amount'[q] = amount[q]
              /\ res'[q] = res[q] /\ app'[q] = app[q] /\ freed'[q] = freed[q]
    BY <2>1 DEF BookInv, MoneyInv, RecordsTypeOK
  <2>4. loose' = {} => loose = {} /\ asked[r] = Price[r] BY <2>1, <2>2
  <2>5. res[r] = 0 BY <2>1 DEF BookInv, MoneyInv, Unopened, Gone
  <2>6. Gone' BY <2>3 DEF BookInv, Gone
  <2>7. Handy' BY <2>1, <2>3 DEF BookInv, Handy
  <2>8. WholePrice' BY <2>1, <2>2, <2>3, <2>4 DEF BookInv, WholePrice
  <2>9. ReservesBacked'
    <3> SUFFICES ASSUME loose' = {} PROVE reserved' = Sum(res')
      BY DEF ReservesBacked
    <3>1. loose = {} /\ Price[r] - asked[r] = 0 BY <2>2, <2>4
    <3>2. res' = [res EXCEPT ![r] = 0] BY <2>1, <3>1
    <3>3. reserved' = (reserved - res[r]) + 0 BY <2>1, <2>5 DEF BookInv, MoneyInv, RecordsTypeOK
    <3>4. loose = {} /\ RecordsTypeOK /\ ReservesBacked BY <3>1 DEF BookInv, MoneyInv
    <3> QED BY <3>2, <3>3, <3>4, BackedAfter
  <2> QED BY <2>6, <2>7, <2>8, <2>9
<1>6. ASSUME NEW r \in Payments, PayFromBalance(r)
      PROVE  Gone' /\ Handy' /\ WholePrice' /\ ReservesBacked'
  <2>1. /\ status' = [status EXCEPT ![r] = "confirmed"] /\ status[r] = "none"
        /\ app' = [app EXCEPT ![r] = Price[r]]
        /\ UNCHANGED <<reserved, amount, res, hand, freed, loose>>
    BY <1>6 DEF PayFromBalance, SetStatus, history
  <2>2. /\ status'[r] = "confirmed" /\ app'[r] = Price[r]
        /\ \A q \in Payments \ {r} : status'[q] = status[q] /\ app'[q] = app[q]
    BY <2>1 DEF BookInv, MoneyInv, RecordsTypeOK
  <2>3. amount[r] = 0 /\ res[r] = 0 /\ freed[r] = 0 /\ Price[r] \in Nat
    BY <2>1, RecordAssumption DEF BookInv, MoneyInv, Unopened
  <2>4. Gone' BY <2>1, <2>2 DEF BookInv, Gone
  <2>5. Handy' BY <2>1, <2>2 DEF BookInv, Handy
  <2>6. WholePrice' BY <2>1, <2>2, <2>3 DEF BookInv, WholePrice
  <2>7. ReservesBacked' BY <2>1 DEF BookInv, ReservesBacked
  <2> QED BY <2>4, <2>5, <2>6, <2>7
<1>7. CASE CreditBalance
  BY <1>1, <1>7 DEF CreditBalance, columns, history
<1>8. ASSUME NEW r \in Payments, Expire(r)
      PROVE  Gone' /\ Handy' /\ WholePrice' /\ ReservesBacked'
  BY <1>1, <1>8 DEF Expire, account, columns, history
<1>9. ASSUME NEW r \in Payments, ReviewConfirm(r) \/ ProviderConfirm(r)
      PROVE  Gone' /\ Handy' /\ WholePrice' /\ ReservesBacked'
  <2>1. status[r] \notin Absent /\ ConfirmRecord(r) BY <1>9 DEF ReviewConfirm, ProviderConfirm
  <2> QED BY <2>1, ConfirmBooks
<1>10. ASSUME NEW r \in Payments,
              NEW s \in {"rejected", "pending", "expired", "disputed", "error"} \union Open,
              (ReviewReject(r) /\ s = "rejected") \/ ProviderSays(r, s) \/ SetByAdmin(r, s)
       PROVE  Gone' /\ Handy' /\ WholePrice' /\ ReservesBacked'
  <2>1. /\ SetStatus(r, s) /\ status[r] \notin Absent /\ (Free(r) \/ Keep)
        /\ UNCHANGED <<amount, app, hand, loose>>
    BY <1>10 DEF ReviewReject, ProviderSays, SetByAdmin
  <2>2. s \in Statuses \ {"none", "quoted", "confirmed"} /\ s # "deleted" OBVIOUS
  <2> QED BY <2>1, <2>2, EndBooks
<1>11. ASSUME NEW r \in Payments, Delete(r)
       PROVE  Gone' /\ Handy' /\ WholePrice' /\ ReservesBacked'
  <2>1. /\ SetStatus(r, "deleted") /\ status[r] \notin Absent
        /\ UNCHANGED <<amount, app, hand>>
    BY <1>11 DEF Delete
  <2>2. CASE status[r] \in Holding
    <3>1. Free(r) /\ loose' = loose BY <1>11, <2>2 DEF Delete
    <3>2. "deleted" \in Statuses \ {"none", "quoted", "confirmed"} OBVIOUS
    <3> QED BY <2>1, <3>1, <3>2, EndBooks
  <2>3. CASE status[r] \notin Holding
    <3>1. /\ res' = [res EXCEPT ![r] = 0]
          /\ loose' = IF res[r] > 0 THEN loose \union {r} ELSE loose
          /\ status' = [status EXCEPT ![r] = "deleted"]
          /\ UNCHANGED <<reserved, freed>>
      BY <1>11, <2>3 DEF Delete, SetStatus
    <3>2. /\ status'[r] = "deleted" /\ res'[r] = 0 /\ res[r] \in Nat
          /\ \A q \in Payments \ {r} : status'[q] = status[q] /\ res'[q] = res[q]
      BY <3>1 DEF BookInv, MoneyInv, RecordsTypeOK
    <3>3. loose' = {} => loose = {} /\ res[r] = 0 BY <3>1, <3>2
    <3>4. Gone' BY <3>2 DEF BookInv, Gone
    <3>5. \A q \in Payments : status[q] \notin {"none", "quoted"}
             => status'[q] \notin {"none", "quoted"}
      BY <3>2
    <3>6. hand' = hand /\ \A v \in Writers : hand[v] # NoTask => DOMAIN hand[v].seen \subseteq Payments
      BY <2>1 DEF BookInv, MoneyInv, RecordsTypeOK
    <3>7. Handy' BY <3>5, <3>6 DEF BookInv, Handy
    <3>8. WholePrice' BY <2>1, <3>1, <3>2, <3>3 DEF BookInv, WholePrice
    <3>9. ReservesBacked'
      <4> SUFFICES ASSUME loose' = {} PROVE reserved' = Sum(res')
        BY DEF ReservesBacked
      <4>1. loose = {} BY <3>3
      <4>2. reserved' = (reserved - res[r]) + 0 BY <3>1, <3>3 DEF BookInv, MoneyInv, RecordsTypeOK
      <4> QED BY <3>1, <4>1, <4>2, BackedAfter DEF BookInv, MoneyInv
    <3> QED BY <3>4, <3>7, <3>8, <3>9
  <2> QED BY <2>2, <2>3
<1>12. ASSUME NEW w \in Writers, NEW S \in SUBSET Payments,
              NEW op \in {"cancelled", "awaiting_admin_review", "expired"},
              Read(w, op, S), \A r \in S : status[r] \notin {"none", "quoted"}
       PROVE  Gone' /\ Handy' /\ WholePrice' /\ ReservesBacked'
  <2>1. UNCHANGED <<reserved, status, amount, res, app, freed, loose>>
    BY <1>12 DEF Read, account, columns, history
  <2>2. Gone' /\ WholePrice' /\ ReservesBacked'
    BY <2>1 DEF BookInv, Gone, WholePrice, ReservesBacked
  <2>3. hand' = [hand EXCEPT ![w] = [op |-> op, seen |-> [r \in S |-> res[r]]]]
    BY <1>12 DEF Read
  <2>4. PICK seen : seen = [r \in S |-> res[r]] OBVIOUS
  <2>5. seen \in [S -> Nat] /\ DOMAIN seen = S BY <2>4 DEF BookInv, MoneyInv, RecordsTypeOK
  <2>6. hand'[w].seen = seen /\ \A v \in Writers \ {w} : hand'[v] = hand[v]
    BY <2>3, <2>4 DEF BookInv, MoneyInv, RecordsTypeOK
  <2>7. Handy'
    <3> SUFFICES ASSUME NEW v \in Writers, hand'[v] # NoTask
                 PROVE  /\ hand'[v].seen \in [DOMAIN hand'[v].seen -> Nat]
                        /\ \A r \in DOMAIN hand'[v].seen : status'[r] \notin {"none", "quoted"}
      BY DEF Handy
    <3>1. CASE v = w BY <1>12, <2>1, <2>5, <2>6, <3>1
    <3>2. CASE v # w BY <2>1, <2>6, <3>2 DEF BookInv, Handy
    <3> QED BY <3>1, <3>2
  <2> QED BY <2>2, <2>7
<1>13. ASSUME NEW w \in Writers, Unlocked(w)
       PROVE  Gone' /\ Handy' /\ WholePrice' /\ ReservesBacked'
  <2>1. ASSUME NEW r \in Payments, NEW op \in {"cancelled", "awaiting_admin_review"},
               ReadOpen(w, op, r)
        PROVE  Gone' /\ Handy' /\ WholePrice' /\ ReservesBacked'
    BY <1>12, <2>1 DEF ReadOpen
  <2>2. CASE ReadDue(w)
    BY <1>12, <2>2 DEF ReadDue, Due
  <2>3. CASE Write(w)
    BY <2>3, WriteBooks
  <2> QED BY <1>13, <2>1, <2>2, <2>3 DEF Unlocked
<1>14. ASSUME NEW r \in Payments, Settled(r)
       PROVE  Gone' /\ Handy' /\ WholePrice' /\ ReservesBacked'
  BY <1>9, <1>10, <1>11, <1>14 DEF Settled
<1>15. ASSUME NEW r \in Payments, Opened(r)
       PROVE  Gone' /\ Handy' /\ WholePrice' /\ ReservesBacked'
  BY <1>3, <1>4, <1>5, <1>6, <1>15 DEF Opened
<1> QED BY <1>2, <1>7, <1>8, <1>13, <1>14, <1>15 DEF RecordsNext

LEMMA MadeStep == BookInv /\ [RecordsNext]_recordVars => Made'
<1> SUFFICES ASSUME BookInv, [RecordsNext]_recordVars, NEW q \in Payments, status'[q] \notin {"none", "quoted"}
             PROVE  Collected(q)' = amount'[q] + moved'[q]
  BY DEF Made
<1> USE DEF Absent, Holding, Open, SetStatus
<1>1. ASSUME asked'[q] = asked[q], amount'[q] = amount[q], moved'[q] = moved[q],
             status[q] \notin {"none", "quoted"}
      PROVE  Collected(q)' = amount'[q] + moved'[q]
  BY <1>1 DEF BookInv, Made, Collected
<1>2. ASSUME NEW r \in Payments, OpenWithReserve(r, "awaiting_user_payment") \/ OpenWithReserve(r, "pending"),
             r # q, moved'[q] = moved[q]
      PROVE  Collected(q)' = amount'[q] + moved'[q]
  BY <1>1, <1>2 DEF OpenWithReserve, BookInv, MoneyInv, RecordsTypeOK
<1>3. ASSUME NEW r \in Payments, OpenManual(r) PROVE Collected(q)' = amount'[q] + moved'[q]
  <2>1. CASE r = q
    <3>1. asked'[q] = 0 /\ moved'[q] = 0 /\ amount'[q] \in Int
      <4>1. asked[q] = 0 /\ moved[q] = 0
        BY <1>3, <2>1 DEF OpenManual, BookInv, MoneyInv, Unopened, AskedInPrice
      <4>2. amount'[q] = Price[q] - ReserveOf(q)
        BY <1>3, <2>1 DEF OpenManual, OpenWithReserve, BookInv, MoneyInv, RecordsTypeOK
      <4>3. Price[q] \in Nat /\ ReserveOf(q) \in Nat
        BY ReserveFits, RecordAssumption DEF BookInv, MoneyInv
      <4> QED BY <1>3, <4>1, <4>2, <4>3 DEF OpenManual, OpenWithReserve
    <3> QED BY <3>1 DEF Collected
  <2>2. CASE r # q BY <1>2, <1>3, <2>2 DEF OpenManual
  <2> QED BY <2>1, <2>2
<1>4. ASSUME NEW r \in Payments, OpenProvider(r) PROVE Collected(q)' = amount'[q] + moved'[q]
  <2>1. CASE r = q
    <3>1. PICK n : n = ReserveOf(q) OBVIOUS
    <3>2. Price[q] \in Nat /\ n \in Nat /\ asked[q] \in Nat /\ asked[q] > 0
      BY <1>4, <2>1, <3>1, ReserveFits, RecordAssumption
         DEF OpenProvider, BookInv, MoneyInv, AskedInPrice, RecordsTypeOK
    <3>3. amount'[q] = Price[q] - n /\ asked' = asked /\ moved'[q] = n - (Price[q] - asked[q])
      BY <1>4, <2>1, <3>1 DEF OpenProvider, OpenWithReserve, BookInv, MoneyInv, RecordsTypeOK
    <3> QED BY <3>2, <3>3 DEF Collected
  <2>2. CASE r # q
    <3>1. moved'[q] = moved[q] BY <1>4, <2>2 DEF OpenProvider, BookInv, MoneyInv, RecordsTypeOK
    <3> QED BY <1>2, <1>4, <2>2, <3>1 DEF OpenProvider
  <2> QED BY <2>1, <2>2
<1>5. ASSUME NEW r \in Payments, OpenByCallback(r) PROVE Collected(q)' = amount'[q] + moved'[q]
  <2>1. CASE r = q
    <3>1. asked[q] \in Nat BY DEF BookInv, MoneyInv, RecordsTypeOK
    <3>2. amount'[q] = asked[q] /\ asked' = asked /\ moved'[q] = 0
      BY <1>5, <2>1 DEF OpenByCallback, BookInv, MoneyInv, RecordsTypeOK
    <3> QED BY <3>1, <3>2 DEF Collected
  <2>2. CASE r # q BY <1>1, <1>5, <2>2 DEF OpenByCallback, BookInv, MoneyInv, RecordsTypeOK
  <2> QED BY <2>1, <2>2
<1>6. ASSUME NEW r \in Payments, PayFromBalance(r) PROVE Collected(q)' = amount'[q] + moved'[q]
  <2>1. CASE r = q
    <3>1. asked[q] = 0 /\ moved[q] = 0 /\ amount[q] = 0
      BY <1>6, <2>1 DEF PayFromBalance, BookInv, MoneyInv, Unopened, AskedInPrice
    <3> QED BY <1>6, <3>1 DEF PayFromBalance, history, Collected
  <2>2. CASE r # q
    BY <1>1, <1>6, <2>2 DEF PayFromBalance, history, BookInv, MoneyInv, RecordsTypeOK
  <2> QED BY <2>1, <2>2
<1>7. ASSUME NEW r \in Payments, Quote(r) PROVE Collected(q)' = amount'[q] + moved'[q]
  <2>1. r # q BY <1>7 DEF Quote, BookInv, MoneyInv, RecordsTypeOK
  <2> QED BY <1>1, <1>7, <2>1 DEF Quote, columns, history, BookInv, MoneyInv, RecordsTypeOK
<1>8. ASSUME NEW r \in Payments, Settled(r) PROVE Collected(q)' = amount'[q] + moved'[q]
  <2>1. UNCHANGED <<asked, amount, moved>>
    BY <1>8 DEF Settled, ReviewConfirm, ReviewReject, ProviderConfirm, ConfirmRecord, Delete,
                ProviderSays, SetByAdmin, history
  <2>2. status[r] \notin {"none", "quoted"} /\ \A x \in Payments \ {r} : status'[x] = status[x]
    <3>1. status[r] \notin {"none", "quoted"} /\ \E s \in Statuses : status' = [status EXCEPT ![r] = s]
      BY <1>8 DEF Settled, ReviewConfirm, ReviewReject, ProviderConfirm, ConfirmRecord, Delete,
                  ProviderSays, SetByAdmin, Statuses
    <3> QED BY <3>1 DEF BookInv, MoneyInv, RecordsTypeOK
  <2> QED BY <1>1, <2>1, <2>2
<1>9. ASSUME NEW w \in Writers, Write(w) PROVE Collected(q)' = amount'[q] + moved'[q]
  <2>1. UNCHANGED <<asked, amount, moved>> BY <1>9 DEF Write
  <2>2. status[q] \notin {"none", "quoted"}
    <3>1. CASE q \in DOMAIN hand[w].seen BY <1>9, <3>1 DEF Write, BookInv, Handy
    <3>2. CASE q \notin DOMAIN hand[w].seen
      <4>1. status'[q] = status[q] BY <1>9, <3>2 DEF Write
      <4> QED BY <4>1
    <3> QED BY <3>1, <3>2
  <2> QED BY <1>1, <2>1, <2>2
<1>10. ASSUME UNCHANGED <<status, asked, amount, moved>>
       PROVE  Collected(q)' = amount'[q] + moved'[q]
  BY <1>1, <1>10
<1>11. CASE CreditBalance BY <1>10, <1>11 DEF CreditBalance, columns, history
<1>12. ASSUME NEW r \in Payments, Expire(r) PROVE Collected(q)' = amount'[q] + moved'[q]
  BY <1>10, <1>12 DEF Expire, columns, history
<1>13. ASSUME NEW w \in Writers, Unlocked(w) PROVE Collected(q)' = amount'[q] + moved'[q]
  BY <1>9, <1>10, <1>13 DEF Unlocked, ReadOpen, ReadDue, Read, columns, history
<1>14. CASE UNCHANGED recordVars BY <1>10, <1>14 DEF recordVars, columns, history
<1>15. ASSUME NEW r \in Payments, Opened(r) PROVE Collected(q)' = amount'[q] + moved'[q]
  BY <1>3, <1>4, <1>5, <1>6, <1>7, <1>15 DEF Opened
<1> QED BY <1>8, <1>11, <1>12, <1>13, <1>14, <1>15 DEF RecordsNext

LEMMA BookInvariant == RecordsSpec => []BookInv
<1>1. RecordsInit => BookInv
  <2>1. RecordsInit => Made BY DEF RecordsInit, Made
  <2> QED BY <2>1, InitIsFair, InitBooks DEF BookInv
<1>2. BookInv /\ [RecordsNext]_recordVars => BookInv' BY MoneyStep, BookStep, MadeStep DEF BookInv
<1> QED BY <1>1, <1>2, PTL DEF RecordsSpec

(* The reserve of the account is what its payments reserve, for any number  *)
(* of payments, as long as none has come apart from its reserve.            *)
THEOREM ReservesAreBacked == RecordsSpec => []ReservesBacked
<1>1. BookInv => ReservesBacked BY DEF BookInv
<1> QED BY <1>1, BookInvariant, PTL

(* The money really collected, the balance debited and the balance reserved *)
(* never exceed the price of a payment by more than the balance gained      *)
(* between the quote and the record, though it may be confirmed twice.      *)
THEOREM NobodyOvercharged == RecordsSpec => []NeverOvercharged
<1>1. BookInv => NeverOvercharged
  <2> SUFFICES ASSUME BookInv, NEW r \in Payments
               PROVE  Collected(r) + res[r] + app[r] <= Price[r] + moved[r]
    BY DEF NeverOvercharged
  <2>1. /\ amount[r] \in Nat /\ app[r] \in Nat /\ res[r] \in Nat /\ asked[r] \in Nat
        /\ moved[r] \in Int /\ Price[r] \in Nat /\ asked[r] <= Price[r]
        /\ amount[r] + res[r] + app[r] <= Price[r]
    BY RecordAssumption DEF BookInv, MoneyInv, RecordsTypeOK, AskedInPrice, RowInPrice
  <2>2. CASE status[r] \in {"none", "quoted"}
    BY <2>1, <2>2 DEF BookInv, MoneyInv, Unopened, Collected
  <2>3. CASE status[r] \notin {"none", "quoted"}
    BY <2>1, <2>3 DEF BookInv, Made
  <2> QED BY <2>2, <2>3
<1> QED BY <1>1, BookInvariant, PTL

(* The money really collected for a confirmed payment and the balance       *)
(* debited for it miss its price by exactly what it had given back of its   *)
(* reserve and what the balance moved between quote and record; nothing of  *)
(* it stays reserved.                                                       *)
THEOREM ConfirmedAreSettled == RecordsSpec => []SettledInFull
<1>1. BookInv => SettledInFull
  <2> SUFFICES ASSUME BookInv, NEW r \in Payments, status[r] = "confirmed", loose = {}
               PROVE  /\ Collected(r) + app[r] + freed[r] = Price[r] + moved[r]
                      /\ res[r] = 0
    BY DEF SettledInFull
  <2>1. amount[r] + res[r] + app[r] + freed[r] = Price[r] /\ res[r] = 0
    BY DEF BookInv, WholePrice, Absent
  <2>2. /\ amount[r] \in Nat /\ app[r] \in Nat /\ freed[r] \in Nat /\ moved[r] \in Int
    BY DEF BookInv, MoneyInv, RecordsTypeOK
  <2>3. Collected(r) = amount[r] + moved[r] BY DEF BookInv, Made
  <2> QED BY <2>1, <2>2, <2>3
<1> QED BY <1>1, BookInvariant, PTL

-----------------------------------------------------------------------------
(* A confirmation is only taken back by a writer that read the record       *)
(* earlier: every locked writer checks the status under its lock.           *)
LEMMA ConfirmedGuarded ==
  ASSUME RecordsTypeOK, [RecordsNext]_recordVars, NEW r \in Payments, status[r] = "confirmed",
         status'[r] # "confirmed"
  PROVE  InHand(r)
<1> USE DEF RecordsTypeOK, Holding, Open, Absent, SetStatus
<1>1. CASE UNCHANGED recordVars
  BY <1>1 DEF recordVars
<1>2. ASSUME NEW q \in Payments, Opened(q) PROVE FALSE
  BY <1>2 DEF Opened, OpenManual, Quote, OpenProvider, OpenByCallback,
              PayFromBalance, OpenWithReserve
<1>3. ASSUME NEW q \in Payments, Expire(q) PROVE FALSE
  BY <1>3 DEF Expire
<1>4. ASSUME NEW q \in Payments, ReviewConfirm(q) \/ ProviderConfirm(q) PROVE FALSE
  BY <1>4 DEF ReviewConfirm, ProviderConfirm, ConfirmRecord
<1>5. ASSUME NEW q \in Payments, ReviewReject(q) \/ Delete(q) PROVE FALSE
  BY <1>5 DEF ReviewReject, Delete
<1>6. ASSUME NEW q \in Payments,
             \/ \E s \in {"pending", "expired", "disputed", "error"} :
                   ProviderSays(q, s)
             \/ \E s \in Open \union {"rejected", "expired", "disputed", "error"} :
                   SetByAdmin(q, s)
      PROVE  FALSE
  BY <1>6 DEF ProviderSays, SetByAdmin
<1>7. CASE CreditBalance
  BY <1>7 DEF CreditBalance
<1>8. ASSUME NEW w \in Writers,
             \/ \E q \in Payments, op \in {"cancelled", "awaiting_admin_review"} :
                   ReadOpen(w, op, q)
             \/ ReadDue(w)
      PROVE  FALSE
  BY <1>8 DEF ReadOpen, ReadDue, Read
<1>9. ASSUME NEW w \in Writers, Write(w) PROVE InHand(r)
  <2>1. hand[w] # NoTask /\ \E S \in {DOMAIN hand[w].seen} :
           \/ status' = status
           \/ status' = [q \in Payments |-> IF q \in S THEN hand[w].op ELSE status[q]]
    BY <1>9 DEF Write
  <2>2. r \in DOMAIN hand[w].seen
    BY <2>1
  <2>3. QED
    BY <2>1, <2>2 DEF InHand
<1>10. QED
  BY <1>1, <1>2, <1>3, <1>4, <1>5, <1>6, <1>7, <1>8, <1>9
     DEF RecordsNext, Settled, Unlocked

(* As an action property: for any number of writers and payments.           *)
THEOREM ConfirmedOnlyLostToStaleReads == RecordsSpec => ConfirmedIsGuarded
<1>1. RecordsTypeOK /\ [RecordsNext]_recordVars
      => [\A r \in Payments : status[r] = "confirmed"
             => status'[r] = "confirmed" \/ InHand(r)]_recordVars
  BY ConfirmedGuarded
<1>2. QED
  BY <1>1, TypeCorrect, PTL DEF RecordsSpec, ConfirmedIsGuarded

-----------------------------------------------------------------------------
(* The purse.  Its settled payments are the confirmed records. *)
Paid == {r \in Payments : status[r] = "confirmed"}
Kept == [BuyersPurse!Next]_<<balance, reserved, app, Paid>>

LEMMA PaidStays ==
    ASSUME RecordsTypeOK, NEW r \in Payments, NEW s, SetStatus(r, s), s # "confirmed",
           status[r] # "confirmed"
    PROVE  Paid' = Paid
  BY DEF RecordsTypeOK, SetStatus, Paid

LEMMA PaidGrows ==
    ASSUME RecordsTypeOK, NEW r \in Payments, SetStatus(r, "confirmed"), status[r] # "confirmed"
    PROVE  r \notin Paid /\ Paid' = Paid \union {r}
  BY DEF RecordsTypeOK, SetStatus, Paid

LEMMA SetsAside ==
    ASSUME MoneyInv, NEW r \in Payments, NEW s, OpenWithReserve(r, s), s # "confirmed",
           status[r] # "confirmed"
    PROVE  Kept
<1>1. balance \in Nat /\ reserved \in Nat /\ reserved <= balance /\ Price[r] \in Nat
  BY RecordAssumption DEF MoneyInv, RecordsTypeOK, Solvent
<1>2. PICK n : n = ReserveOf(r) OBVIOUS
<1>3. n \in Nat /\ n <= balance - reserved BY <1>1, <1>2 DEF ReserveOf, LesserOf, Available
<1>4. reserved' = reserved + n /\ UNCHANGED <<balance, app>> BY <1>2 DEF OpenWithReserve
<1>5. reserved' \in reserved..balance BY <1>1, <1>3, <1>4
<1>6. Paid' = Paid BY PaidStays DEF OpenWithReserve, MoneyInv
<1> QED BY <1>4, <1>5, <1>6 DEF Kept, BuyersPurse!Next, BuyersPurse!SetAside, Paid

LEMMA LetsGo ==
    ASSUME MoneyInv, NEW total, GiveBack(total), UNCHANGED <<balance, app>>, Paid' \subseteq Paid
    PROVE  Kept
<1>1. reserved' \in 0..reserved
  <2>1. reserved \in Nat BY DEF MoneyInv, RecordsTypeOK
  <2> QED BY <2>1 DEF GiveBack
<1> QED BY <1>1 DEF Kept, BuyersPurse!Next, BuyersPurse!LetGo, Paid

LEMMA Settles ==
    ASSUME MoneyInv, NEW r \in Payments, ConfirmRecord(r), status[r] # "confirmed"
    PROVE  Kept
<1>1. /\ balance \in Nat /\ reserved \in Nat /\ reserved <= balance /\ Price[r] \in Nat
      /\ amount[r] \in Nat /\ res[r] \in Nat /\ app \in [Payments -> Nat] /\ app[r] \in Nat
      /\ amount[r] + res[r] + app[r] <= Price[r]
  BY RecordAssumption DEF MoneyInv, RecordsTypeOK, Solvent, RowInPrice
<1>2. PICK n : n = LesserOf(LesserOf(res[r], reserved), balance) OBVIOUS
<1>3. n \in Nat /\ n <= res[r] /\ n <= reserved /\ n <= balance BY <1>1, <1>2 DEF LesserOf
<1>4. reserved' = reserved - n /\ balance' = balance - n /\ app' = [app EXCEPT ![r] = @ + n]
  BY <1>2 DEF ConfirmRecord, ApplyReserve
<1>5. n \in 0..(Price[r] - app[r]) BY <1>1, <1>3
<1>6. r \notin Paid /\ Paid' = Paid \union {r} BY PaidGrows DEF ConfirmRecord, MoneyInv
<1> QED BY <1>3, <1>4, <1>5, <1>6 DEF Kept, BuyersPurse!Next, BuyersPurse!Settle, Paid

LEMMA OpeningKeepsPurse ==
    ASSUME MoneyInv, NEW r \in Payments, Opened(r)
    PROVE  Kept
<1>1. CASE OpenManual(r) BY <1>1, SetsAside DEF OpenManual
<1>2. CASE OpenProvider(r) BY <1>2, SetsAside DEF OpenProvider
<1>3. CASE Quote(r)
  <2>1. Paid' = Paid BY <1>3, PaidStays DEF Quote, MoneyInv
  <2> QED BY <1>3, <2>1 DEF Quote, account, columns, Kept
<1>4. CASE OpenByCallback(r)
  <2>1. Paid' = Paid /\ r \notin Paid BY <1>4, PaidStays DEF OpenByCallback, MoneyInv, Paid
  <2>2. app' = [app EXCEPT ![r] = 0] /\ UNCHANGED <<balance, reserved>>
    BY <1>4 DEF OpenByCallback, account
  <2> QED BY <2>1, <2>2 DEF Kept, BuyersPurse!Next, BuyersPurse!StartOver, Paid
<1>5. CASE PayFromBalance(r)
  <2>1. /\ balance \in Nat /\ reserved \in Nat /\ Price[r] \in Nat /\ app \in [Payments -> Nat]
        /\ app[r] = 0 /\ Price[r] <= balance - reserved
    BY <1>5, RecordAssumption DEF MoneyInv, RecordsTypeOK, Unopened, PayFromBalance, Available
  <2>2. /\ app' = [app EXCEPT ![r] = @ + Price[r]] /\ balance' = balance - Price[r]
        /\ reserved' = reserved
    <3>1. PICK n : n = Price[r] OBVIOUS
    <3>2. app' = [app EXCEPT ![r] = n] /\ app[r] + n = n BY <1>5, <2>1, <3>1 DEF PayFromBalance
    <3>3. app' = [app EXCEPT ![r] = app[r] + n] BY <3>2
    <3> QED BY <1>5, <3>1, <3>3 DEF PayFromBalance
  <2>3. Price[r] <= balance /\ Price[r] + reserved <= balance /\ Price[r] \in 0..(Price[r] - app[r])
    BY <2>1
  <2>4. r \notin Paid /\ Paid' = Paid \union {r}
    BY <1>5, PaidGrows DEF PayFromBalance, MoneyInv
  <2> QED BY <2>2, <2>3, <2>4 DEF Kept, BuyersPurse!Next, BuyersPurse!Settle, Paid
<1> QED BY <1>1, <1>2, <1>3, <1>4, <1>5 DEF Opened

LEMMA SettlingKeepsPurse ==
    ASSUME MoneyInv, NEW r \in Payments, Settled(r)
    PROVE  Kept
<1>1. ASSUME NEW s, SetStatus(r, s), s # "confirmed", status[r] # "confirmed",
             UNCHANGED <<balance, app>>, Free(r) \/ reserved' = reserved
      PROVE  Kept
  <2>1. Paid' = Paid BY <1>1, PaidStays DEF MoneyInv
  <2>2. CASE Free(r) BY <1>1, <2>1, <2>2, LetsGo DEF Free
  <2>3. CASE reserved' = reserved BY <1>1, <2>1, <2>3 DEF Kept
  <2> QED BY <1>1, <2>2, <2>3
<1>2. CASE ReviewConfirm(r) \/ ProviderConfirm(r)
  BY <1>2, Settles DEF ReviewConfirm, ProviderConfirm, Open
<1>3. CASE ReviewReject(r) BY <1>1, <1>3 DEF ReviewReject, Open
<1>4. CASE Delete(r) BY <1>1, <1>4 DEF Delete
<1>5. ASSUME NEW s \in {"pending", "expired", "disputed", "error"}, ProviderSays(r, s)
      PROVE  Kept
  BY <1>1, <1>5 DEF ProviderSays, Keep
<1>6. ASSUME NEW s \in Open \union {"rejected", "expired", "disputed", "error"}, SetByAdmin(r, s)
      PROVE  Kept
  BY <1>1, <1>6 DEF SetByAdmin, Keep, Open
<1> QED BY <1>2, <1>3, <1>4, <1>5, <1>6 DEF Settled

LEMMA StepKeepsPurse == MoneyInv /\ [RecordsNext]_recordVars => Kept
<1> SUFFICES ASSUME MoneyInv, [RecordsNext]_recordVars PROVE Kept
  OBVIOUS
<1>1. ASSUME NEW r \in Payments, Opened(r) \/ Settled(r) PROVE Kept
  BY <1>1, OpeningKeepsPurse, SettlingKeepsPurse
<1>2. CASE UNCHANGED <<balance, reserved, status, app>> BY <1>2 DEF Kept, Paid
<1>3. ASSUME NEW r \in Payments, Expire(r) PROVE Kept BY <1>2, <1>3 DEF Expire, account, columns
<1>4. ASSUME NEW w \in Writers, Write(w) PROVE Kept
  <2>1. UNCHANGED <<balance, app>> BY <1>4 DEF Write, account
  <2>2. CASE UNCHANGED <<reserved, status>> BY <1>2, <2>1, <2>2
  <2>3. CASE /\ status' = [r \in Payments |-> IF r \in DOMAIN hand[w].seen THEN hand[w].op ELSE status[r]]
             /\ UNCHANGED reserved \/ GiveBack(Sum(hand[w].seen))
    <3>1. hand[w].op # "confirmed" BY <1>4 DEF MoneyInv, RecordsTypeOK, Write
    <3>2. Paid' \subseteq Paid BY <2>3, <3>1 DEF Paid
    <3>3. CASE GiveBack(Sum(hand[w].seen)) BY <2>1, <3>2, <3>3, LetsGo
    <3>4. CASE UNCHANGED reserved
      <4>1. reserved \in Nat BY DEF MoneyInv, RecordsTypeOK
      <4>2. reserved' \in 0..reserved BY <3>4, <4>1
      <4> QED BY <2>1, <3>2, <4>2 DEF Kept, BuyersPurse!Next, BuyersPurse!LetGo, Paid
    <3> QED BY <2>3, <3>3, <3>4
  <2> QED BY <1>4, <2>2, <2>3 DEF Write, account
<1>5. ASSUME NEW w \in Writers, Unlocked(w) PROVE Kept
  BY <1>2, <1>4, <1>5 DEF Unlocked, ReadOpen, ReadDue, Read, account, columns
<1>6. CASE CreditBalance
  <2>1. balance \in Nat BY DEF MoneyInv, RecordsTypeOK
  <2>2. balance' > balance /\ UNCHANGED <<reserved, status, app>>
    BY <1>6, <2>1 DEF CreditBalance, columns
  <2> QED BY <2>2 DEF Kept, BuyersPurse!Next, BuyersPurse!Credit, Paid
<1>7. CASE UNCHANGED recordVars BY <1>2, <1>7 DEF recordVars, account, columns
<1> QED BY <1>1, <1>3, <1>5, <1>6, <1>7 DEF RecordsNext

(* The refinement, for any payments, prices, opening balance and writers:   *)
(* whatever stale writers do to the records, the balance pays each payment  *)
(* its price at most and for nothing else, from what is there.              *)
THEOREM ImplementsPurse == RecordsSpec => KeepsPurse
<1>1. RecordsInit => BuyersPurse!Init BY DEF RecordsInit, BuyersPurse!Init
<1>2. MoneyInv /\ [RecordsNext]_recordVars
      => [BuyersPurse!Next]_<<balance, reserved, app, {r \in Payments : status[r] = "confirmed"}>>
  BY StepKeepsPurse DEF Kept, Paid
<1> QED BY <1>1, <1>2, MoneyInvariant, PTL DEF RecordsSpec, KeepsPurse, BuyersPurse!Spec
=============================================================================
