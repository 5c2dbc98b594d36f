--------------------------- MODULE PaymentRecords ---------------------------
(***************************************************************************)
(* The status of payment records and the buyer's balance they draw on      *)
(* (bot/db.py, bot/platega_flow.py, dashboard/services.py), for one buyer. *)
(*                                                                         *)
(* A record opened with part of its price on the balance reserves that     *)
(* part: users.balance_reserved_rub grows, the record remembers how much.  *)
(* Confirmation turns the reserve into a debit, every other end frees it.  *)
(* Most writers lock the record, then the user, in one transaction.  Three *)
(* do not lock the record when they read it: the buyer's cancellation, the *)
(* buyer's "I have paid" and the sweep of overdue records, which nearly    *)
(* every reader of payments runs first.  They are two steps here: what     *)
(* they read, and the write they base on it.                               *)
(***************************************************************************)
EXTENDS Integers, FiniteSets, Functions

CONSTANTS
    Payments,       \* payments of one buyer
    Manual,         \* sbp_manual and crypto_manual; the others are Platega's
    Price,          \* list_price_amount of each
    Opening,        \* balance_rub at the start
    MaxCredits,     \* bound on credits (top-ups, referral rewards) of 1
    Writers,        \* bot callbacks and sweeps under way at the same time
    NoTask          \* an empty hand

Provider == Payments \ Manual

ASSUME RecordAssumption ==
    IsFiniteSet(Payments) /\ Manual \subseteq Payments /\ Price \in [Payments -> Nat \ {0}]
ASSUME AccountAssumption == Opening \in Nat /\ MaxCredits \in Nat

VARIABLES
    balance, reserved,  \* balance_rub, balance_reserved_rub
    credits,
    status,             \* "none" before, "quoted" when only Platega knows it
    amount, res, app,   \* amount, balance_reserved_amount, balance_applied_amount
    asked,              \* the payable amount Platega was asked to collect
    overdue,            \* records whose expires_at has passed
    hand,               \* each unlocked writer: its operation, what it read
    freed,              \* history: what each record has given back of its reserve
    loose,              \* history: records that came apart from their reserve
    moved               \* history: what the balance could pay of a price when its
                        \* record was made, less what its quote had counted on

account == <<balance, reserved>>
columns == <<amount, res, app>>
history == <<freed, loose, moved>>
recordVars == <<account, credits, status, columns, asked, overdue, hand, history>>

Open == {"awaiting_user_payment", "awaiting_admin_review"}
Holding == Open \union {"pending"}
Absent == {"none", "quoted", "deleted"}
Statuses == Holding \union Absent \union
            {"confirmed", "rejected", "cancelled", "expired", "disputed", "error"}

LesserOf(m, n) == IF m <= n THEN m ELSE n
Sum(f) == FoldFunction(LAMBDA m, n : m + n, 0, f)
Available == balance - reserved

SetStatus(r, s) == status' = [status EXCEPT ![r] = s]

RecordsInit ==
    /\ balance = Opening /\ reserved = 0 /\ credits = 0
    /\ status = [r \in Payments |-> "none"]
    /\ amount = [r \in Payments |-> 0]
    /\ res = [r \in Payments |-> 0]
    /\ app = [r \in Payments |-> 0]
    /\ asked = [r \in Payments |-> 0]
    /\ overdue = {}
    /\ hand = [w \in Writers |-> NoTask]
    /\ freed = [r \in Payments |-> 0]
    /\ loose = {}
    /\ moved = [r \in Payments |-> 0]

-----------------------------------------------------------------------------
(* Mutant: the whole price is reserved, whatever is available. *)
ReservesPrice(r) == Price[r]

(* _reserve_user_balance: at most what is available. *)
ReserveOf(r) == LesserOf(Price[r], Available)

(* The user's row is locked: the reserve and the record commit together.    *)
OpenWithReserve(r, s) ==
    LET n == ReserveOf(r) IN
    /\ SetStatus(r, s)
    /\ amount' = [amount EXCEPT ![r] = Price[r] - n]
    /\ res' = [res EXCEPT ![r] = n]
    /\ reserved' = reserved + n
    /\ UNCHANGED <<balance, credits, app, asked, overdue, hand, freed, loose>>

(* create_balance_aware_manual_payment_record *)
OpenManual(r) ==
    /\ r \in Manual /\ status[r] = "none"
    /\ OpenWithReserve(r, "awaiting_user_payment")
    /\ UNCHANGED moved

(* ensure_platega_payment_record: Platega is asked for what the balance     *)
(* leaves to pay, then the record is created under a fresh look at it.  A   *)
(* price the balance covers never gets here.                                *)
Quote(r) ==
    /\ r \in Provider /\ status[r] = "none" /\ Price[r] > Available
    /\ SetStatus(r, "quoted")
    /\ asked' = [asked EXCEPT ![r] = Price[r] - Available]
    /\ UNCHANGED <<account, credits, columns, overdue, hand, history>>

OpenProvider(r) ==
    /\ status[r] = "quoted"
    /\ OpenWithReserve(r, "pending")
    /\ moved' = [moved EXCEPT ![r] = ReserveOf(r) - (Price[r] - asked[r])]

(* handle_platega_callback_payload for a transaction without a record: the  *)
(* one it creates claims the reserve of the quote, and reserves nothing.    *)
OpenByCallback(r) ==
    /\ r \in Provider /\ status[r] \in {"quoted", "deleted"}
    /\ SetStatus(r, "pending")
    /\ amount' = [amount EXCEPT ![r] = asked[r]]
    /\ res' = [res EXCEPT ![r] = Price[r] - asked[r]]
    /\ app' = [app EXCEPT ![r] = 0]
    /\ freed' = [freed EXCEPT ![r] = 0]
    /\ moved' = [moved EXCEPT ![r] = 0]
    /\ loose' = IF asked[r] < Price[r] THEN loose \union {r} ELSE loose
    /\ UNCHANGED <<account, credits, asked, overdue, hand>>

(* create_balance_only_payment_record: the balance pays at once. *)
PayFromBalance(r) ==
    /\ status[r] = "none" /\ Available >= Price[r]
    /\ SetStatus(r, "confirmed")
    /\ app' = [app EXCEPT ![r] = Price[r]]
    /\ balance' = balance - Price[r]
    /\ UNCHANGED <<reserved, credits, amount, res, asked, overdue, hand, history>>

(* credit_user_balance *)
CreditBalance ==
    /\ credits < MaxCredits
    /\ credits' = credits + 1 /\ balance' = balance + 1
    /\ UNCHANGED <<reserved, status, columns, asked, overdue, hand, history>>

-----------------------------------------------------------------------------
(* Mutants: the applied part stays reserved on the record; nothing is       *)
(* applied at all.                                                          *)
ApplyKeepingReserve(r) ==
    LET n == LesserOf(LesserOf(res[r], reserved), balance) IN
    /\ reserved' = reserved - n /\ balance' = balance - n
    /\ app' = [app EXCEPT ![r] = @ + n]
    /\ UNCHANGED res
ApplyNothing(r) == UNCHANGED <<account, app, res>>

(* _apply_reserved_balance_for_record *)
ApplyReserve(r) ==
    LET n == LesserOf(LesserOf(res[r], reserved), balance) IN
    /\ reserved' = reserved - n /\ balance' = balance - n
    /\ app' = [app EXCEPT ![r] = @ + n]
    /\ res' = [res EXCEPT ![r] = IF n = 0 THEN 0 ELSE @ - n]

ConfirmRecord(r) ==
    /\ SetStatus(r, "confirmed") /\ ApplyReserve(r)
    /\ UNCHANGED <<credits, amount, asked, overdue, hand, history>>

(* _release_user_balance_reserve, of the reserves a writer knows of. *)
GiveBack(total) == \E n \in 0 .. reserved : /\ n = LesserOf(total, reserved)
                                            /\ reserved' = reserved - n

(* Mutant: the record forgets its reserve, the user does not. *)
FreeOnRecord(r) ==
    /\ res' = [res EXCEPT ![r] = 0] /\ freed' = [freed EXCEPT ![r] = @ + res[r]]
    /\ UNCHANGED reserved

(* _release_reserved_balance_for_record *)
Free(r) == /\ GiveBack(res[r])
           /\ res' = [res EXCEPT ![r] = 0]
           /\ freed' = [freed EXCEPT ![r] = @ + res[r]]
Keep == UNCHANGED <<reserved, res, freed>>

(* review_manual_payment_record, under the record's lock. *)
ReviewConfirm(r) == r \in Manual /\ status[r] \in Open /\ ConfirmRecord(r)

ReviewReject(r) ==
    /\ r \in Manual /\ status[r] \in Open
    /\ SetStatus(r, "rejected") /\ Free(r)
    /\ UNCHANGED <<balance, credits, amount, app, asked, overdue, hand, loose, moved>>

(* confirm_external_payment_record: any status but confirmed will do. *)
ProviderConfirm(r) ==
    /\ r \in Provider /\ status[r] \notin Absent \union {"confirmed"}
    /\ ConfirmRecord(r)

(* _set_non_confirmed_status, for what Platega's status maps to: "error",   *)
(* an unknown one, keeps the reserve; a first "expired" sets expires_at.    *)
ProviderSays(r, s) ==
    /\ r \in Provider /\ status[r] \notin Absent \union {"confirmed"}
    /\ SetStatus(r, s)
    /\ IF s \in {"expired", "disputed"} THEN Free(r) ELSE Keep
    /\ overdue' = IF s = "expired" THEN overdue \union {r} ELSE overdue
    /\ UNCHANGED <<balance, credits, amount, app, asked, hand, loose, moved>>

(* set_payment_record_status of the dashboard, for a manual payment. *)
SetByAdmin(r, s) ==
    /\ r \in Manual /\ status[r] \notin Absent \union {"confirmed"}
    /\ SetStatus(r, s)
    /\ IF status[r] \in Holding /\ s \notin Holding THEN Free(r) ELSE Keep
    /\ UNCHANGED <<balance, credits, amount, app, asked, overdue, hand, loose, moved>>

(* delete_payment_record: only a holding status gives the reserve back. *)
Delete(r) ==
    /\ status[r] \notin Absent \union {"confirmed"}
    /\ SetStatus(r, "deleted")
    /\ IF status[r] \in Holding THEN Free(r) /\ UNCHANGED loose
       ELSE /\ res' = [res EXCEPT ![r] = 0]
            /\ loose' = IF res[r] > 0 THEN loose \union {r} ELSE loose
            /\ UNCHANGED <<reserved, freed>>
    /\ UNCHANGED <<balance, credits, amount, app, asked, overdue, hand, moved>>

-----------------------------------------------------------------------------
(* The writers without a lock.  They read the records they will write ...   *)
Read(w, operation, S) ==
    /\ hand[w] = NoTask
    /\ hand' = [hand EXCEPT ![w] = [op |-> operation, seen |-> [r \in S |-> res[r]]]]
    /\ UNCHANGED <<account, credits, status, columns, asked, overdue, history>>

(* ... cancel_manual_payment_record, mark_manual_payment_record_submitted,  *)
ReadOpen(w, operation, r) ==
    /\ r \in Manual /\ status[r] \in Open
    /\ Read(w, operation, {r})

(* ... _expire_open_manual_payment_records, a batch ...                     *)
Due == {r \in Payments : status[r] \in Holding /\ r \in overdue}
ReadDue(w) == Due # {} /\ Read(w, "expired", Due)

(* ... and write the status, whatever it has become: the lock comes with    *)
(* the UPDATE.  Only a row deleted meanwhile makes the transaction fail.    *)
Write(w) ==
    /\ hand[w] # NoTask
    /\ hand' = [hand EXCEPT ![w] = NoTask]
    /\ LET op == hand[w].op
           S == DOMAIN hand[w].seen
       IN IF \E r \in S : status[r] = "deleted"
          THEN UNCHANGED <<account, status, res, freed, loose>>
          ELSE /\ status' = [r \in Payments |-> IF r \in S THEN op ELSE status[r]]
               /\ IF op = "awaiting_admin_review"
                  THEN UNCHANGED <<account, res, freed, loose>>
                  ELSE /\ GiveBack(Sum(hand[w].seen))
                       /\ res' = [r \in Payments |-> IF r \in S THEN 0 ELSE res[r]]
                       /\ freed' = [r \in Payments |-> freed[r] + IF r \in S THEN res[r] ELSE 0]
                       /\ loose' = loose \union {r \in S : res[r] # hand[w].seen[r]}
                       /\ UNCHANGED balance
    /\ UNCHANGED <<credits, amount, app, asked, overdue, moved>>

(* expires_at of a manual payment passes (MANUAL_PAYMENT_REVIEW_HOURS). *)
Expire(r) ==
    /\ r \in Manual \ overdue
    /\ overdue' = overdue \union {r}
    /\ UNCHANGED <<account, credits, status, columns, asked, hand, history>>
-----------------------------------------------------------------------------
Opened(r) == \/ OpenManual(r) \/ Quote(r) \/ OpenProvider(r)
             \/ OpenByCallback(r) \/ PayFromBalance(r)

Settled(r) ==
    \/ ReviewConfirm(r) \/ ReviewReject(r) \/ ProviderConfirm(r) \/ Delete(r)
    \/ \E s \in {"pending", "expired", "disputed", "error"} : ProviderSays(r, s)
    \/ \E s \in Open \union {"rejected", "expired", "disputed", "error"} :
          SetByAdmin(r, s)

Unlocked(w) ==
    \/ \E r \in Payments, op \in {"cancelled", "awaiting_admin_review"} :
          ReadOpen(w, op, r)
    \/ ReadDue(w) \/ Write(w)

RecordsNext ==
    \/ \E r \in Payments : Opened(r) \/ Settled(r) \/ Expire(r)
    \/ \E w \in Writers : Unlocked(w)
    \/ CreditBalance

RecordsSpec == RecordsInit /\ [][RecordsNext]_recordVars
-----------------------------------------------------------------------------
RecordsTypeOK ==
    /\ balance \in Nat /\ reserved \in Nat /\ credits \in Nat
    /\ status \in [Payments -> Statuses]
    /\ amount \in [Payments -> Nat] /\ res \in [Payments -> Nat]
    /\ app \in [Payments -> Nat] /\ asked \in [Payments -> Nat]
    /\ overdue \subseteq Payments /\ loose \subseteq Payments
    /\ freed \in [Payments -> Nat] /\ moved \in [Payments -> Int]
    /\ DOMAIN hand = Writers
    /\ \A w \in Writers :
          hand[w] # NoTask =>
              /\ hand[w].op \in {"cancelled", "awaiting_admin_review", "expired"}
              /\ DOMAIN hand[w].seen \subseteq Payments

(* The account is solvent: what is reserved is there, so the debit of a     *)
(* confirmation never takes the balance below zero, whatever stale writers  *)
(* and callbacks have done to the records.                                  *)
Solvent == reserved <= balance

(* The money a payment really brings in: what Platega was asked to collect, *)
(* whatever the record made afterwards says; for a manual payment the       *)
(* amount of the record, which is what its buyer is shown.                  *)
Collected(r) == IF asked[r] > 0 THEN asked[r] ELSE amount[r]

(* No payment costs its buyer more than its price: the money collected, the *)
(* balance debited and what is still reserved never exceed it, though a     *)
(* record may be confirmed, demoted by a stale writer and confirmed again.  *)
(* What the balance gained between Platega's quote and the record comes on  *)
(* top, for the record reserves it although the bill already asks for it.   *)
NeverOvercharged ==
    \A r \in Payments : Collected(r) + res[r] + app[r] <= Price[r] + moved[r]

(* The reserve of the account is the sum of the reserves of its records, as *)
(* long as no record has come apart from its reserve (a stale write, a      *)
(* record made by a callback, an erroneous payment deleted).                *)
ReservesBacked == loose = {} => reserved = Sum(res)

(* A confirmed payment is settled to the rouble: the money collected and    *)
(* the balance debited make up the price, but for the reserve it had given  *)
(* back before - a payment confirmed late goes unpaid by exactly that - and *)
(* for what the balance gained or lost between quote and record; nothing of *)
(* its reserve is left over.                                                *)
SettledInFull ==
    loose = {} => \A r \in Payments : status[r] = "confirmed" =>
        /\ Collected(r) + app[r] + freed[r] = Price[r] + moved[r]
        /\ res[r] = 0

(* What the purchase screen says of every payment: the balance pays a part  *)
(* and money the rest of the price.                                         *)
MoneyIsTheRest ==
    \A r \in Payments : status[r] = "confirmed" => Collected(r) + app[r] <= Price[r]

(* All writers together keep a purse: whatever they have read before, the   *)
(* balance shrinks only by confirming a payment, by what that payment then  *)
(* is charged with, never above its price though it be confirmed again; and *)
(* no more is set aside than there is.  That a payment starts over is the   *)
(* callback that recreates a deleted record.                                *)
BuyersPurse == INSTANCE Purse
               WITH funds <- balance, aside <- reserved, charged <- app,
                    settled <- {r \in Payments : status[r] = "confirmed"}
KeepsPurse == BuyersPurse!Spec

InHand(r) == \E w \in Writers : hand[w] # NoTask /\ r \in DOMAIN hand[w].seen

(* Only a writer that read a payment before it was confirmed can take the   *)
(* confirmation back: no locked writer ever does.                           *)
ConfirmedIsGuarded ==
    [][\A r \in Payments : status[r] = "confirmed"
          => status'[r] = "confirmed" \/ InHand(r)]_recordVars

(* What the dashboard says of a confirmed payment: it is not demoted.       *)
ConfirmedIsFinal ==
    [][\A r \in Payments : status[r] = "confirmed" => status'[r] = "confirmed"]_recordVars
=============================================================================
