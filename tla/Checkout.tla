------------------------------ MODULE Checkout ------------------------------
(***************************************************************************)
(* The purchase screens of the bot: how a tap on a payment method finds an *)
(* open bill, reuses it or opens a new one, for a renewal, a gift, a       *)
(* top-up and a device slot.  The bot answers taps concurrently and every  *)
(* call of the database is a transaction of its own, so a tap is a task of *)
(* several steps.  A message with a keyboard stays in the chat: each       *)
(* keyboard ever shown can be pressed at any time.                         *)
(*                                                                         *)
(* One buyer and one tariff, of which a renewal and a gift are two         *)
(* products.  The free balance is derived from the bills; the locking of   *)
(* its reserves and the unlocked writers of a status are PaymentRecords,   *)
(* the delivery of a confirmed bill is PaymentEffect.  Status screens only *)
(* read.  The guards that need no bill (a user, a tariff, an active        *)
(* subscription for a slot) hold for the taps of this module.              *)
(***************************************************************************)
EXTENDS Integers, Sequences, FiniteSets, FiniteSetsExt

CONSTANTS
    Taps,            \* handler tasks of the bot
    Products,        \* of {"renew", "gift", "topup", "slot"}
    MethodOf,        \* the payment method behind each button, by configuration
    Price,           \* price of a product
    Discounted,      \* price of a renewal under a pending discount
    StartBalance,
    MaxBills, MaxTaps, MaxLapses   \* bounds of the model

Ways == DOMAIN MethodOf
PlategaMethods == {"platega_sbp", "platega_crypto"}
ManualMethods == {"sbp_manual", "crypto_manual"}
ManualOpen == {"awaiting_user_payment", "awaiting_admin_review"}
BalanceHold == ManualOpen \union {"pending"}
(* "expired" is answered and treated as "cancelled", "pending" changes     *)
(* nothing.                                                                *)
ProviderAnswers == {"confirmed", "cancelled", "disputed", "error"}

ASSUME CheckoutAssumption ==
    /\ Products \subseteq {"renew", "gift", "topup", "slot"}
    /\ MethodOf \in [{"sbp", "sbp_manual", "crypto"} -> PlategaMethods \union ManualMethods]
    /\ MethodOf["sbp_manual"] = "sbp_manual"
    /\ Price \in [Products -> Nat \ {0}]
    /\ {Discounted, StartBalance, MaxBills, MaxTaps, MaxLapses} \subseteq Nat

VARIABLES
    bills,       \* payment records in order of creation
    keyboards,   \* <<product, bill>> of every bill a screen has offered
    tap,         \* the running task of each handler
    discount,    \* a promo discount waits for the next renewal
    announced,   \* bills the administrators have been told of
    unheard,     \* bills whose announcement failed or died
    taps, lapses
checkoutVars == <<bills, keyboards, tap, discount, announced, unheard, taps, lapses>>

Idle == [pc |-> "idle"]

-----------------------------------------------------------------------------
(* Bills.  A manual top-up has a tariff code of its own; a renewal and a   *)
(* gift share theirs.  The metadata tells products apart only where the    *)
(* screen that opened the bill wrote a product or payload type.            *)
TariffCode(product, method) ==
    CASE product \in {"renew", "gift"} -> "month"
      [] product = "slot" -> "slot"
      [] product = "topup" /\ method \in ManualMethods -> "topup_manual"
      [] OTHER -> "topup"

ProductType(b) ==
    IF b.product = "renew" \/ (b.product = "topup" /\ b.method \in PlategaMethods)
    THEN "" ELSE b.product

PayloadType(b) ==
    CASE b.product = "renew" -> IF b.method \in PlategaMethods THEN "subscription" ELSE ""
      [] b.product = "slot" /\ b.method \in ManualMethods -> ""
      [] OTHER -> b.product

Held(b) == b.status \in BalanceHold
(* What a bill takes from the balance, or brings once it is confirmed.     *)
Drawn(b) ==
    IF b.status \in BalanceHold \union {"confirmed", "error"}
    THEN b.held - (IF b.product = "topup" /\ b.status = "confirmed" THEN b.price ELSE 0)
    ELSE 0
Free(book) == StartBalance - MapThenSumSet(LAMBDA i : Drawn(book[i]), DOMAIN book)
Covered(price, book) == Min({price, Free(book)})

(* Every lookup first expires the overdue requests.                        *)
Expired == [i \in DOMAIN bills |->
    IF Held(bills[i]) /\ bills[i].due
    THEN [bills[i] EXCEPT !.status = "expired"] ELSE bills[i]]

OpenOf(book, code) ==
    {i \in DOMAIN book : Held(book[i]) /\ TariffCode(book[i].product, book[i].method) = code}
OpenAt(book, code, price) == {i \in OpenOf(book, code) : book[i].price = price}
OpenBy(book, code, method) == {i \in OpenOf(book, code) : book[i].method = method}

NewBill(t, method, status, held, link) ==
    [product |-> tap[t].product, method |-> method, price |-> tap[t].price, held |-> held,
     status |-> status, link |-> link, due |-> FALSE, seen |-> tap[t].seen]

-----------------------------------------------------------------------------
(* The course of a tap.                                                    *)
Method(t) == MethodOf[tap[t].way]
Go(t, pc) == tap' = [tap EXCEPT ![t].pc = pc]
End(t) == tap' = [tap EXCEPT ![t] = Idle]
At(t, pc, product) == tap[t].pc = pc /\ tap[t].product = product
Quiet == UNCHANGED <<discount, announced, unheard, taps, lapses>>

Show(product, i) == keyboards' = keyboards \union {<<product, i>>}

(* A bill with a link, or a manual request, is offered again; a Platega    *)
(* bill without a link only brings an apology.                             *)
Reopen(product, i, book) ==
    IF book[i].method \in ManualMethods \/ book[i].link
    THEN Show(product, i) ELSE UNCHANGED keyboards

(* The tap quotes a price and the part of it the balance covers.           *)
Choose(t, product, way, price) ==
    /\ tap[t] = Idle /\ product \in Products /\ taps < MaxTaps
    /\ tap' = [tap EXCEPT ![t] =
           [pc |-> IF product # "topup" /\ Covered(price, bills) = price THEN "balance" ELSE "lookup",
            product |-> product, way |-> way, price |-> price, seen |-> 0]]
    /\ taps' = taps + 1
    /\ UNCHANGED <<bills, keyboards, discount, announced, unheard, lapses>>

V2RenewMethod(t, way) ==
    Choose(t, "renew", way, IF discount THEN Discounted ELSE Price["renew"])
V2GiftMethod(t, way) == Choose(t, "gift", way, Price["gift"])
V2BalanceMethod(t, way) == Choose(t, "topup", way, Price["topup"])
V2SlotMethod(t, way) == Choose(t, "slot", way, Price["slot"])

(* A price the balance covers is paid without looking for an open bill.    *)
PayFromBalance(t, product) ==
    /\ At(t, "balance", product)
    /\ End(t)
    /\ bills' = IF Free(bills) < tap[t].price \/ Len(bills) = MaxBills THEN bills
                ELSE Append(bills, NewBill(t, "balance_rub", "confirmed", tap[t].price, FALSE))
    /\ UNCHANGED keyboards /\ Quiet
FinishRenewal(t) == PayFromBalance(t, "renew")
FinishGift(t) == PayFromBalance(t, "gift")
FinishSlot(t) == PayFromBalance(t, "slot")

(* The lookup ends at the newest match, or goes on to open a bill.         *)
Lookup(t, product, book, found) ==
    /\ At(t, "lookup", product)
    /\ bills' = book
    /\ IF found # {}
       THEN End(t) /\ Reopen(product, Max(found), book)
       ELSE /\ tap' = [tap EXCEPT ![t].seen = Len(book),
                                  ![t].pc = IF Method(t) \in PlategaMethods THEN "again" ELSE "file"]
            /\ UNCHANGED keyboards
    /\ Quiet

RenewalFoundByMethod(t, book) ==
    {i \in OpenAt(book, "month", tap[t].price) : book[i].method = Method(t)}
(* A renewal takes any bill of its tariff and price, a gift included, but  *)
(* the manual button passes by an automatic one.                           *)
RenewalFound(t, book) ==
    LET found == OpenAt(book, "month", tap[t].price)
    IN  IF /\ tap[t].way = "sbp_manual" /\ found # {}
           /\ book[Max(found)].method \notin ManualMethods
        THEN {} ELSE found
ShowExistingRenewal(t) == Lookup(t, "renew", Expired, RenewalFound(t, Expired))
ShowExistingGift(t) ==
    Lookup(t, "gift", Expired,
           {i \in OpenAt(Expired, "month", tap[t].price) : ProductType(Expired[i]) = "gift"})
(* Top-ups are found by their type in whatever tariff; nothing is expired. *)
FindTopup(t) == {i \in DOMAIN bills : /\ Held(bills[i]) /\ bills[i].price = tap[t].price
                                      /\ "topup" \in {PayloadType(bills[i]), ProductType(bills[i])}}
ShowExistingTopup(t) == Lookup(t, "topup", bills, FindTopup(t))
ShowExistingSlot(t) ==
    Lookup(t, "slot", Expired,
           {i \in OpenAt(Expired, "slot", tap[t].price) : ProductType(Expired[i]) = "slot"})

(* A manual request is filed under the lock of the buyer's row, unless one *)
(* of its tariff and method is open already.                               *)
Request(code, method, book) ==
    {i \in OpenBy(book, code, method) : book[i].status \in ManualOpen}
File(t, product, code) ==
    LET open == Request(code, Method(t), Expired)
    IN  /\ At(t, "file", product)
        /\ End(t)
        /\ \/ /\ open # {} /\ bills' = Expired
              /\ IF Cardinality(open) = 1 THEN Show(product, Max(open)) ELSE UNCHANGED keyboards
           \/ /\ open = {} /\ Len(bills) < MaxBills
              /\ bills' = Append(Expired, NewBill(t, Method(t), "awaiting_user_payment",
                                                  Covered(tap[t].price, Expired), FALSE))
              /\ Show(product, Len(bills) + 1)
        /\ Quiet
ShowManualRenewal(t) == File(t, "renew", "month")
ShowManualGift(t) == File(t, "gift", "month")
ShowManualTopup(t) == File(t, "topup", "topup_manual")
ShowManualSlot(t) == File(t, "slot", "slot")

(* Before it asks Platega the bot looks again: an open bill by another     *)
(* method is a conflict.  The second look at top-ups filters by a product  *)
(* type that no automatic top-up carries.                                  *)
Again(t, product, found, next) ==
    /\ At(t, "again", product)
    /\ bills' = Expired
    /\ IF found # {} /\ Expired[Max(found)].method # Method(t) THEN End(t) ELSE Go(t, next)
    /\ UNCHANGED keyboards /\ Quiet
EnsureIntent(t) ==
    \/ Again(t, "renew", {i \in OpenAt(Expired, "month", tap[t].price) :
                             PayloadType(Expired[i]) = "subscription"}, "single")
    \/ \E product \in {"gift", "slot"} :
         Again(t, product, {i \in OpenAt(Expired, TariffCode(product, Method(t)), tap[t].price) :
                               {ProductType(Expired[i]), PayloadType(Expired[i])} = {product}}, "single")
EnsureTopupIntent(t) ==
    Again(t, "topup", {i \in OpenAt(Expired, "topup", tap[t].price) :
                          ProductType(Expired[i]) = "topup"}, "bill")

(* The last look is by tariff and method alone.  Two such bills make it    *)
(* raise; one with a link is taken, whatever its product and price.        *)
EnsureSingle(t, product) ==
    LET open == OpenBy(Expired, TariffCode(product, Method(t)), Method(t))
    IN  /\ At(t, "single", product)
        /\ bills' = Expired
        /\ \/ Cardinality(open) > 1 /\ End(t) /\ UNCHANGED keyboards
           \/ \E i \in open : open = {i} /\ Expired[i].link /\ End(t) /\ Show(product, i)
           \/ Cardinality(open) < 2 /\ (\A i \in open : ~Expired[i].link) /\ Go(t, "bill") /\ UNCHANGED keyboards
        /\ Quiet

(* Platega makes the bill, with a link or without, or fails.               *)
Bill(t, product, held) ==
    /\ At(t, "bill", product)
    /\ End(t)
    /\ \/ UNCHANGED <<bills, keyboards>>
       \/ \E link \in BOOLEAN :
            /\ Len(bills) < MaxBills
            /\ bills' = Append(bills, NewBill(t, Method(t), "pending", held, link))
            /\ IF link THEN Show(product, Len(bills) + 1) ELSE UNCHANGED keyboards
    /\ Quiet
ShowPlategaRenewal(t) == Bill(t, "renew", Covered(tap[t].price, bills))
ShowPlategaGift(t) == Bill(t, "gift", Covered(tap[t].price, bills))
ShowPlategaTopup(t) == Bill(t, "topup", 0)
ShowPlategaSlot(t) == Bill(t, "slot", Covered(tap[t].price, bills))

-----------------------------------------------------------------------------
(* "I have paid": the status is read, the request marked, and the          *)
(* administrators told if this press is the one that changed it.           *)
Pressable(t, product, i, methods) ==
    tap[t] = Idle /\ <<product, i>> \in keyboards /\ bills[i].method \in methods /\ taps < MaxTaps

Paid(t, product, i) ==
    /\ Pressable(t, product, i, ManualMethods)
    /\ tap' = [tap EXCEPT ![t] = [pc |-> "mark", product |-> product, bill |-> i, before |-> bills[i].status]]
    /\ taps' = taps + 1
    /\ UNCHANGED <<bills, keyboards, discount, announced, unheard, lapses>>
V2RenewManualPaid(t, i) == Paid(t, "renew", i)
V2GiftManualPaid(t, i) == Paid(t, "gift", i)
V2BalanceManualPaid(t, i) == Paid(t, "topup", i)
V2SlotManualPaid(t, i) == Paid(t, "slot", i)

Submitted(b) ==
    IF b.status \in ManualOpen THEN [b EXCEPT !.status = "awaiting_admin_review"] ELSE b
FreshOfRow(t) == Submitted(bills[tap[t].bill]).status # "awaiting_admin_review"
Fresh(t) == tap[t].before # "awaiting_admin_review"
MarkSubmitted(t) ==
    LET i == tap[t].bill
        after == Submitted(Expired[i])
    IN  /\ tap[t].pc = "mark"
        /\ bills' = [Expired EXCEPT ![i] = after]
        /\ IF Fresh(t) /\ after.status = "awaiting_admin_review" THEN Go(t, "announce") ELSE End(t)
        /\ UNCHANGED keyboards /\ Quiet

NotifySupportAdmins(t) ==
    /\ tap[t].pc = "announce"
    /\ End(t)
    /\ \/ announced' = announced \union {tap[t].bill} /\ UNCHANGED unheard
       \/ unheard' = unheard \union {tap[t].bill} /\ UNCHANGED announced
    /\ UNCHANGED <<bills, keyboards, discount, taps, lapses>>

(* Cancelling, and asking Platega how the bill stands: its answers are     *)
(* final, so only an open bill is worth asking for.                        *)
Cancel(t, product, i) ==
    /\ Pressable(t, product, i, ManualMethods)
    /\ bills' = [Expired EXCEPT ![i].status = IF @ \in ManualOpen THEN "cancelled" ELSE @]
    /\ UNCHANGED <<keyboards, tap>> /\ Quiet
V2RenewManualCancel(t, i) == Cancel(t, "renew", i)
V2GiftManualCancel(t, i) == Cancel(t, "gift", i)
V2BalanceManualCancel(t, i) == Cancel(t, "topup", i)
V2SlotManualCancel(t, i) == Cancel(t, "slot", i)

Spent(b) == b.product = "renew" /\ b.price = Discounted
Check(t, product, i) ==
    /\ Pressable(t, product, i, PlategaMethods) /\ Held(bills[i])
    /\ \E answer \in ProviderAnswers :
         /\ bills' = [bills EXCEPT ![i].status = answer]
         /\ discount' = (discount /\ ~(answer = "confirmed" /\ Spent(bills[i])))
    /\ UNCHANGED <<keyboards, tap, announced, unheard, taps, lapses>>
V2RenewExternalCheck(t, i) == Check(t, "renew", i)
V2GiftExternalCheck(t, i) == Check(t, "gift", i)
V2BalanceExternalCheck(t, i) == Check(t, "topup", i)
V2SlotExternalCheck(t, i) == Check(t, "slot", i)

(* An administrator confirms or rejects an open request.                   *)
ReviewPayment(i) ==
    /\ bills[i].method \in ManualMethods
    /\ \/ ~Held(Expired[i]) /\ bills' = Expired /\ UNCHANGED discount
       \/ /\ Held(Expired[i])
          /\ \E verdict \in {"confirmed", "rejected"} :
               /\ bills' = [Expired EXCEPT ![i].status = verdict]
               /\ discount' = (discount /\ ~(verdict = "confirmed" /\ Spent(bills[i])))
    /\ UNCHANGED <<keyboards, tap, announced, unheard, taps, lapses>>

(* The time of a manual request runs out; a code brings a discount.        *)
Overdue(i) ==
    /\ bills[i].method \in ManualMethods /\ Held(bills[i]) /\ ~bills[i].due /\ lapses < MaxLapses
    /\ bills' = [bills EXCEPT ![i].due = TRUE]
    /\ lapses' = lapses + 1
    /\ UNCHANGED <<keyboards, tap, discount, announced, unheard, taps>>
GetDiscount ==
    /\ ~discount /\ lapses < MaxLapses
    /\ discount' = TRUE /\ lapses' = lapses + 1
    /\ UNCHANGED <<bills, keyboards, tap, announced, unheard, taps>>

(* The bot's process dies with every task it runs.                         *)
RestartBot ==
    /\ lapses < MaxLapses /\ \E t \in Taps : tap[t] # Idle
    /\ lapses' = lapses + 1
    /\ unheard' = unheard \union {tap[t].bill : t \in {u \in Taps : tap[u].pc = "announce"}}
    /\ tap' = [t \in Taps |-> Idle]
    /\ UNCHANGED <<bills, keyboards, discount, announced, taps>>

-----------------------------------------------------------------------------
CheckoutInit ==
    /\ bills = << >> /\ keyboards = {} /\ tap = [t \in Taps |-> Idle]
    /\ discount = FALSE /\ announced = {} /\ unheard = {}
    /\ taps = 0 /\ lapses = 0

CheckoutNext ==
    \/ \E t \in Taps, way \in Ways :
         V2RenewMethod(t, way) \/ V2GiftMethod(t, way) \/ V2BalanceMethod(t, way) \/ V2SlotMethod(t, way)
    \/ \E t \in Taps :
         \/ FinishRenewal(t) \/ FinishGift(t) \/ FinishSlot(t)
         \/ ShowExistingRenewal(t) \/ ShowExistingGift(t) \/ ShowExistingTopup(t) \/ ShowExistingSlot(t)
         \/ ShowManualRenewal(t) \/ ShowManualGift(t) \/ ShowManualTopup(t) \/ ShowManualSlot(t)
         \/ EnsureIntent(t) \/ EnsureTopupIntent(t)
         \/ \E product \in Products : EnsureSingle(t, product)
         \/ ShowPlategaRenewal(t) \/ ShowPlategaGift(t) \/ ShowPlategaTopup(t) \/ ShowPlategaSlot(t)
         \/ MarkSubmitted(t) \/ NotifySupportAdmins(t)
    \/ \E t \in Taps, i \in DOMAIN bills :
         \/ V2RenewManualPaid(t, i) \/ V2GiftManualPaid(t, i)
         \/ V2BalanceManualPaid(t, i) \/ V2SlotManualPaid(t, i)
         \/ V2RenewManualCancel(t, i) \/ V2GiftManualCancel(t, i)
         \/ V2BalanceManualCancel(t, i) \/ V2SlotManualCancel(t, i)
         \/ V2RenewExternalCheck(t, i) \/ V2GiftExternalCheck(t, i)
         \/ V2BalanceExternalCheck(t, i) \/ V2SlotExternalCheck(t, i)
    \/ \E i \in DOMAIN bills : ReviewPayment(i) \/ Overdue(i)
    \/ GetDiscount \/ RestartBot

CheckoutSpec == CheckoutInit /\ [][CheckoutNext]_checkoutVars

-----------------------------------------------------------------------------
(* The flow of a manual renewal passed by an automatic bill of the tariff, *)
(* and with it the bills before.                                           *)
PassedBy(b, i) ==
    /\ b.product = "renew" /\ b.method = "sbp_manual"
    /\ \E l \in i..b.seen : /\ bills[l].method \in PlategaMethods /\ bills[l].price = b.price
                            /\ bills[l].product \in {"renew", "gift"}

(* Two open bills for one product at one price exist only when the flow of *)
(* the later one had looked before the earlier one was there, or when the  *)
(* manual button passed by an automatic bill; and never are both manual    *)
(* requests of one method, however many taps race.                         *)
TwinsExplained ==
    \A j \in DOMAIN bills : \A i \in 1..(j - 1) :
        LET a == bills[i]  b == bills[j]
        IN  Held(a) /\ Held(b) /\ <<a.product, a.price>> = <<b.product, b.price>> =>
              /\ b.seen < i \/ PassedBy(b, i)
              /\ a.method = b.method => a.method \in PlategaMethods

(* A request under review is one the administrators have been told of, are *)
(* being told of, or whose announcement was lost with its call or process. *)
ReviewIsAnnounced ==
    \A i \in DOMAIN bills :
        bills[i].status = "awaiting_admin_review" =>
            \/ i \in announced \union unheard
            \/ \E t \in Taps : tap[t].pc = "announce" /\ tap[t].bill = i
=============================================================================
