--------------------------- MODULE CheckoutProofs ---------------------------
(***************************************************************************)
(* Theorems about the purchase flows of the client bot, for every set of   *)
(* taps, every price and every method's way of being paid.                 *)
(*                                                                         *)
(* Bills only fade: a bill is never reopened and keeps its product, method *)
(* and price (Fades), so what a flow has passed by when it looked stays    *)
(* passed by (SeenBefore, FlowOK).                                         *)
(***************************************************************************)
EXTENDS Checkout, FiniteSetTheorems, WellFoundedInduction, TLAPS

(* A set of naturals has a least element. *)
LEMMA LeastExists ==
    ASSUME NEW S, S \subseteq Nat, S # {}
    PROVE  \E x \in S : \A y \in S : x <= y
<1>1. \E x \in S : \A y \in S : ~(<<y, x>> \in OpToRel(<, Nat))
  BY NatLessThanWellFounded, WFMin
<1>2. PICK x \in S : \A y \in S : ~(y < x)
  BY <1>1 DEF OpToRel
<1>3. \A y \in S : x <= y
  BY <1>2
<1> QED BY <1>3

LEMMA MaxIsGreatest ==
    ASSUME NEW n \in Nat, NEW S, S \subseteq 1..n, S # {}
    PROVE  Max(S) \in S /\ \A y \in S : y <= Max(S)
<1> DEFINE T == {n - x : x \in S}
<1>1. T \subseteq Nat /\ T # {}
  <2>1. \A x \in S : n - x \in Nat OBVIOUS
  <2> QED BY <2>1
<1> HIDE DEF T
<1>2. PICK z \in T : \A y \in T : z <= y BY <1>1, LeastExists
<1>3. PICK x \in S : z = n - x BY <1>2 DEF T
<1>4. \A y \in S : n - x <= n - y BY <1>2, <1>3 DEF T
<1>5. \A y \in S : x >= y BY <1>4
<1> QED BY <1>5 DEF Max

(* Bills, and the records of a tap: one that buys, one that presses a       *)
(* button of a bill.                                                        *)
BillStatuses ==
    BalanceHold \union {"confirmed", "cancelled", "disputed", "error", "expired", "rejected"}
BillRow(A) ==
    [product : Products, method : PlategaMethods \union ManualMethods \union {"balance_rub"}, price : Nat,
     held : A, status : BillStatuses, link : BOOLEAN, due : BOOLEAN, seen : Nat]
Searching == {"file", "again", "single", "bill"}
Buying == Searching \union {"balance", "lookup"}
BuyRow == [pc : Buying, product : Products, way : Ways, price : Nat, seen : Nat]
PressRow == [pc : {"mark", "announce"}, product : {"renew", "gift", "topup", "slot"}, bill : Nat,
             before : BillStatuses]
TapOK(x) ==
    /\ x.pc \in {"idle", "mark", "announce"} \union Buying
    /\ x.pc \in Buying => x \in BuyRow /\ (x.pc \in {"balance", "lookup"} => x.seen = 0)
    /\ x.pc \in {"mark", "announce"} => x \in PressRow /\ x.bill \in DOMAIN bills
CheckoutTypeOK ==
    /\ \E A : bills \in Seq(BillRow(A))
    /\ tap = [t \in Taps |-> tap[t]] /\ \A t \in Taps : TapOK(tap[t])

(* A manual bill that is open is a request. *)
ManualHeld ==
    \A i \in DOMAIN bills : Held(bills[i]) =>
        /\ bills[i].method \in PlategaMethods \union ManualMethods
        /\ bills[i].method \in ManualMethods => bills[i].status \in ManualOpen

(* A flow that found no open bill passed by those there were. *)
Draft(t) == [product |-> tap[t].product, method |-> Method(t), price |-> tap[t].price, seen |-> tap[t].seen]
FlowOK(t) ==
    tap[t].pc \in Searching =>
        /\ tap[t].seen <= Len(bills)
        /\ IF tap[t].pc = "file" THEN Method(t) \in ManualMethods ELSE Method(t) \in PlategaMethods
        /\ \A i \in 1..tap[t].seen :
              Held(bills[i]) /\ bills[i].product = tap[t].product /\ bills[i].price = tap[t].price =>
                  PassedBy(Draft(t), i)

SeenBefore == \A i \in DOMAIN bills : bills[i].seen \in Nat /\ bills[i].seen < i

CheckoutInv ==
    CheckoutTypeOK /\ ManualHeld /\ SeenBefore /\ (\A t \in Taps : FlowOK(t)) /\ TwinsExplained

(* Bills that stay as they were, but for those that are no longer open. *)
SameBill(a, b) ==
    /\ b.product = a.product /\ b.method = a.method /\ b.price = a.price /\ b.seen = a.seen
    /\ Held(b) => Held(a) /\ (b.status \in ManualOpen <=> a.status \in ManualOpen)
Fades(book) ==
    /\ \E A : book \in Seq(BillRow(A))
    /\ Len(book) = Len(bills) /\ \A i \in DOMAIN bills : SameBill(bills[i], book[i])
Grows ==
    /\ \E A : bills' \in Seq(BillRow(A))
    /\ Len(bills) <= Len(bills') /\ \A i \in DOMAIN bills : SameBill(bills[i], bills'[i])
Reviewed(book) ==
    \A i \in DOMAIN book : book[i].status = "awaiting_admin_review" =>
        i \in DOMAIN bills /\ bills[i].status = "awaiting_admin_review"

LEMMA TapSet ==
    ASSUME CheckoutTypeOK, NEW t \in Taps, NEW x, tap' = [tap EXCEPT ![t] = x]
    PROVE  /\ tap' = [s \in Taps |-> tap'[s]] /\ tap'[t] = x
           /\ \A s \in Taps : s # t => tap'[s] = tap[s]
  BY DEF CheckoutTypeOK

(* What is written into a bill. *)
LEMMA StatusOfBill ==
    ASSUME NEW A, NEW b \in BillRow(A), NEW v \in BillStatuses, NEW c, c = [b EXCEPT !.status = v]
    PROVE  /\ c \in BillRow(A) /\ c.product = b.product /\ c.method = b.method /\ c.price = b.price
           /\ c.seen = b.seen /\ c.status = v
  BY DEF BillRow

LEMMA DueOfBill ==
    ASSUME NEW A, NEW b \in BillRow(A), NEW c, c = [b EXCEPT !.due = TRUE]
    PROVE  /\ c \in BillRow(A) /\ c.product = b.product /\ c.method = b.method /\ c.price = b.price
           /\ c.seen = b.seen /\ c.status = b.status
  BY DEF BillRow

(* A bill of a book is replaced. *)
LEMMA BookSet ==
    ASSUME NEW A, NEW book \in Seq(BillRow(A)), NEW i \in DOMAIN book, NEW b \in BillRow(A),
           NEW new, new = [book EXCEPT ![i] = b]
    PROVE  /\ new \in Seq(BillRow(A)) /\ Len(new) = Len(book) /\ DOMAIN new = DOMAIN book
           /\ \A j \in DOMAIN book : new[j] = IF j = i THEN b ELSE book[j]
<1> DEFINE S == BillRow(A)
<1> HIDE DEF S
<1>1. book \in Seq(S) /\ b \in S /\ Len(book) \in Nat /\ DOMAIN book = 1..Len(book) BY DEF S
<1>2. /\ DOMAIN new = DOMAIN book /\ new = [j \in 1..Len(book) |-> new[j]]
      /\ \A j \in DOMAIN book : new[j] = IF j = i THEN b ELSE book[j]
  BY <1>1
<1>3. \A j \in 1..Len(book) : new[j] \in S BY <1>1, <1>2
<1>4. new \in Seq(S) /\ Len(new) = Len(book) BY <1>1, <1>2, <1>3
<1> QED BY <1>2, <1>4 DEF S

LEMMA ExpiredFades ==
    ASSUME CheckoutTypeOK PROVE Fades(Expired) /\ Reviewed(Expired)
<1>1. PICK A : bills \in Seq(BillRow(A)) BY DEF CheckoutTypeOK
<1> DEFINE S == BillRow(A)
           gone(b) == [b EXCEPT !.status = "expired"]
<1>2. ASSUME NEW b \in S
      PROVE  gone(b) \in S /\ SameBill(b, gone(b)) /\ gone(b).status = "expired"
  <2> DEFINE v == "expired"
             c == [b EXCEPT !.status = v]
  <2>1. v \in BillStatuses BY DEF BillStatuses
  <2> HIDE DEF v
  <2>2. c = [b EXCEPT !.status = v] OBVIOUS
  <2> HIDE DEF c
  <2>3. /\ c \in BillRow(A) /\ c.product = b.product /\ c.method = b.method /\ c.price = b.price
        /\ c.seen = b.seen /\ c.status = v
    BY <2>1, <2>2, StatusOfBill
  <2>4. c = gone(b) BY DEF c, v
  <2> QED BY <2>3, <2>4 DEF v, SameBill, Held, BalanceHold, ManualOpen
<1>3. \A b \in S : SameBill(b, b) BY DEF SameBill
<1> HIDE DEF S, gone
<1>4. bills \in Seq(S) /\ Len(bills) \in Nat /\ DOMAIN bills = 1..Len(bills) BY <1>1 DEF S
<1>5. \A i \in DOMAIN bills : bills[i] \in S BY <1>4
<1>6. \A i \in DOMAIN bills :
         /\ Expired[i] \in S /\ SameBill(bills[i], Expired[i])
         /\ Expired[i].status = "awaiting_admin_review" => bills[i].status = "awaiting_admin_review"
  BY <1>2, <1>3, <1>5 DEF Expired, gone
<1>7. Expired = [i \in 1..Len(bills) |-> Expired[i]] BY <1>4 DEF Expired
<1>8. Expired \in Seq(S) /\ Len(Expired) = Len(bills) /\ DOMAIN Expired = DOMAIN bills
  BY <1>4, <1>6, <1>7
<1> QED BY <1>6, <1>8 DEF Fades, Reviewed, S

LEMMA BillsFade == ASSUME CheckoutTypeOK PROVE Fades(bills) /\ Reviewed(bills)
  BY DEF Fades, Reviewed, SameBill, CheckoutTypeOK

(* A bill of a book that is closed. *)
LEMMA CloseFades ==
    ASSUME CheckoutTypeOK, NEW book, Fades(book), Reviewed(book), NEW i, NEW v \in BillStatuses,
           NEW new, new = [book EXCEPT ![i].status = v],
           v \notin BalanceHold \/ v = book[i].status
    PROVE  Fades(new) /\ Reviewed(new)
<1>1. PICK A : book \in Seq(BillRow(A)) BY DEF Fades
<1>2. DOMAIN bills = DOMAIN book /\ DOMAIN book = 1..Len(book)
  BY <1>1 DEF Fades, CheckoutTypeOK
<1> DEFINE b == [book[i] EXCEPT !.status = v]
<1>3. new = [book EXCEPT ![i] = b] BY <1>1
<1>4. CASE i \in DOMAIN book
  <2>1. book[i] \in BillRow(A) BY <1>1, <1>4
  <2>2. /\ b \in BillRow(A) /\ b.product = book[i].product /\ b.method = book[i].method
        /\ b.price = book[i].price /\ b.seen = book[i].seen /\ b.status = v
    BY <2>1, StatusOfBill
  <2> HIDE DEF b
  <2>3. /\ new \in Seq(BillRow(A)) /\ Len(new) = Len(book) /\ DOMAIN new = DOMAIN book
        /\ \A j \in DOMAIN book : new[j] = IF j = i THEN b ELSE book[j]
    BY <1>1, <1>3, <1>4, <2>2, BookSet
  <2>4. SameBill(bills[i], b)
    BY <1>2, <1>4, <2>2 DEF Fades, SameBill, Held
  <2>5. v = "awaiting_admin_review" => bills[i].status = "awaiting_admin_review"
    BY <1>4 DEF Reviewed, BalanceHold, ManualOpen
  <2> QED BY <1>2, <2>2, <2>3, <2>4, <2>5 DEF Fades, Reviewed
<1>5. CASE i \notin DOMAIN book
  <2>1. new = book BY <1>1, <1>5
  <2> QED BY <2>1
<1> QED BY <1>4, <1>5

(* The flow of a tap that does not search any more, or goes on as it did. *)
LEMMA FlowKept ==
    ASSUME CheckoutTypeOK, NEW t \in Taps, Grows, FlowOK(t), TapOK(tap[t]),
           \/ tap'[t].pc \notin Searching
           \/ /\ tap[t].pc \in Searching /\ (tap'[t].pc = "file" <=> tap[t].pc = "file")
              /\ tap'[t].product = tap[t].product /\ tap'[t].way = tap[t].way
              /\ tap'[t].price = tap[t].price /\ tap'[t].seen = tap[t].seen
    PROVE  FlowOK(t)'
<1> SUFFICES ASSUME tap'[t].pc \in Searching PROVE FlowOK(t)'
  BY DEF FlowOK
<1>1. /\ Len(bills) <= Len(bills') /\ DOMAIN bills = 1..Len(bills) /\ Len(bills) \in Nat
      /\ Len(bills') \in Nat /\ \A i \in DOMAIN bills : SameBill(bills[i], bills'[i])
  BY DEF Grows, CheckoutTypeOK
<1>2. Draft(t)' = Draft(t) /\ tap'[t].seen = tap[t].seen /\ Method(t)' = Method(t) BY DEF Draft, Method
<1>3. tap[t].seen \in Nat /\ tap[t].seen <= Len(bills) BY DEF TapOK, BuyRow, Buying, FlowOK
<1>4. 1..tap[t].seen \subseteq DOMAIN bills BY <1>1, <1>3
<1>5. ASSUME NEW i \in 1..tap[t].seen, PassedBy(Draft(t), i) PROVE PassedBy(Draft(t), i)'
  <2>1. Draft(t).seen = tap[t].seen BY DEF Draft
  <2>2. PICK l \in i..tap[t].seen :
          /\ bills[l].method \in PlategaMethods /\ bills[l].price = Draft(t).price
          /\ bills[l].product \in {"renew", "gift"}
    BY <1>5, <2>1 DEF PassedBy
  <2>3. l \in 1..tap[t].seen BY <1>3
  <2>4. SameBill(bills[l], bills'[l]) BY <1>1, <1>4, <2>3
  <2> QED BY <1>2, <1>5, <2>1, <2>2, <2>4 DEF PassedBy, SameBill
<1>6. ASSUME NEW i \in 1..tap[t].seen, Held(bills'[i]), bills'[i].product = tap[t].product,
             bills'[i].price = tap[t].price
      PROVE  PassedBy(Draft(t), i)'
  <2>1. SameBill(bills[i], bills'[i]) BY <1>1, <1>4
  <2> QED BY <1>5, <1>6, <2>1 DEF SameBill, FlowOK
<1> QED BY <1>1, <1>2, <1>3, <1>6 DEF FlowOK, Held

LEMMA FadesGrows == ASSUME CheckoutTypeOK, Fades(bills') PROVE Grows
  BY DEF Fades, Grows, CheckoutTypeOK

(* What holds of the bills there were goes on to hold of them. *)
LEMMA OldPairs ==
    ASSUME CheckoutTypeOK, ManualHeld, SeenBefore, TwinsExplained, Grows
    PROVE  /\ DOMAIN bills \subseteq DOMAIN bills' /\ DOMAIN bills = 1..Len(bills) /\ Len(bills) \in Nat
           /\ \A i \in DOMAIN bills :
                 /\ bills'[i].seen \in Nat /\ bills'[i].seen < i
                 /\ Held(bills'[i]) =>
                       /\ bills'[i].method \in PlategaMethods \union ManualMethods
                       /\ bills'[i].method \in ManualMethods => bills'[i].status \in ManualOpen
           /\ \A j \in DOMAIN bills : \A i \in 1..(j - 1) :
                 Held(bills'[i]) /\ Held(bills'[j])
                 /\ <<bills'[i].product, bills'[i].price>> = <<bills'[j].product, bills'[j].price>> =>
                    /\ bills'[j].seen < i \/ PassedBy(bills[j], i)'
                    /\ bills'[i].method = bills'[j].method => bills'[i].method \in PlategaMethods
<1>1. /\ DOMAIN bills \subseteq DOMAIN bills' /\ DOMAIN bills = 1..Len(bills) /\ Len(bills) \in Nat
      /\ \A i \in DOMAIN bills : SameBill(bills[i], bills'[i])
  BY DEF Grows, CheckoutTypeOK
<1>2. \A i \in DOMAIN bills :
         /\ bills'[i].seen \in Nat /\ bills'[i].seen < i
         /\ Held(bills'[i]) =>
               /\ bills'[i].method \in PlategaMethods \union ManualMethods
               /\ bills'[i].method \in ManualMethods => bills'[i].status \in ManualOpen
  BY <1>1 DEF ManualHeld, SameBill, SeenBefore
<1>3. ASSUME NEW j \in DOMAIN bills, NEW i \in 1..(j - 1), PassedBy(bills[j], i)
      PROVE  PassedBy(bills[j], i)'
  <2>1. bills'[j].product = bills[j].product /\ bills'[j].method = bills[j].method
        /\ bills'[j].price = bills[j].price /\ bills'[j].seen = bills[j].seen
    BY <1>1 DEF SameBill
  <2>2. PICK l \in i..bills[j].seen :
          /\ bills[l].method \in PlategaMethods /\ bills[l].price = bills[j].price
          /\ bills[l].product \in {"renew", "gift"}
    BY <1>3 DEF PassedBy
  <2>3. bills[j].seen \in Nat /\ bills[j].seen < j BY DEF SeenBefore
  <2>4. l \in DOMAIN bills BY <1>1, <2>3
  <2> QED BY <1>1, <1>3, <2>1, <2>2, <2>4 DEF PassedBy, SameBill
<1>4. ASSUME NEW j \in DOMAIN bills, NEW i \in 1..(j - 1), Held(bills'[i]), Held(bills'[j]),
             <<bills'[i].product, bills'[i].price>> = <<bills'[j].product, bills'[j].price>>
      PROVE  /\ bills'[j].seen < i \/ PassedBy(bills[j], i)'
             /\ bills'[i].method = bills'[j].method => bills'[i].method \in PlategaMethods
  <2>1. i \in DOMAIN bills BY <1>1
  <2>2. SameBill(bills[i], bills'[i]) /\ SameBill(bills[j], bills'[j]) BY <1>1, <2>1
  <2>3. Held(bills[i]) /\ Held(bills[j])
        /\ <<bills[i].product, bills[i].price>> = <<bills[j].product, bills[j].price>>
    BY <1>4, <2>2 DEF SameBill
  <2>4. /\ bills[j].seen < i \/ PassedBy(bills[j], i)
        /\ bills[i].method = bills[j].method => bills[i].method \in PlategaMethods
    BY <2>3 DEF TwinsExplained
  <2> QED BY <1>3, <2>2, <2>4 DEF SameBill
<1> QED BY <1>1, <1>2, <1>4

(* Every step but those that add a bill. *)
LEMMA FadeStep ==
    ASSUME CheckoutInv, Fades(bills'), tap' = [s \in Taps |-> tap'[s]],
           \A s \in Taps : tap'[s] = tap[s] \/ (TapOK(tap[s])' /\ FlowOK(s)')
    PROVE  CheckoutInv'
<1> USE DEF CheckoutInv
<1>1. Grows BY FadesGrows
<1>2. DOMAIN bills' = DOMAIN bills BY DEF Fades, CheckoutTypeOK
<1>3. ASSUME NEW s \in Taps PROVE TapOK(tap[s])' /\ FlowOK(s)'
  <2>1. TapOK(tap[s]) /\ FlowOK(s) BY DEF CheckoutTypeOK
  <2>2. CASE tap'[s] = tap[s]
    <3>1. TapOK(tap[s])' BY <1>2, <2>1, <2>2 DEF TapOK
    <3>2. FlowOK(s)' BY <1>1, <2>1, <2>2, FlowKept
    <3> QED BY <3>1, <3>2
  <2> QED BY <2>2
<1>4. CheckoutTypeOK' BY <1>3 DEF CheckoutTypeOK, Fades
<1>5. ManualHeld' /\ SeenBefore' BY <1>1, <1>2, OldPairs DEF ManualHeld, SeenBefore
<1>6. TwinsExplained' BY <1>1, <1>2, OldPairs DEF TwinsExplained
<1> QED BY <1>3, <1>4, <1>5, <1>6

LEMMA EndStep ==
    ASSUME CheckoutInv, Fades(bills'), NEW t \in Taps, End(t)
    PROVE  CheckoutInv' /\ tap'[t].pc = "idle" /\ \A s \in Taps : s # t => tap'[s] = tap[s]
<1> DEFINE x == Idle
<1>1. /\ tap' = [s \in Taps |-> tap'[s]] /\ tap'[t] = x
      /\ \A s \in Taps : s # t => tap'[s] = tap[s]
  BY TapSet DEF End, CheckoutInv
<1>2. x.pc = "idle" BY DEF Idle
<1>3. TapOK(tap[t])' /\ FlowOK(t)' BY <1>1, <1>2 DEF TapOK, FlowOK, Buying, Searching
<1> QED BY <1>1, <1>2, <1>3, FadeStep

(* A tap goes on. *)
LEMMA GoOn ==
    ASSUME CheckoutTypeOK, NEW t \in Taps, NEW p, Go(t, p),
           \/ tap[t].pc \in Buying /\ p \in Searching
           \/ tap[t].pc \in {"mark", "announce"} /\ p \in {"mark", "announce"},
           DOMAIN bills' = DOMAIN bills
    PROVE  /\ tap' = [s \in Taps |-> tap'[s]] /\ \A s \in Taps : s # t => tap'[s] = tap[s]
           /\ TapOK(tap[t])' /\ tap'[t].pc = p
           /\ tap[t].pc \in Buying =>
                 /\ tap'[t].product = tap[t].product /\ tap'[t].way = tap[t].way
                 /\ tap'[t].price = tap[t].price /\ tap'[t].seen = tap[t].seen
           /\ tap[t].pc \in {"mark", "announce"} => tap'[t].bill = tap[t].bill
<1> DEFINE x == [tap[t] EXCEPT !.pc = p]
<1>1. tap' = [tap EXCEPT ![t] = x] BY DEF Go, CheckoutTypeOK
<1>2. TapOK(tap[t]) BY DEF CheckoutTypeOK
<1>3. CASE tap[t].pc \in Buying
  <2>1. tap[t] \in BuyRow /\ p \in Searching BY <1>2, <1>3 DEF TapOK, Buying, Searching
  <2>2. /\ x \in BuyRow /\ x.pc = p /\ x.product = tap[t].product /\ x.way = tap[t].way
        /\ x.price = tap[t].price /\ x.seen = tap[t].seen
    BY <2>1 DEF BuyRow, Buying
  <2> HIDE DEF x
  <2>3. /\ tap' = [s \in Taps |-> tap'[s]] /\ tap'[t] = x
        /\ \A s \in Taps : s # t => tap'[s] = tap[s]
    BY <1>1, TapSet
  <2>4. TapOK(tap[t])' BY <2>1, <2>2, <2>3 DEF TapOK, Buying, Searching
  <2> QED BY <1>3, <2>2, <2>3, <2>4 DEF Buying, Searching
<1>4. CASE tap[t].pc \in {"mark", "announce"}
  <2>1. tap[t] \in PressRow /\ p \in {"mark", "announce"} /\ tap[t].bill \in DOMAIN bills
    BY <1>2, <1>4 DEF TapOK, Buying, Searching
  <2>2. x \in PressRow /\ x.pc = p /\ x.bill = tap[t].bill
    BY <2>1 DEF PressRow
  <2> HIDE DEF x
  <2>3. /\ tap' = [s \in Taps |-> tap'[s]] /\ tap'[t] = x
        /\ \A s \in Taps : s # t => tap'[s] = tap[s]
    BY <1>1, TapSet
  <2>4. TapOK(tap[t])' BY <2>1, <2>2, <2>3 DEF TapOK, Buying, Searching
  <2> QED BY <1>4, <2>2, <2>3, <2>4 DEF Buying, Searching
<1> QED BY <1>3, <1>4

(* A tap ends with a new bill. *)
LEMMA AddStep ==
    ASSUME CheckoutInv, NEW t \in Taps, tap[t].pc \in Buying, End(t),
           NEW book, Fades(book), Reviewed(book),
           NEW m \in PlategaMethods \union ManualMethods \union {"balance_rub"},
           NEW s \in {"confirmed", "pending", "awaiting_user_payment"}, NEW held, NEW link \in BOOLEAN,
           bills' = Append(book, NewBill(t, m, s, held, link)),
           s # "confirmed" => tap[t].pc \in Searching /\ m = Method(t),
           \/ s = "confirmed"
           \/ s = "pending" /\ m \in PlategaMethods
           \/ /\ s = "awaiting_user_payment" /\ m \in ManualMethods
              /\ Request(TariffCode(tap[t].product, m), m, book) = {}
    PROVE  CheckoutInv' /\ Reviewed(bills') /\ tap'[t].pc = "idle" /\ \A u \in Taps : u # t => tap'[u] = tap[u]
<1> USE DEF CheckoutInv
<1> DEFINE n == Len(bills)
<1>0. PICK b : b = NewBill(t, m, s, held, link) OBVIOUS
<1>1. PICK A : book \in Seq(BillRow(A)) BY DEF Fades
<1> DEFINE B == A \union {held}
<1>2. /\ tap[t] \in BuyRow /\ (tap[t].pc \notin Searching => tap[t].seen = 0)
      /\ tap[t].seen \in Nat /\ tap[t].product \in Products /\ tap[t].price \in Nat
  BY DEF CheckoutTypeOK, TapOK, Buying, BuyRow
<1>3. /\ b \in BillRow(B) /\ b.product = tap[t].product /\ b.method = m /\ b.price = tap[t].price
      /\ b.status = s /\ b.seen = tap[t].seen
  BY <1>0, <1>2 DEF NewBill, BillRow, BillStatuses, BalanceHold, ManualOpen
<1>4. book \in Seq(BillRow(B))
  <2> DEFINE R == BillRow(A)  S == BillRow(B)
  <2>1. R \subseteq S BY DEF BillRow
  <2> HIDE DEF R, S
  <2>2. book \in Seq(R) BY <1>1 DEF R
  <2>3. book \in Seq(S) BY <2>1, <2>2
  <2> QED BY <2>3 DEF S
<1>5. n \in Nat /\ DOMAIN bills = 1..n /\ Len(book) = n BY DEF Fades, CheckoutTypeOK
<1> HIDE DEF B
<1>6. /\ bills' \in Seq(BillRow(B)) /\ Len(bills') = n + 1 /\ bills'[n + 1] = b
      /\ DOMAIN bills' = 1..(n + 1) /\ \A i \in 1..n : bills'[i] = book[i]
  <2> DEFINE S == BillRow(B)
  <2> HIDE DEF S
  <2>1. book \in Seq(S) /\ b \in S /\ bills' = Append(book, b) BY <1>0, <1>3, <1>4 DEF S
  <2>2. /\ bills' \in Seq(S) /\ Len(bills') = n + 1 /\ bills'[n + 1] = b
        /\ \A i \in 1..n : bills'[i] = book[i]
    BY <1>5, <2>1
  <2>3. DOMAIN bills' = 1..(n + 1) BY <2>2
  <2> QED BY <2>2, <2>3 DEF S
<1> HIDE DEF n
<1>7. Grows
  <2>1. \A i \in DOMAIN bills : SameBill(bills[i], bills'[i]) BY <1>5, <1>6 DEF Fades
  <2>2. Len(bills) <= Len(bills') BY <1>5, <1>6 DEF n
  <2> QED BY <1>6, <2>1, <2>2 DEF Grows
<1>8. /\ tap' = [u \in Taps |-> tap'[u]] /\ tap'[t].pc = "idle"
      /\ \A u \in Taps : u # t => tap'[u] = tap[u]
  BY TapSet DEF End, Idle
<1>9. ASSUME NEW u \in Taps PROVE TapOK(tap[u])' /\ FlowOK(u)'
  <2>1. TapOK(tap[u]) /\ FlowOK(u) BY DEF CheckoutTypeOK
  <2>2. TapOK(tap[u])' BY <1>5, <1>6, <1>8, <2>1 DEF TapOK, Buying, Searching
  <2>3. FlowOK(u)'
    <3>1. tap'[u].pc \notin Searching \/ tap'[u] = tap[u] BY <1>8 DEF Searching
    <3> QED BY <1>7, <2>1, <3>1, FlowKept
  <2> QED BY <2>2, <2>3
<1>10. CheckoutTypeOK' BY <1>6, <1>8, <1>9 DEF CheckoutTypeOK
<1>11. /\ Held(b) => s # "confirmed"
       /\ tap[t].seen <= n
  <2>1. Held(b) => s # "confirmed" BY <1>3 DEF Held, BalanceHold, ManualOpen
  <2>2. CASE tap[t].pc \in Searching BY <2>1, <2>2 DEF FlowOK, n
  <2>3. CASE tap[t].pc \notin Searching BY <1>2, <1>5, <2>1, <2>3
  <2> QED BY <2>1, <2>2, <2>3
<1>12. ManualHeld' /\ SeenBefore'
  <2>1. \A i \in DOMAIN bills' : i \in DOMAIN bills \/ (i = n + 1 /\ bills'[i] = b) BY <1>5, <1>6
  <2>2. /\ b.seen \in Nat /\ b.seen < n + 1
        /\ Held(b) => /\ b.method \in PlategaMethods \union ManualMethods
                      /\ b.method \in ManualMethods => b.status \in ManualOpen
    BY <1>2, <1>3, <1>5, <1>11 DEF PlategaMethods, ManualMethods, ManualOpen
  <2> QED BY <1>7, <2>1, <2>2, OldPairs DEF ManualHeld, SeenBefore, Held
<1>13. ASSUME NEW i \in 1..n, Held(bills'[i]), Held(b), bills'[i].product = b.product, bills'[i].price = b.price
       PROVE  /\ b.seen < i \/ PassedBy(b, i)'
              /\ bills'[i].method = m => m \in PlategaMethods
  <2>1. SameBill(bills[i], bills'[i]) /\ bills'[i] = book[i] BY <1>5, <1>6, <1>7 DEF Grows
  <2>2. m = Method(t) /\ tap[t].pc \in Searching BY <1>11, <1>13
  <2>3. ASSUME ~(b.seen < i) PROVE PassedBy(b, i)'
    <3>1. i \in 1..tap[t].seen BY <1>2, <1>3, <1>5, <2>3
    <3>2. Held(bills[i]) /\ bills[i].product = tap[t].product /\ bills[i].price = tap[t].price
      BY <1>3, <1>13, <2>1 DEF SameBill
    <3>3. PassedBy(Draft(t), i) BY <2>2, <3>1, <3>2 DEF FlowOK
    <3>4. Draft(t).product = b.product /\ Draft(t).method = b.method /\ Draft(t).price = b.price
          /\ Draft(t).seen = b.seen
      BY <1>3, <2>2 DEF Draft
    <3>5. PICK l \in i..b.seen : /\ bills[l].method \in PlategaMethods /\ bills[l].price = b.price
                                 /\ bills[l].product \in {"renew", "gift"}
      BY <3>3, <3>4 DEF PassedBy
    <3>6. l \in DOMAIN bills BY <1>2, <1>3, <1>5, <1>11, <3>5
    <3>7. SameBill(bills[l], bills'[l]) BY <1>7, <3>6 DEF Grows
    <3>8. b.product = "renew" /\ b.method = "sbp_manual" BY <3>3, <3>4 DEF PassedBy
    <3> QED BY <3>5, <3>7, <3>8 DEF PassedBy, SameBill
  <2>4. bills'[i].method = m => m \in PlategaMethods
    <3> SUFFICES ASSUME bills'[i].method = m, m \notin PlategaMethods PROVE FALSE
      OBVIOUS
    <3>1. s = "awaiting_user_payment" /\ m \in ManualMethods
          /\ Request(TariffCode(tap[t].product, m), m, book) = {}
      BY <1>3, <1>11, <1>13
    <3>2. book[i].product = tap[t].product /\ book[i].method = m /\ Held(book[i]) BY <1>3, <1>13, <2>1
    <3>3. book[i].status \in ManualOpen
      BY <1>5, <2>1, <3>1, <3>2 DEF SameBill, ManualHeld
    <3>4. i \in Request(TariffCode(tap[t].product, m), m, book)
      <4>1. i \in DOMAIN book BY <1>1, <1>5
      <4> QED BY <3>2, <3>3, <4>1 DEF Request, OpenBy, OpenOf
    <3> QED BY <3>1, <3>4
  <2>5. bills'[i].method = m => m \in PlategaMethods BY <2>4
  <2> QED BY <2>3, <2>5
<1>14. TwinsExplained'
  <2>1. ASSUME NEW j \in DOMAIN bills', NEW i \in 1..(j - 1), Held(bills'[i]), Held(bills'[j]),
               <<bills'[i].product, bills'[i].price>> = <<bills'[j].product, bills'[j].price>>
        PROVE  /\ bills'[j].seen < i \/ PassedBy(bills[j], i)'
               /\ bills'[i].method = bills'[j].method => bills'[i].method \in PlategaMethods
    <3>1. CASE j \in DOMAIN bills BY <1>7, <2>1, <3>1, OldPairs
    <3>2. CASE j = n + 1
      <4>1. i \in 1..n /\ bills'[j] = b BY <1>5, <1>6, <3>2
      <4>2. b.seen < i \/ PassedBy(b, i)' BY <1>13, <2>1, <4>1
      <4>3. PassedBy(b, i)' => PassedBy(bills[j], i)' BY <4>1 DEF PassedBy
      <4> QED BY <1>3, <1>13, <2>1, <4>1, <4>2, <4>3
    <3> QED BY <1>5, <1>6, <3>1, <3>2
  <2> QED BY <2>1 DEF TwinsExplained, Held
<1>15. Reviewed(bills')
  <2>1. \A i \in DOMAIN bills' : i \in DOMAIN book \/ bills'[i].status # "awaiting_admin_review"
    BY <1>1, <1>3, <1>5, <1>6
  <2>2. \A i \in DOMAIN book : bills'[i] = book[i] BY <1>1, <1>5, <1>6
  <2> QED BY <2>1, <2>2 DEF Reviewed
<1> QED BY <1>8, <1>9, <1>10, <1>12, <1>14, <1>15

(* What no administrator is told of, and nobody waits to be told of. *)
Pressing == {"mark", "announce"}
Quietly ==
    /\ Reviewed(bills') /\ UNCHANGED <<announced, unheard>>
    /\ \A t \in Taps : tap'[t] = tap[t] \/ (tap[t].pc \notin Pressing /\ tap'[t].pc \notin Pressing)

LEMMA ChooseStep ==
    ASSUME CheckoutInv, NEW t \in Taps, NEW product, NEW way \in Ways, NEW price \in Nat,
           Choose(t, product, way, price)
    PROVE  CheckoutInv' /\ Quietly
<1>1. /\ tap[t] = Idle /\ product \in Products
      /\ UNCHANGED <<bills, announced, unheard>>
  BY DEF Choose
<1>2. PICK x : /\ tap' = [tap EXCEPT ![t] = x] /\ x \in BuyRow /\ x.pc \in {"balance", "lookup"} /\ x.seen = 0
  <2> DEFINE p == IF product # "topup" /\ Covered(price, bills) = price THEN "balance" ELSE "lookup"
             x == [pc |-> p, product |-> product, way |-> way, price |-> price, seen |-> 0]
  <2>1. tap' = [tap EXCEPT ![t] = x] BY DEF Choose
  <2>2. p \in {"balance", "lookup"} OBVIOUS
  <2> HIDE DEF p
  <2>3. x \in BuyRow /\ x.pc \in {"balance", "lookup"} /\ x.seen = 0 BY <1>1, <2>2 DEF BuyRow, Buying
  <2> HIDE DEF x
  <2> QED BY <2>1, <2>3
<1>3. /\ tap' = [s \in Taps |-> tap'[s]] /\ tap'[t] = x
      /\ \A s \in Taps : s # t => tap'[s] = tap[s]
  BY <1>2, TapSet DEF CheckoutInv
<1>4. Fades(bills) /\ Reviewed(bills) BY BillsFade DEF CheckoutInv
<1>5. TapOK(tap[t])' /\ FlowOK(t)' BY <1>2, <1>3 DEF TapOK, FlowOK, Buying, Searching
<1>6. CheckoutInv' BY <1>1, <1>3, <1>4, <1>5, FadeStep
<1>7. Quietly BY <1>1, <1>2, <1>3, <1>4 DEF Quietly, Pressing, Idle
<1> QED BY <1>6, <1>7

LEMMA PayStep ==
    ASSUME CheckoutInv, NEW t \in Taps, NEW product, PayFromBalance(t, product)
    PROVE  CheckoutInv' /\ Quietly
<1>1. tap[t].pc = "balance" /\ End(t) /\ UNCHANGED <<announced, unheard>> BY DEF PayFromBalance, At, Quiet
<1>2. Fades(bills) /\ Reviewed(bills) BY BillsFade DEF CheckoutInv
<1>3. CASE UNCHANGED bills
  BY <1>1, <1>2, <1>3, EndStep DEF Quietly, Pressing
<1>4. CASE bills' = Append(bills, NewBill(t, "balance_rub", "confirmed", tap[t].price, FALSE))
  <2>1. /\ CheckoutInv' /\ Reviewed(bills') /\ tap'[t].pc = "idle"
        /\ \A u \in Taps : u # t => tap'[u] = tap[u]
    BY <1>1, <1>2, <1>4, AddStep DEF Buying
  <2> QED BY <1>1, <2>1 DEF Quietly, Pressing
<1> QED BY <1>3, <1>4 DEF PayFromBalance

(* What a method is, and what a flow that begins has looked at. *)
LEMMA MethodKind ==
    ASSUME CheckoutTypeOK, NEW t \in Taps, tap[t].pc \in Buying
    PROVE  /\ Method(t) \in PlategaMethods \union ManualMethods
           /\ tap[t].way = "sbp_manual" => Method(t) = "sbp_manual"
           /\ tap[t] \in BuyRow
BY CheckoutAssumption DEF CheckoutTypeOK, TapOK, BuyRow, Ways, Method

LEMMA LookupStep ==
    ASSUME CheckoutInv, NEW t \in Taps, NEW product, NEW book, NEW found,
           Fades(book), Reviewed(book), Lookup(t, product, book, found),
           found = {} => \A i \in DOMAIN book :
               Held(book[i]) /\ book[i].product = product /\ book[i].price = tap[t].price =>
                   /\ product = "renew" /\ Method(t) = "sbp_manual"
                   /\ \E l \in DOMAIN book : /\ i <= l /\ book[l].method \in PlategaMethods
                                             /\ book[l].price = tap[t].price
                                             /\ book[l].product \in {"renew", "gift"}
    PROVE  CheckoutInv' /\ Quietly
<1>1. /\ tap[t].pc = "lookup" /\ tap[t].product = product /\ bills' = book
      /\ UNCHANGED <<announced, unheard>>
  BY DEF Lookup, At, Quiet
<1>2. CASE found # {} /\ End(t)
  BY <1>1, <1>2, EndStep DEF Quietly, Pressing
<1>3. CASE found = {} /\ tap' = [tap EXCEPT ![t].seen = Len(book),
                      ![t].pc = IF Method(t) \in PlategaMethods THEN "again" ELSE "file"]
  <2>1. Method(t) \in PlategaMethods \union ManualMethods /\ tap[t] \in BuyRow
    BY <1>1, MethodKind DEF Buying, CheckoutInv
  <2>2. Len(book) = Len(bills) /\ DOMAIN book = 1..Len(book) /\ Len(book) \in Nat BY DEF Fades
  <2> DEFINE p == IF Method(t) \in PlategaMethods THEN "again" ELSE "file"
             x == [tap[t] EXCEPT !.seen = Len(book), !.pc = p]
  <2>3. tap' = [tap EXCEPT ![t] = x] BY <1>3 DEF CheckoutTypeOK, CheckoutInv
  <2>4. p \in {"again", "file"} OBVIOUS
  <2> DEFINE n == Len(book)
  <2> HIDE DEF p, n
  <2>5. /\ x \in BuyRow /\ x.pc = p /\ x.product = product /\ x.way = tap[t].way
        /\ x.price = tap[t].price /\ x.seen = n
    BY <1>1, <2>1, <2>2, <2>4 DEF BuyRow, Buying, Searching, n
  <2> HIDE DEF x
  <2>6. /\ tap' = [s \in Taps |-> tap'[s]] /\ tap'[t] = x
        /\ \A s \in Taps : s # t => tap'[s] = tap[s]
    BY <2>3, TapSet DEF CheckoutInv
  <2>7. TapOK(tap[t])' BY <2>4, <2>5, <2>6 DEF TapOK, Buying, Searching
  <2>8. Method(t)' = Method(t) BY <2>5, <2>6 DEF Method
  <2>9. ASSUME NEW i \in 1..n, Held(book[i]), book[i].product = product, book[i].price = tap[t].price
        PROVE  PassedBy(Draft(t), i)'
    <3>1. i \in DOMAIN book BY <2>2 DEF n
    <3>2. PICK l \in DOMAIN book : /\ i <= l /\ book[l].method \in PlategaMethods
                                  /\ book[l].price = tap[t].price /\ book[l].product \in {"renew", "gift"}
      BY <1>3, <2>9, <3>1
    <3>3. product = "renew" /\ Method(t) = "sbp_manual" BY <1>3, <2>9, <3>1
    <3>4. l \in i..n BY <2>2, <3>2 DEF n
    <3>5. /\ Draft(t)'.product = product /\ Draft(t)'.method = Method(t)
          /\ Draft(t)'.price = tap[t].price /\ Draft(t)'.seen = n
      BY <2>5, <2>6, <2>8 DEF Draft
    <3> QED BY <1>1, <3>2, <3>3, <3>4, <3>5 DEF PassedBy
  <2>10. FlowOK(t)'
    <3>1. tap'[t].seen = n /\ n <= Len(bills') BY <1>1, <2>2, <2>5, <2>6 DEF n
    <3>2. IF tap'[t].pc = "file" THEN Method(t) \in ManualMethods ELSE Method(t) \in PlategaMethods
      BY <2>1, <2>5, <2>6 DEF p
    <3> QED BY <1>1, <2>5, <2>6, <2>8, <2>9, <3>1, <3>2 DEF FlowOK, Held
  <2>11. CheckoutInv' BY <1>1, <2>6, <2>7, <2>10, FadeStep
  <2>12. Quietly BY <1>1, <2>4, <2>5, <2>6 DEF Quietly, Pressing
  <2> QED BY <2>11, <2>12
<1> QED BY <1>2, <1>3 DEF Lookup

LEMMA LookupSteps ==
    ASSUME CheckoutInv, NEW t \in Taps,
           ShowExistingRenewal(t) \/ ShowExistingGift(t) \/ ShowExistingTopup(t) \/ ShowExistingSlot(t)
    PROVE  CheckoutInv' /\ Quietly
<1> DEFINE price == tap[t].price
<1>1. Fades(Expired) /\ Reviewed(Expired) /\ Fades(bills) /\ Reviewed(bills)
  BY ExpiredFades, BillsFade DEF CheckoutInv
<1>2. CASE ShowExistingGift(t)
  <2> DEFINE found == {i \in OpenAt(Expired, "month", price) : ProductType(Expired[i]) = "gift"}
  <2>1. ASSUME NEW i \in DOMAIN Expired, Held(Expired[i]), Expired[i].product = "gift", Expired[i].price = price
        PROVE  i \in found
    BY <2>1 DEF OpenAt, OpenOf, TariffCode, ProductType
  <2>2. Lookup(t, "gift", Expired, found) BY <1>2 DEF ShowExistingGift
  <2> HIDE DEF found
  <2> QED BY <1>1, <2>1, <2>2, LookupStep
<1>3. CASE ShowExistingTopup(t)
  <2> DEFINE found == FindTopup(t)
  <2>1. ASSUME NEW i \in DOMAIN bills, Held(bills[i]), bills[i].product = "topup", bills[i].price = price
        PROVE  i \in found
    BY <2>1 DEF FindTopup, PayloadType
  <2>2. Lookup(t, "topup", bills, found) BY <1>3 DEF ShowExistingTopup
  <2> HIDE DEF found
  <2> QED BY <1>1, <2>1, <2>2, LookupStep
<1>4. CASE ShowExistingSlot(t)
  <2> DEFINE found == {i \in OpenAt(Expired, "slot", price) : ProductType(Expired[i]) = "slot"}
  <2>1. ASSUME NEW i \in DOMAIN Expired, Held(Expired[i]), Expired[i].product = "slot", Expired[i].price = price
        PROVE  i \in found
    BY <2>1 DEF OpenAt, OpenOf, TariffCode, ProductType
  <2>2. Lookup(t, "slot", Expired, found) BY <1>4 DEF ShowExistingSlot
  <2> HIDE DEF found
  <2> QED BY <1>1, <2>1, <2>2, LookupStep
<1>5. CASE ShowExistingRenewal(t)
  <2> DEFINE found == RenewalFound(t, Expired)
             open == OpenAt(Expired, "month", price)
  <2>1. Lookup(t, "renew", Expired, found) /\ tap[t].pc = "lookup"
    BY <1>5 DEF ShowExistingRenewal, Lookup, At
  <2>2. open \subseteq DOMAIN Expired BY DEF OpenAt, OpenOf
  <2>3. DOMAIN Expired = DOMAIN bills /\ DOMAIN bills = 1..Len(bills) /\ Len(bills) \in Nat
    BY DEF Expired, CheckoutInv, CheckoutTypeOK
  <2>4. ASSUME found = {}, NEW i \in DOMAIN Expired, Held(Expired[i]), Expired[i].product = "renew",
               Expired[i].price = price
        PROVE  /\ Method(t) = "sbp_manual"
               /\ \E l \in DOMAIN Expired :
                     /\ i <= l /\ Expired[l].method \in PlategaMethods
                     /\ Expired[l].price = price /\ Expired[l].product \in {"renew", "gift"}
    <3>1. i \in open BY <2>4 DEF OpenAt, OpenOf, TariffCode
    <3>2. tap[t].way = "sbp_manual" /\ Expired[Max(open)].method \notin ManualMethods
      BY <2>4, <3>1 DEF RenewalFound
    <3>3. Max(open) \in open /\ i <= Max(open) BY <2>2, <2>3, <3>1, MaxIsGreatest
    <3>4. PICK l : l = Max(open) OBVIOUS
    <3>5. Held(Expired[l]) /\ Expired[l].price = price /\ l \in DOMAIN Expired
          /\ TariffCode(Expired[l].product, Expired[l].method) = "month"
      BY <3>3, <3>4 DEF OpenAt, OpenOf
    <3>6. Expired[l].product \in {"renew", "gift"}
      <4>1. SameBill(bills[l], Expired[l]) BY <1>1, <2>3, <3>5 DEF Fades
      <4>2. bills[l].product \in Products
        <5>1. PICK A : bills \in Seq(BillRow(A)) BY DEF CheckoutInv, CheckoutTypeOK
        <5>2. bills[l] \in BillRow(A) BY <2>3, <3>5, <5>1
        <5> QED BY <5>2 DEF BillRow
      <4>3. Expired[l].product \in {"renew", "gift", "topup", "slot"}
        BY <4>1, <4>2, CheckoutAssumption DEF SameBill
      <4> QED BY <3>5, <4>3 DEF TariffCode
    <3>7. Expired[l].method \in PlategaMethods
      <4>1. SameBill(bills[l], Expired[l]) BY <1>1, <2>3, <3>5 DEF Fades
      <4>2. bills[l].method \in PlategaMethods \union ManualMethods
        BY <2>3, <3>5, <4>1 DEF SameBill, CheckoutInv, ManualHeld
      <4> QED BY <3>2, <3>4, <4>1, <4>2 DEF SameBill
    <3>8. Method(t) = "sbp_manual" BY <2>1, <3>2, MethodKind DEF Buying, CheckoutInv
    <3> QED BY <3>3, <3>4, <3>5, <3>6, <3>7, <3>8
  <2> HIDE DEF found
  <2> QED BY <1>1, <2>1, <2>4, LookupStep
<1> QED BY <1>2, <1>3, <1>4, <1>5

(* A manual request is filed, or one that is open is shown again. *)
LEMMA FileStep ==
    ASSUME CheckoutInv, NEW t \in Taps, NEW product, NEW code, File(t, product, code),
           Method(t) \in ManualMethods => code = TariffCode(product, Method(t))
    PROVE  CheckoutInv' /\ Quietly
<1>1. /\ tap[t].pc = "file" /\ tap[t].product = product /\ End(t) /\ UNCHANGED <<announced, unheard>>
  BY DEF File, At, Quiet
<1>2. Fades(Expired) /\ Reviewed(Expired) BY ExpiredFades DEF CheckoutInv
<1>3. CASE bills' = Expired BY <1>1, <1>2, <1>3, EndStep DEF Quietly, Pressing
<1>4. CASE /\ Request(code, Method(t), Expired) = {}
           /\ bills' = Append(Expired, NewBill(t, Method(t), "awaiting_user_payment",
                                               Covered(tap[t].price, Expired), FALSE))
  <2>1. Method(t) \in ManualMethods BY <1>1 DEF CheckoutInv, FlowOK, Searching
  <2>2. Request(TariffCode(tap[t].product, Method(t)), Method(t), Expired) = {} BY <1>1, <1>4, <2>1
  <2> DEFINE m == Method(t)
             held == Covered(tap[t].price, Expired)
  <2> HIDE DEF m, held
  <2>3. /\ m \in ManualMethods /\ m = Method(t) /\ Request(TariffCode(tap[t].product, m), m, Expired) = {}
        /\ bills' = Append(Expired, NewBill(t, m, "awaiting_user_payment", held, FALSE))
    BY <1>4, <2>1, <2>2 DEF m, held
  <2>4. /\ CheckoutInv' /\ Reviewed(bills') /\ tap'[t].pc = "idle"
        /\ \A u \in Taps : u # t => tap'[u] = tap[u]
    BY <1>1, <1>2, <2>3, AddStep DEF Buying, Searching
  <2> QED BY <1>1, <2>4 DEF Quietly, Pressing
<1> QED BY <1>3, <1>4 DEF File

LEMMA FileSteps ==
    ASSUME CheckoutInv, NEW t \in Taps,
           ShowManualRenewal(t) \/ ShowManualGift(t) \/ ShowManualTopup(t) \/ ShowManualSlot(t)
    PROVE  CheckoutInv' /\ Quietly
<1>1. CASE ShowManualRenewal(t) BY <1>1, FileStep DEF ShowManualRenewal, TariffCode
<1>2. CASE ShowManualGift(t) BY <1>2, FileStep DEF ShowManualGift, TariffCode
<1>3. CASE ShowManualTopup(t) BY <1>3, FileStep DEF ShowManualTopup, TariffCode
<1>4. CASE ShowManualSlot(t) BY <1>4, FileStep DEF ShowManualSlot, TariffCode
<1> QED BY <1>1, <1>2, <1>3, <1>4

(* The looks before Platega is asked: the tap ends or goes on. *)
LEMMA LookOn ==
    ASSUME CheckoutInv, NEW t \in Taps, bills' = Expired, UNCHANGED <<announced, unheard>>,
           tap[t].pc \in {"again", "single"}, NEW next \in {"single", "bill"},
           End(t) \/ Go(t, next)
    PROVE  CheckoutInv' /\ Quietly
<1>1. Fades(bills') /\ Reviewed(bills') BY ExpiredFades DEF CheckoutInv
<1>2. CASE End(t) BY <1>1, <1>2, EndStep DEF Quietly, Pressing
<1>3. CASE Go(t, next)
  <2>1. DOMAIN bills' = DOMAIN bills BY DEF Expired
  <2>2. /\ tap' = [s \in Taps |-> tap'[s]] /\ \A s \in Taps : s # t => tap'[s] = tap[s]
        /\ TapOK(tap[t])' /\ tap'[t].pc = next
        /\ tap'[t].product = tap[t].product /\ tap'[t].way = tap[t].way
        /\ tap'[t].price = tap[t].price /\ tap'[t].seen = tap[t].seen
    BY <1>3, <2>1, GoOn DEF Buying, Searching, CheckoutInv
  <2>3. TapOK(tap[t]) /\ FlowOK(t) BY DEF CheckoutInv, CheckoutTypeOK
  <2>4. Grows BY <1>1, FadesGrows DEF CheckoutInv
  <2>5. FlowOK(t)' BY <2>2, <2>3, <2>4, FlowKept DEF CheckoutInv, Searching
  <2>6. CheckoutInv' BY <1>1, <2>2, <2>5, FadeStep
  <2>7. Quietly BY <1>1, <2>2 DEF Quietly, Pressing
  <2> QED BY <2>6, <2>7
<1> QED BY <1>2, <1>3

LEMMA PlategaSteps ==
    ASSUME CheckoutInv, NEW t \in Taps,
           \/ EnsureIntent(t) \/ EnsureTopupIntent(t) \/ \E product \in Products : EnsureSingle(t, product)
           \/ ShowPlategaRenewal(t) \/ ShowPlategaGift(t) \/ ShowPlategaTopup(t) \/ ShowPlategaSlot(t)
    PROVE  CheckoutInv' /\ Quietly
<1>1. ASSUME NEW product, NEW found, NEW next \in {"single", "bill"}, Again(t, product, found, next)
      PROVE  CheckoutInv' /\ Quietly
  <2>1. /\ bills' = Expired /\ UNCHANGED <<announced, unheard>> /\ tap[t].pc = "again"
        /\ End(t) \/ Go(t, next)
    BY <1>1 DEF Again, At, Quiet
  <2> QED BY <2>1, LookOn
<1>2. ASSUME NEW product, EnsureSingle(t, product) PROVE CheckoutInv' /\ Quietly
  <2>1. /\ bills' = Expired /\ UNCHANGED <<announced, unheard>> /\ tap[t].pc = "single"
        /\ End(t) \/ Go(t, "bill")
    BY <1>2 DEF EnsureSingle, At, Quiet
  <2> QED BY <2>1, LookOn
<1>3. ASSUME NEW product, NEW held, Bill(t, product, held) PROVE CheckoutInv' /\ Quietly
  <2>1. /\ tap[t].pc = "bill" /\ End(t) /\ UNCHANGED <<announced, unheard>>
    BY <1>3 DEF Bill, At, Quiet
  <2>2. Fades(bills) /\ Reviewed(bills) BY BillsFade DEF CheckoutInv
  <2>3. CASE UNCHANGED bills BY <2>1, <2>2, <2>3, EndStep DEF Quietly, Pressing
  <2>4. ASSUME NEW link \in BOOLEAN, bills' = Append(bills, NewBill(t, Method(t), "pending", held, link))
        PROVE  CheckoutInv' /\ Quietly
    <3>1. PICK m : m = Method(t) OBVIOUS
    <3>2. m \in PlategaMethods BY <2>1, <3>1 DEF CheckoutInv, FlowOK, Searching
    <3>3. bills' = Append(bills, NewBill(t, m, "pending", held, link)) BY <2>4, <3>1
    <3>4. /\ CheckoutInv' /\ Reviewed(bills') /\ tap'[t].pc = "idle"
          /\ \A u \in Taps : u # t => tap'[u] = tap[u]
      BY <2>1, <2>2, <3>1, <3>2, <3>3, AddStep DEF Buying, Searching
    <3> QED BY <2>1, <3>4 DEF Quietly, Pressing
  <2> QED BY <1>3, <2>3, <2>4 DEF Bill
<1>4. CASE EnsureIntent(t) BY <1>1, <1>4 DEF EnsureIntent
<1>5. CASE EnsureTopupIntent(t) BY <1>1, <1>5 DEF EnsureTopupIntent
<1>6. CASE ShowPlategaRenewal(t) \/ ShowPlategaGift(t) \/ ShowPlategaTopup(t) \/ ShowPlategaSlot(t)
  BY <1>3, <1>6 DEF ShowPlategaRenewal, ShowPlategaGift, ShowPlategaTopup, ShowPlategaSlot
<1> QED BY <1>2, <1>4, <1>5, <1>6

(* The buttons of a bill, an administrator and the calendar. *)
LEMMA StillTaps ==
    ASSUME CheckoutInv, Fades(bills'), Reviewed(bills'), UNCHANGED <<tap, announced, unheard>>
    PROVE  CheckoutInv' /\ Quietly
<1>1. tap' = [s \in Taps |-> tap'[s]] /\ \A s \in Taps : tap'[s] = tap[s]
  BY DEF CheckoutInv, CheckoutTypeOK
<1>2. CheckoutInv' BY <1>1, FadeStep
<1> QED BY <1>1, <1>2 DEF Quietly

LEMMA StatusType ==
    ASSUME CheckoutTypeOK, NEW book, Fades(book), NEW i \in DOMAIN bills
    PROVE  book[i].status \in BillStatuses /\ i \in DOMAIN book
<1>1. PICK A : book \in Seq(BillRow(A)) BY DEF Fades
<1>2. i \in DOMAIN book BY <1>1 DEF Fades, CheckoutTypeOK
<1>3. book[i] \in BillRow(A) BY <1>1, <1>2
<1> QED BY <1>2, <1>3 DEF BillRow

LEMMA ButtonSteps ==
    ASSUME CheckoutInv, NEW i \in DOMAIN bills,
           \/ \E t \in Taps : \E product : Cancel(t, product, i) \/ Check(t, product, i)
           \/ ReviewPayment(i) \/ Overdue(i)
    PROVE  CheckoutInv' /\ Quietly
<1>1. CheckoutTypeOK /\ Fades(Expired) /\ Reviewed(Expired) /\ Fades(bills) /\ Reviewed(bills)
  BY ExpiredFades, BillsFade DEF CheckoutInv
<1>2. UNCHANGED <<tap, announced, unheard>> BY DEF Cancel, Check, Quiet, ReviewPayment, Overdue
<1>3. CASE \E t \in Taps : \E product : Cancel(t, product, i)
  <2> DEFINE v == IF Expired[i].status \in ManualOpen THEN "cancelled" ELSE Expired[i].status
  <2>1. bills' = [Expired EXCEPT ![i].status = v]
    <3>1. PICK A : Expired \in Seq(BillRow(A)) BY <1>1 DEF Fades
    <3>2. bills' = [Expired EXCEPT ![i].status = IF @ \in ManualOpen THEN "cancelled" ELSE @]
      BY <1>3 DEF Cancel
    <3> QED BY <3>2
  <2>2. v \in BillStatuses BY <1>1, StatusType DEF BillStatuses
  <2>3. v \notin BalanceHold \/ v = Expired[i].status BY DEF BalanceHold, ManualOpen
  <2> HIDE DEF v
  <2>4. Fades(bills') /\ Reviewed(bills') BY <1>1, <2>1, <2>2, <2>3, CloseFades
  <2> QED BY <1>2, <2>4, StillTaps
<1>4. CASE \E t \in Taps : \E product : Check(t, product, i)
  <2>1. PICK v \in ProviderAnswers : bills' = [bills EXCEPT ![i].status = v] BY <1>4 DEF Check
  <2>2. v \in BillStatuses /\ v \notin BalanceHold
    BY DEF ProviderAnswers, BillStatuses, BalanceHold, ManualOpen
  <2>3. Fades(bills') /\ Reviewed(bills') BY <1>1, <2>1, <2>2, CloseFades
  <2> QED BY <1>2, <2>3, StillTaps
<1>5. CASE ReviewPayment(i)
  <2>1. CASE bills' = Expired BY <1>1, <1>2, <2>1, StillTaps
  <2>2. ASSUME NEW v \in {"confirmed", "rejected"}, bills' = [Expired EXCEPT ![i].status = v]
        PROVE  CheckoutInv' /\ Quietly
    <3>1. v \in BillStatuses /\ v \notin BalanceHold BY DEF BillStatuses, BalanceHold, ManualOpen
    <3>2. Fades(bills') /\ Reviewed(bills') BY <1>1, <2>2, <3>1, CloseFades
    <3> QED BY <1>2, <3>2, StillTaps
  <2> QED BY <1>5, <2>1, <2>2 DEF ReviewPayment
<1>6. CASE Overdue(i)
  <2>1. PICK A : bills \in Seq(BillRow(A)) BY <1>1 DEF CheckoutTypeOK
  <2> DEFINE b == [bills[i] EXCEPT !.due = TRUE]
  <2>2. bills' = [bills EXCEPT ![i] = b] BY <1>6, <2>1 DEF Overdue
  <2>3. bills[i] \in BillRow(A) BY <2>1
  <2>4. /\ b \in BillRow(A) /\ b.product = bills[i].product /\ b.method = bills[i].method
        /\ b.price = bills[i].price /\ b.seen = bills[i].seen /\ b.status = bills[i].status
    BY <2>3, DueOfBill
  <2> HIDE DEF b
  <2>5. /\ bills' \in Seq(BillRow(A)) /\ Len(bills') = Len(bills) /\ DOMAIN bills' = DOMAIN bills
        /\ \A j \in DOMAIN bills : bills'[j] = IF j = i THEN b ELSE bills[j]
    BY <2>1, <2>2, <2>4, BookSet
  <2>6. Fades(bills') /\ Reviewed(bills') BY <2>4, <2>5 DEF Fades, Reviewed, SameBill, Held
  <2> QED BY <1>2, <2>6, StillTaps
<1> QED BY <1>3, <1>4, <1>5, <1>6

LEMMA DiscountStep == ASSUME CheckoutInv, GetDiscount PROVE CheckoutInv' /\ Quietly
<1>1. UNCHANGED <<bills, tap, announced, unheard>> BY DEF GetDiscount
<1>2. Fades(bills') /\ Reviewed(bills') BY <1>1, BillsFade DEF CheckoutInv
<1> QED BY <1>1, <1>2, StillTaps

-----------------------------------------------------------------------------
(* Who knows of a request. *)
Explained(i) ==
    i \in announced \union unheard \/ \E t \in Taps : tap[t].pc = "announce" /\ tap[t].bill = i
ReviewKnown ==
    /\ \A i \in DOMAIN bills : bills[i].status = "awaiting_admin_review" => Explained(i)
    /\ \A t \in Taps : tap[t].pc = "mark" /\ tap[t].before = "awaiting_admin_review" => Explained(tap[t].bill)

LEMMA QuietKeeps == ASSUME ReviewKnown, Quietly PROVE ReviewKnown'
<1>1. \A i : Explained(i) => Explained(i)' BY DEF Explained, Quietly, Pressing
<1>2. ASSUME NEW t \in Taps, tap'[t].pc = "mark", tap'[t].before = "awaiting_admin_review"
      PROVE  Explained(tap[t].bill)'
  <2>1. tap'[t] = tap[t] BY <1>2 DEF Quietly, Pressing
  <2>2. Explained(tap[t].bill) BY <1>2, <2>1 DEF ReviewKnown
  <2>3. \A i : i = tap[t].bill => Explained(i)' BY <1>1, <2>2
  <2> QED BY <2>1, <2>3 DEF Explained
<1> QED BY <1>1, <1>2 DEF ReviewKnown, Quietly, Reviewed

LEMMA PaidStep ==
    ASSUME CheckoutInv, ReviewKnown, NEW t \in Taps, NEW i \in DOMAIN bills,
           NEW product \in {"renew", "gift", "topup", "slot"}, Paid(t, product, i)
    PROVE  CheckoutInv' /\ ReviewKnown'
<1>1. UNCHANGED <<bills, announced, unheard>> /\ tap[t] = Idle BY DEF Paid, Pressable
<1>2. Fades(bills) /\ Reviewed(bills) /\ bills[i].status \in BillStatuses /\ i \in Nat
  <2>1. Fades(bills) /\ Reviewed(bills) BY BillsFade DEF CheckoutInv
  <2>2. i \in Nat BY DEF CheckoutInv, CheckoutTypeOK
  <2> QED BY <2>1, <2>2, StatusType DEF CheckoutInv
<1> DEFINE x == [pc |-> "mark", product |-> product, bill |-> i, before |-> bills[i].status]
<1>3. tap' = [tap EXCEPT ![t] = x] BY DEF Paid
<1>4. x \in PressRow /\ x.pc = "mark" /\ x.bill = i /\ x.before = bills[i].status BY <1>2 DEF PressRow
<1> HIDE DEF x
<1>5. /\ tap' = [s \in Taps |-> tap'[s]] /\ tap'[t] = x
      /\ \A s \in Taps : s # t => tap'[s] = tap[s]
  BY <1>3, TapSet DEF CheckoutInv
<1>6. TapOK(tap[t])' /\ FlowOK(t)' BY <1>1, <1>4, <1>5 DEF TapOK, FlowOK, Buying, Searching
<1>7. CheckoutInv' BY <1>1, <1>2, <1>5, <1>6, FadeStep
<1>8. \A j : Explained(j) => Explained(j)' BY <1>1, <1>5 DEF Explained, Idle
<1>9. ReviewKnown'
  <2>1. \A j \in DOMAIN bills' : bills'[j].status = "awaiting_admin_review" => Explained(j)'
    BY <1>1, <1>8 DEF ReviewKnown
  <2>2. ASSUME NEW s \in Taps, tap'[s].pc = "mark", tap'[s].before = "awaiting_admin_review"
        PROVE  Explained(tap[s].bill)'
    <3>1. \E j : tap'[s].bill = j /\ Explained(j)
      <4>1. CASE s = t BY <1>4, <1>5, <2>2, <4>1 DEF ReviewKnown
      <4>2. CASE s # t BY <1>5, <2>2, <4>2 DEF ReviewKnown
      <4> QED BY <4>1, <4>2
    <3> QED BY <1>8, <3>1 DEF Explained
  <2> QED BY <2>1, <2>2 DEF ReviewKnown
<1> QED BY <1>7, <1>9

LEMMA MarkSubmittedStep ==
    ASSUME CheckoutInv, ReviewKnown, NEW t \in Taps, MarkSubmitted(t)
    PROVE  CheckoutInv' /\ ReviewKnown'
<1> DEFINE b == tap[t].bill
           after == Submitted(Expired[b])
<1>1. /\ tap[t].pc = "mark" /\ bills' = [Expired EXCEPT ![b] = after] /\ UNCHANGED <<announced, unheard>>
      /\ IF Fresh(t) /\ after.status = "awaiting_admin_review" THEN Go(t, "announce") ELSE End(t)
  BY DEF MarkSubmitted, Quiet
<1>2. b \in DOMAIN bills BY <1>1 DEF CheckoutInv, CheckoutTypeOK, TapOK
<1>3. Fades(Expired) /\ Reviewed(Expired) /\ b \in DOMAIN Expired
  BY <1>2, ExpiredFades, StatusType DEF CheckoutInv
<1>4. PICK A : Expired \in Seq(BillRow(A)) BY <1>3 DEF Fades
<1>5. Expired[b] \in BillRow(A) BY <1>3, <1>4
<1>6. after \in BillRow(A) /\ SameBill(Expired[b], after)
  <2> DEFINE r == Expired[b]  v == "awaiting_admin_review"  c == [r EXCEPT !.status = v]
  <2> HIDE DEF r
  <2>1. r \in BillRow(A) /\ v \in BillStatuses BY <1>5 DEF r, BillStatuses, BalanceHold, ManualOpen
  <2>2. CASE r.status \in ManualOpen
    <3>1. c = [r EXCEPT !.status = v] OBVIOUS
    <3> HIDE DEF c, v
    <3>2. /\ c \in BillRow(A) /\ c.product = r.product /\ c.method = r.method /\ c.price = r.price
          /\ c.seen = r.seen /\ c.status = v
      BY <2>1, <3>1, StatusOfBill
    <3>3. after = c BY <2>2 DEF Submitted, r, c, v
    <3>4. SameBill(r, c) BY <2>2, <3>2 DEF SameBill, Held, BalanceHold, ManualOpen, v
    <3> QED BY <3>2, <3>3, <3>4 DEF r
  <2>3. CASE r.status \notin ManualOpen
    <3>1. after = r BY <2>3 DEF Submitted, r
    <3> QED BY <2>1, <3>1 DEF SameBill, r
  <2> QED BY <2>2, <2>3
<1>7. PICK i, a : i = b /\ a = after OBVIOUS
<1> HIDE DEF b, after
<1>8. /\ bills' \in Seq(BillRow(A)) /\ Len(bills') = Len(Expired) /\ DOMAIN bills' = DOMAIN Expired
      /\ \A j \in DOMAIN Expired : bills'[j] = IF j = i THEN a ELSE Expired[j]
  BY <1>1, <1>3, <1>4, <1>6, <1>7, BookSet
<1>9. DOMAIN Expired = DOMAIN bills BY DEF Expired
<1>10. Fades(bills')
  <2>1. SameBill(bills[i], a) BY <1>2, <1>3, <1>6, <1>7 DEF Fades, SameBill
  <2> QED BY <1>3, <1>8, <1>9, <2>1 DEF Fades
<1>11. /\ CheckoutInv' /\ \A s \in Taps : s # t => tap'[s] = tap[s]
       /\ \/ tap'[t].pc = "idle" /\ (a.status = "awaiting_admin_review" => ~Fresh(t))
          \/ tap'[t].pc = "announce" /\ tap'[t].bill = i
  <2>1. CASE End(t) /\ (a.status = "awaiting_admin_review" => ~Fresh(t))
    BY <1>10, <2>1, EndStep
  <2>2. CASE Go(t, "announce")
    <3>1. /\ tap' = [s \in Taps |-> tap'[s]] /\ \A s \in Taps : s # t => tap'[s] = tap[s]
          /\ TapOK(tap[t])' /\ tap'[t].pc = "announce" /\ tap'[t].bill = tap[t].bill
      BY <1>1, <1>8, <1>9, <2>2, GoOn DEF CheckoutInv
    <3>2. FlowOK(t)' BY <3>1 DEF FlowOK, Searching
    <3>3. CheckoutInv' BY <1>10, <3>1, <3>2, FadeStep
    <3> QED BY <1>7, <3>1, <3>3 DEF b
  <2> QED BY <1>1, <1>7, <2>1, <2>2
<1>12. \A j : Explained(j) => Explained(j)' BY <1>1, <1>11 DEF Explained
<1>13. a.status = "awaiting_admin_review" => Explained(i)'
  <2>1. CASE tap'[t].pc = "announce" /\ tap'[t].bill = i BY <2>1 DEF Explained
  <2>2. CASE a.status = "awaiting_admin_review" => ~Fresh(t)
    <3>1. ~Fresh(t) => Explained(i) BY <1>1, <1>7 DEF Fresh, ReviewKnown, b
    <3> QED BY <1>12, <2>2, <3>1
  <2> QED BY <1>11, <2>1, <2>2
<1>14. ReviewKnown'
  <2>1. \A j \in DOMAIN bills' : bills'[j].status = "awaiting_admin_review" => Explained(j)'
    BY <1>3, <1>8, <1>9, <1>12, <1>13 DEF ReviewKnown, Reviewed
  <2>2. ASSUME NEW s \in Taps, tap'[s].pc = "mark", tap'[s].before = "awaiting_admin_review"
        PROVE  Explained(tap[s].bill)'
    <3>1. s # t /\ tap'[s] = tap[s] BY <1>11, <2>2
    <3>2. \E j : tap'[s].bill = j /\ Explained(j) BY <2>2, <3>1 DEF ReviewKnown
    <3> QED BY <1>12, <3>2 DEF Explained
  <2> QED BY <2>1, <2>2 DEF ReviewKnown
<1> QED BY <1>11, <1>14

LEMMA NotifyStep ==
    ASSUME CheckoutInv, ReviewKnown, NEW t \in Taps, NotifySupportAdmins(t)
    PROVE  CheckoutInv' /\ ReviewKnown'
<1>1. /\ tap[t].pc = "announce" /\ End(t) /\ UNCHANGED bills
      /\ announced \union unheard \subseteq announced' \union unheard'
      /\ tap[t].bill \in announced' \union unheard'
  BY DEF NotifySupportAdmins
<1>2. Fades(bills) BY BillsFade DEF CheckoutInv
<1>3. CheckoutInv' /\ tap'[t].pc = "idle" /\ \A s \in Taps : s # t => tap'[s] = tap[s]
  BY <1>1, <1>2, EndStep
<1>4. \A j : Explained(j) => Explained(j)' BY <1>1, <1>3 DEF Explained
<1>5. ASSUME NEW s \in Taps, tap'[s].pc = "mark", tap'[s].before = "awaiting_admin_review"
      PROVE  Explained(tap[s].bill)'
  <2>1. s # t /\ tap'[s] = tap[s] BY <1>3, <1>5
  <2>2. \E j : tap'[s].bill = j /\ Explained(j) BY <1>5, <2>1 DEF ReviewKnown
  <2> QED BY <1>4, <2>2 DEF Explained
<1>6. ReviewKnown' BY <1>1, <1>4, <1>5 DEF ReviewKnown
<1> QED BY <1>3, <1>6

LEMMA RestartStep ==
    ASSUME CheckoutInv, ReviewKnown, RestartBot
    PROVE  CheckoutInv' /\ ReviewKnown'
<1>1. /\ UNCHANGED <<bills, announced>> /\ tap' = [t \in Taps |-> Idle]
      /\ unheard' = unheard \union {tap[t].bill : t \in {u \in Taps : tap[u].pc = "announce"}}
  BY DEF RestartBot
<1>2. Fades(bills) BY BillsFade DEF CheckoutInv
<1>3. \A t \in Taps : tap'[t].pc = "idle" BY <1>1 DEF Idle
<1>4. \A t \in Taps : TapOK(tap[t])' /\ FlowOK(t)' BY <1>3 DEF TapOK, FlowOK, Buying, Searching
<1>5. tap' = [t \in Taps |-> tap'[t]] BY <1>1
<1>6. CheckoutInv' BY <1>1, <1>2, <1>4, <1>5, FadeStep
<1>7. \A j : Explained(j) => Explained(j)' BY <1>1 DEF Explained
<1>8. ReviewKnown' BY <1>1, <1>3, <1>7 DEF ReviewKnown
<1> QED BY <1>6, <1>8

LEMMA CheckoutStep ==
    CheckoutInv /\ ReviewKnown /\ [CheckoutNext]_checkoutVars => CheckoutInv' /\ ReviewKnown'
<1> SUFFICES ASSUME CheckoutInv, ReviewKnown, [CheckoutNext]_checkoutVars
             PROVE  CheckoutInv' /\ ReviewKnown'
  OBVIOUS
<1>1. ASSUME CheckoutInv', Quietly PROVE CheckoutInv' /\ ReviewKnown' BY <1>1, QuietKeeps
<1>2. ASSUME NEW t \in Taps, NEW way \in Ways,
             V2RenewMethod(t, way) \/ V2GiftMethod(t, way) \/ V2BalanceMethod(t, way) \/ V2SlotMethod(t, way)
      PROVE  CheckoutInv' /\ ReviewKnown'
  <2>1. PICK product, price : Choose(t, product, way, price) /\ (price = Discounted \/ price = Price[product])
    BY <1>2 DEF V2RenewMethod, V2GiftMethod, V2BalanceMethod, V2SlotMethod
  <2>2. price \in Nat BY <2>1, CheckoutAssumption DEF Choose
  <2> QED BY <1>1, <2>1, <2>2, ChooseStep
<1>3. ASSUME NEW t \in Taps, FinishRenewal(t) \/ FinishGift(t) \/ FinishSlot(t)
      PROVE  CheckoutInv' /\ ReviewKnown'
  BY <1>1, <1>3, PayStep DEF FinishRenewal, FinishGift, FinishSlot
<1>4. ASSUME NEW t \in Taps,
             \/ ShowExistingRenewal(t) \/ ShowExistingGift(t) \/ ShowExistingTopup(t) \/ ShowExistingSlot(t)
             \/ ShowManualRenewal(t) \/ ShowManualGift(t) \/ ShowManualTopup(t) \/ ShowManualSlot(t)
             \/ EnsureIntent(t) \/ EnsureTopupIntent(t) \/ \E product \in Products : EnsureSingle(t, product)
             \/ ShowPlategaRenewal(t) \/ ShowPlategaGift(t) \/ ShowPlategaTopup(t) \/ ShowPlategaSlot(t)
      PROVE  CheckoutInv' /\ ReviewKnown'
  BY <1>1, <1>4, LookupSteps, FileSteps, PlategaSteps
<1>5. ASSUME NEW t \in Taps, MarkSubmitted(t) \/ NotifySupportAdmins(t) PROVE CheckoutInv' /\ ReviewKnown'
  BY <1>5, MarkSubmittedStep, NotifyStep
<1>6. ASSUME NEW t \in Taps, NEW i \in DOMAIN bills,
             V2RenewManualPaid(t, i) \/ V2GiftManualPaid(t, i) \/ V2BalanceManualPaid(t, i) \/ V2SlotManualPaid(t, i)
      PROVE  CheckoutInv' /\ ReviewKnown'
  BY <1>6, PaidStep DEF V2RenewManualPaid, V2GiftManualPaid, V2BalanceManualPaid, V2SlotManualPaid
<1>7. ASSUME NEW t \in Taps, NEW i \in DOMAIN bills,
             \/ V2RenewManualCancel(t, i) \/ V2GiftManualCancel(t, i)
             \/ V2BalanceManualCancel(t, i) \/ V2SlotManualCancel(t, i)
             \/ V2RenewExternalCheck(t, i) \/ V2GiftExternalCheck(t, i)
             \/ V2BalanceExternalCheck(t, i) \/ V2SlotExternalCheck(t, i)
      PROVE  CheckoutInv' /\ ReviewKnown'
  <2>1. \E product : Cancel(t, product, i) \/ Check(t, product, i)
    BY <1>7 DEF V2RenewManualCancel, V2GiftManualCancel, V2BalanceManualCancel, V2SlotManualCancel,
                V2RenewExternalCheck, V2GiftExternalCheck, V2BalanceExternalCheck, V2SlotExternalCheck
  <2> QED BY <1>1, <2>1, ButtonSteps
<1>8. ASSUME NEW i \in DOMAIN bills, ReviewPayment(i) \/ Overdue(i) PROVE CheckoutInv' /\ ReviewKnown'
  BY <1>1, <1>8, ButtonSteps
<1>9. CASE GetDiscount BY <1>1, <1>9, DiscountStep
<1>10. CASE RestartBot BY <1>10, RestartStep
<1>11. CASE UNCHANGED checkoutVars
  <2>1. UNCHANGED <<bills, tap, announced, unheard>> BY <1>11 DEF checkoutVars
  <2>2. Fades(bills') /\ Reviewed(bills') BY <2>1, BillsFade DEF CheckoutInv
  <2> QED BY <1>1, <2>1, <2>2, StillTaps
<1> QED BY <1>2, <1>3, <1>4, <1>5, <1>6, <1>7, <1>8, <1>9, <1>10, <1>11 DEF CheckoutNext

LEMMA CheckoutIsInvariant == CheckoutSpec => [](CheckoutInv /\ ReviewKnown)
<1>1. CheckoutInit => CheckoutInv /\ ReviewKnown
  <2> SUFFICES ASSUME CheckoutInit PROVE CheckoutInv /\ ReviewKnown
    OBVIOUS
  <2>1. bills \in Seq(BillRow({})) /\ DOMAIN bills = {} BY DEF CheckoutInit
  <2>2. \A t \in Taps : tap[t].pc = "idle" BY DEF CheckoutInit, Idle
  <2>3. CheckoutTypeOK BY <2>1, <2>2 DEF CheckoutInit, CheckoutTypeOK, TapOK, Buying, Searching
  <2> QED BY <2>1, <2>2, <2>3 DEF CheckoutInv, ManualHeld, SeenBefore, FlowOK, Searching, TwinsExplained, ReviewKnown
<1> QED BY <1>1, CheckoutStep, PTL DEF CheckoutSpec

(* For any methods, prices and races of taps: two open bills of a product   *)
(* at a price come of a flow that had looked before the earlier one was     *)
(* there, or of the manual button's passing by an automatic bill; two       *)
(* manual requests of a method never do, for                                *)
(* get_or_create_manual_payment_request looks under the buyer's lock.       *)
THEOREM TwinsComeOfARace == CheckoutSpec => []TwinsExplained
<1>1. CheckoutInv => TwinsExplained BY DEF CheckoutInv
<1> QED BY <1>1, CheckoutIsInvariant, PTL

(* For any taps and restarts, a request waits for review unannounced only   *)
(* when its announcement was lost: the press that changed its status tells  *)
(* the administrators, and a press that did not knows that another has.     *)
THEOREM ReviewsAreAnnounced == CheckoutSpec => []ReviewIsAnnounced
<1>1. ReviewKnown => ReviewIsAnnounced BY DEF ReviewKnown, Explained, ReviewIsAnnounced
<1> QED BY <1>1, CheckoutIsInvariant, PTL
=============================================================================
