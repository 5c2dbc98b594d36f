----------------------------- MODULE PromoCodes -----------------------------
(***************************************************************************)
(* Promo codes (backend/core/promo_codes.py): redeemed by users, the days  *)
(* credited in a second transaction, the discount carried by the payments  *)
(* opened meanwhile (bot/router.py) and consumed behind the marker of a    *)
(* delivered one (bot/payment_flow.py).                                    *)
(*                                                                         *)
(* A redemption locks the row of its code, not its user.                   *)
(***************************************************************************)
EXTENDS Naturals, Sequences, FiniteSets, FiniteSetsExt, SequencesExt

CONSTANTS
    Buyers, Codes,
    Discounts,          \* codes of kind discount_percent; the others give days
    Dated,              \* codes with an expires_at
    Uses,               \* max_redemptions of each code
    Redeemers,          \* requests that redeem
    Orders,             \* subscription payments, each opened once
    MaxRedeems,         \* bound on requests
    MaxLost,            \* bound on processes that die
    NoCode

ASSUME PromoAssumption ==
    /\ Discounts \subseteq Codes /\ Dated \subseteq Codes /\ NoCode \notin Codes
    /\ Uses \in [Codes -> Nat \ {0}]
    /\ IsFiniteSet(Redeemers)

VARIABLES
    count, exhausted,   \* redeemed_count, status of each code
    lapsed,             \* codes behind their expires_at
    redemptions,        \* the rows in the order of their ids
    credited,           \* days extensions each user has been given
    req,                \* each request: where it is, the count or id it carries
    order,              \* each payment: state, promo_redemption_id (0: none)
    redeems, lost,
    unpaid,             \* history: redemptions whose days were never credited
    raced               \* history: users of two codes at the same time

promoVars == <<count, exhausted, lapsed, redemptions, credited, req, order,
               redeems, lost, unpaid, raced>>

Quit == [step |-> "idle", code |-> NoCode, user |-> NoCode, carry |-> 0]
Unopened == [state |-> "none", user |-> NoCode, discount |-> 0]

PromoInit ==
    /\ count = [c \in Codes |-> 0] /\ exhausted = {} /\ lapsed = {}
    /\ redemptions = <<>> /\ credited = [u \in Buyers |-> 0]
    /\ req = [h \in Redeemers |-> Quit] /\ order = [o \in Orders |-> Unopened]
    /\ redeems = 0 /\ lost = 0 /\ unpaid = {} /\ raced = {}

-----------------------------------------------------------------------------
Of(u, status) == {i \in DOMAIN redemptions : redemptions[i].user = u /\ redemptions[i].status = status}
Pending(u) == Of(u, "pending")
HasRedeemed(u, c) == \E i \in DOMAIN redemptions : redemptions[i].user = u /\ redemptions[i].code = c

CodeFree(h, c) ==
    req[h] = Quit /\ \A g \in Redeemers : ~(req[g].step = "locked" /\ req[g].code = c)

(* Mutant: a pending discount does not stand in the way of another. *)
RedeemableAgain(u, c) ==
    c \notin exhausted /\ c \notin lapsed /\ count[c] < Uses[c] /\ ~HasRedeemed(u, c)
(* With two pending discounts the query for the one raises. *)
Redeemable(u, c) ==
    /\ c \notin exhausted /\ c \notin lapsed /\ count[c] < Uses[c] /\ ~HasRedeemed(u, c)
    /\ c \in Discounts => Pending(u) = {}

(* redeem_promo_code_for_user: lock the code and check. *)
LockCode(h, u, c) ==
    /\ CodeFree(h, c) /\ Redeemable(u, c)
    /\ redeems < MaxRedeems /\ redeems' = redeems + 1
    /\ req' = [req EXCEPT ![h] = [step |-> "locked", code |-> c, user |-> u, carry |-> count[c]]]
    /\ raced' = IF \E g \in Redeemers : req[g].step = "locked" /\ req[g].user = u
                THEN raced \union {u} ELSE raced
    /\ UNCHANGED <<count, exhausted, lapsed, redemptions, credited, order, lost, unpaid>>

(* An expired code, or one at its limit, is closed when it is asked for. *)
CloseCode(h, c) ==
    /\ CodeFree(h, c) /\ c \notin exhausted
    /\ c \in lapsed \/ count[c] >= Uses[c]
    /\ exhausted' = exhausted \union {c}
    /\ UNCHANGED <<count, lapsed, redemptions, credited, req, order, redeems, lost, unpaid, raced>>

Redemption(c, u) ==
    [code |-> c, user |-> u, order |-> NoCode,
     status |-> IF c \in Discounts THEN "pending" ELSE "applied"]
OfUser(u, c) ==
    /\ ~HasRedeemed(u, c)
    /\ redemptions' = Append(redemptions, Redemption(c, u))

(* The redemption and the count are committed; days are credited next. *)
CommitRedemption(h) ==
    LET c == req[h].code IN
    /\ req[h].step = "locked" /\ OfUser(req[h].user, c)
    /\ count' = [count EXCEPT ![c] = req[h].carry + 1]
    /\ exhausted' = IF count'[c] >= Uses[c] THEN exhausted \union {c} ELSE exhausted
    /\ req' = [req EXCEPT ![h] = IF c \in Discounts THEN Quit
                                 ELSE [@ EXCEPT !.step = "credit", !.carry = Len(redemptions) + 1]]
    /\ UNCHANGED <<lapsed, credited, order, redeems, lost, unpaid, raced>>

(* Mutant: a failed sync has the credit done over. *)
CreditDaysOver(h) ==
    /\ req[h].step = "credit"
    /\ credited' = [credited EXCEPT ![req[h].user] = @ + 1]
    /\ \/ req' = [req EXCEPT ![h] = Quit]
       \/ UNCHANGED req
    /\ UNCHANGED <<count, exhausted, lapsed, redemptions, order, redeems, lost, unpaid, raced>>

(* activate_paid_subscription *)
CreditDays(h) ==
    /\ req[h].step = "credit"
    /\ credited' = [credited EXCEPT ![req[h].user] = @ + 1]
    /\ req' = [req EXCEPT ![h] = Quit]
    /\ UNCHANGED <<count, exhausted, lapsed, redemptions, order, redeems, lost, unpaid, raced>>

RedeemerDies(h) ==
    /\ req[h] # Quit /\ lost < MaxLost /\ lost' = lost + 1
    /\ req' = [req EXCEPT ![h] = Quit]
    /\ unpaid' = IF req[h].step = "credit" THEN unpaid \union {req[h].carry} ELSE unpaid
    /\ UNCHANGED <<count, exhausted, lapsed, redemptions, credited, order, redeems, raced>>

CodeLapses(c) ==
    /\ c \in Dated \ lapsed /\ lapsed' = lapsed \union {c}
    /\ UNCHANGED <<count, exhausted, redemptions, credited, req, order, redeems, lost, unpaid, raced>>

-----------------------------------------------------------------------------
(* A payment is priced with the latest pending discount and carries its id. *)
OpenOrder(o, u) ==
    /\ order[o].state = "none"
    /\ order' = [order EXCEPT ![o] = [state |-> "open", user |-> u,
                                      discount |-> IF Pending(u) = {} THEN 0 ELSE Max(Pending(u))]]
    /\ UNCHANGED <<count, exhausted, lapsed, redemptions, credited, req, redeems, lost, unpaid, raced>>

MarkOrder(o) ==
    /\ order[o].state = "open"
    /\ order' = [order EXCEPT ![o].state = "marked"]
    /\ UNCHANGED <<count, exhausted, lapsed, redemptions, credited, req, redeems, lost, unpaid, raced>>

(* Mutant: whatever discount the user has by now is consumed. *)
ConsumedByNow(o) == IF Pending(order[o].user) = {} THEN 0 ELSE Max(Pending(order[o].user))
Consumed(o) == order[o].discount

(* consume_discount_redemption_from_payment_record, once behind the marker. *)
ConsumeDiscount(o) ==
    LET i == Consumed(o) IN
    /\ order[o].state = "marked"
    /\ order' = [order EXCEPT ![o].state = "done"]
    /\ redemptions' = IF i = 0 \/ redemptions[i].status # "pending" THEN redemptions
                      ELSE [redemptions EXCEPT ![i].status = "consumed", ![i].order = o]
    /\ UNCHANGED <<count, exhausted, lapsed, credited, req, redeems, lost, unpaid, raced>>

DeliveryDies(o) ==
    /\ order[o].state = "marked" /\ lost < MaxLost /\ lost' = lost + 1
    /\ order' = [order EXCEPT ![o].state = "cut"]
    /\ UNCHANGED <<count, exhausted, lapsed, redemptions, credited, req, redeems, unpaid, raced>>

-----------------------------------------------------------------------------
PromoNext ==
    \/ \E h \in Redeemers, c \in Codes : CloseCode(h, c) \/ \E u \in Buyers : LockCode(h, u, c)
    \/ \E h \in Redeemers : CommitRedemption(h) \/ CreditDays(h) \/ RedeemerDies(h)
    \/ \E c \in Codes : CodeLapses(c)
    \/ \E o \in Orders : \/ MarkOrder(o) \/ ConsumeDiscount(o) \/ DeliveryDies(o)
                         \/ \E u \in Buyers : OpenOrder(o, u)

PromoSpec == PromoInit /\ [][PromoNext]_promoVars
-----------------------------------------------------------------------------
(* A user has been given the days of each redemption once: none is missing  *)
(* but those under way and those whose request died between the two         *)
(* transactions, which no pass repeats; none is given without a redemption. *)
DaysAsRedeemed ==
    \A u \in Buyers :
        credited[u] + Cardinality({h \in Redeemers : req[h].step = "credit" /\ req[h].user = u})
            = Cardinality(Of(u, "applied") \ unpaid)

(* A consumed discount names a delivered payment that was opened with it,   *)
(* and the discount of a payment delivered to the end is consumed: by it,   *)
(* or by another payment opened with the same one.  A user whose requests   *)
(* never overlapped has no two discounts at a time.                         *)
DiscountFollowsPayment ==
    /\ \A i \in DOMAIN redemptions : redemptions[i].status = "consumed" =>
          /\ order[redemptions[i].order].discount = i
          /\ order[redemptions[i].order].state = "done"
    /\ \A o \in Orders : order[o].state = "done" /\ order[o].discount # 0 =>
          redemptions[order[o].discount].status = "consumed"
    /\ \A u \in Buyers \ raced : Cardinality(Pending(u)) <= 1
=============================================================================
