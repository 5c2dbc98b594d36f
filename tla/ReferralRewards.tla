-------------------------- MODULE ReferralRewards --------------------------
(***************************************************************************)
(* The reward for the first payment of an invited user (bot/db.py,         *)
(* bot/payment_flow.py and who finalizes payments).                        *)
(*                                                                         *)
(* Whoever has delivered a payment goes on to its reward: one transaction  *)
(* that locks the record, the invited user and the referrer, in this       *)
(* order.  The referral page corrects the balance of its reader without a  *)
(* lock.                                                                   *)
(***************************************************************************)
EXTENDS Naturals, Sequences, FiniteSets, FiniteSetsExt, SequencesExt

CONSTANTS
    People, Bills,      \* users; subscription payments
    Payer, Route,       \* of each payment: who pays; "bot", "platega", "crypto"
    Bonus,              \* referral_bonus_for_tariff
    Legacy,             \* invites of each user from before the rewards
    Finalizers,         \* handlers that confirm and deliver
    Readers,            \* requests of the referral page
    MaxVisits,          \* bound on handlers' runs
    MaxDemotions,       \* bound on stale writes that take a confirmation back
    MaxAborts,          \* bound on processes that die
    Nobody

ASSUME RewardAssumption ==
    /\ Payer \in [Bills -> People] /\ Route \in [Bills -> {"bot", "platega", "crypto"}]
    /\ Bonus \in Nat \ {0} /\ Legacy \in [People -> Nat]
    /\ Nobody \notin People /\ People \intersect Bills = {}
    /\ Finalizers \intersect Readers = {}

VARIABLES
    invitedBy,          \* referred_by_user_id
    confirmed,          \* confirmed payments in the order of confirmed_at
    delivered,          \* payments whose effect is applied
    reward,             \* ReferralReward of each payment: its referrer
    balance, credits,   \* balance_rub; the sum of the credit events
    fin,                \* each handler: where it is, what it carries
    visits, demotions, aborts,
    missed,             \* history: payments delivered past their reward
    late,               \* history: users bound after they had paid
    overwritten         \* history: balances written over by a reader

money == <<balance, credits>>
rewardVars == <<invitedBy, confirmed, delivered, reward, money, fin,
                visits, demotions, aborts, missed, late, overwritten>>

Rows == People \union Bills
None == [step |-> "none", bill |-> Nobody, held |-> {}, seen |-> 0, due |-> 0]

RewardInit ==
    /\ invitedBy = [u \in People |-> Nobody]
    /\ confirmed = <<>> /\ delivered = {}
    /\ reward = [b \in Bills |-> Nobody]
    /\ balance = [u \in People |-> 0] /\ credits = [u \in People |-> 0]
    /\ fin = [h \in Finalizers \union Readers |-> None]
    /\ visits = 0 /\ demotions = 0 /\ aborts = 0
    /\ missed = {} /\ late = {} /\ overwritten = {}

-----------------------------------------------------------------------------
Fin(h, r) == fin' = [fin EXCEPT ![h] = r]
Held(r) == \E h \in Finalizers : r \in fin[h].held
Paid(u) == {i \in DOMAIN confirmed : Payer[confirmed[i]] = u}
FirstPaid(u) == confirmed[Min(Paid(u))]
Rewarded(u) == \E b \in Bills : reward[b] # Nobody /\ Payer[b] = u
Visit == visits < MaxVisits /\ visits' = visits + 1
Quiet == UNCHANGED <<demotions, aborts>>

(* bind_referrer_by_token under the lock of the invited user. *)
BindReferrer(u, r) ==
    /\ invitedBy[u] = Nobody /\ r # u /\ ~Held(u)
    /\ invitedBy' = [invitedBy EXCEPT ![u] = r]
    /\ late' = IF Paid(u) # {} THEN late \union {u} ELSE late
    /\ UNCHANGED <<confirmed, delivered, reward, money, fin, visits, demotions, aborts,
                   missed, overwritten>>

ConfirmBill(b) ==
    /\ b \notin ToSet(confirmed) /\ ~Held(b)
    /\ confirmed' = Append(confirmed, b)
    /\ UNCHANGED <<invitedBy, delivered, reward, money, fin, visits, demotions, aborts,
                   missed, late, overwritten>>

(* What PaymentRecords shows of the buyer's unlocked writers. *)
Demote(b) ==
    /\ b \in ToSet(confirmed) /\ ~Held(b)
    /\ demotions < MaxDemotions /\ demotions' = demotions + 1
    /\ confirmed' = SelectSeq(confirmed, LAMBDA x : x # b)
    /\ UNCHANGED <<invitedBy, delivered, reward, money, fin, visits, aborts,
                   missed, late, overwritten>>

(* A handler delivers or finds the payment delivered.  The bot's go on to   *)
(* the reward in any case, Platega's when they delivered themselves; the    *)
(* webhook of CryptoPay names no payment and rewards none.                  *)
DeliverBill(h, b) ==
    LET now == b \notin delivered
        goes == Route[b] = "bot" \/ (Route[b] = "platega" /\ now)
    IN
    /\ h \in Finalizers /\ fin[h] = None /\ b \in ToSet(confirmed) /\ Visit
    /\ delivered' = delivered \union {b}
    /\ IF goes THEN Fin(h, [None EXCEPT !.step = "bill", !.bill = b]) ELSE UNCHANGED fin
    /\ missed' = IF now /\ ~goes THEN missed \union {b} ELSE missed
    /\ UNCHANGED <<invitedBy, confirmed, reward, money, late, overwritten>> /\ Quiet

(* reconcile_confirmed_payment_records delivers and leaves it at that. *)
Reconcile(b) ==
    /\ b \in ToSet(confirmed) /\ b \notin delivered
    /\ delivered' = delivered \union {b} /\ missed' = missed \union {b}
    /\ UNCHANGED <<invitedBy, confirmed, reward, money, fin, visits, late, overwritten>> /\ Quiet

-----------------------------------------------------------------------------
(* process_referral_reward_for_payment. *)
LockBill(h) ==
    LET b == fin[h].bill IN
    /\ fin[h].step = "bill" /\ ~Held(b)
    /\ Fin(h, IF b \notin ToSet(confirmed) THEN None
              ELSE [fin[h] EXCEPT !.held = {b},
                                  !.step = IF reward[b] # Nobody THEN "report" ELSE "invited"])
    /\ missed' = IF b \notin ToSet(confirmed) THEN missed \union {b} ELSE missed
    /\ UNCHANGED <<invitedBy, confirmed, delivered, reward, money, visits, late, overwritten>>
    /\ Quiet

(* A payment that has its reward: the report locks the referrer first. *)
ReportReferrer(h) ==
    LET r == reward[fin[h].bill] IN
    /\ fin[h].step = "report" /\ ~Held(r)
    /\ Fin(h, [fin[h] EXCEPT !.step = "reported", !.held = @ \union {r}])
    /\ UNCHANGED <<invitedBy, confirmed, delivered, reward, money, visits, missed, late,
                   overwritten>> /\ Quiet
ReportInvited(h) ==
    /\ fin[h].step = "reported" /\ ~Held(Payer[fin[h].bill])
    /\ Fin(h, None)
    /\ UNCHANGED <<invitedBy, confirmed, delivered, reward, money, visits, missed, late,
                   overwritten>> /\ Quiet

(* Mutants: an earlier reward of the user is not looked for; the latest     *)
(* payment counts for the first.                                            *)
EntitledAgain(u, b) ==
    /\ invitedBy[u] # Nobody
    /\ Paid(u) # {} /\ FirstPaid(u) = b
EntitledLatest(u, b) ==
    /\ invitedBy[u] # Nobody /\ ~Rewarded(u)
    /\ Paid(u) # {} /\ confirmed[Max(Paid(u))] = b

Entitled(u, b) ==
    /\ invitedBy[u] # Nobody /\ ~Rewarded(u)
    /\ Paid(u) # {} /\ FirstPaid(u) = b

(* Mutant: the balance is read before the lock, which is not held on. *)
LockInvitedLoose(h) ==
    LET b == fin[h].bill
        u == Payer[b]
    IN
    /\ fin[h].step = "invited" /\ ~Held(u)
    /\ Fin(h, IF ~Entitled(u, b) THEN None
              ELSE [fin[h] EXCEPT !.step = "referrer", !.seen = balance[u]])
    /\ UNCHANGED <<invitedBy, confirmed, delivered, reward, money, visits, missed, late,
                   overwritten>> /\ Quiet

(* The balance of the invited user is read with the lock.  (For a user with *)
(* a reward the referrer is locked once more, to report it.)                *)
LockInvited(h) ==
    LET b == fin[h].bill
        u == Payer[b]
    IN
    /\ fin[h].step = "invited" /\ ~Held(u)
    /\ Fin(h, IF ~Entitled(u, b) THEN None
              ELSE [fin[h] EXCEPT !.step = "referrer", !.held = @ \union {u},
                                  !.seen = balance[u]])
    /\ UNCHANGED <<invitedBy, confirmed, delivered, reward, money, visits, missed, late,
                   overwritten>> /\ Quiet

Missing(r) == IF Legacy[r] * Bonus > credits[r] THEN Legacy[r] * Bonus - credits[r] ELSE 0

(* The referrer's old invites are settled first, then both are credited.    *)
LockReferrer(h) ==
    LET b == fin[h].bill
        u == Payer[b]
        r == invitedBy[u]
        gain == Missing(r) + Bonus
    IN
    /\ fin[h].step = "referrer" /\ ~Held(r)
    /\ reward' = [reward EXCEPT ![b] = r]
    /\ balance' = [balance EXCEPT ![r] = @ + gain, ![u] = fin[h].seen + Bonus]
    /\ credits' = [credits EXCEPT ![r] = @ + gain, ![u] = @ + Bonus]
    /\ Fin(h, None)
    /\ UNCHANGED <<invitedBy, confirmed, delivered, visits, missed, late, overwritten>> /\ Quiet

(* The row a transaction asks for next. *)
Waits(h) ==
    CASE fin[h].step = "bill" -> fin[h].bill
      [] fin[h].step = "report" -> reward[fin[h].bill]
      [] fin[h].step \in {"reported", "invited"} -> Payer[fin[h].bill]
      [] fin[h].step = "referrer" -> invitedBy[Payer[fin[h].bill]]
      [] OTHER -> Nobody

(* Two transactions that wait for each other: PostgreSQL ends one of them,  *)
(* its error ends the handler.                                              *)
Deadlock(h, g) ==
    /\ h # g /\ Waits(h) \in fin[g].held /\ Waits(g) \in fin[h].held
    /\ Fin(h, None) /\ missed' = missed \union {fin[h].bill}
    /\ UNCHANGED <<invitedBy, confirmed, delivered, reward, money, visits, late, overwritten>>
    /\ Quiet

FinalizerDies(h) ==
    /\ fin[h] # None /\ h \in Finalizers
    /\ aborts < MaxAborts /\ aborts' = aborts + 1
    /\ Fin(h, None) /\ missed' = missed \union {fin[h].bill}
    /\ UNCHANGED <<invitedBy, confirmed, delivered, reward, money, visits, demotions, late,
                   overwritten>>

(* get_referral_dashboard: reads balance and events, writes both without a  *)
(* lock.                                                                    *)
ReadPage(v, u) ==
    /\ v \in Readers /\ fin[v] = None /\ Missing(u) > 0 /\ Visit
    /\ Fin(v, [None EXCEPT !.step = "page", !.bill = u, !.seen = balance[u], !.due = Missing(u)])
    /\ UNCHANGED <<invitedBy, confirmed, delivered, reward, money, missed, late, overwritten>>
    /\ Quiet
WritePage(v) ==
    LET u == fin[v].bill IN
    /\ fin[v].step = "page" /\ ~Held(u)
    /\ balance' = [balance EXCEPT ![u] = fin[v].seen + fin[v].due]
    /\ credits' = [credits EXCEPT ![u] = @ + fin[v].due]
    /\ overwritten' = IF fin[v].seen # balance[u] THEN overwritten \union {u} ELSE overwritten
    /\ Fin(v, None)
    /\ UNCHANGED <<invitedBy, confirmed, delivered, reward, visits, missed, late>> /\ Quiet

-----------------------------------------------------------------------------
RewardNext ==
    \/ \E u, r \in People : BindReferrer(u, r)
    \/ \E b \in Bills : ConfirmBill(b) \/ Demote(b) \/ Reconcile(b)
    \/ \E h \in Finalizers, b \in Bills : DeliverBill(h, b)
    \/ \E h \in Finalizers : \/ LockBill(h) \/ ReportReferrer(h) \/ ReportInvited(h)
                             \/ LockInvited(h) \/ LockReferrer(h) \/ FinalizerDies(h)
    \/ \E h, g \in Finalizers : Deadlock(h, g)
    \/ \E v \in Readers : WritePage(v) \/ \E u \in People : ReadPage(v, u)

RewardSpec == RewardInit /\ [][RewardNext]_rewardVars
-----------------------------------------------------------------------------
(* An invited user has one reward and its referrer is not himself, whatever *)
(* payments overlap and whichever of them counts as the first by then.      *)
OneRewardEach ==
    \A b \in Bills : reward[b] # Nobody =>
        /\ reward[b] # Payer[b]
        /\ \A c \in Bills : reward[c] # Nobody /\ Payer[c] = Payer[b] => c = b

(* A balance is what the credit events say, unless a reader of the referral *)
(* page wrote over a change made since it read: rewards among themselves    *)
(* never lose one, be the referrer of one the invited user of another.      *)
BalanceIsLedger ==
    \A u \in People \ overwritten : balance[u] = credits[u]

(* Once all payments are delivered and nobody is at work, the first payment *)
(* of every invited user has its reward, or one of these ended the way to   *)
(* it: a route or a reconciler that does not reward, a handler that died or *)
(* lost a deadlock, a confirmation taken back, a binding after the payment. *)
FirstPaymentRewarded ==
    (\A h \in Finalizers : fin[h] = None) =>
        \A u \in People \ late :
            (/\ invitedBy[u] # Nobody /\ Paid(u) # {} /\ demotions = 0
             /\ \A i \in Paid(u) : confirmed[i] \in delivered \ missed)
            => reward[FirstPaid(u)] # Nobody
=============================================================================
