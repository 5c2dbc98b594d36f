---------------------------- MODULE PaymentEffect ----------------------------
(***************************************************************************)
(* Delivery of a confirmed payment (bot/payment_flow.py and the effect     *)
(* claim of bot/db.py).                                                    *)
(*                                                                         *)
(* A payment record that reaches the status "confirmed" owes its buyer one *)
(* effect: a subscription extension, a balance top-up, a device slot or a  *)
(* gift code.  Several processes may deliver it: the landing webhook, the  *)
(* bot handlers and the dashboard (the Handlers below) and the timer job   *)
(* that reconciles confirmed payments (the Reconciler).  They agree on who *)
(* delivers through a claim written into the record's metadata, which has  *)
(* no owner and stops counting after 300 seconds; the effect itself is a   *)
(* transaction of its own, committed before the record is marked applied.  *)
(* A process may die, or an exception may surface, between any two of the  *)
(* transactions.                                                           *)
(*                                                                         *)
(* One action is one database transaction of the code.  A finalizer that   *)
(* finds the effect applied, or claimed and fresh, leaves the database     *)
(* alone and returns: that is a stuttering step, except for a gift.        *)
(***************************************************************************)
EXTENDS Naturals, Sequences, FiniteSets

CONSTANTS
    Records,        \* payment records
    Handlers,       \* webhook, bot and dashboard tasks that finalize a payment
    Reconciler,     \* the payment_reconcile stage of ops/access_reminders.py
    Subscription,   \* records of the product "subscription": access is synced
    Keyed,          \* device slots and gifts: one row per payment_record_id
    Gift,           \* the gifts among them
    Revenue,        \* amount > 0 and a method that counts as revenue
    MaxConfirmed,   \* bound on the payments that get confirmed
    Window,         \* fetch_limit: how many confirmed records a pass looks at
    MaxFaults,      \* bound on crashes, failed transactions and failed syncs
    NoRecord        \* no record in hand

Workers == Handlers \union {Reconciler}

ASSUME ProductAssumption ==
    /\ Subscription \subseteq Records /\ Keyed \subseteq Records
    /\ Gift \subseteq Keyed /\ Revenue \subseteq Records
    /\ Subscription \intersect Keyed = {}
    /\ NoRecord \notin Records

ASSUME WorkerAssumption == IsFiniteSet(Handlers) /\ Reconciler \notin Handlers

ASSUME BoundAssumption == {MaxConfirmed, Window, MaxFaults} \subseteq Nat

VARIABLES
    confirmed,   \* the confirmed records, oldest first (confirmed_at, id)
    claim,       \* effect_processing_at: "none", "fresh" or older than 300 s
    applied,     \* effect_applied_at is set
    performed,   \* how many times the effect's own transaction has committed
    access,      \* access_sync_state
    entries,     \* income entries of the finance ledger for the record
    synced,      \* finance_synced_at is set
    pc, rec,     \* what each worker does next, and for which record
    saw,         \* entries a finance sync found before it writes
    lapses,      \* history: deliveries the claim stopped protecting
    faults       \* failures so far, capped by MaxFaults

record == <<confirmed, claim, applied, performed, access, entries, synced>>
vars == <<record, pc, rec, saw, lapses, faults>>

Steps == {"idle", "apply", "mark", "seal", "release",
          "access", "finWrite", "finMark"}

IsConfirmed(r) == \E i \in 1 .. Len(confirmed) : confirmed[i] = r

(* The rows list_confirmed_payment_records_needing_full_reconcile fetches:  *)
(* the Window oldest confirmed ones, converged or not.                      *)
InWindow(r) == \E i \in 1 .. Len(confirmed) : i <= Window /\ confirmed[i] = r

(* payment_record_requires_access_sync, payment_record_requires_finance_sync *)
AccessPending(r) == applied[r] /\ r \in Subscription /\ access[r] # "success"
FinancePending(r) == applied[r] /\ r \in Revenue /\ ~synced[r]

(* payment_record_reconcile_state(record) = "converged" *)
Converged(r) == /\ IsConfirmed(r) /\ applied[r]
                /\ ~AccessPending(r) /\ ~FinancePending(r)

(* Workers that hold, or believe they hold, the claim of r: before the      *)
(* effect or giving the claim back, and after the effect.                   *)
Pending(r) == {w \in Workers : rec[w] = r /\ pc[w] \in {"apply", "release"}}
Marking(r) == {w \in Workers : rec[w] = r /\ pc[w] \in {"mark", "seal"}}

Goto(w, step) == pc' = [pc EXCEPT ![w] = step]
Take(w, r) == rec' = [rec EXCEPT ![w] = r]
Fault == faults < MaxFaults /\ faults' = faults + 1
Lapse(r) == lapses' = [lapses EXCEPT ![r] = @ + 1]

Init ==
    /\ confirmed = <<>>
    /\ claim = [r \in Records |-> "none"]
    /\ applied = [r \in Records |-> FALSE]
    /\ performed = [r \in Records |-> 0]
    /\ access = [r \in Records |-> "unset"]
    /\ entries = [r \in Records |-> 0]
    /\ synced = [r \in Records |-> FALSE]
    /\ pc = [w \in Workers |-> "idle"]
    /\ rec = [w \in Workers |-> NoRecord]
    /\ saw = [w \in Workers |-> 0]
    /\ lapses = [r \in Records |-> 0]
    /\ faults = 0

-----------------------------------------------------------------------------
(* confirm_external_payment_record, review_manual_payment_record: the first *)
(* confirmation stamps confirmed_at, a repeated one changes nothing.        *)
Confirm(r) ==
    /\ ~IsConfirmed(r) /\ Len(confirmed) < MaxConfirmed
    /\ confirmed' = Append(confirmed, r)
    /\ UNCHANGED <<claim, applied, performed, access, entries, synced,
                   pc, rec, saw, lapses, faults>>

(* A handler finalizes a confirmed record; the reconciler one of the window *)
(* whose state is missing_effect.                                           *)
Visits(w, r) == /\ pc[w] = "idle" /\ IsConfirmed(r)
                /\ w = Reconciler => InWindow(r)

(* Mutant: the claim is not looked at. *)
ClaimableWhileClaimed(r) == ~applied[r]

(* claim_payment_record_effect returning "claimed". *)
Claimable(r) == ~applied[r] /\ claim[r] # "fresh"

Claim(w, r) ==
    /\ Visits(w, r) /\ Claimable(r)
    /\ claim' = [claim EXCEPT ![r] = "fresh"]
    /\ Goto(w, "apply") /\ Take(w, r)
    /\ UNCHANGED <<confirmed, applied, performed, access, entries, synced,
                   saw, lapses, faults>>

(* The effect's transaction: activate_paid_subscription and                 *)
(* credit_user_balance add to what is there, create_device_slot_entitlement *)
(* and create_gift_promo_code_for_payment return the row already there.     *)
PerformedOnce(r) == IF r \in Keyed THEN 1 ELSE performed[r] + 1
Deliver(r) == performed' = [performed EXCEPT ![r] = PerformedOnce(r)]

(* finalize_gift_subscription_payment answers "already_applied" and         *)
(* "in_progress" by fetching the code, and creates it if it is not there.   *)
FetchGift(w, r) ==
    /\ Visits(w, r) /\ ~Claimable(r) /\ r \in Gift
    /\ w # Reconciler \/ ~applied[r]
    /\ Deliver(r)
    /\ UNCHANGED <<confirmed, claim, applied, access, entries, synced,
                   pc, rec, saw, lapses, faults>>

Perform(w) ==
    /\ pc[w] = "apply"
    /\ Deliver(rec[w])
    /\ Goto(w, "mark")
    /\ UNCHANGED <<confirmed, claim, applied, access, entries, synced,
                   rec, saw, lapses, faults>>

(* Mutant: a refused effect is not noticed. *)
PerformFailsUnnoticed(w) ==
    /\ pc[w] = "apply" /\ Fault
    /\ Goto(w, "mark")
    /\ UNCHANGED <<record, rec, saw, lapses>>

(* The effect is refused (None) or raises before its commit. *)
PerformFails(w) ==
    /\ pc[w] = "apply" /\ Fault
    /\ Goto(w, "release")
    /\ UNCHANGED <<record, rec, saw, lapses>>

(* The effect commits and what follows the commit in the same call (the     *)
(* refresh, the conversion marks, create_control_event) raises: the caller  *)
(* never sets effect_performed and gives the claim back.                    *)
PerformThenRaise(w) ==
    /\ pc[w] = "apply" /\ Fault
    /\ Deliver(rec[w]) /\ Lapse(rec[w])
    /\ Goto(w, "release")
    /\ UNCHANGED <<confirmed, claim, applied, access, entries, synced,
                   rec, saw>>

(* mark_payment_record_effect_applied: whoever marks clears the claim. *)
SetApplied(r) == /\ applied' = [applied EXCEPT ![r] = TRUE]
                 /\ claim' = [claim EXCEPT ![r] = "none"]

Mark(w) ==
    /\ pc[w] = "mark"
    /\ SetApplied(rec[w])
    /\ Goto(w, IF rec[w] \in Subscription THEN "access" ELSE "idle")
    /\ UNCHANGED <<confirmed, performed, access, entries, synced,
                   rec, saw, lapses, faults>>

(* Marking raises: the gift finalizer releases, the others seal. *)
MarkFails(w) ==
    /\ pc[w] = "mark" /\ Fault
    /\ Goto(w, IF rec[w] \in Gift THEN "release" ELSE "seal")
    /\ UNCHANGED <<record, rec, saw, lapses>>

(* _seal_performed_payment_effect_after_failure: marks once more, then the  *)
(* caller re-raises; a second failure is logged and the claim left behind.  *)
Seal(w) ==
    /\ pc[w] = "seal"
    /\ SetApplied(rec[w])
    /\ Goto(w, "idle")
    /\ UNCHANGED <<confirmed, performed, access, entries, synced,
                   rec, saw, lapses, faults>>

SealFails(w) ==
    /\ pc[w] = "seal" /\ Fault
    /\ Lapse(rec[w])
    /\ Goto(w, "idle")
    /\ UNCHANGED <<record, rec, saw>>

(* release_payment_record_effect_claim compares the kind, not the owner: it *)
(* clears whatever claim the record carries by then.                        *)
Release(w) ==
    /\ pc[w] = "release"
    /\ claim' = [claim EXCEPT ![rec[w]] = "none"]
    /\ Goto(w, "idle")
    /\ UNCHANGED <<confirmed, applied, performed, access, entries, synced,
                   rec, saw, lapses, faults>>

-----------------------------------------------------------------------------
(* Mutant: only a sync that never ran is visited, not one that failed. *)
AccessVisitOnce(w, r) ==
    /\ w = Reconciler /\ Visits(w, r) /\ AccessPending(r) /\ access[r] = "unset"
    /\ Goto(w, "access") /\ Take(w, r)
    /\ UNCHANGED <<record, saw, lapses, faults>>

(* _reconcile_applied_subscription_payment, for a record of the window.     *)
AccessVisit(w, r) ==
    /\ w = Reconciler /\ Visits(w, r) /\ AccessPending(r)
    /\ Goto(w, "access") /\ Take(w, r)
    /\ UNCHANGED <<record, saw, lapses, faults>>

(* _ensure_subscription_access_state: sync the VPN nodes, record the result *)
RecordAccess(w, state) ==
    /\ pc[w] = "access"
    /\ access' = [access EXCEPT ![rec[w]] = state]
    /\ Goto(w, "idle")
    /\ UNCHANGED <<confirmed, claim, applied, performed, entries, synced,
                   rec, saw, lapses>>

SyncAccess(w) == RecordAccess(w, "success") /\ UNCHANGED faults
SyncAccessFails(w) == RecordAccess(w, "failed") /\ Fault

(* sync_income_entry_for_payment_record: handlers call it for any confirmed *)
(* revenue payment, the reconciler for finance_pending.  It reads the entry *)
(* without a lock, and two rows make scalar_one_or_none raise.              *)
FinanceVisit(w, r) ==
    /\ Visits(w, r) /\ r \in Revenue
    /\ w = Reconciler => FinancePending(r)
    /\ entries[r] <= 1
    /\ saw' = [saw EXCEPT ![w] = entries[r]]
    /\ Goto(w, "finWrite") /\ Take(w, r)
    /\ UNCHANGED <<record, lapses, faults>>

FinanceWrite(w) ==
    /\ pc[w] = "finWrite"
    /\ entries' = IF saw[w] = 0
                  THEN [entries EXCEPT ![rec[w]] = @ + 1] ELSE entries
    /\ Goto(w, "finMark")
    /\ UNCHANGED <<confirmed, claim, applied, performed, access, synced,
                   rec, saw, lapses, faults>>

(* mark_payment_record_finance_synced *)
FinanceMark(w) ==
    /\ pc[w] = "finMark"
    /\ synced' = [synced EXCEPT ![rec[w]] = TRUE]
    /\ Goto(w, "idle")
    /\ UNCHANGED <<confirmed, claim, applied, performed, access, entries,
                   rec, saw, lapses, faults>>

-----------------------------------------------------------------------------
(* The process of w dies, or an exception ends its task, between two of its *)
(* transactions.  What it had committed stays.                              *)
Crash(w) ==
    /\ pc[w] # "idle" /\ Fault
    /\ IF pc[w] \in {"mark", "seal"} THEN Lapse(rec[w]) ELSE UNCHANGED lapses
    /\ Goto(w, "idle")
    /\ UNCHANGED <<record, rec, saw>>

(* 300 seconds pass since the claim was written.  Its writer may be dead,   *)
(* or slow and still at work.                                               *)
ClaimAges(r) ==
    /\ claim[r] = "fresh"
    /\ claim' = [claim EXCEPT ![r] = "stale"]
    /\ IF Pending(r) \union Marking(r) # {} THEN Lapse(r) ELSE UNCHANGED lapses
    /\ UNCHANGED <<confirmed, applied, performed, access, entries, synced,
                   pc, rec, saw, faults>>

-----------------------------------------------------------------------------
(* What a live worker does next when nothing goes wrong. *)
Advance(w) == \/ Perform(w) \/ Mark(w) \/ Seal(w) \/ Release(w)
              \/ SyncAccess(w) \/ FinanceWrite(w) \/ FinanceMark(w)

Failure(w) == \/ PerformFails(w) \/ PerformThenRaise(w) \/ MarkFails(w)
              \/ SealFails(w) \/ SyncAccessFails(w) \/ Crash(w)

Visit(w, r) == \/ Claim(w, r) \/ FetchGift(w, r)
               \/ AccessVisit(w, r) \/ FinanceVisit(w, r)

Next == \/ \E r \in Records : Confirm(r) \/ ClaimAges(r)
        \/ \E w \in Workers : \/ Advance(w) \/ Failure(w)
                              \/ \E r \in Records : Visit(w, r)

Spec == Init /\ [][Next]_vars

(* The timer starts a reconcile pass again and again and a pass tries every *)
(* row it fetched, whatever the other rows did, so no row that stays due is *)
(* skipped for ever; a live reconciler finishes its transactions; time      *)
(* passes.  Handlers get no fairness: a webhook need not be redelivered.    *)
Fairness ==
    /\ WF_vars(Advance(Reconciler))
    /\ \A r \in Records : /\ WF_vars(ClaimAges(r))
                          /\ SF_vars(Claim(Reconciler, r))
                          /\ SF_vars(AccessVisit(Reconciler, r))
                          /\ SF_vars(FinanceVisit(Reconciler, r))

FairSpec == Spec /\ Fairness
-----------------------------------------------------------------------------
TypeOK ==
    /\ confirmed \in Seq(Records)
    /\ claim \in [Records -> {"none", "fresh", "stale"}]
    /\ applied \in [Records -> BOOLEAN]
    /\ performed \in [Records -> Nat]
    /\ access \in [Records -> {"unset", "success", "failed"}]
    /\ entries \in [Records -> Nat]
    /\ synced \in [Records -> BOOLEAN]
    /\ pc \in [Workers -> Steps]
    /\ rec \in [Workers -> Records \union {NoRecord}]
    /\ saw \in [Workers -> Nat]
    /\ lapses \in [Records -> Nat]
    /\ faults \in Nat
    /\ \A w \in Workers : pc[w] # "idle" => rec[w] \in Records

(* A confirmed payment is delivered once, plus at most once more for each   *)
(* time the claim stopped protecting it: a process that died, or failed     *)
(* twice, after the effect and before the marker, an exception behind the   *)
(* effect's commit, or a finalizer slower than the 300 seconds.  Products   *)
(* keyed by payment_record_id are never delivered twice, whatever happens.  *)
BoundedRepeats ==
    \A r \in Records : /\ performed[r] <= 1 + lapses[r]
                       /\ r \in Keyed => performed[r] <= 1

(* A record is marked applied only behind an effect that committed: no      *)
(* interleaving of failing and sealing finalizers loses the buyer's money.  *)
AppliedMeansDelivered == \A r \in Records : applied[r] => performed[r] >= 1

(* Unless the claim lapsed, one worker at most is between claiming a record *)
(* and marking it, and it works under a fresh claim on an unapplied record. *)
ClaimExclusive ==
    \A r \in Records : lapses[r] = 0 =>
        \A v, w \in Pending(r) \union Marking(r) :
            /\ v = w
            /\ claim[r] = "fresh" /\ ~applied[r]

(* finance_synced_at is only ever set behind an income entry in the ledger. *)
SyncedMeansEntered == \A r \in Records : synced[r] => entries[r] >= 1

(* Once a record is marked applied it stays so, and no straggler delivers   *)
(* it again unless its claim had lapsed.                                    *)
AppliedIsFinal ==
    [][\A r \in Records : applied[r] =>
          applied'[r] /\ (performed'[r] = performed[r] \/ lapses[r] > 0)]_vars

(* Every confirmed payment is delivered and marked in the end, whoever dies *)
(* on the way, as long as the reconciler's window reaches it; and it ends   *)
(* converged for good (access synced, income entered), unless two finance   *)
(* syncs have entered the income twice, which makes every later one raise.  *)
EventuallyConverged ==
    \A r \in Records :
        IsConfirmed(r) ~> ([]Converged(r) \/ (applied[r] /\ entries[r] > 1))

(* The transactions of all workers together implement Delivery: a delivery  *)
(* follows the confirmation, a repeated one has its excuse, a marker follows *)
(* a delivery and stays.  Claims, failures and convergence are stuttering.  *)
Promise == INSTANCE Delivery
           WITH due <- {r \in Records : IsConfirmed(r)}, delivered <- performed,
                settled <- applied, excused <- lapses
KeepsPromise == Promise!Spec

(* What bot/payment_flow.py relies on when it reads a claim as "somebody    *)
(* else is delivering": one delivery for one payment.                       *)
EffectOnce == \A r \in Records : performed[r] <= 1
=============================================================================
