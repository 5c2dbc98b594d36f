---------------------------- MODULE AccessSync ----------------------------
(***************************************************************************)
(* The access clock of one user and the expiry its devices have on the     *)
(* nodes (bot/db.py, bot/payment_flow.py, bot/utils/access.py,             *)
(* dashboard/services.py, ops/access_reminders.py).                        *)
(*                                                                         *)
(* Everyone changes the user's row first and brings the nodes up to it     *)
(* afterwards, device by device, with an expiry and a list of devices read *)
(* once.  Payments and trials lock the row, administrators do not.  The    *)
(* worker decides on a user it has loaded before it came to it.            *)
(***************************************************************************)
EXTENDS Naturals, FiniteSets, FiniteSetsExt

CONSTANTS
    Devices,            \* the user's vpn_clients rows at the start, numbers
    Handlers,           \* requests of the bot, the webhooks and the dashboard
    Worker,             \* ops/access_reminders.py, one at a time
    PaidDays, AdminDays, TrialDays,
    Horizon,            \* bound on the clock
    MaxOperations,      \* bound on requests and stages of the worker
    MaxPushFaults,      \* bound on calls of a node that fail
    MaxDeaths           \* bound on requests and passes that die

ASSUME AccessAssumption ==
    /\ Devices \subseteq Nat /\ IsFiniteSet(Devices) /\ Worker \notin Handlers
    /\ PaidDays \in Nat \ {0} /\ AdminDays \in Nat \ {0} /\ TrialDays \in Nat \ {0}

VARIABLES
    now,
    paid, trial,        \* subscription_expires_at, trial_expires_at; 0: None
    trialUsed, paused,  \* paused: trial_channel_unsubscribed_at is set
    blocked,
    flag,               \* vpn_repair_needed
    devices, node,      \* rows; the expiry each device has on its node, 0: off
    op,                 \* each task: where it is, what it carries
    revokedFor,         \* the worker's file: expiry revoked last, pause synced
    pauseDone,
    operations, pushFaults, deaths,
    blame               \* history: why a device may be off the clock unnoticed

user == <<paid, trial, trialUsed, paused, blocked>>
limits == <<operations, pushFaults, deaths>>
file == <<revokedFor, pauseDone>>
accessVars == <<now, user, flag, devices, node, op, file, limits, blame>>

Workers == Handlers \union {Worker}

(* has_active_subscription_from_user, has_trial_window_from_user,           *)
(* get_access_expires_at_from_user                                          *)
PaidActive == ~blocked /\ paid > now
TrialWindow == ~blocked /\ trial > now
TrialPaused == TrialWindow /\ ~PaidActive /\ paused
Exp == IF PaidActive THEN paid ELSE IF TrialWindow /\ ~TrialPaused THEN trial ELSE 0

Free == [step |-> "free", kind |-> "none", exp |-> 0, todo |-> {},
         failed |-> FALSE, again |-> FALSE, paused |-> FALSE]
(* kinds that read the expiry when they sync, that try twice, that go on to *)
(* the routes of the subscription page, that set the repair flag            *)
Reads == {"payment", "dashboard", "repair", "soft"}
Retries == {"payment", "repair", "soft", "resume", "recover"}
Pages == {"payment", "repair", "resume", "pause", "revoke", "recover"}
Flags == {"payment", "dashboard", "repair", "soft"}

AccessInit ==
    /\ now = 1
    /\ \/ paid = 0 /\ trial = 0 /\ trialUsed = FALSE
       \/ paid = 0 /\ trial = 1 + TrialDays /\ trialUsed = TRUE
       \/ paid = 1 + PaidDays /\ trial = 0 /\ trialUsed = FALSE
    /\ paused = FALSE /\ blocked = FALSE /\ flag = FALSE
    /\ devices = (IF paid + trial > 0 THEN Devices ELSE {})
    /\ node = [d \in Devices |-> IF d \in devices THEN paid + trial ELSE 0]
    /\ op = [t \in Workers |-> Free]
    /\ revokedFor = 0 /\ pauseDone = FALSE
    /\ operations = 0 /\ pushFaults = 0 /\ deaths = 0
    /\ blame = [d \in Devices |-> "none"]

-----------------------------------------------------------------------------
SetOp(t, r) == op' = [op EXCEPT ![t] = r]
Sync(t, kind, exp) == SetOp(t, [Free EXCEPT !.step = "look", !.kind = kind, !.exp = exp])
Operation(t) ==
    /\ op[t] = Free
    /\ operations < MaxOperations /\ operations' = operations + 1
    /\ UNCHANGED <<now, node, devices, file, pushFaults, deaths>>

(* Mutant: days are not added to what is left. *)
PayFromNow(t) ==
    /\ Operation(t)
    /\ paid' = now + PaidDays
    /\ Sync(t, "payment", 0)
    /\ UNCHANGED <<trial, trialUsed, paused, blocked, flag, blame>>

(* activate_paid_subscription under the row's lock; a blocked user has no   *)
(* active subscription to add to.                                           *)
Pay(t) ==
    /\ Operation(t)
    /\ paid' = (IF PaidActive THEN paid ELSE now) + PaidDays
    /\ Sync(t, "payment", 0)
    /\ UNCHANGED <<trial, trialUsed, paused, blocked, flag, blame>>

(* extend_subscription_for_user reads the row and writes it without a lock. *)
ExtendRead(t) ==
    /\ Operation(t)
    /\ SetOp(t, [Free EXCEPT !.step = "extend", !.kind = "dashboard", !.exp = paid])
    /\ UNCHANGED <<user, flag, blame>>
ExtendWrite(t) ==
    /\ op[t].step = "extend"
    /\ paid' = (IF op[t].exp > now THEN op[t].exp ELSE now) + AdminDays
    /\ Sync(t, "dashboard", 0)
    /\ UNCHANGED <<now, trial, trialUsed, paused, blocked, flag, devices, node, file,
                   limits, blame>>

(* set_user_block_state *)
SetBlock(t) ==
    /\ Operation(t)
    /\ blocked' = ~blocked
    /\ Sync(t, "dashboard", 0)
    /\ UNCHANGED <<paid, trial, trialUsed, paused, flag, blame>>

(* remove_user_tariff *)
RemoveTariff(t) ==
    /\ Operation(t)
    /\ paid' = 0 /\ trial' = 0 /\ trialUsed' = (trialUsed \/ trial > now)
    /\ Sync(t, "dashboard", 0)
    /\ UNCHANGED <<paused, blocked, flag, blame>>

(* activate_trial: from the dashboard, which syncs the devices, or from the *)
(* bots, which do not.                                                      *)
ActivateTrial(t) ==
    /\ Operation(t)
    /\ ~blocked /\ ~trialUsed /\ paid = 0 /\ Exp = 0
    /\ trial' = now + TrialDays /\ trialUsed' = TRUE /\ paused' = FALSE
    /\ \/ Sync(t, "dashboard", 0) /\ UNCHANGED blame
       \/ /\ UNCHANGED op
          /\ blame' = [d \in Devices |-> IF d \in devices THEN "unsynced" ELSE blame[d]]
    /\ UNCHANGED <<paid, blocked, flag>>

(* repair_user_vpn_access; sync_user_access_state *)
Repair(t) ==
    /\ Operation(t)
    /\ \E kind \in {"repair", "soft"} : Sync(t, kind, 0)
    /\ UNCHANGED <<user, flag, blame>>

-----------------------------------------------------------------------------
(* The worker.  Each stage loads all users and then goes from one to the    *)
(* next: between load and deed anything may have happened to this one.      *)
Pass == Operation(Worker) /\ UNCHANGED <<user, flag, blame>>

(* _revocation_marker_for_user *)
Marker == IF paid # 0 THEN paid ELSE trial

(* _enforce_trial_channel_membership: loads, asks Telegram *)
LoadChannel ==
    /\ Pass /\ TrialWindow /\ ~PaidActive
    /\ SetOp(Worker, [Free EXCEPT !.step = "channel", !.kind = "channel", !.paused = TrialPaused])

(* _revoke_expired_vpn_access *)
LoadRevocation ==
    /\ Pass /\ ~blocked /\ Exp = 0 /\ (trialUsed \/ paid # 0)
    /\ Marker # 0 /\ revokedFor # Marker
    /\ SetOp(Worker, [Free EXCEPT !.step = "look", !.kind = "revoke", !.again = TRUE, !.exp = Marker])

(* _purge_expired_trial_vpn_access *)
LoadPurge ==
    /\ Pass /\ ~blocked /\ trialUsed /\ trial # 0 /\ trial <= now /\ paid = 0
    /\ SetOp(Worker, [Free EXCEPT !.step = "look", !.kind = "purge"])

(* _recover_vpn_repair_needed_users *)
LoadRecovery ==
    /\ Pass /\ flag /\ Exp # 0 /\ devices # {}
    /\ Sync(Worker, "recover", Exp)

(* The member is back: resume_trial_after_channel_resubscribe, and the      *)
(* expiry of the trial goes to the nodes whatever the user has by now.      *)
Resume ==
    /\ op[Worker].step = "channel" /\ op[Worker].paused
    /\ paused' = (IF TrialPaused THEN FALSE ELSE paused)
    /\ Sync(Worker, "resume", trial)
    /\ UNCHANGED <<now, paid, trial, trialUsed, blocked, flag, devices, node, file,
                   limits, blame>>
StillMember ==
    /\ op[Worker].step = "channel" /\ ~op[Worker].paused
    /\ SetOp(Worker, Free)
    /\ UNCHANGED <<now, user, flag, devices, node, file, limits, blame>>

(* The member has left: pause_trial_for_channel_unsubscribe does nothing    *)
(* for a user who has paid, the sync that follows switches them off.        *)
Pause ==
    LET pausing == ~op[Worker].paused /\ TrialWindow /\ ~PaidActive /\ ~paused IN
    /\ op[Worker].step = "channel"
    /\ paused' = (paused \/ pausing)
    /\ pauseDone' = (IF pausing THEN FALSE ELSE pauseDone)
    /\ IF op[Worker].paused /\ pauseDone THEN SetOp(Worker, Free)
       ELSE Sync(Worker, "pause", 0)
    /\ UNCHANGED <<now, paid, trial, trialUsed, blocked, flag, devices, node, revokedFor,
                   limits, blame>>

-----------------------------------------------------------------------------
(* sync_user_vpn_access, sync_user_clients_access: the devices are listed,  *)
(* and for some the expiry is read.  Without access a payment or a repair   *)
(* only sets the flag; a repair of no devices goes to the page alone.       *)
Look(t) ==
    LET k == op[t].kind
        exp == CASE k \in Reads /\ (k = "soft" \/ ~op[t].again) -> Exp
                 [] k = "revoke" -> 0
                 [] OTHER -> op[t].exp
        first == ~op[t].again \/ k = "revoke"
    IN
    /\ op[t].step = "look"
    /\ IF first /\ k \in {"payment", "repair", "soft"} /\ exp = 0
       THEN SetOp(t, Free) /\ flag' = TRUE
       ELSE IF first /\ k \in {"repair", "soft"} /\ devices = {}
       THEN SetOp(t, Free) /\ flag' \in BOOLEAN
       ELSE /\ SetOp(t, [op[t] EXCEPT !.step = "push", !.todo = devices,
                                      !.exp = IF k = "revoke" THEN @ ELSE exp])
            /\ UNCHANGED flag
    /\ UNCHANGED <<now, user, devices, node, file, limits, blame>>

Carried(t) == IF op[t].kind = "revoke" THEN 0 ELSE op[t].exp
PushFault == pushFaults < MaxPushFaults /\ pushFaults' = pushFaults + 1
Unspent == UNCHANGED <<operations, deaths>>

(* One device: its node takes the expiry, or the call fails. *)
Push(t) ==
    LET d == Min(op[t].todo)
        rest == [op[t] EXCEPT !.todo = @ \ {d}]
    IN
    /\ op[t].step = "push" /\ op[t].todo # {} /\ op[t].kind # "purge"
    /\ \/ /\ node' = [node EXCEPT ![d] = Carried(t)]
          /\ blame' = [blame EXCEPT ![d] = IF Carried(t) = Exp THEN "none" ELSE "stale"]
          /\ SetOp(t, rest) /\ UNCHANGED pushFaults
       \/ /\ PushFault /\ SetOp(t, [rest EXCEPT !.failed = TRUE])
          /\ UNCHANGED <<node, blame>>
    /\ UNCHANGED <<now, user, flag, devices, file>> /\ Unspent

(* _purge_expired_trial_device: the node first, then the row. *)
Purge ==
    LET d == Min(op[Worker].todo) IN
    /\ op[Worker].kind = "purge" /\ op[Worker].step = "push" /\ op[Worker].todo # {}
    /\ \/ node' = [node EXCEPT ![d] = 0] /\ devices' = devices \ {d} /\ UNCHANGED pushFaults
       \/ PushFault /\ UNCHANGED <<node, devices>>
    /\ SetOp(Worker, [op[Worker] EXCEPT !.todo = @ \ {d}])
    /\ UNCHANGED <<now, user, flag, file, blame>> /\ Unspent

OffClock(d) == d \in devices /\ node[d] # Exp
Blame(cause) == [d \in Devices |-> IF OffClock(d) THEN cause ELSE blame[d]]

(* What a sync leaves behind.  A payment, the dashboard and a repair set    *)
(* the flag or take it away; the recovery takes it away; the others tell    *)
(* nobody but the worker's file that they failed.                           *)
Outcome(t, failed) ==
    LET k == op[t].kind IN
    /\ flag' = IF k \in Flags THEN failed
               ELSE IF k = "recover" /\ ~failed THEN FALSE ELSE flag
    /\ revokedFor' = IF k = "revoke" /\ ~failed THEN op[t].exp ELSE revokedFor
    /\ pauseDone' = IF k = "pause" THEN ~failed ELSE pauseDone
    /\ blame' = IF ~failed /\ flag /\ k \in Flags \union {"recover"} THEN Blame("cleared")
                ELSE IF failed /\ k \notin Flags \union {"purge"} THEN Blame("silent")
                ELSE blame

(* Mutant: the retry's result is not looked at. *)
SettleUnseen(t) ==
    /\ op[t].step = "push" /\ op[t].todo = {}
    /\ IF op[t].failed /\ op[t].kind \in Retries /\ ~op[t].again
       THEN /\ SetOp(t, [op[t] EXCEPT !.step = "look", !.failed = FALSE, !.again = TRUE])
            /\ UNCHANGED <<flag, file, blame>>
       ELSE /\ SetOp(t, Free)
            /\ flag' = (flag /\ op[t].kind \notin Flags \union {"recover"})
            /\ UNCHANGED <<file, blame>>
    /\ UNCHANGED <<now, user, devices, node, limits>>

(* The end of a sync: the routes of the page may have failed, too; the      *)
(* second try carries the same expiry.                                      *)
Settle(t) ==
    /\ op[t].step = "push" /\ op[t].todo = {}
    /\ \E failed \in {op[t].failed} \union (IF op[t].kind \in Pages THEN {TRUE} ELSE {}) :
          /\ IF failed = op[t].failed THEN UNCHANGED pushFaults ELSE PushFault
          /\ IF failed /\ op[t].kind \in Retries /\ ~op[t].again
             THEN /\ SetOp(t, [op[t] EXCEPT !.step = "look", !.failed = FALSE, !.again = TRUE])
                  /\ UNCHANGED <<flag, file, blame>>
             ELSE SetOp(t, Free) /\ Outcome(t, failed)
    /\ UNCHANGED <<now, user, devices, node>> /\ Unspent

(* The process ends; the rows stay as they are. *)
Die(t) ==
    /\ op[t] # Free
    /\ deaths < MaxDeaths /\ deaths' = deaths + 1
    /\ SetOp(t, Free)
    /\ blame' = Blame("died")
    /\ UNCHANGED <<now, user, flag, devices, node, file, operations, pushFaults>>

(* Time passes.  Behind a subscription that ends a longer trial may come to *)
(* light again: nobody syncs for it.                                        *)
Tick ==
    /\ now < Horizon /\ now' = now + 1
    /\ blame' = IF PaidActive /\ paid = now + 1 /\ trial > paid /\ ~paused
                THEN [d \in Devices |-> IF d \in devices THEN "fellBack" ELSE blame[d]]
                ELSE blame
    /\ UNCHANGED <<user, flag, devices, node, op, file, limits>>

-----------------------------------------------------------------------------
AccessRequest(t) ==
    \/ Pay(t) \/ ExtendRead(t) \/ ExtendWrite(t) \/ SetBlock(t) \/ RemoveTariff(t)
    \/ ActivateTrial(t) \/ Repair(t)
WorkerStep ==
    \/ LoadChannel \/ LoadRevocation \/ LoadPurge \/ LoadRecovery
    \/ Resume \/ StillMember \/ Pause \/ Purge

AccessNext ==
    \/ \E t \in Handlers : AccessRequest(t)
    \/ WorkerStep
    \/ \E t \in Workers : Look(t) \/ Push(t) \/ Settle(t) \/ Die(t)
    \/ Tick

AccessSpec == AccessInit /\ [][AccessNext]_accessVars
-----------------------------------------------------------------------------
(* Paid days are lost in three ways only: an administrator removes the      *)
(* tariff, a payment arrives for a blocked user, an administrator's         *)
(* extension writes over a change made since it read the row.               *)
PaidDaysKept ==
    [][paid' < paid =>
          \/ paid' = 0 /\ trial' = 0
          \/ blocked
          \/ \E t \in Handlers : op[t].step = "extend" /\ op[t].exp # paid]_accessVars

(* When nobody is at work, a device's expiry on its node is the user's, or  *)
(* the user is marked for repair, or one of the following has happened      *)
(* since it last was: a sync carried an older expiry, a sync that sets no   *)
(* mark failed, a trial started without one, another sync took the mark     *)
(* away, a longer trial came back behind a subscription, the process died.  *)
OffClockIsMarked ==
    (\A t \in Workers : op[t] = Free) =>
        \A d \in devices : (node[d] > now \/ Exp > now) /\ node[d] # Exp =>
            flag \/ blame[d] # "none"
=============================================================================
