# Formal models of amonora

amonora sells VPN access through Telegram bots, a landing site and a dashboard.
A buyer pays (Platega, a manual transfer an administrator confirms, Telegram
Stars, CryptoPay, or the balance), the payment delivers something (access for
some months, a balance top-up, a device slot, a gift code), and the access
becomes clients in the panels and configurations of VPN nodes. All of it is
asyncio Python around one PostgreSQL database; the bots, the landing, the
dashboard and the timer jobs are separate processes that share nothing else.

This directory holds TLA+ models of the parts where an interleaving, a crash or
a half-failed operation decides whether a user gets what was paid for or asked
for, TLC configurations that check them on small instances, and TLAPS proofs for
every instance. `PROJECT.json` maps each definition to the lines it translates,
lists under `hazards` what is hard to test in this code, line by line, and under
`findings` where the code does something its authors say it does not.

## Inventory

| Component | Its state | Hard because | Correct when | Module |
|---|---|---|---|---|
| Payment delivery (`bot/payment_flow.py`, the claim in `bot/db.py`, `dashboard/finance.py`) | effect, access and finance keys in a record's metadata; income entries | claim, effect, marker, access sync and income entry are transactions of their own; the claim has no owner and lapses after 300 s | nothing marked that was not delivered; no repeat while the claim protects; everything converges | `PaymentEffect` |
| Payment records and balance (`bot/db.py`, `bot/platega_flow.py`, `bot/manual_payments.py`, `dashboard/services.py`) | status, amounts, reserves; `balance_rub`, `balance_reserved_rub` | three writers read without a lock and write later; callbacks precede records | balance never below its reserve; no price exceeded; a confirmation stays | `PaymentRecords` |
| Device lifecycle and compensation queue (`dashboard/services.py`, `bot/router.py`, `bot/device_compensation.py`, `bot/vpn_api.py`) | `vpn_clients`, the panel's client, `device_compensation_jobs` | no transaction spans database and panel; answers are lost or not looked at; jobs carry old snapshots | row and client agree or a job is responsible; jobs end | `DeviceLifecycle` |
| Access clock (`bot/db.py`, `bot/utils/access.py`, `bot/payment_flow.py`, `ops/access_reminders.py`) | trial and paid expiry, pause, mark for repair; expiry on the nodes | stale expiry and device lists across node calls; administrators take no lock | paid days stay; a device off the clock is marked | `AccessSync` |
| Public subscription (`bot/public_subscription.py`) | routes, links, bound devices, the clients of routes | one JSON column holds the link and the binding, unlocked syncs write it back | one device per slot; limits; a row has its client | `SubscriptionSlots` |
| Referral rewards (`bot/db.py`) | rewards, balances | three row locks; not every route rewards | one reward; balance is the ledger | `ReferralRewards` |
| Promo codes (`backend/core/promo_codes.py`) | redemptions, counts, discounts on payments | a lock per code, none per user; two transactions | days as redeemed; a discount follows a payment | `PromoCodes` |
| Watchdog and control events (`ops/server_watchdog.py`, `control_bot/dispatcher.py`) | incident file, events, cooldown | the file is written last | alarms match the file; users hear the end | `NodeWatch` |
| User deletion (`dashboard/services.py`) | job row, devices, clients | undoing behind a commit; creations meanwhile | a failed deletion is undone; orphans have a cause | `UserDeletion` |
| Xray node, single-IP enforcer (`bot/vpn_provisioning.py`, `ops/xray_single_ip_enforcer.py`) | the configuration file, leases | unlocked read-modify-write over SSH | no update lost without an overlap; places kept | `XrayNode` |
| Client bot, purchases (`bot/router.py`, `bot/platega_flow.py`) | bills, keyboards in the chat | taps overlap; look and open are two transactions | twins have a cause; a review is announced | `Checkout` |
| Support bot (`support_bot/`) | ticket, owner, cards | handlers store what they read before Telegram calls | owners are asked; messages are heard | `SupportDesk` |
| Campaigns and triggers (`control_bot/storage.py`, `control_bot/messaging.py`, `ops/access_reminders.py`) | campaigns, deliveries, trigger log | bot and timer dispatch alike, without a lock | sent once; a test stays with its tester | `Broadcasts` |
| Channel posts (`control_bot/channel_content.py`) | items, posts | the status stands in for a lock across calls | posted as approved, once | `ChannelPosts` |
| Analytics rollups (`backend/core/analytics.py`) | event ledger, daily and hourly rows, cursors | windows begin at instants, rows are days; runs overlap | rows count what is on record | `AnalyticsRollups` |
| Dashboard repairs (`dashboard/services.py`) | rows, clients, mark for repair | delete, add, save, describe, each with its rollback | an unmarked user has whole devices | `AccessRepair` |
| Landing and webhooks (`landing/main.py`) | none of its own | | | its calls are handlers of `PaymentEffect`, callbacks of `PaymentRecords`, routes of `ReferralRewards` |
| Pages, queries, sign-in and audit of the dashboard; menus and status screens of the bots; test bot; schema; front ends; n8n exports | read models, texts | | | not modelled |

The components meet in the database and on the nodes. A payment opened on a
screen (`Checkout`) is a record with a reserve (`PaymentRecords`); confirmed, it
is delivered (`PaymentEffect`), which sets the clock (`AccessSync`), consumes a
discount (`PromoCodes`) and rewards a referrer (`ReferralRewards`). The clock is
brought to devices (`DeviceLifecycle`), routes (`SubscriptionSlots`) and, on the
Xray node, to a file (`XrayNode`); what fails leaves a mark an administrator
repairs (`AccessRepair`) or a job the timer works off. Each module takes the
steps of its neighbours as single actions; `MCAccess` runs the clock beside the
slots.

## Modules

`Delivery` is the abstract specification that `PaymentEffect` implements, `Purse` the
one that `PaymentRecords` does. The proof modules are `PaymentEffectProofs` (with the refinement), `PaymentRecordsProofs` and
`DeviceLifecycleProofs`, one for each, `AccessProofs` (`AccessSync`,
`SubscriptionSlots`), `ServiceProofs` (`ReferralRewards`, `PromoCodes`,
`UserDeletion`, `XrayNode`, `NodeWatch`), `CheckoutProofs` (`Checkout`), `BotsProofs`
(`SupportDesk`, `Broadcasts`, `ChannelPosts`) and `OfficeProofs`
(`AnalyticsRollups`, `AccessRepair`). `MCPayments`, `MCAccess`, `MCServices` and
`MCBots` put several components side by side: a behaviour is about one of them,
the others rest, so that one run covers all without multiplying their states.

Operators named as mutants in their comments are not used by any specification:
each is a plausible bug of the operator that follows it, and breaks a property.
Variables commented "history" are not state of the program: they record that an
excuse a property names has happened. Each excuse is there because TLC finds a
behaviour without it. Where the excuse is the hazard itself (its "note" under
`hazards` says so), the property does not promise that the hazard stays away: it
says that nothing else has the same effect.

### PaymentEffect

One action is one database transaction. `Workers` are the handlers and the
reconciler; each runs `finalize_*_payment` for one record at a time, at the step
`pc` says. `claim`, `applied`, `access` and `synced` are the metadata keys of the
record (`effect_processing_at`, `effect_applied_at`, `access_sync_state`,
`finance_synced_at`); a claim is "fresh" or, after `ClaimAges`, older than 300 s.
`performed` counts the commits of the effect's own transaction: subscriptions
and top-ups add to what is there, device slots and gifts are keyed by
`payment_record_id` (`Keyed`). `PerformFails`, `PerformThenRaise`, `MarkFails`,
`SealFails` are the `except` branches in their order; `Crash` ends a process
between two transactions. `FetchGift` is the gift finalizer's way of answering
"already applied" and "in progress" by creating the code if it is missing. The
reconciler sees only the `Window` oldest confirmed records, converged or not
(`list_confirmed_payment_records_needing_full_reconcile`). `FinanceVisit`,
`FinanceWrite`, `FinanceMark` are the income sync: a read without a lock, an
insert, the marker. `lapses` is a history variable: how often the claim stopped
protecting a record.

`Delivery` knows no workers and no claims: a payment that is due is delivered and
then settled, and a further delivery needs an excuse. `Promise` in
`PaymentEffect` instantiates it with the confirmed records, `performed`,
`applied` and `lapses`.

Abstracted: what the effect computes (one counted step), messages.

### PaymentRecords

`amount`, `res`, `app` are the record's amount, `balance_reserved_amount` and
`balance_applied_amount`; `asked` is what Platega was asked to collect when the
payment was quoted. Every locked writer is one action; a cancellation, an "I have
paid" and a sweep are two, `Read...` and `Write`, and `hand` is what they carry
from one to the other. The sweep runs at the start of nearly every function that
reads payments; here it is a writer of its own. `OpenByCallback` is the record
made for a transaction nobody knows.

What a payment brings in is `Collected`: what Platega was asked to collect,
whatever the record made afterwards says. `OpenProvider` reserves under a fresh
look at the balance, so that bill and reserve need not add up to the price;
`moved` keeps the difference, and `NeverOvercharged` and `SettledInFull` hold to
the rouble with it. That the buyer is never asked for more than the price -
`MoneyIsTheRest`, which the purchase screen says - is violated. `freed` is what a
record gave back before it was confirmed, by which `SettledInFull` lets it go
unpaid; `loose` are records that came apart from their reserve.

`Purse` is what the balance promises whoever writes: it grows by credits, shrinks
only by settling a payment, by what that payment is charged with and never above
its price, and no more is set aside than there is. `PaymentRecords` instantiates it
with `balance`, `reserved`, `app` and the confirmed records.

Abstracted: one buyer; amounts are small naturals, and credits (top-ups and
rewards) are units; Stars and CryptoPay records have no balance part.

### DeviceLifecycle

One action is one transaction or one panel call. A call that fails may have been
carried out (`CallFails`); a call the panel refuses with `success = false` passes
for done where the caller does not look (`CallRefused`). `stage` follows a
creation through provisioning, the handler's metadata update, cleanup and
enqueueing; `dpc` a deletion, from the bot (`Users`) or the dashboard (`Admins`);
`wpc` the worker of the queue, `batch` and `cur` the jobs it has claimed.
Jobs are identified by device and action, as `_enqueue_device_compensation_job`
does: a re-enqueued job resets its attempts, so that the rows of a finished and
of a new job are one element here. `Lapsed` are devices whose owner's access has
ended: their client is off and the snapshot of a job has no expiry. The module
follows `bot/router.py`, the router the bot includes; the older package
`bot/handlers` is imported by tests only.

Abstracted: the 3x-ui panel with VLESS; the worker claims at most ten jobs and
there are never that many here; one worker, because the timer's unit is a
oneshot.

### AccessSync

`paid`, `trial`, `paused`, `blocked`, `flag` are columns of the user, `Exp` is
`get_access_expires_at_from_user`, `node` the expiry a device has on its node.
Payments and trials (`Pay`, the trial actions) change the row under its lock; an
administrator's extension is a read and a write. Whoever has changed the row goes
over the devices with the expiry and the list read once, one push at a time, and
settles: mark, clear or nothing, as the caller does. The worker of
`ops/access_reminders.py` loads a user and decides later: pause, resume, revoke,
purge. `revokedFor` and `pauseDone` are its state file. `blame` names, per
device, why it may be off the clock without a mark.

Abstracted: time is a few ticks, a month one of them; the messages of the worker.

### SubscriptionSlots

`route` is a row per slot and country: its link and the device bound to the slot;
`client` says which routes have a client on their node. Bindings are claimed,
confirmed and cleared under the user's lock; the access sync and the provisioning
sync read all rows, call node after node and write each column back. On a 3x-ui
node the e-mail of a route is fixed and cannot be added twice; on the Xray node
an upsert replaces. `legacy` devices count against the same limit. The row and the
link in its metadata are two transactions: `undescribed` (history) are rows whose
creator failed or died between them. No later sync of all slots mends such a row,
so `RoutesMatchPanel` says of a row without a link that it is one of these or has
its creator still at it, and of a 3x-ui row that its client is there and its link
no other client's. On the Xray node a second provisioning replaces the first
one's client, and a row may name another: there only the first half is said.

Abstracted: the link of the page and its rotation, the rendered feed, traffic.

### ReferralRewards and PromoCodes

`fin` is a handler behind a delivered payment: it locks the record, the invited
user and the referrer, in this order, and decides under the locks; when two wait
for each other PostgreSQL ends one (`aborts`). The reconciler and the CryptoPay
route deliver without rewarding. `overwritten` are balances
`get_referral_dashboard` wrote over. `PromoCodes` has the redemption under the
code's lock, its days in a second transaction, the discount a payment is opened
with (`order[o].discount`) and consumed by when delivered.

Abstracted: amounts of rewards and discounts; administration of codes.

### NodeWatch

A pass of the watchdog reads its file, goes from node to node - event, message to
administrators, messages to users, memory - and writes the file at the end.
`open`, `sentAt` are the control bot's events with their deduplication by key,
resolution, cooldown and night hours. A muted node's alarm is stored only.

### UserDeletion

The devices are listed and go off their nodes one by one (`RemoveClient`: done;
refused with an answer nobody looks at; or raising, the answer perhaps lost), then
all rows in one transaction; on failure the devices taken off are put back or
queued (`PutBack`), and the job row says which stage was reached. `restores` and
`tries` are the restore jobs of the queue: claimed, run, completed; released for
another attempt or, at `MaxRestoreTries`, given up; left processing for good when
the worker dies or completing raises ("stuck"). One job serves a device at a
time, so a device queued while an earlier job has put it back and is not
completed (`merged`) gets nothing. The user may create another device meanwhile;
a row saved behind the listing (`unlisted`) is deleted with the others while its
client stays.

Abstracted: the back-off times; the snapshot of a job (identity and expiry do not
change here).

### XrayNode

`saver` is a bot, the dashboard or the enforcer: load, change, write the
temporary file, replace, restart. `lease` is the enforcer's state file: an
address has a place of an e-mail as long as it is seen, and `config.rules` lets
through the places' addresses. The enforcer replaces the configuration before it
writes its leases: `ahead` (history) says that it has done the first and stopped
before the second, which the next pass that goes through makes good.

### Checkout

A tap on a payment method is a task of several transactions: look for an open
bill, reuse or open one, ask Platega, show it. `keyboards` is every bill a screen
has offered, because a keyboard stays in the chat. `bills[i].seen` is history:
how many bills there were when the flow looked. The check of a Platega bill, "I
have paid", the cancellation and the administrators' review are tasks as well.

### SupportDesk

The ticket with its cards, owner and status; handlers of messages
(`message`) and of administrators (`desk`), each with the ticket it read (`saw`).
A card Telegram refuses to edit is dropped from the list, and the list is stored
as the handler read it.

### Broadcasts and ChannelPosts

A dispatch goes over the deliveries it has listed, sends and records one at a
time; the bot and the timer do so alike. A trigger campaign is created,
dispatched and logged in three steps. The pending list of the timer contains tests:
`TestStaysWithTester` is violated. `ChannelPosts` has every transition of an
item's status with the call of the model or of Telegram between two of them;
`approved` are the texts an administrator has seen and approved.

### AnalyticsRollups

`at` is the `occurred_at` of each recorded event, `rolled[t][d]` the events the
rows of a table and a date count. A run (of the timer, of the operator with
`--backfill` and `--full-refresh`, or spawned by an event, at most one in 30 s)
loads its window, replaces the rows of every date in it, table by table, then the
cohorts, then moves the cursor and prunes; the hourly part does the same with the
control bot's events. A commit may come a tick after its `occurred_at`. `cut` is
what a replacement left out because the window began behind it.

Abstracted: what the rows compute from their events (the set is kept instead).

### AccessRepair

`Begin` is the guards of the manual repair, the soft sync and the deep repair. A
deep repair takes each device through `_reissue_existing_device`: `DeleteRemote`,
`AddReplacement`, `SaveReplacement`, `DescribeReplacement`, `WriteMetadata`, and
on an exception `CleanUp`, `RevertRecord`, `RestoreRemote`, from the step at which
the code knows of the replacement. `RevertRecord` is two transactions, the row and
its metadata, each of which may fail. `record` is a row: UUID, node, link; `panel`
the UUID a node has for the e-mail. `forgiven` are devices under one of the
excuses of `ClearedIsWhole`.

Abstracted: VLESS on a 3x-ui panel (either of its two interfaces) and on the
second country's node; the routes of the link are one value.

## Runs

| Run | Shows | Instance |
|---|---|---|
| `Payments` | `BoundedRepeats`, `AppliedMeansDelivered`, `ClaimExclusive`, and the refinement of `Delivery` (`KeepsPromise`); `NeverOvercharged`, `ReservesBacked`, `SettledInFull`, and the refinement of `Purse` (`KeepsPurse`) | a subscription and a gift, two handlers and the reconciler, two faults; a manual and a Platega payment on a balance too small for both, one credit, two unlocked writers |
| `PaymentEffectLive` | `EventuallyConverged` | one payment, a subscription or a gift (`MaxConfirmed` is 1), one unfair handler, the fair reconciler, two faults |
| `PaymentEffectOnce` | violated: one payment, one delivery | as the first half of `Payments` |
| `PaymentRecordsDemoted` | violated: a confirmed payment is not demoted | one manual payment, one writer |
| `PaymentRecordsOvercharged` | violated: money and balance make up the price (`MoneyIsTheRest`) | one Platega payment, one credit |
| `DeviceLifecycle` | `FailureIsCovered`, `FinalizedIsWhole`, `JobsEnd` (fair) | one device created, deleted from both sides, repaired; four faults, a crash, two attempts |
| `DeviceLifecycleDeferred` | violated: a deferred cleanup happens | an existing device, one dashboard deletion, one fault |
| `DeviceLifecycleStale` | violated: jobs of a dead worker are retaken | the same and a crash |
| `Access` | `OffClockIsMarked`, `PaidDaysKept`; `BindingsExclusive`, `DevicesWithinLimit`, `RoutesMatchPanel` | one device, two requests and the worker; two countries of two slots, two phones, one sync |
| `Services` | `OneRewardEach`, `BalanceIsLedger`, `FirstPaymentRewarded`; `DaysAsRedeemed`, `DiscountFollowsPayment`; `AlarmsMatchFile`, `UsersHearTheEnd`, `AlarmsSpaced`; `FailedDeletionUndone`, `OrphansExplained`; `ConfigAsOrdered`, `PlacesKept` | two users and three payments; three codes; a loud and a muted node; two devices and a late one, four failed or refused calls, two attempts of the queue, a death; two e-mails and two addresses |
| `Bots` | `TwinsExplained`, `ReviewIsAnnounced`; `OwnersAreAsked`, `MessagesAreHeard`; `SentOnce`; `PostedAsApproved`, `PostedOnce`; `DaysAsRecorded`, `HoursAsRecorded`; `ClearedIsWhole` | two handlers, three taps, two bills; two administrators and two messages; a composer and the timer, two users, two campaigns; two posts, two runners; three events, two alarms, two tables, three runs of which two overlap; a device on each node, two administrators, three repairs |
| `BotsTestLeak` | violated: a test stays with its tester | the same instance; the shortest behaviour has one test and one pass of the timer |

A property that names excuses is as strong as its excuses are few: what is left
is what the code does guarantee through every interleaving and failure of the
instance. Two examples: `OffClockIsMarked` lists every way by which a device can
end up with another expiry than its owner and nobody be told; `SentOnce` says
that only an overlap, a lost record or a trigger without a log sends twice.

Why the bounds are enough: the races of `PaymentEffect` are between a worker that
holds a claim, one that takes it over and one that gives it back, hence three
workers, and the longest excuse for a repeat takes two failures (mark, then
seal). In `PaymentRecords` a stale writer can only hurt a reserve when another
record still has one, hence two payments that do not both fit the balance (a
partial reserve) and two writers (one per path of the race). In
`DeviceLifecycle` every repair path takes at most three failures and one more to
fail the retry; two attempts reach both the back-off and the limit. In the other
modules every race is between two tasks on one row or file, so two of each, and a
failure, a lost answer and a death in one behaviour. Where a third is needed it
is there: three payments (a first one that loses its confirmation, one that
becomes the first, one of the other user), three taps (two that overlap and one
on what they left), three events (one before the window, one that moves the
cursor, one that makes the next refresh replace that day), three repairs (one
that leaves a row bare, one that misreads it, one that clears the mark). What the
bounds leave open for the safety properties the proofs close. The comment at the
top of each `.cfg` names its instance. What is left out for size is in `MCBots`: a
purchase stays within two products (`InLine`), a behaviour of the rollups is about
one of three cases (`InRollup`), and repairs, faults and deaths together are at
most four, three for a user with two devices (`InRepair`). In `Services` the
queue has two attempts of the code's many, which reach release, retry and
giving up, and four failed calls, enough to fail a deletion, its undoing, and
both attempts.

`CHECK_DEADLOCK FALSE` everywhere: a system in which every payment is settled or
every device is created, deleted and repaired, and whose budget of faults, runs
or taps is spent, has nothing left to do.

### Fairness

`PaymentEffect`: the reconcile stage is part of
`ops/systemd/amonora-access-reminders.timer`, started every five minutes, and a
pass tries every row it has fetched, whatever the others did: strong fairness
per record for the reconciler's visits, weak fairness for what it does next and
for the passage of 300 s. Handlers get none: a webhook need not be redelivered.
`DeviceLifecycle`: weak fairness for the worker (the same timer), for a started
creation and a started deletion while their process lives, and for back-off
times to pass; `JobsEnd` excuses what a dead process left behind. The other
modules promise nothing in the end: nothing forces a buyer to pay, an
administrator to answer or repair, a campaign to be sent again, and the rollups
and alarms are stated at the end of a run instead.

### What the violations show

* `PaymentEffectOnce`: `activate_paid_subscription` commits and then writes
  conversions and a control event; when one raises, the caller releases the claim
  of a delivered payment and the next finalizer delivers again. `BoundedRepeats`
  says how far it can go: once more per lapse.
* `PaymentRecordsDemoted`: a cancellation or an "I have paid" read before the
  confirmation and written after it takes the confirmation back. That only such a
  stale read can is the theorem `ConfirmedOnlyLostToStaleReads`.
* `PaymentRecordsOvercharged`: the balance is credited after Platega was asked
  for what it left of the price and before the record is made; the record
  reserves what the bill asks for already, and the confirmation debits it. By how
  much at most is `NeverOvercharged`.
* `DeviceLifecycleDeferred`: the cleanup a dashboard deletion queues is a
  *restore* job, so the client of the deleted device comes back.
* `DeviceLifecycleStale`: the 900 s stale lock is consulted only for pending
  jobs, which have none; a job left "processing" also blocks new ones.
* `BotsTestLeak`: the timer lists a test whose delivery is not on file yet and makes
  deliveries for the audience of its scope.

`PROJECT.json` lists further findings without a run of their own: places where an
excuse of a passing property is a behaviour the authors did not intend. They are
reproduced by dropping that excuse (`BindingsExclusive` without `revived` shows
the sync that brings a cleared binding back, `DaysAsRecorded` without `cut` the
refresh that forgets half of a day, and so on).

## Proofs

TLAPS proves every property a passing run checks, but the two liveness
properties, for every set of records, workers, users, devices and nodes, every
price, limit and length of time, and every bound. Each theorem rests on an
inductive invariant, for hardly any property is inductive alone:

* `PaymentEffectProofs`: type correctness; `AppliedMeansDelivered` and
  `SyncedMeansEntered`, inductive once one adds the workers about to set the
  marker (`Delivered`, `Entered`); `BoundedRepeats`, `ClaimExclusive` and
  `AppliedIsFinal` from `RepeatInv`. A delivery to come must be paid for
  beforehand, so `Budget` adds to what was delivered the workers that may still
  deliver and the claim somebody could take, and `Covered` says an unmarked
  delivery has lapsed or has a worker about to mark it. The argument counts
  workers, hence the lemmas on cardinalities. `ImplementsDelivery`: every step is a
  step of `Delivery` or stutters. The excuse of a delivery comes from `Budget`, the
  payment that is due from `WorkIsDue` (a worker only ever holds a confirmed
  record).
* `PaymentRecordsProofs`: in `MoneyInv` solvency makes a new reserve a natural
  number, an unopened record has cost nothing (`Unopened`), Platega is not asked
  for more than the price (`AskedInPrice`) and no record says more than the price
  (`RowInPrice`), which together keep `Solvent`. `Made` ties the money collected to
  the record: they differ by what the balance moved in between; with `RowInPrice`
  it gives `NeverOvercharged`. `BookInv` adds that while nothing has come apart the account's
  reserve is the sum of the records' (`ReservesBacked`) and a payment with what it has
  given back adds up to its price (`WholePrice`), that a deleted one reserves
  nothing (`Gone`), and that a stale writer only has payments in hand that were
  opened (`Handy`); with `Made` it gives `SettledInFull`. `Sum` is a fold of the community
  modules: the lemmas above it say what one changed value, or a set of values
  dropped to zero, does to a sum.
  `ImplementsPurse`: every step is a step of `Purse` or stutters. A reserve fits what
  is free (`Solvent`), a confirmation takes from the balance what it adds to the
  record and no more than the price leaves (`RowInPrice`), a payment made from
  the balance at once has cost nothing before (`Unopened`), and a stale writer, who
  may take confirmations back, never touches the balance.
  `ConfirmedIsGuarded` follows from the guards.
* `DeviceLifecycleProofs`: `QueueInv` gives `ClaimIsHeld` and `GivenUpAtLimit`; it
  adds that the batch and the job in hand are disjoint, that a claimed job has
  attempts left, and when the worker has a job in hand. `CoverInv` gives
  `FailureIsCovered`: it adds which stages of a creation may have a row at all.
  `ChannelInv` says who may touch a device (deletions and restore jobs only those
  somebody has started to delete, finalize jobs only those whose creation failed);
  on top of it `WholeWhenDone` records what each step of a finalize job has
  established for the next, and yields `FinalizedIsWhole`.
* `AccessProofs`. `AccessInv`: a device whose expiry on its node is off the clock is
  one the user is marked for, one whose cause is on record, or one a task at work
  will still come to, because it has yet to look or the device is on its list.
  `SlotInv`: a row, once there, stays, and no reading of it is ahead of it
  (`SeenIsThere`); on a 3x-ui panel one task at a time is between creating a
  client and writing its row (`OneCreates`); a phone has one slot and a slot one
  phone unless a sync has brought a binding back (`Exclusive`); a 3x-ui row has its
  client and no other's link (`Panelled`), and a row without a link somebody
  still to describe it, or on record as one who could not (`Linked`). `DevicesWithinLimit`
  is an action property: a request that takes a slot counts the slots in use under
  the lock, and no sync adds one.
* `ServiceProofs`.
  - Rewards: a transaction locks the rows it reads and no two hold one row
    (`Locked`), so what it carries is still so when it writes (`Holds`); `Owing` says
    that while no payment has lost its confirmation only the payer's first has a
    reward, or somebody at work on it.
  - Promo codes: `Vouchers` ties each discount to one payment both ways, `Requests`
    says who still has days to credit, `Careful` that a user whose requests never
    overlapped has one pending discount at most.
  - User deletion: `Accounted` (every client without a row is one under creation or
    one of the explained ones, and while devices are taken off, those in the list
    and the unlisted are all there are) and `Answered` (each row of a user who is
    there has its client, a restore job - to be run, given up or hanging -, its turn
    to be put back, or an excuse), kept by every step of deletion, queue and creation.
  - Xray node: `NodeInv` says that as long as nobody met another at the file one
    task at most is at work, what it carries is what it wants of the configuration as
    it is, and once written the temporary file is that; and but for a pass that
    stopped behind the replace the rules are those of the leases (`RulesFiled`). `PlaceInv` holds whoever
    meets whom: the configuration, the temporary file, the leases and what each task
    carries keep to the limit, no lease is newer than an unread line, and what the
    enforcer carries has everybody in who is in on file and still seen. The leases
    are a fold over the log; `RenewalsKeep` says that what each line keeps, the fold
    keeps.
  - Node watch: within a pass the control bot and the users are told before the
    pass's memory changes. `WatchInv` follows the node in hand through these steps
    and says who is ahead of what in each; `Spacing` adds that the date of an
    alarm's last message is on its open event, but between message and commit.
* `CheckoutProofs`: bills only fade (`Fades`: none is reopened, none changes product,
  method or price), so what a flow passed by when it looked stays passed by
  (`SeenBefore`, `FlowOK`); hence a twin was opened behind the back of a flow that
  had looked before (`TwinsExplained`).
* `BotsProofs`. `ChannelInv`: who asks the model or talks to Telegram has the item by
  its status and no other has (`HeldByOne`), an item not being published has no post
  that is not accounted for (`Counted`), and what a runner carries (`Carried`).
  `SupportInv`: what a handler may have judged of the ticket it has read
  (`Judged`), and that of a message nobody has heard the cards on file and those
  still to be sent make up all administrators (`OnItsWay`). `BroadcastInv`: one
  dispatch of a campaign at a time and one delivery for each person unless an
  overlap is on record (`Orderly`), a message that is out is recorded or in the
  hands of the dispatch that sent it (`Recorded`), and a second campaign of a
  trigger only after one that raised or died (`Triggers`).
* `OfficeProofs`. Rollups: of each fact on record the row has it, or history says what
  cut it off, or the next window begins before it; a run has read what lies in its
  window but what came with the tick, and the days it has read and not written are
  still to do (`DayInv`, and `HourInv` for alarms with the cursor that is wound
  back). Repairs: `RepairInv` lets an operation that is not alone forgive
  everything (`Crowded`) and says of the one that is alone what it has read
  (`ReadRight`) and how far each device is (`Reissued`); a device of another node is
  seen in Germany only by who has its row without a link (`Abroad`); and without the
  mark and without an operation at work every device is whole (`Marked`).

Assumptions: the named `ASSUME`s of the modules, which TLC evaluates in every
run. They give constants their types, keep names apart (a worker is no handler, the
enforcer no saver), and say:

* some sets are finite, because a proof counts them or takes a last one: handlers,
  records, redeemers, subscribers, phones, devices of the clock and of a deletion, nodes; of
  the devices of a repair there is a last (`RepairAssumption`);
* devices and nodes are numbers where the code works them off in order of their id;
* prices, thresholds, periods and limits that the code floors or ships as positive are
  positive; a day and an hour of the rollups are longer than one unit of time.

Theorems without a run, for their statements are plain once proved: type
correctness, `Solvent` (a fact of `Purse`), `ClaimIsHeld`, `GivenUpAtLimit`, `AppliedIsFinal`,
`SyncedMeansEntered`, `ConfirmedIsGuarded`, `Base` of the rollups.

Induction over sets and folds (sums, logs, largest and least elements) is not done by
the library's induction theorems, which take an operator as a parameter, but by
the least element of a set of counterexamples (`LeastExists`, from `WFMin`), which is
why each proof module that needs it begins with that lemma.

Only model-checked: `EventuallyConverged` and `JobsEnd`, which are liveness under
fairness and out of this prover's reach, and the six violations.

## Not modelled, and why

* `bot/handlers`: kept and tested, but `bot/main.py` includes `bot/router.py`
  alone. The test bot is a copy of the client bot for administrators.
* Status pages, menus, guides, texts and the rendering of links and feeds; pages,
  queries and audit of the dashboard; sign-in. They read, or change one row in one
  transaction. Together with schema, front ends and workflow exports they are the
  larger part of the repository, which is why the map names about a sixth of its
  lines.
* `reconcile_vpn_clients` and `ops/vpn_regions.py`: the first has no caller but
  tests, the second is run by hand, one device after the other, with nobody to
  race. `migrate_server_region_access` (`dashboard/services.py`) selects users by
  `managed_server_id`, which nothing sets.
* What the analytics rows compute, attribution, log heuristics of triggers, log
  rotation of the enforcer, traffic figures.
* Telegram Stars and CryptoPay records, which have no balance part, and the list
  of seen callback signatures of Platega (`bot/platega_flow.py`), which spares
  repeated work: a repeated confirmation is skipped only once its effect is applied.

What a next step would add: an abstract queue that the compensation jobs implement,
and the composition of `AccessSync` with `AccessRepair` on one panel.
