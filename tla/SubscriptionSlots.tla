------------------------- MODULE SubscriptionSlots -------------------------
(***************************************************************************)
(* The slots of the subscription page of one user                          *)
(* (bot/public_subscription.py, bot/db.py, apps/client/routes.py).         *)
(*                                                                         *)
(* A slot has a route in every country: a client on a node and a row that  *)
(* holds its link and, in the same JSON column, the device bound to the    *)
(* slot.  Bindings are made and cleared under the user's row lock.  The    *)
(* syncs that bring routes to the nodes take no lock: they read all rows,  *)
(* talk to one node after the other, and write each row's column back as   *)
(* they read it, the binding included.                                     *)
(***************************************************************************)
EXTENDS Naturals, Sequences, FiniteSets, FiniteSetsExt

CONSTANTS
    Countries,          \* PUBLIC_SUBSCRIPTION_COUNTRY_CODES, in their order
    Visible,            \* the country the feed serves
    XrayCountries,      \* nodes that are an Xray core; the others are 3x-ui
    MaxSlots,           \* bound on the device limit
    Phones,             \* devices that ask for the feed
    Syncers,            \* payments, page views and repairs that sync all routes
    MaxLegacy,          \* bound on devices of the older kind
    MaxRuns,            \* bound on requests and syncs
    MaxChanges,         \* bound on what the owner, time and administrators change
    MaxNodeFaults,      \* bound on calls that fail
    MaxSlotCrashes,     \* bound on syncs that die
    NoPhone

CountrySet == {Countries[i] : i \in DOMAIN Countries}
Slots == 1..MaxSlots
Keys == CountrySet \X Slots
Tasks == Phones \union Syncers

ASSUME SlotAssumption ==
    /\ MaxSlots \in Nat \ {0} /\ Visible \in CountrySet
    /\ IsFiniteSet(Phones) /\ NoPhone \notin Phones /\ Phones \intersect Syncers = {}

VARIABLES
    route,              \* the rows: status, link, bound device
    client,             \* routes whose e-mail has a client on its node
    access,             \* "active"; "lapsed": an expiry in the past; "gone"
    limit,              \* get_device_limit_for_user
    legacy,             \* vpn_clients rows, which count against the limit
    task,               \* each request or sync: where it is, what it carries
    runs, changes, nodeFaults, slotCrashes,
    revived,            \* history: slots a stale write bound to a device
    undescribed         \* history: rows whose creator stopped before their link

owner == <<access, limit, legacy>>
bounds == <<runs, changes, nodeFaults, slotCrashes>>
slotHistory == <<revived, undescribed>>
slotVars == <<route, client, owner, task, bounds, slotHistory>>

NoRoute == [status |-> "none", link |-> "none", bound |-> NoPhone]
Rows == [status : {"none", "active", "disabled", "broken"},
         link : {"none", "own", "other"}, bound : Phones \union {NoPhone}]

Idle == [step |-> "idle", todo |-> <<>>, whole |-> FALSE, create |-> FALSE,
         live |-> FALSE, lim |-> 0, seen |-> [k \in Keys |-> NoRoute],
         fresh |-> FALSE, next |-> "idle"]

SlotInit ==
    /\ \/ route = [k \in Keys |-> NoRoute]
       \/ \E d \in Phones \union {NoPhone} :
             route = [k \in Keys |-> [status |-> "active", link |-> "own",
                                     bound |-> IF k[2] = 1 THEN d ELSE NoPhone]]
    /\ client = {k \in Keys : route[k] # NoRoute}
    /\ access = "active" /\ limit = MaxSlots /\ legacy = 0
    /\ task = [t \in Tasks |-> Idle]
    /\ runs = 0 /\ changes = 0 /\ nodeFaults = 0 /\ slotCrashes = 0
    /\ revived = {} /\ undescribed = {}

-----------------------------------------------------------------------------
NodeFault == nodeFaults < MaxNodeFaults /\ nodeFaults' = nodeFaults + 1
SetTask(t, r) == task' = [task EXCEPT ![t] = r]
Unlimited == UNCHANGED <<runs, changes, slotCrashes>>
Run == runs < MaxRuns /\ runs' = runs + 1 /\ UNCHANGED <<changes, nodeFaults, slotCrashes>>

Held(s) == {route[<<c, s>>].bound : c \in CountrySet} \ {NoPhone}
Occupied == {s \in Slots : Held(s) # {}}
InUse == legacy + Cardinality(Occupied)

(* _desired_public_slot_count_for_user: a lapsed owner keeps slots, though  *)
(* _sync_expiry_for_user has no expiry for them.                            *)
Desired == IF access = "gone" THEN 0 ELSE limit

(* The order of the loops over countries and slots. *)
KeysOf(slots) ==
    LET n == Len(slots) IN
    [i \in 1..(Len(Countries) * n) |->
        <<Countries[((i - 1) \div n) + 1], slots[((i - 1) % n) + 1]>>]

(* What a sync starts from: the owner and all rows, read once. *)
Reading(t, slots, all, create, after) ==
    [step |-> "sync", todo |-> KeysOf(slots), whole |-> all, create |-> create,
     live |-> access = "active", lim |-> task[t].lim,
     seen |-> [k \in Keys |-> IF k[2] \in {slots[i] : i \in DOMAIN slots}
                              THEN route[k] ELSE NoRoute],
     fresh |-> FALSE, next |-> after]

(* sync_public_subscription_access: after a payment, from the dashboard,    *)
(* when a page is opened.                                                   *)
StartSync(t) ==
    /\ t \in Syncers /\ task[t].step = "idle"
    /\ \E create \in BOOLEAN :
          SetTask(t, Reading(t, [i \in 1..Desired |-> i], TRUE, create, "idle"))
    /\ Run
    /\ UNCHANGED <<route, client, owner, slotHistory>>

Dropped(t) ==
    LET h == task[t] IN
    IF Len(h.todo) = 1
    THEN IF h.next = "idle" THEN Idle
         ELSE [Idle EXCEPT !.step = h.next, !.lim = h.lim]
    ELSE [h EXCEPT !.step = "sync", !.todo = Tail(h.todo),
                   !.seen[Head(h.todo)] = NoRoute, !.fresh = FALSE]

-----------------------------------------------------------------------------
(* One route of a sync.  A row the sync did not see is provisioned; the     *)
(* sync of all slots takes a row without a link for no row at all.          *)
Missing(h, k) == h.seen[k] = NoRoute \/ (h.whole /\ h.seen[k].link = "none")

EmptyLoop(t) ==
    /\ task[t].step = "sync" /\ task[t].todo = <<>>
    /\ SetTask(t, IF task[t].next = "idle" THEN Idle
                  ELSE [Idle EXCEPT !.step = task[t].next, !.lim = task[t].lim])
    /\ UNCHANGED <<route, client, owner, bounds, slotHistory>>

PassOver(t) ==
    LET h == task[t] IN
    /\ h.step = "sync" /\ h.todo # <<>>
    /\ Missing(h, Head(h.todo)) /\ ~(h.create /\ h.live)
    /\ SetTask(t, Dropped(t))
    /\ UNCHANGED <<route, client, owner, bounds, slotHistory>>

(* Mutant: the rollback runs for a refused e-mail, too. *)
ProvisionRollsBack(t) ==
    LET h == task[t]
        k == Head(h.todo)
    IN
    /\ h.step = "sync" /\ h.todo # <<>> /\ Missing(h, k) /\ h.create /\ h.live
    /\ \/ /\ k \in client => k[1] \in XrayCountries
          /\ client' = client \union {k}
          /\ SetTask(t, [h EXCEPT !.step = "save"])
       \/ /\ k \in client /\ k[1] \notin XrayCountries
          /\ SetTask(t, Dropped(t)) /\ client' = client \ {k}
    /\ UNCHANGED <<route, owner, nodeFaults, slotHistory>> /\ Unlimited

(* _provision_public_route: the e-mail of a route is always the same.  A    *)
(* 3x-ui panel refuses it a second time, an Xray core replaces its client.  *)
Provision(t) ==
    LET h == task[t]
        k == Head(h.todo)
    IN
    /\ h.step = "sync" /\ h.todo # <<>> /\ Missing(h, k) /\ h.create /\ h.live
    /\ \/ /\ k \in client => k[1] \in XrayCountries
          /\ client' = client \union {k}
          /\ SetTask(t, [h EXCEPT !.step = "save"]) /\ UNCHANGED nodeFaults
       \/ /\ k \in client /\ k[1] \notin XrayCountries
          /\ SetTask(t, Dropped(t)) /\ UNCHANGED <<client, nodeFaults>>
       \/ NodeFault /\ SetTask(t, Dropped(t)) /\ UNCHANGED client
    /\ UNCHANGED <<route, owner, slotHistory>> /\ Unlimited

(* create_public_subscription_route under the user's lock: somebody else's  *)
(* row is taken as it is, though it names another client.                   *)
SaveRoute(t) ==
    LET h == task[t]
        k == Head(h.todo)
    IN
    /\ h.step = "save"
    /\ \/ /\ SetTask(t, [h EXCEPT !.step = "describe", !.fresh = route[k] = NoRoute])
          /\ route' = IF route[k] = NoRoute
                      THEN [route EXCEPT ![k].status = "active"] ELSE route
          /\ UNCHANGED <<client, nodeFaults>>
       \/ NodeFault /\ client' = client \ {k} /\ SetTask(t, Dropped(t))
          /\ UNCHANGED route
    /\ UNCHANGED <<owner, slotHistory>> /\ Unlimited

(* The metadata of the new client replaces the column of the row. *)
DescribeRoute(t) ==
    LET h == task[t]
        k == Head(h.todo)
        r == [status |-> "active", link |-> IF h.fresh THEN "own" ELSE "other",
              bound |-> NoPhone]
    IN
    /\ h.step = "describe"
    /\ \/ /\ route' = [route EXCEPT ![k] = r]
          /\ SetTask(t, [h EXCEPT !.step = "sync", !.seen[k] = r])
          /\ UNCHANGED <<undescribed, nodeFaults>>
       \/ /\ NodeFault /\ SetTask(t, Dropped(t)) /\ undescribed' = undescribed \union {k}
          /\ UNCHANGED route
    /\ UNCHANGED <<client, owner, revived>> /\ Unlimited

Synced(h, k) == [status |-> IF h.live THEN "active" ELSE "disabled",
                 link |-> IF h.seen[k].link = "none" THEN "own" ELSE h.seen[k].link,
                 bound |-> h.seen[k].bound]

(* _sync_public_route: the node, which shows nothing of it here, then       *)
(* update_public_subscription_route without a lock: the whole column, or    *)
(* the status alone when the node fails.                                    *)
WriteRoute(t) ==
    LET h == task[t]
        k == Head(h.todo)
    IN
    /\ h.step = "sync" /\ h.todo # <<>> /\ ~Missing(h, k)
    /\ \/ /\ route' = [route EXCEPT ![k] = Synced(h, k)]
          /\ client' = IF h.live THEN client \union {k}
                       ELSE IF k[1] \in XrayCountries THEN client \ {k} ELSE client
          /\ revived' = IF h.seen[k].bound \in {NoPhone, route[k].bound} THEN revived
                        ELSE revived \union {k[2]}
          /\ UNCHANGED nodeFaults
       \/ /\ NodeFault /\ route' = [route EXCEPT ![k].status = "broken"]
          /\ UNCHANGED <<client, revived>>
    /\ SetTask(t, Dropped(t))
    /\ UNCHANGED <<owner, undescribed>> /\ Unlimited

SyncCrash(t) ==
    /\ task[t].step # "idle"
    /\ slotCrashes < MaxSlotCrashes /\ slotCrashes' = slotCrashes + 1
    /\ SetTask(t, Idle)
    /\ undescribed' = IF task[t].step = "describe" THEN undescribed \union {Head(task[t].todo)}
                      ELSE undescribed
    /\ UNCHANGED <<route, client, owner, runs, changes, nodeFaults, revived>>

-----------------------------------------------------------------------------
(* A device asks for the feed: bind_public_subscription_request_slot reads  *)
(* the owner and the rows.                                                  *)
Ask(p) ==
    /\ p \in Phones /\ task[p].step = "idle" /\ access = "active"
    /\ SetTask(p, [Idle EXCEPT !.step = "bind", !.lim = limit, !.seen = route])
    /\ Run
    /\ UNCHANGED <<route, client, owner, slotHistory>>

(* Mutants: only slots count against the limit; a device that has the first *)
(* slot is not recognised.                                                  *)
FreeSlotsOfPage(lim) ==
    IF Cardinality(Occupied) >= lim THEN {}
    ELSE {s \in Slots : /\ s <= lim /\ s \notin Occupied
                        /\ \E c \in CountrySet : route[<<c, s>>] # NoRoute}
OwnSlotForgotten(p) == {s \in Slots : Held(s) = {p} /\ s > 1}

FreeSlots(lim) ==
    IF InUse >= lim THEN {}
    ELSE {s \in Slots : /\ s <= lim /\ s \notin Occupied
                        /\ \E c \in CountrySet : route[<<c, s>>] # NoRoute}
OwnSlot(p) == {s \in Slots : p \in Held(s)}

(* _first_recoverable_public_slot_index, from the rows read at first. *)
Recoverable(h) ==
    {s \in Slots : s <= h.lim /\ \A c \in CountrySet : h.seen[<<c, s>>].bound = NoPhone}

(* bind_public_subscription_device_slot: the user and all rows locked. *)
Bind(p) ==
    LET h == task[p]
        found == IF OwnSlot(p) # {} THEN OwnSlot(p) ELSE FreeSlots(h.lim)
        s == Min(found)
    IN
    /\ p \in Phones /\ h.step \in {"bind", "bindAgain"}
    /\ IF found # {}
       THEN /\ route' = [k \in Keys |-> IF k[2] = s /\ route[k] # NoRoute
                                        THEN [route[k] EXCEPT !.bound = p] ELSE route[k]]
            /\ SetTask(p, [Idle EXCEPT !.step = "feed", !.lim = s])
       ELSE /\ SetTask(p, IF h.step = "bind" /\ Recoverable(h) # {}
                          THEN [Idle EXCEPT !.step = "recover", !.lim = h.lim,
                                            !.todo = <<Min(Recoverable(h))>>]
                          ELSE Idle)
            /\ UNCHANGED route
    /\ UNCHANGED <<client, owner, bounds, slotHistory>>

(* sync_public_subscription_slot_access for the slot to recover. *)
Recover(p) ==
    LET h == task[p] IN
    /\ h.step = "recover"
    /\ SetTask(p, IF h.todo[1] <= Desired
                  THEN Reading(p, h.todo, FALSE, TRUE, "bindAgain")
                  ELSE [Idle EXCEPT !.step = "bindAgain", !.lim = h.lim])
    /\ UNCHANGED <<route, client, owner, bounds, slotHistory>>

(* get_public_subscription_feed_payload: the slot is synced first unless    *)
(* its visible route is active.                                             *)
Feed(p) ==
    LET s == task[p].lim IN
    /\ task[p].step = "feed"
    /\ SetTask(p, IF s > Desired \/ route[<<Visible, s>>].status = "active" THEN Idle
                  ELSE Reading(p, <<s>>, FALSE, TRUE, "idle"))
    /\ UNCHANGED <<route, client, owner, bounds, slotHistory>>

-----------------------------------------------------------------------------
(* What the owner, time and administrators change. *)
Change == /\ changes < MaxChanges /\ changes' = changes + 1
          /\ UNCHANGED <<runs, nodeFaults, slotCrashes>>

(* clear_public_subscription_device_slot_binding *)
Clear(s) ==
    /\ s \in Occupied /\ Change
    /\ route' = [k \in Keys |-> IF k[2] = s THEN [route[k] EXCEPT !.bound = NoPhone]
                                ELSE route[k]]
    /\ UNCHANGED <<client, owner, task, slotHistory>>

(* create_vpn_client, a deletion *)
AddDevice ==
    /\ InUse < limit /\ legacy < MaxLegacy /\ Change
    /\ legacy' = legacy + 1
    /\ UNCHANGED <<route, client, access, limit, task, slotHistory>>
RemoveDevice ==
    /\ legacy > 0 /\ Change
    /\ legacy' = legacy - 1
    /\ UNCHANGED <<route, client, access, limit, task, slotHistory>>

(* Access ends, is paid for, is taken away; extra slots come and expire. *)
ChangeAccess ==
    /\ \E a \in {"active", "lapsed", "gone"} \ {access} : access' = a
    /\ Change
    /\ UNCHANGED <<route, client, limit, legacy, task, slotHistory>>
ChangeLimit ==
    /\ \E n \in Slots \ {limit} : limit' = n
    /\ Change
    /\ UNCHANGED <<route, client, access, legacy, task, slotHistory>>

-----------------------------------------------------------------------------
SyncStep(t) == \/ EmptyLoop(t) \/ PassOver(t) \/ Provision(t) \/ SaveRoute(t)
               \/ DescribeRoute(t) \/ WriteRoute(t)
Request(p) == Ask(p) \/ Bind(p) \/ Recover(p) \/ Feed(p) \/ SyncStep(p)

SlotNext ==
    \/ \E t \in Syncers : StartSync(t) \/ SyncStep(t)
    \/ \E p \in Phones : Request(p)
    \/ \E t \in Tasks : SyncCrash(t)
    \/ \E s \in Slots : Clear(s)
    \/ AddDevice \/ RemoveDevice \/ ChangeAccess \/ ChangeLimit

SlotSpec == SlotInit /\ [][SlotNext]_slotVars
-----------------------------------------------------------------------------
(* Until a sync writes an old binding back, a slot has one device and a     *)
(* device one slot, although syncs erase bindings country by country        *)
(* (bind_public_subscription_device_slot under the lock).                   *)
BindingsExclusive ==
    revived = {} =>
        /\ \A s \in Slots : Cardinality(Held(s)) <= 1
        /\ \A r, s \in Slots : Held(r) \intersect Held(s) # {} => r = s

(* Until then no device is taken in beyond the limit: the one in force, or  *)
(* for a binding the one its request read.  Devices and slots share it      *)
(* (create_vpn_client and the binding count both under the user's lock).    *)
DevicesWithinLimit ==
    [][(InUse' > InUse /\ revived' = {}) =>
          \/ InUse' <= limit
          \/ \E p \in Phones : task'[p] # task[p] /\ InUse' <= task[p].lim]_slotVars

(* A row has a link but while its creator is between row and link, or when  *)
(* that one failed or died there: create_public_subscription_route and the  *)
(* metadata are two transactions, and a sync of all slots does not mend     *)
(* such a row.  On a 3x-ui node every row has its client on the panel and   *)
(* the link it has is that client's, whichever syncs overlap, fail or die;  *)
(* of an Xray core that is not said: it replaces the client of a route it   *)
(* already has, and the row may then name another one.                      *)
RoutesMatchPanel ==
    \A k \in Keys : route[k] # NoRoute =>
        /\ k[1] \notin XrayCountries => k \in client /\ route[k].link # "other"
        /\ \/ route[k].link # "none" \/ k \in undescribed
           \/ \E t \in Tasks : task[t].step = "describe" /\ Head(task[t].todo) = k
=============================================================================
