---------------------------- MODULE AccessRepair ----------------------------
(***************************************************************************)
(* The repairs an administrator starts from the dashboard or the control   *)
(* bot (dashboard/services.py): the manual repair and the soft sync push   *)
(* what the rows say to the nodes, the deep repair issues every device     *)
(* anew - client off, client added, row saved, row described - with a      *)
(* rollback of its own, and syncs behind it.  The user's mark              *)
(* vpn_repair_needed is what is left of a repair that failed.              *)
(*                                                                         *)
(* A node knows one client by an e-mail.  A row in the middle of a         *)
(* reissue names no country: the dashboard reads such a row as one of      *)
(* Germany.  The panel of Germany refuses to add an e-mail twice, and to   *)
(* update a client by a UUID it has not; the answer is not looked at.      *)
(***************************************************************************)
EXTENDS Naturals, FiniteSets, FiniteSetsExt

CONSTANTS
    Devices, Home,      \* of the older kind; the node each was made on
    Staff,              \* who may start a repair
    MaxRepairs, MaxRepairFaults, MaxRepairDeaths   \* bounds

Places == {"de", "dk"}
Kinds == {"manual", "soft", "deep"}

ASSUME RepairAssumption ==
    /\ Devices \subseteq Nat \ {0} /\ Home \in [Devices -> Places]
    /\ \E last \in Devices : \A d \in Devices : d <= last

VARIABLES
    owned, bound, access,   \* the user's devices; phones of the link; access_expires_at
    routes,             \* the link's routes on the nodes: none, as they should be, stale
    api,                \* which of its two interfaces the panel of Germany has
    record,             \* rows: the client's UUID, the node, the UUID of the link, 0: none
    panel,              \* the UUID a node has for a device's e-mail, 0: none
    issued,             \* UUIDs drawn so far
    flag,               \* vpn_repair_needed
    repair,             \* the operations: where each is and what it has in memory
    forgiven,           \* history: devices, or the routes, that are not as they
                        \* should be by one of the exceptions below
    budget              \* repairs, faults and deaths so far

repairVars == <<owned, bound, access, routes, api, record, panel, issued, flag, repair,
                forgiven, budget>>

Whole(d) ==
    /\ record[d].link = record[d].uuid
    /\ \A p \in Places : panel[p][d] = IF p = record[d].place THEN record[d].uuid ELSE 0

None == [step |-> "idle", kind |-> "soft", held |-> <<>>, left |-> {}, new |-> 0, failed |-> FALSE,
         again |-> FALSE, alone |-> TRUE]
AtRest == \A o \in Staff : repair[o].step = "idle"

RepairInit ==
    /\ owned \in SUBSET Devices /\ bound \in BOOLEAN /\ access \in BOOLEAN
    /\ routes \in {"none", "stale"} /\ (owned # {} \/ ~access => routes = "none")
    /\ bound => routes # "none"
    /\ api \in {"inbounds", "clients"}
    /\ record = [d \in Devices |-> [uuid |-> d, place |-> Home[d], link |-> d]]
    /\ panel \in {[p \in Places |-> [d \in Devices |-> IF p = Home[d] /\ d \notin off THEN d ELSE 0]] :
                  off \in SUBSET owned}
    /\ issued = Max(Devices)
    /\ flag = (routes = "stale" \/ \E d \in owned : panel[Home[d]][d] = 0)
    /\ repair = [o \in Staff |-> None]
    /\ forgiven = {}
    /\ budget = [repairs |-> 0, faults |-> 0, deaths |-> 0]

-----------------------------------------------------------------------------
user == <<owned, bound, access, api>>

(* A call is done, or raises, before or behind its effect. *)
Call(x) ==
    /\ x \in {"done", "lost", "fails"}
    /\ IF x = "done" THEN UNCHANGED budget
       ELSE budget.faults < MaxRepairFaults /\ budget' = [budget EXCEPT !.faults = @ + 1]
Took(x) == x # "fails"

View(r) == IF r.link = 0 THEN [r EXCEPT !.place = "de"] ELSE r   \* _device_metadata
Current(o) == Min(repair[o].left)
NodeOf(o) == View(repair[o].held[Current(o)]).place
Put(p, d, u) == [panel EXCEPT ![p][d] = u]

Goto(o, step) == repair' = [repair EXCEPT ![o].step = step]
GoSync(o, again) ==
    repair' = [repair EXCEPT ![o].step = "sync", ![o].held = record, ![o].left = owned,
                             ![o].failed = FALSE, ![o].again = again]
Quit(o) == repair' = [repair EXCEPT ![o] = None]

(* The guards of the three operations: without access, and with nothing to  *)
(* repair, the user is marked.  The soft sync has no eye for the routes.    *)
Begin(o, kind) ==
    LET linked == owned = {} /\ routes # "none" /\ kind # "soft"
        nothing == ~access \/ (owned = {} /\ ~linked /\ ~bound)
        alone == AtRest IN
    /\ repair[o].step = "idle"
    /\ budget.repairs < MaxRepairs /\ budget' = [budget EXCEPT !.repairs = @ + 1]
    /\ flag' = (flag \/ nothing)
    /\ IF nothing THEN UNCHANGED <<repair, forgiven>>
       ELSE /\ repair' = [s \in Staff |->
                 IF s = o THEN [None EXCEPT !.step = IF linked THEN "routes"
                                                     ELSE IF kind = "deep" THEN "delete" ELSE "sync",
                                            !.kind = kind, !.held = record, !.left = owned, !.alone = alone]
                 ELSE [repair[s] EXCEPT !.alone = repair[s].step = "idle"]]
            /\ forgiven' = IF alone THEN forgiven ELSE forgiven \union owned
    /\ UNCHANGED <<user, routes, record, panel, issued>>

(* sync_public_subscription_access with create_missing.  Of the deep repair *)
(* both branches clear the mark.                                            *)
SyncRoutes(o) ==
    /\ repair[o].step = "routes"
    /\ \E x \in {"done", "fails"} :
          /\ Call(x)
          /\ routes' = IF Took(x) THEN "synced" ELSE routes
          /\ flag' = (~Took(x) /\ repair[o].kind # "deep")
          /\ forgiven' = IF Took(x) THEN forgiven \ {"routes"}
                         ELSE IF repair[o].kind = "deep" THEN forgiven \union {"routes"} ELSE forgiven
          /\ IF Took(x) /\ repair[o].kind = "deep" THEN GoSync(o, TRUE) ELSE Quit(o)
    /\ UNCHANGED <<user, record, panel, issued>>

-----------------------------------------------------------------------------
(* _reissue_existing_device                                                 *)
Issued(o, failed) ==
    LET left == repair[o].left \ {Current(o)} IN
    repair' = [repair EXCEPT ![o].left = left, ![o].new = 0, ![o].failed = @ \/ failed,
                             ![o].step = IF left = {} THEN "judge" ELSE "delete"]

(* The first deletion is outside the try: nothing is undone.                *)
DeleteRemote(o) ==
    /\ repair[o].step = "delete"
    /\ \E x \in {"done", "lost", "fails"} :
          /\ Call(x)
          /\ panel' = IF Took(x) THEN Put(NodeOf(o), Current(o), 0) ELSE panel
          /\ IF x = "done" THEN Goto(o, "add") ELSE Issued(o, TRUE)
    /\ UNCHANGED <<user, routes, record, issued, flag, forgiven>>

AddReplacement(o) ==
    LET refused == NodeOf(o) = "de" /\ panel["de"][Current(o)] # 0 IN
    /\ repair[o].step = "add"
    /\ issued' = issued + 1
    /\ \E x \in {"done", "lost", "fails"} :
          /\ Call(x)
          /\ panel' = IF Took(x) /\ ~refused THEN Put(NodeOf(o), Current(o), issued + 1) ELSE panel
          /\ repair' = [repair EXCEPT ![o].new = issued + 1,
                                      ![o].step = IF x = "done" /\ ~refused THEN "save" ELSE "restore"]
    /\ UNCHANGED <<user, routes, record, flag, forgiven>>

(* The row gets the new UUID and loses its description.  When the save      *)
(* raises the client is taken off again, or not.                            *)
SaveReplacement(o) ==
    LET d == Current(o) IN
    /\ repair[o].step = "save"
    /\ \E x \in {"done", "fails"} :
          /\ Call(x)
          /\ record' = IF Took(x) THEN [record EXCEPT ![d] = [uuid |-> repair[o].new, place |-> NodeOf(o), link |-> 0]]
                       ELSE record
          /\ panel' \in IF Took(x) THEN {panel} ELSE {panel, Put(NodeOf(o), d, 0)}
          /\ Goto(o, IF Took(x) THEN "describe" ELSE "restore")
    /\ UNCHANGED <<user, routes, issued, flag, forgiven>>

(* build_vless_metadata raises before the handler knows of the new client:  *)
(* neither the client nor the row is put back.                              *)
DescribeReplacement(o) ==
    /\ repair[o].step = "describe"
    /\ \E x \in {"done", "fails"} : Call(x) /\ Goto(o, IF Took(x) THEN "write" ELSE "restore")
    /\ UNCHANGED <<user, routes, record, panel, issued, flag, forgiven>>

WriteMetadata(o) ==
    LET d == Current(o) IN
    /\ repair[o].step = "write"
    /\ \E x \in {"done", "fails"} :
          /\ Call(x)
          /\ record' = IF Took(x) THEN [record EXCEPT ![d].place = NodeOf(o), ![d].link = repair[o].new] ELSE record
          /\ IF Took(x) THEN Issued(o, FALSE) ELSE Goto(o, "cleanup")
    /\ UNCHANGED <<user, routes, panel, issued, flag, forgiven>>

(* _delete_remote_state_snapshot, then the row as it was read.              *)
CleanUp(o) ==
    /\ repair[o].step = "cleanup"
    /\ \E x \in {"done", "fails"} :
          /\ Call(x)
          /\ panel' = IF Took(x) THEN Put(NodeOf(o), Current(o), 0) ELSE panel
    /\ Goto(o, "revert")
    /\ UNCHANGED <<user, routes, record, issued, flag, forgiven>>

(* Two transactions: the row as it was, with its description as it was; the *)
(* description as it was read.                                              *)
RevertRecord(o) ==
    LET d == Current(o)
        old == repair[o].held[d] IN
    /\ repair[o].step = "revert"
    /\ \E x \in {"done", "lost", "fails"} :
          /\ Call(x)
          /\ record' = IF Took(x) THEN [record EXCEPT ![d] = IF x = "done" THEN View(old) ELSE old] ELSE record
    /\ Goto(o, "restore")
    /\ UNCHANGED <<user, routes, panel, issued, flag, forgiven>>

(* sync_vless_client_expiry and _upsert_client: an absent client is added,  *)
(* another one is replaced, but by the older interface of Germany's panel.  *)
Pushed(p, d, u) ==
    IF panel[p][d] # 0 /\ p = "de" /\ api = "inbounds" THEN panel ELSE Put(p, d, u)

(* _restore_device_remote_state.  A client added anew to a panel has the    *)
(* row described as it was read.                                            *)
RestoreRemote(o) ==
    LET d == Current(o)
        old == View(repair[o].held[d]) IN
    /\ repair[o].step = "restore"
    /\ \E x \in {"done", "lost", "fails"} :
          /\ Call(x)
          /\ panel' = IF Took(x) THEN Pushed(old.place, d, old.uuid) ELSE panel
          /\ record' = IF x = "done" /\ old.place = "de" /\ panel["de"][d] = 0
                       THEN [record EXCEPT ![d].place = "de", ![d].link = old.link] ELSE record
          /\ Issued(o, TRUE)
    /\ UNCHANGED <<user, routes, issued, flag, forgiven>>

Judged(o, failed) ==
    LET displaced == {d \in owned : Home[d] # "de" /\ repair[o].held[d].link = 0} IN
    /\ repair[o].step = "judge"
    /\ flag' = failed
    /\ IF failed THEN Quit(o) ELSE GoSync(o, TRUE)
    /\ forgiven' = (IF failed \/ ~repair[o].alone THEN forgiven
                    ELSE forgiven \ {d \in owned : Home[d] = "de"}) \union displaced
    /\ UNCHANGED <<user, routes, record, panel, issued, budget>>

(* Mutant: one device put right is enough. *)
JudgeByOne(o) ==
    Judged(o, repair[o].failed /\ \A d \in owned : record[d].uuid = repair[o].held[d].uuid)
JudgeReissue(o) == Judged(o, repair[o].failed)

-----------------------------------------------------------------------------
(* _sync_single_device_access; the manual repair reads the row as it is.    *)
SyncDevice(o) ==
    LET d == Current(o)
        r == repair[o].held[d]
        seen == IF repair[o].kind = "manual" THEN r ELSE View(r) IN
    /\ repair[o].step = "sync" /\ repair[o].left # {}
    /\ \E x \in {"done", "lost", "fails"} :
          /\ Call(x)
          /\ panel' = IF Took(x) THEN Pushed(seen.place, d, seen.uuid) ELSE panel
          /\ record' = IF x = "done" /\ seen # r THEN [record EXCEPT ![d].place = "de", ![d].link = 0] ELSE record
          /\ repair' = [repair EXCEPT ![o].left = @ \ {d}, ![o].failed = @ \/ x # "done"]
    /\ UNCHANGED <<user, routes, issued, flag, forgiven>>

(* A failed sync is repeated once, but behind a deep repair.                *)
RetrySync(o) ==
    /\ repair[o].step = "sync" /\ repair[o].left = {}
    /\ repair[o].failed /\ ~repair[o].again
    /\ GoSync(o, TRUE)
    /\ UNCHANGED <<user, routes, record, panel, issued, flag, forgiven, budget>>

EndSync(o) ==
    LET failed == repair[o].failed
        deep == repair[o].kind = "deep" IN
    /\ repair[o].step = "sync" /\ repair[o].left = {} /\ (failed => repair[o].again)
    /\ flag' = (failed \/ (deep /\ flag))
    /\ forgiven' = IF failed \/ deep THEN forgiven
                   ELSE forgiven \union {d \in owned : ~Whole(d)}
                                 \union (IF routes = "stale" THEN {"routes"} ELSE {})
    /\ Quit(o)
    /\ UNCHANGED <<user, routes, record, panel, issued, budget>>

(* The process dies: of a reissue nothing is left to say so.                *)
RepairDies(o) ==
    /\ repair[o].step # "idle"
    /\ budget.deaths < MaxRepairDeaths /\ budget' = [budget EXCEPT !.deaths = @ + 1]
    /\ forgiven' = IF repair[o].step \in {"sync", "routes"} THEN forgiven ELSE forgiven \union owned
    /\ Quit(o)
    /\ UNCHANGED <<user, routes, record, panel, issued, flag>>

RepairStep(o) ==
    \/ SyncRoutes(o) \/ DeleteRemote(o) \/ AddReplacement(o) \/ SaveReplacement(o)
    \/ DescribeReplacement(o) \/ WriteMetadata(o) \/ CleanUp(o) \/ RevertRecord(o)
    \/ RestoreRemote(o) \/ JudgeReissue(o) \/ SyncDevice(o) \/ RetrySync(o) \/ EndSync(o)
    \/ RepairDies(o)
RepairNext ==
    \E o \in Staff : RepairStep(o) \/ \E kind \in Kinds : Begin(o, kind)

RepairSpec == RepairInit /\ [][RepairNext]_repairVars
-----------------------------------------------------------------------------
(* Between repairs a user without the mark has every device whole: the row, *)
(* its link and the node of the row name one client and no other node has   *)
(* one - whatever a repair's calls did, and although every later sync is    *)
(* taken by its word.  Exceptions: two repairs at a time; a process that    *)
(* died in a reissue; a sync that took a refused update or a row without a  *)
(* link for success; a row that had lost its country; and, of a user with a *)
(* link only, routes the soft sync never looks at and the deep repair       *)
(* clears the mark of.  A deep repair that goes through alone puts a        *)
(* device of Germany right after any of them.                               *)
ClearedIsWhole ==
    AtRest /\ ~flag =>
        /\ \A d \in owned : Whole(d) \/ d \in forgiven
        /\ routes = "stale" => "routes" \in forgiven
=============================================================================
