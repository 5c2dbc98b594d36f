------------------------------ MODULE XrayNode ------------------------------
(***************************************************************************)
(* The configuration file of the Xray node.  The bots and the dashboard    *)
(* read it over SSH, change the clients and write it back                  *)
(* (bot/vpn_provisioning.py); the enforcer of the address limit, a timer   *)
(* on the node, does the same with the routing rules                       *)
(* (ops/xray_single_ip_enforcer.py).  Nobody locks it, and all write it by *)
(* way of the same temporary file.                                         *)
(***************************************************************************)
EXTENDS Naturals, Sequences, FiniteSets, FiniteSetsExt, SequencesExt

CONSTANTS
    Mails,              \* managed e-mails, each of one device
    Addresses,
    Whitelist,          \* pairs of e-mail and address that do not count
    Savers,             \* requests that change clients
    Enforcer,
    MaxAddresses,       \* --max-devices
    LeaseTime,          \* --lease-seconds
    LastMoment, MaxSaves, MaxSeen, MaxNodeStops, \* bounds
    NoFile

ASSUME NodeAssumption ==
    /\ Whitelist \subseteq Mails \X Addresses /\ Enforcer \notin Savers
    /\ MaxAddresses \in Nat \ {0} /\ LeaseTime \in Nat \ {0}

VARIABLES
    config,             \* the clients and, by e-mail, the addresses let through
    tmp,                \* the temporary file
    wanted,             \* clients as the saves that succeeded have left them
    unsure,             \* history: e-mails whose last save failed after the replace
    saver,              \* each task: where it is, the configuration it carries
    lease,              \* the enforcer's file: when each address was last seen
    log,                \* access log lines it has not read yet
    moment,
    saves, seenLines, stops,
    ahead,              \* history: the enforcer has replaced the configuration
                        \* and not filed the leases since
    overlapped          \* history: two tasks were at the file at a time

nodeVars == <<config, tmp, wanted, unsure, saver, lease, log, moment, saves, seenLines, stops,
              ahead, overlapped>>

Tasks == Savers \union {Enforcer}
NoLease == [m \in Mails |-> [a \in Addresses |-> 0]]
Away == [step |-> "away", mail |-> NoFile, on |-> FALSE, conf |-> NoFile, lease |-> NoLease, lines |-> 0]

NodeInit ==
    /\ config = [clients |-> Mails, rules |-> [m \in Mails |-> {}]]
    /\ tmp = NoFile /\ wanted = Mails /\ unsure = {}
    /\ saver = [t \in Tasks |-> Away]
    /\ lease = NoLease /\ log = <<>> /\ moment = LeaseTime + 1
    /\ saves = 0 /\ seenLines = 0 /\ stops = 0 /\ ahead = FALSE /\ overlapped = FALSE

-----------------------------------------------------------------------------
Enter(t, r) == /\ saver' = [saver EXCEPT ![t] = r]
               /\ overlapped' = (overlapped \/ \E u \in Tasks \ {t} : saver[u] # Away)

(* Mutant: a client that is switched off takes the others along. *)
UpsertedAlone(m, on) == [config EXCEPT !.clients = IF on THEN @ \union {m} ELSE {}]
(* _upsert_client *)
Upserted(m, on) == [config EXCEPT !.clients = IF on THEN @ \union {m} ELSE @ \ {m}]

(* The e-mail is as this save has ordered it. *)
Ordered(m, on) == /\ wanted' = (IF on THEN wanted \union {m} ELSE wanted \ {m})
                  /\ unsure' = unsure \ {m}

(* provision, sync and delete_vless_client: load, change, save if changed.  *)
(* A provisioned client has a new UUID, which always is a change.           *)
LoadConfig(t, m, on, provision) ==
    /\ t \in Savers /\ saver[t] = Away
    /\ saves < MaxSaves /\ saves' = saves + 1
    /\ provision => on
    /\ IF Upserted(m, on) = config /\ ~provision
       THEN Ordered(m, on) /\ UNCHANGED <<saver, overlapped>>
       ELSE /\ Enter(t, [Away EXCEPT !.step = "write", !.mail = m, !.on = on, !.conf = Upserted(m, on)])
            /\ UNCHANGED <<wanted, unsure>>
    /\ UNCHANGED <<config, tmp, lease, log, moment, seenLines, stops, ahead>>

WriteTmp(t) ==
    /\ saver[t].step = "write"
    /\ tmp' = saver[t].conf
    /\ saver' = [saver EXCEPT ![t].step = "swap"]
    /\ UNCHANGED <<config, wanted, unsure, lease, log, moment, saves, seenLines, stops, ahead, overlapped>>

(* os.replace takes whatever the temporary file is by now; it fails when    *)
(* another task has taken it.                                               *)
Replace(t) == /\ config' = (IF tmp = NoFile THEN config ELSE tmp) /\ tmp' = NoFile
              /\ ahead' = (ahead \/ (t = Enforcer /\ tmp # NoFile))
              /\ UNCHANGED <<lease, log, moment, saves, seenLines, overlapped>>
Swap(t) ==
    LET s == saver[t] IN
    /\ s.step = "swap" /\ Replace(t)
    /\ IF t = Enforcer \/ tmp = NoFile THEN UNCHANGED <<wanted, unsure>> ELSE Ordered(s.mail, s.on)
    /\ saver' = [saver EXCEPT ![t] = IF t = Enforcer /\ tmp # NoFile
                                     THEN [s EXCEPT !.step = "file"] ELSE Away]
    /\ UNCHANGED stops

(* The core does not come up again: the save raises, the file stays. *)
RestartFails(t) ==
    /\ saver[t].step = "swap" /\ tmp # NoFile /\ Replace(t)
    /\ stops < MaxNodeStops /\ stops' = stops + 1
    /\ unsure' = IF t = Enforcer THEN unsure ELSE unsure \union {saver[t].mail}
    /\ saver' = [saver EXCEPT ![t] = Away]
    /\ UNCHANGED wanted

-----------------------------------------------------------------------------
Alive(f, at) == {a \in Addresses : f[a] # 0 /\ f[a] + LeaseTime >= at}
Counted(m, f, at) == {a \in Alive(f, at) : <<m, a>> \notin Whitelist}

(* Mutant: the newcomer gets in, the one seen longest ago has to go. *)
LeasedToNewcomer(m, f, l) ==
    LET g == [a \in Addresses |-> IF a \in Alive(f, l.at) THEN f[a] ELSE 0] IN
    IF l.address \in Alive(f, l.at) \/ Cardinality(Counted(m, f, l.at)) < MaxAddresses
    THEN [g EXCEPT ![l.address] = l.at]
    ELSE LET old == CHOOSE a \in Counted(m, f, l.at) : \A b \in Counted(m, f, l.at) : f[a] <= f[b]
         IN  [g EXCEPT ![l.address] = l.at, ![old] = 0]

(* One line: an address that is in, or white, is renewed; another gets in   *)
(* while there is room.                                                     *)
Leased(m, f, l) ==
    LET g == [a \in Addresses |-> IF a \in Alive(f, l.at) THEN f[a] ELSE 0] IN
    IF \/ <<m, l.address>> \in Whitelist \/ l.address \in Alive(f, l.at)
       \/ Cardinality(Counted(m, f, l.at)) < MaxAddresses
    THEN [g EXCEPT ![l.address] = l.at] ELSE g

(* update_leases: the lines in their order, each for its own e-mail; what   *)
(* has lapsed in the end goes.                                              *)
LeasedIf(m, f, l) == IF l.mail = m THEN Leased(m, f, l) ELSE f
Renewed(m) ==
    LET last == FoldLeft(LAMBDA f, l : LeasedIf(m, f, l), lease[m], log)
    IN  [a \in Addresses |-> IF a \in Alive(last, moment) THEN last[a] ELSE 0]
Rules(f) == [m \in Mails |-> {a \in Addresses : f[m][a] # 0}]

(* run_once: the log and the configuration are read; the configuration is   *)
(* written when the rules have changed.                                     *)
Enforce ==
    LET f == [m \in Mails |-> Renewed(m)]
        c == [config EXCEPT !.rules = Rules(f)]
    IN
    /\ saver[Enforcer] = Away /\ saves < MaxSaves /\ saves' = saves + 1
    /\ Enter(Enforcer, [Away EXCEPT !.step = IF c = config THEN "file" ELSE "write",
                                    !.conf = c, !.lease = f, !.lines = Len(log)])
    /\ UNCHANGED <<config, tmp, wanted, unsure, lease, log, moment, seenLines, stops, ahead>>

(* The leases and the offset in the log, in one file. *)
FileLeases ==
    LET s == saver[Enforcer] IN
    /\ s.step = "file"
    /\ lease' = s.lease /\ log' = SubSeq(log, s.lines + 1, Len(log))
    /\ saver' = [saver EXCEPT ![Enforcer] = Away] /\ ahead' = FALSE
    /\ UNCHANGED <<config, tmp, wanted, unsure, moment, saves, seenLines, stops, overlapped>>

Stop(t) ==
    /\ saver[t] # Away /\ stops < MaxNodeStops /\ stops' = stops + 1
    /\ saver' = [saver EXCEPT ![t] = Away]
    /\ UNCHANGED <<config, tmp, wanted, unsure, lease, log, moment, saves, seenLines, ahead, overlapped>>

-----------------------------------------------------------------------------
(* A device connects: the core logs it, let through or not. *)
Connect(m, a) ==
    /\ seenLines < MaxSeen /\ seenLines' = seenLines + 1
    /\ log' = Append(log, [mail |-> m, address |-> a, at |-> moment])
    /\ UNCHANGED <<config, tmp, wanted, unsure, saver, lease, moment, saves, stops, ahead, overlapped>>
Elapse ==
    /\ moment < LastMoment /\ moment' = moment + 1
    /\ UNCHANGED <<config, tmp, wanted, unsure, saver, lease, log, saves, seenLines, stops, ahead, overlapped>>

NodeNext ==
    \/ \E t \in Savers, m \in Mails, on, provision \in BOOLEAN : LoadConfig(t, m, on, provision)
    \/ \E t \in Tasks : WriteTmp(t) \/ Swap(t) \/ RestartFails(t) \/ Stop(t)
    \/ Enforce \/ FileLeases \/ Elapse
    \/ \E m \in Mails, a \in Addresses : Connect(m, a)

NodeSpec == NodeInit /\ [][NodeNext]_nodeVars
-----------------------------------------------------------------------------
(* As long as no two tasks were at the file at a time, it has the clients   *)
(* the successful saves have left, an e-mail whose last save raised after   *)
(* the replace apart, whoever died with a temporary file of his own; and    *)
(* the rules of the leases on file, but between a pass of the enforcer that *)
(* replaced the file and failed or died before the leases, and the next one *)
(* that goes through: that one makes it good.                               *)
ConfigAsOrdered ==
    ~overlapped /\ (\A t \in Tasks : saver[t] = Away) =>
        /\ config.clients \ unsure = wanted \ unsure
        /\ ~ahead => config.rules = Rules(lease)

(* The rules let through no more addresses than the limit, white ones       *)
(* apart, and whoever has a place keeps it as long as it is seen: a pass    *)
(* never gives the place of a live address away (update_leases).            *)
PlacesKept ==
    [][\A m \in Mails :
          /\ Cardinality({a \in config'.rules[m] : <<m, a>> \notin Whitelist}) <= MaxAddresses
          /\ \A a \in Alive(lease[m], moment) : lease'[m][a] # 0]_nodeVars
=============================================================================
