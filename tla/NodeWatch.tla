----------------------------- MODULE NodeWatch -----------------------------
(***************************************************************************)
(* The watchdog of the nodes (ops/server_watchdog.py) and the events of    *)
(* the control bot it creates (control_bot/dispatcher.py).                 *)
(*                                                                         *)
(* A pass reads its file of incidents, looks at all nodes at once and goes *)
(* from one to the next: the event with its message to administrators, the *)
(* messages to users, its memory.  It writes the file at the end: a pass   *)
(* that dies has told everyone and remembers nothing.                      *)
(***************************************************************************)
EXTENDS Naturals, FiniteSets, FiniteSetsExt

CONSTANTS
    Nodes,              \* managed servers, numbers
    Muted,              \* nodes whose administrators hear of "down" only
    Threshold,          \* WATCHDOG_CONFIRMATION_THRESHOLDS
    Cooldown,           \* control_infra_cooldown_seconds, in ticks
    MaxPasses, MaxHealthChanges, MaxPassDeaths,
    LastTick            \* bounds

Kinds == {"down", "overloaded", "degraded"}

ASSUME WatchAssumption ==
    /\ Nodes \subseteq Nat /\ IsFiniteSet(Nodes) /\ Muted \subseteq Nodes
    /\ Threshold \in [Kinds -> Nat \ {0}] /\ Cooldown \in Nat

VARIABLES
    health,             \* "ok", a kind, or "gone" from the fleet
    clock, night,       \* time; CONTROL_NIGHT_HOURS with critical events only
    incidents, pending, \* the file
    pass,               \* the pass: where it is, what it has in memory
    open,               \* unresolved events: node, kind, "alarm" or "over"
    sentAt,             \* last_sent_at of each of them, 0: None
    alarmed,            \* history: when each alarm was last sent, 0 once resolved
    told,               \* nodes whose users were told of works, not of their end
    limits,             \* passes, changes of health and deaths so far
    astray, shifted,    \* history: nodes a pass died over or that left the
                        \* fleet; nodes whose incident changed its kind
    unrecorded          \* history: nodes a pass died over with an alarm sent
                        \* and its event not yet committed

world == <<health, clock, night>>
file == <<incidents, pending>>
watchVars == <<world, file, pass, open, sentAt, alarmed, told, limits, astray, shifted,
               unrecorded>>

Calm == [n \in Nodes |-> "none"]
Uncounted == [kind |-> "none", count |-> 0]
Asleep == [step |-> "asleep", todo |-> {}, seen |-> Calm, incidents |-> Calm,
           pending |-> [n \in Nodes |-> Uncounted], over |-> FALSE, sent |-> FALSE]
EventKeys == Nodes \X Kinds \X {"alarm", "over"}

WatchInit ==
    /\ health \in [Nodes -> {"ok", "gone"}] /\ Cardinality({n \in Nodes : health[n] = "ok"}) = 1
    /\ clock = 1 /\ night \in BOOLEAN
    /\ incidents = Calm /\ pending = [n \in Nodes |-> Uncounted]
    /\ pass = Asleep
    /\ open = {} /\ sentAt = [e \in EventKeys |-> 0] /\ alarmed = [n \in Nodes |-> [k \in Kinds |-> 0]]
    /\ told = {}
    /\ limits = [passes |-> 0, changes |-> 0, deaths |-> 0]
    /\ astray = {} /\ shifted = {} /\ unrecorded = {}

-----------------------------------------------------------------------------
(* One look more that saw this kind; a look at another starts over. *)
Advanced(p, kind) == [kind |-> kind, count |-> IF p.kind = kind THEN p.count + 1 ELSE 1]

WakePass ==
    /\ pass = Asleep
    /\ limits.passes < MaxPasses /\ limits' = [limits EXCEPT !.passes = @ + 1]
    /\ pass' = [Asleep EXCEPT !.step = "look", !.seen = health,
                              !.todo = {n \in Nodes : health[n] # "gone"},
                              !.incidents = incidents, !.pending = pending]
    /\ UNCHANGED <<world, file, open, sentAt, alarmed, told, astray, shifted, unrecorded>>

N == Min(pass.todo)
Seen == pass.seen[N]
Incident == pass.incidents[N]
Done(p) == [p EXCEPT !.step = "look", !.todo = @ \ {N}, !.over = FALSE, !.sent = FALSE]
Looking == pass.step = "look" /\ pass.todo # {}
OnlyPass == UNCHANGED <<world, file, open, sentAt, alarmed, told, limits, astray, shifted, unrecorded>>

(* The node is well: the count is dropped, an incident ends. *)
LookWell ==
    LET p == [pass EXCEPT !.pending[N] = Uncounted] IN
    /\ Looking /\ Seen = "ok"
    /\ pass' = IF Incident = "none" THEN Done(p) ELSE [p EXCEPT !.step = "event", !.over = TRUE]
    /\ OnlyPass

(* Not well, and no incident yet: _advance_pending *)
LookBad ==
    LET p == [pass EXCEPT !.pending[N] = Advanced(@, Seen)] IN
    /\ Looking /\ Seen \in Kinds /\ Incident = "none"
    /\ pass' = IF p.pending[N].count >= Threshold[Seen] THEN [p EXCEPT !.step = "event"] ELSE Done(p)
    /\ OnlyPass

(* The incident is of another kind now, or of the same. *)
LookAgain ==
    /\ Looking /\ Seen \in Kinds /\ Incident # "none"
    /\ pass' = IF Seen = Incident THEN Done(pass) ELSE [pass EXCEPT !.step = "event"]
    /\ OnlyPass

-----------------------------------------------------------------------------
(* create_control_event: events of the kind before are resolved, then the   *)
(* unresolved event of this key is found or made; the message goes out in   *)
(* the middle of the transaction.                                           *)
EventKey == IF pass.over THEN <<N, Incident, "over">> ELSE <<N, Seen, "alarm">>
Resolved == IF Incident = "none" THEN {}
            ELSE {e \in EventKeys : e[1] = N /\ e[2] = Incident}
Unheard == N \in Muted /\ EventKey[2] # "down"

(* Mutant: an event that is still in force is always worth a message. *)
DueAlways == (EventKey[2] = "down" /\ EventKey[3] = "alarm") \/ ~night
Due ==
    LET e == EventKey IN
    /\ (e[2] = "down" /\ e[3] = "alarm") \/ ~night
    /\ e \in open \ Resolved /\ sentAt[e] # 0 => clock - sentAt[e] >= Cooldown

SendEvent ==
    /\ pass.step = "event"
    /\ IF Unheard THEN pass' = [pass EXCEPT !.step = "users"] /\ UNCHANGED alarmed
       ELSE \E delivered \in (IF Due THEN BOOLEAN ELSE {FALSE}) :
               /\ pass' = [pass EXCEPT !.step = "commit", !.sent = delivered]
               /\ alarmed' = IF delivered /\ ~pass.over THEN [alarmed EXCEPT ![N][Seen] = clock] ELSE alarmed
    /\ UNCHANGED <<world, file, open, sentAt, told, limits, astray, shifted, unrecorded>>

CommitEvent ==
    LET e == EventKey IN
    /\ pass.step = "commit"
    /\ open' = (open \ Resolved) \union {e}
    /\ sentAt' = [sentAt EXCEPT ![e] = IF pass.sent THEN clock
                                       ELSE IF e \in open \ Resolved THEN @ ELSE 0]
    /\ alarmed' = [alarmed EXCEPT ![N] = [k \in Kinds |-> IF k = Incident THEN 0 ELSE @[k]]]
    /\ pass' = [pass EXCEPT !.step = "users"]
    /\ UNCHANGED <<world, file, told, limits, astray, shifted, unrecorded>>

(* Mutant: users are told of works whatever is wrong with the node. *)
TellUsersOfAll ==
    /\ pass.step = "users"
    /\ told' = IF pass.over THEN (IF Incident = "down" THEN told \ {N} ELSE told)
               ELSE told \union {N}
    /\ pass' = [pass EXCEPT !.step = "note"]
    /\ UNCHANGED <<world, file, open, sentAt, alarmed, limits, astray, shifted, unrecorded>>

(* _notify_affected_users: of works when the node is down, of their end     *)
(* when an incident that began as "down" is over.                           *)
TellUsers ==
    /\ pass.step = "users"
    /\ told' = IF pass.over THEN (IF Incident = "down" THEN told \ {N} ELSE told)
               ELSE IF Seen = "down" THEN told \union {N} ELSE told
    /\ pass' = [pass EXCEPT !.step = "note"]
    /\ UNCHANGED <<world, file, open, sentAt, alarmed, limits, astray, shifted, unrecorded>>

(* Mutant: the incident is not remembered when it changes its kind or is    *)
(* new, only when it ends.                                                  *)
NoteIncidentAtEnd ==
    /\ pass.step = "note"
    /\ pass' = Done([pass EXCEPT !.incidents[N] = IF pass.over THEN "none" ELSE @,
                                 !.pending[N] = Uncounted])
    /\ shifted' = IF Incident # "none" /\ ~pass.over THEN shifted \union {N} ELSE shifted
    /\ UNCHANGED <<world, file, open, sentAt, alarmed, told, limits, astray, unrecorded>>

(* The incident in memory; an audit row, which may fail. *)
NoteIncident ==
    /\ pass.step = "note"
    /\ pass' = Done([pass EXCEPT !.incidents[N] = IF pass.over THEN "none" ELSE Seen,
                                 !.pending[N] = Uncounted])
    /\ shifted' = IF Incident # "none" /\ ~pass.over THEN shifted \union {N} ELSE shifted
    /\ UNCHANGED <<world, file, open, sentAt, alarmed, told, limits, astray, unrecorded>>

(* Incidents of nodes that left the fleet are dropped, the file is written. *)
SavePass ==
    LET stale == {n \in Nodes : pass.seen[n] = "gone" /\ pass.incidents[n] # "none"} IN
    /\ pass.step = "look" /\ pass.todo = {}
    /\ incidents' = [n \in Nodes |-> IF n \in stale THEN "none" ELSE pass.incidents[n]]
    /\ pending' = [n \in Nodes |-> IF n \in stale THEN Uncounted ELSE pass.pending[n]]
    /\ astray' = astray \union stale
    /\ pass' = Asleep
    /\ UNCHANGED <<world, open, sentAt, alarmed, told, limits, shifted, unrecorded>>

(* The pass dies, or what it calls raises: the event's transaction is       *)
(* rolled back, the messages are out.                                       *)
PassDies ==
    /\ pass # Asleep
    /\ limits.deaths < MaxPassDeaths /\ limits' = [limits EXCEPT !.deaths = @ + 1]
    /\ astray' = astray \union {n \in Nodes : pass.incidents[n] # incidents[n]}
                        \union (IF pass.step = "look" THEN {} ELSE {N})
    /\ unrecorded' = IF pass.sent /\ pass.step = "commit" THEN unrecorded \union {N} ELSE unrecorded
    /\ pass' = Asleep
    /\ UNCHANGED <<world, file, open, sentAt, alarmed, told, shifted>>

-----------------------------------------------------------------------------
(* The world: what a snapshot of a node comes to, time.  A pass looks once, *)
(* so what changes meanwhile may as well change behind it.                  *)
ChangeHealth(n) ==
    /\ pass = Asleep
    /\ limits.changes < MaxHealthChanges /\ limits' = [limits EXCEPT !.changes = @ + 1]
    /\ \E h \in (Kinds \union {"ok", "gone"}) \ {health[n]} : health' = [health EXCEPT ![n] = h]
    /\ UNCHANGED <<clock, night, file, pass, open, sentAt, alarmed, told, astray, shifted,
                   unrecorded>>
PassTime ==
    /\ pass = Asleep /\ clock < LastTick /\ clock' = clock + 1
    /\ UNCHANGED <<health, night, file, pass, open, sentAt, alarmed, told, limits,
                   astray, shifted, unrecorded>>

WatchNext ==
    \/ WakePass \/ LookWell \/ LookBad \/ LookAgain
    \/ SendEvent \/ CommitEvent \/ TellUsers \/ NoteIncident
    \/ SavePass \/ PassDies \/ PassTime
    \/ \E n \in Nodes : ChangeHealth(n)

WatchSpec == WatchInit /\ [][WatchNext]_watchVars
-----------------------------------------------------------------------------
(* Between passes the unresolved alarms of the control bot are the          *)
(* incidents on file: for a node no pass died over and that never left the  *)
(* fleet.  (A muted node keeps its alarm when the kind has changed, and has *)
(* no other than "down".)                                                   *)
AlarmsMatchFile ==
    pass = Asleep => \A n \in Nodes \ astray : \A k \in Kinds :
        IF n \in Muted
        THEN n \notin shifted => (<<n, "down", "alarm">> \in open <=> incidents[n] = "down")
        ELSE <<n, k, "alarm">> \in open <=> incidents[n] = k

(* Between passes the users who wait for the end of works are those of an   *)
(* incident "down" on file: under the same exceptions, and unless the       *)
(* incident changed its kind - then nobody tells them.                      *)
UsersHearTheEnd ==
    pass = Asleep => \A n \in Nodes \ (astray \union shifted) :
        n \in told <=> incidents[n] = "down"

(* An alarm that is still unresolved is not sent again within the cooldown, *)
(* though passes die and start over - unless one dies between the message   *)
(* and the commit that remembers it.                                        *)
AlarmsSpaced ==
    [][\A n \in Nodes \ unrecorded : \A k \in Kinds :
          alarmed'[n][k] > alarmed[n][k] /\ alarmed[n][k] # 0 =>
              alarmed'[n][k] - alarmed[n][k] >= Cooldown]_watchVars
=============================================================================
