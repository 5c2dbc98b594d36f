-------------------------- MODULE AnalyticsRollups --------------------------
(***************************************************************************)
(* The analytics ledger and its rollups (backend/core/analytics.py): daily *)
(* rows from analytics_events, cohorts, hourly rows and a snapshot from    *)
(* the control bot's events.                                               *)
(*                                                                         *)
(* A refresh loads what lies behind its cursor, less a day, and replaces   *)
(* the rows of every date it has found, one table and one transaction      *)
(* after the other; it moves the cursor last.  The timer, an event that    *)
(* wants fresh figures and an operator each run one in a process of their  *)
(* own, and nothing keeps two from running at once.                        *)
(***************************************************************************)
EXTENDS Naturals, FiniteSets, FiniteSetsExt, Sequences

CONSTANTS
    Facts, Starts,      \* events, by dedupe_key; those that begin a cohort
    Alarms,             \* events of the control bot
    Tables,             \* the daily tables, in the order of their rows
    Scheduled, Operator, \* the two runs that are started from outside
    Spawned,            \* processes an event may start
    DayLength, HourLength, Lookback,   \* in ticks
    RewindHours,        \* OPS_ROLLUP_REWIND_HOURS
    Retention,          \* ANALYTICS_RETENTION_DAYS, in ticks
    LastTick, MaxRefreshes, MaxTogether, MaxRunDeaths     \* bounds

Runs == {Scheduled, Operator} \union Spawned
DailyRows == {Tables[i] : i \in 1..Len(Tables)}

ASSUME RollupAssumption ==
    /\ Starts \subseteq Facts /\ Facts \intersect Alarms = {}
    /\ Len(Tables) \in Nat \ {0} /\ "cohorts" \notin DailyRows
    /\ DayLength \in Nat \ {0, 1} /\ HourLength \in Nat \ {0, 1}
    /\ {Lookback, Retention} \subseteq Nat /\ {RewindHours, LastTick} \subseteq Nat \ {0}

VARIABLES
    now,
    at, gone,           \* occurred_at of each recorded fact, 0: none; pruned facts
    backfilled,         \* history: facts the operator's backfill has recorded
    rolled,             \* the rows of a table and a day, by the facts they count
    cursor, opsCursor,  \* analytics_refresh_state, 0: None
    raised, cleared,    \* created_at and resolved_at of the alarms, 0: none
    hourly, snapshot,   \* alarms an hour's rows count; open alarms, as last counted
    asked,              \* a debounced refresh was asked for a moment ago
    run,                \* the runs: where each is and what it has in memory
    cut,                \* history: what the last replacement of a day or an hour left
                        \* out because the window began behind it
    calm, known,        \* history: the last run went through alone, and what was
                        \* on record when it read
    spent               \* runs and deaths so far

Ticks == 1..LastTick
Day(t) == (t + DayLength - 1) \div DayLength
Hour(t) == (t + HourLength - 1) \div HourLength
Ledger == {e \in Facts \ gone : at[e] # 0}
NoRun == [step |-> "idle", full |-> FALSE, from |-> 0, old |-> 0, seen |-> {}, days |-> {},
          table |-> 1, starts |-> {}, cohorts |-> {}, alone |-> FALSE, known |-> {}]

rows == <<rolled, cursor, hourly, snapshot, opsCursor>>
source == <<at, gone, backfilled, raised, cleared, asked>>
marks == <<cut, calm, known>>
rollupVars == <<now, source, rows, run, marks, spent>>

RollupInit ==
    /\ now = 1
    /\ at = [e \in Facts |-> 0] /\ gone = {} /\ backfilled = {}
    /\ rolled = [t \in DailyRows \union {"cohorts"} |-> [d \in 1..Day(LastTick) |-> {}]]
    /\ cursor = 0 /\ opsCursor = 0
    /\ raised = [a \in Alarms |-> 0] /\ cleared = [a \in Alarms |-> 0]
    /\ hourly = [h \in 1..Hour(LastTick) |-> [created |-> {}, resolved |-> {}]] /\ snapshot = {}
    /\ asked = FALSE
    /\ run = [r \in Runs |-> NoRun]
    /\ cut = {} /\ calm = FALSE /\ known = {}
    /\ spent = [runs |-> 0, deaths |-> 0]

-----------------------------------------------------------------------------
Active == {r \in Runs : run[r].step # "idle"}
Spare == Cardinality(Active) < MaxTogether /\ spent.runs < MaxRefreshes
Started(r, full, step) ==
    [s \in Runs |->
        IF s = r THEN [NoRun EXCEPT !.step = step, !.full = full, !.alone = Active = {}]
        ELSE [run[s] EXCEPT !.alone = FALSE, !.known = {}]]

(* emit_analytics_event: a dedupe_key is recorded once.  The time is taken  *)
(* before the commit, which may come a tick later.  The event may spawn a   *)
(* run, unless one was asked for a moment ago.                              *)
Record(e, t) ==
    LET idle == {s \in Spawned : run[s].step = "idle"} IN
    /\ at[e] = 0 /\ at' = [at EXCEPT ![e] = t]
    /\ asked' = TRUE
    /\ IF ~asked /\ idle # {} /\ Spare
       THEN /\ \E s \in idle : run' = Started(s, FALSE, "load")
            /\ calm' = FALSE /\ spent' = [spent EXCEPT !.runs = @ + 1]
       ELSE UNCHANGED <<run, calm, spent>>
    /\ UNCHANGED <<now, gone, raised, cleared, rows, cut, known>>

EmitEvent(e) ==
    /\ \E t \in {now, now - 1} \ {0} : Record(e, t)
    /\ UNCHANGED backfilled

(* backfill_analytics_events, by an operator: old times                     *)
BackfillEvent(e) ==
    /\ run[Operator].step = "backfill"
    /\ \E t \in 1..now : Record(e, t)
    /\ backfilled' = backfilled \union {e}

StartRun(r) ==
    /\ r \in {Scheduled, Operator} /\ run[r].step = "idle"
    /\ Spare /\ spent' = [spent EXCEPT !.runs = @ + 1]
    /\ IF r = Scheduled THEN run' = Started(r, FALSE, "load")
       ELSE \E full \in BOOLEAN, step \in {"backfill", "load"} : run' = Started(r, full, step)
    /\ calm' = FALSE
    /\ UNCHANGED <<now, source, rows, cut, known>>
EndBackfill ==
    /\ run[Operator].step = "backfill"
    /\ run' = [run EXCEPT ![Operator].step = "load"]
    /\ UNCHANGED <<now, source, rows, marks, spent>>

Moved(r, step) == run' = [run EXCEPT ![r].step = step]
OnlyRun == UNCHANGED <<now, source, rows, marks, spent>>
Earlier(t, ticks) == IF t > ticks THEN t - ticks ELSE 0
Later(x, y) == IF x > y THEN x ELSE y

(* _get_refresh_cursor, then what lies in the window: it begins a day       *)
(* before the cursor, at that instant.  With nothing in it there is nothing *)
(* to replace, no cursor to move and nothing to prune.                      *)
Loaded(r, from) ==
    LET old == IF run[r].full THEN 0 ELSE cursor
        seen == {e \in Ledger : at[e] >= from}
        starts == Ledger \intersect Starts
        recent == {a \in Alarms : raised[a] # 0 /\ raised[a] + Lookback >= now}
        nothing == seen = {} /\ old # 0 IN
    /\ run[r].step = "load"
    /\ run' = [run EXCEPT ![r].step = IF nothing THEN "ops" ELSE "rows",
                          ![r].from = from, ![r].old = old, ![r].seen = seen,
                          ![r].days = {Day(at[e]) : e \in seen},
                          ![r].starts = starts,
                          ![r].cohorts = IF nothing THEN {} ELSE {Day(at[e]) : e \in starts},
                          ![r].known = IF run[r].alone THEN Ledger \union recent ELSE {}]
    /\ OnlyRun

(* Mutant: the window begins at the cursor. *)
LoadFromCursor(r) == Loaded(r, IF run[r].full THEN 0 ELSE cursor)
LoadEvents(r) == Loaded(r, IF run[r].full THEN 0 ELSE Earlier(cursor, DayLength))

(* _replace_daily_..._rows: delete and insert, for one table and one date.  *)
ReplaceRows(r) ==
    LET d == Min(run[r].days)
        t == Tables[run[r].table]
        found == {e \in run[r].seen : Day(at[e]) = d}
        last == run[r].table = Len(Tables)
        behind == {e \in Facts : at[e] # 0 /\ Day(at[e]) = d /\ at[e] < run[r].from} IN
    /\ run[r].step = "rows" /\ run[r].days # {}
    /\ rolled' = [rolled EXCEPT ![t][d] = found]
    /\ cut' = (cut \ (found \X {t})) \union ((behind \ found) \X {t})
    /\ run' = [run EXCEPT ![r].table = IF last THEN 1 ELSE @ + 1, ![r].days = IF last THEN @ \ {d} ELSE @]
    /\ UNCHANGED <<now, source, cursor, hourly, snapshot, opsCursor, calm, known, spent>>

(* _replace_cohort_rows, for every date a cohort has begun on.              *)
ReplaceCohort(r) ==
    LET d == Min(run[r].cohorts)
        found == {e \in run[r].starts : Day(at[e]) = d} IN
    /\ run[r].step = "rows" /\ run[r].days = {} /\ run[r].cohorts # {}
    /\ rolled' = [rolled EXCEPT !["cohorts"][d] = found]
    /\ run' = [run EXCEPT ![r].cohorts = @ \ {d}]
    /\ UNCHANGED <<now, source, cursor, hourly, snapshot, opsCursor, marks, spent>>

SaveCursor(r) ==
    /\ run[r].step = "rows" /\ run[r].days = {} /\ run[r].cohorts = {}
    /\ cursor' = IF run[r].seen = {} THEN run[r].old ELSE Max({at[e] : e \in run[r].seen})
    /\ run' = [run EXCEPT ![r].step = "prune", ![r].seen = {}, ![r].starts = {}, ![r].from = 0]
    /\ UNCHANGED <<now, source, rolled, hourly, snapshot, opsCursor, marks, spent>>

PruneEvents(r) ==
    /\ run[r].step = "prune"
    /\ gone' = gone \union {e \in Ledger : at[e] + Retention < now}
    /\ run' = [run EXCEPT ![r].step = "ops", ![r].old = 0]
    /\ UNCHANGED <<now, at, backfilled, raised, cleared, asked, rows, marks, spent>>

-----------------------------------------------------------------------------
(* refresh_ops_analytics_rollups                                            *)

(* Mutant: no rewind. *)
OpsFromBare(r) ==
    LET oldest == Earlier(now, Lookback) IN
    IF run[r].full \/ opsCursor = 0 THEN oldest ELSE Later(opsCursor, oldest)
OpsFrom(r) ==
    LET oldest == Earlier(now, Lookback) IN
    IF run[r].full \/ opsCursor = 0 THEN oldest
    ELSE Later(Earlier(opsCursor, RewindHours * HourLength), oldest)

(* The alarms of the window, the open ones, the hours to replace.           *)
LoadAlarms(r) ==
    LET from == OpsFrom(r)
        new == {a \in Alarms : raised[a] # 0 /\ raised[a] >= from}
        over == {a \in Alarms : cleared[a] # 0 /\ cleared[a] >= from} IN
    /\ run[r].step = "ops"
    /\ run' = [run EXCEPT ![r].step = "hours", ![r].from = from, ![r].old = now,
                          ![r].seen = [all |-> new \union over,
                                       over |-> {a \in new \union over : cleared[a] # 0},
                                       open |-> {a \in Alarms : raised[a] # 0 /\ cleared[a] = 0}],
                          ![r].days = {Hour(now)} \union {Hour(raised[a]) : a \in new}
                                                  \union {Hour(cleared[a]) : a \in over}]
    /\ OnlyRun

ReplaceHour(r) ==
    LET h == Min(run[r].days)
        new == {a \in run[r].seen.all : Hour(raised[a]) = h}
        behind == {a \in Alarms : raised[a] # 0 /\ Hour(raised[a]) = h /\ raised[a] < run[r].from} IN
    /\ run[r].step = "hours" /\ run[r].days # {}
    /\ hourly' = [hourly EXCEPT ![h] = [created |-> new,
                                        resolved |-> {a \in run[r].seen.over : Hour(cleared[a]) = h}]]
    /\ cut' = (cut \ (new \X {"hours"})) \union ((behind \ new) \X {"hours"})
    /\ run' = [run EXCEPT ![r].days = @ \ {h}]
    /\ UNCHANGED <<now, source, rolled, cursor, snapshot, opsCursor, calm, known, spent>>

(* The snapshot of the hour, the runtime statuses and, last, the cursor.    *)
FinishRun(r) ==
    /\ run[r].step = "hours" /\ run[r].days = {}
    /\ snapshot' = run[r].seen.open
    /\ opsCursor' = run[r].old
    /\ run' = [run EXCEPT ![r] = NoRun]
    /\ calm' = run[r].alone
    /\ known' = IF run[r].alone THEN run[r].known ELSE known
    /\ UNCHANGED <<now, source, rolled, cursor, hourly, cut, spent>>

(* A run ends early: the process dies, or another has inserted the rows of  *)
(* the same bucket and the constraint refuses these.                        *)
RunDies(r) ==
    /\ run[r].step # "idle"
    /\ spent.deaths < MaxRunDeaths /\ spent' = [spent EXCEPT !.deaths = @ + 1]
    /\ run' = [run EXCEPT ![r] = NoRun]
    /\ UNCHANGED <<now, source, rows, marks>>

-----------------------------------------------------------------------------
RaiseAlarm(a) ==
    /\ raised[a] = 0
    /\ \E t \in {now, now - 1} \ {0} : raised' = [raised EXCEPT ![a] = t]
    /\ UNCHANGED <<now, at, gone, backfilled, cleared, asked, rows, run, marks, spent>>
ClearAlarm(a) ==
    /\ raised[a] # 0 /\ cleared[a] = 0
    /\ cleared' = [cleared EXCEPT ![a] = now]
    /\ UNCHANGED <<now, at, gone, backfilled, raised, asked, rows, run, marks, spent>>

(* A run takes seconds: a tick is half an hour or half a day.               *)
TickOver ==
    /\ Active = {} /\ now < LastTick /\ now' = now + 1
    /\ asked' = FALSE
    /\ UNCHANGED <<at, gone, backfilled, raised, cleared, rows, run, marks, spent>>

RunNext(r) ==
    \/ StartRun(r) \/ LoadEvents(r) \/ ReplaceRows(r)
    \/ ReplaceCohort(r) \/ SaveCursor(r) \/ PruneEvents(r)
    \/ LoadAlarms(r) \/ ReplaceHour(r) \/ FinishRun(r) \/ RunDies(r)
RollupNext ==
    \/ \E e \in Facts : EmitEvent(e) \/ BackfillEvent(e)
    \/ \E a \in Alarms : RaiseAlarm(a) \/ ClearAlarm(a)
    \/ \E r \in Runs : RunNext(r)
    \/ EndBackfill \/ TickOver

RollupSpec == RollupInit /\ [][RollupNext]_rollupVars
-----------------------------------------------------------------------------
(* When the last run has gone through alone - whatever died or ran into     *)
(* another before it - every daily table counts every fact that was on      *)
(* record when it read, in the rows of its day, and the cohorts every one   *)
(* that begins one.  Exceptions: facts a backfill has recorded behind the   *)
(* window, and, in the daily tables, facts before the window in the day it  *)
(* begins in: the rows of that day are replaced without them.               *)
DaysAsRecorded ==
    calm => \A e \in known \intersect (Facts \ backfilled) :
        /\ \A t \in DailyRows : e \in rolled[t][Day(at[e])] \/ <<e, t>> \in cut
        /\ e \in Starts => e \in rolled["cohorts"][Day(at[e])]

(* So do the hourly rows with the alarms of the last thirty days, but for   *)
(* those before the window in the hour it begins in; and nothing is counted *)
(* in an hour it does not belong to or as resolved before it was.           *)
HoursAsRecorded ==
    /\ calm => \A a \in known \intersect Alarms :
          a \in hourly[Hour(raised[a])].created \/ <<a, "hours">> \in cut
    /\ \A h \in DOMAIN hourly : \A a \in hourly[h].resolved : cleared[a] # 0 /\ Hour(cleared[a]) = h
=============================================================================
